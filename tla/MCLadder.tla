------------------------------ MODULE MCLadder ------------------------------
EXTENDS Ladder, TLC

\* Handlers and names are interchangeable in every property.
Symmetry == Permutations(Handlers) \cup Permutations(Names)
=============================================================================
