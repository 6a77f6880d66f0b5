------------------------------ MODULE MCTeams ------------------------------
EXTENDS Teams, TLC

\* Handlers and names are interchangeable in every safety property.
Symmetry == Permutations(Handlers) \cup Permutations(Names)
=============================================================================
