------------------------------- MODULE MCBoot -------------------------------
EXTENDS Boot, TLC

MCStatements == <<2, 1>>

Symmetry == Permutations(Guilds)
=============================================================================
