--------------------------- MODULE MCServerLinks ---------------------------
(* Small instances of ServerLinks for TLC. *)
EXTENDS ServerLinks, TLC

Symmetry == Permutations(Guilds) \cup Permutations(Handlers)
=============================================================================
