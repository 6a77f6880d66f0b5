----------------------------- MODULE MCEventCog -----------------------------
(***************************************************************************)
(* Small instances of EventCog for TLC.  Members and clickers are          *)
(* interchangeable; symmetry is used for safety runs only.                 *)
(***************************************************************************)
EXTENDS EventCog, TLC

Symmetry == Permutations(Members) \cup Permutations(Clickers)
=============================================================================
