--------------------------- MODULE EventLifecycle ---------------------------
(***************************************************************************)
(* What the events component promises about one event, and nothing of how  *)
(* it does it: an event is opened once, may be closed, and ends once, as   *)
(* "done" or "cancelled" (services/events.py, _ALLOWED_TRANSITIONS); it    *)
(* ends only after its role has been wound up, that is deleted, or left    *)
(* behind because Discord refused to delete it.                            *)
(***************************************************************************)
CONSTANT Events

VARIABLES stage,   \* the event's status, "absent" before it exists
          woundUp  \* the event's role is gone, or Discord kept it

vars == <<stage, woundUp>>

Live == {"open", "closed"}
Terminal == {"done", "cancelled"}

Init ==
    /\ stage = [e \in Events |-> "absent"]
    /\ woundUp = [e \in Events |-> FALSE]

Open(e) ==
    /\ stage[e] = "absent"
    /\ stage' = [stage EXCEPT ![e] = "open"]
    /\ UNCHANGED woundUp

Close(e) ==
    /\ stage[e] = "open"
    /\ stage' = [stage EXCEPT ![e] = "closed"]
    /\ UNCHANGED woundUp

WindUp(e) ==
    /\ woundUp' = [woundUp EXCEPT ![e] = TRUE]
    /\ UNCHANGED stage

End(e) ==
    /\ stage[e] \in Live
    /\ woundUp[e]
    /\ \E s \in Terminal : stage' = [stage EXCEPT ![e] = s]
    /\ UNCHANGED woundUp

Next == \E e \in Events : Open(e) \/ Close(e) \/ WindUp(e) \/ End(e)

Spec == Init /\ [][Next]_vars
=============================================================================
