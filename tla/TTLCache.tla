------------------------------ MODULE TTLCache ------------------------------
(***************************************************************************)
(* The TTL cache with single-flight fetches (cache.py).  get_or_fetch runs *)
(* undisturbed up to its one await: the leader awaits the factory, the     *)
(* others await the leader's future, so that a caller who is cancelled     *)
(* while he waits cancels the future itself.                               *)
(***************************************************************************)
EXTENDS Naturals

CONSTANTS
    Keys,
    Callers,
    Nil,         \* no caller, no entry
    TTL,
    MaxNow,      \* bound on the clock
    MaxVersion,  \* bound on changes of what the factory asks for
    MaxCancels   \* bound on cancelled callers

ASSUME NilAssumption == Nil \notin Callers
ASSUME BoundsAssumption == {TTL, MaxNow, MaxVersion, MaxCancels} \subseteq Nat

VARIABLES
    entries,   \* _entries
    flight,    \* _inflight: the caller who leads the fetch of a key
    dead,      \* that fetch's future was cancelled by one of its waiters
    call,      \* the call each caller is in: its stage, key and value
    outcome,   \* how each caller's last call ended
    source,    \* version of what the factory would return now
    floor,     \* its version when the key was last invalidated
    cancelled, \* callers who were cancelled in their last call
    now, cancels

vars == <<entries, flight, dead, call, outcome, source, floor, cancelled,
          now, cancels>>

-----------------------------------------------------------------------------
Entry == [value : Nat, expires : Nat]
Call == [pc : {"idle", "fetch", "answered", "wait"}, key : Keys \cup {Nil},
         value : Nat]
Outcome == [is : {"none", "value", "error", "cancelled"}, key : Keys \cup {Nil},
            value : Nat]

Idle == [pc |-> "idle", key |-> Nil, value |-> 0]
Ended(is, k, v) == [is |-> is, key |-> k, value |-> v]

Fresh(k) == entries[k] # Nil /\ now < entries[k].expires
Waiting(k) == {c \in Callers : call[c].pc = "wait" /\ call[c].key = k}

\* The callers in S return.
Return(S, o) ==
    /\ call' = [c \in Callers |-> IF c \in S THEN Idle ELSE call[c]]
    /\ outcome' = [c \in Callers |-> IF c \in S THEN o ELSE outcome[c]]

Init ==
    /\ entries = [k \in Keys |-> Nil]
    /\ flight = [k \in Keys |-> Nil] /\ dead = [k \in Keys |-> FALSE]
    /\ call = [c \in Callers |-> Idle]
    /\ outcome = [c \in Callers |-> Ended("none", Nil, 0)]
    /\ source = [k \in Keys |-> 0] /\ floor = [k \in Keys |-> 0]
    /\ cancelled = {} /\ now = 0 /\ cancels = 0

-----------------------------------------------------------------------------
(***************************************************************************)
(* get_or_fetch, up to its await                                           *)
(***************************************************************************)
Enter(c) ==
    /\ call[c] = Idle
    /\ cancelled' = cancelled \ {c}
    /\ UNCHANGED <<source, floor, now, cancels>>

Hit(c, k) ==
    /\ Enter(c) /\ Fresh(k)
    /\ Return({c}, Ended("value", k, entries[k].value))
    /\ UNCHANGED <<entries, flight, dead>>

\* An expired entry is deleted, one that force_refresh bypasses stays.
Miss(c, k, force) ==
    /\ Enter(c) /\ (force \/ ~Fresh(k))
    /\ entries' = IF force THEN entries ELSE [entries EXCEPT ![k] = Nil]

Join(c, k, force) ==
    /\ Miss(c, k, force)
    /\ flight[k] # Nil
    /\ IF dead[k]
       THEN Return({c}, Ended("cancelled", k, 0))
       ELSE /\ call' = [call EXCEPT ![c] = [pc |-> "wait", key |-> k, value |-> 0]]
            /\ UNCHANGED outcome
    /\ UNCHANGED <<flight, dead>>

\* Mutant of Lead: nobody looks whether the key is being fetched.
LeadRegardless(c, k, force) ==
    /\ Miss(c, k, force)
    /\ flight' = [flight EXCEPT ![k] = c] /\ dead' = [dead EXCEPT ![k] = FALSE]
    /\ call' = [call EXCEPT ![c] = [pc |-> "fetch", key |-> k, value |-> 0]]
    /\ UNCHANGED outcome

Lead(c, k, force) ==
    /\ Miss(c, k, force)
    /\ flight[k] = Nil
    /\ flight' = [flight EXCEPT ![k] = c] /\ dead' = [dead EXCEPT ![k] = FALSE]
    /\ call' = [call EXCEPT ![c] = [pc |-> "fetch", key |-> k, value |-> 0]]
    /\ UNCHANGED outcome

-----------------------------------------------------------------------------
\* The factory gets its answer; the leader is resumed later.
Answer(c) ==
    /\ call[c].pc = "fetch"
    /\ call' = [call EXCEPT ![c].pc = "answered",
                            ![c].value = source[call[c].key]]
    /\ UNCHANGED <<entries, flight, dead, outcome, source, floor, cancelled,
                   now, cancels>>

\* Mutant of Land: the future is dropped without a result.
LandAlone(c, o) ==
    LET k == call[c].key IN
    /\ Return({c}, o)
    /\ flight' = [flight EXCEPT ![k] = Nil] /\ dead' = [dead EXCEPT ![k] = FALSE]

\* The leader leaves, and with him, through the future, those who wait.
Land(c, o) ==
    LET k == call[c].key IN
    /\ Return({c} \cup Waiting(k), o)
    /\ flight' = [flight EXCEPT ![k] = Nil] /\ dead' = [dead EXCEPT ![k] = FALSE]

\* Mutant of Store: the entry has no expiry.
StoreForever(c) ==
    LET k == call[c].key IN
    /\ call[c].pc = "answered"
    /\ Land(c, Ended("value", k, call[c].value))
    /\ entries' = [entries EXCEPT ![k] = [value |-> call[c].value,
                                          expires |-> Nil]]
    /\ UNCHANGED <<source, floor, cancelled, now, cancels>>

Store(c) ==
    LET k == call[c].key IN
    /\ call[c].pc = "answered"
    /\ Land(c, Ended("value", k, call[c].value))
    /\ entries' = [entries EXCEPT ![k] = [value |-> call[c].value,
                                          expires |-> now + TTL]]
    /\ UNCHANGED <<source, floor, cancelled, now, cancels>>

Fail(c) ==
    /\ call[c].pc = "fetch"
    /\ Land(c, Ended("error", call[c].key, 0))
    /\ UNCHANGED <<entries, source, floor, cancelled, now, cancels>>

-----------------------------------------------------------------------------
Cancel(c) ==
    LET k == call[c].key IN
    /\ call[c].pc # "idle"
    /\ cancels < MaxCancels /\ cancels' = cancels + 1
    /\ cancelled' = cancelled \cup {c}
    /\ IF call[c].pc = "wait"
       THEN /\ Return(Waiting(k), Ended("cancelled", k, 0))
            /\ dead' = [dead EXCEPT ![k] = TRUE] /\ UNCHANGED flight
       ELSE Land(c, Ended("cancelled", k, 0))
    /\ UNCHANGED <<entries, source, floor, now>>

\* What the factory asks for changes ...
Changes(k) ==
    /\ source[k] < MaxVersion /\ source' = [source EXCEPT ![k] = @ + 1]
    /\ UNCHANGED <<entries, flight, dead, call, outcome, floor, cancelled, now,
                   cancels>>

\* ... and whoever changed it calls invalidate, or clear for every key.
Drop(S) ==
    /\ entries' = [k \in Keys |-> IF k \in S THEN Nil ELSE entries[k]]
    /\ floor' = [k \in Keys |-> IF k \in S THEN source[k] ELSE floor[k]]
    /\ UNCHANGED <<flight, dead, call, outcome, source, cancelled, now, cancels>>

Invalidate(k) == Drop({k})
Clear == Drop(Keys)

TimePasses ==
    /\ now < MaxNow /\ now' = now + 1
    /\ UNCHANGED <<entries, flight, dead, call, outcome, source, floor,
                   cancelled, cancels>>

Next ==
    \/ \E c \in Callers, k \in Keys :
          \/ Hit(c, k)
          \/ \E force \in BOOLEAN : Join(c, k, force) \/ Lead(c, k, force)
    \/ \E c \in Callers : Answer(c) \/ Store(c) \/ Fail(c) \/ Cancel(c)
    \/ \E k \in Keys : Changes(k) \/ Invalidate(k)
    \/ Clear \/ TimePasses

Spec == Init /\ [][Next]_vars

\* The factory returns or raises, and asyncio resumes whoever awaited it.
Fairness == \A c \in Callers : WF_vars(Answer(c) \/ Store(c) \/ Fail(c))
FairSpec == Spec /\ Fairness

-----------------------------------------------------------------------------
TypeOK ==
    /\ entries \in [Keys -> Entry \cup {Nil}]
    /\ flight \in [Keys -> Callers \cup {Nil}] /\ dead \in [Keys -> BOOLEAN]
    /\ call \in [Callers -> Call] /\ outcome \in [Callers -> Outcome]
    /\ source \in [Keys -> Nat] /\ floor \in [Keys -> Nat]
    /\ cancelled \in SUBSET Callers /\ now \in Nat /\ cancels \in Nat

Leading(c, k) == call[c].pc \in {"fetch", "answered"} /\ call[c].key = k

\* "exactly one outbound request happens" (cache.py): no two callers fetch one
\* key at once, and nobody waits for a fetch that nobody is making or whose
\* future is already done.
SingleFlight ==
    \A k \in Keys :
        /\ \A c, d \in Callers : Leading(c, k) /\ Leading(d, k) => c = d
        /\ Waiting(k) # {} => ~dead[k] /\ \E c \in Callers : Leading(c, k)

\* The inductive invariant: _inflight names the leader.
FlightInv ==
    /\ \A c \in Callers : call[c].pc # "idle" => call[c].key \in Keys
    /\ \A k \in Keys : flight[k] # Nil => Leading(flight[k], k)
    /\ \A c \in Callers, k \in Keys : Leading(c, k) => flight[k] = c
    /\ \A k \in Keys : Waiting(k) # {} => flight[k] # Nil /\ ~dead[k]

\* Every call returns, as long as the factory does: the future is settled and
\* taken out of _inflight on every path (the "finally").
CallsReturn == \A c \in Callers : call[c].pc # "idle" ~> call[c].pc = "idle"

\* "both callers receive the same result (or the same exception)": a caller is
\* not cancelled because another one was.
CancelledAlone ==
    \A c \in Callers : outcome[c].is = "cancelled" => c \in cancelled

\* "invalidate forces the next call to refetch" (tests/test_cache.py): no call
\* is served from the cache with what was invalidated before it.
InvalidatedIsGone ==
    \A k \in Keys : Fresh(k) => entries[k].value >= floor[k]
=============================================================================
