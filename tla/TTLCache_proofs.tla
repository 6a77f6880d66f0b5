-------------------------- MODULE TTLCache_proofs --------------------------
(***************************************************************************)
(* Proofs about TTLCache and about RconConnection, which MCTTLCache sets   *)
(* beside it: _inflight names the one caller who fetches a key, so fetches *)
(* are single-flight and nobody waits in vain; and a link has one          *)
(* connection, whatever its watchdog is doing when it is closed.           *)
(***************************************************************************)
EXTENDS MCTTLCache, TLAPS

CacheInv == TypeOK /\ FlightInv

LEMMA IdleCall == Idle \in Call
BY DEF Idle, Call

LEMMA CacheInit == Init => CacheInv
BY IdleCall, NilAssumption
DEF Init, CacheInv, TypeOK, FlightInv, Ended, Outcome, Leading, Waiting, Idle

\* Callers who return leave typed records behind.
LEMMA ReturnTyped ==
    ASSUME TypeOK, NEW S, NEW o \in Outcome, Return(S, o)
    PROVE  /\ call' \in [Callers -> Call] /\ outcome' \in [Callers -> Outcome]
           /\ \A c \in Callers : call'[c] = IF c \in S THEN Idle ELSE call[c]
BY IdleCall DEF TypeOK, Return

\* When the leader of a key lands, the key has neither leader nor waiters.
LEMMA LandStep ==
    ASSUME CacheInv, NEW c \in Callers, call[c].pc \in {"fetch", "answered"},
           NEW o \in Outcome, Land(c, o)
    PROVE  /\ FlightInv'
           /\ call' \in [Callers -> Call] /\ outcome' \in [Callers -> Outcome]
           /\ flight' \in [Keys -> Callers \cup {Nil}] /\ dead' \in [Keys -> BOOLEAN]
<1> DEFINE k == call[c].key
           S == {c} \cup Waiting(k)
<1>1. TypeOK /\ FlightInv /\ call[c] \in Call
  BY DEF CacheInv, TypeOK
<1> k \in Keys
  BY <1>1 DEF FlightInv
<1>2. /\ call' \in [Callers -> Call] /\ outcome' \in [Callers -> Outcome]
      /\ \A d \in Callers : call'[d] = IF d \in S THEN Idle ELSE call[d]
  BY <1>1, ReturnTyped DEF Land
<1>3. /\ flight' = [flight EXCEPT ![k] = Nil]
      /\ dead' = [dead EXCEPT ![k] = FALSE]
  BY DEF Land
<1>4. flight' \in [Keys -> Callers \cup {Nil}] /\ dead' \in [Keys -> BOOLEAN]
  BY <1>1, <1>3 DEF TypeOK
<1>5. ASSUME NEW d \in Callers, NEW j \in Keys
      PROVE  /\ Leading(d, j)' => Leading(d, j) /\ d # c
             /\ d \in Waiting(j)' => d \in Waiting(j) /\ j # k
             /\ j # k /\ Leading(d, j) => Leading(d, j)'
  BY <1>2 DEF Leading, Waiting, Idle
<1>6. ASSUME NEW d \in Callers, NEW j \in Keys, Leading(d, j)'
      PROVE  j # k
  BY <1>1, <1>5, <1>6 DEF FlightInv, Leading
<1>7. FlightInv'
  <2>1. \A j \in Keys : flight'[j] # Nil => flight'[j] = flight[j] /\ j # k
    BY <1>1, <1>3 DEF TypeOK
  <2>2. \A j \in Keys : j # k => flight'[j] = flight[j] /\ dead'[j] = dead[j]
    BY <1>1, <1>3 DEF TypeOK
  <2>3. \A j \in Keys : flight[j] # Nil => flight[j] \in Callers
    BY <1>1 DEF TypeOK
  <2>4. \A j \in Keys, d \in Callers : flight'[j] = d /\ d # Nil => Leading(d, j)'
    BY <1>1, <1>5, <2>1, <2>3 DEF FlightInv
  <2>5. \A d \in Callers, j \in Keys : Leading(d, j)' => flight'[j] = d
    BY <1>1, <1>5, <1>6, <2>2 DEF FlightInv
  <2>6. \A j \in Keys : Waiting(j)' # {} => flight'[j] # Nil /\ ~dead'[j]
    BY <1>1, <1>5, <2>2 DEF FlightInv, Waiting
  <2>7. \A d \in Callers : call'[d].pc # "idle" => call'[d].key \in Keys
    BY <1>1, <1>2 DEF FlightInv, Idle
  <2>8. (\A j \in Keys : flight[j] # Nil => Leading(flight[j], j))'
    BY <2>1, <2>3, <2>4 DEF Leading
  <2> HIDE DEF k, S
  <2> QED BY <2>5, <2>6, <2>7, <2>8 DEF FlightInv
<1> QED BY <1>2, <1>4, <1>7

LEMMA CacheStep == CacheInv /\ [Next]_vars => CacheInv'
<1> SUFFICES ASSUME CacheInv, [Next]_vars PROVE CacheInv'
  OBVIOUS
<1> USE DEF CacheInv
<1>1. CASE UNCHANGED vars
  BY <1>1 DEF TypeOK, FlightInv, Leading, Waiting, vars
<1>2. ASSUME NEW c \in Callers, NEW k \in Keys, Hit(c, k) PROVE CacheInv'
  <2>1. Ended("value", k, entries[k].value) \in Outcome
    BY <1>2 DEF Hit, Fresh, TypeOK, Entry, Outcome, Ended
  <2>2. /\ call' \in [Callers -> Call] /\ outcome' \in [Callers -> Outcome]
        /\ \A d \in Callers : call'[d] = call[d]
    BY <1>2, <2>1, ReturnTyped DEF Hit, Enter
  <2> QED BY <1>2, <2>2
    DEF Hit, Enter, TypeOK, FlightInv, Leading, Waiting
<1>3. ASSUME NEW c \in Callers, NEW k \in Keys, NEW force \in BOOLEAN,
             Join(c, k, force)
      PROVE  CacheInv'
  <2>1. call[c] = Idle /\ flight[k] # Nil /\ UNCHANGED <<flight, dead>>
    BY <1>3 DEF Join, Miss, Enter
  <2>2. CASE dead[k]
    <3>1. Ended("cancelled", k, 0) \in Outcome
      BY DEF Outcome, Ended
    <3>2. /\ call' \in [Callers -> Call] /\ outcome' \in [Callers -> Outcome]
          /\ \A d \in Callers : call'[d] = call[d]
      BY <1>3, <2>1, <2>2, <3>1, ReturnTyped DEF Join
    <3> QED BY <1>3, <2>1, <3>2
      DEF Join, Miss, Enter, TypeOK, FlightInv, Leading, Waiting
  <2>3. CASE ~dead[k]
    <3>1. call' = [call EXCEPT ![c] = [pc |-> "wait", key |-> k, value |-> 0]]
          /\ outcome' = outcome
      BY <1>3, <2>3 DEF Join
    <3>2. /\ call' \in [Callers -> Call]
          /\ call'[c] = [pc |-> "wait", key |-> k, value |-> 0]
          /\ \A d \in Callers \ {c} : call'[d] = call[d]
      BY <3>1 DEF TypeOK, Call
    <3>3. FlightInv'
      <4>1. \A d \in Callers, j \in Keys : Leading(d, j)' <=> Leading(d, j)
        BY <2>1, <3>2 DEF Leading, Idle
      <4>2. \A j \in Keys : j # k => Waiting(j)' = Waiting(j)
        BY <2>1, <3>2 DEF Waiting, Idle
      <4>3. \A j \in Keys : flight[j] # Nil => flight[j] \in Callers
        BY DEF TypeOK
      <4>4. \A d \in Callers : call'[d].pc # "idle" => call'[d].key \in Keys
        BY <3>2 DEF FlightInv
      <4>5. (\A j \in Keys : flight[j] # Nil => Leading(flight[j], j))'
        BY <2>1, <4>1, <4>3 DEF FlightInv, Leading
      <4> QED BY <2>1, <2>3, <4>1, <4>2, <4>4, <4>5 DEF FlightInv
    <3> QED BY <1>3, <2>1, <3>1, <3>2, <3>3 DEF Join, Miss, Enter, TypeOK
  <2> QED BY <2>2, <2>3 DEF TypeOK
<1>4. ASSUME NEW c \in Callers, NEW k \in Keys, NEW force \in BOOLEAN,
             Lead(c, k, force)
      PROVE  CacheInv'
  <2>1. /\ call[c] = Idle /\ flight[k] = Nil
        /\ flight' = [flight EXCEPT ![k] = c]
        /\ dead' = [dead EXCEPT ![k] = FALSE]
    BY <1>4 DEF Lead, Miss, Enter
  <2>2. /\ call' \in [Callers -> Call] /\ outcome' = outcome
        /\ call'[c] = [pc |-> "fetch", key |-> k, value |-> 0]
        /\ \A d \in Callers \ {c} : call'[d] = call[d]
    BY <1>4 DEF Lead, TypeOK, Call
  <2>3. Waiting(k) = {} /\ \A d \in Callers : ~Leading(d, k)
    BY <2>1, NilAssumption DEF FlightInv
  <2>4. FlightInv'
    <3>1. \A d \in Callers, j \in Keys :
             Leading(d, j)' <=> (IF d = c THEN j = k ELSE Leading(d, j))
      BY <2>2 DEF Leading
    <3>2. \A j \in Keys : Waiting(j)' = Waiting(j)
      BY <2>1, <2>2 DEF Waiting, Idle
    <3>3. \A j \in Keys : Leading(c, j) => FALSE
      BY <2>1 DEF Leading, Idle
    <3>4. flight'[k] = c /\ \A j \in Keys \ {k} :
             flight'[j] = flight[j] /\ dead'[j] = dead[j]
      BY <2>1 DEF TypeOK
    <3>5. \A j \in Keys : flight[j] # Nil => flight[j] \in Callers
      BY DEF TypeOK
    <3>6. \A d \in Callers : call'[d].pc # "idle" => call'[d].key \in Keys
      BY <2>2 DEF FlightInv
    <3>7. (\A j \in Keys : flight[j] # Nil => Leading(flight[j], j))'
      <4>1. \A j \in Keys, d \in Callers : flight'[j] = d /\ d # Nil => Leading(d, j)'
        BY <2>3, <3>1, <3>3, <3>4 DEF FlightInv
      <4>2. \A j \in Keys : flight'[j] # Nil => flight'[j] \in Callers
        BY <3>4, <3>5
      <4> QED BY <4>1, <4>2 DEF Leading
    <3>8. \A d \in Callers, j \in Keys : Leading(d, j)' => flight'[j] = d
      BY <2>3, <3>1, <3>3, <3>4 DEF FlightInv
    <3>9. \A j \in Keys : Waiting(j)' # {} => flight'[j] # Nil /\ ~dead'[j]
      BY <2>3, <3>2, <3>4 DEF FlightInv
    <3> QED BY <3>6, <3>7, <3>8, <3>9 DEF FlightInv
  <2> QED BY <1>4, <2>1, <2>2, <2>4 DEF Lead, Miss, Enter, TypeOK
<1>5. ASSUME NEW c \in Callers, Answer(c) PROVE CacheInv'
  <2>1. call[c] \in Call /\ call[c].pc = "fetch"
    BY <1>5 DEF Answer, TypeOK
  <2>2. call[c].key \in Keys /\ source[call[c].key] \in Nat
    BY <2>1 DEF FlightInv, TypeOK
  <2>3. /\ call' \in [Callers -> Call]
        /\ call'[c].pc = "answered" /\ call'[c].key = call[c].key
        /\ \A d \in Callers \ {c} : call'[d] = call[d]
    BY <1>5, <2>1, <2>2 DEF Answer, TypeOK, Call
  <2>4. \A d \in Callers, j \in Keys : Leading(d, j)' <=> Leading(d, j)
    BY <2>1, <2>3 DEF Leading
  <2>5. \A j \in Keys : Waiting(j)' = Waiting(j)
    BY <2>1, <2>3 DEF Waiting
  <2>6. UNCHANGED <<entries, flight, dead, outcome, source, floor, cancelled,
                    now, cancels>>
    BY <1>5 DEF Answer
  <2>7. \A j \in Keys : flight[j] # Nil => flight[j] \in Callers
    BY DEF TypeOK
  <2>8. FlightInv'
    BY <2>2, <2>3, <2>4, <2>5, <2>6, <2>7 DEF FlightInv
  <2> QED BY <2>3, <2>6, <2>8 DEF TypeOK
<1>6. ASSUME NEW c \in Callers, Store(c) PROVE CacheInv'
  <2>1. call[c] \in Call /\ call[c].pc = "answered" /\ call[c].key \in Keys
    BY <1>6 DEF Store, TypeOK, FlightInv
  <2>2. Ended("value", call[c].key, call[c].value) \in Outcome
        /\ [value |-> call[c].value, expires |-> now + TTL] \in Entry
    BY <2>1, BoundsAssumption DEF Ended, Outcome, Call, TypeOK, Entry
  <2> QED BY <1>6, <2>1, <2>2, LandStep DEF Store, TypeOK
<1>7. ASSUME NEW c \in Callers, Fail(c) PROVE CacheInv'
  <2>1. call[c] \in Call /\ call[c].pc = "fetch" /\ call[c].key \in Keys
    BY <1>7 DEF Fail, TypeOK, FlightInv
  <2>2. Ended("error", call[c].key, 0) \in Outcome
    BY <2>1 DEF Ended, Outcome
  <2> QED BY <1>7, <2>1, <2>2, LandStep DEF Fail, TypeOK
<1>8. ASSUME NEW c \in Callers, Cancel(c) PROVE CacheInv'
  <2> DEFINE k == call[c].key
             o == Ended("cancelled", k, 0)
  <2>1. /\ call[c] \in Call /\ call[c].pc # "idle" /\ k \in Keys
        /\ UNCHANGED <<entries, source, floor, now>>
        /\ cancels' = cancels + 1 /\ cancelled' = cancelled \cup {c}
    BY <1>8 DEF Cancel, TypeOK, FlightInv
  <2>2. o \in Outcome
    BY <2>1 DEF Ended, Outcome
  <2>3. CASE call[c].pc = "wait"
    <3>1. /\ Return(Waiting(k), o)
          /\ dead' = [dead EXCEPT ![k] = TRUE] /\ flight' = flight
      BY <1>8, <2>3 DEF Cancel
    <3> HIDE DEF o
    <3>2. /\ call' \in [Callers -> Call] /\ outcome' \in [Callers -> Outcome]
          /\ \A d \in Callers :
                call'[d] = IF d \in Waiting(k) THEN Idle ELSE call[d]
      BY <2>2, <3>1, ReturnTyped
    <3>3. \A d \in Callers, j \in Keys : Leading(d, j)' <=> Leading(d, j)
      BY <3>2 DEF Leading, Waiting, Idle
    <3>4. \A d \in Callers, j \in Keys :
             d \in Waiting(j)' => d \in Waiting(j) /\ j # k
      BY <3>2 DEF Waiting, Idle
    <3>5. \A j \in Keys : j # k => dead'[j] = dead[j]
      BY <3>1 DEF TypeOK
    <3>6. \A j \in Keys : Waiting(j)' # {} => flight'[j] # Nil /\ ~dead'[j]
      BY <3>1, <3>4, <3>5 DEF FlightInv, Waiting
    <3>7. \A d \in Callers : call'[d].pc # "idle" => call'[d].key \in Keys
      BY <3>2 DEF FlightInv, Idle
    <3>8. \A j \in Keys : flight[j] # Nil => flight[j] \in Callers
      BY DEF TypeOK
    <3>9. (\A j \in Keys : flight[j] # Nil => Leading(flight[j], j))'
      BY <3>1, <3>3, <3>8 DEF FlightInv, Leading
    <3>10. FlightInv'
      BY <3>1, <3>3, <3>6, <3>7, <3>9 DEF FlightInv
    <3> QED BY <2>1, <3>1, <3>2, <3>10 DEF TypeOK
  <2>4. CASE call[c].pc # "wait"
    <3>1. Land(c, o) /\ call[c].pc \in {"fetch", "answered"}
      BY <1>8, <2>1, <2>4 DEF Cancel, Call
    <3> QED BY <2>1, <2>2, <3>1, LandStep DEF TypeOK
  <2> QED BY <2>3, <2>4
<1>9. CASE Clear \/ TimePasses \/ \E k \in Keys : Changes(k) \/ Invalidate(k)
  <2>1. UNCHANGED <<flight, dead, call, outcome, cancelled, cancels>>
    BY <1>9 DEF Clear, Invalidate, Drop, TimePasses, Changes
  <2>2. TypeOK'
    BY <1>9, <2>1 DEF Clear, Invalidate, Drop, TimePasses, Changes, TypeOK
  <2> QED BY <2>1, <2>2 DEF FlightInv, Leading, Waiting
<1> QED
  BY <1>1, <1>2, <1>3, <1>4, <1>5, <1>6, <1>7, <1>8, <1>9 DEF Next

\* At any time one caller at most fetches a key, and whoever waits for a
\* fetch waits for one that is being made (SingleFlight).
THEOREM FetchesAreSingleFlight == Spec => []SingleFlight
<1>1. CacheInv => SingleFlight
  <2> SUFFICES ASSUME CacheInv, NEW k \in Keys
               PROVE  /\ \A c, d \in Callers :
                            Leading(c, k) /\ Leading(d, k) => c = d
                      /\ Waiting(k) # {} =>
                            ~dead[k] /\ \E c \in Callers : Leading(c, k)
    BY DEF SingleFlight
  <2> QED BY DEF CacheInv, TypeOK, FlightInv
<1> QED BY CacheInit, CacheStep, <1>1, PTL DEF Spec

\* Every variable of the cache keeps its type (TypeOK).
THEOREM CacheTypes == Spec => []TypeOK
<1>1. CacheInv => TypeOK
  BY DEF CacheInv
<1> QED BY CacheInit, CacheStep, <1>1, PTL DEF Spec

-----------------------------------------------------------------------------
(***************************************************************************)
(* RconConnection.  Only the watchdog or the open handler logs in; the     *)
(* watchdog does so with nothing held, and never once a close has doomed   *)
(* it.                                                                     *)
(***************************************************************************)
ConnectionStage ==
    /\ connects \in Nat /\ held \subseteq Nat /\ doomed \in BOOLEAN
    /\ owner \in {"new", "opening"} =>
          dog = "none" /\ ~doomed /\ held = {} /\ field = Nil
    /\ owner \in {"logout", "leaving", "closed"} => doomed \/ dog = "done"
    /\ dog \in {"leaving", "entering"} /\ ~doomed => held = {}
    /\ owner \in {"leaving", "closed"} => held = {}
    /\ owner = "closed" => field = Nil

LinkInv == ConnectionStage /\ held \subseteq {field}

LEMMA LinkInit == Rcon!Init => LinkInv
<1> SUFFICES ASSUME Rcon!Init PROVE LinkInv
  OBVIOUS
<1>1. /\ owner = "new" /\ dog = "none" /\ doomed = FALSE
      /\ field = Nil /\ held = {} /\ connects = 0
  BY DEF Rcon!Init
<1> QED BY <1>1 DEF LinkInv, ConnectionStage

\* A login holds its own connection, or nothing.
LEMMA LoginHolds ==
    ASSUME LinkInv, held = {}, Rcon!Enters \/ Rcon!Refused
    PROVE  held' \subseteq {field'} /\ held' \subseteq Nat
BY DEF LinkInv, ConnectionStage, Rcon!Enters, Rcon!Refused

LEMMA LinkStep == LinkInv /\ [Rcon!Next]_rcon => LinkInv'
<1> SUFFICES ASSUME LinkInv, [Rcon!Next]_rcon PROVE LinkInv'
  OBVIOUS
<1> USE DEF LinkInv, ConnectionStage
<1>1. CASE UNCHANGED rcon
  BY <1>1 DEF rcon
<1>2. CASE Rcon!Open
  BY <1>2 DEF Rcon!Open, Rcon!Attempt, Rcon!conns, Rcon!watchdog
<1>3. CASE Rcon!Opened
  <2>1. owner = "opening" /\ owner' = "open" /\ dog' = "asleep"
        /\ UNCHANGED <<doomed, connects>>
    BY <1>3 DEF Rcon!Opened
  <2>2. held' \subseteq {field'} /\ held' \subseteq Nat
    BY <1>3, <2>1, LoginHolds DEF Rcon!Opened
  <2> QED BY <2>1, <2>2
<1>4. CASE Rcon!Close
  BY <1>4, ConnectionAssumption DEF Rcon!Close, Rcon!conns
<1>5. CASE Rcon!LoggedOut
  BY <1>5 DEF Rcon!LoggedOut, Rcon!watchdog
<1>6. CASE Rcon!Closed
  BY <1>6 DEF Rcon!Closed, Rcon!conns, Rcon!watchdog
<1>7. CASE Rcon!Wakes
  BY <1>7 DEF Rcon!Wakes, Rcon!Awake, Rcon!link, Rcon!conns
<1>8. CASE Rcon!DelayOver
  <2>1. /\ dog = "delay" /\ ~doomed
        /\ UNCHANGED <<owner, field, doomed>>
        /\ dog' \in {"done", "leaving", "entering"}
    BY <1>8 DEF Rcon!DelayOver, Rcon!Awake, Rcon!link, Rcon!Reconnects
  <2>2. connects' \in Nat
    BY <1>8 DEF Rcon!DelayOver, Rcon!Reconnects, Rcon!Attempt
  <2>3. /\ held' \subseteq held
        /\ dog' \in {"leaving", "entering"} => held' = {}
    <3>1. field = Nil => held = {}
      BY ConnectionAssumption
    <3>2. \/ dog' = "done" /\ held' = held
          \/ held' = held \ {field}
          \/ field = Nil /\ held' = held
      BY <1>8 DEF Rcon!DelayOver
    <3> QED BY <3>1, <3>2
  <2> QED BY <2>1, <2>2, <2>3
<1>9. CASE Rcon!Left
  BY <1>9 DEF Rcon!Left, Rcon!Awake, Rcon!Reconnects, Rcon!Attempt, Rcon!conns
<1>10. CASE Rcon!Reconnected
  <2>1. dog = "entering" /\ ~doomed /\ dog' = "asleep"
        /\ UNCHANGED <<owner, doomed, connects>>
    BY <1>10 DEF Rcon!Reconnected, Rcon!Awake
  <2>2. held' \subseteq {field'} /\ held' \subseteq Nat
    BY <1>10, <2>1, LoginHolds DEF Rcon!Reconnected
  <2> QED BY <2>1, <2>2
<1>11. CASE Rcon!Cancelled
  BY <1>11 DEF Rcon!Cancelled, Rcon!link, Rcon!conns
<1>12. CASE Rcon!Drop
  BY <1>12 DEF Rcon!Drop, Rcon!link, Rcon!watchdog
<1>13. ASSUME NEW c \in Callers,
              \/ Rcon!Players(c) \/ Rcon!Admin(c)
              \/ Rcon!Answered(c) \/ Rcon!Denied(c)
       PROVE  LinkInv'
  <2>1. UNCHANGED <<owner, field, held, dog, doomed, connects>>
    BY <1>13 DEF Rcon!Players, Rcon!Admin, Rcon!Answered, Rcon!Denied,
                 Rcon!link, Rcon!conns, Rcon!watchdog
  <2> QED BY <2>1
<1> QED
  BY <1>1, <1>2, <1>3, <1>4, <1>5, <1>6, <1>7, <1>8, <1>9, <1>10, <1>11, <1>12,
     <1>13
  DEF Rcon!Next, Rcon!OwnerStep, Rcon!WatchdogStep

\* A link holds one connection at most, and none once close has returned,
\* although close does not wait for the watchdog (OneConnection).
THEOREM LinkHasOneConnection == PartsSpec => []OneConnection
<1>1. PartsInit => LinkInv
  BY LinkInit DEF PartsInit
<1>2. LinkInv /\ [PartsNext]_<<part, vars, rcon>> => LinkInv'
  <2>1. [PartsNext]_<<part, vars, rcon>> => [Rcon!Next]_rcon
    BY DEF PartsNext
  <2> QED BY <2>1, LinkStep
<1>3. LinkInv => OneConnection
  BY DEF LinkInv, ConnectionStage, OneConnection, Rcon!OneConnection
<1> QED BY <1>1, <1>2, <1>3, PTL DEF PartsSpec

LEMMA LinkTyped == Rcon!TypeOK /\ [Rcon!Next]_rcon => Rcon!TypeOK'
<1> SUFFICES ASSUME Rcon!TypeOK, [Rcon!Next]_rcon PROVE Rcon!TypeOK'
  OBVIOUS
<1> USE DEF Rcon!TypeOK, Rcon!Owner, Rcon!Dog, Rcon!link, Rcon!conns, Rcon!watchdog,
            Rcon!commands
<1>a. connects + 1 \in Nat /\ drops + 1 \in Nat
  OBVIOUS
<1>b. (Rcon!Attempt => connects' \in Nat) /\ (Rcon!Lost => drops' \in Nat)
  BY <1>a DEF Rcon!Attempt, Rcon!Lost
<1>c. ASSUME Rcon!Enters \/ Rcon!Refused
      PROVE  /\ field' \in Nat \cup {Nil} /\ held' \subseteq Nat /\ up' \subseteq Nat
             /\ drops' \in Nat
  <2>1. CASE Rcon!Enters
    BY <2>1 DEF Rcon!Enters
  <2>2. CASE Rcon!Refused
    BY <2>2, <1>b DEF Rcon!Refused
  <2> QED BY <1>c, <2>1, <2>2
<1>1. CASE Rcon!Open
  BY <1>1, <1>b DEF Rcon!Open
<1>2. CASE Rcon!Opened
  BY <1>2, <1>c DEF Rcon!Opened
<1>3. CASE Rcon!Close
  BY <1>3 DEF Rcon!Close
<1>4. CASE Rcon!LoggedOut \/ Rcon!Closed
  BY <1>4 DEF Rcon!LoggedOut, Rcon!Closed
<1>5. CASE Rcon!Wakes
  BY <1>5 DEF Rcon!Wakes, Rcon!Awake
<1>6. CASE Rcon!DelayOver
  <2>1. held' \subseteq Nat /\ connects' \in Nat /\ dog' \in Rcon!Dog
    BY <1>6, <1>b DEF Rcon!DelayOver, Rcon!Reconnects
  <2> QED BY <1>6, <2>1 DEF Rcon!DelayOver
<1>7. CASE Rcon!Left
  BY <1>7, <1>b DEF Rcon!Left, Rcon!Reconnects
<1>8. CASE Rcon!Reconnected
  BY <1>8, <1>c DEF Rcon!Reconnected
<1>9. CASE Rcon!Cancelled
  BY <1>9 DEF Rcon!Cancelled
<1>10. CASE Rcon!Drop
  BY <1>10, <1>b DEF Rcon!Drop
<1>11. ASSUME NEW c \in Callers,
              \/ Rcon!Players(c) \/ Rcon!Admin(c)
              \/ Rcon!Answered(c) \/ Rcon!Denied(c)
       PROVE  Rcon!TypeOK'
  BY <1>11 DEF Rcon!Players, Rcon!Admin, Rcon!Answered, Rcon!Denied
<1>12. CASE UNCHANGED rcon
  BY <1>12 DEF rcon
<1> QED
  BY <1>1, <1>2, <1>3, <1>4, <1>5, <1>6, <1>7, <1>8, <1>9, <1>10, <1>11, <1>12
  DEF Rcon!Next, Rcon!OwnerStep, Rcon!WatchdogStep

\* Every variable of the cache and of the connection keeps its type
\* (PartsTypeOK).
THEOREM PartsTypes == PartsSpec => []PartsTypeOK
<1>1. PartsInit => CacheInv /\ Rcon!TypeOK
  <2>1. Rcon!Init => Rcon!TypeOK
    <3> SUFFICES ASSUME Rcon!Init PROVE Rcon!TypeOK
      OBVIOUS
    <3>1. /\ command = [c \in Callers |-> "none"] /\ field = Nil
          /\ held = {} /\ up = {} /\ owner = "new" /\ dog = "none"
          /\ closing = FALSE /\ doomed = FALSE /\ canAdmin = TRUE
          /\ connects = 0 /\ drops = 0
      BY DEF Rcon!Init
    <3> QED BY <3>1 DEF Rcon!TypeOK, Rcon!Owner, Rcon!Dog
  <2> QED BY <2>1, CacheInit DEF PartsInit
<1>2. CacheInv /\ Rcon!TypeOK /\ [PartsNext]_<<part, vars, rcon>>
        => (CacheInv /\ Rcon!TypeOK)'
  <2>1. [PartsNext]_<<part, vars, rcon>> => [Next]_vars /\ [Rcon!Next]_rcon
    BY DEF PartsNext
  <2> QED BY <2>1, CacheStep, LinkTyped
<1>3. CacheInv /\ Rcon!TypeOK => PartsTypeOK
  BY DEF CacheInv, PartsTypeOK
<1> QED BY <1>1, <1>2, <1>3, PTL DEF PartsSpec
=============================================================================
