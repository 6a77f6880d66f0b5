------------------------- MODULE ServerLinks_proofs -------------------------
(***************************************************************************)
(* Proofs about ServerLinks: types; the registry and the database agree    *)
(* once the queue is empty; no connection is forgotten; and, one change at *)
(* a time, the listener runs just when it is needed.                       *)
(***************************************************************************)
EXTENDS ServerLinks, TLAPS

Typed == TypeOK /\ TasksNamed

LEMMA IdleTask == Idle \in Task /\ Idle.pc = "idle"
<1>1. Idle \in Task
  BY DEF Idle, Task
<1>2. Idle.pc = "idle"
  BY DEF Idle
<1> QED BY <1>1, <1>2

LEMMA TypedInit == Init => Typed
<1> SUFFICES ASSUME Init PROVE Typed
  OBVIOUS
<1>1. task \in [Handlers -> Task] /\ TasksNamed
  BY IdleTask DEF Init, TasksNamed
<1>2. /\ stored \in [Guilds -> Link \cup {Nil}]
      /\ links \in [Guilds -> Link \cup {Nil}]
      /\ status \in [Guilds -> Link \cup {Nil}]
  BY DEF Init
<1> QED BY <1>1, <1>2 DEF Init, Typed, TypeOK

\* Goto and Finish keep the tasks typed and touch one handler's only.
LEMMA GotoStep ==
    ASSUME Typed, NEW h \in Handlers, task[h].pc # "idle",
           NEW pc \in {"store", "swap", "bind", "adopt", "forget"}, Goto(h, pc)
    PROVE  /\ task' \in [Handlers -> Task] /\ TasksNamed'
           /\ task'[h].pc = pc /\ task'[h].guild = task[h].guild
           /\ task'[h].link = task[h].link /\ task'[h].old = task[h].old
           /\ task'[h].ticket = task[h].ticket
           /\ \A i \in Handlers \ {h} : task'[i] = task[i]
<1>1. task \in [Handlers -> Task] /\ TasksNamed
  BY DEF Typed, TypeOK
<1>2. task' = [task EXCEPT ![h] = [task[h] EXCEPT !.pc = pc]]
  BY DEF Goto
<1>3. task[h] \in Task
  BY <1>1
<1>4. [task[h] EXCEPT !.pc = pc] \in Task
  BY <1>3 DEF Task
<1> QED BY <1>1, <1>2, <1>3, <1>4 DEF TasksNamed, Task

LEMMA FinishStep ==
    ASSUME Typed, NEW h \in Handlers, Finish(h)
    PROVE  /\ task' \in [Handlers -> Task] /\ TasksNamed'
           /\ task'[h] = Idle
           /\ \A i \in Handlers \ {h} : task'[i] = task[i]
BY IdleTask DEF Typed, TypeOK, TasksNamed, Finish

\* Sync moves h on, or lets it finish, and at most frees the port.
LEMMA SyncStep ==
    ASSUME Typed, NEW h \in Handlers, task[h].pc # "idle",
           NEW registry, Sync(h, registry)
    PROVE  /\ task' \in [Handlers -> Task] /\ TasksNamed'
           /\ \A i \in Handlers \ {h} : task'[i] = task[i]
           /\ port' \in Nat \cup {Nil}
           /\ task'[h] = Idle \/ /\ task'[h].pc \in {"bind", "forget"}
                                 /\ task'[h].link = task[h].link
                                 /\ task'[h].old = task[h].old
<1>1. port \in Nat \cup {Nil}
  BY DEF Typed, TypeOK
<1>2. CASE Goto(h, "bind") /\ UNCHANGED port
  BY <1>1, <1>2, GotoStep
<1>3. CASE Goto(h, "forget") /\ port' = (IF port = runner THEN Nil ELSE port)
  BY <1>1, <1>3, GotoStep
<1>4. CASE Finish(h) /\ UNCHANGED port
  BY <1>1, <1>4, FinishStep
<1> QED BY <1>2, <1>3, <1>4 DEF Sync

\* The steps of one handler, with what each does to its own record.
LEMMA ApplyStep ==
    ASSUME Typed, NEW h \in Handlers, NEW g \in Guilds, NEW b \in Kinds,
           Apply(h, g, b)
    PROVE  /\ task' \in [Handlers -> Task] /\ TasksNamed'
           /\ task[h] = Idle /\ changes' = changes + 1
           /\ task'[h].pc \in {"open", "store"} /\ task'[h].guild = g
           /\ task'[h].pc = "open" => b = "rcon"
           /\ task'[h].link = [id |-> changes + 1, backend |-> b]
           /\ task'[h].old = Nil /\ task'[h].link \in Link
           /\ \A i \in Handlers \ {h} : task'[i] = task[i]
<1> DEFINE l == [id |-> changes + 1, backend |-> b]
           t == [pc |-> IF b = "rcon" THEN "open" ELSE "store",
                 guild |-> g, link |-> l, old |-> Nil, ticket |-> 0]
<1>1. task \in [Handlers -> Task] /\ TasksNamed /\ changes \in Nat
  BY DEF Typed, TypeOK
<1>2. l \in Link
  BY <1>1, KindsAssumption DEF Link
<1>3. t \in Task
  BY <1>2 DEF Task
<1>4. task' = [task EXCEPT ![h] = t] /\ task[h] = Idle /\ changes' = changes + 1
  BY DEF Apply
<1> HIDE DEF l
<1>5. /\ t.pc \in {"open", "store"} /\ t.guild = g /\ t.link = l /\ t.old = Nil
      /\ t.pc = "open" => b = "rcon"
  OBVIOUS
<1> HIDE DEF t
<1> QED BY <1>1, <1>2, <1>3, <1>4, <1>5 DEF TasksNamed, l

\* A record that takes its place in the queue.
LEMMA Queued ==
    ASSUME NEW t \in Task, NEW n \in Nat
    PROVE  LET u == [t EXCEPT !.pc = "swap", !.ticket = n]
           IN  /\ u \in Task /\ u.pc = "swap" /\ u.guild = t.guild
               /\ u.link = t.link /\ u.old = t.old /\ u.ticket = n
BY DEF Task

LEMMA StoreStep ==
    ASSUME Typed, NEW h \in Handlers, Store(h)
    PROVE  /\ task' \in [Handlers -> Task] /\ TasksNamed'
           /\ task'[h].pc = "swap" /\ task'[h].guild = task[h].guild
           /\ task'[h].link = task[h].link /\ task'[h].old = task[h].old
           /\ task'[h].ticket = tickets + 1 /\ tickets' = tickets + 1
           /\ \A i \in Handlers \ {h} : task'[i] = task[i]
<1>1. task \in [Handlers -> Task] /\ TasksNamed /\ tickets \in Nat
  BY DEF Typed, TypeOK
<1>2. /\ task' = [task EXCEPT ![h].pc = "swap", ![h].ticket = tickets + 1]
      /\ tickets' = tickets + 1 /\ task[h].pc = "store"
  BY DEF Store
<1>3. task[h] \in Task
  BY <1>1
<1> DEFINE t == [task[h] EXCEPT !.pc = "swap", !.ticket = tickets + 1]
<1>4. /\ t \in Task /\ t.pc = "swap" /\ t.guild = task[h].guild
      /\ t.link = task[h].link /\ t.old = task[h].old /\ t.ticket = tickets + 1
  <2>1. tickets + 1 \in Nat
    BY <1>1
  <2> QED BY <1>3, <2>1, Queued
<1>5. task' = [task EXCEPT ![h] = t]
  BY <1>1, <1>2
<1> HIDE DEF t
<1> QED BY <1>1, <1>2, <1>4, <1>5 DEF TasksNamed

LEMMA SwapStep ==
    ASSUME Typed, NEW h \in Handlers, Swap(h)
    PROVE  /\ task' \in [Handlers -> Task] /\ TasksNamed'
           /\ port' \in Nat \cup {Nil}
           /\ \A i \in Handlers \ {h} : task'[i] = task[i]
           /\ \/ /\ links[task[h].guild] # Nil
                 /\ links[task[h].guild].backend = "rcon"
                 /\ task'[h].pc = "close"
                 /\ task'[h].old = links[task[h].guild]
                 /\ task'[h].link = task[h].link
              \/ /\ links[task[h].guild] = Nil
                    \/ links[task[h].guild].backend # "rcon"
                 /\ task'[h] = Idle \/ /\ task'[h].pc \in {"bind", "forget"}
                                       /\ task'[h].link = task[h].link
                                       /\ task'[h].old = task[h].old
<1> DEFINE g == task[h].guild
<1>1. /\ task \in [Handlers -> Task] /\ TasksNamed /\ port \in Nat \cup {Nil}
      /\ links \in [Guilds -> Link \cup {Nil}]
  BY DEF Typed, TypeOK
<1>2. task[h] \in Task /\ task[h].pc = "swap"
  BY <1>1 DEF Swap
<1>3. g \in Guilds
  BY <1>1, <1>2 DEF TasksNamed
<1>4. CASE /\ links[g] # Nil /\ links[g].backend = "rcon"
           /\ task' = [task EXCEPT ![h].pc = "close", ![h].old = links[g]]
           /\ UNCHANGED port
  <2>1. links[g] \in Link
    BY <1>1, <1>3, <1>4
  <2> HIDE DEF g
  <2> QED BY <1>1, <1>2, <1>4, <2>1 DEF TasksNamed, Task, g
<1>5. CASE ~(links[g] # Nil /\ links[g].backend = "rcon") /\ Sync(h, links')
  BY <1>2, <1>5, SyncStep
<1> QED BY <1>4, <1>5 DEF Swap

LEMMA TypedStep == Typed /\ [Next]_vars => Typed'
<1> SUFFICES ASSUME Typed, [Next]_vars PROVE Typed'
  OBVIOUS
<1> USE DEF rows, listener, poll, env
<1>1. TypeOK /\ TasksNamed
  BY DEF Typed
<1>2. CASE UNCHANGED vars
  BY <1>1, <1>2 DEF vars, Typed, TypeOK, TasksNamed
<1>3. ASSUME NEW h \in Handlers, NEW g \in Guilds, NEW b \in Kinds, Apply(h, g, b)
      PROVE  Typed'
  <2>1. task' \in [Handlers -> Task] /\ TasksNamed'
    BY <1>3, ApplyStep
  <2> QED BY <1>1, <1>3, <2>1 DEF Apply, Typed, TypeOK
<1>4. ASSUME NEW h \in Handlers, Open(h) PROVE Typed'
  <2>1. task[h].pc # "idle" /\ task[h].link.id \in Nat
    BY <1>1, <1>4 DEF Open, TasksNamed, Link
  <2>2. CASE opened' = opened \cup {task[h].link.id} /\ Goto(h, "store")
    BY <1>1, <1>4, <2>1, <2>2, GotoStep DEF Open, Typed, TypeOK
  <2>3. CASE Finish(h) /\ UNCHANGED opened
    BY <1>1, <1>4, <2>3, FinishStep DEF Open, Typed, TypeOK
  <2> QED BY <1>4, <2>2, <2>3 DEF Open
<1>5. ASSUME NEW h \in Handlers, Store(h) PROVE Typed'
  <2>1. task[h].link \in Link
    BY <1>1, <1>5 DEF Store, TasksNamed
  <2>2. task' \in [Handlers -> Task] /\ TasksNamed'
    BY <1>5, StoreStep
  <2> QED BY <1>1, <1>5, <2>1, <2>2 DEF Store, Typed, TypeOK
<1>6. ASSUME NEW h \in Handlers, StoreFails(h) PROVE Typed'
  <2>1. task[h].link.id \in Nat
    BY <1>1, <1>6 DEF StoreFails, TasksNamed, Link
  <2> QED BY <1>1, <1>6, <2>1, FinishStep DEF StoreFails, Typed, TypeOK
<1>7. ASSUME NEW h \in Handlers, Swap(h) PROVE Typed'
  <2>1. task[h].link \in Link
    BY <1>1, <1>7 DEF Swap, TasksNamed
  <2> QED BY <1>1, <1>7, <2>1, SwapStep DEF Swap, Typed, TypeOK
<1>8. ASSUME NEW h \in Handlers, CloseOld(h) PROVE Typed'
  BY <1>1, <1>8, SyncStep DEF CloseOld, Typed, TypeOK
<1>9. ASSUME NEW h \in Handlers, Bind(h) PROVE Typed'
  <2>1. task[h].pc # "idle" /\ task[h].link.id \in Nat
    BY <1>1, <1>9 DEF Bind, TasksNamed, Link
  <2> QED BY <1>1, <1>9, <2>1, GotoStep DEF Bind, Typed, TypeOK
<1>10. ASSUME NEW h \in Handlers, BindTaken(h) \/ BindRefused(h) PROVE Typed'
  <2>1. task' \in [Handlers -> Task] /\ TasksNamed'
    BY <1>10, FinishStep DEF BindTaken, BindRefused
  <2>2. CASE BindTaken(h)
    BY <1>1, <2>1, <2>2 DEF BindTaken, Typed, TypeOK
  <2>3. CASE BindRefused(h)
    BY <1>1, <2>1, <2>3 DEF BindRefused, Typed, TypeOK
  <2> QED BY <1>10, <2>2, <2>3
<1>11. ASSUME NEW h \in Handlers, Adopt(h) PROVE Typed'
  <2>1. task[h].link.id \in Nat
    BY <1>1, <1>11 DEF Adopt, TasksNamed, Link
  <2> QED BY <1>1, <1>11, <2>1, FinishStep DEF Adopt, Typed, TypeOK
<1>12. ASSUME NEW h \in Handlers, Forget(h) PROVE Typed'
  BY <1>1, <1>12, FinishStep DEF Forget, Typed, TypeOK
<1>13. CASE PollStep
  <2>1. UNCHANGED <<rows, links, listener, task, opened, env>>
    BY <1>13 DEF PollStep, PollStart, PollFails, PollEnd, PollWrites
  <2>2. /\ todo' \in SUBSET [guild : Guilds, link : Link] /\ polling' \in BOOLEAN
        /\ status' \in [Guilds -> Link \cup {Nil}]
    <3>1. CASE PollStart
      BY <1>1, <3>1 DEF PollStart, Polled, TypeOK
    <3>2. CASE PollFails \/ PollEnd
      BY <1>1, <3>2 DEF PollFails, PollEnd, TypeOK
    <3>3. ASSUME NEW g \in Guilds, PollWrites(g)
          PROVE  /\ todo' \in SUBSET [guild : Guilds, link : Link]
                 /\ polling' \in BOOLEAN
                 /\ status' \in [Guilds -> Link \cup {Nil}]
      BY <1>1, <3>3 DEF PollWrites, TypeOK
    <3> QED BY <1>13, <3>1, <3>2, <3>3 DEF PollStep
  <2> QED BY <1>1, <2>1, <2>2 DEF Typed, TypeOK, TasksNamed
<1>14. ASSUME NEW g \in Guilds, Teardown(g) \/ Setup(g) PROVE Typed'
  <2>1. CASE Teardown(g)
    <3>1. UNCHANGED <<links, status, listener, task, poll, opened, changes,
                      tickets, faults, blocked, leaked>>
      BY <2>1 DEF Teardown
    <3>2. known' \in SUBSET Guilds /\ stored' \in [Guilds -> Link \cup {Nil}]
      BY <1>1, <2>1 DEF Teardown, TypeOK
    <3>3. teardowns' \in Nat
      BY <1>1, <2>1 DEF Teardown, TypeOK
    <3> QED BY <1>1, <3>1, <3>2, <3>3 DEF Typed, TypeOK, TasksNamed
  <2>2. CASE Setup(g)
    BY <1>1, <2>2 DEF Setup, Typed, TypeOK, TasksNamed
  <2> QED BY <1>14, <2>1, <2>2
<1>15. CASE Restart
  <2>1. \A g \in Guilds : stored[g] # Nil => stored[g].id \in Nat
    BY <1>1 DEF TypeOK, Link
  <2>2. opened' \in SUBSET Nat
    BY <1>15, <2>1 DEF Restart
  <2>3. task' \in [Handlers -> Task] /\ TasksNamed'
    BY <1>15, IdleTask DEF Restart, TasksNamed
  <2>4. faults' \in Nat /\ stored' = stored /\ links' = stored
    BY <1>1, <1>15 DEF Restart, TypeOK
  <2>5. runner' \in Nat \cup {Nil} /\ port' \in Nat \cup {Nil}
    BY <1>15 DEF Restart
  <2>6. /\ known' = Guilds /\ status' = [g \in Guilds |-> Nil]
        /\ todo' = {} /\ polling' = FALSE /\ blocked' = FALSE /\ leaked' = {}
        /\ UNCHANGED <<changes, tickets, teardowns>>
    BY <1>15 DEF Restart
  <2> QED BY <1>1, <2>2, <2>3, <2>4, <2>5, <2>6 DEF Typed, TypeOK
<1> QED
  BY <1>2, <1>3, <1>4, <1>5, <1>6, <1>7, <1>8, <1>9, <1>10, <1>11, <1>12,
     <1>13, <1>14, <1>15
  DEF Next, HandlerStep

\* Every variable keeps its type (TypeOK).
THEOREM LinkTypes == Spec => []TypeOK
<1>1. Typed => TypeOK
  BY DEF Typed
<1> QED BY TypedInit, TypedStep, <1>1, PTL DEF Spec

-----------------------------------------------------------------------------
(***************************************************************************)
(* The registry and the database.                                          *)
(***************************************************************************)
\* A step of a handler that is not in the queue, before or after.
LEMMA OffQueue ==
    ASSUME LastStored, RegistryMatchesStore, NEW h \in Handlers,
           task[h].pc # "swap", task'[h].pc # "swap",
           \A i \in Handlers \ {h} : task'[i] = task[i],
           UNCHANGED <<stored, links, tickets>>
    PROVE  LastStored' /\ RegistryMatchesStore'
<1>1. \A g \in Guilds : Swapping(g)' = Swapping(g)
  BY DEF Swapping
<1>2. \A g \in Guilds : \A i \in Swapping(g) : task'[i] = task[i]
  BY DEF Swapping
<1> QED BY <1>1, <1>2 DEF LastStored, RegistryMatchesStore

LEMMA RegistryStep == Typed /\ LastStored /\ RegistryMatchesStore /\ [Next]_vars
                         => LastStored' /\ RegistryMatchesStore'
<1> SUFFICES ASSUME Typed, LastStored, RegistryMatchesStore, [Next]_vars
             PROVE  LastStored' /\ RegistryMatchesStore'
  OBVIOUS
<1> USE DEF rows, listener, poll, env
<1>1. TypeOK /\ TasksNamed /\ Idle.pc = "idle"
  BY IdleTask DEF Typed
<1>2. CASE UNCHANGED <<task, stored, links, tickets>>
  BY <1>2 DEF LastStored, RegistryMatchesStore, Swapping
<1>3. ASSUME NEW h \in Handlers, NEW g \in Guilds, NEW b \in Kinds, Apply(h, g, b)
      PROVE  LastStored' /\ RegistryMatchesStore'
  <2>1. UNCHANGED <<stored, links, tickets>>
    BY <1>3 DEF Apply
  <2> QED BY <1>1, <1>3, <2>1, ApplyStep, OffQueue
<1>4. ASSUME NEW h \in Handlers, Open(h)
      PROVE  LastStored' /\ RegistryMatchesStore'
  <2>1. task[h].pc = "open" /\ UNCHANGED <<stored, links, tickets>>
    BY <1>4 DEF Open
  <2>2. /\ task'[h].pc # "swap"
        /\ \A i \in Handlers \ {h} : task'[i] = task[i]
    BY <1>1, <1>4, <2>1, GotoStep, FinishStep DEF Open
  <2> QED BY <2>1, <2>2, OffQueue
<1>5. ASSUME NEW h \in Handlers, Store(h)
      PROVE  LastStored' /\ RegistryMatchesStore'
  <2>0. task[h].guild \in Guilds
    BY <1>1, <1>5 DEF Store, TasksNamed
  <2>2. PICK g \in Guilds : g = task[h].guild
    BY <2>0
  <2>1. /\ task[h].pc = "store" /\ UNCHANGED links
        /\ stored' = [stored EXCEPT ![g] = task[h].link]
        /\ stored \in [Guilds -> Link \cup {Nil}] /\ tickets \in Nat
    BY <1>1, <1>5, <2>2 DEF Store, TypeOK
  <2>3. /\ task'[h].pc = "swap" /\ task'[h].guild = g
        /\ task'[h].link = task[h].link
        /\ task'[h].ticket = tickets + 1 /\ tickets' = tickets + 1
        /\ \A i \in Handlers \ {h} : task'[i] = task[i]
    BY <1>5, <2>2, StoreStep
  <2>4. \A x \in Guilds : \A i \in Swapping(x)' :
           \/ i = h /\ x = g
           \/ i # h /\ i \in Swapping(x) /\ task'[i] = task[i]
    BY <2>3 DEF Swapping
  <2>5. \A x \in Guilds : x # g => Swapping(x)' = Swapping(x)
    BY <2>1, <2>3 DEF Swapping
  <2>6. h \in Swapping(g)' /\ stored'[g] = task[h].link
        /\ \A x \in Guilds \ {g} : stored'[x] = stored[x]
    BY <2>1, <2>2, <2>3 DEF Swapping
  <2>7. \A i \in Handlers : i \in Swapping(g) => task[i].ticket \in Nat
    BY <1>1 DEF TypeOK, Task
  <2>8. \A x \in Guilds : \A i \in Swapping(x) : task[i].ticket <= tickets
    BY DEF LastStored
  <2>9. ASSUME NEW x \in Guilds, NEW i \in Swapping(x)'
        PROVE  /\ task'[i].ticket <= tickets'
               /\ /\ stored'[x] # Nil
                  /\ \A j \in Swapping(x)' : task'[j].ticket <= task'[i].ticket
                  => task'[i].link = stored'[x]
    <3>1. CASE i = h
      BY <2>1, <2>3, <2>4, <2>6, <3>1
    <3>2. CASE i # h /\ x = g
      <4>1. i \in Swapping(g) /\ task'[i] = task[i] /\ i \in Handlers
        BY <2>4, <3>2 DEF Swapping
      <4>2. task[i].ticket <= tickets /\ task[i].ticket \in Nat
        BY <2>2, <2>7, <2>8, <4>1
      <4>3. ~(task'[h].ticket <= task'[i].ticket)
        BY <2>1, <2>3, <4>1, <4>2
      <4>4. task'[i].ticket <= tickets'
        BY <2>1, <2>3, <4>1, <4>2
      <4> QED BY <2>6, <3>2, <4>3, <4>4
    <3>3. CASE x # g
      <4>1. Swapping(x)' = Swapping(x) /\ stored'[x] = stored[x]
        BY <2>5, <2>6, <3>3
      <4>2. \A j \in Swapping(x) : task'[j] = task[j] /\ task[j].ticket \in Nat
        BY <1>1, <2>1, <2>3, <3>3 DEF Swapping, TypeOK, Task
      <4>3. task[i].ticket <= tickets
        BY <2>8, <4>1
      <4> QED BY <2>1, <2>3, <4>1, <4>2, <4>3 DEF LastStored
    <3> QED BY <3>1, <3>2, <3>3
  <2>10. RegistryMatchesStore'
    BY <2>1, <2>5, <2>6 DEF RegistryMatchesStore
  <2> QED BY <2>9, <2>10 DEF LastStored
<1>6. ASSUME NEW h \in Handlers, StoreFails(h)
      PROVE  LastStored' /\ RegistryMatchesStore'
  <2>1. task[h].pc = "store" /\ Finish(h) /\ UNCHANGED <<stored, links, tickets>>
    BY <1>6 DEF StoreFails
  <2> QED BY <1>1, <2>1, FinishStep, OffQueue
<1>7. ASSUME NEW h \in Handlers, Swap(h)
      PROVE  LastStored' /\ RegistryMatchesStore'
  <2> DEFINE g == task[h].guild
  <2>1. /\ task[h].pc = "swap" /\ FirstInQueue(h)
        /\ UNCHANGED <<stored, tickets>>
        /\ links' = [links EXCEPT ![g] = task[h].link]
        /\ links \in [Guilds -> Link \cup {Nil}]
    BY <1>1, <1>7 DEF Swap, TypeOK
  <2>2. g \in Guilds
    BY <1>1, <2>1 DEF TasksNamed
  <2>3. /\ task'[h].pc # "swap"
        /\ \A i \in Handlers \ {h} : task'[i] = task[i]
    BY <1>1, <1>7, SwapStep
  <2>4. /\ links'[g] = task[h].link
        /\ \A x \in Guilds \ {g} : links'[x] = links[x]
    BY <2>1, <2>2
  <2> HIDE DEF g
  <2>5. \A x \in Guilds : Swapping(x)' = Swapping(x) \ {h}
    BY <2>3 DEF Swapping
  <2>6. \A x \in Guilds : x # g => Swapping(x)' = Swapping(x)
    BY <2>5 DEF Swapping, g
  <2>7. h \in Swapping(g)
    BY <2>1 DEF Swapping, g
  <2>8. \A x \in Guilds : \A i \in Swapping(x)' : task'[i] = task[i]
    BY <2>3, <2>5 DEF Swapping
  <2>9. \A i \in Swapping(g) : task[h].ticket <= task[i].ticket
    BY <2>1 DEF FirstInQueue, Swapping
  <2>10. ASSUME NEW x \in Guilds, NEW i \in Swapping(x)'
         PROVE  /\ task'[i].ticket <= tickets'
                /\ /\ stored'[x] # Nil
                   /\ \A j \in Swapping(x)' : task'[j].ticket <= task'[i].ticket
                   => task'[i].link = stored'[x]
    <3>1. i \in Swapping(x) /\ task'[i] = task[i]
      BY <2>5, <2>8
    <3>2. (\A j \in Swapping(x)' : task'[j].ticket <= task'[i].ticket)
             => \A j \in Swapping(x) : task[j].ticket <= task[i].ticket
      BY <2>5, <2>6, <2>8, <2>9, <3>1
    <3> QED BY <2>1, <3>1, <3>2 DEF LastStored
  <2>11. ASSUME NEW x \in Guilds, Swapping(x)' = {}, stored'[x] # Nil
         PROVE  links'[x] = stored'[x]
    <3>1. CASE x = g
      <4>1. Swapping(g) = {h}
        BY <2>2, <2>5, <2>7, <2>11, <3>1
      <4>2. task[h].ticket <= task[h].ticket
        BY <2>7, <2>9
      <4>3. task[h].link = stored[g]
        BY <2>1, <2>2, <2>7, <2>11, <3>1, <4>1, <4>2 DEF LastStored
      <4> QED BY <2>1, <2>4, <3>1, <4>3
    <3>2. CASE x # g
      BY <2>1, <2>4, <2>6, <2>11, <3>2 DEF RegistryMatchesStore
    <3> QED BY <3>1, <3>2
  <2> QED BY <2>10, <2>11 DEF LastStored, RegistryMatchesStore
<1>8. ASSUME NEW h \in Handlers, CloseOld(h)
      PROVE  LastStored' /\ RegistryMatchesStore'
  <2>1. /\ task[h].pc = "close" /\ Sync(h, links)
        /\ UNCHANGED <<stored, links, tickets>>
    BY <1>8 DEF CloseOld
  <2>2. /\ task'[h].pc # "swap"
        /\ \A i \in Handlers \ {h} : task'[i] = task[i]
    BY <1>1, <2>1, SyncStep
  <2> QED BY <2>1, <2>2, OffQueue
<1>9. ASSUME NEW h \in Handlers, Bind(h)
      PROVE  LastStored' /\ RegistryMatchesStore'
  <2>1. task[h].pc = "bind" /\ Goto(h, "adopt") /\ UNCHANGED <<stored, links, tickets>>
    BY <1>9 DEF Bind
  <2>2. /\ task'[h].pc # "swap"
        /\ \A i \in Handlers \ {h} : task'[i] = task[i]
    BY <2>1, GotoStep
  <2> QED BY <2>1, <2>2, OffQueue
<1>10. ASSUME NEW h \in Handlers,
              BindTaken(h) \/ BindRefused(h) \/ Adopt(h) \/ Forget(h)
       PROVE  LastStored' /\ RegistryMatchesStore'
  <2>1. /\ task[h].pc \in {"bind", "adopt", "forget"} /\ Finish(h)
        /\ UNCHANGED <<stored, links, tickets>>
    BY <1>10 DEF BindTaken, BindRefused, Adopt, Forget
  <2> QED BY <1>1, <2>1, FinishStep, OffQueue
<1>11. CASE PollStep
  BY <1>2, <1>11 DEF PollStep, PollStart, PollFails, PollEnd, PollWrites
<1>12. ASSUME NEW g \in Guilds, Teardown(g) \/ Setup(g)
       PROVE  LastStored' /\ RegistryMatchesStore'
  <2>1. /\ UNCHANGED <<task, links, tickets>>
        /\ \A x \in Guilds : stored'[x] # Nil => stored'[x] = stored[x]
    BY <1>1, <1>12 DEF Teardown, Setup, TypeOK
  <2> QED BY <2>1 DEF LastStored, RegistryMatchesStore, Swapping
<1>13. CASE Restart
  <2>1. links' = stored /\ stored' = stored
        /\ \A i \in Handlers : task'[i].pc # "swap"
    BY <1>1, <1>13 DEF Restart
  <2> QED BY <2>1 DEF LastStored, RegistryMatchesStore, Swapping
<1>14. CASE UNCHANGED vars
  BY <1>2, <1>14 DEF vars
<1> QED
  BY <1>3, <1>4, <1>5, <1>6, <1>7, <1>8, <1>9, <1>10, <1>11, <1>12, <1>13, <1>14
  DEF Next, HandlerStep

\* What the bot works with is what a restart would rebuild, whatever admins
\* change at once (RegistryMatchesStore).
THEOREM RegistryAgrees == Spec => []RegistryMatchesStore
<1>1. Init => LastStored /\ RegistryMatchesStore
  BY IdleTask DEF Init, LastStored, RegistryMatchesStore, Swapping
<1> QED BY <1>1, TypedInit, TypedStep, RegistryStep, PTL DEF Spec

-----------------------------------------------------------------------------
(***************************************************************************)
(* Connections.  A number names one link (NumbersName), so that closing    *)
(* what was replaced closes that connection and no other.                  *)
(***************************************************************************)
LEMMA LinksNamed ==
    \A l : l \in AllLinks <=>
        /\ l # Nil
        /\ \/ \E g \in Guilds : l = stored[g] \/ l = links[g]
           \/ \E h \in Handlers : l = task[h].link \/ l = task[h].old
BY DEF AllLinks

\* A step that invents no link, opens nothing and sends nobody to open.
LEMMA NoNewLinks ==
    ASSUME NumbersName, AllLinks' \subseteq AllLinks, opened' \subseteq opened,
           UNCHANGED changes,
           \A h \in Handlers : task'[h].pc = "open" => task'[h] = task[h]
    PROVE  NumbersName'
BY DEF NumbersName

\* A step of h that moves links around but invents none.
LEMMA SameLinks ==
    ASSUME Typed, NEW h \in Handlers,
           \A i \in Handlers \ {h} : task'[i] = task[i],
           task'[h].link \in {task[h].link, Nil},
           \/ task'[h].old \in {task[h].old, Nil}
           \/ \E g \in Guilds : task'[h].old = links[g],
           \A g \in Guilds : stored'[g] \in {stored[g], task[h].link, Nil},
           \A g \in Guilds : links'[g] \in {links[g], task[h].link, Nil}
    PROVE  AllLinks' \subseteq AllLinks
<1> SUFFICES ASSUME NEW l \in AllLinks' PROVE l \in AllLinks
  OBVIOUS
<1>1. /\ l # Nil
      /\ \/ \E g \in Guilds : l = stored'[g] \/ l = links'[g]
         \/ \E i \in Handlers : l = task'[i].link \/ l = task'[i].old
  BY DEF AllLinks
<1> QED BY <1>1, LinksNamed

\* What h does to its own record keeps the connections that others keep.
LEMMA OthersKeep ==
    ASSUME NEW h \in Handlers, UNCHANGED links,
           \A i \in Handlers \ {h} : task'[i] = task[i], NEW id,
           Kept(id),
           ~ \/ task[h].pc \in {"store", "swap"} /\ task[h].link.id = id
             \/ task[h].pc = "close" /\ task[h].old.id = id
    PROVE  Kept(id)'
BY DEF Kept

LEMMA ConnectionStep ==
    Typed /\ NumbersName /\ ConnectionsKept /\ [Next]_vars
        => NumbersName' /\ ConnectionsKept'
<1> SUFFICES ASSUME Typed, NumbersName, ConnectionsKept, [Next]_vars
             PROVE  NumbersName' /\ ConnectionsKept'
  OBVIOUS
<1> USE DEF rows, listener, poll, env
<1>1. TypeOK /\ TasksNamed /\ Idle.pc = "idle" /\ Idle.link = Nil /\ Idle.old = Nil
  BY DEF Typed, Idle
<1>2. CASE UNCHANGED <<task, stored, links, opened, changes, leaked>>
  BY <1>2 DEF NumbersName, AllLinks, ConnectionsKept, Kept
<1>3. ASSUME NEW h \in Handlers, NEW g \in Guilds, NEW b \in Kinds, Apply(h, g, b)
      PROVE  NumbersName' /\ ConnectionsKept'
  <2> DEFINE new == [id |-> changes + 1, backend |-> b]
  <2>1. /\ UNCHANGED <<stored, links, opened, leaked>> /\ changes \in Nat
        /\ changes' = changes + 1
    BY <1>1, <1>3 DEF Apply, TypeOK
  <2>2. /\ task[h] = Idle /\ task'[h].link = new /\ task'[h].old = Nil
        /\ task'[h].pc \in {"open", "store"} /\ (task'[h].pc = "open" => b = "rcon")
        /\ new \in Link
        /\ \A i \in Handlers \ {h} : task'[i] = task[i]
    BY <1>3, ApplyStep
  <2>3. new.id = changes + 1 /\ new.backend = b
    OBVIOUS
  <2> HIDE DEF new
  <2>4. AllLinks' \subseteq AllLinks \cup {new}
    <3> SUFFICES ASSUME NEW l \in AllLinks' PROVE l \in AllLinks \cup {new}
      OBVIOUS
    <3>1. /\ l # Nil
          /\ \/ \E x \in Guilds : l = stored'[x] \/ l = links'[x]
             \/ \E i \in Handlers : l = task'[i].link \/ l = task'[i].old
      BY DEF AllLinks
    <3> QED BY <2>1, <2>2, <3>1, LinksNamed
  <2>5. \A l \in AllLinks : l.id \in Nat /\ l.id <= changes
    <3>1. \A l \in AllLinks : l \in Link
      BY <1>1, LinksNamed DEF TypeOK, Task
    <3> QED BY <3>1 DEF NumbersName, Link
  <2>6. \A id \in opened : id \in Nat /\ id <= changes
    BY <1>1 DEF TypeOK, NumbersName
  <2>7. NumbersName'
    <3>1. \A l \in AllLinks' : l.id <= changes'
      BY <2>1, <2>3, <2>4, <2>5
    <3>2. \A l, m \in AllLinks' : l.id = m.id => l = m
      <4>1. \A l \in AllLinks : l.id # new.id
        BY <2>1, <2>3, <2>5
      <4> QED BY <2>4, <4>1 DEF NumbersName
    <3>3. \A l \in AllLinks' : l.id \in opened' => l.backend = "rcon"
      <4>1. new.id \notin opened
        BY <2>1, <2>3, <2>6
      <4> QED BY <2>1, <2>4, <4>1 DEF NumbersName
    <3>4. \A i \in Handlers : task'[i].pc = "open" => task'[i].link.backend = "rcon"
      BY <2>2, <2>3 DEF NumbersName
    <3>5. \A id \in opened' : id <= changes'
      BY <2>1, <2>6
    <3> QED BY <3>1, <3>2, <3>3, <3>4, <3>5 DEF NumbersName
  <2>8. \A id : Kept(id) => Kept(id)'
    BY <1>1, <2>1, <2>2 DEF Kept
  <2> QED BY <2>1, <2>7, <2>8 DEF ConnectionsKept
<1>4. ASSUME NEW h \in Handlers, Open(h) PROVE NumbersName' /\ ConnectionsKept'
  <2>1. task[h].pc = "open" /\ UNCHANGED <<stored, links, changes, leaked>>
    BY <1>4 DEF Open
  <2>2. CASE opened' = opened \cup {task[h].link.id} /\ Goto(h, "store")
    <3>1. /\ task'[h].pc = "store" /\ task'[h].link = task[h].link
          /\ task'[h].old = task[h].old
          /\ \A i \in Handlers \ {h} : task'[i] = task[i]
      BY <2>1, <2>2, GotoStep
    <3>2. AllLinks' \subseteq AllLinks
      BY <2>1, <3>1, SameLinks
    <3>3. task[h].link \in AllLinks /\ task[h].link.backend = "rcon"
      <4>1. task[h].link \in Link
        BY <1>1, <2>1 DEF TasksNamed
      <4> QED BY <2>1, <4>1, LinksNamed, NilAssumption DEF NumbersName
    <3>4. \A l \in AllLinks' : l.id \in opened' => l.backend = "rcon"
      BY <2>2, <3>2, <3>3 DEF NumbersName
    <3>5. \A id \in opened' : id <= changes'
      BY <2>1, <2>2, <3>3 DEF NumbersName
    <3>6. NumbersName'
      BY <2>1, <3>1, <3>2, <3>4, <3>5 DEF NumbersName
    <3>7. \A id : Kept(id) => Kept(id)'
      BY <2>1, <3>1, OthersKeep
    <3>8. Kept(task[h].link.id)'
      BY <3>1 DEF Kept
    <3>9. ASSUME NEW id \in opened' PROVE Kept(id)' \/ id \in leaked'
      <4>1. id \in opened \/ id = task[h].link.id
        BY <2>2
      <4>2. CASE id \in opened
        BY <2>1, <3>7, <4>2 DEF ConnectionsKept
      <4>3. CASE id = task[h].link.id
        BY <3>1, <3>8, <4>3
      <4> QED BY <4>1, <4>2, <4>3
    <3> QED BY <3>6, <3>9 DEF ConnectionsKept
  <2>3. CASE Finish(h) /\ UNCHANGED opened
    <3>1. task'[h] = Idle /\ \A i \in Handlers \ {h} : task'[i] = task[i]
      BY <2>3, FinishStep
    <3>2. AllLinks' \subseteq AllLinks
      BY <1>1, <2>1, <3>1, SameLinks
    <3>3. NumbersName'
      BY <1>1, <2>1, <2>3, <3>1, <3>2, NoNewLinks
    <3>4. \A id : Kept(id) => Kept(id)'
      BY <2>1, <3>1, OthersKeep
    <3> QED BY <2>1, <2>3, <3>3, <3>4 DEF ConnectionsKept
  <2> QED BY <1>4, <2>2, <2>3 DEF Open
<1>5. ASSUME NEW h \in Handlers, Store(h) PROVE NumbersName' /\ ConnectionsKept'
  <2>1. /\ task[h].pc = "store" /\ UNCHANGED <<links, opened, changes, leaked>>
        /\ stored' = [stored EXCEPT ![task[h].guild] = task[h].link]
        /\ stored \in [Guilds -> Link \cup {Nil}]
    BY <1>1, <1>5 DEF Store, TypeOK
  <2>2. /\ task'[h].pc = "swap" /\ task'[h].link = task[h].link
        /\ task'[h].old = task[h].old
        /\ \A i \in Handlers \ {h} : task'[i] = task[i]
    BY <1>5, StoreStep
  <2>3. AllLinks' \subseteq AllLinks
    BY <2>1, <2>2, SameLinks
  <2>4. NumbersName'
    BY <2>1, <2>2, <2>3, NoNewLinks
  <2>5. \A id : Kept(id) => Kept(id)'
    BY <2>1, <2>2 DEF Kept
  <2> QED BY <2>1, <2>4, <2>5 DEF ConnectionsKept
<1>6. ASSUME NEW h \in Handlers, StoreFails(h) PROVE NumbersName' /\ ConnectionsKept'
  <2>1. /\ task[h].pc = "store" /\ UNCHANGED <<stored, links, opened, changes>>
        /\ leaked' = leaked \cup {task[h].link.id} /\ Finish(h)
    BY <1>6 DEF StoreFails
  <2>2. task'[h] = Idle /\ \A i \in Handlers \ {h} : task'[i] = task[i]
    BY <2>1, FinishStep
  <2>3. AllLinks' \subseteq AllLinks
    BY <1>1, <2>1, <2>2, SameLinks
  <2>4. NumbersName'
    BY <1>1, <2>1, <2>2, <2>3, NoNewLinks
  <2>5. \A id : Kept(id) => Kept(id)' \/ id = task[h].link.id
    BY <2>1, <2>2, OthersKeep
  <2> QED BY <2>1, <2>4, <2>5 DEF ConnectionsKept
<1>7. ASSUME NEW h \in Handlers, Swap(h) PROVE NumbersName' /\ ConnectionsKept'
  <2> DEFINE g == task[h].guild
  <2>1. /\ task[h].pc = "swap" /\ UNCHANGED <<stored, opened, changes, leaked>>
        /\ links' = [links EXCEPT ![g] = task[h].link]
        /\ links \in [Guilds -> Link \cup {Nil}]
    BY <1>1, <1>7 DEF Swap, TypeOK
  <2>2. g \in Guilds
    BY <1>1, <2>1 DEF TasksNamed
  <2>3. /\ links'[g] = task[h].link
        /\ \A x \in Guilds \ {g} : links'[x] = links[x]
    BY <2>1, <2>2
  <2>4. /\ task'[h].link \in {task[h].link, Nil}
        /\ task'[h].old \in {task[h].old, links[g], Nil}
        /\ task'[h].pc # "open"
        /\ \A i \in Handlers \ {h} : task'[i] = task[i]
    BY <1>1, <1>7, SwapStep
  <2>5. \/ task'[h].pc = "close" /\ task'[h].old = links[g]
        \/ links[g] = Nil \/ links[g].backend # "rcon"
    BY <1>7, SwapStep
  <2>6. task[h].link \in Link
    BY <1>1, <2>1 DEF TasksNamed
  <2> HIDE DEF g
  <2>7. AllLinks' \subseteq AllLinks
    BY <2>1, <2>2, <2>3, <2>4, SameLinks
  <2>8. NumbersName'
    BY <2>1, <2>4, <2>7, NoNewLinks
  <2>9. ASSUME NEW id \in opened, Kept(id) PROVE Kept(id)'
    <3>1. CASE \E x \in Guilds \ {g} : links[x] # Nil /\ links[x].id = id
      BY <2>3, <3>1 DEF Kept
    <3>2. CASE links[g] # Nil /\ links[g].id = id
      <4>1. links[g] \in AllLinks
        BY <2>2, <3>2, LinksNamed
      <4>2. links[g].backend = "rcon"
        BY <2>9, <3>2, <4>1 DEF NumbersName
      <4> QED BY <2>5, <3>2, <4>2 DEF Kept
    <3>3. CASE task[h].link.id = id
      BY <2>2, <2>3, <2>6, <3>3, NilAssumption DEF Kept
    <3>4. CASE \E i \in Handlers \ {h} :
                  \/ task[i].pc \in {"store", "swap"} /\ task[i].link.id = id
                  \/ task[i].pc = "close" /\ task[i].old.id = id
      BY <2>4, <3>4 DEF Kept
    <3> QED BY <2>1, <2>2, <2>9, <3>1, <3>2, <3>3, <3>4 DEF Kept
  <2> QED BY <2>1, <2>8, <2>9 DEF ConnectionsKept
<1>8. ASSUME NEW h \in Handlers, CloseOld(h) PROVE NumbersName' /\ ConnectionsKept'
  <2>1. /\ task[h].pc = "close" /\ UNCHANGED <<stored, links, changes, leaked>>
        /\ opened' = opened \ {task[h].old.id} /\ Sync(h, links)
    BY <1>8 DEF CloseOld
  <2>2. /\ task'[h].link \in {task[h].link, Nil}
        /\ task'[h].old \in {task[h].old, Nil} /\ task'[h].pc # "open"
        /\ \A i \in Handlers \ {h} : task'[i] = task[i]
    BY <1>1, <2>1, SyncStep
  <2>3. AllLinks' \subseteq AllLinks
    BY <2>1, <2>2, SameLinks
  <2>4. NumbersName'
    BY <2>1, <2>2, <2>3, NoNewLinks
  <2>5. \A id \in opened' : Kept(id) => Kept(id)'
    BY <2>1, <2>2, OthersKeep
  <2> QED BY <2>1, <2>4, <2>5 DEF ConnectionsKept
<1>9. ASSUME NEW h \in Handlers,
             Bind(h) \/ BindTaken(h) \/ BindRefused(h) \/ Adopt(h) \/ Forget(h)
      PROVE  NumbersName' /\ ConnectionsKept'
  <2>1. /\ task[h].pc \in {"bind", "adopt", "forget"}
        /\ Goto(h, "adopt") \/ Finish(h)
        /\ UNCHANGED <<stored, links, opened, changes, leaked>>
    BY <1>9 DEF Bind, BindTaken, BindRefused, Adopt, Forget
  <2>2. /\ task'[h].link \in {task[h].link, Nil}
        /\ task'[h].old \in {task[h].old, Nil} /\ task'[h].pc # "open"
        /\ \A i \in Handlers \ {h} : task'[i] = task[i]
    BY <1>1, <2>1, GotoStep, FinishStep
  <2>3. AllLinks' \subseteq AllLinks
    BY <2>1, <2>2, SameLinks
  <2>4. NumbersName'
    BY <2>1, <2>2, <2>3, NoNewLinks
  <2>5. \A id : Kept(id) => Kept(id)'
    BY <2>1, <2>2, OthersKeep
  <2> QED BY <2>1, <2>4, <2>5 DEF ConnectionsKept
<1>10. CASE PollStep
  BY <1>2, <1>10 DEF PollStep, PollStart, PollFails, PollEnd, PollWrites
<1>11. ASSUME NEW g \in Guilds, Teardown(g) \/ Setup(g)
       PROVE  NumbersName' /\ ConnectionsKept'
  <2>1. /\ UNCHANGED <<task, links, opened, changes, leaked>>
        /\ \A x \in Guilds : stored'[x] \in {stored[x], Nil}
    BY <1>1, <1>11 DEF Teardown, Setup, TypeOK
  <2>2. AllLinks' \subseteq AllLinks
    <3> SUFFICES ASSUME NEW l \in AllLinks' PROVE l \in AllLinks
      OBVIOUS
    <3>1. /\ l # Nil
          /\ \/ \E x \in Guilds : l = stored'[x] \/ l = links'[x]
             \/ \E i \in Handlers : l = task'[i].link \/ l = task'[i].old
      BY DEF AllLinks
    <3> QED BY <2>1, <3>1, LinksNamed
  <2>3. NumbersName'
    BY <2>1, <2>2, NoNewLinks
  <2> QED BY <2>1, <2>3 DEF ConnectionsKept, Kept
<1>12. CASE Restart
  <2>1. /\ links' = stored /\ UNCHANGED <<stored, changes>>
        /\ \A i \in Handlers : task'[i] = Idle
        /\ opened' = {stored[g].id : g \in {x \in Guilds :
                         stored[x] # Nil /\ stored[x].backend = "rcon"}}
    BY <1>12 DEF Restart
  <2>2. AllLinks' \subseteq AllLinks
    <3> SUFFICES ASSUME NEW l \in AllLinks' PROVE l \in AllLinks
      OBVIOUS
    <3>1. /\ l # Nil
          /\ \/ \E x \in Guilds : l = stored'[x] \/ l = links'[x]
             \/ \E i \in Handlers : l = task'[i].link \/ l = task'[i].old
      BY DEF AllLinks
    <3> QED BY <1>1, <2>1, <3>1, LinksNamed
  <2>3. \A id \in opened' : \E l \in AllLinks : l.id = id /\ l.backend = "rcon"
    <3> SUFFICES ASSUME NEW g \in Guilds, stored[g] # Nil,
                        stored[g].backend = "rcon"
                 PROVE  stored[g] \in AllLinks
      BY <2>1
    <3> QED BY LinksNamed
  <2>4. NumbersName'
    <3>1. \A l \in AllLinks' : l.id \in opened' => l.backend = "rcon"
      BY <2>2, <2>3 DEF NumbersName
    <3>2. \A id \in opened' : id <= changes'
      BY <2>1, <2>3 DEF NumbersName
    <3> QED BY <1>1, <2>1, <2>2, <3>1, <3>2 DEF NumbersName
  <2>5. \A id \in opened' : Kept(id)'
    BY <2>1 DEF Kept
  <2> QED BY <2>4, <2>5 DEF ConnectionsKept
<1>13. CASE UNCHANGED vars
  BY <1>2, <1>13 DEF vars
<1> QED
  BY <1>3, <1>4, <1>5, <1>6, <1>7, <1>8, <1>9, <1>10, <1>11, <1>12, <1>13
  DEF Next, HandlerStep

\* No connection to a game server is forgotten, however admins change links at
\* once: the registry or a handler is to close it, unless its row could not be
\* stored (ConnectionsKept).
THEOREM NoConnectionIsForgotten == Spec => []ConnectionsKept
<1>1. Init => NumbersName /\ ConnectionsKept
  <2> SUFFICES ASSUME Init PROVE NumbersName /\ ConnectionsKept
    OBVIOUS
  <2>1. /\ \A h \in Handlers : task[h] = Idle
        /\ \A g \in Guilds : stored[g] = Nil /\ links[g] = Nil
        /\ opened = {}
    BY DEF Init
  <2>2. Idle.pc = "idle" /\ Idle.link = Nil /\ Idle.old = Nil
    BY DEF Idle
  <2>3. AllLinks = {}
    BY <2>1, <2>2, LinksNamed
  <2> QED BY <2>1, <2>2, <2>3 DEF NumbersName, ConnectionsKept
<1> QED BY <1>1, TypedInit, TypedStep, ConnectionStep, PTL DEF Spec

-----------------------------------------------------------------------------
(***************************************************************************)
(* The listener, when links are changed one at a time.                     *)
(***************************************************************************)
\* A step that neither starts nor ends work on the listener, nor changes what
\* calls for one.
LEMMA ListenerApart ==
    ASSUME ListenerStage, UNCHANGED <<links, runner, port, blocked>>,
           \A h \in Handlers :
              \/ task'[h] = task[h]
              \/ {task[h].pc, task'[h].pc}
                    \cap {"close", "bind", "adopt", "forget"} = {}
    PROVE  ListenerStage'
<1> DEFINE Busy == {"close", "bind", "adopt", "forget"}
<1>1. \A h \in Handlers : task[h].pc \in Busy \/ task'[h].pc \in Busy
                             => task'[h] = task[h]
  OBVIOUS
<1>2. AnyFeed(links') = AnyFeed(links)
  OBVIOUS
<1> QED BY <1>1, <1>2 DEF ListenerStage, AnyFeed

\* The one handler at work synchronises the listener with the links as they
\* are then.
LEMMA SyncStage ==
    ASSUME Typed, NEW h \in Handlers, task[h].pc # "idle",
           \A i \in Handlers \ {h} : task[i].pc = "idle",
           port = runner, Sync(h, links'), UNCHANGED runner
    PROVE  ListenerStage'
<1>1. \A i \in Handlers \ {h} : task'[i] = task[i]
  BY SyncStep
<1>2. CASE /\ AnyFeed(links') /\ runner = Nil
           /\ Goto(h, "bind") /\ UNCHANGED port
  <2>1. task'[h].pc = "bind"
    BY <1>2, GotoStep
  <2> QED BY <1>1, <1>2, <2>1 DEF ListenerStage, AnyFeed
<1>3. CASE /\ ~AnyFeed(links') /\ Goto(h, "forget")
           /\ port' = (IF port = runner THEN Nil ELSE port)
  <2>1. task'[h].pc = "forget" /\ port' = Nil
    BY <1>3, GotoStep
  <2> QED BY <1>1, <1>3, <2>1 DEF ListenerStage, AnyFeed
<1>4. CASE (AnyFeed(links') <=> runner # Nil) /\ Finish(h) /\ UNCHANGED port
  <2>1. task'[h].pc = "idle"
    BY <1>4, FinishStep, IdleTask
  <2> QED BY <1>1, <1>4, <2>1 DEF ListenerStage, AnyFeed
<1> QED BY <1>2, <1>3, <1>4 DEF Sync

LEMMA ListenerStep ==
    ASSUME Serial, Typed, Alone, ListenerStage, [Next]_vars
    PROVE  Alone' /\ ListenerStage'
<1> USE DEF rows, listener, poll, env
<1>1. TypeOK /\ TasksNamed /\ Idle.pc = "idle"
  BY IdleTask DEF Typed
<1>2. CASE UNCHANGED <<task, links, runner, port, blocked>>
  BY <1>2 DEF Alone, ListenerStage, AnyFeed
\* Whoever was at work is the only one that may be.
<1>3. ASSUME NEW h \in Handlers, task[h].pc # "idle",
             \A i \in Handlers \ {h} : task'[i] = task[i]
      PROVE  Alone' /\ \A i \in Handlers \ {h} : task[i].pc = "idle"
  BY <1>3 DEF Alone
<1>4. ASSUME NEW h \in Handlers, NEW g \in Guilds, NEW b \in Kinds, Apply(h, g, b)
      PROVE  Alone' /\ ListenerStage'
  <2>1. /\ UNCHANGED <<links, runner, port, blocked>>
        /\ \A i \in Handlers : task[i].pc = "idle"
    BY <1>1, <1>4 DEF Apply, Quiet
  <2>2. /\ task'[h].pc \in {"open", "store"}
        /\ \A i \in Handlers \ {h} : task'[i] = task[i]
    BY <1>4, ApplyStep
  <2> QED BY <2>1, <2>2, ListenerApart DEF Alone
<1>5. ASSUME NEW h \in Handlers, Open(h) \/ Store(h) \/ StoreFails(h)
      PROVE  Alone' /\ ListenerStage'
  <2>1. /\ UNCHANGED <<links, runner, port, blocked>>
        /\ task[h].pc \in {"open", "store"}
    BY <1>5 DEF Open, Store, StoreFails
  <2>2. /\ task'[h].pc \in {"idle", "store", "swap"}
        /\ \A i \in Handlers \ {h} : task'[i] = task[i]
    <3>1. CASE Store(h)
      BY <3>1, StoreStep
    <3>2. CASE Open(h) \/ StoreFails(h)
      BY <1>1, <2>1, <3>2, GotoStep, FinishStep DEF Open, StoreFails
    <3> QED BY <1>5, <3>1, <3>2
  <2> QED BY <1>3, <2>1, <2>2, ListenerApart
<1>6. ASSUME NEW h \in Handlers, Swap(h) PROVE Alone' /\ ListenerStage'
  <2>1. task[h].pc = "swap" /\ UNCHANGED <<runner, blocked>>
    BY <1>6 DEF Swap
  <2>2. \A i \in Handlers \ {h} : task'[i] = task[i]
    BY <1>6, SwapStep
  <2>3. Alone' /\ \A i \in Handlers \ {h} : task[i].pc = "idle"
    BY <1>3, <2>1, <2>2
  <2>4. port = runner
    BY <2>1, <2>3 DEF ListenerStage
  <2>5. CASE /\ task' = [task EXCEPT ![h].pc = "close",
                                     ![h].old = links[task[h].guild]]
             /\ UNCHANGED port
    <3>1. task'[h].pc = "close"
      BY <1>6, <2>1, <2>5, <1>1 DEF TypeOK, Task
    <3> QED BY <2>1, <2>2, <2>3, <2>4, <2>5, <3>1 DEF ListenerStage
  <2>6. CASE Sync(h, links')
    BY <2>1, <2>3, <2>4, <2>6, SyncStage
  <2> QED BY <1>6, <2>5, <2>6 DEF Swap
<1>7. ASSUME NEW h \in Handlers, CloseOld(h) PROVE Alone' /\ ListenerStage'
  <2>1. /\ task[h].pc = "close" /\ Sync(h, links')
        /\ UNCHANGED <<runner, links>>
    BY <1>7 DEF CloseOld
  <2>2. \A i \in Handlers \ {h} : task'[i] = task[i]
    BY <2>1, SyncStep
  <2>3. Alone' /\ \A i \in Handlers \ {h} : task[i].pc = "idle"
    BY <1>3, <2>1, <2>2
  <2>4. port = runner
    BY <2>1, <2>3 DEF ListenerStage
  <2> QED BY <2>1, <2>3, <2>4, SyncStage
<1>8. ASSUME NEW h \in Handlers, Bind(h) PROVE Alone' /\ ListenerStage'
  <2>1. /\ task[h].pc = "bind" /\ Goto(h, "adopt")
        /\ port' = task[h].link.id /\ UNCHANGED <<links, runner, blocked>>
    BY <1>8 DEF Bind
  <2>2. /\ task'[h].pc = "adopt" /\ task'[h].link = task[h].link
        /\ \A i \in Handlers \ {h} : task'[i] = task[i]
    BY <2>1, GotoStep
  <2>3. Alone' /\ \A i \in Handlers \ {h} : task[i].pc = "idle"
    BY <1>3, <2>1, <2>2
  <2>4. runner = Nil /\ AnyFeed(links)
    BY <2>1 DEF ListenerStage
  <2> QED BY <2>1, <2>2, <2>3, <2>4 DEF ListenerStage, AnyFeed
<1>9. ASSUME NEW h \in Handlers, BindTaken(h) PROVE FALSE
  BY <1>9 DEF BindTaken, ListenerStage
<1>10. ASSUME NEW h \in Handlers, BindRefused(h) \/ Adopt(h) \/ Forget(h)
       PROVE  Alone' /\ ListenerStage'
  <2>1. /\ task[h].pc \in {"bind", "adopt", "forget"} /\ Finish(h)
        /\ UNCHANGED <<links, port>>
    BY <1>10 DEF BindRefused, Adopt, Forget
  <2>2. /\ task'[h].pc = "idle" /\ \A i \in Handlers \ {h} : task'[i] = task[i]
    BY <1>1, <2>1, FinishStep
  <2>3. Alone' /\ \A i \in Handlers \ {h} : task[i].pc = "idle"
    BY <1>3, <2>1, <2>2
  <2>4. \A i \in Handlers : task'[i].pc = "idle"
    BY <2>2, <2>3
  <2>5. CASE BindRefused(h)
    <3>1. port' = runner' /\ blocked'
      BY <2>5 DEF BindRefused, ListenerStage
    <3> QED BY <2>3, <2>4, <3>1 DEF ListenerStage
  <2>6. CASE Adopt(h)
    <3>1. task[h].link.id \in Nat
      BY <1>1, <2>6 DEF Adopt, TasksNamed, Link
    <3>2. port' = runner' /\ runner' # Nil /\ AnyFeed(links')
      BY <2>1, <2>6, <3>1, NilAssumption DEF Adopt, ListenerStage
    <3> QED BY <2>3, <2>4, <3>2 DEF ListenerStage, AnyFeed
  <2>7. CASE Forget(h)
    <3>1. port' = runner' /\ runner' = Nil /\ ~AnyFeed(links')
      BY <2>1, <2>7 DEF Forget, ListenerStage
    <3> QED BY <2>3, <2>4, <3>1 DEF ListenerStage, AnyFeed
  <2> QED BY <1>10, <2>5, <2>6, <2>7
<1>11. CASE PollStep
  BY <1>2, <1>11 DEF PollStep, PollStart, PollFails, PollEnd, PollWrites
<1>12. ASSUME NEW g \in Guilds, Teardown(g) \/ Setup(g)
       PROVE  Alone' /\ ListenerStage'
  BY <1>2, <1>12 DEF Teardown, Setup
<1>13. CASE Restart
  <2>1. /\ \A i \in Handlers : task'[i].pc = "idle"
        /\ links' = stored /\ port' = runner'
        /\ runner' = IF AnyFeed(stored) THEN 0 ELSE Nil
    BY <1>1, <1>13 DEF Restart
  <2>2. runner' # Nil <=> AnyFeed(links')
    BY <2>1, NilAssumption
  <2> QED BY <2>1, <2>2 DEF Alone, ListenerStage, AnyFeed
<1>14. CASE UNCHANGED vars
  BY <1>2, <1>14 DEF vars
<1> QED
  BY <1>4, <1>5, <1>6, <1>7, <1>8, <1>9, <1>10, <1>11, <1>12, <1>13, <1>14
  DEF Next, HandlerStep

\* Where links are changed one at a time, the one listener runs, at rest, just
\* when a link is a feed, through restarts and teardowns, and unless the system
\* refused the port (ListenerMatchesLinks).
THEOREM SerialChangesKeepTheListener ==
    ASSUME Serial PROVE Spec => []ListenerMatchesLinks
<1>1. Init => Alone /\ ListenerStage
  <2> SUFFICES ASSUME Init PROVE Alone /\ ListenerStage
    OBVIOUS
  <2>1. /\ \A h \in Handlers : task[h].pc = "idle"
        /\ port = runner /\ runner = Nil /\ ~AnyFeed(links)
    BY IdleTask DEF Init, AnyFeed
  <2> QED BY <2>1 DEF Alone, ListenerStage
<1>2. Typed /\ Alone /\ ListenerStage /\ [Next]_vars => Alone' /\ ListenerStage'
  BY ListenerStep
<1>3. Alone /\ ListenerStage => ListenerMatchesLinks
  BY IdleTask DEF ListenerStage, ListenerMatchesLinks, Quiet
<1> QED BY <1>1, <1>2, <1>3, TypedInit, TypedStep, PTL DEF Spec
=============================================================================
