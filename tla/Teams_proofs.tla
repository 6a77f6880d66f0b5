---------------------------- MODULE Teams_proofs ----------------------------
(***************************************************************************)
(* Proofs about Teams: its variables keep their types, and whatever is on  *)
(* Discord is tracked, for any number of admins, names and teams.          *)
(***************************************************************************)
EXTENDS Teams, TLAPS

LEMMA IdleTask == Idle \in Task /\ Idle.pc = "idle" /\ Idle.todo = {} /\ Idle.done = {}
BY DEF Idle, Job, Task

LEMMA TeamInit == Init => TypeOK /\ TeamInv
<1> SUFFICES ASSUME Init PROVE TypeOK /\ TeamInv
  OBVIOUS
<1>1. TypeOK
  BY IdleTask DEF Init, TypeOK
<1>2. TeamInv
  BY IdleTask DEF Init, TeamInv, Numbered, MadeByOne, InCategory, SeenIsAll,
                  BuiltIsTracked, Making, Of
<1> QED BY <1>1, <1>2

-----------------------------------------------------------------------------
\* Every step keeps the types.
LEMMA TypeStep ==
    ASSUME TypeOK, Numbered, Next
    PROVE  TypeOK'
<1> USE DEF TypeOK, Bounded, Leaves, Fault
<1>1. ASSUME NEW t \in Handlers, NEW n \in Names, Create(t, n) PROVE TypeOK'
  <2>1. [name |-> n, build |-> builds + 1] \in Row
    BY DEF Row
  <2> QED BY <1>1, <2>1 DEF Create, Starts, Job, Task
<1>2. ASSUME NEW t \in Handlers, Creates(t) PROVE TypeOK'
  <2>1. task[t] \in Task
    OBVIOUS
  <2>2. task[t].pc \in Making => task[t].row \in Row
    BY DEF Numbered, Making
  <2>3. ASSUME NEW k \in Kinds, Build(t, k) PROVE TypeOK'
    <3>1. task[t].row.build \in Nat
      BY <2>2, <2>3 DEF Build, Making, Row
    <3>2. live' \subseteq Nat \X Kinds
      BY <2>3, <3>1 DEF Build
    <3>3. task' \in [Handlers -> Task]
      BY <2>1, <2>3 DEF Build, Task
    <3> QED BY <2>3, <3>2, <3>3 DEF Build
  <2>4. ASSUME NEW k \in Kinds, BuildFails(t, k) PROVE TypeOK'
    BY <2>1, <2>4 DEF BuildFails, RollsBack, Task
  <2>5. ASSUME NEW k \in Kinds, RollBack(t, k) PROVE TypeOK'
    BY <2>1, <2>2, <2>5 DEF RollBack, Task, Row, Making
  <2>6. CASE Insert(t)
    BY <2>1, <2>2, <2>6, IdleTask DEF Insert, Making
  <2>7. CASE InsertFails(t)
    BY <2>1, <2>7 DEF InsertFails, RollsBack, Task
  <2>8. CASE RolledBack(t)
    BY <2>8, IdleTask DEF RolledBack
  <2> QED BY <1>2, <2>3, <2>4, <2>5, <2>6, <2>7, <2>8 DEF Creates
<1>3. ASSUME NEW t \in Handlers, Disbands(t) PROVE TypeOK'
  <2>1. task[t] \in Task
    OBVIOUS
  <2>2. ASSUME NEW k \in Kinds, Delete(t, k) PROVE TypeOK'
    BY <2>1, <2>2 DEF Delete, Task
  <2>3. ASSUME NEW k \in Kinds, DeleteFails(t, k) PROVE TypeOK'
    BY <2>3, IdleTask DEF DeleteFails
  <2>4. CASE Drop(t)
    BY <2>4, IdleTask DEF Drop
  <2> QED BY <1>3, <2>2, <2>3, <2>4 DEF Disbands
<1>4. ASSUME NEW t \in Handlers, TearsDown(t) PROVE TypeOK'
  <2>1. task[t] \in Task
    OBVIOUS
  <2>2. ASSUME NEW r \in task[t].todo, EraseNext(t, r) PROVE TypeOK'
    BY <2>1, <2>2 DEF EraseNext, Task, Seen, Of
  <2>3. ASSUME NEW k \in Kinds, Erase(t, k) PROVE TypeOK'
    BY <2>1, <2>3 DEF Erase, Task
  <2>4. ASSUME NEW k \in Kinds, EraseFails(t, k) PROVE TypeOK'
    BY <2>4, IdleTask DEF EraseFails
  <2>5. CASE Erased(t)
    <3>1. task[t].row \in Row
      BY <2>5 DEF Erased, Numbered
    <3> QED BY <2>1, <2>5, <3>1 DEF Erased, Task
  <2>6. CASE EraseRefused(t)
    BY <2>1, <2>6 DEF EraseRefused, Task
  <2>7. CASE Clear(t)
    BY <2>7, IdleTask DEF Clear, Row
  <2> QED BY <1>4, <2>2, <2>3, <2>4, <2>5, <2>6, <2>7 DEF TearsDown
<1>5. ASSUME NEW t \in Handlers, NEW r \in rows, Ask(t, r) PROVE TypeOK'
  BY <1>5 DEF Ask, Starts, Job, Task
<1>6. ASSUME NEW t \in Handlers, Confirm(t) PROVE TypeOK'
  <2>1. task[t] \in Task /\ Seen(task[t].row.build) \in SUBSET Kinds
    BY DEF Seen, Of
  <2> QED BY <1>6, <2>1 DEF Confirm, Task
<1>7. ASSUME NEW t \in Handlers, Cancel(t) PROVE TypeOK'
  BY <1>7, IdleTask DEF Cancel
<1>8. ASSUME NEW t \in Handlers, Teardown(t) PROVE TypeOK'
  BY <1>8 DEF Teardown, Starts, Job, Task
<1>9. CASE Setup
  BY <1>9 DEF Setup
<1>10. CASE Crash
  <2>1. {task[t].row.build : t \in {u \in Handlers : task[u].pc \in Making}} \subseteq Nat
    BY DEF Numbered, Making, Row
  <2>2. lost' \subseteq Nat
    BY <1>10, <2>1 DEF Crash
  <2> QED BY <1>10, <2>2, IdleTask DEF Crash
<1>11. ASSUME NEW b \in 1..builds, NEW k \in Kinds, DeletedByHand(b, k) PROVE TypeOK'
  BY <1>11 DEF DeletedByHand
<1> QED BY <1>1, <1>2, <1>3, <1>4, <1>5, <1>6, <1>7, <1>8, <1>9, <1>10, <1>11 DEF Next

-----------------------------------------------------------------------------
\* What a call to Discord does to what a team has there.
LEMMA Adds ==
    ASSUME NEW b, NEW k \in Kinds, live' = live \cup {<<b, k>>}
    PROVE  \A c : Of(c)' = IF c = b THEN Of(c) \cup {k} ELSE Of(c)
BY DEF Of

LEMMA Removes ==
    ASSUME NEW b, NEW k \in Kinds, live' = live \ {<<b, k>>}
    PROVE  \A c : Of(c)' = IF c = b THEN Of(c) \ {k} ELSE Of(c)
BY DEF Of

LEMMA Stays ==
    ASSUME live' = live
    PROVE  \A c : Of(c)' = Of(c)
BY DEF Of

\* A category comes up for deletion only after its channels, in both orders.
LEMMA ChannelsFirst ==
    ASSUME NEW S \in SUBSET Kinds,
           NextToRollBack("category", S) \/ NextToDisband("category", S)
    PROVE  S \subseteq {"role", "category"}
<1> SUFFICES ASSUME NEW j \in S PROVE j \in {"role", "category"}
  OBVIOUS
<1>1. /\ BuildPlace["category"] = 2 /\ DisbandPlace["category"] = 3
      /\ BuildPlace["chat"] = 3 /\ BuildPlace["voice"] = 4
      /\ DisbandPlace["chat"] = 1 /\ DisbandPlace["voice"] = 2
  BY DEF BuildPlace, DisbandPlace
<1>2. ASSUME NextToRollBack("category", S) PROVE j # "chat" /\ j # "voice"
  BY <1>1, <1>2 DEF NextToRollBack
<1>3. CASE NextToDisband("category", S)
  <2>1. DisbandPlace["category"] <= DisbandPlace[j]
    BY <1>3 DEF NextToDisband
  <2>2. j # "chat" /\ j # "voice"
    BY <1>1, <2>1
  <2> QED BY <2>2 DEF Kinds
<1> QED BY <1>2, <1>3 DEF Kinds

-----------------------------------------------------------------------------
(***************************************************************************)
(* One lemma for each action: it keeps the invariant.                      *)
(***************************************************************************)
LEMMA CreateKeeps ==
    ASSUME TypeOK, TypeOK', TeamInv, NEW t \in Handlers, NEW n \in Names, Create(t, n)
    PROVE  TeamInv'
<1> USE DEF TypeOK, TeamInv, Create, Making, BuildOf, Task, Row,
            Bounded, Fault, Leaves, Starts, RollsBack, Idle, Job
<1> DEFINE b == builds + 1
<1>a. /\ task'[t].pc = "build" /\ BuildOf(t)' = b /\ task'[t].left = Kinds
      /\ task'[t].todo = {} /\ task'[t].done = {}
      /\ \A u \in Handlers : u # t => task'[u] = task[u]
      /\ UNCHANGED <<rows, live, lost>> /\ builds' = b
  OBVIOUS
<1>b. Of(b) = {} /\ \A c : Of(c)' = Of(c)
  BY <1>a, Stays DEF Numbered, Of
<1>1. Numbered'
  BY DEF Numbered
<1>2. MadeByOne'
  <2> HIDE DEF Create
  <2>1. /\ \A r \in rows : r.build # b
        /\ \A u \in Handlers : /\ task[u].pc \notin {"idle", "teardown"} => BuildOf(u) # b
                              /\ \A r \in task[u].todo \cup task[u].done : r.build # b
    BY DEF Numbered
  <2>2. ASSUME NEW u \in Handlers, u # t, task[u].pc \in Making
        PROVE  /\ BuildOf(u) # b
               /\ \A v \in Handlers :
                     /\ v # u /\ task'[v].pc \notin {"idle", "teardown"} => BuildOf(v)' # BuildOf(u)
                     /\ \A r \in task'[v].todo \cup task'[v].done : r.build # BuildOf(u)
    BY <2>1, <2>2, <1>a DEF MadeByOne
  <2>3. ASSUME NEW u \in Handlers, u # t, task[u].pc \in Making
        PROVE  IF task[u].pc = "rollback"
               THEN BuildOf(u) \in lost' \/ Of(BuildOf(u))' \subseteq task[u].left
               ELSE Of(BuildOf(u))' \subseteq Kinds \ task[u].left
    BY <2>3, <1>a, <1>b DEF MadeByOne
  <2>4. \A v \in Handlers :
           /\ v # t /\ task'[v].pc \notin {"idle", "teardown"} => BuildOf(v)' # b
           /\ \A r \in task'[v].todo \cup task'[v].done : r.build # b
    BY <2>1, <1>a
  <2>5. \A r \in rows, u \in Handlers : task[u].pc \in Making => r.build # BuildOf(u)
    BY DEF MadeByOne
  <2> QED BY <2>1, <2>2, <2>3, <2>4, <2>5, <1>a, <1>b DEF MadeByOne
<1>3. InCategory'
  BY <1>a, <1>b DEF InCategory
<1>4. SeenIsAll'
  BY DEF SeenIsAll, Of, Kinds, Numbered, MadeByOne, Seen
<1>5. BuiltIsTracked'
  <2> SUFFICES ASSUME NEW c \in 1..builds', Of(c)' # {}
               PROVE  \/ c \in lost
                      \/ \E r \in rows : r.build = c
                      \/ \E u \in Handlers : task'[u].pc \in Making /\ BuildOf(u)' = c
    BY <1>a DEF BuiltIsTracked
  <2>1. c \in 1..builds /\ Of(c) # {}
    BY <1>a, <1>b
  <2>2. \A u \in Handlers : task[u].pc \in Making => u # t
    OBVIOUS
  <2> HIDE DEF Create, TypeOK
  <2> QED BY <2>1, <2>2, <1>a DEF BuiltIsTracked
<1> QED BY <1>1, <1>2, <1>3, <1>4, <1>5

LEMMA BuildKeeps ==
    ASSUME TypeOK, TypeOK', TeamInv, NEW t \in Handlers, NEW k \in Kinds, Build(t, k)
    PROVE  TeamInv'
<1> USE DEF TypeOK, TeamInv, Build, Making, BuildOf, Task, Row,
            Bounded, Fault, Leaves, Starts, RollsBack, Idle, Job
<1> DEFINE b == task[t].row.build
<1>a. /\ task[t].pc = "build" /\ k \in task[t].left /\ b \in 1..builds
      /\ k \in {"chat", "voice"} => "category" \in Of(b)
      /\ live' = live \cup {<<b, k>>}
      /\ \A c : Of(c)' = IF c = b THEN Of(c) \cup {k} ELSE Of(c)
  BY Adds DEF Numbered, NextToBuild
<1>b. /\ task'[t].left = task[t].left \ {k} /\ task'[t].pc \in {"build", "insert"}
      /\ task'[t].row = task[t].row
      /\ task'[t].todo = task[t].todo /\ task'[t].done = task[t].done
      /\ \A u \in Handlers : u # t => task'[u] = task[u]
      /\ UNCHANGED <<rows, lost, builds>>
  BY <1>a
<1>c. \A u \in Handlers : /\ task'[u].row = task[u].row
                          /\ task'[u].todo = task[u].todo /\ task'[u].done = task[u].done
                          /\ u = t \/ task'[u].pc = task[u].pc
  BY <1>a, <1>b
<1>d. \A u \in Handlers : task'[u].pc \in Making => task[u].pc \in Making
  BY <1>a, <1>c
<1> HIDE DEF Build, TypeOK, Bounded, Task, Row, Fault, Leaves
<1>1. Numbered'
  BY <1>a, <1>b, <1>c DEF Numbered
<1>2. MadeByOne'
  <2>1. ASSUME NEW u \in Handlers, task'[u].pc \in Making
        PROVE  IF task'[u].pc = "rollback"
               THEN BuildOf(u)' \in lost' \/ Of(BuildOf(u))' \subseteq task'[u].left
               ELSE Of(BuildOf(u))' \subseteq Kinds \ task'[u].left
    <3>1. CASE u = t
      BY <2>1, <3>1, <1>a, <1>b, <1>c DEF MadeByOne
    <3>2. CASE u # t
      <4>1. BuildOf(u) # b
        BY <2>1, <3>2, <1>a, <1>d DEF MadeByOne
      <4> QED BY <2>1, <3>2, <4>1, <1>a, <1>b DEF MadeByOne
    <3> QED BY <3>1, <3>2
  <2>2. ASSUME NEW u \in Handlers, task'[u].pc \in Making
        PROVE  /\ \A r \in rows' : r.build # BuildOf(u)'
               /\ \A v \in Handlers :
                     /\ v # u /\ task'[v].pc \notin {"idle", "teardown"} => BuildOf(v)' # BuildOf(u)'
                     /\ \A r \in task'[v].todo \cup task'[v].done : r.build # BuildOf(u)'
    <3>1. task[u].pc \in Making
      BY <2>2, <1>d
    <3>2. \A v \in Handlers : task'[v].pc \notin {"idle", "teardown"} => task[v].pc \notin {"idle", "teardown"}
      BY <1>a, <1>c
    <3> QED BY <3>1, <3>2, <1>b, <1>c DEF MadeByOne
  <2> QED BY <2>1, <2>2 DEF MadeByOne
<1>3. InCategory'
  BY <1>a, <1>b DEF InCategory, Kinds
<1>4. SeenIsAll'
  <2>1. ASSUME NEW u \in Handlers, task'[u].pc \in {"disband", "erase"}
        PROVE  BuildOf(u)' \in lost' \/ Of(BuildOf(u))' \subseteq task'[u].left
    <3>1. u # t /\ task'[u] = task[u]
      BY <2>1, <1>b
    <3>2. BuildOf(u) # b
      BY <2>1, <3>1, <1>a DEF MadeByOne
    <3> QED BY <2>1, <3>1, <3>2, <1>a, <1>b DEF SeenIsAll
  <2>2. ASSUME NEW u \in Handlers, NEW r \in task'[u].done
        PROVE  r.build \in lost' \/ Of(r.build)' = {}
    <3>1. r \in task[u].done /\ r.build # b
      BY <2>2, <1>a, <1>c DEF MadeByOne
    <3> QED BY <3>1, <1>a, <1>b DEF SeenIsAll
  <2> QED BY <2>1, <2>2 DEF SeenIsAll
<1>5. BuiltIsTracked'
  <2> SUFFICES ASSUME NEW c \in 1..builds, Of(c)' # {}
               PROVE  \/ c \in lost
                      \/ \E r \in rows : r.build = c
                      \/ \E u \in Handlers : task'[u].pc \in Making /\ BuildOf(u)' = c
    BY <1>b DEF BuiltIsTracked
  <2>1. CASE c = b
    BY <2>1, <1>a, <1>b, <1>c
  <2>2. CASE c # b
    BY <2>2, <1>a, <1>b, <1>c DEF BuiltIsTracked
  <2> QED BY <2>1, <2>2
<1> QED BY <1>1, <1>2, <1>3, <1>4, <1>5

LEMMA BuildFailsKeeps ==
    ASSUME TypeOK, TypeOK', TeamInv, NEW t \in Handlers, NEW k \in Kinds, BuildFails(t, k)
    PROVE  TeamInv'
<1> USE DEF TypeOK, TeamInv, BuildFails, Making, BuildOf, Task, Row,
            Bounded, Fault, Leaves, Starts, RollsBack, Idle, Job
<1>1. Numbered'
  BY DEF Numbered
<1>2. MadeByOne'
  BY DEF MadeByOne, Of, Kinds
<1>3. InCategory'
  BY DEF InCategory, Of, Kinds
<1>4. SeenIsAll'
  BY DEF SeenIsAll, Of, Kinds, Numbered, MadeByOne, Seen
<1>5. BuiltIsTracked'
  BY DEF BuiltIsTracked, Of, Numbered, MadeByOne, SeenIsAll
<1> QED BY <1>1, <1>2, <1>3, <1>4, <1>5

LEMMA InsertKeeps ==
    ASSUME TypeOK, TypeOK', TeamInv, NEW t \in Handlers, Insert(t)
    PROVE  TeamInv'
<1> USE DEF TypeOK, TeamInv, Insert, Making, BuildOf, Task, Row,
            Bounded, Fault, Leaves, Starts, RollsBack, Idle, Job
<1>1. Numbered'
  BY DEF Numbered
<1>2. MadeByOne'
  BY DEF MadeByOne, Of, Kinds
<1>3. InCategory'
  BY DEF InCategory, Of, Kinds
<1>4. SeenIsAll'
  BY DEF SeenIsAll, Of, Kinds, Numbered, MadeByOne, Seen
<1>5. BuiltIsTracked'
  BY DEF BuiltIsTracked, Of, Numbered, MadeByOne, SeenIsAll
<1> QED BY <1>1, <1>2, <1>3, <1>4, <1>5

LEMMA InsertFailsKeeps ==
    ASSUME TypeOK, TypeOK', TeamInv, NEW t \in Handlers, InsertFails(t)
    PROVE  TeamInv'
<1> USE DEF TypeOK, TeamInv, InsertFails, Making, BuildOf, Task, Row,
            Bounded, Fault, Leaves, Starts, RollsBack, Idle, Job
<1>1. Numbered'
  BY DEF Numbered
<1>2. MadeByOne'
  BY DEF MadeByOne, Of, Kinds
<1>3. InCategory'
  BY DEF InCategory, Of, Kinds
<1>4. SeenIsAll'
  BY DEF SeenIsAll, Of, Kinds, Numbered, MadeByOne, Seen
<1>5. BuiltIsTracked'
  <2> SUFFICES ASSUME NEW c \in 1..builds, Of(c)' # {}
               PROVE  \/ c \in lost'
                      \/ \E r \in rows' : r.build = c
                      \/ \E u \in Handlers : task'[u].pc \in Making /\ BuildOf(u)' = c
    BY DEF BuiltIsTracked
  <2>1. Of(c) # {}
    BY Stays
  <2>2. /\ \A u \in Handlers : task[u].pc \in Making => task'[u].pc \in Making
        /\ \A u \in Handlers : BuildOf(u)' = BuildOf(u)
        /\ UNCHANGED <<rows, lost>>
    OBVIOUS
  <2> HIDE DEF InsertFails, TypeOK, Making
  <2> QED BY <2>1, <2>2 DEF BuiltIsTracked
<1> QED BY <1>1, <1>2, <1>3, <1>4, <1>5

LEMMA RollBackKeeps ==
    ASSUME TypeOK, TypeOK', TeamInv, NEW t \in Handlers, NEW k \in Kinds, RollBack(t, k)
    PROVE  TeamInv'
<1> USE DEF TypeOK, TeamInv, RollBack, Making, BuildOf, Task, Row,
            Bounded, Fault, Leaves, Starts, RollsBack, Idle, Job
<1> DEFINE b == task[t].row.build
<1>a. task[t].pc = "rollback" /\ b \in 1..builds /\ task[t].left \in SUBSET Kinds
  BY DEF Numbered
<1>b. b \in lost \/ Of(b) \subseteq task[t].left
  BY <1>a DEF MadeByOne
<1>c. k = "category" => b \in lost \/ Of(b) \subseteq {"role", "category"}
  BY <1>a, <1>b, ChannelsFirst
<1>d. /\ UNCHANGED builds /\ lost \subseteq lost'
      /\ \A c : Of(c)' = Of(c) \/ (c = b /\ Of(c)' = Of(c) \ {k})
  <2>1. CASE live' = live \ {<<b, k>>}
    BY <2>1, Removes
  <2>2. CASE UNCHANGED live
    BY <2>2, Stays
  <2> QED BY <2>1, <2>2
<1>1. Numbered'
  BY DEF Numbered
<1>2. MadeByOne'
  BY DEF MadeByOne, Of, Kinds
<1>3. InCategory'
  <2> SUFFICES ASSUME NEW c \in 1..builds
               PROVE  "category" \in Of(c)' \/ c \in lost' \/ Of(c)' \subseteq {"role"}
    BY <1>d DEF InCategory
  <2>1. "category" \in Of(c) \/ c \in lost \/ Of(c) \subseteq {"role"}
    BY DEF InCategory
  <2> HIDE DEF TypeOK, TeamInv, RollBack
  <2> QED BY <2>1, <1>c, <1>d
<1>4. SeenIsAll'
  BY DEF SeenIsAll, Of, Kinds, Numbered, MadeByOne, Seen
<1>5. BuiltIsTracked'
  <2> SUFFICES ASSUME NEW c \in 1..builds, Of(c)' # {}
               PROVE  \/ c \in lost'
                      \/ \E r \in rows : r.build = c
                      \/ \E u \in Handlers : task'[u].pc \in Making /\ BuildOf(u)' = c
    BY <1>d DEF BuiltIsTracked
  <2>1. Of(c) # {}
    BY <1>d
  <2>2. \A u \in Handlers : task'[u].pc = task[u].pc /\ BuildOf(u)' = BuildOf(u)
    OBVIOUS
  <2> HIDE DEF TypeOK, RollBack
  <2> QED BY <2>1, <2>2, <1>d DEF BuiltIsTracked
<1> QED BY <1>1, <1>2, <1>3, <1>4, <1>5

LEMMA RolledBackKeeps ==
    ASSUME TypeOK, TypeOK', TeamInv, NEW t \in Handlers, RolledBack(t)
    PROVE  TeamInv'
<1> USE DEF TypeOK, TeamInv, RolledBack, Making, BuildOf, Task, Row,
            Bounded, Fault, Leaves, Starts, RollsBack, Idle, Job
<1>1. Numbered'
  BY DEF Numbered
<1>2. MadeByOne'
  BY DEF MadeByOne, Of, Kinds
<1>3. InCategory'
  BY DEF InCategory, Of, Kinds
<1>4. SeenIsAll'
  BY DEF SeenIsAll, Of, Kinds, Numbered, MadeByOne, Seen
<1>5. BuiltIsTracked'
  <2> SUFFICES ASSUME NEW c \in 1..builds, Of(c)' # {}
               PROVE  \/ c \in lost'
                      \/ \E r \in rows' : r.build = c
                      \/ \E u \in Handlers : task'[u].pc \in Making /\ BuildOf(u)' = c
    BY DEF BuiltIsTracked
  <2>1. Of(c) # {}
    BY Stays
  <2>2. \A u \in Handlers : u # t => task'[u] = task[u]
    OBVIOUS
  <2>3. BuildOf(t) = c => c \in lost
    BY <2>1 DEF MadeByOne
  <2> QED BY <2>1, <2>2, <2>3 DEF BuiltIsTracked
<1> QED BY <1>1, <1>2, <1>3, <1>4, <1>5

LEMMA AskKeeps ==
    ASSUME TypeOK, TypeOK', TeamInv, NEW t \in Handlers, NEW r \in rows,
           Ask(t, r)
    PROVE  TeamInv'
<1> USE DEF TypeOK, TeamInv, Ask, Making, BuildOf, Task, Row,
            Bounded, Fault, Leaves, Starts, RollsBack, Idle, Job
<1>1. Numbered'
  BY DEF Numbered
<1>2. MadeByOne'
  BY DEF MadeByOne, Of, Kinds
<1>3. InCategory'
  BY DEF InCategory, Of, Kinds
<1>4. SeenIsAll'
  BY DEF SeenIsAll, Of, Kinds, Numbered, MadeByOne, Seen
<1>5. BuiltIsTracked'
  BY DEF BuiltIsTracked, Of, Numbered, MadeByOne, SeenIsAll
<1> QED BY <1>1, <1>2, <1>3, <1>4, <1>5

LEMMA CancelKeeps ==
    ASSUME TypeOK, TypeOK', TeamInv, NEW t \in Handlers, Cancel(t)
    PROVE  TeamInv'
<1> USE DEF TypeOK, TeamInv, Cancel, Making, BuildOf, Task, Row,
            Bounded, Fault, Leaves, Starts, RollsBack, Idle, Job
<1>1. Numbered'
  BY DEF Numbered
<1>2. MadeByOne'
  BY DEF MadeByOne, Of, Kinds
<1>3. InCategory'
  BY DEF InCategory, Of, Kinds
<1>4. SeenIsAll'
  BY DEF SeenIsAll, Of, Kinds, Numbered, MadeByOne, Seen
<1>5. BuiltIsTracked'
  BY DEF BuiltIsTracked, Of, Numbered, MadeByOne, SeenIsAll
<1> QED BY <1>1, <1>2, <1>3, <1>4, <1>5

LEMMA ConfirmKeeps ==
    ASSUME TypeOK, TypeOK', TeamInv, NEW t \in Handlers, Confirm(t)
    PROVE  TeamInv'
<1> USE DEF TypeOK, TeamInv, Confirm, Making, BuildOf, Task, Row,
            Bounded, Fault, Leaves, Starts, RollsBack, Idle, Job
<1> DEFINE b == task[t].row.build
<1>a. /\ task'[t].left = Seen(b) /\ BuildOf(t)' = b /\ task'[t].done = task[t].done
      /\ \A u \in Handlers : u # t => task'[u] = task[u]
      /\ UNCHANGED <<rows, live, lost, builds>> /\ b \in 1..builds
  BY DEF Numbered
<1>b. b \in lost \/ Of(b) \subseteq Seen(b)
  BY <1>a DEF InCategory, Seen
<1>1. Numbered'
  BY DEF Numbered
<1>2. MadeByOne'
  BY DEF MadeByOne, Of, Kinds
<1>3. InCategory'
  BY DEF InCategory, Of, Kinds
<1>4. SeenIsAll'
  <2>1. \A c : Of(c)' = Of(c)
    BY Stays
  <2> HIDE DEF Confirm, TypeOK
  <2>2. ASSUME NEW u \in Handlers, task'[u].pc \in {"disband", "erase"}
        PROVE  BuildOf(u)' \in lost' \/ Of(BuildOf(u))' \subseteq task'[u].left
    <3>1. CASE u = t
      BY <2>1, <3>1, <1>a, <1>b
    <3>2. CASE u # t
      BY <2>1, <2>2, <3>2, <1>a DEF SeenIsAll
    <3> QED BY <3>1, <3>2
  <2>3. ASSUME NEW u \in Handlers, NEW q \in task'[u].done
        PROVE  q.build \in lost' \/ Of(q.build)' = {}
    BY <2>1, <2>3, <1>a DEF SeenIsAll
  <2> QED BY <2>2, <2>3 DEF SeenIsAll
<1>5. BuiltIsTracked'
  BY DEF BuiltIsTracked, Of, Numbered, MadeByOne, SeenIsAll
<1> QED BY <1>1, <1>2, <1>3, <1>4, <1>5

LEMMA DeleteKeeps ==
    ASSUME TypeOK, TypeOK', TeamInv, NEW t \in Handlers, NEW k \in Kinds, Delete(t, k)
    PROVE  TeamInv'
<1> USE DEF TypeOK, TeamInv, Delete, Making, BuildOf, Task, Row,
            Bounded, Fault, Leaves, Starts, RollsBack, Idle, Job
<1> DEFINE b == task[t].row.build
<1>a. task[t].pc = "disband" /\ b \in 1..builds /\ task[t].left \in SUBSET Kinds
  BY DEF Numbered
<1>b. b \in lost \/ Of(b) \subseteq task[t].left
  BY <1>a DEF SeenIsAll
<1>c. k = "category" => b \in lost \/ Of(b) \subseteq {"role", "category"}
  BY <1>a, <1>b, ChannelsFirst
<1>d. /\ UNCHANGED builds /\ lost \subseteq lost'
      /\ \A c : Of(c)' = Of(c) \/ (c = b /\ Of(c)' = Of(c) \ {k})
  BY Removes
<1>1. Numbered'
  BY DEF Numbered
<1>2. MadeByOne'
  BY DEF MadeByOne, Of, Kinds
<1>3. InCategory'
  <2> SUFFICES ASSUME NEW c \in 1..builds
               PROVE  "category" \in Of(c)' \/ c \in lost' \/ Of(c)' \subseteq {"role"}
    BY <1>d DEF InCategory
  <2>1. "category" \in Of(c) \/ c \in lost \/ Of(c) \subseteq {"role"}
    BY DEF InCategory
  <2> HIDE DEF TypeOK, TeamInv, Delete
  <2> QED BY <2>1, <1>c, <1>d
<1>4. SeenIsAll'
  BY DEF SeenIsAll, Of, Kinds, Numbered, MadeByOne, Seen
<1>5. BuiltIsTracked'
  BY DEF BuiltIsTracked, Of, Numbered, MadeByOne, SeenIsAll
<1> QED BY <1>1, <1>2, <1>3, <1>4, <1>5

LEMMA DeleteFailsKeeps ==
    ASSUME TypeOK, TypeOK', TeamInv, NEW t \in Handlers, NEW k \in Kinds, DeleteFails(t, k)
    PROVE  TeamInv'
<1> USE DEF TypeOK, TeamInv, DeleteFails, Making, BuildOf, Task, Row,
            Bounded, Fault, Leaves, Starts, RollsBack, Idle, Job
<1>1. Numbered'
  BY DEF Numbered
<1>2. MadeByOne'
  BY DEF MadeByOne, Of, Kinds
<1>3. InCategory'
  BY DEF InCategory, Of, Kinds
<1>4. SeenIsAll'
  BY DEF SeenIsAll, Of, Kinds, Numbered, MadeByOne, Seen
<1>5. BuiltIsTracked'
  BY DEF BuiltIsTracked, Of, Numbered, MadeByOne, SeenIsAll
<1> QED BY <1>1, <1>2, <1>3, <1>4, <1>5

LEMMA DropKeeps ==
    ASSUME TypeOK, TypeOK', TeamInv, NEW t \in Handlers, Drop(t)
    PROVE  TeamInv'
<1> USE DEF TypeOK, TeamInv, Drop, Making, BuildOf, Task, Row,
            Bounded, Fault, Leaves, Starts, RollsBack, Idle, Job
<1>1. Numbered'
  BY DEF Numbered
<1>2. MadeByOne'
  BY DEF MadeByOne, Of, Kinds
<1>3. InCategory'
  BY DEF InCategory, Of, Kinds
<1>4. SeenIsAll'
  BY DEF SeenIsAll, Of, Kinds, Numbered, MadeByOne, Seen
<1>5. BuiltIsTracked'
  <2> SUFFICES ASSUME NEW c \in 1..builds, Of(c)' # {}
               PROVE  \/ c \in lost'
                      \/ \E r \in rows' : r.build = c
                      \/ \E u \in Handlers : task'[u].pc \in Making /\ BuildOf(u)' = c
    BY DEF BuiltIsTracked
  <2>1. Of(c) # {}
    BY Stays
  <2>2. \A u \in Handlers : task[u].pc \in Making => task'[u] = task[u]
    OBVIOUS
  <2>3. BuildOf(t) = c => c \in lost
    BY <2>1 DEF SeenIsAll
  <2>4. \A r \in rows : r.build = c /\ r.build # BuildOf(t) => r \in rows'
    OBVIOUS
  <2> QED BY <2>1, <2>2, <2>3, <2>4 DEF BuiltIsTracked
<1> QED BY <1>1, <1>2, <1>3, <1>4, <1>5

LEMMA TeardownKeeps ==
    ASSUME TypeOK, TypeOK', TeamInv, NEW t \in Handlers, Teardown(t)
    PROVE  TeamInv'
<1> USE DEF TypeOK, TeamInv, Teardown, Making, BuildOf, Task, Row,
            Bounded, Fault, Leaves, Starts, RollsBack, Idle, Job
<1>1. Numbered'
  BY DEF Numbered
<1>2. MadeByOne'
  BY DEF MadeByOne, Of, Kinds
<1>3. InCategory'
  BY DEF InCategory, Of, Kinds
<1>4. SeenIsAll'
  BY DEF SeenIsAll, Of, Kinds, Numbered, MadeByOne, Seen
<1>5. BuiltIsTracked'
  BY DEF BuiltIsTracked, Of, Numbered, MadeByOne, SeenIsAll
<1> QED BY <1>1, <1>2, <1>3, <1>4, <1>5

LEMMA EraseNextKeeps ==
    ASSUME TypeOK, TypeOK', TeamInv, NEW t \in Handlers, NEW r \in task[t].todo,
           EraseNext(t, r)
    PROVE  TeamInv'
<1> USE DEF TypeOK, TeamInv, EraseNext, Making, BuildOf, Task, Row,
            Bounded, Fault, Leaves, Starts, RollsBack, Idle, Job
<1> DEFINE b == r.build
<1>a. /\ task'[t].left = Seen(b) /\ BuildOf(t)' = b /\ task'[t].done = task[t].done
      /\ \A u \in Handlers : u # t => task'[u] = task[u]
      /\ UNCHANGED <<rows, live, lost, builds>> /\ b \in 1..builds
  BY DEF Numbered
<1>b. b \in lost \/ Of(b) \subseteq Seen(b)
  BY <1>a DEF InCategory, Seen
<1>1. Numbered'
  BY DEF Numbered
<1>2. MadeByOne'
  BY DEF MadeByOne, Of, Kinds
<1>3. InCategory'
  BY DEF InCategory, Of, Kinds
<1>4. SeenIsAll'
  <2>1. \A c : Of(c)' = Of(c)
    BY Stays
  <2> HIDE DEF EraseNext, TypeOK
  <2>2. ASSUME NEW u \in Handlers, task'[u].pc \in {"disband", "erase"}
        PROVE  BuildOf(u)' \in lost' \/ Of(BuildOf(u))' \subseteq task'[u].left
    <3>1. CASE u = t
      BY <2>1, <3>1, <1>a, <1>b
    <3>2. CASE u # t
      BY <2>1, <2>2, <3>2, <1>a DEF SeenIsAll
    <3> QED BY <3>1, <3>2
  <2>3. ASSUME NEW u \in Handlers, NEW q \in task'[u].done
        PROVE  q.build \in lost' \/ Of(q.build)' = {}
    BY <2>1, <2>3, <1>a DEF SeenIsAll
  <2> QED BY <2>2, <2>3 DEF SeenIsAll
<1>5. BuiltIsTracked'
  BY DEF BuiltIsTracked, Of, Numbered, MadeByOne, SeenIsAll
<1> QED BY <1>1, <1>2, <1>3, <1>4, <1>5

LEMMA EraseKeeps ==
    ASSUME TypeOK, TypeOK', TeamInv, NEW t \in Handlers, NEW k \in Kinds, Erase(t, k)
    PROVE  TeamInv'
<1> USE DEF TypeOK, TeamInv, Erase, Making, BuildOf, Task, Row,
            Bounded, Fault, Leaves, Starts, RollsBack, Idle, Job
<1> DEFINE b == task[t].row.build
<1>a. task[t].pc = "erase" /\ b \in 1..builds /\ task[t].left \in SUBSET Kinds
  BY DEF Numbered
<1>b. b \in lost \/ Of(b) \subseteq task[t].left
  BY <1>a DEF SeenIsAll
<1>c. k = "category" => b \in lost \/ Of(b) \subseteq {"role", "category"}
  BY <1>a, <1>b, ChannelsFirst
<1>d. /\ UNCHANGED builds /\ lost \subseteq lost'
      /\ \A c : Of(c)' = Of(c) \/ (c = b /\ Of(c)' = Of(c) \ {k})
  BY Removes
<1>1. Numbered'
  BY DEF Numbered
<1>2. MadeByOne'
  BY DEF MadeByOne, Of, Kinds
<1>3. InCategory'
  <2> SUFFICES ASSUME NEW c \in 1..builds
               PROVE  "category" \in Of(c)' \/ c \in lost' \/ Of(c)' \subseteq {"role"}
    BY <1>d DEF InCategory
  <2>1. "category" \in Of(c) \/ c \in lost \/ Of(c) \subseteq {"role"}
    BY DEF InCategory
  <2> HIDE DEF TypeOK, TeamInv, Erase
  <2> QED BY <2>1, <1>c, <1>d
<1>4. SeenIsAll'
  BY DEF SeenIsAll, Of, Kinds, Numbered, MadeByOne, Seen
<1>5. BuiltIsTracked'
  BY DEF BuiltIsTracked, Of, Numbered, MadeByOne, SeenIsAll
<1> QED BY <1>1, <1>2, <1>3, <1>4, <1>5

LEMMA ErasedKeeps ==
    ASSUME TypeOK, TypeOK', TeamInv, NEW t \in Handlers, Erased(t)
    PROVE  TeamInv'
<1> USE DEF TypeOK, TeamInv, Erased, Making, BuildOf, Task, Row,
            Bounded, Fault, Leaves, Starts, RollsBack, Idle, Job
<1>1. Numbered'
  BY DEF Numbered
<1>2. MadeByOne'
  BY DEF MadeByOne, Of, Kinds
<1>3. InCategory'
  BY DEF InCategory, Of, Kinds
<1>4. SeenIsAll'
  BY DEF SeenIsAll, Of, Kinds, Numbered, MadeByOne, Seen
<1>5. BuiltIsTracked'
  BY DEF BuiltIsTracked, Of, Numbered, MadeByOne, SeenIsAll
<1> QED BY <1>1, <1>2, <1>3, <1>4, <1>5

LEMMA EraseRefusedKeeps ==
    ASSUME TypeOK, TypeOK', TeamInv, NEW t \in Handlers, EraseRefused(t)
    PROVE  TeamInv'
<1> USE DEF TypeOK, TeamInv, EraseRefused, Making, BuildOf, Task, Row,
            Bounded, Fault, Leaves, Starts, RollsBack, Idle, Job
<1>1. Numbered'
  BY DEF Numbered
<1>2. MadeByOne'
  BY DEF MadeByOne, Of, Kinds
<1>3. InCategory'
  BY DEF InCategory, Of, Kinds
<1>4. SeenIsAll'
  BY DEF SeenIsAll, Of, Kinds, Numbered, MadeByOne, Seen
<1>5. BuiltIsTracked'
  BY DEF BuiltIsTracked, Of, Numbered, MadeByOne, SeenIsAll
<1> QED BY <1>1, <1>2, <1>3, <1>4, <1>5

LEMMA EraseFailsKeeps ==
    ASSUME TypeOK, TypeOK', TeamInv, NEW t \in Handlers, NEW k \in Kinds, EraseFails(t, k)
    PROVE  TeamInv'
<1> USE DEF TypeOK, TeamInv, EraseFails, Making, BuildOf, Task, Row,
            Bounded, Fault, Leaves, Starts, RollsBack, Idle, Job
<1>1. Numbered'
  BY DEF Numbered
<1>2. MadeByOne'
  BY DEF MadeByOne, Of, Kinds
<1>3. InCategory'
  BY DEF InCategory, Of, Kinds
<1>4. SeenIsAll'
  BY DEF SeenIsAll, Of, Kinds, Numbered, MadeByOne, Seen
<1>5. BuiltIsTracked'
  BY DEF BuiltIsTracked, Of, Numbered, MadeByOne, SeenIsAll
<1> QED BY <1>1, <1>2, <1>3, <1>4, <1>5

LEMMA ClearKeeps ==
    ASSUME TypeOK, TypeOK', TeamInv, NEW t \in Handlers, Clear(t)
    PROVE  TeamInv'
<1> USE DEF TypeOK, TeamInv, Clear, Making, BuildOf, Task, Row,
            Bounded, Fault, Leaves, Starts, RollsBack, Idle, Job
<1>1. Numbered'
  BY DEF Numbered
<1>2. MadeByOne'
  BY DEF MadeByOne, Of, Kinds
<1>3. InCategory'
  BY DEF InCategory, Of, Kinds
<1>4. SeenIsAll'
  BY DEF SeenIsAll, Of, Kinds, Numbered, MadeByOne, Seen
<1>5. BuiltIsTracked'
  <2> SUFFICES ASSUME NEW c \in 1..builds, Of(c)' # {}
               PROVE  \/ c \in lost'
                      \/ \E r \in rows' : r.build = c
                      \/ \E u \in Handlers : task'[u].pc \in Making /\ BuildOf(u)' = c
    BY DEF BuiltIsTracked
  <2>1. Of(c) # {}
    BY Stays
  <2>2. \A u \in Handlers : task[u].pc \in Making => task'[u] = task[u]
    OBVIOUS
  <2>3. ASSUME NEW r \in rows, r.build = c
        PROVE  c \in lost'
    <3>1. CASE r \in task[t].done
      BY <2>1, <2>3, <3>1 DEF SeenIsAll
    <3>2. CASE r \notin task[t].done
      BY <2>3, <3>2
    <3> QED BY <3>1, <3>2
  <2> QED BY <2>1, <2>2, <2>3 DEF BuiltIsTracked
<1> QED BY <1>1, <1>2, <1>3, <1>4, <1>5

LEMMA SetupKeeps ==
    ASSUME TypeOK, TypeOK', TeamInv, Setup
    PROVE  TeamInv'
<1> USE DEF TypeOK, TeamInv, Setup, Making, BuildOf, Task, Row,
            Bounded, Fault, Leaves, Starts, RollsBack, Idle, Job
<1>1. Numbered'
  BY DEF Numbered
<1>2. MadeByOne'
  BY DEF MadeByOne, Of, Kinds
<1>3. InCategory'
  BY DEF InCategory, Of, Kinds
<1>4. SeenIsAll'
  BY DEF SeenIsAll, Of, Kinds, Numbered, MadeByOne, Seen
<1>5. BuiltIsTracked'
  BY DEF BuiltIsTracked, Of, Numbered, MadeByOne, SeenIsAll
<1> QED BY <1>1, <1>2, <1>3, <1>4, <1>5

LEMMA CrashKeeps ==
    ASSUME TypeOK, TypeOK', TeamInv, Crash
    PROVE  TeamInv'
<1> USE DEF TypeOK, TeamInv, Crash, Making, BuildOf, Task, Row,
            Bounded, Fault, Leaves, Starts, RollsBack, Idle, Job
<1>1. Numbered'
  BY DEF Numbered
<1>2. MadeByOne'
  BY DEF MadeByOne, Of, Kinds
<1>3. InCategory'
  BY DEF InCategory, Of, Kinds
<1>4. SeenIsAll'
  BY DEF SeenIsAll, Of, Kinds, Numbered, MadeByOne, Seen
<1>5. BuiltIsTracked'
  <2> SUFFICES ASSUME NEW c \in 1..builds, Of(c)' # {}
               PROVE  \/ c \in lost'
                      \/ \E r \in rows' : r.build = c
                      \/ \E u \in Handlers : task'[u].pc \in Making /\ BuildOf(u)' = c
    BY DEF BuiltIsTracked
  <2>1. Of(c) # {}
    BY Stays
  <2>2. \A u \in Handlers : task[u].pc \in Making /\ BuildOf(u) = c => c \in lost'
    OBVIOUS
  <2> QED BY <2>1, <2>2 DEF BuiltIsTracked
<1> QED BY <1>1, <1>2, <1>3, <1>4, <1>5

LEMMA DeletedByHandKeeps ==
    ASSUME TypeOK, TypeOK', TeamInv, NEW b \in 1..builds, NEW k \in Kinds,
           DeletedByHand(b, k)
    PROVE  TeamInv'
<1> USE DEF TypeOK, TeamInv, DeletedByHand, Making, BuildOf, Task, Row,
            Bounded, Fault, Leaves, Starts, RollsBack, Idle, Job
<1>1. Numbered'
  BY DEF Numbered
<1>2. MadeByOne'
  BY DEF MadeByOne, Of, Kinds
<1>3. InCategory'
  BY DEF InCategory, Of, Kinds
<1>4. SeenIsAll'
  BY DEF SeenIsAll, Of, Kinds, Numbered, MadeByOne, Seen
<1>5. BuiltIsTracked'
  BY DEF BuiltIsTracked, Of, Numbered, MadeByOne, SeenIsAll
<1> QED BY <1>1, <1>2, <1>3, <1>4, <1>5

-----------------------------------------------------------------------------
LEMMA TeamStep ==
    ASSUME TypeOK, TeamInv, [Next]_vars
    PROVE  TypeOK' /\ TeamInv'
<1>1. CASE UNCHANGED vars
  <2>1. TypeOK'
    BY <1>1 DEF vars, TypeOK
  <2>2. TeamInv'
    BY <1>1 DEF vars, TeamInv, Numbered, MadeByOne, InCategory, SeenIsAll,
                BuiltIsTracked, BuildOf, Of
  <2> QED BY <2>1, <2>2
<1>2. CASE Next
  <2>1. TypeOK'
    BY <1>2, TypeStep DEF TeamInv
  <2>2. ASSUME NEW t \in Handlers, Creates(t) PROVE TeamInv'
    BY <2>1, <2>2, BuildKeeps, BuildFailsKeeps, RollBackKeeps, InsertKeeps,
       InsertFailsKeeps, RolledBackKeeps DEF Creates
  <2>3. ASSUME NEW t \in Handlers, Disbands(t) PROVE TeamInv'
    BY <2>1, <2>3, DeleteKeeps, DeleteFailsKeeps, DropKeeps DEF Disbands
  <2>4. ASSUME NEW t \in Handlers, TearsDown(t) PROVE TeamInv'
    BY <2>1, <2>4, EraseNextKeeps, EraseKeeps, EraseFailsKeeps, ErasedKeeps,
       EraseRefusedKeeps, ClearKeeps DEF TearsDown
  <2>5. ASSUME NEW t \in Handlers, NEW n \in Names, Create(t, n) PROVE TeamInv'
    BY <2>1, <2>5, CreateKeeps
  <2>6. ASSUME NEW t \in Handlers, NEW r \in rows, Ask(t, r) PROVE TeamInv'
    BY <2>1, <2>6, AskKeeps
  <2>7. ASSUME NEW t \in Handlers, Confirm(t) \/ Cancel(t) \/ Teardown(t)
        PROVE  TeamInv'
    BY <2>1, <2>7, ConfirmKeeps, CancelKeeps, TeardownKeeps
  <2>8. ASSUME NEW b \in 1..builds, NEW k \in Kinds, DeletedByHand(b, k)
        PROVE  TeamInv'
    BY <2>1, <2>8, DeletedByHandKeeps
  <2>9. CASE Setup \/ Crash
    BY <2>1, <2>9, SetupKeeps, CrashKeeps
  <2> QED BY <1>2, <2>1, <2>2, <2>3, <2>4, <2>5, <2>6, <2>7, <2>8, <2>9 DEF Next
<1> QED BY <1>1, <1>2

THEOREM TeamInvariant == Spec => [](TypeOK /\ TeamInv)
BY TeamInit, TeamStep, PTL DEF Spec

\* Every variable of Teams keeps its type.
THEOREM TeamTypes == Spec => []TypeOK
BY TeamInvariant, PTL

\* Whatever the admins, Discord and crashes do, the objects of a team that is
\* not lost are known to a row or to the create that is at them.
THEOREM TeamsTracked == Spec => []BuiltIsTracked
<1>1. TeamInv => BuiltIsTracked
  BY DEF TeamInv
<1> QED BY <1>1, TeamInvariant, PTL
=============================================================================
