------------------------- MODULE RoleGrants_proofs -------------------------
(***************************************************************************)
(* Proofs about RoleGrants: its variables keep their types, and, as long   *)
(* as moderators do not act on one post at the same time, no rank is held  *)
(* that no grant tracks, whatever the sweep does meanwhile, except where a *)
(* crash, a teardown or a missing guild row has lost the grant.            *)
(***************************************************************************)
EXTENDS RoleGrants, TLAPS

LEMMA TrackInit == Init => TrackInv
BY TermsAssumption
DEF Init, TrackInv, TypeOK, PresentHold, TasksNamed, Alone, IdsFresh,
    StrippedFirst, HeldIsTracked, Tracked, Task, Idle

\* Every step of a handler keeps the types.
LEMMA TypeStep ==
    ASSUME TypeOK, TasksNamed, IdsFresh, Next
    PROVE  TypeOK'
<1> USE DEF TypeOK, store, bounds
<1>1. ASSUME NEW m \in Mods, NEW p \in Posts, ModClicks(m, p) PROVE TypeOK'
  <2>1. CASE Revoke(m, p)
    BY <2>1 DEF Revoke, Click, Task
  <2>2. ASSUME NEW term \in Terms, Rank(m, p, term) PROVE TypeOK'
    <3>1. (IF term = Nil THEN Nil ELSE now + term) \in Nat \cup {Nil}
      BY TermsAssumption
    <3> QED BY <2>2, <3>1 DEF Rank, Click, Task
  <2> QED BY <1>1, <2>1, <2>2 DEF ModClicks
<1>2. ASSUME NEW m \in Mods, ModStep(m) PROVE TypeOK'
  <2>1. task[m] \in Task /\ Idle \in Task
    BY DEF Task, Idle
  <2>2. task[m].pc # "idle" => task[m].post \in Posts
    BY DEF TasksNamed
  <2>3. CASE AddRole(m)
    <3>1. task' \in [Mods -> Task]
      BY <2>1, <2>3 DEF AddRole, Goto, Finish, Task
    <3> QED BY <2>2, <2>3, <3>1 DEF AddRole
  <2>4. CASE RecordGrant(m)
    <3>1. [id |-> nextId, post |-> task[m].post, expires |-> task[m].expires]
             \in Grant
      BY <2>1, <2>2, <2>4 DEF RecordGrant, Grant, Task
    <3> QED BY <2>1, <2>4, <3>1 DEF RecordGrant, Finish
  <2>5. CASE RemoveRole(m)
    <3>1. task' \in [Mods -> Task]
      BY <2>1, <2>5 DEF RemoveRole, Goto, Finish, Task
    <3> QED BY <2>5, <3>1 DEF RemoveRole
  <2>6. CASE RecordFails(m) \/ ForgetGrants(m)
    BY <2>1, <2>6 DEF RecordFails, ForgetGrants, Finish
  <2> QED BY <1>2, <2>3, <2>4, <2>5, <2>6 DEF ModStep
<1>3. CASE SweepStep \/ SweepFault
  BY <1>3 DEF SweepStep, SweepStart, SweepStrips, SweepFindsNobody,
              SweepRefused, SweepDrops, SweepEnd, SweepFault, DueExpiries
<1>4. CASE Crash
  <2>1. Idle \in Task
    BY DEF Task, Idle
  <2> QED BY <1>4, <2>1 DEF Crash
<1>5. CASE Teardown \/ EnsureGuild
  <2>1. guild' \in BOOLEAN
    BY <1>5 DEF Teardown, EnsureGuild
  <2>2. /\ grants' \subseteq grants /\ orphans' \subseteq holds \cup orphans
        /\ clicks' \in Nat
        /\ UNCHANGED <<nextId, present, holds, task, sweep, due, row,
                       now, hands, faults>>
    BY <1>5 DEF Teardown, EnsureGuild
  <2> QED BY <2>1, <2>2
<1>5a. CASE TimePasses
  BY <1>5a DEF TimePasses
<1>6. ASSUME NEW p \in Posts, Leaves(p) \/ Returns(p) \/ TakenByHand(p)
      PROVE  TypeOK'
  BY <1>6 DEF Leaves, Returns, TakenByHand, Hand
<1> QED BY <1>1, <1>2, <1>3, <1>4, <1>5, <1>5a, <1>6 DEF Next

\* What does not touch the rows, the handlers or the sweep can only take
\* roles away.
LEMMA OnlyTaken ==
    ASSUME TrackInv, TypeOK', holds' \subseteq holds, PresentHold',
           UNCHANGED <<grants, nextId, task, sweep, due, row>>,
           orphans \cap holds' \subseteq orphans'
    PROVE  TrackInv'
BY DEF TrackInv, TasksNamed, Alone, IdsFresh, StrippedFirst, HeldIsTracked,
       Tracked

\* A handler starts or leaves while rows, roles and the sweep stay.
LEMMA TaskMoves ==
    ASSUME TrackInv, TypeOK', NEW m \in Mods,
           UNCHANGED <<grants, nextId, present, holds, sweep, due, row, orphans>>,
           \A n \in Mods \ {m} : task'[n] = task[n],
           task[m].pc # "record", task'[m].pc # "forget",
           task'[m].pc # "idle" => task'[m].post \in Posts,
           task'[m].post = Nil \/ (Serial => ~Busy(task'[m].post))
    PROVE  TrackInv'
<1> USE DEF TrackInv
<1>1. Alone'
  BY DEF Alone, Busy
<1>2. TasksNamed'
  BY DEF TasksNamed
<1>3. \A p : Tracked(p) => Tracked(p)'
  BY DEF Tracked
<1>4. StrippedFirst'
  <2>1. \A n \in Mods : task'[n].pc = "forget" => task'[n] = task[n]
    OBVIOUS
  <2>2. \A n \in Mods : task[n].pc = "record" => task'[n] = task[n]
    OBVIOUS
  <2> QED BY <2>1, <2>2 DEF StrippedFirst
<1> QED BY <1>1, <1>2, <1>3, <1>4 DEF PresentHold, IdsFresh, HeldIsTracked

LEMMA TrackStep == TrackInv /\ [Next]_vars => TrackInv'
<1> SUFFICES ASSUME TrackInv, [Next]_vars PROVE TrackInv'
  OBVIOUS
<1> USE DEF store
<1>1. CASE UNCHANGED vars
  BY <1>1 DEF TrackInv, TypeOK, PresentHold, TasksNamed, Alone, IdsFresh,
              StrippedFirst, HeldIsTracked, Tracked, vars, bounds
<1> SUFFICES ASSUME Next PROVE TrackInv'
  BY <1>1
<1>2. TypeOK'
  BY TypeStep DEF TrackInv
<1>3. task \in [Mods -> Task] /\ holds \subseteq present /\ row \in Grant \cup {Nil}
      /\ grants \subseteq Grant /\ due \subseteq Grant /\ nextId \in Nat
  BY DEF TrackInv, TypeOK, PresentHold
<1>4. ASSUME NEW m \in Mods, NEW p \in Posts, ModClicks(m, p) PROVE TrackInv'
  <2>1. /\ UNCHANGED <<grants, nextId, present, holds, sweep, due, row, orphans>>
        /\ task[m] = Idle /\ (Serial => ~Busy(p))
    BY <1>4 DEF ModClicks, Rank, Revoke, Click
  <2>2. /\ \A n \in Mods \ {m} : task'[n] = task[n]
        /\ task'[m].pc \in {"add", "remove"} /\ task'[m].post = p
    BY <1>3, <1>4 DEF ModClicks, Rank, Revoke
  <2> QED BY <1>2, <2>1, <2>2, TaskMoves DEF Idle
<1>5. ASSUME NEW m \in Mods, AddRole(m) PROVE TrackInv'
  <2>1. CASE Finish(m) /\ UNCHANGED holds
    <3>1. task'[m] = Idle /\ \A n \in Mods \ {m} : task'[n] = task[n]
      BY <1>3, <2>1 DEF Finish
    <3> QED BY <1>2, <1>5, <2>1, <3>1, TaskMoves DEF AddRole, Idle
  <2>2. CASE task[m].post \in present /\ holds' = holds \cup {task[m].post}
             /\ Goto(m, "record")
    <3> DEFINE p == task[m].post
    <3>1. /\ UNCHANGED <<grants, nextId, present, sweep, due, row, orphans>>
          /\ task[m].pc = "add"
      BY <1>5 DEF AddRole
    <3>2. /\ task'[m].pc = "record" /\ task'[m].post = p
          /\ \A n \in Mods \ {m} : task'[n] = task[n]
      BY <1>3, <2>2 DEF Goto, Task
    <3>3. p \in Posts
      BY <3>1 DEF TrackInv, TasksNamed
    <3>4. PresentHold' /\ TasksNamed' /\ Alone' /\ IdsFresh'
      BY <2>2, <3>1, <3>2, <3>3
      DEF TrackInv, PresentHold, TasksNamed, Alone, IdsFresh
    <3>5. Tracked(p)' /\ \A q : Tracked(q) => Tracked(q)'
      BY <3>1, <3>2 DEF Tracked
    <3>6. StrippedFirst'
      <4>1. ASSUME Serial, NEW n \in Mods, task'[n].pc = "forget"
            PROVE  task'[n].post \notin holds'
        <5>1. n # m /\ task[n].pc = "forget"
          BY <3>2, <4>1
        <5>2. task[n].post # p
          BY <3>3, <4>1, <5>1, PostsAssumption DEF TrackInv, Alone
        <5> QED BY <2>2, <3>2, <4>1, <5>1, <5>2 DEF TrackInv, StrippedFirst
      <4> QED BY <2>2, <3>1, <3>2, <4>1 DEF TrackInv, StrippedFirst
    <3> QED
      BY <1>2, <2>2, <3>1, <3>2, <3>4, <3>5, <3>6 DEF TrackInv, HeldIsTracked
  <2> QED BY <1>5, <2>1, <2>2 DEF AddRole
<1>6. ASSUME NEW m \in Mods, RecordGrant(m) PROVE TrackInv'
  <2> DEFINE p == task[m].post
             g == [id |-> nextId, post |-> p, expires |-> task[m].expires]
  <2>1. /\ grants' = grants \cup {g} /\ nextId' = nextId + 1
        /\ orphans' = orphans \ {p}
        /\ UNCHANGED <<present, holds, sweep, due, row>>
    BY <1>6 DEF RecordGrant
  <2>2. task'[m] = Idle /\ \A n \in Mods \ {m} : task'[n] = task[n]
    BY <1>3, <1>6 DEF RecordGrant, Finish
  <2>3. PresentHold' /\ TasksNamed' /\ Alone'
    BY <2>1, <2>2 DEF TrackInv, PresentHold, TasksNamed, Alone, Idle
  <2>4. IdsFresh'
    BY <1>3, <2>1 DEF TrackInv, IdsFresh, Grant
  <2>5. \A q : Tracked(q) => Tracked(q)'
    <3>1. g \in grants' /\ g.post = p
      BY <2>1
    <3>2. \A h \in grants : h \in grants'
      BY <2>1
    <3> HIDE DEF g
    <3> QED BY <2>2, <3>1, <3>2 DEF Tracked
  <2>5a. \A q : q = p => Tracked(q)'
    <3>1. g \in grants' /\ g.post = p
      BY <2>1
    <3> HIDE DEF g
    <3> QED BY <3>1 DEF Tracked
  <2>6. StrippedFirst'
    <3>1. sweep = "drop" => row.id # g.id
      BY <1>3 DEF TrackInv, IdsFresh, Grant
    <3>2. g \in grants' /\ g.post = p /\ grants \subseteq grants'
      BY <2>1
    <3> HIDE DEF g
    <3> QED BY <2>1, <2>2, <3>1, <3>2 DEF TrackInv, StrippedFirst, Idle
  <2> QED
    BY <1>2, <2>1, <2>3, <2>4, <2>5, <2>5a, <2>6 DEF TrackInv, HeldIsTracked
<1>6a. ASSUME NEW m \in Mods, RecordFails(m) PROVE TrackInv'
  <2> DEFINE p == task[m].post
  <2>1. /\ UNCHANGED <<grants, nextId, present, holds, sweep, due, row>>
        /\ orphans' = orphans \cup ({p} \cap holds)
    BY <1>6a DEF RecordFails
  <2>2. task'[m] = Idle /\ \A n \in Mods \ {m} : task'[n] = task[n]
    BY <1>3, <1>6a DEF RecordFails, Finish
  <2>3. PresentHold' /\ TasksNamed' /\ Alone' /\ IdsFresh'
    BY <2>1, <2>2 DEF TrackInv, PresentHold, TasksNamed, Alone, IdsFresh, Idle
  <2>4. \A q \in holds : Tracked(q) => Tracked(q)' \/ q \in orphans'
    BY <2>1, <2>2 DEF Tracked
  <2>5. StrippedFirst'
    BY <2>1, <2>2 DEF TrackInv, StrippedFirst, Idle
  <2> QED BY <1>2, <2>1, <2>3, <2>4, <2>5 DEF TrackInv, HeldIsTracked
<1>7. ASSUME NEW m \in Mods, RemoveRole(m) PROVE TrackInv'
  <2>1. CASE Finish(m) /\ UNCHANGED <<holds, orphans>>
    <3>1. task'[m] = Idle /\ \A n \in Mods \ {m} : task'[n] = task[n]
      BY <1>3, <2>1 DEF Finish
    <3> QED BY <1>2, <1>7, <2>1, <3>1, TaskMoves DEF RemoveRole, Idle
  <2>2. CASE /\ holds' = holds \ {task[m].post}
             /\ orphans' = orphans \ {task[m].post}
             /\ Goto(m, "forget")
    <3>1. /\ UNCHANGED <<grants, nextId, present, sweep, due, row>>
          /\ task[m].pc = "remove"
      BY <1>7 DEF RemoveRole
    <3>2. /\ task'[m].pc = "forget" /\ task'[m].post = task[m].post
          /\ \A n \in Mods \ {m} : task'[n] = task[n]
      BY <1>3, <2>2 DEF Goto, Task
    <3>3. PresentHold' /\ TasksNamed' /\ Alone' /\ IdsFresh'
      BY <2>2, <3>1, <3>2
      DEF TrackInv, PresentHold, TasksNamed, Alone, IdsFresh
    <3>4. \A q : Tracked(q) => Tracked(q)'
      BY <3>1, <3>2 DEF Tracked
    <3>5. StrippedFirst'
      BY <2>2, <3>1, <3>2 DEF TrackInv, StrippedFirst
    <3> QED BY <1>2, <2>2, <3>1, <3>3, <3>4, <3>5 DEF TrackInv, HeldIsTracked
  <2> QED BY <1>7, <2>1, <2>2 DEF RemoveRole
<1>8. ASSUME NEW m \in Mods, ForgetGrants(m) PROVE TrackInv'
  <2> DEFINE p == task[m].post
  <2>1. /\ grants' = {g \in grants : g.post # p} /\ task[m].pc = "forget"
        /\ UNCHANGED <<nextId, present, holds, sweep, due, row, orphans>>
    BY <1>8 DEF ForgetGrants
  <2>2. task'[m] = Idle /\ \A n \in Mods \ {m} : task'[n] = task[n]
    BY <1>3, <1>8 DEF ForgetGrants, Finish
  <2>3. PresentHold' /\ TasksNamed' /\ Alone' /\ IdsFresh'
    BY <2>1, <2>2 DEF TrackInv, PresentHold, TasksNamed, Alone, IdsFresh, Idle
  <2>4. \A q : q # p /\ Tracked(q) => Tracked(q)'
    BY <2>1, <2>2 DEF Tracked
  <2>5. Serial => p \notin holds
    BY <2>1 DEF TrackInv, StrippedFirst
  <2>6. Serial => HeldIsTracked'
    BY <2>1, <2>4, <2>5 DEF TrackInv, HeldIsTracked
  <2>7. StrippedFirst'
    <3>1. CASE Serial
      BY <2>1, <2>2, <2>5, <3>1 DEF TrackInv, StrippedFirst, Idle
    <3>2. CASE ~Serial
      BY <3>2 DEF StrippedFirst
    <3> QED BY <3>1, <3>2
  <2> QED BY <1>2, <2>3, <2>6, <2>7 DEF TrackInv
<1>9. CASE SweepStart
  <2>1. /\ sweep' = "strip" /\ due' \subseteq grants
        /\ UNCHANGED <<grants, nextId, present, holds, task, row, orphans>>
    BY <1>9 DEF SweepStart, DueExpiries
  <2>2. IdsFresh'
    BY <2>1 DEF TrackInv, IdsFresh
  <2> QED BY <1>2, <2>1, <2>2
    DEF TrackInv, PresentHold, TasksNamed, Alone, StrippedFirst, HeldIsTracked,
        Tracked
<1>10. ASSUME NEW p \in Posts, SweepStrips(p) PROVE TrackInv'
  <2>1. /\ holds' = holds \ {p} /\ row' \in due /\ row'.post = p
        /\ orphans' = orphans \ {p}
        /\ UNCHANGED <<grants, nextId, present, task, due>>
    BY <1>10 DEF SweepStrips
  <2> QED BY <1>2, <2>1
    DEF TrackInv, PresentHold, TasksNamed, Alone, IdsFresh, StrippedFirst,
        HeldIsTracked, Tracked
<1>11. CASE SweepFindsNobody
  <2>1. /\ row' \in due /\ row'.post \notin present
        /\ UNCHANGED <<grants, nextId, present, holds, task, due, orphans>>
    BY <1>11 DEF SweepFindsNobody
  <2> QED BY <1>2, <2>1
    DEF TrackInv, PresentHold, TasksNamed, Alone, IdsFresh, StrippedFirst,
        HeldIsTracked, Tracked
<1>12. CASE SweepRefused \/ SweepEnd \/ SweepFault
  <2>1. /\ due' \subseteq due /\ sweep' # "drop"
        /\ UNCHANGED <<grants, nextId, present, holds, task, orphans>>
    BY <1>12 DEF SweepRefused, SweepEnd, SweepFault
  <2> QED BY <1>2, <2>1
    DEF TrackInv, PresentHold, TasksNamed, Alone, IdsFresh, StrippedFirst,
        HeldIsTracked, Tracked
<1>13. CASE SweepDrops
  <2>1. /\ grants' = {g \in grants : g.id # row.id}
        /\ due' \subseteq due /\ sweep = "drop" /\ sweep' = "strip"
        /\ UNCHANGED <<nextId, present, holds, task, orphans>>
    BY <1>13 DEF SweepDrops
  <2>2. row \in due /\ \A g \in grants : g.id = row.id => g = row
    BY <2>1 DEF TrackInv, IdsFresh
  <2>3. ASSUME Serial PROVE HeldIsTracked'
    <3> SUFFICES ASSUME NEW p \in holds, p \notin orphans PROVE Tracked(p)'
      BY <2>1 DEF HeldIsTracked
    <3>1. Tracked(p)
      BY <2>3 DEF TrackInv, HeldIsTracked
    <3>2. CASE p = row.post
      BY <2>1, <2>3, <3>2 DEF TrackInv, StrippedFirst, Tracked
    <3>3. CASE p # row.post
      BY <2>1, <2>2, <3>1, <3>3 DEF Tracked
    <3> QED BY <3>2, <3>3
  <2>4. PresentHold' /\ TasksNamed' /\ Alone' /\ IdsFresh' /\ StrippedFirst'
    BY <2>1
    DEF TrackInv, PresentHold, TasksNamed, Alone, IdsFresh, StrippedFirst
  <2> QED BY <1>2, <2>1, <2>3, <2>4 DEF TrackInv
<1>14. CASE Crash
  <2>1. /\ UNCHANGED <<grants, nextId, present, holds>> /\ sweep' = "idle"
        /\ due' = {} /\ \A m \in Mods : task'[m] = Idle
        /\ \A m \in Mods : task[m].pc = "record" /\ task[m].post \in holds
                            => task[m].post \in orphans'
        /\ orphans \subseteq orphans'
    BY <1>14 DEF Crash
  <2>2. \A p \in holds : Tracked(p) => Tracked(p)' \/ p \in orphans'
    BY <2>1 DEF Tracked
  <2> QED BY <1>2, <2>1, <2>2
    DEF TrackInv, PresentHold, TasksNamed, Alone, IdsFresh, StrippedFirst,
        HeldIsTracked, Idle
<1>14a. CASE Teardown
  <2>1. /\ grants' = {} /\ orphans' = holds
        /\ UNCHANGED <<nextId, present, holds, task, sweep, due, row>>
    BY <1>14a DEF Teardown
  <2> QED BY <1>2, <2>1
    DEF TrackInv, PresentHold, TasksNamed, Alone, IdsFresh, StrippedFirst,
        HeldIsTracked
<1>14b. CASE EnsureGuild
  <2>1. UNCHANGED <<grants, nextId, present, holds, task, sweep, due, row,
                    orphans>>
    BY <1>14b DEF EnsureGuild
  <2> QED BY <1>2, <2>1, <1>3, OnlyTaken DEF PresentHold
<1>15. CASE TimePasses \/ \E p \in Posts : Leaves(p) \/ TakenByHand(p)
  <2>1. /\ holds' \subseteq holds /\ PresentHold'
        /\ orphans \cap holds' \subseteq orphans'
        /\ UNCHANGED <<grants, nextId, task, sweep, due, row>>
    BY <1>3, <1>15 DEF TimePasses, Leaves, TakenByHand, Hand, PresentHold
  <2> QED BY <1>2, <2>1, OnlyTaken
<1>16. ASSUME NEW p \in Posts, Returns(p) PROVE TrackInv'
  <2>1. /\ holds' \subseteq holds /\ PresentHold'
        /\ orphans \cap holds' \subseteq orphans'
        /\ UNCHANGED <<grants, nextId, task, sweep, due, row>>
    BY <1>3, <1>16 DEF Returns, Hand, PresentHold
  <2> QED BY <1>2, <2>1, OnlyTaken
<1> QED
  BY <1>4, <1>5, <1>6, <1>6a, <1>7, <1>8, <1>9, <1>10, <1>11, <1>12, <1>13, <1>14,
     <1>14a, <1>14b, <1>15, <1>16
  DEF Next, ModStep, SweepStep

\* Every variable of the rank component keeps its type (TypeOK).
THEOREM RankTypes == Spec => []TypeOK
<1>1. TrackInv => TypeOK
  BY DEF TrackInv
<1> QED BY TrackInit, TrackStep, <1>1, PTL DEF Spec

\* As long as moderators act on one post one at a time, no rank is held that
\* no grant tracks, except where the process died between add_roles and
\* record_grant, record_grant found no guild row, or a teardown took the rows,
\* until the post is granted or taken away again (HeldIsTracked): for any
\* number of posts, moderators and grants, and whatever the sweep and the
\* members do meanwhile.
THEOREM RanksTracked == ASSUME Serial PROVE Spec => []HeldIsTracked
<1>1. TrackInv => HeldIsTracked
  BY DEF TrackInv
<1> QED BY TrackInit, TrackStep, <1>1, PTL DEF Spec
=============================================================================
