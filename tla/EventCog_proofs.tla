--------------------------- MODULE EventCog_proofs ---------------------------
(***************************************************************************)
(* What TLC checks of EventCog on small guilds, proved for every number of *)
(* events, members and handlers and for every bound.                       *)
(***************************************************************************)
EXTENDS EventCog, TLAPS

USE DEF Live, Terminal, Statuses

-----------------------------------------------------------------------------
\* The record a handler starts with is well typed.
LEMMA StartedTyped ==
    ASSUME NEW k \in Kinds, NEW p \in PCs,
           NEW e \in Events \cup {Nil}, NEW m \in Members \cup {Nil}
    PROVE  Started(k, e, m, p) \in Task
BY DEF Started, Task

LEMMA IdleTyped == Idle \in Task
BY DEF Idle, Task, PCs, Kinds

LEMMA GotoTyped ==
    ASSUME task \in [Procs -> Task], NEW t, NEW p \in PCs, Goto(t, p)
    PROVE  task' \in [Procs -> Task]
BY DEF Goto, Task

LEMMA CarryTyped ==
    ASSUME NEW h \in Task, NEW p \in PCs, NEW S \in SUBSET Grant
    PROVE  [h EXCEPT !.pc = p, !.todo = S] \in Task
BY DEF Task

LEMMA TargetTyped ==
    ASSUME NEW h \in Task, NEW p \in PCs, NEW e \in Events
    PROVE  [h EXCEPT !.pc = p, !.event = e] \in Task
BY DEF Task

LEMMA FinishTyped ==
    ASSUME task \in [Procs -> Task], NEW t, Finish(t)
    PROVE  task' \in [Procs -> Task]
BY IdleTyped DEF Finish

LEMMA SnapshotTyped ==
    ASSUME announced \in [Events -> BOOLEAN], NEW S \in SUBSET Events
    PROVE  Snapshot(S) \subseteq DueRow
BY DEF Snapshot, DueRow

-----------------------------------------------------------------------------
LEMMA TypeStep ==
    ASSUME TypeOK, HandlersSound, Next
    PROVE  TypeOK'
<1> USE DEF TypeOK, db, discord, memory, env, history
<1>1. ASSUME NEW t \in Clickers, Clicked(t) PROVE TypeOK'
  <2> t \in Procs BY DEF Procs
  <2>1. ASSUME NEW e \in Events, CreateEventRole(t, e) PROVE TypeOK'
    BY <2>1, StartedTyped, BoundsAssumption DEF CreateEventRole, Click, PCs, Kinds
  <2>2. ASSUME NEW e \in Events, NEW m \in Members, Signup(t, m, e) PROVE TypeOK'
    BY <2>2, StartedTyped DEF Signup, Click, PCs, Kinds
  <2>3. ASSUME NEW e \in Events, NEW m \in Members, Withdraw(t, m, e) PROVE TypeOK'
    BY <2>3, StartedTyped DEF Withdraw, Click, PCs, Kinds
  <2>4. ASSUME NEW e \in Events, NEW k \in {"close", "cancel", "teardown"},
               Manage(t, e, k)
        PROVE  TypeOK'
    BY <2>4, StartedTyped DEF Manage, Click, PCs, Kinds
  <2> QED BY <1>1, <2>1, <2>2, <2>3, <2>4 DEF Clicked
<1>2. ASSUME NEW t \in Procs, Step(t) PROVE TypeOK'
  <2>1. CASE InsertEvent(t)
    BY <2>1, GotoTyped, FinishTyped DEF InsertEvent, PCs
  <2>2. CASE Announce(t)
    BY <2>2, GotoTyped, FinishTyped DEF Announce, PCs
  <2>3. CASE SetAnnounceMessage(t)
    BY <2>3, GotoTyped, FinishTyped DEF SetAnnounceMessage, PCs
  <2>4. CASE AddSignup(t)
    <3>1. task' \in [Procs -> Task]
      BY <2>4, GotoTyped, FinishTyped DEF AddSignup, PCs
    <3>2. signups' \in [Events -> SUBSET Members]
      BY <2>4 DEF AddSignup, HandlersSound, HandlerSound, SignupPCs
    <3> QED BY <2>4, <3>1, <3>2 DEF AddSignup
  <2>5. CASE AddRole(t)
    <3>1. task' \in [Procs -> Task]
      BY <2>5, GotoTyped, FinishTyped DEF AddRole, PCs
    <3>2. holds' \in [Events -> SUBSET Members]
      BY <2>5 DEF AddRole, HandlersSound, HandlerSound, SignupPCs
    <3> QED BY <2>5, <3>1, <3>2 DEF AddRole
  <2>6. CASE RecordGrant(t)
    BY <2>6, GotoTyped, FinishTyped DEF RecordGrant, PCs, Grant, HandlersSound, HandlerSound, SignupPCs
  <2>7. CASE RemoveSignup(t)
    BY <2>7, GotoTyped, FinishTyped DEF RemoveSignup, PCs
  <2>8. CASE RemoveRole(t)
    BY <2>8, GotoTyped, FinishTyped DEF RemoveRole, PCs
  <2>9. CASE RevokeGrants(t)
    BY <2>9, GotoTyped, FinishTyped DEF RevokeGrants, PCs
  <2>10. CASE QueryGrants(t)
    <3>1. task' \in [Procs -> Task]
      <4> DEFINE h == [task[t] EXCEPT !.pc = "strip",
                          !.todo = {g \in grants : g.event = task[t].event}]
      <4>1. task' = [task EXCEPT ![t] = h]
        BY <2>10 DEF QueryGrants
      <4>2. h \in Task
        <5>1. {g \in grants : g.event = task[t].event} \in SUBSET Grant
          BY DEF Task
        <5> QED BY <5>1, CarryTyped DEF PCs
      <4> QED BY <4>1, <4>2
    <3> QED BY <2>10, <3>1 DEF QueryGrants
  <2>11. CASE StripRole(t)
    BY <2>11, GotoTyped, FinishTyped DEF StripRole, PCs
  <2>12. CASE DropGrant(t)
    <3>1. task' \in [Procs -> Task]
      <4> DEFINE h == [task[t] EXCEPT !.pc = "strip",
                          !.todo = @ \ {FirstOf(task[t].todo)}]
      <4>1. task' = [task EXCEPT ![t] = h]
        BY <2>12 DEF DropGrant
      <4>2. h \in Task
        <5>1. task[t].todo \ {FirstOf(task[t].todo)} \in SUBSET Grant
          BY DEF Task
        <5> QED BY <5>1, CarryTyped DEF PCs
      <4> QED BY <4>1, <4>2
    <3> QED BY <2>12, <3>1 DEF DropGrant
  <2>13. CASE DeleteRole(t)
    BY <2>13, GotoTyped, FinishTyped DEF DeleteRole, PCs
  <2>14. CASE CheckStatus(t)
    BY <2>14, GotoTyped, FinishTyped DEF CheckStatus, PCs
  <2>15. CASE WriteStatus(t)
    <3>1. task' \in [Procs -> Task]
      BY <2>15, GotoTyped, FinishTyped DEF WriteStatus, PCs
    <3>2. status' \in [Events -> Statuses \cup {"absent"}]
      BY <2>15 DEF WriteStatus, Target
    <3> QED BY <2>15, <3>1, <3>2 DEF WriteStatus
  <2>16. CASE ClearView(t)
    <3>1. task' \in [Procs -> Task]
      BY <2>16, StartedTyped, IdleTyped DEF ClearView, Done, PCs, Kinds
    <3> QED BY <2>16, <3>1 DEF ClearView
  <2> QED BY <1>2, <2>1, <2>2, <2>3, <2>4, <2>5, <2>6, <2>7, <2>8, <2>9, <2>10, <2>11, <2>12, <2>13, <2>14, <2>15, <2>16 DEF Step
<1>3. CASE TickStart
  <2>1. task' \in [Procs -> Task]
    BY <1>3, GotoTyped DEF TickStart, PCs
  <2>2. due' \subseteq DueRow
    BY <1>3, SnapshotTyped DEF TickStart, DueReminder
  <2> QED BY <1>3, <2>1, <2>2 DEF TickStart
<1>4. CASE SendReminder
  <2> PICK r \in due :
        /\ task' = [task EXCEPT ![Ticker].pc = "mark", ![Ticker].event = r.event]
        /\ sent' \in {sent, [sent EXCEPT ![r.event] = @ + 1]}
    BY <1>4 DEF SendReminder
  <2>1. r.event \in Events
    BY DEF DueRow
  <2>2. task' \in [Procs -> Task]
    <3>1. [task[Ticker] EXCEPT !.pc = "mark", !.event = r.event] \in Task
      BY <2>1, TargetTyped DEF PCs, Procs
    <3> QED BY <3>1
  <2>3. sent' \in [Events -> Nat]
    BY <2>1
  <2> QED BY <1>4, <2>2, <2>3 DEF SendReminder
<1>5. CASE MarkReminded
  BY <1>5, StartedTyped DEF MarkReminded, PCs, Kinds
<1>6. CASE QueryTeardowns
  <2>1. task' \in [Procs -> Task]
    BY <1>6, GotoTyped DEF QueryTeardowns, PCs
  <2>2. due' \subseteq DueRow
    BY <1>6, SnapshotTyped DEF QueryTeardowns, DueTeardown
  <2> QED BY <1>6, <2>1, <2>2 DEF QueryTeardowns
<1>7. CASE TickEnd
  BY <1>7, FinishTyped DEF TickEnd
<1>8. CASE TickTeardown
  <2> PICK r \in due :
        /\ due' = due \ {r}
        /\ task' = [task EXCEPT ![Ticker] =
                       Started("tick", r.event, Nil, "queryGrants")]
    BY <1>8 DEF TickTeardown
  <2>1. task' \in [Procs -> Task]
    BY StartedTyped DEF DueRow, PCs, Kinds
  <2> QED BY <1>8, <2>1 DEF TickTeardown
<1>9. CASE TickSkip
  BY <1>9 DEF TickSkip
<1>10. CASE TickFault
  BY <1>10, FinishTyped DEF TickFault
<1>11. CASE Crash
  BY <1>11, IdleTyped DEF Crash
<1>12. CASE TimePasses
  BY <1>12 DEF TimePasses
<1>13. ASSUME NEW e \in Events, RoleDeletedByHand(e) PROVE TypeOK'
  BY <1>13 DEF RoleDeletedByHand
<1> QED BY <1>1, <1>2, <1>3, <1>4, <1>5, <1>6, <1>7, <1>8, <1>9, <1>10, <1>11, <1>12, <1>13 DEF Next, TickerStep
-----------------------------------------------------------------------------
\* What no step takes back: a stored event stays stored, a role once created
\* is never "none" again, and a role once wound up stays so.
Lasting ==
    \A e \in Events :
        /\ status[e] # "absent" => status'[e] # "absent"
        /\ role[e] # "none" => role'[e] # "none"
        /\ WoundUp(e) => WoundUp(e)'

LEMMA LastingStep ==
    ASSUME TypeOK, Next
    PROVE  Lasting
<1> USE DEF TypeOK, Lasting, WoundUp, db, discord, memory, env, history
<1>1. ASSUME NEW t \in Clickers, Clicked(t) PROVE Lasting
  BY <1>1 DEF Clicked, CreateEventRole, Signup, Withdraw, Manage
<1>2. ASSUME NEW t \in Procs, Step(t) PROVE Lasting
  <2>1. CASE InsertEvent(t) BY <2>1 DEF InsertEvent
  <2>2. CASE Announce(t) BY <2>2 DEF Announce
  <2>3. CASE SetAnnounceMessage(t) BY <2>3 DEF SetAnnounceMessage
  <2>4. CASE AddSignup(t) BY <2>4 DEF AddSignup
  <2>5. CASE AddRole(t) BY <2>5 DEF AddRole
  <2>6. CASE RecordGrant(t) BY <2>6 DEF RecordGrant
  <2>7. CASE RemoveSignup(t) BY <2>7 DEF RemoveSignup
  <2>8. CASE RemoveRole(t) BY <2>8 DEF RemoveRole
  <2>9. CASE RevokeGrants(t) BY <2>9 DEF RevokeGrants
  <2>10. CASE QueryGrants(t) BY <2>10 DEF QueryGrants
  <2>11. CASE StripRole(t) BY <2>11 DEF StripRole
  <2>12. CASE DropGrant(t) BY <2>12 DEF DropGrant
  <2>13. CASE DeleteRole(t) BY <2>13 DEF DeleteRole
  <2>14. CASE CheckStatus(t) BY <2>14 DEF CheckStatus
  <2>15. CASE WriteStatus(t) BY <2>15 DEF WriteStatus, Target
  <2>16. CASE ClearView(t) BY <2>16 DEF ClearView
  <2> QED BY <1>2, <2>1, <2>2, <2>3, <2>4, <2>5, <2>6, <2>7, <2>8, <2>9, <2>10, <2>11, <2>12, <2>13, <2>14, <2>15, <2>16 DEF Step
<1>3. CASE TickerStep
  BY <1>3 DEF TickerStep, TickStart, SendReminder, MarkReminded, QueryTeardowns, TickEnd
<1>4. CASE TickTeardown \/ TickSkip \/ TickFault \/ Crash \/ TimePasses
  BY <1>4 DEF TickTeardown, TickSkip, TickFault, Crash, TimePasses
<1>5. ASSUME NEW e \in Events, RoleDeletedByHand(e) PROVE Lasting
  BY <1>5 DEF RoleDeletedByHand
<1> QED BY <1>1, <1>2, <1>3, <1>4, <1>5 DEF Next

\* A step of handler t leaves the other handlers' records alone, and one of
\* them that has yet to insert its event still finds it absent.
Undisturbed(t) ==
    \A u \in Procs \ {t} :
        /\ task'[u] = task[u]
        /\ task[u].pc = "insertEvent" => status'[task[u].event] = "absent"

LEMMA UndisturbedSound ==
    ASSUME TypeOK, HandlersSound, Lasting, NEW t \in Procs, Undisturbed(t)
    PROVE  \A u \in Procs \ {t} : HandlerSound(task[u])'
<1> TAKE u \in Procs \ {t}
<1>1. HandlerSound(task[u]) /\ task[u] \in Task
  BY DEF HandlersSound, TypeOK
<1>2. task'[u] = task[u]
  BY DEF Undisturbed
<1>3. task[u].pc = "insertEvent" =>
         status'[task[u].event] = "absent" /\ role'[task[u].event] # "none"
  BY <1>1 DEF Undisturbed, Lasting, HandlerSound
<1>4. task[u].kind \in StatusKinds =>
         task[u].event \in Events /\ status'[task[u].event] # "absent"
  BY <1>1 DEF Lasting, HandlerSound
<1>5. task[u].pc \in {"check", "write"} /\ task[u].kind # "close" =>
         WoundUp(task[u].event)'
  <2> SUFFICES ASSUME task[u].pc \in {"check", "write"}, task[u].kind # "close"
               PROVE  WoundUp(task[u].event)'
    OBVIOUS
  <2>1. task[u].event \in Events /\ WoundUp(task[u].event)
    BY <1>1 DEF HandlerSound
  <2> QED BY <2>1, <1>2 DEF Lasting, WoundUp
<1> QED BY <1>1, <1>2, <1>3, <1>4, <1>5 DEF HandlerSound

LEMMA StepUndisturbed ==
    ASSUME TypeOK, HandlersSound, OneCreator, NEW t \in Procs, Step(t)
    PROVE  Undisturbed(t)
<1>1. ASSUME NEW u \in Procs \ {t} PROVE task'[u] = task[u]
  BY DEF TypeOK, Step, Goto, Finish, Done, InsertEvent, Announce, SetAnnounceMessage, AddSignup, AddRole, RecordGrant, RemoveSignup, RemoveRole, RevokeGrants, QueryGrants, StripRole, DropGrant, DeleteRole, CheckStatus, WriteStatus, ClearView
<1>2. ASSUME NEW u \in Procs \ {t}, task[u].pc = "insertEvent"
      PROVE  status'[task[u].event] = "absent"
  <2>1. task[u].event \in Events /\ status[task[u].event] = "absent"
    BY <1>2 DEF HandlersSound, HandlerSound
  <2>2. CASE InsertEvent(t)
    BY <1>2, <2>1, <2>2 DEF InsertEvent, OneCreator, TypeOK
  <2>3. CASE WriteStatus(t)
    <3>1. status[task[t].event] # "absent"
      BY <2>3 DEF WriteStatus, HandlersSound, HandlerSound, StatusPCs
    <3> QED BY <2>1, <2>3, <3>1 DEF WriteStatus, TypeOK
  <2>4. CASE status' = status
    BY <2>1, <2>4
  <2> QED
    BY <2>2, <2>3, <2>4 DEF Step, db, Announce, SetAnnounceMessage, AddSignup, AddRole, RecordGrant, RemoveSignup, RemoveRole, RevokeGrants, QueryGrants, StripRole, DropGrant, DeleteRole, CheckStatus, ClearView
<1> QED BY <1>1, <1>2 DEF Undisturbed

\* A handler that finishes, or moves on among the steps of a sign-up or a
\* withdrawal, leaves a sound record.
LEMMA FinishSound ==
    ASSUME TypeOK, NEW t \in Procs, Finish(t)
    PROVE  HandlerSound(task[t])'
<1>1. task'[t] = Idle
  BY DEF TypeOK, Finish
<1> QED BY <1>1 DEF HandlerSound, Idle, SignupPCs, StatusPCs, StatusKinds

LEMMA SignupGotoSound ==
    ASSUME TypeOK, HandlersSound, Lasting, NEW t \in Procs,
           task[t].pc \in SignupPCs,
           NEW p \in SignupPCs, Goto(t, p)
    PROVE  HandlerSound(task[t])'
<1>1. HandlerSound(task[t]) /\ task[t] \in Task
  BY DEF HandlersSound, TypeOK
<1>2. /\ task'[t].pc = p
      /\ task'[t].event = task[t].event
      /\ task'[t].member = task[t].member
      /\ task'[t].kind = task[t].kind
  BY <1>1 DEF TypeOK, Goto, Task
<1>3. task[t].event \in Events /\ task[t].member \in Members
  BY <1>1 DEF HandlerSound, SignupPCs
<1>4. task[t].kind \notin StatusKinds
  BY <1>1 DEF HandlerSound, SignupPCs, StatusPCs
<1> QED BY <1>2, <1>3, <1>4 DEF HandlerSound, SignupPCs, StatusPCs

\* The record a handler's own step leaves it with.
LEMMA StepSound ==
    ASSUME RoleInv, Lasting, NEW t \in Procs, Step(t)
    PROVE  HandlerSound(task[t])'
<1> USE DEF Goto, Finish, HandlerSound, SignupPCs, StatusPCs
<1>1. HandlerSound(task[t]) /\ task[t] \in Task /\ task \in [Procs -> Task]
  BY DEF RoleInv, HandlersSound, TypeOK
<1>2. HandlerSound(Idle)'
  BY DEF Idle, StatusKinds
<1>3. CASE InsertEvent(t)
  BY <1>1, <1>2, <1>3 DEF InsertEvent, Idle, StatusKinds, Lasting
<1>4. CASE Announce(t)
  <2>1. CASE Finish(t)
    BY <2>1, FinishSound DEF RoleInv
  <2>2. CASE Goto(t, "setAnnounce")
    BY <1>1, <1>4, <2>2 DEF Announce, Lasting, StatusKinds
  <2> QED BY <1>4, <2>1, <2>2 DEF Announce
<1>5. CASE SetAnnounceMessage(t)
  BY <1>1, <1>2, <1>5 DEF SetAnnounceMessage, Idle, StatusKinds, Lasting
<1>6. CASE AddSignup(t)
  <2>1. Finish(t) \/ Goto(t, "addRole")
    BY <1>6 DEF AddSignup
  <2>2. task[t].pc \in SignupPCs
    BY <1>6 DEF AddSignup
  <2> QED
    BY <2>1, <2>2, FinishSound, SignupGotoSound DEF RoleInv, SignupPCs
<1>7. CASE AddRole(t)
  <2>1. Finish(t) \/ Goto(t, "recordGrant")
    BY <1>7 DEF AddRole
  <2>2. task[t].pc \in SignupPCs
    BY <1>7 DEF AddRole
  <2> QED
    BY <2>1, <2>2, FinishSound, SignupGotoSound DEF RoleInv, SignupPCs
<1>8. CASE RecordGrant(t)
  BY <1>1, <1>2, <1>8 DEF RecordGrant, Idle, StatusKinds, Lasting
<1>9. CASE RemoveSignup(t)
  <2>1. Finish(t) \/ Goto(t, "removeRole") \/ Goto(t, "revokeGrants")
    BY <1>9 DEF RemoveSignup
  <2>2. task[t].pc \in SignupPCs
    BY <1>9 DEF RemoveSignup
  <2> QED
    BY <2>1, <2>2, FinishSound, SignupGotoSound DEF RoleInv, SignupPCs
<1>10. CASE RemoveRole(t)
  <2>1. Finish(t) \/ Goto(t, "revokeGrants")
    BY <1>10 DEF RemoveRole
  <2>2. task[t].pc \in SignupPCs
    BY <1>10 DEF RemoveRole
  <2> QED
    BY <2>1, <2>2, FinishSound, SignupGotoSound DEF RoleInv, SignupPCs
<1>11. CASE RevokeGrants(t)
  BY <1>1, <1>2, <1>11 DEF RevokeGrants, Idle, StatusKinds, Lasting
<1>12. CASE QueryGrants(t)
  BY <1>1, <1>2, <1>12 DEF QueryGrants, Idle, StatusKinds, Lasting
<1>13. CASE StripRole(t)
  BY <1>1, <1>2, <1>13 DEF StripRole, Idle, StatusKinds, Lasting
<1>14. CASE DropGrant(t)
  BY <1>1, <1>2, <1>14 DEF DropGrant, Idle, StatusKinds, Lasting
<1>15. CASE DeleteRole(t)
  BY <1>1, <1>2, <1>15 DEF DeleteRole, Idle, StatusKinds, WoundUp, RoleInv, RolesSound, TypeOK, Lasting
<1>16. CASE CheckStatus(t)
  <2>1. CASE Finish(t)
    BY <2>1, FinishSound DEF RoleInv
  <2>2. ASSUME NEW p \in {"write", "refresh"}, Goto(t, p)
        PROVE  HandlerSound(task[t])'
    BY <1>1, <1>16, <2>2 DEF CheckStatus, WoundUp, db, discord, history
  <2> QED BY <1>16, <2>1, <2>2 DEF CheckStatus
<1>17. CASE WriteStatus(t)
  <2>1. CASE Finish(t)
    BY <2>1, FinishSound DEF RoleInv
  <2>2. CASE Goto(t, "refresh")
    BY <1>1, <1>17, <2>2 DEF WriteStatus, Lasting
  <2> QED BY <1>17, <2>1, <2>2 DEF WriteStatus
<1>18. CASE ClearView(t)
  BY <1>1, <1>2, <1>18 DEF ClearView, Idle, StatusKinds, Done, Started, StatusKinds
<1> QED
  BY <1>3, <1>4, <1>5, <1>6, <1>7, <1>8, <1>9, <1>10, <1>11, <1>12, <1>13, <1>14, <1>15, <1>16, <1>17, <1>18 DEF Step

LEMMA HandlersStep ==
    ASSUME RoleInv, Lasting, Next
    PROVE  HandlersSound'
<1> USE DEF RoleInv
<1>0. \A t \in Procs :
         Undisturbed(t) /\ HandlerSound(task[t])' => HandlersSound'
  BY UndisturbedSound DEF HandlersSound
<1>1. ASSUME NEW t \in Clickers, Clicked(t) PROVE HandlersSound'
  <2> t \in Procs BY DEF Procs
  <2>1. status' = status
    BY <1>1 DEF Clicked, CreateEventRole, Signup, Withdraw, Manage, db
  <2>2. \A u \in Procs \ {t} : task'[u] = task[u]
    BY <1>1 DEF Clicked, CreateEventRole, Signup, Withdraw, Manage, TypeOK
  <2>3. Undisturbed(t)
    BY <2>1, <2>2 DEF Undisturbed, HandlersSound, HandlerSound
  <2>4. HandlerSound(task[t])'
    <3> USE DEF TypeOK, Started, HandlerSound, SignupPCs, StatusPCs, StatusKinds
    <3>1. ASSUME NEW e \in Events, CreateEventRole(t, e)
          PROVE  HandlerSound(task[t])'
      BY <3>1 DEF CreateEventRole
    <3>2. ASSUME NEW e \in Events, NEW m \in Members,
                 Signup(t, m, e) \/ Withdraw(t, m, e)
          PROVE  HandlerSound(task[t])'
      BY <3>2 DEF Signup, Withdraw
    <3>3. ASSUME NEW e \in Events, NEW k \in {"close", "cancel", "teardown"},
                 Manage(t, e, k)
          PROVE  HandlerSound(task[t])'
      BY <3>3 DEF Manage, db
    <3> QED BY <1>1, <3>1, <3>2, <3>3 DEF Clicked
  <2> QED BY <1>0, <2>3, <2>4
<1>2. ASSUME NEW t \in Procs, Step(t) PROVE HandlersSound'
  BY <1>0, <1>2, StepUndisturbed, StepSound
<1>3. CASE TickerStep \/ TickTeardown
  <2> Ticker \in Procs BY DEF Procs
  <2>1. status' = status
    BY <1>3 DEF TickerStep, TickStart, SendReminder, MarkReminded,
                QueryTeardowns, TickEnd, TickTeardown, db
  <2>2. \A u \in Procs \ {Ticker} : task'[u] = task[u]
    BY <1>3 DEF TickerStep, TickStart, SendReminder, MarkReminded, TypeOK,
                QueryTeardowns, TickEnd, TickTeardown, Goto, Finish
  <2>3. Undisturbed(Ticker)
    BY <2>1, <2>2 DEF Undisturbed, HandlersSound, HandlerSound
  <2>4. HandlerSound(task[Ticker])'
    <3> USE DEF HandlerSound, SignupPCs, StatusPCs
    <3>0. HandlerSound(task[Ticker]) /\ task[Ticker] \in Task
      BY DEF HandlersSound, TypeOK
    <3>1. CASE TickStart \/ QueryTeardowns
      <4>1. /\ task'[Ticker].pc \in {"reminders", "teardowns"}
            /\ task'[Ticker].kind = task[Ticker].kind
            /\ task[Ticker].pc \in {"idle", "reminders"}
        BY <3>0, <3>1 DEF TickStart, QueryTeardowns, Goto, TypeOK, Task
      <4> QED BY <3>0, <4>1, <2>1
    <3>2. CASE SendReminder
      <4> PICK r \in due :
            task' = [task EXCEPT ![Ticker].pc = "mark", ![Ticker].event = r.event]
        BY <3>2 DEF SendReminder
      <4>1. r.event \in Events /\ status[r.event] # "absent"
        BY DEF DueStored, TypeOK, DueRow
      <4>2. /\ task'[Ticker].pc = "mark"
            /\ task'[Ticker].event = r.event
            /\ task'[Ticker].kind = task[Ticker].kind
        BY <3>0 DEF TypeOK, Task
      <4>3. task[Ticker].kind \notin StatusKinds
        BY <3>0, <3>2 DEF SendReminder
      <4> QED BY <4>1, <4>2, <4>3, <2>1
    <3>3. CASE MarkReminded
      BY <3>3 DEF MarkReminded, Started, TypeOK, StatusKinds
    <3>4. CASE TickEnd
      BY <3>4, FinishSound DEF TickEnd
    <3>5. CASE TickTeardown
      <4> PICK r \in due :
            task' = [task EXCEPT ![Ticker] =
                        Started("tick", r.event, Nil, "queryGrants")]
        BY <3>5 DEF TickTeardown
      <4>1. r.event \in Events /\ status[r.event] # "absent"
        BY DEF DueStored, TypeOK, DueRow
      <4> QED BY <4>1, <2>1 DEF Started, TypeOK, StatusKinds
    <3> QED BY <1>3, <3>1, <3>2, <3>3, <3>4, <3>5 DEF TickerStep
  <2> QED BY <1>0, <2>3, <2>4
<1>4. CASE TickFault
  <2> Ticker \in Procs BY DEF Procs
  <2>1. Undisturbed(Ticker)
    BY <1>4 DEF TickFault, Finish, TypeOK, Undisturbed, db, HandlersSound, HandlerSound
  <2>2. HandlerSound(task[Ticker])'
    BY <1>4, FinishSound DEF TickFault
  <2> QED BY <1>0, <2>1, <2>2
<1>5. CASE Crash
  BY <1>5 DEF Crash, Idle, HandlersSound, HandlerSound, SignupPCs, StatusPCs,
              StatusKinds
<1>6. CASE TickSkip \/ TimePasses
  BY <1>6 DEF TickSkip, TimePasses, HandlersSound, HandlerSound, WoundUp,
              db, discord, memory, history
<1>7. ASSUME NEW e \in Events, RoleDeletedByHand(e) PROVE HandlersSound'
  BY <1>7 DEF RoleDeletedByHand, HandlersSound, HandlerSound, WoundUp, TypeOK,
              db, memory, history
<1> QED BY <1>1, <1>2, <1>3, <1>4, <1>5, <1>6, <1>7 DEF Next

LEMMA OneCreatorStep ==
    ASSUME RoleInv, Next
    PROVE  OneCreator'
<1> USE DEF RoleInv, TypeOK
<1>1. ASSUME NEW t \in Procs,
             \A u \in Procs \ {t} : task'[u] = task[u],
             task'[t].pc # "insertEvent" \/ task'[t] = task[t]
      PROVE  OneCreator'
  BY <1>1 DEF OneCreator
<1>2. ASSUME NEW t \in Clickers, Clicked(t) PROVE OneCreator'
  <2> t \in Procs BY DEF Procs
  <2>1. ASSUME NEW e \in Events, CreateEventRole(t, e) PROVE OneCreator'
    <3>1. task'[t] = Started("create", e, Nil, "insertEvent")
      BY <2>1 DEF CreateEventRole
    <3>2. \A u \in Procs \ {t} : task'[u] = task[u]
      BY <2>1 DEF CreateEventRole
    <3>3. \A u \in Procs : task[u].pc = "insertEvent" => task[u].event # e
      BY <2>1 DEF CreateEventRole, HandlersSound, HandlerSound
    <3> QED BY <3>1, <3>2, <3>3 DEF OneCreator, Started
  <2>2. ASSUME NEW e \in Events, NEW m \in Members,
               Signup(t, m, e) \/ Withdraw(t, m, e)
        PROVE  OneCreator'
    BY <1>1, <2>2 DEF Signup, Withdraw, Started
  <2>3. ASSUME NEW e \in Events, NEW k \in {"close", "cancel", "teardown"},
               Manage(t, e, k)
        PROVE  OneCreator'
    BY <1>1, <2>3 DEF Manage, Started
  <2> QED BY <1>2, <2>1, <2>2, <2>3 DEF Clicked
<1>3. ASSUME NEW t \in Procs, Step(t) PROVE OneCreator'
  <2>1. \A u \in Procs \ {t} : task'[u] = task[u]
    BY <1>3, StepUndisturbed DEF Undisturbed
  <2>2. task'[t].pc # "insertEvent"
    BY <1>3 DEF Step, Goto, Finish, Done, Idle, Started, Task, InsertEvent, Announce, SetAnnounceMessage, AddSignup, AddRole, RecordGrant, RemoveSignup, RemoveRole, RevokeGrants, QueryGrants, StripRole, DropGrant, DeleteRole, CheckStatus, WriteStatus, ClearView
  <2> QED BY <1>1, <2>1, <2>2
<1>4. CASE TickerStep \/ TickTeardown \/ TickFault
  <2> Ticker \in Procs BY DEF Procs
  <2>1. \A u \in Procs \ {Ticker} : task'[u] = task[u]
    BY <1>4 DEF TickerStep, TickStart, SendReminder, MarkReminded, TickFault,
                QueryTeardowns, TickEnd, TickTeardown, Goto, Finish
  <2>2. task'[Ticker].pc # "insertEvent"
    BY <1>4 DEF TickerStep, TickStart, SendReminder, MarkReminded, TickFault,
                QueryTeardowns, TickEnd, TickTeardown, Goto, Finish, Idle,
                Started, Task
  <2> QED BY <1>1, <2>1, <2>2
<1>5. CASE Crash
  BY <1>5 DEF Crash, Idle, OneCreator
<1>6. CASE TickSkip \/ TimePasses \/ \E e \in Events : RoleDeletedByHand(e)
  BY <1>6 DEF TickSkip, TimePasses, RoleDeletedByHand, OneCreator, memory
<1> QED BY <1>2, <1>3, <1>4, <1>5, <1>6 DEF Next

LEMMA RolesStep ==
    ASSUME RoleInv, Next
    PROVE  RolesSound'
<1> USE DEF RoleInv, TypeOK, RolesSound, WoundUp, db, discord, memory, env, history
<1>1. ASSUME NEW t \in Clickers, Clicked(t) PROVE RolesSound'
  BY <1>1 DEF Clicked, CreateEventRole, Signup, Withdraw, Manage
<1>2. ASSUME NEW t \in Procs, Step(t) PROVE RolesSound'
  <2>0. HandlerSound(task[t])
    BY DEF HandlersSound
  <2>1. CASE InsertEvent(t)
    BY <2>0, <2>1 DEF InsertEvent, HandlerSound
  <2>2. CASE AddRole(t)
    BY <2>2 DEF AddRole
  <2>3. CASE RemoveRole(t)
    BY <2>3 DEF RemoveRole
  <2>4. CASE StripRole(t)
    BY <2>4 DEF StripRole
  <2>5. CASE DeleteRole(t)
    BY <2>5 DEF DeleteRole
  <2>6. CASE WriteStatus(t)
    <3>1. task[t].event \in Events /\ status[task[t].event] # "absent"
      BY <2>0, <2>6 DEF WriteStatus, HandlerSound, StatusPCs
    <3>2. task[t].kind # "close" => WoundUp(task[t].event)
      BY <2>0, <2>6 DEF WriteStatus, HandlerSound
    <3>3. task[t].kind = "close" => Target(task[t].kind) = "closed"
      BY DEF Target
    <3> QED BY <2>6, <3>1, <3>2, <3>3 DEF WriteStatus
  <2>7. CASE UNCHANGED <<status, role, holds, refused>>
    BY <2>7
  <2> QED
    BY <1>2, <2>1, <2>2, <2>3, <2>4, <2>5, <2>6, <2>7
    DEF Step, Announce, SetAnnounceMessage, AddSignup, RecordGrant,
        RemoveSignup, RevokeGrants, QueryGrants, DropGrant, CheckStatus, ClearView
<1>3. CASE TickerStep
  BY <1>3 DEF TickerStep, TickStart, SendReminder, MarkReminded,
              QueryTeardowns, TickEnd
<1>4. CASE TickTeardown \/ TickSkip \/ TickFault \/ Crash \/ TimePasses
  BY <1>4 DEF TickTeardown, TickSkip, TickFault, Crash, TimePasses
<1>5. ASSUME NEW e \in Events, RoleDeletedByHand(e) PROVE RolesSound'
  BY <1>5 DEF RoleDeletedByHand
<1> QED BY <1>1, <1>2, <1>3, <1>4, <1>5 DEF Next

LEMMA DueStep ==
    ASSUME RoleInv, Lasting, Next
    PROVE  DueStored'
<1> USE DEF RoleInv, TypeOK, DueStored, Lasting
<1>1. CASE due' \subseteq due
  BY <1>1 DEF DueRow
<1>2. CASE TickStart \/ QueryTeardowns
  BY <1>2 DEF TickStart, QueryTeardowns, Snapshot, DueReminder, DueTeardown
<1>3. CASE MarkReminded \/ TickTeardown \/ TickSkip \/ TickFault \/ Crash
  BY <1>1, <1>3 DEF MarkReminded, TickTeardown, TickSkip, TickFault, Crash
<1>4. ASSUME NEW t \in Clickers, Clicked(t) PROVE DueStored'
  BY <1>1, <1>4 DEF Clicked, CreateEventRole, Signup, Withdraw, Manage, Click
<1>5. ASSUME NEW t \in Procs, Step(t) PROVE DueStored'
  BY <1>1, <1>5 DEF Step, InsertEvent, Announce, SetAnnounceMessage, AddSignup, AddRole, RecordGrant, RemoveSignup, RemoveRole, RevokeGrants, QueryGrants, StripRole, DropGrant, DeleteRole, CheckStatus, WriteStatus, ClearView
<1>6. CASE SendReminder \/ TickEnd \/ TimePasses
           \/ \E e \in Events : RoleDeletedByHand(e)
  BY <1>1, <1>6 DEF SendReminder, TickEnd, TimePasses, RoleDeletedByHand, memory
<1> QED BY <1>2, <1>3, <1>4, <1>5, <1>6 DEF Next, TickerStep

-----------------------------------------------------------------------------
LEMMA RoleInvInit == Init => RoleInv
BY IdleTyped DEF Init, RoleInv, TypeOK, HandlersSound, HandlerSound, OneCreator,
                 RolesSound, DueStored, Idle, SignupPCs, StatusPCs, StatusKinds

LEMMA RoleInvStep == RoleInv /\ [Next]_vars => RoleInv'
<1> SUFFICES ASSUME RoleInv, [Next]_vars PROVE RoleInv'
  OBVIOUS
<1>1. CASE Next
  BY <1>1, TypeStep, LastingStep, HandlersStep, OneCreatorStep, RolesStep, DueStep
  DEF RoleInv
<1>2. CASE UNCHANGED vars
  BY <1>2 DEF RoleInv, TypeOK, HandlersSound, HandlerSound, OneCreator,
              RolesSound, DueStored, WoundUp,
              vars, db, discord, memory, env, history
<1> QED BY <1>1, <1>2

\* TypeOK and the rest of the inductive invariant hold in every reachable
\* state, for any number of events, members and handlers.
THEOREM RoleInvariant == Spec => []RoleInv
BY RoleInvInit, RoleInvStep, PTL DEF Spec

\* Every variable of the events component keeps its type (TypeOK).
THEOREM TypeCorrect == Spec => []TypeOK
<1>1. RoleInv => TypeOK
  BY DEF RoleInv
<1> QED BY <1>1, RoleInvariant, PTL

\* An ended event leaves nobody holding its role unless Discord refused to
\* delete it, whatever sign-ups, withdrawals, managers, ticks and crashes
\* were interleaved (EndedEventHoldsNobody).
THEOREM EndedHoldsNobody == Spec => []EndedEventHoldsNobody
<1>1. RoleInv => EndedEventHoldsNobody
  BY DEF RoleInv, RolesSound, WoundUp, EndedEventHoldsNobody
<1> QED BY <1>1, RoleInvariant, PTL

-----------------------------------------------------------------------------
(***************************************************************************)
(* With one handler at a time on an event's status, what CheckStatus read  *)
(* is still true when WriteStatus writes.                                  *)
(***************************************************************************)
LEMMA OneWriterStep ==
    ASSUME RoleInv, OneWriter, Exclusive, Next
    PROVE  OneWriter'
<1> USE DEF RoleInv, TypeOK
<1>1. ASSUME NEW t \in Procs,
             \A u \in Procs \ {t} : task'[u] = task[u],
             \/ task'[t].kind \notin StatusKinds
             \/ task'[t].kind = task[t].kind /\ task'[t].event = task[t].event
             \/ ~Busy(task'[t].event)
      PROVE  OneWriter'
  BY <1>1 DEF OneWriter, Busy
<1>2. ASSUME NEW t \in Clickers, Clicked(t) PROVE OneWriter'
  <2> t \in Procs BY DEF Procs
  <2>1. ASSUME NEW e \in Events, CreateEventRole(t, e) PROVE OneWriter'
    BY <1>1, <2>1 DEF CreateEventRole, Started, StatusKinds
  <2>2. ASSUME NEW e \in Events, NEW m \in Members,
               Signup(t, m, e) \/ Withdraw(t, m, e)
        PROVE  OneWriter'
    BY <1>1, <2>2 DEF Signup, Withdraw, Started, StatusKinds
  <2>3. ASSUME NEW e \in Events, NEW k \in {"close", "cancel", "teardown"},
               Manage(t, e, k)
        PROVE  OneWriter'
    BY <1>1, <2>3 DEF Manage, Started
  <2> QED BY <1>2, <2>1, <2>2, <2>3 DEF Clicked
<1>3. ASSUME NEW t \in Procs, Step(t) PROVE OneWriter'
  <2>1. \A u \in Procs \ {t} : task'[u] = task[u]
    BY <1>3, StepUndisturbed DEF Undisturbed
  <2>2. \/ task'[t].kind \notin StatusKinds
        \/ task'[t].kind = task[t].kind /\ task'[t].event = task[t].event
    BY <1>3 DEF Step, Goto, Finish, Done, Idle, Started, Task, StatusKinds,
                InsertEvent, Announce, SetAnnounceMessage, AddSignup, AddRole, RecordGrant, RemoveSignup, RemoveRole, RevokeGrants, QueryGrants, StripRole, DropGrant, DeleteRole, CheckStatus, WriteStatus, ClearView
  <2> QED BY <1>1, <2>1, <2>2
<1>4. CASE TickerStep \/ TickFault
  <2> Ticker \in Procs BY DEF Procs
  <2>0. HandlerSound(task[Ticker])
    BY DEF HandlersSound
  <2>1. \A u \in Procs \ {Ticker} : task'[u] = task[u]
    BY <1>4 DEF TickerStep, TickStart, SendReminder, MarkReminded, TickFault,
                QueryTeardowns, TickEnd, Goto, Finish
  <2>2. task'[Ticker].kind \notin StatusKinds
    <3>1. CASE TickStart \/ QueryTeardowns \/ SendReminder
      <4>1. task'[Ticker].kind = task[Ticker].kind
        BY <3>1 DEF TickStart, QueryTeardowns, SendReminder, Goto, Task
      <4>2. task[Ticker].pc \notin StatusPCs
        BY <3>1 DEF TickStart, QueryTeardowns, SendReminder, StatusPCs
      <4> QED BY <2>0, <4>1, <4>2 DEF HandlerSound
    <3>2. CASE MarkReminded \/ TickEnd \/ TickFault
      BY <3>2 DEF MarkReminded, TickEnd, TickFault, Finish, Idle, Started,
                  StatusKinds
    <3> QED BY <1>4, <3>1, <3>2 DEF TickerStep
  <2> QED BY <1>1, <2>1, <2>2
<1>5. CASE TickTeardown
  <2> Ticker \in Procs BY DEF Procs
  <2> PICK r \in due :
        /\ ~Busy(r.event)
        /\ task' = [task EXCEPT ![Ticker] =
                       Started("tick", r.event, Nil, "queryGrants")]
    BY <1>5 DEF TickTeardown
  <2> QED BY <1>1 DEF Started
<1>6. CASE Crash
  BY <1>6 DEF Crash, Idle, OneWriter, StatusKinds
<1>7. CASE TickSkip \/ TimePasses \/ \E e \in Events : RoleDeletedByHand(e)
  BY <1>7 DEF TickSkip, TimePasses, RoleDeletedByHand, OneWriter, memory
<1> QED BY <1>2, <1>3, <1>4, <1>5, <1>6, <1>7 DEF Next

LEMMA ChecksHoldStep ==
    ASSUME RoleInv, OneWriter, ChecksHold, Next
    PROVE  ChecksHold'
<1> USE DEF RoleInv, TypeOK, ChecksHold
<1>1. ASSUME status' = status,
             \A u \in Procs : task'[u].pc = "write" => task'[u] = task[u]
      PROVE  ChecksHold'
  BY <1>1
<1>2. ASSUME NEW t \in Procs, Step(t) PROVE ChecksHold'
  <2>1. \A u \in Procs \ {t} : task'[u] = task[u]
    BY <1>2, StepUndisturbed DEF Undisturbed
  <2>2. ASSUME NEW u \in Procs, task[u].pc = "write", u # t
        PROVE  status'[task[u].event] = status[task[u].event]
    <3>1. /\ task[u].kind \in StatusKinds
          /\ task[u].event \in Events /\ status[task[u].event] # "absent"
      BY <2>2 DEF HandlersSound, HandlerSound, StatusPCs
    <3>2. CASE InsertEvent(t)
      BY <3>1, <3>2 DEF InsertEvent, HandlersSound, HandlerSound
    <3>3. CASE WriteStatus(t)
      <4>1. task[t].kind \in StatusKinds
        BY <3>3 DEF WriteStatus, HandlersSound, HandlerSound, StatusPCs
      <4>2. task[t].event # task[u].event
        BY <2>2, <3>1, <4>1 DEF OneWriter
      <4> QED BY <3>1, <3>3, <4>2 DEF WriteStatus
    <3>4. CASE status' = status
      BY <3>4
    <3> QED
      BY <1>2, <3>2, <3>3, <3>4 DEF Step, db, Announce, SetAnnounceMessage, AddSignup, AddRole, RecordGrant, RemoveSignup, RemoveRole, RevokeGrants, QueryGrants, StripRole, DropGrant, DeleteRole, CheckStatus, ClearView
  <2>3. task'[t].pc = "write" =>
           Target(task'[t].kind) \in Allowed(status'[task'[t].event])
    <3>1. CASE CheckStatus(t)
      BY <3>1 DEF CheckStatus, Goto, Finish, Idle, Task, db
    <3>2. CASE ~CheckStatus(t)
      <4>1. task'[t].pc # "write"
        BY <1>2, <3>2 DEF Step, Goto, Finish, Done, Idle, Started, Task,
           InsertEvent, Announce, SetAnnounceMessage, AddSignup, AddRole, RecordGrant, RemoveSignup, RemoveRole, RevokeGrants, QueryGrants, StripRole, DropGrant, DeleteRole, WriteStatus, ClearView
      <4> QED BY <4>1
    <3> QED BY <3>1, <3>2
  <2> QED BY <2>1, <2>2, <2>3
<1>3. ASSUME NEW t \in Clickers, Clicked(t) PROVE ChecksHold'
  <2>1. status' = status
    BY <1>3 DEF Clicked, CreateEventRole, Signup, Withdraw, Manage, db
  <2>2. \A u \in Procs : task'[u].pc = "write" => task'[u] = task[u]
    BY <1>3 DEF Clicked, CreateEventRole, Signup, Withdraw, Manage, Started
  <2> QED BY <1>1, <2>1, <2>2
<1>4. CASE TickerStep \/ TickTeardown \/ TickFault \/ Crash
  <2>1. status' = status
    BY <1>4 DEF TickerStep, TickStart, SendReminder, MarkReminded, TickFault,
                QueryTeardowns, TickEnd, TickTeardown, Crash, db
  <2>2. \A u \in Procs : task'[u].pc = "write" => task'[u] = task[u]
    BY <1>4 DEF TickerStep, TickStart, SendReminder, MarkReminded, TickFault,
                QueryTeardowns, TickEnd, TickTeardown, Crash, Goto, Finish,
                Idle, Started, Task
  <2> QED BY <1>1, <2>1, <2>2
<1>5. CASE TickSkip \/ TimePasses \/ \E e \in Events : RoleDeletedByHand(e)
  BY <1>5 DEF TickSkip, TimePasses, RoleDeletedByHand, memory, db
<1> QED BY <1>2, <1>3, <1>4, <1>5 DEF Next

THEOREM ExclusiveInvariant == Spec => []ExclusiveInv
<1>1. Init => ExclusiveInv
  BY RoleInvInit DEF ExclusiveInv, Init, OneWriter, ChecksHold, Idle, StatusKinds
<1>2. ExclusiveInv /\ [Next]_vars => ExclusiveInv'
  <2> SUFFICES ASSUME ExclusiveInv, [Next]_vars PROVE ExclusiveInv'
    OBVIOUS
  <2>1. RoleInv'
    BY RoleInvStep DEF ExclusiveInv
  <2>2. ASSUME Exclusive PROVE (OneWriter /\ ChecksHold)'
    <3>1. CASE Next
      BY <2>2, <3>1, OneWriterStep, ChecksHoldStep DEF ExclusiveInv
    <3>2. CASE UNCHANGED vars
      BY <2>2, <3>2 DEF ExclusiveInv, OneWriter, ChecksHold, vars, db, memory
    <3> QED BY <3>1, <3>2
  <2> QED BY <2>1, <2>2 DEF ExclusiveInv
<1> QED BY <1>1, <1>2, PTL DEF Spec

\* The lifecycle's step behind every step of the bot.
wound == [e \in Events |-> role[e] = "deleted" \/ refused[e]]

LEMMA LifecycleStep ==
    ASSUME ExclusiveInv, Exclusive, [Next]_vars
    PROVE  Lifecycle!Next \/ UNCHANGED <<status, wound>>
<1> USE DEF ExclusiveInv, RoleInv, TypeOK
<1>1. ASSUME NEW t \in Procs, InsertEvent(t) PROVE Lifecycle!Next
  <2>1. task[t].event \in Events /\ status[task[t].event] = "absent"
    BY <1>1 DEF InsertEvent, HandlersSound, HandlerSound
  <2>2. Lifecycle!Open(task[t].event)
    BY <1>1, <2>1 DEF InsertEvent, Lifecycle!Open, discord, history
  <2> QED BY <2>1, <2>2 DEF Lifecycle!Next
<1>2. ASSUME NEW t \in Procs, WriteStatus(t) PROVE Lifecycle!Next
  <2> DEFINE e == task[t].event
  <2>1. /\ e \in Events
        /\ task[t].kind # "close" => wound[e]
        /\ Target(task[t].kind) \in Allowed(status[e])
    BY <1>2 DEF WriteStatus, HandlersSound, HandlerSound, StatusPCs, WoundUp,
                wound, ChecksHold
  <2>2. status' = [status EXCEPT ![e] = Target(task[t].kind)] /\ wound' = wound
    BY <1>2 DEF WriteStatus, wound, discord, history
  <2>3. CASE task[t].kind = "close"
    <3>1. Target(task[t].kind) = "closed" /\ status[e] = "open"
      BY <2>1, <2>3 DEF Target, Allowed
    <3>2. Lifecycle!Close(e)
      BY <2>2, <3>1 DEF Lifecycle!Close, wound
    <3> QED BY <2>1, <3>2 DEF Lifecycle!Next
  <2>4. CASE task[t].kind # "close"
    <3>1. Target(task[t].kind) \in Terminal /\ status[e] \in Live
      BY <2>1, <2>4 DEF Target, Allowed
    <3>2. Lifecycle!End(e)
      BY <2>1, <2>2, <2>4, <3>1
      DEF Lifecycle!End, Lifecycle!Live, Lifecycle!Terminal, wound
    <3> QED BY <2>1, <3>2 DEF Lifecycle!Next
  <2> QED BY <2>3, <2>4
<1>3. ASSUME NEW e \in Events, status' = status,
             wound' \in {wound, [wound EXCEPT ![e] = TRUE]}
      PROVE  Lifecycle!Next \/ UNCHANGED <<status, wound>>
  BY <1>3 DEF Lifecycle!Next, Lifecycle!WindUp, wound
<1>4. ASSUME NEW t \in Procs, DeleteRole(t)
      PROVE  Lifecycle!Next \/ UNCHANGED <<status, wound>>
  <2>1. task[t].event \in Events
    BY <1>4 DEF DeleteRole, HandlersSound, HandlerSound
  <2> DEFINE e == task[t].event
  <2>2. wound' \in {wound, [wound EXCEPT ![e] = TRUE]}
    <3>1. CASE role' = [role EXCEPT ![e] = "deleted"] /\ refused' = refused
      <4>1. wound' = [wound EXCEPT ![e] = TRUE]
        BY <2>1, <3>1 DEF wound
      <4> QED BY <4>1
    <3>2. CASE role' = role /\ refused' = [refused EXCEPT ![e] = TRUE]
      <4>1. wound' = [wound EXCEPT ![e] = TRUE]
        BY <2>1, <3>2 DEF wound
      <4> QED BY <4>1
    <3>3. CASE role' = role /\ refused' = refused
      BY <3>3 DEF wound
    <3> QED BY <1>4, <3>1, <3>2, <3>3 DEF DeleteRole
  <2>3. status' = status
    BY <1>4 DEF DeleteRole, db
  <2> QED BY <1>3, <2>1, <2>2, <2>3
<1>5. ASSUME NEW e \in Events, RoleDeletedByHand(e)
      PROVE  Lifecycle!Next \/ UNCHANGED <<status, wound>>
  <2>1. wound' \in {wound, [wound EXCEPT ![e] = TRUE]}
    BY <1>5 DEF RoleDeletedByHand, wound, history
  <2> QED BY <1>3, <1>5, <2>1 DEF RoleDeletedByHand, db
<1>6. ASSUME NEW t \in Procs, Step(t)
      PROVE  Lifecycle!Next \/ UNCHANGED <<status, wound>>
  BY <1>1, <1>2, <1>4, <1>6
  DEF Step, wound, db, discord, history, Announce, SetAnnounceMessage, AddSignup, AddRole, RecordGrant, RemoveSignup, RemoveRole, RevokeGrants, QueryGrants, StripRole, DropGrant, CheckStatus, ClearView
<1>7. ASSUME NEW t \in Clickers, Clicked(t)
      PROVE  UNCHANGED <<status, wound>>
  <2>1. ASSUME NEW e \in Events, CreateEventRole(t, e)
        PROVE  UNCHANGED <<status, wound>>
    BY <2>1 DEF CreateEventRole, wound, history
  <2>2. ASSUME NEW e \in Events, NEW m \in Members,
               Signup(t, m, e) \/ Withdraw(t, m, e)
        PROVE  UNCHANGED <<status, wound>>
    BY <2>2 DEF Signup, Withdraw, wound, db, discord, history
  <2>3. ASSUME NEW e \in Events, NEW k \in {"close", "cancel", "teardown"},
               Manage(t, e, k)
        PROVE  UNCHANGED <<status, wound>>
    BY <2>3 DEF Manage, wound, db, discord, history
  <2> QED BY <1>7, <2>1, <2>2, <2>3 DEF Clicked
<1>8. CASE TickerStep \/ TickTeardown \/ TickSkip \/ TickFault \/ Crash
           \/ TimePasses \/ UNCHANGED vars
  BY <1>8 DEF TickerStep, TickStart, SendReminder, MarkReminded, TickFault,
              QueryTeardowns, TickEnd, TickTeardown, TickSkip, Crash,
              TimePasses, vars, wound, db, discord, history
<1> QED BY <1>5, <1>6, <1>7, <1>8 DEF Next

\* While no two handlers work on one event's status at once, the events
\* component implements EventLifecycle: it opens an event once, ends it once,
\* and only after its role is wound up (ImplementsLifecycle).
THEOREM LifecycleImplemented ==
    ASSUME Exclusive PROVE Spec => ImplementsLifecycle
<1>1. Init => Lifecycle!Init
  BY DEF Init, Lifecycle!Init
<1>2. ExclusiveInv /\ [Next]_vars => [Lifecycle!Next]_(Lifecycle!vars)
  BY LifecycleStep DEF Lifecycle!vars, wound
<1> QED
  BY <1>1, <1>2, ExclusiveInvariant, PTL DEF Spec, ImplementsLifecycle, Lifecycle!Spec

\* While no two handlers work on one event's status at once, "done" and
\* "cancelled" are final (TerminalIsFinal).
THEOREM TerminalFinal ==
    ASSUME Exclusive PROVE Spec => TerminalIsFinal
<1>1. ExclusiveInv /\ [Next]_vars =>
         [\A e \in Events : status[e] \in Terminal => status'[e] = status[e]]_vars
  <2> SUFFICES ASSUME ExclusiveInv, [Next]_vars, NEW e \in Events,
                      status[e] \in Terminal
               PROVE  status'[e] = status[e]
    OBVIOUS
  <2>1. CASE UNCHANGED <<status, wound>>
    BY <2>1
  <2>2. CASE Lifecycle!Next
    BY <2>2 DEF Lifecycle!Next, Lifecycle!Open, Lifecycle!Close, Lifecycle!End,
                Lifecycle!WindUp, Lifecycle!Live, ExclusiveInv, RoleInv, TypeOK
  <2> QED BY <2>1, <2>2, LifecycleStep
<1> QED BY <1>1, ExclusiveInvariant, PTL DEF Spec, TerminalIsFinal

-----------------------------------------------------------------------------
\* The account of reminders survives every step: only SendReminder posts, and
\* it posts for an event that is neither reminded nor being marked.  A step
\* that neither posts nor marks leaves the account alone.
LEMMA QuietStep ==
    ASSUME ReminderInv, TypeOK', UNCHANGED <<sent, reminded, due, faults>>,
           NEW t \in Procs, task[t].pc # "mark",
           task'[t].pc \notin {"reminders", "mark"},
           \A u \in Procs \ {t} : task'[u] = task[u]
    PROVE  ReminderInv'
<1>1. Ticker \in Procs
  BY DEF Procs
<1>2. CASE t = Ticker
  BY <1>1, <1>2 DEF ReminderInv
<1>3. CASE t # Ticker
  <2>1. task'[Ticker] = task[Ticker]
    BY <1>1, <1>3
  <2> QED BY <2>1, <1>3 DEF ReminderInv
<1> QED BY <1>2, <1>3

LEMMA ReminderStep ==
    ASSUME ReminderInv, TypeOK', [Next]_vars PROVE ReminderInv'
<1> Ticker \in Procs
  BY DEF Procs
<1>1. task \in [Procs -> Task] /\ sent \in [Events -> Nat] /\ faults \in Nat
      /\ due \subseteq DueRow /\ reminded \in [Events -> BOOLEAN]
  BY DEF ReminderInv, TypeOK
<1>3. ASSUME NEW t \in Clickers, Clicked(t) PROVE ReminderInv'
  <2>1. t \in Procs /\ task[t].pc # "mark"
    BY <1>3, TickerAssumption DEF ReminderInv, Procs
  <2>2. ASSUME NEW e \in Events, CreateEventRole(t, e)
        PROVE  ReminderInv'
    <3>1. /\ UNCHANGED <<sent, reminded, due, faults>>
          /\ task'[t].pc = "insertEvent"
          /\ \A u \in Procs \ {t} : task'[u] = task[u]
      BY <1>1, <2>1, <2>2 DEF CreateEventRole, Click, Started, history
    <3> QED BY <2>1, <3>1, QuietStep
  <2>3. ASSUME NEW e \in Events, NEW m \in Members,
               Signup(t, m, e) \/ Withdraw(t, m, e)
        PROVE  ReminderInv'
    <3>1. /\ UNCHANGED <<sent, reminded, due, faults>>
          /\ task'[t].pc \in {"addSignup", "removeSignup"}
          /\ \A u \in Procs \ {t} : task'[u] = task[u]
      BY <1>1, <2>1, <2>3 DEF Signup, Withdraw, Click, Started, history, db
    <3> QED BY <2>1, <3>1, QuietStep
  <2>4. ASSUME NEW e \in Events, NEW k \in {"close", "cancel", "teardown"},
               Manage(t, e, k)
        PROVE  ReminderInv'
    <3>1. /\ UNCHANGED <<sent, reminded, due, faults>>
          /\ task'[t].pc \in {"check", "queryGrants"}
          /\ \A u \in Procs \ {t} : task'[u] = task[u]
      BY <1>1, <2>1, <2>4 DEF Manage, Click, Started, history, db
    <3> QED BY <2>1, <3>1, QuietStep
  <2> QED BY <1>3, <2>2, <2>3, <2>4 DEF Clicked
<1>4. ASSUME NEW t \in Procs, Step(t) PROVE ReminderInv'
  <2>1. UNCHANGED <<sent, reminded, due, faults>>
    BY <1>4
    DEF Step, InsertEvent, Announce, SetAnnounceMessage, AddSignup, AddRole,
        RecordGrant, RemoveSignup, RemoveRole, RevokeGrants, QueryGrants,
        StripRole, DropGrant, DeleteRole, CheckStatus, WriteStatus, ClearView,
        db, env, history
  <2>2. /\ task[t].pc # "mark"
        /\ task'[t].pc \notin {"reminders", "mark"}
        /\ \A u \in Procs \ {t} : task'[u] = task[u]
    BY <1>1, <1>4
    DEF Step, InsertEvent, Announce, SetAnnounceMessage, AddSignup, AddRole,
        RecordGrant, RemoveSignup, RemoveRole, RevokeGrants, QueryGrants,
        StripRole, DropGrant, DeleteRole, CheckStatus, WriteStatus,
        ClearView, Done, Goto, Finish, Idle, Started, Task
  <2> QED BY <2>1, <2>2, QuietStep
<1>5. CASE TickStart
  <2>1. \A r \in due' : ~reminded'[r.event]
    BY <1>5 DEF TickStart, Snapshot, DueReminder, db
  <2>2. task'[Ticker].pc = "reminders" /\ task[Ticker].pc = "idle"
        /\ \A u \in Procs \ {Ticker} : task'[u] = task[u]
    BY <1>1, <1>5 DEF TickStart, Goto, Task
  <2>3. UNCHANGED <<sent, reminded, faults>>
    BY <1>5 DEF TickStart, db, env, history
  <2> QED BY <2>1, <2>2, <2>3 DEF ReminderInv
<1>6. CASE SendReminder
  <2> PICK r \in due :
        /\ task' = [task EXCEPT ![Ticker].pc = "mark", ![Ticker].event = r.event]
        /\ sent' = [sent EXCEPT ![r.event] = @ + 1] \/ sent' = sent
    BY <1>6 DEF SendReminder
  <2>1. UNCHANGED <<reminded, due, faults>> /\ task[Ticker].pc = "reminders"
    BY <1>6 DEF SendReminder, db, env
  <2>2. r.event \in Events /\ ~reminded[r.event] /\ sent[r.event] <= faults
    BY <2>1 DEF ReminderInv, TypeOK, DueRow
  <2>3. task'[Ticker].pc = "mark" /\ task'[Ticker].event = r.event
        /\ \A t \in Procs : t # Ticker => task'[t] = task[t]
    BY DEF ReminderInv, TypeOK, Task, Procs
  <2>4. \A e \in Events :
          /\ sent'[e] <= 1 + faults'
          /\ ~reminded'[e] /\ e # r.event => sent'[e] <= faults'
    BY <2>1, <2>2 DEF ReminderInv, TypeOK
  <2> QED BY <2>1, <2>3, <2>4 DEF ReminderInv
<1>7. CASE MarkReminded
  <2> DEFINE e == task[Ticker].event
  <2>1. /\ reminded' = [reminded EXCEPT ![e] = TRUE]
        /\ due' = {r \in due : r.event # e}
        /\ task' = [task EXCEPT ![Ticker] = Started("none", Nil, Nil, "reminders")]
        /\ UNCHANGED <<sent, faults>> /\ task[Ticker].pc = "mark"
    BY <1>7 DEF MarkReminded, env, history
  <2>2. task'[Ticker].pc = "reminders"
        /\ \A t \in Procs : t # Ticker => task'[t] = task[t]
    BY <2>1 DEF ReminderInv, TypeOK, Procs, Started
  <2>3. e \in Events
    BY <2>1 DEF ReminderInv, TypeOK, DueRow
  <2> QED BY <1>1, <2>1, <2>2, <2>3 DEF ReminderInv, TypeOK, DueRow
<1>8. CASE QueryTeardowns \/ TickEnd \/ TickTeardown \/ TickSkip
  <2>1. UNCHANGED <<sent, reminded, faults>>
    BY <1>8 DEF QueryTeardowns, TickEnd, TickTeardown, TickSkip, db, env, history
  <2>2. /\ task[Ticker].pc # "mark"
        /\ task'[Ticker].pc \notin {"reminders", "mark"}
        /\ \A t \in Procs : t # Ticker => task'[t] = task[t]
    BY <1>8 DEF QueryTeardowns, TickEnd, TickTeardown, TickSkip, Goto, Finish,
                Idle, Started, ReminderInv, TypeOK, Task, Procs
  <2> QED BY <2>1, <2>2 DEF ReminderInv
<1>9. CASE TickFault \/ Crash
  <2>1. UNCHANGED <<sent, reminded>> /\ faults' = faults + 1
    BY <1>9 DEF TickFault, Crash, db, history
  <2>2. /\ task'[Ticker].pc \notin {"reminders", "mark"}
        /\ \A t \in Procs : task'[t].pc = "mark" => task[t].pc = "mark"
    BY <1>9 DEF TickFault, Crash, Finish, Idle, ReminderInv, TypeOK, Procs
  <2> QED BY <2>1, <2>2 DEF ReminderInv, TypeOK
<1>10. CASE TimePasses \/ UNCHANGED vars \/ \E e \in Events : RoleDeletedByHand(e)
  <2>1. UNCHANGED <<sent, reminded, due, faults, task>>
    BY <1>10 DEF TimePasses, RoleDeletedByHand, vars, memory, db, env, history
  <2> QED BY <2>1 DEF ReminderInv
<1> QED BY <1>3, <1>4, <1>5, <1>6, <1>7, <1>8, <1>9, <1>10 DEF Next, TickerStep

\* An event's reminder is posted at most once more than the ticker was cut
\* short (RemindedOncePerFault).
THEOREM RemindersBounded == Spec => []RemindedOncePerFault
<1>1. Init => ReminderInv
  BY RoleInvInit DEF RoleInv, ReminderInv, Init, Idle, Procs
<1>2. RoleInv' /\ ReminderInv /\ [Next]_vars => ReminderInv'
  BY ReminderStep DEF RoleInv
<1>3. ReminderInv => RemindedOncePerFault
  BY DEF ReminderInv, RemindedOncePerFault
<1> QED BY <1>1, <1>2, <1>3, RoleInvariant, PTL DEF Spec
=============================================================================
