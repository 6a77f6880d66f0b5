------------------------------ MODULE EventCog ------------------------------
(***************************************************************************)
(* The event organiser (cogs/events.py over services/events.py and the     *)
(* event half of services/grants.py) in one guild.                         *)
(*                                                                         *)
(* The bot is one asyncio loop: a handler runs undisturbed between two     *)
(* awaits and any other handler may run at an await.  Every action below   *)
(* is one awaited call, a query that commits itself or a Discord request,  *)
(* with the local code that follows it up to the next await.  What a       *)
(* handler carries across an await is its record in task; a crash or a     *)
(* restart forgets it and keeps the database and Discord as they are.      *)
(***************************************************************************)
EXTENDS Naturals, FiniteSets

CONSTANTS
    Events,     \* rows the events table may come to hold
    Members,    \* guild members who click
    Clickers,   \* interactions that can be in flight together
    Ticker,     \* the event_ticker loop
    Nil,        \* "no event", "no member"
    Lead,       \* _REMINDER_LEAD
    Grace,      \* _TEARDOWN_GRACE
    MaxNow,     \* bound on the clock; every event's grace ends by then
    MaxClicks,  \* bound on interactions
    MaxFaults,  \* bound on crashes and escaped ticker exceptions
    Exclusive   \* TRUE: no two handlers work on one event's status at once

ASSUME TickerAssumption == Ticker \notin Clickers
ASSUME NilAssumption == Nil \notin Events \cup Members
ASSUME BoundsAssumption ==
    /\ {Lead, Grace, MaxNow, MaxClicks, MaxFaults} \subseteq Nat
    /\ Exclusive \in BOOLEAN

VARIABLES
    \* the database
    status, startsAt, announced, reminded,  \* events rows
    signups,                                \* event_signups rows
    grants, nextId,                         \* role_grants rows of kind 'event'
    \* Discord
    role,       \* the "Op: ..." role of each event
    holds,      \* members who hold it
    buttons,    \* the announce message and its SignupView
    \* the bot's memory
    task,       \* what each handler carries across an await
    due, tickNow,  \* event_ticker's snapshot of rows and of the time
    \* the environment, its bounds, and history
    now, clicks, faults,
    refused,    \* Discord refused to delete the event's role
    sent        \* reminders posted

db == <<status, startsAt, announced, reminded, signups, grants, nextId>>
discord == <<role, holds, buttons>>
memory == <<task, due, tickNow>>
env == <<now, clicks, faults>>
history == <<refused, sent>>
vars == <<db, discord, memory, env, history>>

-----------------------------------------------------------------------------
Live == {"open", "closed"}
Terminal == {"done", "cancelled"}
Statuses == Live \cup Terminal

Procs == Clickers \cup {Ticker}
Grant == [id : Nat, event : Events, member : Members]
DueRow == [event : Events, announced : BOOLEAN]

Kinds == {"none", "create", "signup", "withdraw",
          "close", "cancel", "teardown", "tick"}
PCs == {"idle", "insertEvent", "announce", "setAnnounce",
        "addSignup", "addRole", "recordGrant",
        "removeSignup", "removeRole", "revokeGrants",
        "queryGrants", "strip", "drop", "check", "write", "refresh",
        "reminders", "mark", "teardowns"}
Task == [pc : PCs, kind : Kinds, event : Events \cup {Nil},
         member : Members \cup {Nil}, todo : SUBSET Grant]

Idle == [pc |-> "idle", kind |-> "none", event |-> Nil, member |-> Nil,
         todo |-> {}]

Started(kind, e, m, pc) ==
    [pc |-> pc, kind |-> kind, event |-> e, member |-> m, todo |-> {}]

Goto(t, pc) == task' = [task EXCEPT ![t].pc = pc]
Finish(t) == task' = [task EXCEPT ![t] = Idle]

\* Mutant of Allowed: a torn-down event can still be cancelled.
AllowedAfterDone(s) == CASE s = "open" -> {"closed", "done", "cancelled"}
                         [] s \in {"closed", "done"} -> {"done", "cancelled"}
                         [] OTHER -> {}

\* _ALLOWED_TRANSITIONS
Allowed(s) == CASE s = "open" -> {"closed", "done", "cancelled"}
                [] s = "closed" -> {"done", "cancelled"}
                [] OTHER -> {}

\* The status a handler asks set_status for.
Target(kind) == CASE kind = "close" -> "closed"
                  [] kind = "cancel" -> "cancelled"
                  [] OTHER -> "done"

StatusKinds == {"close", "cancel", "teardown", "tick"}

\* Some handler is between its start and its last write to e's status.
Busy(e) == \E t \in Procs : task[t].event = e /\ task[t].kind \in StatusKinds

\* events_due_reminder and events_due_teardown
DueReminder(n) ==
    {e \in Events : /\ status[e] \in Live
                    /\ ~reminded[e]
                    /\ n < startsAt[e] /\ startsAt[e] <= n + Lead}
\* Mutant of DueTeardown: forgets the events whose signups were closed.
DueTeardownOpenOnly(n) ==
    {e \in Events : status[e] = "open" /\ startsAt[e] + Grace <= n}

DueTeardown(n) ==
    {e \in Events : status[e] \in Live /\ startsAt[e] + Grace <= n}

Snapshot(S) == {[event |-> e, announced |-> announced[e]] : e \in S}

\* The ticker walks its snapshot in ORDER BY starts_at.
IsNext(r) == r \in due /\ \A d \in due : startsAt[r.event] <= startsAt[d.event]

\* The row a release works on: a query returns them by row id.
FirstOf(todo) == CHOOSE g \in todo : \A h \in todo : g.id <= h.id

-----------------------------------------------------------------------------
Init ==
    /\ status = [e \in Events |-> "absent"]
    /\ startsAt = [e \in Events |-> 0]
    /\ announced = [e \in Events |-> FALSE]
    /\ reminded = [e \in Events |-> FALSE]
    /\ signups = [e \in Events |-> {}]
    /\ grants = {} /\ nextId = 1
    /\ role = [e \in Events |-> "none"]
    /\ holds = [e \in Events |-> {}]
    /\ buttons = [e \in Events |-> "none"]
    /\ task = [t \in Procs |-> Idle]
    /\ due = {} /\ tickNow = 0
    /\ now = 0 /\ clicks = 0 /\ faults = 0
    /\ refused = [e \in Events |-> FALSE]
    /\ sent = [e \in Events |-> 0]

\* An interaction reaches a free handler.
Click(t) ==
    /\ t \in Clickers /\ task[t] = Idle
    /\ clicks < MaxClicks /\ clicks' = clicks + 1
    /\ UNCHANGED <<now, faults, due, tickNow>>

-----------------------------------------------------------------------------
(***************************************************************************)
(* Creating an event: create_role, create_event, channel.send,             *)
(* set_announce_message.  A start that does not parse, a missing           *)
(* permission or a refused create_role changes nothing.                    *)
(***************************************************************************)
\* The row's starts_at is fixed here and stored by InsertEvent.
CreateEventRole(t, e) ==
    /\ Click(t)
    /\ status[e] = "absent" /\ role[e] = "none"
    /\ \E s \in now + 1 .. MaxNow - Grace : startsAt' = [startsAt EXCEPT ![e] = s]
    /\ role' = [role EXCEPT ![e] = "live"]
    /\ task' = [task EXCEPT ![t] = Started("create", e, Nil, "insertEvent")]
    /\ UNCHANGED <<status, announced, reminded, signups, grants, nextId,
                   holds, buttons, history>>

InsertEvent(t) ==
    LET e == task[t].event IN
    /\ task[t].pc = "insertEvent"
    /\ status' = [status EXCEPT ![e] = "open"]
    /\ Goto(t, "announce")
    /\ UNCHANGED <<startsAt, announced, reminded, signups, grants, nextId,
                   discord, due, tickNow, env, history>>

\* A refused send leaves the open event without an announcement.
Announce(t) ==
    LET e == task[t].event IN
    /\ task[t].pc = "announce"
    /\ \/ /\ buttons' = [buttons EXCEPT ![e] = "live"]
          /\ Goto(t, "setAnnounce")
       \/ Finish(t) /\ UNCHANGED buttons
    /\ UNCHANGED <<db, role, holds, due, tickNow, env, history>>

SetAnnounceMessage(t) ==
    LET e == task[t].event IN
    /\ task[t].pc = "setAnnounce"
    /\ announced' = [announced EXCEPT ![e] = TRUE]
    /\ Finish(t)
    /\ UNCHANGED <<status, startsAt, reminded, signups, grants, nextId,
                   discord, due, tickNow, env, history>>

-----------------------------------------------------------------------------
(***************************************************************************)
(* Sign up: look the event up by its message, require it open, add_signup, *)
(* add_roles, record_grant.  Only Forbidden is caught around the last two; *)
(* any other failure ends the handler where it stands.                     *)
(***************************************************************************)
Signup(t, m, e) ==
    /\ Click(t)
    /\ buttons[e] = "live" /\ announced[e] /\ status[e] = "open"
    /\ task' = [task EXCEPT ![t] = Started("signup", e, m, "addSignup")]
    /\ UNCHANGED <<db, discord, history>>

AddSignup(t) ==
    LET e == task[t].event  m == task[t].member IN
    /\ task[t].pc = "addSignup"
    /\ signups' = [signups EXCEPT ![e] = @ \cup {m}]
    /\ IF m \notin signups[e] /\ role[e] = "live"
       THEN Goto(t, "addRole")
       ELSE Finish(t)
    /\ UNCHANGED <<status, startsAt, announced, reminded, grants, nextId,
                   discord, due, tickNow, env, history>>

AddRole(t) ==
    LET e == task[t].event  m == task[t].member IN
    /\ task[t].pc = "addRole"
    /\ \/ /\ role[e] = "live"
          /\ holds' = [holds EXCEPT ![e] = @ \cup {m}]
          /\ Goto(t, "recordGrant")
       \/ Finish(t) /\ UNCHANGED holds
    /\ UNCHANGED <<db, role, buttons, due, tickNow, env, history>>

RecordGrant(t) ==
    LET e == task[t].event  m == task[t].member IN
    /\ task[t].pc = "recordGrant"
    /\ grants' = grants \cup {[id |-> nextId, event |-> e, member |-> m]}
    /\ nextId' = nextId + 1
    /\ Finish(t)
    /\ UNCHANGED <<status, startsAt, announced, reminded, signups,
                   discord, due, tickNow, env, history>>

-----------------------------------------------------------------------------
(***************************************************************************)
(* Withdraw: remove_signup, remove_roles, revoke_grant.  The event's       *)
(* status is not looked at; a Forbidden is logged and the rows go anyway.  *)
(***************************************************************************)
Withdraw(t, m, e) ==
    /\ Click(t)
    /\ buttons[e] = "live" /\ announced[e]
    /\ task' = [task EXCEPT ![t] = Started("withdraw", e, m, "removeSignup")]
    /\ UNCHANGED <<db, discord, history>>

RemoveSignup(t) ==
    LET e == task[t].event  m == task[t].member IN
    /\ task[t].pc = "removeSignup"
    /\ signups' = [signups EXCEPT ![e] = @ \ {m}]
    /\ IF m \notin signups[e] THEN Finish(t)
       ELSE Goto(t, IF role[e] = "live" THEN "removeRole" ELSE "revokeGrants")
    /\ UNCHANGED <<status, startsAt, announced, reminded, grants, nextId,
                   discord, due, tickNow, env, history>>

RemoveRole(t) ==
    LET e == task[t].event  m == task[t].member IN
    /\ task[t].pc = "removeRole"
    /\ \/ /\ role[e] = "live"
          /\ holds' = [holds EXCEPT ![e] = @ \ {m}]
          /\ Goto(t, "revokeGrants")
       \/ /\ role[e] = "live"                   \* Forbidden
          /\ Goto(t, "revokeGrants") /\ UNCHANGED holds
       \/ Finish(t) /\ UNCHANGED holds          \* any other refusal
    /\ UNCHANGED <<db, role, buttons, due, tickNow, env, history>>

RevokeGrants(t) ==
    LET e == task[t].event  m == task[t].member IN
    /\ task[t].pc = "revokeGrants"
    /\ grants' = {g \in grants : ~(g.event = e /\ g.member = m)}
    /\ Finish(t)
    /\ UNCHANGED <<status, startsAt, announced, reminded, signups, nextId,
                   discord, due, tickNow, env, history>>

-----------------------------------------------------------------------------
(***************************************************************************)
(* close, cancel and teardown, from the manage panel or the /admin         *)
(* fallbacks: any stored event can be named, whatever its status.  cancel  *)
(* and teardown release the event's grants before they touch the status.   *)
(***************************************************************************)

\* Mutant of Manage: the status is set and nothing is released first.
ManageStatusOnly(t, e, kind) ==
    /\ Click(t)
    /\ status[e] # "absent"
    /\ Exclusive => ~Busy(e)
    /\ task' = [task EXCEPT ![t] = Started(kind, e, Nil, "check")]
    /\ UNCHANGED <<db, discord, history>>

Manage(t, e, kind) ==
    /\ Click(t)
    /\ status[e] # "absent"
    /\ Exclusive => ~Busy(e)
    /\ task' = [task EXCEPT ![t] =
                   Started(kind, e, Nil,
                           IF kind = "close" THEN "check" ELSE "queryGrants")]
    /\ UNCHANGED <<db, discord, history>>

\* _release_event_grants, from its query to the deletion of the role
QueryGrants(t) ==
    /\ task[t].pc = "queryGrants"
    /\ task' = [task EXCEPT ![t].pc = "strip",
                            ![t].todo = {g \in grants : g.event = task[t].event}]
    /\ UNCHANGED <<db, discord, due, tickNow, env, history>>

\* A member or role that is not cached and a refused request both move on.
StripRole(t) ==
    LET e == task[t].event IN
    /\ task[t].pc = "strip" /\ task[t].todo # {}
    /\ \/ holds' = [holds EXCEPT ![e] = @ \ {FirstOf(task[t].todo).member}]
       \/ UNCHANGED holds
    /\ Goto(t, "drop")
    /\ UNCHANGED <<db, role, buttons, due, tickNow, env, history>>

DropGrant(t) ==
    LET g == FirstOf(task[t].todo) IN
    /\ task[t].pc = "drop"
    /\ grants' = {h \in grants : h.id # g.id}
    /\ task' = [task EXCEPT ![t].pc = "strip", ![t].todo = @ \ {g}]
    /\ UNCHANGED <<status, startsAt, announced, reminded, signups, nextId,
                   discord, due, tickNow, env, history>>

DeleteRole(t) ==
    LET e == task[t].event IN
    /\ task[t].pc = "strip" /\ task[t].todo = {}
    /\ \/ /\ role[e] = "live"
          /\ role' = [role EXCEPT ![e] = "deleted"]
          /\ holds' = [holds EXCEPT ![e] = {}]
          /\ UNCHANGED refused
       \/ /\ role[e] = "live"
          /\ refused' = [refused EXCEPT ![e] = TRUE]
          /\ UNCHANGED <<role, holds>>
       \/ role[e] # "live" /\ UNCHANGED <<role, holds, refused>>
    /\ Goto(t, "check")
    /\ UNCHANGED <<db, buttons, due, tickNow, env, sent>>

\* The handler is through with its event; the ticker goes on to its next.
Done(t) ==
    task' = [task EXCEPT ![t] = IF t = Ticker
                                THEN Started("none", Nil, Nil, "teardowns")
                                ELSE Idle]

\* set_status reads the row and checks the transition ...
CheckStatus(t) ==
    LET e == task[t].event IN
    /\ task[t].pc = "check"
    /\ \/ /\ Target(task[t].kind) \in Allowed(status[e])
          /\ Goto(t, "write")
       \/ /\ Target(task[t].kind) \notin Allowed(status[e])
          /\ IF task[t].kind \in {"close", "cancel"}
             THEN Finish(t)           \* ValueError, declined
             ELSE Goto(t, "refresh")  \* ValueError swallowed by _teardown
    /\ UNCHANGED <<db, discord, due, tickNow, env, history>>

\* Mutant of WriteStatus: writes the name of the command, not the status.
WriteCommand(t) ==
    LET e == task[t].event IN
    /\ task[t].pc = "write"
    /\ status' = [status EXCEPT ![e] = task[t].kind]
    /\ IF task[t].kind = "close" THEN Finish(t) ELSE Goto(t, "refresh")
    /\ UNCHANGED <<startsAt, announced, reminded, signups, grants, nextId,
                   discord, due, tickNow, env, history>>

\* ... and writes it, whatever the row says by then.
WriteStatus(t) ==
    LET e == task[t].event IN
    /\ task[t].pc = "write"
    /\ status' = [status EXCEPT ![e] = Target(task[t].kind)]
    /\ IF task[t].kind = "close" THEN Finish(t) ELSE Goto(t, "refresh")
    /\ UNCHANGED <<startsAt, announced, reminded, signups, grants, nextId,
                   discord, due, tickNow, env, history>>

\* _refresh_message(clear_view=True) takes the buttons off, if it gets through.
ClearView(t) ==
    LET e == task[t].event IN
    /\ task[t].pc = "refresh"
    /\ \/ announced[e] /\ buttons' = [buttons EXCEPT ![e] = "cleared"]
       \/ UNCHANGED buttons
    /\ Done(t)
    /\ UNCHANGED <<db, role, holds, due, tickNow, env, history>>

-----------------------------------------------------------------------------
(***************************************************************************)
(* event_ticker: reminders for the rows due, each marked whether or not it *)
(* was delivered, then a teardown of each live event a grace past start.   *)
(***************************************************************************)
TickStart ==
    /\ task[Ticker].pc = "idle"
    /\ due' = Snapshot(DueReminder(now))
    /\ tickNow' = now
    /\ Goto(Ticker, "reminders")
    /\ UNCHANGED <<db, discord, env, history>>

SendReminder ==
    /\ task[Ticker].pc = "reminders"
    /\ \E r \in due :
          /\ IsNext(r)
          /\ task' = [task EXCEPT ![Ticker].pc = "mark",
                                  ![Ticker].event = r.event]
          /\ \/ r.announced /\ sent' = [sent EXCEPT ![r.event] = @ + 1]
             \/ UNCHANGED sent
    /\ UNCHANGED <<db, discord, due, tickNow, env, refused>>

\* Mutant of MarkReminded: goes on without setting reminded.
MarkNothing ==
    LET e == task[Ticker].event IN
    /\ task[Ticker].pc = "mark"
    /\ due' = {r \in due : r.event # e}
    /\ task' = [task EXCEPT ![Ticker] = Started("none", Nil, Nil, "reminders")]
    /\ UNCHANGED <<db, discord, tickNow, env, history>>

MarkReminded ==
    LET e == task[Ticker].event IN
    /\ task[Ticker].pc = "mark"
    /\ reminded' = [reminded EXCEPT ![e] = TRUE]
    /\ due' = {r \in due : r.event # e}
    /\ task' = [task EXCEPT ![Ticker] = Started("none", Nil, Nil, "reminders")]
    /\ UNCHANGED <<status, startsAt, announced, signups, grants, nextId,
                   discord, tickNow, env, history>>

QueryTeardowns ==
    /\ task[Ticker].pc = "reminders" /\ due = {}
    /\ due' = Snapshot(DueTeardown(tickNow))
    /\ tickNow' = 0                        \* not read again
    /\ Goto(Ticker, "teardowns")
    /\ UNCHANGED <<db, discord, env, history>>

TickTeardown ==
    /\ task[Ticker].pc = "teardowns"
    /\ \E r \in due :
          /\ IsNext(r)
          /\ Exclusive => ~Busy(r.event)
          /\ due' = due \ {r}
          /\ task' = [task EXCEPT ![Ticker] =
                         Started("tick", r.event, Nil, "queryGrants")]
    /\ UNCHANGED <<db, discord, tickNow, env, history>>

\* The guild is not cached: this event waits for a later tick.
TickSkip ==
    /\ task[Ticker].pc = "teardowns"
    /\ \E r \in due : IsNext(r) /\ due' = due \ {r}
    /\ UNCHANGED <<db, discord, task, tickNow, env, history>>

TickEnd ==
    /\ task[Ticker].pc = "teardowns" /\ due = {}
    /\ Finish(Ticker)
    /\ UNCHANGED <<db, discord, due, tickNow, env, history>>

\* An exception escapes the loop body; on_event_ticker_error restarts it.
TickFault ==
    /\ task[Ticker].pc # "idle"
    /\ faults < MaxFaults /\ faults' = faults + 1
    /\ Finish(Ticker)
    /\ due' = {} /\ tickNow' = 0
    /\ UNCHANGED <<db, discord, now, clicks, history>>

-----------------------------------------------------------------------------
\* The process dies or is restarted by an update; handlers are forgotten.
Crash ==
    /\ faults < MaxFaults /\ faults' = faults + 1
    /\ task' = [t \in Procs |-> Idle]
    /\ due' = {} /\ tickNow' = 0
    /\ UNCHANGED <<db, discord, now, clicks, history>>

\* Somebody deletes the event's role by hand in Discord.
RoleDeletedByHand(e) ==
    /\ role[e] = "live"
    /\ role' = [role EXCEPT ![e] = "deleted"]
    /\ holds' = [holds EXCEPT ![e] = {}]
    /\ UNCHANGED <<db, buttons, memory, env, history>>

TimePasses ==
    /\ now < MaxNow /\ now' = now + 1
    /\ UNCHANGED <<db, discord, memory, clicks, faults, history>>

Clicked(t) ==
    \E e \in Events :
       \/ CreateEventRole(t, e)
       \/ \E m \in Members : Signup(t, m, e) \/ Withdraw(t, m, e)
       \/ \E kind \in {"close", "cancel", "teardown"} : Manage(t, e, kind)

\* The next await of a handler in flight.
Step(t) ==
    \/ InsertEvent(t) \/ Announce(t) \/ SetAnnounceMessage(t)
    \/ AddSignup(t) \/ AddRole(t) \/ RecordGrant(t)
    \/ RemoveSignup(t) \/ RemoveRole(t) \/ RevokeGrants(t)
    \/ QueryGrants(t) \/ StripRole(t) \/ DropGrant(t) \/ DeleteRole(t)
    \/ CheckStatus(t) \/ WriteStatus(t) \/ ClearView(t)

TickerStep ==
    TickStart \/ SendReminder \/ MarkReminded \/ QueryTeardowns \/ TickEnd

Next ==
    \/ \E t \in Clickers : Clicked(t)
    \/ \E t \in Procs : Step(t)
    \/ TickerStep \/ TickTeardown \/ TickSkip \/ TickFault
    \/ Crash \/ TimePasses
    \/ \E e \in Events : RoleDeletedByHand(e)

Spec == Init /\ [][Next]_vars

(***************************************************************************)
(* Fairness.  asyncio resumes every handler whose call has returned, the   *)
(* loop runs again after every interval and after every restart, and time  *)
(* passes.  A guild is not missing from the cache on every tick, hence     *)
(* strong fairness on the teardown of a due event.  Nobody has to click.   *)
(***************************************************************************)
Fairness ==
    /\ \A t \in Procs : WF_vars(Step(t))
    /\ WF_vars(TickerStep)
    /\ SF_vars(TickTeardown)
    /\ WF_vars(TickSkip)
    /\ WF_vars(TimePasses)

FairSpec == Spec /\ Fairness

-----------------------------------------------------------------------------
TypeOK ==
    /\ status \in [Events -> Statuses \cup {"absent"}]
    /\ startsAt \in [Events -> Nat]
    /\ announced \in [Events -> BOOLEAN]
    /\ reminded \in [Events -> BOOLEAN]
    /\ signups \in [Events -> SUBSET Members]
    /\ grants \in SUBSET Grant
    /\ nextId \in Nat
    /\ role \in [Events -> {"none", "live", "deleted"}]
    /\ holds \in [Events -> SUBSET Members]
    /\ buttons \in [Events -> {"none", "live", "cleared"}]
    /\ task \in [Procs -> Task]
    /\ due \in SUBSET DueRow
    /\ tickNow \in Nat /\ now \in Nat /\ clicks \in Nat /\ faults \in Nat
    /\ refused \in [Events -> BOOLEAN]
    /\ sent \in [Events -> Nat]

-----------------------------------------------------------------------------
(***************************************************************************)
(* The inductive invariant behind the safety properties, in named parts.   *)
(***************************************************************************)
WoundUp(e) == role[e] = "deleted" \/ refused[e]

SignupPCs == {"addSignup", "addRole", "recordGrant",
              "removeSignup", "removeRole", "revokeGrants"}
StatusPCs == {"queryGrants", "strip", "drop", "check", "write", "refresh"}

\* What a handler's record h says of the rows it is about to touch.
HandlerSound(h) ==
    /\ h.pc \notin {"idle", "reminders", "teardowns"} => h.event \in Events
    /\ h.pc \in SignupPCs => h.member \in Members
    /\ h.pc \in StatusPCs <=> h.kind \in StatusKinds
    /\ h.pc = "insertEvent" =>
          status[h.event] = "absent" /\ role[h.event] # "none"
    /\ h.kind \in StatusKinds =>
          h.event \in Events /\ status[h.event] # "absent"
    \* A handler that is about to end an event has wound its role up.
    /\ h.pc \in {"check", "write"} /\ h.kind # "close" => WoundUp(h.event)

HandlersSound == \A t \in Procs : HandlerSound(task[t])

\* No two handlers create the same event.
OneCreator ==
    \A t, u \in Procs :
        /\ task[t].pc = "insertEvent" /\ task[u].pc = "insertEvent"
        /\ task[t].event = task[u].event
        => t = u

RolesSound ==
    \A e \in Events :
        /\ role[e] # "live" => holds[e] = {}
        /\ status[e] # "absent" => role[e] # "none"
        /\ status[e] \in Terminal => WoundUp(e)

DueStored == \A r \in due : status[r.event] # "absent"

RoleInv == TypeOK /\ HandlersSound /\ OneCreator /\ RolesSound /\ DueStored

\* Under Exclusive: one handler at a time on an event's status, so what
\* CheckStatus found still holds when WriteStatus writes.
OneWriter ==
    \A t, u \in Procs :
        /\ task[t].kind \in StatusKinds /\ task[u].kind \in StatusKinds
        /\ task[t].event = task[u].event
        => t = u

ChecksHold ==
    \A t \in Procs :
        task[t].pc = "write" =>
            Target(task[t].kind) \in Allowed(status[task[t].event])

ExclusiveInv == RoleInv /\ (Exclusive => OneWriter /\ ChecksHold)

\* The ticker's account of reminders.
ReminderInv ==
    /\ TypeOK
    /\ task[Ticker].pc \in {"reminders", "mark"} =>
          \A r \in due : ~reminded[r.event]
    /\ task[Ticker].pc = "mark" =>
          \E r \in due : r.event = task[Ticker].event
    /\ \A t \in Procs : task[t].pc = "mark" => t = Ticker
    /\ \A e \in Events :
          /\ sent[e] <= 1 + faults
          /\ ~reminded[e]
             /\ ~(task[Ticker].pc = "mark" /\ task[Ticker].event = e)
                => sent[e] <= faults

-----------------------------------------------------------------------------
\* An event whose status says "done" or "cancelled" leaves nobody holding its
\* role: the release comes before set_status, so the role is gone, unless
\* Discord refused to delete it, which _release_event_grants only logs.
EndedEventHoldsNobody ==
    \A e \in Events :
        status[e] \in Terminal /\ ~refused[e] => holds[e] = {}

\* A reminder is repeated only when a crash or an escaped exception came
\* between the post and mark_reminded: the ticker never posts one twice by
\* itself, however its snapshots overlap the rest (event_ticker).
RemindedOncePerFault ==
    \A e \in Events : sent[e] <= 1 + faults

\* "cancelled ... is terminal, same as done" (services/events.py): no handler
\* takes an event out of a terminal status, or to another one.
TerminalIsFinal ==
    [][\A e \in Events : status[e] \in Terminal => status'[e] = status[e]]_vars

\* "event (bound to an event id, removed at teardown)": once everything has
\* come to rest, an ended event has no grant row left.
GrantsRemovedAtTeardown ==
    (\A t \in Procs : task[t] = Idle) =>
        \A g \in grants : status[g.event] \notin Terminal

\* "Ask Discord first, change the record second": no step deletes the last
\* record of a role that its member still holds.
ForgottenOnlyAfterRemoval ==
    [][\A g \in grants :
          \/ \E h \in grants' : h.event = g.event /\ h.member = g.member
          \/ g.member \notin holds[g.event]]_vars

\* Every event that opens ends, and in the end stays ended, whatever its
\* organisers do and whether its creation was cut short or its ticker failed
\* (event_ticker, on_event_ticker_error).
EventsEndForGood ==
    \A e \in Events : status[e] \in Live ~> [](status[e] \in Terminal)

\* The lifecycle as the abstract specification promises it.
Lifecycle == INSTANCE EventLifecycle WITH
                 stage <- status,
                 woundUp <- [e \in Events |-> role[e] = "deleted" \/ refused[e]]
ImplementsLifecycle == Lifecycle!Spec
=============================================================================
