------------------------------- MODULE Teams -------------------------------
(***************************************************************************)
(* Teams (cogs/teams.py) and what a guild's teardown does to them          *)
(* (_teardown in cogs/setup.py).                                           *)
(*                                                                         *)
(* A team is a role and a locked category with two channels on Discord,    *)
(* and one row of the table teams that names the role and the category.    *)
(* Creating, disbanding and tearing down are sequences of awaited calls to *)
(* Discord that end in one statement on the table, so that the handlers of *)
(* two admins interleave at every call; a handler here is a record with    *)
(* the kinds of object it still has to make or to delete.                  *)
(*                                                                         *)
(* A build numbers the objects made by one create; it stands for their     *)
(* Discord ids, and a row for its AUTOINCREMENT id, neither of which is    *)
(* ever used twice.  The guild's channel and role cache is taken to be up  *)
(* to date when a handler reads it.  Two of a kind of failure are told     *)
(* apart, as in the code: Forbidden, and every other HTTPException, among  *)
(* them NotFound for what is deleted already.  Who is in a team (_assign,  *)
(* _remove) changes neither the table nor the objects and is left out; the *)
(* ladder's roles, which _teardown deletes as well, are in module Ladder.  *)
(***************************************************************************)
EXTENDS Naturals, FiniteSets

CONSTANTS
    Handlers,      \* interactions that may be in flight at once
    Names,         \* the names admins give teams
    Nil,           \* no name
    MaxBuilds,     \* bound on creates that reach Discord
    MaxFaults,     \* bound on refusals, crashes and deletions by hand
    MaxTeardowns   \* bound on teardowns of the guild

ASSUME BoundsAssumption ==
    /\ MaxBuilds \in Nat /\ MaxFaults \in Nat /\ MaxTeardowns \in Nat
    /\ Nil \notin Names

VARIABLES
    guild,      \* whether the guild has its row, which the teams' rows refer to
    rows,       \* the table teams
    live,       \* what is on Discord: <<build, kind>>
    task,       \* what each handler is doing
    builds,     \* how many creates have reached Discord
    lost,       \* history: builds the code has given up, see BuiltIsTracked
    faults, teardowns   \* what the bounds count

vars == <<guild, rows, live, task, builds, lost, faults, teardowns>>

Kinds == {"role", "category", "chat", "voice"}

Row == [name : Names, build : Nat]

\* The order build_team makes them in, and the one _disband_team deletes in.
BuildPlace == [role |-> 1, category |-> 2, chat |-> 3, voice |-> 4]
DisbandPlace == [chat |-> 1, voice |-> 2, category |-> 3, role |-> 4]

NextToBuild(k, S) == k \in S /\ \A j \in S : BuildPlace[k] <= BuildPlace[j]
NextToRollBack(k, S) == k \in S /\ \A j \in S : BuildPlace[j] <= BuildPlace[k]

NextToDisband(k, S) == k \in S /\ \A j \in S : DisbandPlace[k] <= DisbandPlace[j]

\* pc: build, insert and rollback belong to create; asked and disband to
\* _disband; teardown and erase to _teardown, which goes through the rows it
\* has read, todo, and counts what it has removed, done.
Task == [pc : {"idle", "build", "insert", "rollback", "asked", "disband",
               "teardown", "erase"},
         row : Row \cup {Nil}, left : SUBSET Kinds,
         todo : SUBSET Row, done : SUBSET Row]

Job(pc, r, S, todo) ==
    [pc |-> pc, row |-> r, left |-> S, todo |-> todo, done |-> {}]

Idle == Job("idle", Nil, {}, {})

Making == {"build", "insert", "rollback"}

Of(b) == {k \in Kinds : <<b, k>> \in live}

\* Mutant of Seen: the role is not looked up.
SeenChannels(b) == {k \in Of(b) : k # "role" /\ "category" \in Of(b)}

\* What the handlers see of a team in the guild's cache: the role by its id,
\* the channels through the category.
Seen(b) ==
    {k \in Of(b) : k = "role" \/ "category" \in Of(b)}

Init ==
    /\ guild = TRUE /\ rows = {} /\ live = {}
    /\ task = [t \in Handlers |-> Idle]
    /\ builds = 0 /\ lost = {} /\ faults = 0 /\ teardowns = 0

Starts(t, pc, r, S, todo) ==
    task' = [task EXCEPT ![t] = Job(pc, r, S, todo)]
Leaves(t) == task' = [task EXCEPT ![t] = Idle]
Fault == faults < MaxFaults /\ faults' = faults + 1
Bounded == UNCHANGED <<builds, teardowns>>

-----------------------------------------------------------------------------
(***************************************************************************)
(* /team <name>: build_team, the row, _rollback                            *)
(***************************************************************************)
Create(t, n) ==
    /\ task[t].pc = "idle"
    /\ \A r \in rows : r.name # n
    /\ builds < MaxBuilds /\ builds' = builds + 1
    /\ Starts(t, "build", [name |-> n, build |-> builds + 1], Kinds, {})
    /\ UNCHANGED <<guild, rows, live, lost, faults, teardowns>>

Build(t, k) ==
    LET b == task[t].row.build IN
    /\ task[t].pc = "build" /\ NextToBuild(k, task[t].left)
    /\ k \in {"chat", "voice"} => "category" \in Of(b)
    /\ live' = live \cup {<<b, k>>}
    /\ task' = [task EXCEPT ![t].left = @ \ {k},
                            ![t].pc = IF task[t].left = {k} THEN "insert" ELSE @]
    /\ UNCHANGED <<guild, rows, lost, faults>> /\ Bounded

\* Rolling back starts from what was built.
RollsBack(t) ==
    task' = [task EXCEPT ![t].pc = "rollback", ![t].left = Kinds \ @]

\* Any HTTPException: a refusal, a limit, or a category that has been deleted.
BuildFails(t, k) ==
    /\ task[t].pc = "build" /\ NextToBuild(k, task[t].left)
    /\ \/ Fault
       \/ /\ k \in {"chat", "voice"} /\ "category" \notin Of(task[t].row.build)
          /\ UNCHANGED faults
    /\ RollsBack(t)
    /\ UNCHANGED <<guild, rows, live, lost>> /\ Bounded

Insert(t) ==
    /\ task[t].pc = "insert" /\ guild
    /\ rows' = rows \cup {task[t].row}
    /\ Leaves(t)
    /\ UNCHANGED <<guild, live, lost, faults>> /\ Bounded

\* Mutant of InsertFails: sqlite3.Error is not caught.
InsertFailsUncaught(t) ==
    /\ task[t].pc = "insert" /\ ~guild
    /\ Leaves(t)
    /\ UNCHANGED <<guild, rows, live, lost, faults>> /\ Bounded

\* sqlite3.IntegrityError: a teardown has deleted the guild's row.
InsertFails(t) ==
    /\ task[t].pc = "insert" /\ ~guild
    /\ RollsBack(t)
    /\ UNCHANGED <<guild, rows, live, lost, faults>> /\ Bounded

\* What has been deleted by somebody else is skipped like what is refused.
RollBack(t, k) ==
    LET b == task[t].row.build IN
    /\ task[t].pc = "rollback" /\ NextToRollBack(k, task[t].left)
    /\ task' = [task EXCEPT ![t].left = @ \ {k}]
    /\ \/ live' = live \ {<<b, k>>} /\ UNCHANGED <<lost, faults>>
       \/ Fault /\ lost' = lost \cup {b} /\ UNCHANGED live
    /\ UNCHANGED <<guild, rows>> /\ Bounded

RolledBack(t) ==
    /\ task[t].pc = "rollback" /\ task[t].left = {}
    /\ Leaves(t)
    /\ UNCHANGED <<guild, rows, live, lost, faults>> /\ Bounded

-----------------------------------------------------------------------------
(***************************************************************************)
(* Disbanding: the row is read, and its button pressed while the view is   *)
(* up, or not; with confirm: True nothing has to be pressed                *)
(***************************************************************************)
Ask(t, r) ==
    /\ task[t].pc = "idle" /\ r \in rows
    /\ Starts(t, "asked", r, {}, {})
    /\ UNCHANGED <<guild, rows, live, lost, faults>> /\ Bounded

Cancel(t) ==
    /\ task[t].pc = "asked" /\ Leaves(t)
    /\ UNCHANGED <<guild, rows, live, lost, faults>> /\ Bounded

Confirm(t) ==
    /\ task[t].pc = "asked"
    /\ task' = [task EXCEPT ![t].pc = "disband", ![t].left = Seen(task[t].row.build)]
    /\ UNCHANGED <<guild, rows, live, lost, faults>> /\ Bounded

Delete(t, k) ==
    LET b == task[t].row.build IN
    /\ task[t].pc = "disband" /\ NextToDisband(k, task[t].left)
    /\ <<b, k>> \in live /\ live' = live \ {<<b, k>>}
    /\ task' = [task EXCEPT ![t].left = @ \ {k}]
    /\ UNCHANGED <<guild, rows, lost, faults>> /\ Bounded

\* Forbidden is reported, NotFound and the others escape; the row stays.
DeleteFails(t, k) ==
    /\ task[t].pc = "disband" /\ NextToDisband(k, task[t].left)
    /\ \/ Fault
       \/ <<task[t].row.build, k>> \notin live /\ UNCHANGED faults
    /\ Leaves(t)
    /\ UNCHANGED <<guild, rows, live, lost>> /\ Bounded

Drop(t) ==
    /\ task[t].pc = "disband" /\ task[t].left = {}
    /\ rows' = rows \ {task[t].row}
    /\ Leaves(t)
    /\ UNCHANGED <<guild, live, lost, faults>> /\ Bounded

-----------------------------------------------------------------------------
(***************************************************************************)
(* The guild's teardown                                                    *)
(***************************************************************************)
\* Mutant of Teardown: the query selects the names alone.
TeardownNames(t) ==
    /\ task[t].pc = "idle"
    /\ teardowns < MaxTeardowns /\ teardowns' = teardowns + 1
    /\ Starts(t, "teardown", Nil, {}, {r.name : r \in rows})
    /\ UNCHANGED <<guild, rows, live, builds, lost, faults>>

Teardown(t) ==
    /\ task[t].pc = "idle"
    /\ teardowns < MaxTeardowns /\ teardowns' = teardowns + 1
    /\ Starts(t, "teardown", Nil, {}, rows)
    /\ UNCHANGED <<guild, rows, live, builds, lost, faults>>

EraseNext(t, r) ==
    /\ task[t].pc = "teardown" /\ r \in task[t].todo
    /\ task' = [task EXCEPT ![t].pc = "erase", ![t].row = r,
                            ![t].todo = @ \ {r}, ![t].left = Seen(r.build)]
    /\ UNCHANGED <<guild, rows, live, lost, faults>> /\ Bounded

Erase(t, k) ==
    LET b == task[t].row.build IN
    /\ task[t].pc = "erase" /\ NextToDisband(k, task[t].left)
    /\ <<b, k>> \in live /\ live' = live \ {<<b, k>>}
    /\ task' = [task EXCEPT ![t].left = @ \ {k}]
    /\ UNCHANGED <<guild, rows, lost, faults>> /\ Bounded

Erased(t) ==
    /\ task[t].pc = "erase" /\ task[t].left = {}
    /\ task' = [task EXCEPT ![t].pc = "teardown", ![t].row = Nil,
                            ![t].done = @ \cup {task[t].row}]
    /\ UNCHANGED <<guild, rows, live, lost, faults>> /\ Bounded

\* Forbidden: logged, and on to the next team.
EraseRefused(t) ==
    /\ task[t].pc = "erase" /\ task[t].left # {}
    /\ Fault
    /\ task' = [task EXCEPT ![t].pc = "teardown", ![t].row = Nil, ![t].left = {}]
    /\ UNCHANGED <<guild, rows, live, lost>> /\ Bounded

\* NotFound and the others end the teardown, before the guild's row is deleted.
EraseFails(t, k) ==
    /\ task[t].pc = "erase" /\ NextToDisband(k, task[t].left)
    /\ \/ Fault
       \/ <<task[t].row.build, k>> \notin live /\ UNCHANGED faults
    /\ Leaves(t)
    /\ UNCHANGED <<guild, rows, live, lost>> /\ Bounded

\* Deleting the guild's row deletes the teams' (ON DELETE CASCADE): also those
\* this teardown was refused, and those recorded since it read the table.
Clear(t) ==
    /\ task[t].pc = "teardown" /\ task[t].todo = {}
    /\ guild' = FALSE /\ rows' = {}
    /\ lost' = lost \cup {r.build : r \in rows \ task[t].done}
    /\ Leaves(t)
    /\ UNCHANGED <<live, faults>> /\ Bounded

\* /setup puts the guild's row in place (ensure_guild), again or anew.
Setup ==
    /\ guild' = TRUE
    /\ UNCHANGED <<rows, live, task, lost, faults>> /\ Bounded

-----------------------------------------------------------------------------
\* The process stops, and starts again with the table and Discord as they are.
Crash ==
    /\ Fault
    /\ task' = [t \in Handlers |-> Idle]
    /\ lost' = lost \cup {task[t].row.build : t \in {u \in Handlers : task[u].pc \in Making}}
    /\ UNCHANGED <<guild, rows, live, builds, teardowns>>

\* Somebody deletes an object in the client; a category leaves its channels.
DeletedByHand(b, k) ==
    /\ Fault
    /\ <<b, k>> \in live /\ live' = live \ {<<b, k>>}
    /\ lost' = IF k = "category" THEN lost \cup {b} ELSE lost
    /\ UNCHANGED <<guild, rows, task>> /\ Bounded

Creates(t) ==
    \/ \E k \in Kinds : Build(t, k) \/ BuildFails(t, k) \/ RollBack(t, k)
    \/ Insert(t) \/ InsertFails(t) \/ RolledBack(t)
Disbands(t) == Drop(t) \/ \E k \in Kinds : Delete(t, k) \/ DeleteFails(t, k)
TearsDown(t) ==
    \/ \E r \in task[t].todo : EraseNext(t, r)
    \/ \E k \in Kinds : Erase(t, k) \/ EraseFails(t, k)
    \/ Erased(t) \/ EraseRefused(t) \/ Clear(t)

Next ==
    \/ \E t \in Handlers :
          \/ \E n \in Names : Create(t, n)
          \/ \E r \in rows : Ask(t, r)
          \/ Confirm(t) \/ Cancel(t) \/ Teardown(t) \/ Creates(t) \/ Disbands(t) \/ TearsDown(t)
    \/ \E b \in 1..builds, k \in Kinds : DeletedByHand(b, k)
    \/ Setup \/ Crash

Spec == Init /\ [][Next]_vars

\* Discord answers every call, and asyncio resumes the handler that awaits it.
Fairness == \A t \in Handlers : WF_vars(Creates(t) \/ Disbands(t) \/ TearsDown(t))
FairSpec == Spec /\ Fairness

-----------------------------------------------------------------------------
TypeOK ==
    /\ guild \in BOOLEAN /\ rows \subseteq Row
    /\ live \subseteq Nat \X Kinds
    /\ task \in [Handlers -> Task]
    /\ builds \in Nat /\ lost \subseteq Nat /\ faults \in Nat /\ teardowns \in Nat

\* "A team the bot can't track is worse than no team at all: it would be
\* invisible to /team and leak channels forever" (teams.py): what is on Discord
\* belongs to a row or to a create that is still building or rolling it back,
\* but for builds that are lost: a rollback was refused or a crash cut the
\* create short, the category was deleted by hand, or a teardown deleted the
\* row of a team it had not removed.
BuiltIsTracked ==
    \A b \in 1..builds : Of(b) # {} =>
        \/ b \in lost
        \/ \E r \in rows : r.build = b
        \/ \E t \in Handlers : task[t].pc \in Making /\ task[t].row.build = b

\* The inductive invariant.  Builds are numbered as they begin ...
BuildOf(t) == task[t].row.build
Numbered ==
    /\ \A r \in rows : r.build \in 1..builds
    /\ live \subseteq (1..builds) \X Kinds
    /\ \A t \in Handlers :
          /\ task[t].pc \notin {"idle", "teardown"} => task[t].row \in Row /\ BuildOf(t) \in 1..builds
          /\ \A r \in task[t].todo \cup task[t].done : r.build \in 1..builds

\* ... and one that is not recorded yet is known to its create only, which has
\* exactly what it has not built left to build, or what it has built, at most,
\* left to roll back.
MadeByOne ==
    \A t \in Handlers : task[t].pc \in Making =>
        /\ \A r \in rows : r.build # BuildOf(t)
        /\ \A u \in Handlers :
              /\ u # t /\ task[u].pc \notin {"idle", "teardown"} => BuildOf(u) # BuildOf(t)
              /\ \A r \in task[u].todo \cup task[u].done : r.build # BuildOf(t)
        /\ IF task[t].pc = "rollback"
           THEN BuildOf(t) \in lost \/ Of(BuildOf(t)) \subseteq task[t].left
           ELSE Of(BuildOf(t)) \subseteq Kinds \ task[t].left

\* Channels are made after their category and deleted before it ...
InCategory ==
    \A b \in 1..builds : "category" \in Of(b) \/ b \in lost \/ Of(b) \subseteq {"role"}

\* ... so that what a handler has seen of a team is all that is left of it.
SeenIsAll ==
    \A t \in Handlers :
        /\ task[t].pc \in {"disband", "erase"} =>
              BuildOf(t) \in lost \/ Of(BuildOf(t)) \subseteq task[t].left
        /\ \A r \in task[t].done : r.build \in lost \/ Of(r.build) = {}

TeamInv == Numbered /\ MadeByOne /\ InCategory /\ SeenIsAll /\ BuiltIsTracked

\* A team being disbanded loses all of its objects, however many disband it or
\* tear it down at the same time and whatever went wrong before, unless
\* something goes wrong from now on: when handlers get in each other's way, one
\* of them gets through.  (Handlers that were overtaken by a deletion by hand
\* are not promised anything.)
At(b) == {t \in Handlers : /\ task[t].pc \in {"disband", "erase"}
                          /\ task[t].row.build = b}

Disbanding(b) == At(b) # {} /\ \A t \in At(b) : task[t].left = Seen(b)

DisbandEnds ==
    \A b \in 1..MaxBuilds, n \in 0..MaxFaults :
        (Disbanding(b) /\ faults = n)
            ~> (Of(b) = {} \/ b \in lost \/ faults > n)

\* The comment above again, for teardowns that Discord refuses nothing: a
\* teardown leaves no team behind that is not recorded.
TeardownLeavesNothing ==
    faults = 0 => \A b \in lost : Of(b) = {}

\* "A team called ... already exists" (teams.py): names are unique.
OneTeamPerName == \A r, s \in rows : r.name = s.name => r = s
=============================================================================
