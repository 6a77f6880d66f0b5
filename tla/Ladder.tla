------------------------------- MODULE Ladder -------------------------------
(***************************************************************************)
(* The rank ladder (cogs/setup.py): the roles that /setup and the ladder's *)
(* editor make or adopt, the table ranks that remembers which of them the  *)
(* bot made, and the teardown that deletes those and no others.            *)
(*                                                                         *)
(* All handlers share one connection, and so one transaction: rows is the  *)
(* table as every statement sees it, disk what has been committed.  Any    *)
(* handler's commit commits what the others have written so far, a crash   *)
(* takes the table back to disk, and a handler that is ended by an         *)
(* exception leaves its writes in the open transaction (nothing in the bot *)
(* rolls back).  Deleting the guild's row and saving its configuration are *)
(* committed with the next statement and are one step here.                *)
(*                                                                         *)
(* A role is a record with the name it was made with and who made it; the  *)
(* bot sees the name and the id alone.  A ladder is the set of its names:  *)
(* which name has which position is left out, so that the names may be     *)
(* taken in any order, and looking up two names that both exist may be     *)
(* interrupted, as the code cannot be there.  The cache of the guild's     *)
(* roles is taken to be up to date.  ladder_add and ladder_remove          *)
(* (cogs/roles.py) are called by nothing at present and are left out, and  *)
(* the teams' part of a teardown is in module Teams.                       *)
(***************************************************************************)
EXTENDS Naturals, FiniteSets

CONSTANTS
    Handlers,      \* interactions that may be in flight at once
    Names,         \* rank names
    Nil,           \* no role, no name
    MinRanks,      \* MIN_RANKS of services/templates.py
    MaxRoles,      \* bound on roles ever made
    MaxHands,      \* bound on what admins do in the client
    MaxFaults,     \* bound on refusals and crashes
    MaxTeardowns,  \* bound on teardowns
    Serial         \* whether one edit of the ladder ends before the next

ASSUME LadderAssumption ==
    /\ MinRanks \in Nat /\ MaxRoles \in Nat /\ MaxHands \in Nat
    /\ MaxFaults \in Nat /\ MaxTeardowns \in Nat /\ Serial \in BOOLEAN

VARIABLES
    guild,      \* whether the guild has its row
    rows, disk, \* the table ranks, as the connection sees it and as committed
    roles,      \* the roles on Discord
    task,       \* what each handler is doing
    ids,        \* how many roles have been made
    hands, faults, teardowns,  \* what the bounds count
    forgotten   \* history: roles of the bot's whose mark has been given up

vars == <<guild, rows, disk, roles, task, ids, hands, faults, teardowns,
          forgotten>>

Ladders == {L \in SUBSET Names : Cardinality(L) >= MinRanks}

Role == [id : Nat, name : Names, by : {"bot", "admin"}]
Row == [role : Role, bot : BOOLEAN]     \* bot_created

\* left: names still to look up; name, role, flag: the one being made or
\* inserted; old: previously_bot_created; new: new_rows; todo: roles that a
\* teardown still has to delete.
Task == [op : {"none", "upsert", "custom", "teardown"},
         pc : {"find", "make", "insert", "write"},
         left : SUBSET Names, name : Names \cup {Nil},
         role : Role \cup {Nil}, flag : BOOLEAN,
         old : SUBSET Role, new : SUBSET Row, todo : SUBSET Role]

Job(op, L, old, todo) ==
    [op |-> op, pc |-> "find", left |-> L, name |-> Nil, role |-> Nil,
     flag |-> FALSE, old |-> old, new |-> {}, todo |-> todo]

Idle == Job("none", {}, {}, {})

Flagged(T) == {q.role : q \in {p \in T : p.bot}}

Init ==
    /\ guild = TRUE /\ rows = {} /\ disk = {} /\ roles = {}
    /\ task = [t \in Handlers |-> Idle]
    /\ ids = 0 /\ hands = 0 /\ faults = 0 /\ teardowns = 0
    /\ forgotten = {}

Leaves(t) == task' = [task EXCEPT ![t] = Idle]
Fault == faults < MaxFaults /\ faults' = faults + 1
At(t, op, pc) == task[t].op = op /\ task[t].pc = pc
Uncounted == UNCHANGED <<hands, teardowns>>
Bounded == Uncounted /\ UNCHANGED forgotten
Editor(t) == task[t].op \in {"upsert", "custom"}
Editing == \E t \in Handlers : Editor(t)

\* forgotten takes the roles R that the bot made and that still exist.
Bots == {r \in roles : r.by = "bot"}
Forgets(R) == forgotten' = forgotten \cup (Bots \cap R)

\* An exception ends the edit: what it carried is lost, and what it has
\* written may yet be.
Abandons(t) ==
    Leaves(t) /\ Forgets(roles \ (Flagged(rows) \cap Flagged(disk)))

-----------------------------------------------------------------------------
(***************************************************************************)
(* apply_setup_selection with a template or the default ladder             *)
(***************************************************************************)
\* _save_guild_config writes the guild's row and commits.
Setup(t, L) ==
    /\ task[t].op = "none" /\ (Serial => ~Editing)
    /\ guild' = TRUE /\ disk' = rows
    /\ task' = [task EXCEPT ![t] = Job("upsert", L, {}, {})]
    /\ UNCHANGED <<rows, roles, ids, faults>> /\ Bounded

\* Mutant of Customise: it keeps the rows it has read, not the roles in them.
CustomiseOnRows(t, L) ==
    /\ task[t].op = "none" /\ (Serial => ~Editing)
    /\ task' = [task EXCEPT ![t] = Job("custom", L, rows, {})]
    /\ UNCHANGED <<guild, rows, disk, roles, ids, faults>> /\ Bounded

\* /admin ranks and the editor, with names that pass validate_ladder_names.
Customise(t, L) ==
    /\ task[t].op = "none" /\ (Serial => ~Editing)
    /\ task' = [task EXCEPT ![t] = Job("custom", L, Flagged(rows), {})]
    /\ UNCHANGED <<guild, rows, disk, roles, ids, faults>> /\ Bounded

-----------------------------------------------------------------------------
(***************************************************************************)
(* One name of the ladder: the role of that name, or a new one             *)
(***************************************************************************)
\* Mutant of FlagOf: a role that exists was not made by the bot.
NeverFlagged(t, r) == FALSE

\* bot_created of a role that exists already: 0 for the statement of
\* _upsert_ladder, which keeps the flag of a row that is there, and what the
\* row said when the edit began for _apply_custom_ladder.
FlagOf(t, r) == task[t].op = "custom" /\ r \in task[t].old

\* The role goes into the statement of _upsert_ladder that follows, or into
\* the new_rows of _apply_custom_ladder.
Takes(t, n, r, flag) ==
    \/ /\ task[t].op = "upsert"
       /\ task' = [task EXCEPT ![t].pc = "insert", ![t].left = @ \ {n},
                               ![t].name = Nil, ![t].role = r, ![t].flag = flag]
    \/ /\ task[t].op = "custom"
       /\ task' = [task EXCEPT ![t].pc = "find", ![t].left = @ \ {n},
                               ![t].name = Nil,
                               ![t].new = @ \cup {[role |-> r, bot |-> flag]}]

Find(t, n, r) ==
    /\ Editor(t) /\ task[t].pc = "find" /\ n \in task[t].left
    /\ r \in roles /\ r.name = n
    /\ Takes(t, n, r, FlagOf(t, r))
    /\ UNCHANGED <<guild, rows, disk, roles, ids, faults>> /\ Bounded

FindsNone(t, n) ==
    /\ Editor(t) /\ task[t].pc = "find" /\ n \in task[t].left
    /\ \A r \in roles : r.name # n
    /\ task' = [task EXCEPT ![t].pc = "make", ![t].name = n]
    /\ UNCHANGED <<guild, rows, disk, roles, ids, faults>> /\ Bounded

Made(n, who) == [id |-> ids + 1, name |-> n, by |-> who]

Make(t) ==
    /\ Editor(t) /\ task[t].pc = "make" /\ ids < MaxRoles
    /\ ids' = ids + 1
    /\ roles' = roles \cup {Made(task[t].name, "bot")}
    /\ Takes(t, task[t].name, Made(task[t].name, "bot"), TRUE)
    /\ UNCHANGED <<guild, rows, disk, faults>> /\ Bounded

\* Forbidden: the rest of the names are left out.
MakeRefused(t) ==
    /\ Editor(t) /\ task[t].pc = "make" /\ Fault
    /\ task' = [task EXCEPT ![t].pc = "find", ![t].left = {}, ![t].name = Nil]
    /\ UNCHANGED <<guild, rows, disk, roles, ids>> /\ Bounded

\* Any other HTTPException ends the handler.
MakeFails(t) ==
    /\ Editor(t) /\ task[t].pc = "make" /\ Fault
    /\ Abandons(t)
    /\ UNCHANGED <<guild, rows, disk, roles, ids>> /\ Uncounted

-----------------------------------------------------------------------------
\* ON CONFLICT leaves the flag of a row that is there alone.
Insert(t) ==
    LET q == [role |-> task[t].role, bot |-> task[t].flag] IN
    /\ At(t, "upsert", "insert") /\ guild
    /\ rows' = IF \E p \in rows : p.role = q.role THEN rows ELSE rows \cup {q}
    /\ task' = [task EXCEPT ![t].pc = "find", ![t].role = Nil]
    /\ UNCHANGED <<guild, disk, roles, ids, faults>> /\ Bounded

\* The foreign key: a teardown has deleted the guild's row.
InsertFails(t) ==
    /\ At(t, "upsert", "insert") /\ ~guild
    /\ Abandons(t)
    /\ UNCHANGED <<guild, rows, disk, roles, ids, faults>> /\ Uncounted

\* The ranks that the new ladder leaves out are forgotten.
DeleteRows(t) ==
    /\ At(t, "custom", "find") /\ task[t].left = {}
    /\ rows' = {}
    /\ task' = [task EXCEPT ![t].pc = "write"]
    /\ Forgets(Flagged(rows) \ {q.role : q \in task[t].new})
    /\ UNCHANGED <<guild, disk, roles, ids, faults>> /\ Uncounted

Write(t, q) ==
    /\ At(t, "custom", "write") /\ q \in task[t].new
    /\ guild /\ \A p \in rows : p.role # q.role
    /\ rows' = rows \cup {q}
    /\ task' = [task EXCEPT ![t].new = @ \ {q}]
    /\ UNCHANGED <<guild, disk, roles, ids, faults>> /\ Bounded

\* The foreign key, or the primary key: another edit has written the role.
WriteFails(t, q) ==
    /\ At(t, "custom", "write") /\ q \in task[t].new
    /\ ~guild \/ \E p \in rows : p.role = q.role
    /\ Abandons(t)
    /\ UNCHANGED <<guild, rows, disk, roles, ids, faults>> /\ Uncounted

Commit(t) ==
    /\ \/ At(t, "upsert", "find") /\ task[t].left = {}
       \/ At(t, "custom", "write") /\ task[t].new = {}
    /\ disk' = rows
    /\ Leaves(t)
    /\ UNCHANGED <<guild, rows, roles, ids, faults>> /\ Bounded

-----------------------------------------------------------------------------
(***************************************************************************)
(* _teardown, its part for the ladder                                      *)
(***************************************************************************)
\* Mutant of Teardown: the query has lost its condition.
TeardownOfAll(t) ==
    /\ task[t].op = "none"
    /\ teardowns < MaxTeardowns /\ teardowns' = teardowns + 1
    /\ task' = [task EXCEPT ![t] = Job("teardown", {}, {}, {q.role : q \in rows})]
    /\ UNCHANGED <<guild, rows, disk, roles, ids, hands, faults, forgotten>>

Teardown(t) ==
    /\ task[t].op = "none"
    /\ teardowns < MaxTeardowns /\ teardowns' = teardowns + 1
    /\ task' = [task EXCEPT ![t] = Job("teardown", {}, {}, Flagged(rows))]
    /\ UNCHANGED <<guild, rows, disk, roles, ids, hands, faults, forgotten>>

\* Deleted, not there any more, or refused (Forbidden) and logged.
Strip(t, r) ==
    /\ task[t].op = "teardown" /\ r \in task[t].todo
    /\ task' = [task EXCEPT ![t].todo = @ \ {r}]
    /\ \/ roles' = roles \ {r} /\ UNCHANGED faults
       \/ r \in roles /\ Fault /\ UNCHANGED roles
    /\ UNCHANGED <<guild, rows, disk, ids>> /\ Bounded

\* Any other HTTPException ends the teardown.
StripFails(t, r) ==
    /\ task[t].op = "teardown" /\ r \in task[t].todo \cap roles
    /\ Fault /\ Leaves(t)
    /\ UNCHANGED <<guild, rows, disk, roles, ids>> /\ Bounded

\* Deleting the guild's row deletes the ranks' (ON DELETE CASCADE).
Clear(t) ==
    /\ task[t].op = "teardown" /\ task[t].todo = {}
    /\ guild' = FALSE /\ rows' = {} /\ disk' = {}
    /\ Leaves(t) /\ Forgets(roles)
    /\ UNCHANGED <<roles, ids, faults>> /\ Uncounted

-----------------------------------------------------------------------------
\* Some other handler of the bot commits a statement of its own, ensure_guild
\* among them.
OtherCommit ==
    /\ guild' \in {guild, TRUE} /\ disk' = rows
    /\ UNCHANGED <<rows, roles, task, ids, faults>> /\ Bounded

\* A crash costs marks only if it ends an edit.
Crash ==
    /\ Fault
    /\ rows' = disk /\ task' = [t \in Handlers |-> Idle]
    /\ Forgets(IF Editing THEN roles \ Flagged(disk) ELSE {})
    /\ UNCHANGED <<guild, disk, roles, ids>> /\ Uncounted

\* An admin makes or deletes a role in the client.
Hand == hands < MaxHands /\ hands' = hands + 1

AdminMakes(n) ==
    /\ Hand /\ ids < MaxRoles /\ ids' = ids + 1
    /\ roles' = roles \cup {Made(n, "admin")}
    /\ UNCHANGED <<guild, rows, disk, task, faults, teardowns, forgotten>>

AdminDeletes(r) ==
    /\ Hand
    /\ roles' = roles \ {r}
    /\ UNCHANGED <<guild, rows, disk, task, ids, faults, teardowns, forgotten>>

Edits(t) ==
    \/ \E n \in task[t].left : FindsNone(t, n) \/ \E r \in roles : Find(t, n, r)
    \/ Make(t) \/ MakeRefused(t) \/ MakeFails(t)
    \/ Insert(t) \/ InsertFails(t) \/ DeleteRows(t) \/ Commit(t)
    \/ \E q \in task[t].new : Write(t, q) \/ WriteFails(t, q)
TearsDown(t) ==
    \/ \E r \in task[t].todo : Strip(t, r) \/ StripFails(t, r)
    \/ Clear(t)

Next ==
    \/ \E t \in Handlers :
          \/ \E L \in Ladders : Setup(t, L) \/ Customise(t, L)
          \/ Teardown(t) \/ Edits(t) \/ TearsDown(t)
    \/ OtherCommit \/ Crash
    \/ \E n \in Names : AdminMakes(n)
    \/ \E r \in roles : AdminDeletes(r)

Spec == Init /\ [][Next]_vars

-----------------------------------------------------------------------------
TypeOK ==
    /\ guild \in BOOLEAN /\ rows \subseteq Row /\ disk \subseteq Row
    /\ roles \subseteq Role /\ task \in [Handlers -> Task]
    /\ ids \in Nat /\ hands \in Nat /\ faults \in Nat /\ teardowns \in Nat
    /\ forgotten \subseteq Role

\* The inductive invariant behind AdminRolesSpared: no flag says bot_created of
\* a role that the bot did not make.
FlagsTrue ==
    /\ \A q \in rows \cup disk : q.bot => q.role.by = "bot"
    /\ \A t \in Handlers :
          /\ \A q \in task[t].new : q.bot => q.role.by = "bot"
          /\ \A r \in task[t].old \cup task[t].todo : r.by = "bot"
          /\ task[t].pc = "make" => task[t].name \in Names
          /\ task[t].pc = "insert" =>
                /\ task[t].role \in Role
                /\ (task[t].flag => task[t].role.by = "bot")

\* What an edit under way remembers: the role it is about to insert as its
\* own, or the marked rows it is going to write.
Carries(t, r) ==
    \/ At(t, "upsert", "insert") /\ task[t].role = r /\ task[t].flag
    \/ task[t].op = "custom" /\ \E q \in task[t].new : q.role = r /\ q.bot

\* "carries forward bot_created for any role already tracked, so editing the
\* ladder again never un-marks a role the bot itself made" (setup.py): as long
\* as edits do not overlap, a role that the bot made is marked in the ladder or
\* carried by the edit under way, and no row says that it was adopted, unless
\* the ladder has been told to leave it out, a teardown has cleared the table,
\* or an edit was ended before its commit since.
BotRolesRemembered ==
    \A r \in Bots \ forgotten :
        /\ r \in Flagged(rows) \/ \E t \in Handlers : Carries(t, r)
        /\ \A q \in rows \cup disk : q.role = r => q.bot

\* Its inductive form.  What no edit is changing is committed; ...
OneEditor == \A t, u \in Handlers : Editor(t) /\ Editor(u) => t = u
Settled ==
    ~Editing => Flagged(rows) \cap Bots \subseteq Flagged(disk) \cup forgotten
Numbered ==
    /\ \A q \in rows \cup disk : q.role.id <= ids
    /\ \A t \in Handlers :
          /\ task[t].op = "custom" => \A q \in task[t].new : q.role.id <= ids
          /\ At(t, "upsert", "insert") => task[t].role.id <= ids
    /\ \A r \in roles : r.id <= ids

\* ... a role taken unmarked is marked by the row that is there or forgotten,
\* and a custom ladder still knows every mark there is.
TakenUnmarked(t) ==
    LET e == task[t] IN
    /\ At(t, "upsert", "insert") /\ ~e.flag /\ e.role \in Bots =>
          e.role \in forgotten \cup Flagged(rows)
    /\ e.op = "custom" =>
          \A q \in e.new : q.role \in Bots \ forgotten => q.bot
KnowsMarks(t) ==
    LET e == task[t] IN
    e.op = "custom" /\ e.pc # "write" =>
        /\ Flagged(rows) \subseteq e.old
        /\ \A q \in e.new : q.role \in e.old => q.bot
        /\ \A q \in e.new : q.role.name \notin e.left
        /\ e.pc = "make" => e.name \in e.left

MarkInv ==
    /\ Numbered
    /\ Serial => /\ OneEditor /\ BotRolesRemembered /\ Settled
                 /\ \A t \in Handlers : TakenUnmarked(t) /\ KnowsMarks(t)

\* "/teardown never deletes a rank role the admin made themselves and we merely
\* adopted" (setup.py): whatever edits, teardowns and crashes overlap, a role
\* that goes was made by the bot, or somebody deleted it in the client.
AdminRolesSpared ==
    [][\A r \in roles \ roles' : r.by = "bot" \/ hands' # hands]_vars

\* The same sentence taken at its word: whatever the ladder holds of the bot's
\* is marked.
BotRolesMarked == \A q \in disk : q.role.by = "bot" => q.bot
=============================================================================
