-------------------------------- MODULE Boot --------------------------------
(***************************************************************************)
(* The bot comes up (bot.py, db.py): migrations, then the cogs and the     *)
(* commands, then the guilds rows that everything else refers to           *)
(* (services/guilds.py).                                                   *)
(*                                                                         *)
(* executescript commits statement by statement, and no statement of       *)
(* migrations/ can be run twice (CREATE TABLE, CREATE INDEX, ALTER TABLE   *)
(* ADD COLUMN).  Whatever supervises the process starts it again.          *)
(***************************************************************************)
EXTENDS Naturals, Sequences

CONSTANTS
    Guilds, Nil,
    Statements, \* how many statements each migration has
    MaxCrashes, \* bound on crashes and failed starts
    MaxMoves    \* bound on joins, leaves, setups and teardowns

VARIABLES
    schema,  \* of each migration, how many statements have been applied
    version, \* MAX(version) of schema_version
    proc,    \* the process: where setup_hook is, and whether on_ready came
    member,  \* the guilds the bot is in
    row,     \* guilds: Nil, or whether the settings are the defaults
    todo,    \* guilds that ensure_many has yet to look at
    joining, \* guilds whose on_guild_join is under way
    torn,    \* history: guilds torn down since they had a row
    crashes, moves

guilds == <<member, row, todo, joining, torn>>
vars == <<schema, version, proc, guilds, crashes, moves>>

Migrations == 1..Len(Statements)
Down == [pc |-> "down", at |-> 0, line |-> 0, ready |-> FALSE]

Init ==
    /\ schema = [m \in Migrations |-> 0] /\ version = 0
    /\ proc = Down
    /\ member \in SUBSET Guilds
    /\ row = [g \in Guilds |-> Nil]
    /\ todo = {} /\ joining = {} /\ torn = {}
    /\ crashes = 0 /\ moves = 0

-----------------------------------------------------------------------------
(***************************************************************************)
(* db.connect                                                              *)
(***************************************************************************)
Start ==
    /\ proc.pc = "down"
    /\ proc' = [proc EXCEPT !.pc = "version"]
    /\ UNCHANGED <<schema, version, guilds, crashes, moves>>

\* The next migration, from its first statement, or the rest of setup_hook
NextMigration(current) ==
    IF current < Len(Statements)
    THEN [Down EXCEPT !.pc = "script", !.at = current + 1, !.line = 1]
    ELSE [Down EXCEPT !.pc = "hook"]

\* Mutant of ReadVersion: the migrations begun are taken for applied.
ReadBegun ==
    LET begun == {m \in Migrations : schema[m] > 0} IN
    /\ proc.pc = "version"
    /\ proc' = NextMigration(IF begun = {} THEN 0 ELSE CHOOSE m \in begun :
                                 \A n \in begun : n <= m)
    /\ UNCHANGED <<schema, version, guilds, crashes, moves>>

ReadVersion ==
    /\ proc.pc = "version"
    /\ proc' = NextMigration(version)
    /\ UNCHANGED <<schema, version, guilds, crashes, moves>>

RunStatement ==
    LET m == proc.at IN
    /\ proc.pc = "script" /\ schema[m] = proc.line - 1
    /\ schema' = [schema EXCEPT ![m] = proc.line]
    /\ proc' = IF proc.line = Statements[m] THEN [proc EXCEPT !.pc = "record"]
               ELSE [proc EXCEPT !.line = @ + 1]
    /\ UNCHANGED <<version, guilds, crashes, moves>>

\* "table already exists": connect raises, and the process ends.
RunAgainFails ==
    /\ proc.pc = "script" /\ schema[proc.at] >= proc.line
    /\ crashes < MaxCrashes /\ crashes' = crashes + 1
    /\ proc' = Down
    /\ UNCHANGED <<schema, version, guilds, moves>>

Record ==
    /\ proc.pc = "record"
    /\ version' = proc.at
    /\ proc' = NextMigration(version')
    /\ UNCHANGED <<schema, guilds, crashes, moves>>

-----------------------------------------------------------------------------
(***************************************************************************)
(* The rest of setup_hook, and the gateway's events.                       *)
(***************************************************************************)
\* The cogs are loaded, those not present skipped, and the commands synced.
Hook ==
    /\ proc.pc = "hook"
    /\ proc' = [proc EXCEPT !.pc = "up"]
    /\ UNCHANGED <<schema, version, guilds, crashes, moves>>

Up == proc.pc = "up"

\* on_ready, which comes again when a session is begun anew
Ready ==
    /\ Up
    /\ proc' = [proc EXCEPT !.ready = TRUE]
    /\ todo' = todo \cup member
    /\ UNCHANGED <<schema, version, member, row, joining, torn, crashes, moves>>

\* Mutant of EnsureGuild: an upsert.
EnsureUpserts(g) ==
    /\ row' = [row EXCEPT ![g] = "defaults"]
    /\ torn' = torn \ {g}

EnsureGuild(g) ==
    /\ row' = [row EXCEPT ![g] = IF @ = Nil THEN "defaults" ELSE @]
    /\ torn' = torn \ {g}

EnsureNext(g) ==
    /\ g \in todo /\ todo' = todo \ {g}
    /\ EnsureGuild(g)
    /\ UNCHANGED <<schema, version, proc, member, joining, crashes, moves>>

\* on_guild_join
EnsureJoined(g) ==
    /\ g \in joining /\ joining' = joining \ {g}
    /\ EnsureGuild(g)
    /\ UNCHANGED <<schema, version, proc, member, todo, crashes, moves>>

-----------------------------------------------------------------------------
Move == moves < MaxMoves /\ moves' = moves + 1

\* While the bot is down nobody tells it; on_ready finds the guild.
Joins(g) ==
    /\ g \notin member /\ Move
    /\ member' = member \cup {g}
    /\ joining' = IF proc.ready THEN joining \cup {g} ELSE joining
    /\ UNCHANGED <<schema, version, proc, row, todo, torn, crashes>>

\* The row is kept.
Leaves(g) ==
    /\ g \in member /\ Move
    /\ member' = member \ {g}
    /\ UNCHANGED <<schema, version, proc, row, todo, joining, torn, crashes>>

\* /setup and /config: an upsert of the settings.
Setup(g) ==
    /\ Up /\ g \in member /\ Move
    /\ row' = [row EXCEPT ![g] = "set"]
    /\ torn' = torn \ {g}
    /\ UNCHANGED <<schema, version, proc, member, todo, joining, crashes>>

Teardown(g) ==
    /\ Up /\ g \in member /\ row[g] # Nil /\ Move
    /\ row' = [row EXCEPT ![g] = Nil]
    /\ torn' = torn \cup {g}
    /\ UNCHANGED <<schema, version, proc, member, todo, joining, crashes>>

Crash ==
    /\ proc.pc # "down"
    /\ crashes < MaxCrashes /\ crashes' = crashes + 1
    /\ proc' = Down /\ todo' = {} /\ joining' = {}
    /\ UNCHANGED <<schema, version, member, row, torn, moves>>

Next ==
    \/ Start \/ ReadVersion \/ RunStatement \/ RunAgainFails \/ Record \/ Hook
    \/ Ready \/ Crash
    \/ \E g \in Guilds : \/ EnsureNext(g) \/ EnsureJoined(g) \/ Joins(g)
                         \/ Leaves(g) \/ Setup(g) \/ Teardown(g)

Spec == Init /\ [][Next]_vars

-----------------------------------------------------------------------------
TypeOK ==
    /\ schema \in [Migrations -> Nat] /\ version \in 0..Len(Statements)
    /\ \A m \in Migrations : schema[m] <= Statements[m]
    /\ proc.pc \in {"down", "version", "script", "record", "hook", "up"}
    /\ proc.at \in {0} \cup Migrations /\ proc.ready \in BOOLEAN
    /\ row \in [Guilds -> {Nil, "defaults", "set"}]
    /\ member \cup todo \cup joining \cup torn \subseteq Guilds

\* The highest migration recorded stands for all of them: whatever a crash
\* interrupted, a bot that is up has every statement of every migration.
SchemaWhole ==
    Up => version = Len(Statements)
          /\ \A m \in Migrations : schema[m] = Statements[m]

\* "Backfilled on ready and created on join": a bot that has caught up has a
\* row for every guild it is in, if it joined while the bot was down or in the
\* middle of the backfill too, except those torn down since.
RowsThere ==
    proc.ready /\ todo = {} /\ joining = {} =>
        \A g \in member : row[g] # Nil \/ g \in torn

\* Migrations and rows, by the time a command is answered (setup_hook,
\* on_ready, on_guild_join).
UpMeansReady == SchemaWhole /\ RowsThere

\* "Settings are never overwritten": only a teardown takes away what was set,
\* whichever of ready and join comes in between (ensure_guild).
SettingsOutlive ==
    [][\A g \in Guilds : row[g] = "set" /\ row'[g] # "set" => Teardown(g)]_vars

\* "The bot guarantees the row exists from the moment it can see a guild":
\* not after a teardown, which leaves the bot in the guild.
RowsGuaranteed ==
    proc.ready /\ todo = {} /\ joining = {} => \A g \in member : row[g] # Nil

\* A bot that was stopped can be started: not when the last start was
\* stopped inside a migration, or before the migration was recorded.
CanStartAgain == \A m \in Migrations : m > version /\ proc.pc = "down" => schema[m] = 0
=============================================================================
