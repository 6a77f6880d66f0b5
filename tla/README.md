# A TLA+ model of reforger-adjutant

`src/` is a Discord bot (Python, discord.py, aiosqlite) that runs the
administration of an Arma Reforger community: events with sign-ups, timed
ranks, teams with their own channels, a rank ladder, a shared map and links to
game servers.  It is one asyncio process with one SQLite connection, and nearly
every handler is a sequence of awaited calls, to Discord and to the database,
between which any other handler may run.  Neither side is transactional with the
other: what the bot *knows* (rows) and what *is* (roles, channels, connections)
are kept together by the order of the calls alone.  That order is what this
project models.

- [1 Inventory](#1-inventory)
- [2 How code becomes actions](#2-how-code-becomes-actions)
- [3 The modules](#3-the-modules)
- [4 The runs](#4-the-runs)
- [5 What TLC refutes](#5-what-tlc-refutes)
- [6 The proofs](#6-the-proofs)
- [7 What is not modelled, and the plan](#7-what-is-not-modelled-and-the-plan)

## 1 Inventory

| component | code (under `src/adjutant`) | state | operations | what makes it correct | here |
|---|---|---|---|---|---|
| events | `cogs/events.py`, `services/events.py`, `services/grants.py` | `events`, `event_signups`, `role_grants` (kind event); the event's role and its holders; the announce message; the ticker's snapshot | create, sign up, withdraw, close, cancel, teardown, the 60 s ticker | an event ends once and for good, and nobody is left with its role; reminders are not repeated | `EventCog`, `EventLifecycle` |
| ranks granted | `cogs/roles.py`, `services/grants.py` | `role_grants` (perma, temp); who holds what | /rank, Revoke, the expiry sweep | a rank held is tracked; a rank for a term ends | `RoleGrants` |
| teams | `cogs/teams.py`, `cogs/setup.py` `_teardown` | `teams`; roles, categories, channels | create with rollback, disband behind a confirm view, guild teardown | nothing on Discord without a row; a disband gets through | `Teams` |
| rank ladder | `cogs/setup.py`, `services/templates.py` | `ranks` with `bot_created`; the guild's roles | setup (additive), custom ladder (replacing), teardown | only the bot's roles are deleted, and it does not forget which they are | `Ladder` |
| fetch cache | `cache.py` | `_entries`, `_inflight` | get_or_fetch, invalidate, clear | one fetch for a key; every caller returns | `TTLCache` |
| server links | `cogs/serverlink.py`, `serverlink/base.py`, `null.py` | `server_links`; the registry, the status cache, the feed listener | link, poll, start/stop the listener, restart | registry = table; the listener is up iff needed; connections are closed | `ServerLinks` |
| rcon connection | `serverlink/rcon_link.py` | the client, its context, the watchdog, what the login may do | open, close, reconnect, players, admin commands | one connection, none after close; a link that is down comes back | `RconConnection` |
| telemetry feed | `serverlink/feed.py`, callbacks in `cogs/serverlink.py` | last snapshot and when, by link | POST, /server, Players | a snapshot reaches the guild whose token it bears; what is shown is recent | `Telemetry` |
| map panel | `cogs/map.py`, `services/mapping.py` | `maps`, `map_markers`, the message | /map, mark, clear | the message shows the markers | `MapPanel`, `Formats` |
| config panel, admin's settings commands | `cogs/config.py`, `services/config.py`, `cogs/admin.py` | the `guilds` row, `permissions`; the panel's message | single edits, reset, the summary | an edit changes what it names and survives once it is answered | `GuildConfig`, `Settings` |
| setup wizard | `cogs/setup.py`, `services/templates.py`, `cogs/hub.py` | the view's selections; channels and categories | choose, Finish, Cancel, setup-quick | what is said to be set up is; nothing twice | `Scaffold` |
| permissions and incidents | `services/ranks.py`, `cogs/roles.py`, `cogs/admin.py` | none; `incidents` | the checks before a command | the verdict is the rule's at one moment | `CommandGate` |
| rate limiter | `services/ratelimit.py` | `_buckets` | allow | at most what the bucket pays for, and that much | `RateLimiter` |
| what members type | `services/mapping.py`, `services/grants.py`, `services/events.py`, `view_util.py` | none | parse, compute, round, print | it comes back as it was meant | `Formats` |
| start, migrations, guild rows | `bot.py`, `db.py`, `migrations/`, `services/guilds.py` | `schema_version`, the schema, `guilds` | the migration loop, backfill, join | a bot that is up has its schema and its rows | `Boot` |
| a2s link, posting records, self-test, tools | see `PROJECT.json` | none of their own, or unused | | | not modelled |

How they interact.  *Calls*: the admin cog and the hub call the handlers of the
other cogs.  *Shared state*: all handlers share one connection, and therefore one
open transaction; the guild teardown deletes the guild's row and, by ON DELETE
CASCADE, the rows of every other component under the handlers that are using
them; both event roles and ranks live in `role_grants`, told apart by kind and
never touched across (so `EventCog` and `RoleGrants` are separate).  *Callbacks*:
button views and modals keep what they read when they were sent.  *Loops*: the
event ticker, the expiry sweep and the status poll, each restarted by its
error handler, and the watchdog of each RCON link.

What is hard: two clicks on the same thing; a click against a loop working
through a snapshot; a crash between Discord and the table; refusals (Forbidden)
in the middle of a sequence; teardown under everything else; starting and
stopping (of the listener, of a connection) that are themselves split by awaits;
a row that is read, changed and written back over other handlers' statements;
and a connection on which whoever commits, commits for everybody.
`PROJECT.json` lists these hazards with their lines and the properties that
cover them.

## 2 How code becomes actions

- **An action is one awaited call with the local code up to the next one.**  A
  handler's locals are its record in `task` (`sweep`, `due`, `todo` for the
  loops).  A statement and the `commit` that follows it are one step, except where
  the open transaction is the point: `Ladder` (`rows` and `disk`), `GuildConfig`
  (`live` and `saved`), `Scaffold` (`row` and `saved`) and `CommandGate`
  (`incidents` and `saved`).
- Reads of discord.py's cache belong to the step before them; the cache is taken
  to be up to date (the members intent is on).  An interaction's own `user` is
  not in the cache: it is built from the payload and keeps the roles with which
  the interaction arrived (`held` in `CommandGate`).  An early return that changes
  nothing is a stutter and has no action.
- **Refusals** are nondeterministic: where the code catches `Forbidden` and goes
  on, the model may take that branch; where another `HTTPException` would escape,
  there is a second action that ends the handler.
- **Crash** forgets `task` and keeps tables and Discord.  A crash inside a call
  to Discord is a crash before or after it.
- Ids that are never used twice (snowflakes, AUTOINCREMENT) are counters;
  a team's four objects share its build number, a link's host, port and secret
  are the number of the change that made it.
- **Bounds** are constants called `Max...` and appear in guards only; every one
  is named in the module's CONSTANTS with what it bounds.  The proofs hold for
  every value of them.
- **Exclusive / Serial / Apart / OneAtATime** switch on a restriction of the
  environment: one status change at a time on an event (`EventCog`), one
  interaction at a time on a member's rank (`RoleGrants`), one link change
  (`ServerLinks`), one edit of the ladder (`Ladder`), no two edits of the same
  setting (`GuildConfig`), one application of a template (`Scaffold`).  The code
  does not enforce them, and section 5 has for each of them a trace of what happens
  without it: `event_race.cfg`, `rank_overlap.cfg`, `link_listener.cfg`,
  `ladder_overlap.cfg`, `panels.cfg` with `Apart = FALSE`, `wizard_overlap.cfg`.
  What is checked under a switch says what everything *else* in the module may
  do: loops, crashes, refusals, the handlers of other objects, and the teardown
  where the module has one.  Where these break the promise too, the property
  names the exception.  A teardown takes the rows of ranks that are still held,
  and `record_grant` may find no guild row or never be reached (`orphans` of
  `RoleGrants`); a ladder may leave a role of the bot's out, a teardown clears the
  table, and an edit may be ended before its commit (`forgotten` of `Ladder`).
- **calm** (in `GuildConfig`, `MapPanel`, `Scaffold`) is a history variable that
  names the handler that has met nobody else since it began.  It does not
  restrict anything: what *it* is promised has to hold after whatever the
  others have left behind.

## 3 The modules

`EventLifecycle` is the abstract specification: an event opens once, may be
closed, and ends once, after its role has been wound up.  `EventCog` implements
it with `stage <- status` and `woundUp <-` "the role is deleted or its deletion
was refused" (`ImplementsLifecycle`), under `Exclusive`.

**EventCog.**  `CreateEventRole, InsertEvent, Announce, SetAnnounceMessage` are
`_create`; `Signup, AddSignup, AddRole, RecordGrant` and `Withdraw, RemoveSignup,
RemoveRole, RevokeGrants` the two buttons; `Manage` starts close, cancel and
teardown, which share `QueryGrants, StripRole, DropGrant, DeleteRole`
(`_release_event_grants`), `CheckStatus` and `WriteStatus` (the two halves of
`set_status`, with an await between them) and `ClearView`; `TickStart ...
TickEnd` are the ticker, with `TickFault` for an exception that escapes it and
its restart.  Over-approximations: a manager may pick any stored event; a member
or role missing from the cache counts as a refusal in `StripRole`; `ClearView`
uses the announce id of the snapshot.  `MaxNow - Grace` bounds when events start.

**RoleGrants.**  A *post* is a member with a rank role.  `AddRole` /
`RecordGrant` is /rank, `RemoveRole` / `ForgetGrants` is Revoke in that order,
and the sweep takes its due rows one by one (`SweepStrips, SweepRefused,
SweepFindsNobody, SweepDrops`).  `Teardown` is the end of `_teardown`: the guild's
row goes, and the cascade takes its grants while members keep the ranks that the
bot had only adopted; the insert of a /rank under way then fails its foreign
key (`RecordFails`), until `EnsureGuild` has brought the row back.  Roles given by hand without the bot are not
modelled, so that "held" means "held because the bot gave it"; members leave,
come back without roles, and lose roles by hand.  `orphans` are held posts whose row a
teardown took, or was never written after the role was given.

**Teams.**  Create goes `Build` (role, category, chat, voice), then `Insert`, or
`BuildFails` / `InsertFails` and `RollBack` newest first.  Disband is `Ask` (the
row is read), `Confirm` (the cache is read: `Seen`) and `Delete` in its order,
then `Drop`.  The teardown walks the rows it has read (`EraseNext, Erase,
Erased`), goes on after Forbidden (`EraseRefused`), stops at anything else
(`EraseFails`), and ends in `Clear`, the cascade.  `lost` is a history variable:
builds the code has given up (a rollback refused, a crash before the row, the
category deleted by hand, a row that the cascade took before its team was
removed).  `confirm: True` is `Ask` followed at once by `Confirm`.

**Ladder.**  `Setup` starts `_upsert_ladder` after saving the configuration,
`Customise` starts `_apply_custom_ladder` after reading the flags.  `Find` and
`FindsNone; Make` look a name up and make it; `Takes` puts it into a statement
(`Insert`, which keeps the flag of a row that is there) or into `new_rows`
(`DeleteRows`, then one `Write` for each).  `Commit`, any other handler's commit
(`OtherCommit`) and a crash act on `disk`; nothing rolls back, so a handler
that dies leaves its statements in the transaction.  `forgotten` is a history
variable: roles of the bot's whose mark has been given up, because a ladder leaves
them out (`DeleteRows`), because a teardown clears the table (`Clear`), or
because an exception or a crash ends an edit that had not committed them
(`Abandons`, `Crash`).  A ladder is a *set* of at
least `MinRanks` names: positions are left out, names may be taken in any order.

**TTLCache.**  `Hit, Join, Lead` are the undisturbed start of `get_or_fetch`;
`Answer; Store` or `Fail` its end for the leader and, with `Land`, for those who
wait on the future; `Cancel` cancels a caller, which cancels the shared future
if he waits on it.  The factory is external.  `source` and `floor` are
histories: the version the factory would return, and the one at invalidation.

**ServerLinks.**  `Apply, Open, Store, Swap, CloseOld` are `_apply_link`; `Sync,
Bind, Adopt, Forget` the listener, whose `create_server` suspends after binding;
`PollStart, PollWrites, PollFails, PollEnd` the poll over a copy of the
registry (its order is left out).  Statements queue at the connection's thread
first come first served, hence tickets.  `Restart` is a crash and a new
`cog_load` (in which the port is never refused).  What goes over a connection
is `RconConnection`'s, what comes in at the listener `Telemetry`'s.

**RconConnection** is one link from `open` to `close`.  `_client`, `_connect_ctx`
and `_connected` are always assigned together and are one variable, `field`;
`held` is what berconpy has not been told to leave, `up` what the server still
answers on.  `close` cancels the watchdog without waiting, so that `doomed`
may be delivered (`Cancelled`) wherever the watchdog is: asleep, between leaving
and logging in, or in the login.  The assumptions about berconpy are in the
module's head: an `__aenter__` that fails or is cancelled holds nothing, and an
`__aexit__` gives the connection up when it is called.

**Telemetry** is the listener's handler in its two halves around the body
(`Lookup`, `Ingest`), the secret's life (`Link` writes the row, `Registered` the
registry, `Unlink`, `Teardown`, `Restart`), the admin who sets up the game server
with a token (`Paste`) and a reply of /server, whose status is read before the
message that needs it (`Asks`, `Reply`).  A token is the number of the link it was
made for.  Of a row it is kept whether it is well formed, malformed, or has a
number that `float()` cannot hold.

**MapPanel** is one channel's map: `MapCommand, PostFirst, InsertMap`; `DoMark,
InsertMarker` and `DoClear, DeleteMarkers, NoSuchMarker`; and the part they share,
`Render, Fetch, Edit`, with `Send, Record` when the message is gone.  A picture is
the set of markers that was read for it.

**Settings** is the abstract specification of a guild's settings: an edit is
asked, applied once to what is there at that moment, committed and answered, and
a crash loses what is not committed.  **GuildConfig** implements it with `cfg <-
live`, `disk <- saved`, and `req` from what each handler carries; its
statements are `Ensure, Read, Write, Commit`, and `SummaryRow,
SummaryPermissions, Publish` build the panel.  A reset writes twice and is two
edits of the abstract specification.

**Scaffold** is the wizard (`OpenWizard, Choose, Finish, Cancel`), whose
selections may change while a Finish is running, /admin setup-quick, and
`apply_setup_selection`: `Save, Commit, Ladder`, then for each channel of the
template `CreateCategory` and `CreateChannel` unless it finds them by name.
Forbidden is caught by `finish` (`Refused`); what else is raised ends in the cog's
error handler (`Fails`).

**Boot** is the migration loop statement by statement (`executescript` commits
each), the rest of `setup_hook`, and `on_ready` and `on_guild_join` among joins,
leaves, setups and teardowns.  No statement of `migrations/` can be run twice.

**CommandGate** is what precedes a command.  `Arrives` keeps the user and the roles
of the interaction's payload (`user, held`), asks the limiter (but for buttons,
which ask it when the permission is there), and asks whether the user commands the
guild; `LoadLadder` and `LoadOverrides` read the ladder and the rules at two later
moments and judge the roles that were kept; then come the row and the commit of an
incident for those refused.  `edited` and `was` are histories: which of ladder and
rules were edited under a check, and what the rule has said at each moment of it.

**RateLimiter** is the token bucket in whole numbers: time and tokens are counted in
units of which `Refill` make a token.  `Watch` starts a window at any moment.

**Formats** has one action for each thing a member types: a grid reference
(`Mark` or `Declined`), a term (`Term`), a start (`Schedule`).  What the code does
to it is in the operators (`ParseGrid, FormatGrid, East, Down, ToEast, ToNorth,
Plus, Stored, Starts`), and the properties compare its end with its beginning.

**Compositions.**  `MCTTLCache` sets `RconConnection` beside the cache, `MCPanels`
`MapPanel, Scaffold, Telemetry, Boot, Formats, CommandGate` and `RateLimiter`
beside `GuildConfig`: `part` picks one at the start, and the others rest.  They
share no state with each other that the properties speak of.  What all handlers
share is the connection and the guild's row.  That others commit is an action
of `Ladder`, `GuildConfig` and `Scaffold`, and in `CommandGate` of the other checks;
elsewhere a statement and its commit are one step.  That a teardown takes the rows
is an action of `RoleGrants`, `Teams`, `Ladder`, `ServerLinks`, `Telemetry` and `Boot`;
`EventCog`, `GuildConfig`, `MapPanel`, `Scaffold` and `CommandGate` leave it out, and
what they promise is promised for a guild that is not torn down meanwhile.
`RoleGrants`, `MapPanel` and `Telemetry` are run as they are; the other `MC...`
modules add symmetry sets and sequences for TLC and nothing else.  Operators whose comment begins
*Mutant of* are plausible bugs used to check that a property can fail; no
specification refers to them.

## 4 The runs

`tlc -config <run>.cfg <module>`; each finishes in three minutes on a small
machine.

| run | module | properties | instance |
|---|---|---|---|
| `event_safety` | `MCEventCog` | TypeOK, EndedEventHoldsNobody, RemindedOncePerFault | 1 event, 2 members, 2 interactions in flight, 3 clicks, the ticker, 1 crash or fault |
| `event_exclusive` | `MCEventCog` | TerminalIsFinal, ImplementsLifecycle | 1 event, 2 interactions, `Exclusive` |
| `event_liveness` | `MCEventCog` | EventsEndForGood | 1 event, 1 interaction in flight, 3 clicks, the ticker, 1 fault |
| `rank_sweep` | `RoleGrants` | TypeOK, HeldIsTracked, TempRankEnds | 1 post, 2 moderators, terms 1 and permanent, 4 clicks and teardowns, 1 fault, 2 acts by hand, `Serial` |
| `cache_flights` | `MCTTLCache` | PartsTypeOK, SingleFlight, CallsReturn, OneConnection, DownIsRepaired | 1 key, 3 callers, 1 change, 1 cancellation; or 1 link, 3 callers, 6 logins, 3 losses or refusals |
| `link_safety` | `MCServerLinks` | TypeOK, RegistryMatchesStore, ConnectionsKept | 2 guilds, 2 handlers, 3 changes, 1 teardown, 1 fault |
| `link_serial` | `MCServerLinks` | ListenerMatchesLinks, StaleStatusHeals | 2 guilds, 3 changes, 2 faults, `Serial` |
| `team_units` | `MCTeams` | TypeOK, BuiltIsTracked, DisbandEnds | 2 handlers, 2 builds, 1 fault, 1 teardown |
| `ladder_edits` | `MCLadder` | TypeOK, AdminRolesSpared, BotRolesRemembered | 2 handlers, 3 names, 3 roles, 1 hand, 1 fault, 1 teardown, `Serial` |
| `panels` | `MCPanels` | PartsTypeOK and the twelve below | the eight parts below; 366,584 states |
| `event_race`, `feed_rows` | `MCEventCog`, `Telemetry` | expected to be violated, see section 5 | |

What `panels` checks, part by part.  Its bounds and values are CONSTANTS that `panels.cfg`
sets, so that the proofs about it hold for others too.

| part | property | it says | instance |
|---|---|---|---|
| GuildConfig | KeepsPromise | each edit is applied once, to the settings as they are, changes only what it names, and is on disk when it is answered | 2 handlers on different columns (`Apart`), 3 runs, 1 crash |
| | CalmPanelIsLive | a panel refreshed with nothing else going on shows the settings | |
| MapPanel | UndisturbedRunRepairs | whatever overlaps, failures and deletions have left, one edit on its own puts the message right | 2 handlers, 2 marks, 5 interactions, 1 failure or crash, 1 message deleted |
| Scaffold | NeverDuplicated | no channel or category twice, whatever was broken off before | 2 applications one after the other (`OneAtATime`), a template of 2 channels in one category, 1 failure or crash, 1 deletion by hand |
| | FinishedMeansDone | "Configuration saved" is said of what was held at Finish, committed, with every channel there | |
| Telemetry | OwnServerAndRecent | a guild told that its server is reachable has heard from its own server, and recently | 2 guilds, 2 tokens, 2 POSTs one at a time, 1 reply, 1 teardown or restart |
| Boot | UpMeansReady | a bot that is up has the whole schema, and rows for its guilds | migrations of 2 and 1 statements, 2 guilds, 2 crashes, 3 moves |
| | SettingsOutlive | only a teardown takes away what was set | |
| Formats | InputsComeBack | references, pixels and times come back as they were typed | references of 2 to 10 digits, those off the map too; instants at the clock's seconds and minutes, up to the last date there is |
| CommandGate | VerdictIsOfOneMoment | the verdict is what the rule said of the interaction's user and roles at one moment of the check, unless ladder and rules were both edited under it | 1 call of one user (checks share nothing but the commit of incidents), 2 roles, 2 rungs, 2 promotions or edits, 1 crash |
| RateLimiter | BurstIsBounded | a window lets through no more than a full bucket and its refills | 1 key, 2 tokens of 3 units each, 12 units of time |
| | RefusedOnlyBriefly | who is refused had a call through less than a refill ago | |

*Why the bounds are enough for the cases that matter.*  Every conflict in this
code is between two handlers, or a handler and a loop or teardown, on one
object; two handlers and one fault give every such pair at every pair of awaits,
with a failure in any place.  Three clicks let a third one find what two
left behind; two builds let a name be used again after a disband; three
callers let a waiter be cancelled beside a leader and another waiter; two guilds are the
least that share a listener.  Two crashes hit a start and the start after it; 6
logins and 3 losses let the watchdog fail, reconnect, lose the new connection and
be cancelled in the middle of the next login.  The map's 5 interactions are two that
overlap, two more, and one to repair.  The bucket's clock runs four refills, twice what
it holds.  For the safety properties that are proved, the bounds do not matter
at all.

*Deadlock* is checked in every listed run but `cache_flights`, `panels` and `feed_rows`, where
the bounds (attempts to log in, moves, the end of the clock) end the behaviour; in the
others it says little: a loop may always begin again, or another part of the bot
run a statement (the ticker, the sweep, the poll, `Clear`, `ensure_guild`, a
commit).  That handlers do not wait for each other for ever is what the liveness
properties say.

*Fairness.*  `FairSpec` gives weak fairness to each handler's and loop's own
steps: asyncio resumes a coroutine whose await is done, Discord and SQLite
answer or fail every call, and discord.py runs a loop again (the error handlers
call `restart`).  It does not make anybody click and no fault has to happen or to stop, other
than by `MaxFaults`.  `RoleGrants` adds strong fairness to `SweepStrips`: a
refusal that Discord never takes back keeps the rank for ever, and the
code's answer to one that is taken back, trying again in the next sweep,
is what `TempRankEnds` is about.  `TimePasses` is fair.  In `RconConnection` the
watchdog and the handler that opens or closes the link are fair; commands,
losses and the call of `close` are not.

What each liveness property says: every event that opens ends and stays ended,
though its creation was cut short or the ticker raised (`EventsEndForGood`); a
rank given for a term only, is taken off (`TempRankEnds`); every call of the cache
returns (`CallsReturn`); a link that is down is connected again, as long as losses and
refusals do not go on for ever (`MaxDrops`) and nobody closes it
(`DownIsRepaired`; there are more logins than losses, so that it is never
the bound on logins that ends the retrying); a stale status of a replaced link is
replaced if the new one is polled (`StaleStatusHeals`); when several handlers delete
one team they stop each other (the second deletion of an object is NotFound) but one
gets through (`DisbandEnds`, promised to those that read the cache with nothing wrong
since).

## 5 What TLC refutes

Listed, with a finding in `PROJECT.json`:

- `event_race`: `set_status` checks a row and writes it after another await;
  two clicks, or a click and the ticker, take a cancelled event to done or
  reopen a done one as closed (`services/events.py:163`).
- `feed_rows`: a JSON integer that no float can hold makes `float()` raise
  OverflowError, which `_coerce_float` and `_parse_position` do not catch; the
  whole snapshot is lost, where the module says that a bad field drops just
  its row (`serverlink/feed.py:69`).

Kept beside them as configurations that reproduce a trace; each states what a
comment or a document of the repository says, or what one might expect:

| configuration | module | what the trace shows |
|---|---|---|
| `event_forbidden.cfg` | `MCEventCog` | withdraw and teardown forget a grant whose role Discord would not take off |
| `cache_cancel.cfg` | `TTLCache` | cancelling one caller cancels the others |
| `cache_invalidate.cfg` | `TTLCache` | a fetch in flight stores what was invalidated |
| `rank_overlap.cfg` | `RoleGrants` | a /rank records its grant between a revocation's `remove_roles` and `revoke_grant`, which takes the new row: the rank is held and nothing tracks it (`cogs/roles.py:177`) |
| `link_listener.cfg` | `MCServerLinks` | two changes overlap while the listener is being started or stopped, and it ends up running for nobody or not running (`cogs/serverlink.py:353`) |
| `link_teardown.cfg` | `MCServerLinks` | a guild's teardown leaves its link running |
| `team_orphan.cfg` | `MCTeams` | a create that records its team after a teardown has read the table loses its row to the cascade (`cogs/setup.py:658`) |
| `ladder_unmark.cfg` | `MCLadder` | without any overlap: a role that the bot made is left out by a custom ladder and taken in again by a later setup, as one that was adopted |
| `ladder_overlap.cfg` | `MCLadder` | two edits overlap: one looks up the role that the other has made and not yet written, takes it for an admin's, and the mark is lost |
| `wizard_overlap.cfg` | `MCPanels` | two applications of a template both find a category missing and both create it |
| `map_stale.cfg` | `MapPanel` | two edits publish in the other order than they read the markers, and the older picture stays (`cogs/map.py:279`) |
| `feed_revoked.cfg` | `Telemetry` | a POST whose token is revoked while its body is awaited is still ingested |
| `feed_order.cfg` | `Telemetry` | of two POSTs under way the older lands last |
| `boot_half.cfg` | `MCBoot` | after a crash inside a migration no start gets past it (`db.py:52`) |

Further operators state what does not hold, for whoever wants the trace:
`PanelIsLive` of `GuildConfig` (two panels, or a panel and a command: what is on
screen is not "always exactly what's live", `cogs/config.py:151-153`), and
`KeepsPromise` with `Apart = FALSE` in `panels.cfg` (two edits of the
features, the first is lost); `CancelChangesNothing` of `Scaffold` ("Nothing was
changed.", `cogs/setup.py:463`, while a Finish is under way); `RowsGuaranteed` of
`Boot` (`services/guilds.py:10-11`, after a teardown); `AlwaysExplained` of
`Formats` (a duration or a date beyond datetime's years raises OverflowError,
which nobody turns into an answer, `services/grants.py:53`);
`VerdictIsAlwaysOfOneMoment` of `CommandGate` (the old ladder judged by a new
threshold: a verdict that the rule gave at no moment) and `VerdictIsOfLiveRoles`
(somebody promoted or demoted while the check runs gets the verdict of before).

Seen on the way, without a model: `cogs/serverlink.py:423` names a command
"/server set-secret" that there is none of; `serverlink/base.py:28-29` has status
"always returned, never raised", and that of an RCON link lets through
what `players` raises; `parse_grid` takes characters such as "²" for digits, and
`int()` then raises a ValueError of its own.

## 6 The proofs

`tlapm <module>_proofs.tla` checks them; all hold for every value of the
constants, from the assumptions that the modules name (bounds are naturals, `Nil`
is not a value, the ticker is not an interaction).

| module | theorem | states | along |
|---|---|---|---|
| `EventCog_proofs` | `TypeCorrect`, `EndedHoldsNobody` | `TypeOK`, `EndedEventHoldsNobody` | `RoleInv`: a handler's record fits its stage, one creation at a time has an event's slot, a role that is not live is held by nobody, and a handler past its release has wound the role up |
| | `RemindersBounded` | `RemindedOncePerFault` | `ReminderInv`: an event that is not marked has been posted at most once per fault, unless the ticker stands between post and mark |
| | `TerminalFinal`, `LifecycleImplemented` | `TerminalIsFinal`, `ImplementsLifecycle`, given `Exclusive` | `ExclusiveInv`: one writer for an event, so what `CheckStatus` found still holds; then each action maps to an action of `EventLifecycle` or a stutter |
| `RoleGrants_proofs` | `RankTypes`, `RanksTracked` | `TypeOK`; `HeldIsTracked`, given `Serial` and with its named exceptions | `TrackInv`: row ids are fresh, and a handler or sweep about to forget has stripped first, or another row speaks for the post, or its row is lost already |
| `TTLCache_proofs` | `CacheTypes`, `FetchesAreSingleFlight` | `TypeOK`, `SingleFlight` | `FlightInv`: `_inflight` names the leader, and only a live future is waited for |
| | `LinkHasOneConnection` | `OneConnection` of `RconConnection` | `ConnectionStage`: the watchdog leaves and logs in with nothing held, and once close is under way it is doomed or done |
| `ServerLinks_proofs` | `LinkTypes`, `RegistryAgrees` | `TypeOK`, `RegistryMatchesStore` | `RegistryInv`: the last handler in the queue between store and swap holds what the row says |
| | `NoConnectionIsForgotten` | `ConnectionsKept` | `ConnectionInv`: no two links bear the same number, and a number that is open is an RCON link's |
| | `SerialChangesKeepTheListener` | `ListenerMatchesLinks`, given `Serial` | `ListenerInv`: only the change in flight touches the listener, and at each of its stages the socket, the field and the registry stand in one of a few relations |
| `Teams_proofs` | `TeamTypes`, `TeamsTracked` | `TypeOK`, `BuiltIsTracked` | `TeamInv`: a build without a row is its create's alone, what is built and what is left to build are disjoint, channels imply their category, so what a handler has seen is all there is |
| `Ladder_proofs` | `LadderTypes`, `AdminSpared` | `TypeOK`, `AdminRolesSpared` | `FlagsTrue`: no flag, read, carried or stored, claims a role the bot did not make |
| | `MarksRemembered` | `BotRolesRemembered`, given `Serial` and with its named exceptions | `MarkInv`: there is one editor; what no edit is changing is committed; ids are fresh; a role of the bot's that is taken unmarked has a marked row or is forgotten; a custom ladder knows every mark there is |
| `GuildConfig_proofs` | `ConfigTypes`, `ApartHandlersKeepPromise` | `TypeOK`; `KeepsPromise` (the refinement of `Settings`), given `Apart` | what a handler carries fits its stage and it is in `dirty` only between write and commit (`Stages`); handlers in flight write different columns (`EditsApart`), so that what one has read of its own is still so (`SeenFresh`); then each statement maps to a step of `Settings` or a stutter |
| | `CalmPanelsAreLive` | `CalmPanelIsLive` | `CalmAlone`: a handler that has met nobody has read the settings as they are |
| | `UndisturbedRunsRepair` | `UndisturbedRunRepairs` of `MapPanel` | `MapInv`: an interaction that has met nobody and no fault finds everybody else idle, carries the recorded message and, once it has rendered, the markers as they are |
| | `NothingTwice`, `FinishedIsDone` | `NeverDuplicated`, `FinishedMeansDone` of `Scaffold`, given `OneAtATime` | `WizardInv`: ids are fresh, every name is there once (`Tidy`); the category or channel that an application is about to create is not there (`Lacking`); what lies behind one that nothing disturbed is written, committed and made (`Settled`) |
| `MCPanels_proofs` | `LimiterTypes`, `BurstsAreBounded`, `RefusalsAreBrief` | `LimiterTypeOK`, `BurstIsBounded`, `RefusedOnlyBriefly` | `PaidFor`: what a bucket holds and what it has let through is never more than a full one and the window's refills, and at least what came in since the last call |
| | `VerdictsAreOfOneMoment` | `VerdictIsOfOneMoment` of `CommandGate` | `GateInv`: a check that waits for the rules holds the ladder as it is, unless it was edited, and unless the rules were, what they say of the ladder it holds is what the rule said at some moment of it; a lemma on the highest of finitely many rungs says what `resolve_rank` finds |
| | `BootsReady`, `SettingsSurvive` | `UpMeansReady`, `SettingsOutlive` of `Boot` | `BootInv`: a recorded migration is there as a whole, the one being applied is the next; once `on_ready` has come, a guild without a row was torn down or is on somebody's list |
| | `RepliesAreOwn` | `OwnServerAndRecent` of `Telemetry` | `FeedInv`: there is an assignment of the tokens made so far to guilds such that rows, links, the mods' settings, POSTs, replies and snapshots each hold their own guild's; a new token extends it |
| | `TypedComesBack` | `InputsComeBack` of `Formats` | no state to speak of: lemmas on `\div` and `%` (rounding to the nearest spot, clamping to the picture, adding a whole number of units, cutting off seconds) |
| | `PartsTypes` | `PartsTypeOK` of `panels`, the eight components, given `OneAtATime` | the invariants above, and `CommandGate`'s and `Telemetry`'s types |

None of the properties is inductive by itself: each speaks of states at rest,
and holds because of what handlers carry between their awaits.  The strengthened
invariants that are stated in the modules were checked by TLC before they were
proved, and so was `WizardInv`; the others are stated beside their proofs.  In each proof module
there is a lemma for the initial states, one for each action, a step lemma that
splits `Next`, and the temporal theorem by PTL.

Every invariant and every action property that a passing run checks is a theorem,
under the switch or assumption named in the table where there is one.  Only
model-checked are

- the liveness properties, `EventsEndForGood`, `TempRankEnds`, `CallsReturn`,
  `DownIsRepaired`, `StaleStatusHeals` and `DisbandEnds`: fairness is ENABLED, which
  is beyond the prover;
- what `event_race` and `feed_rows` refute: a counterexample is TLC's to give.

The switches are real hypotheses and no more: `Exclusive`, `Serial`, `Apart` and
`OneAtATime` say that two interactions do not overlap on one object, which
the code does not prevent.  Section 5 keeps a trace for each of them of what happens
when they do.  The assumptions
of `MCPanels` are on sizes only: numbers are naturals, `Nil` is no value, a
migration has at least one statement, the preselected template has no channels, a
minute is whole seconds and no unit of a duration is shorter than one, a ladder has
finitely many rungs.

Beyond the prover in principle: what recursive functions compute for
every input (induction over data); none is modelled.

## 7 What is not modelled, and the plan

Left out for good: wording, embeds, views' layout, logging and the audit
channel's posts; the drawing of maps; the parsing of RCON's tables of players and of a
snapshot's fields beyond whether a row is well formed; the A2S link, which keeps
no state (what the poll does with one is in `ServerLinks`); the self-test
harness; the tools and deployment scripts; `services/persistence.py`, which
nothing calls; the assignment of members to teams, which touches neither the
table nor the objects; the rounding of the limiter's floats; how long the
watchdog waits.  `PROJECT.json` has the reason for each component.

Planned, in this order:

1. The guild's teardown in `EventCog`, `GuildConfig`, `MapPanel`, `Scaffold` and
   `CommandGate`, and one across `EventCog`, `Teams` and `Ladder`, which share the
   transaction that it ends.
2. What can be promised of the two hazards of which section 5 has only a trace: a
   removal refused during an event's release (`cogs/events.py:294`), and a fetch
   that began before an invalidation (`cache.py:97`).
3. `RconConnection` inside `ServerLinks`, so that a connection that is replaced
   is closed while its watchdog is at work.
4. Sharper statements of what is proved only under a switch: without it, that
   every exception has one of the causes that section 5 names.
