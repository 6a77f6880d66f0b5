---------------------------- MODULE ServerLinks ----------------------------
(***************************************************************************)
(* The game-server links of all guilds (cogs/serverlink.py): changing a    *)
(* guild's link, the status poll, and the one HTTP listener that all feed  *)
(* links share.                                                            *)
(*                                                                         *)
(* As in EventCog, an action is one awaited call with the local code up to *)
(* the next one.  A link is named by the number of the change that made    *)
(* it, which stands for its host, port and secret; so is the listener that *)
(* the change starts.  The number 0 is the start of the cog.               *)
(***************************************************************************)
EXTENDS Naturals

CONSTANTS
    Guilds,
    Handlers,    \* interactions that can be in flight together
    Kinds,       \* backends that admins choose
    Nil,
    MaxChanges,  \* bound on changes of links
    MaxFaults,   \* bound on restarts and refused binds
    MaxTeardowns,
    Serial       \* TRUE: one change at a time in the whole bot

Backends == {"null", "a2s", "rcon", "feed"}
Link == [id : Nat, backend : Backends]

ASSUME KindsAssumption == Kinds \subseteq Backends
ASSUME NilAssumption == Nil \notin Nat /\ Nil \notin Link
ASSUME BoundsAssumption ==
    /\ {MaxChanges, MaxFaults, MaxTeardowns} \subseteq Nat
    /\ Serial \in BOOLEAN

VARIABLES
    \* the database
    known,   \* guilds that have a guilds row
    stored,  \* their server_links rows
    \* the cog's memory
    links,   \* self.links
    status,  \* self._status_cache: the link that each entry tells of
    runner,  \* self._feed_runner
    task,    \* what each interaction carries across an await
    todo,    \* the (guild, link) pairs poll_status has not been through
    polling,
    \* the world
    opened,  \* RCON links that keep a connection: opened and not closed
    port,    \* the listener that is bound to the feed port
    \* the environment, its bounds, and history
    changes, tickets, faults, teardowns,
    blocked, \* the system refused the feed port once
    leaked   \* links whose row could not be stored

rows == <<known, stored>>
listener == <<runner, port>>
poll == <<todo, polling>>
env == <<changes, tickets, faults, teardowns, blocked, leaked>>
vars == <<rows, links, status, listener, task, poll, opened, env>>

-----------------------------------------------------------------------------
Task == [pc : {"idle", "open", "store", "swap", "close", "bind", "adopt",
               "forget"},
         guild : Guilds \cup {Nil}, link : Link \cup {Nil},
         old : Link \cup {Nil}, ticket : Nat]

Idle == [pc |-> "idle", guild |-> Nil, link |-> Nil, old |-> Nil, ticket |-> 0]
Quiet == \A h \in Handlers : task[h] = Idle

Goto(h, pc) == task' = [task EXCEPT ![h].pc = pc]
Finish(h) == task' = [task EXCEPT ![h] = Idle]

Polled(l) == l # Nil /\ l.backend \in {"a2s", "rcon"}

\* _any_guild_uses_feed
AnyFeed(registry) ==
    \E g \in Guilds : registry[g] # Nil /\ registry[g].backend = "feed"

Init ==
    /\ known = Guilds /\ stored = [g \in Guilds |-> Nil]
    /\ links = [g \in Guilds |-> Nil] /\ status = [g \in Guilds |-> Nil]
    /\ runner = Nil /\ port = Nil
    /\ task = [h \in Handlers |-> Idle]
    /\ todo = {} /\ polling = FALSE
    /\ opened = {}
    /\ changes = 0 /\ tickets = 0 /\ faults = 0 /\ teardowns = 0
    /\ blocked = FALSE /\ leaked = {}

-----------------------------------------------------------------------------
(***************************************************************************)
(* _apply_link.  Only an RCON link has anything to open or to close.       *)
(***************************************************************************)

\* Mutant of Apply: the link is not numbered.
ApplyUnnumbered(h, g, backend) ==
    /\ task[h] = Idle
    /\ Serial => Quiet
    /\ changes < MaxChanges /\ changes' = changes + 1
    /\ task' = [task EXCEPT ![h] =
                   [pc |-> IF backend = "rcon" THEN "open" ELSE "store",
                    guild |-> g, link |-> [id |-> Nil, backend |-> backend],
                    old |-> Nil, ticket |-> 0]]
    /\ UNCHANGED <<rows, links, status, listener, poll, opened, tickets,
                   faults, teardowns, blocked, leaked>>

Apply(h, g, backend) ==
    /\ task[h] = Idle
    /\ Serial => Quiet
    /\ changes < MaxChanges /\ changes' = changes + 1
    /\ task' = [task EXCEPT ![h] =
                   [pc |-> IF backend = "rcon" THEN "open" ELSE "store",
                    guild |-> g, link |-> [id |-> changes', backend |-> backend],
                    old |-> Nil, ticket |-> 0]]
    /\ UNCHANGED <<rows, links, status, listener, poll, opened, tickets,
                   faults, teardowns, blocked, leaked>>

Open(h) ==
    /\ task[h].pc = "open"
    /\ \/ opened' = opened \cup {task[h].link.id} /\ Goto(h, "store")
       \/ Finish(h) /\ UNCHANGED opened
    /\ UNCHANGED <<rows, links, status, listener, poll, env>>

\* The database works its queue off in order, so whoever stored first is
\* resumed first; his place in the queue is his ticket.
Store(h) ==
    LET g == task[h].guild  l == task[h].link IN
    /\ task[h].pc = "store"
    /\ g \in known
    /\ stored' = [stored EXCEPT ![g] = l]
    /\ tickets' = tickets + 1
    /\ task' = [task EXCEPT ![h].pc = "swap", ![h].ticket = tickets']
    /\ UNCHANGED <<known, links, status, listener, poll, opened, changes,
                   faults, teardowns, blocked, leaked>>

\* Without a guilds row the insert fails and the handler ends.
StoreFails(h) ==
    /\ task[h].pc = "store"
    /\ task[h].guild \notin known
    /\ leaked' = leaked \cup {task[h].link.id}
    /\ Finish(h)
    /\ UNCHANGED <<rows, links, status, listener, poll, opened, changes,
                   tickets, faults, teardowns, blocked>>

\* Mutant of Sync: a listener once started is never stopped.
SyncNeverStops(h, registry) ==
    \/ /\ AnyFeed(registry) /\ runner = Nil
       /\ Goto(h, "bind") /\ UNCHANGED port
    \/ /\ ~(AnyFeed(registry) /\ runner = Nil)
       /\ Finish(h) /\ UNCHANGED port

\* _sync_feed_listener up to its first await, with the links as they are then
Sync(h, registry) ==
    \/ /\ AnyFeed(registry) /\ runner = Nil
       /\ Goto(h, "bind") /\ UNCHANGED port
    \/ /\ ~AnyFeed(registry) /\ runner # Nil
       /\ port' = (IF port = runner THEN Nil ELSE port)
       /\ Goto(h, "forget")
    \/ /\ AnyFeed(registry) <=> runner # Nil
       /\ Finish(h) /\ UNCHANGED port

\* Mutant of FirstInQueue: handlers are resumed in any order.
AnyOrder(h) == TRUE

FirstInQueue(h) ==
    \A i \in Handlers : task[i].pc = "swap" => task[h].ticket <= task[i].ticket

\* Mutant of Swap: the link replaced is never closed.
SwapKeepsOld(h) ==
    LET g == task[h].guild IN
    /\ task[h].pc = "swap" /\ FirstInQueue(h)
    /\ links' = [links EXCEPT ![g] = task[h].link]
    /\ status' = [status EXCEPT ![g] = Nil]
    /\ Sync(h, links')
    /\ UNCHANGED <<rows, runner, poll, opened, env>>

Swap(h) ==
    LET g == task[h].guild IN
    /\ task[h].pc = "swap" /\ FirstInQueue(h)
    /\ links' = [links EXCEPT ![g] = task[h].link]
    /\ status' = [status EXCEPT ![g] = Nil]
    /\ \/ /\ links[g] # Nil /\ links[g].backend = "rcon"
          /\ task' = [task EXCEPT ![h].pc = "close", ![h].old = links[g]]
          /\ UNCHANGED port
       \/ /\ ~(links[g] # Nil /\ links[g].backend = "rcon")
          /\ Sync(h, links')
    /\ UNCHANGED <<rows, runner, poll, opened, env>>

CloseOld(h) ==
    /\ task[h].pc = "close"
    /\ opened' = opened \ {task[h].old.id}
    /\ Sync(h, links)
    /\ UNCHANGED <<rows, links, status, runner, poll, env>>

-----------------------------------------------------------------------------
(***************************************************************************)
(* _start_feed_listener binds, is suspended, and only then sets            *)
(* _feed_runner; _stop_feed_listener frees the port, is suspended, and     *)
(* only then clears it.                                                    *)
(***************************************************************************)
Bind(h) ==
    /\ task[h].pc = "bind" /\ port = Nil
    /\ port' = task[h].link.id
    /\ Goto(h, "adopt")
    /\ UNCHANGED <<rows, links, status, runner, poll, opened, env>>

\* OSError: our own other listener has the port ...
BindTaken(h) ==
    /\ task[h].pc = "bind" /\ port # Nil
    /\ Finish(h)
    /\ UNCHANGED <<rows, links, status, listener, poll, opened, env>>

\* ... or the system refuses it.
BindRefused(h) ==
    /\ task[h].pc = "bind"
    /\ faults < MaxFaults /\ faults' = faults + 1
    /\ blocked' = TRUE
    /\ Finish(h)
    /\ UNCHANGED <<rows, links, status, listener, poll, opened, changes,
                   tickets, teardowns, leaked>>

Adopt(h) ==
    /\ task[h].pc = "adopt"
    /\ runner' = task[h].link.id
    /\ Finish(h)
    /\ UNCHANGED <<rows, links, status, port, poll, opened, env>>

Forget(h) ==
    /\ task[h].pc = "forget"
    /\ runner' = Nil
    /\ Finish(h)
    /\ UNCHANGED <<rows, links, status, port, poll, opened, env>>

-----------------------------------------------------------------------------
(***************************************************************************)
(* poll_status: it works from a copy of self.links and writes what each    *)
(* link says when that link answers.                                       *)
(***************************************************************************)

\* Mutant of PollStart: a link that has a status is not asked again.
PollStartOnce ==
    /\ ~polling /\ polling' = TRUE
    /\ todo' = {[guild |-> g, link |-> links[g]] :
                   g \in {x \in Guilds : Polled(links[x]) /\ status[x] = Nil}}
    /\ UNCHANGED <<rows, links, status, listener, task, opened, env>>

PollStart ==
    /\ ~polling /\ polling' = TRUE
    /\ todo' = {[guild |-> g, link |-> links[g]] :
                   g \in {x \in Guilds : Polled(links[x])}}
    /\ UNCHANGED <<rows, links, status, listener, task, opened, env>>

PollWrites(g) ==
    /\ \E r \in todo :
          /\ r.guild = g
          /\ status' = [status EXCEPT ![g] = r.link]
          /\ todo' = todo \ {r}
    /\ UNCHANGED <<rows, links, listener, task, polling, opened, env>>

PollFails ==
    /\ \E r \in todo : todo' = todo \ {r}
    /\ UNCHANGED <<rows, links, status, listener, task, polling, opened, env>>

PollEnd ==
    /\ polling /\ todo = {} /\ polling' = FALSE
    /\ UNCHANGED <<rows, links, status, listener, task, todo, opened, env>>

-----------------------------------------------------------------------------
(***************************************************************************)
(* The rest of the bot.                                                    *)
(***************************************************************************)
\* A guild's teardown deletes its row, and its link's with it.
Teardown(g) ==
    /\ g \in known
    /\ teardowns < MaxTeardowns /\ teardowns' = teardowns + 1
    /\ known' = known \ {g}
    /\ stored' = [stored EXCEPT ![g] = Nil]
    /\ UNCHANGED <<links, status, listener, task, poll, opened, changes,
                   tickets, faults, blocked, leaked>>

\* /setup and /config put the row back.
Setup(g) ==
    /\ g \notin known /\ known' = known \cup {g}
    /\ UNCHANGED <<stored, links, status, listener, task, poll, opened, env>>

\* The process ends; cog_load builds and opens the stored links, starts the
\* listener if one is a feed, and on_ready adds the rows that are missing.
Restart ==
    /\ faults < MaxFaults /\ faults' = faults + 1
    /\ known' = Guilds
    /\ links' = stored
    /\ status' = [g \in Guilds |-> Nil]
    /\ opened' = {stored[g].id : g \in {x \in Guilds :
                     stored[x] # Nil /\ stored[x].backend = "rcon"}}
    /\ runner' = (IF AnyFeed(stored) THEN 0 ELSE Nil) /\ port' = runner'
    /\ task' = [h \in Handlers |-> Idle]
    /\ todo' = {} /\ polling' = FALSE
    /\ blocked' = FALSE /\ leaked' = {}
    /\ UNCHANGED <<stored, changes, tickets, teardowns>>

HandlerStep(h) ==
    \/ Open(h) \/ Store(h) \/ StoreFails(h) \/ Swap(h) \/ CloseOld(h)
    \/ Bind(h) \/ BindTaken(h) \/ Adopt(h) \/ Forget(h)

PollStep == PollStart \/ PollFails \/ PollEnd \/ \E g \in Guilds : PollWrites(g)

Next ==
    \/ \E h \in Handlers :
          \/ HandlerStep(h) \/ BindRefused(h)
          \/ \E g \in Guilds, b \in Kinds : Apply(h, g, b)
    \/ PollStep
    \/ \E g \in Guilds : Teardown(g) \/ Setup(g)
    \/ Restart

Spec == Init /\ [][Next]_vars

(***************************************************************************)
(* asyncio resumes handlers and the poll; the poll runs again after every  *)
(* interval.  status() does not raise for ever.                            *)
(***************************************************************************)
Fairness ==
    /\ \A h \in Handlers : WF_vars(HandlerStep(h))
    /\ WF_vars(PollStep)
    /\ \A g \in Guilds : SF_vars(PollWrites(g))

FairSpec == Spec /\ Fairness

-----------------------------------------------------------------------------
TypeOK ==
    /\ known \in SUBSET Guilds
    /\ stored \in [Guilds -> Link \cup {Nil}]
    /\ links \in [Guilds -> Link \cup {Nil}]
    /\ status \in [Guilds -> Link \cup {Nil}]
    /\ runner \in Nat \cup {Nil} /\ port \in Nat \cup {Nil}
    /\ task \in [Handlers -> Task]
    /\ todo \in SUBSET [guild : Guilds, link : Link] /\ polling \in BOOLEAN
    /\ opened \in SUBSET Nat
    /\ changes \in Nat /\ tickets \in Nat /\ faults \in Nat /\ teardowns \in Nat
    /\ blocked \in BOOLEAN /\ leaked \in SUBSET Nat

Swapping(g) == {h \in Handlers : task[h].pc = "swap" /\ task[h].guild = g}

\* What the bot works with is what a restart would rebuild: once no handler
\* stands between its row and the registry, the two agree, in whatever order
\* two admins changed the link (_apply_link).
RegistryMatchesStore ==
    \A g \in Guilds :
        Swapping(g) = {} /\ stored[g] # Nil => links[g] = stored[g]

\* Who is to close the connection of a link: the registry, a handler, nobody.
Kept(id) ==
    \/ \E g \in Guilds : links[g] # Nil /\ links[g].id = id
    \/ \E h \in Handlers :
          \/ task[h].pc \in {"store", "swap"} /\ task[h].link.id = id
          \/ task[h].pc = "close" /\ task[h].old.id = id

\* No connection is forgotten: each is the registry's or a handler's, who
\* closes exactly what it replaced, unless its row could not be stored.
ConnectionsKept == \A id \in opened : Kept(id) \/ id \in leaked

(***************************************************************************)
(* The inductive invariants.                                               *)
(***************************************************************************)
\* A handler at work names its guild and its link, and the link it closes.
TasksNamed ==
    \A h \in Handlers : task[h].pc # "idle" =>
        /\ task[h].guild \in Guilds /\ task[h].link \in Link
        /\ task[h].pc = "close" => task[h].old \in Link

\* The last handler in the queue for a guild holds the link its row says.
LastStored ==
    \A g \in Guilds : \A h \in Swapping(g) :
        /\ task[h].ticket <= tickets
        /\ /\ stored[g] # Nil
           /\ \A i \in Swapping(g) : task[i].ticket <= task[h].ticket
           => task[h].link = stored[g]

RegistryInv == TypeOK /\ TasksNamed /\ LastStored /\ RegistryMatchesStore

\* A number names one link, and only RCON links have connections.
AllLinks ==
    ({stored[g] : g \in Guilds} \cup {links[g] : g \in Guilds}
     \cup {task[h].link : h \in Handlers} \cup {task[h].old : h \in Handlers})
    \ {Nil}

NumbersName ==
    /\ \A l \in AllLinks : l.id <= changes
    /\ \A l, m \in AllLinks : l.id = m.id => l = m
    /\ \A l \in AllLinks : l.id \in opened => l.backend = "rcon"
    /\ \A h \in Handlers : task[h].pc = "open" => task[h].link.backend = "rcon"
    /\ \A id \in opened : id <= changes

ConnectionInv == TypeOK /\ TasksNamed /\ NumbersName /\ ConnectionsKept

\* Under Serial, what the one handler at work has done to the listener.
Alone ==
    \A h, i \in Handlers : task[h].pc # "idle" /\ task[i].pc # "idle" => h = i

ListenerStage ==
    /\ \A h \in Handlers :
          /\ task[h].pc = "bind" => runner = Nil /\ port = Nil /\ AnyFeed(links)
          /\ task[h].pc = "adopt" =>
                port = task[h].link.id /\ runner = Nil /\ AnyFeed(links)
          /\ task[h].pc = "forget" => port = Nil /\ ~AnyFeed(links)
    /\ (\A h \in Handlers : task[h].pc \notin {"adopt", "forget"}) => port = runner
    /\ ~blocked
       /\ (\A h \in Handlers :
             task[h].pc \notin {"close", "bind", "adopt", "forget"})
       => (runner # Nil <=> AnyFeed(links))

ListenerInv == TypeOK /\ TasksNamed /\ (Serial => Alone /\ ListenerStage)

\* "One long-lived RCON connection per guild" (serverlink/rcon_link.py): every
\* connection is one that the registry, or a handler about to, can close.
OneConnectionPerGuild == \A id \in opened : Kept(id)

\* "Starts the listener if it's needed and not running; stops it if it's
\* running and no longer needed": at rest it runs just when a link is a feed.
ListenerMatchesLinks ==
    Quiet /\ ~blocked =>
        port = runner /\ (runner # Nil <=> AnyFeed(links))

\* "null: reports 'no server linked' gracefully": at rest no status of an
\* earlier link answers for a guild whose link is null.
NullReportsNoServer ==
    \A g \in Guilds :
        Quiet /\ ~polling /\ links[g] # Nil /\ links[g].backend = "null"
        => status[g] = Nil

\* "Configuration cleared" (cogs/setup.py): a guild torn down has no link.
TornDownIsUnlinked ==
    \A g \in Guilds : Quiet /\ g \notin known => links[g] = Nil

\* A status that the poll wrote for a link already replaced does not stay: if
\* the new link is polled, its own status replaces it (poll_status).
StaleStatusHeals ==
    \A g \in Guilds :
        Polled(links[g]) ~> status[g] = links[g] \/ ~Polled(links[g])
=============================================================================
