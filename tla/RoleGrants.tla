----------------------------- MODULE RoleGrants -----------------------------
(***************************************************************************)
(* /rank: ranks granted for good or for a term, their revocation, and the  *)
(* expire_grants sweep (cogs/roles.py over services/grants.py).            *)
(*                                                                         *)
(* As in EventCog, an action is one awaited call with the local code up to *)
(* the next one; a handler's locals across an await are its record in      *)
(* task, the sweep's are in sweep.  The guild's row, which every grant     *)
(* refers to, goes with a teardown and comes back with /config, /setup or  *)
(* the bot's next start.                                                   *)
(***************************************************************************)
EXTENDS Naturals, FiniteSets

CONSTANTS
    Posts,      \* a member together with a rank role he may hold
    Mods,       \* interactions that can be in flight together
    Terms,      \* terms a grant may be given for, or Nil: permanent
    Nil,
    MaxNow,     \* bound on the clock; every term ends by then
    MaxClicks,  \* bound on interactions
    MaxHands,   \* bound on what people do in Discord without the bot
    MaxFaults,  \* bound on crashes and escaped sweep exceptions
    Serial      \* TRUE: one interaction at a time on one post

ASSUME TermsAssumption == Terms \subseteq Nat \cup {Nil} /\ Nil \notin Nat
ASSUME PostsAssumption == Nil \notin Posts
ASSUME BoundsAssumption ==
    /\ {MaxNow, MaxClicks, MaxHands, MaxFaults} \subseteq Nat
    /\ Serial \in BOOLEAN

VARIABLES
    guild,           \* whether the guild's row exists
    grants, nextId,  \* role_grants rows of kind 'perma' and 'temp'
    present,         \* posts whose member is in the guild and role exists
    holds,           \* posts whose member holds the role
    task,            \* what each interaction carries across an await
    sweep,           \* where expire_grants stands
    due,             \* the rows of its query it has not been through
    row,             \* the row it is about to delete
    now, clicks, hands, faults,
    orphans          \* history: held posts whose row a teardown took, or was
                     \* never written after add_roles

bounds == <<now, clicks, hands, faults>>
store == <<guild, grants, nextId>>
vars == <<store, present, holds, task, sweep, due, row, bounds, orphans>>

-----------------------------------------------------------------------------
\* A row without an expiry is a 'perma' row.
Grant == [id : Nat, post : Posts, expires : Nat \cup {Nil}]

Task == [pc : {"idle", "add", "record", "remove", "forget"},
         post : Posts \cup {Nil}, expires : Nat \cup {Nil}]

Idle == [pc |-> "idle", post |-> Nil, expires |-> Nil]

Goto(m, pc) == task' = [task EXCEPT ![m].pc = pc]
Finish(m) == task' = [task EXCEPT ![m] = Idle]

Busy(p) == \E m \in Mods : task[m].post = p

\* due_expiries
DueExpiries(n) == {g \in grants : g.expires # Nil /\ g.expires <= n}

\* The sweep walks its rows by row id.
IsFirst(g) == g \in due /\ \A h \in due : g.id <= h.id

Init ==
    /\ guild = TRUE /\ grants = {} /\ nextId = 1
    /\ present = Posts /\ holds = {}
    /\ task = [m \in Mods |-> Idle]
    /\ sweep = "idle" /\ due = {} /\ row = Nil
    /\ now = 0 /\ clicks = 0 /\ hands = 0 /\ faults = 0
    /\ orphans = {}

\* An interaction that names post p passes its checks.
Click(m, p) ==
    /\ task[m] = Idle
    /\ p \in present
    /\ Serial => ~Busy(p)
    /\ clicks < MaxClicks /\ clicks' = clicks + 1
    /\ UNCHANGED <<store, present, holds, sweep, due,
                   row, now, hands, faults, orphans>>

-----------------------------------------------------------------------------
\* /rank member role [for]: compute_expiry, add_roles, record_grant
Rank(m, p, term) ==
    /\ Click(m, p)
    /\ term # Nil => now + term <= MaxNow
    /\ task' = [task EXCEPT ![m] =
                   [pc |-> "add", post |-> p,
                    expires |-> IF term = Nil THEN Nil ELSE now + term]]

AddRole(m) ==
    LET p == task[m].post IN
    /\ task[m].pc = "add"
    /\ \/ /\ p \in present
          /\ holds' = holds \cup {p}
          /\ Goto(m, "record")
       \/ Finish(m) /\ UNCHANGED holds      \* refused, or the member left
    /\ UNCHANGED <<store, present, sweep, due, row, bounds, orphans>>

RecordGrant(m) ==
    /\ task[m].pc = "record" /\ guild
    /\ grants' = grants \cup {[id |-> nextId, post |-> task[m].post,
                               expires |-> task[m].expires]}
    /\ nextId' = nextId + 1
    /\ orphans' = orphans \ {task[m].post}
    /\ Finish(m)
    /\ UNCHANGED <<guild, present, holds, sweep, due, row, bounds>>

\* Without the guild's row the insert fails its foreign key.
RecordFails(m) ==
    /\ task[m].pc = "record" /\ ~guild
    /\ orphans' = orphans \cup ({task[m].post} \cap holds)
    /\ Finish(m)
    /\ UNCHANGED <<store, present, holds, sweep, due, row, bounds>>

-----------------------------------------------------------------------------
\* The Revoke button and /admin rank-revoke: remove_roles, revoke_grant
Revoke(m, p) ==
    /\ Click(m, p)
    /\ task' = [task EXCEPT ![m] =
                   [pc |-> "remove", post |-> p, expires |-> Nil]]

RemoveRole(m) ==
    LET p == task[m].post IN
    /\ task[m].pc = "remove"
    /\ \/ /\ p \in present
          /\ holds' = holds \ {p} /\ orphans' = orphans \ {p}
          /\ Goto(m, "forget")
       \/ Finish(m) /\ UNCHANGED <<holds, orphans>>
    /\ UNCHANGED <<store, present, sweep, due, row, bounds>>

\* Every row for the post goes, of whatever kind.
ForgetGrants(m) ==
    /\ task[m].pc = "forget"
    /\ grants' = {g \in grants : g.post # task[m].post}
    /\ Finish(m)
    /\ UNCHANGED <<guild, nextId, present, holds, sweep, due, row, bounds,
                   orphans>>

-----------------------------------------------------------------------------
(***************************************************************************)
(* expire_grants: one query for the rows due, then for each of them        *)
(* remove_roles and revoke_grant_by_id.  A refused removal leaves the row  *)
(* for the next tick; a member or a role that is gone loses the row.       *)
(***************************************************************************)

\* Mutant of SweepStart: the query's rows lose their ids.
SweepStartPosts ==
    /\ sweep = "idle"
    /\ due' = {g.post : g \in DueExpiries(now)}
    /\ sweep' = "strip"
    /\ UNCHANGED <<store, present, holds, task, row, bounds, orphans>>

SweepStart ==
    /\ sweep = "idle"
    /\ due' = DueExpiries(now)
    /\ sweep' = "strip"
    /\ UNCHANGED <<store, present, holds, task, row, bounds, orphans>>

SweepStrips(p) ==
    /\ sweep = "strip" /\ p \in present
    /\ \E g \in due : IsFirst(g) /\ g.post = p /\ row' = g
    /\ holds' = holds \ {p} /\ orphans' = orphans \ {p}
    /\ sweep' = "drop"
    /\ UNCHANGED <<store, present, task, due, bounds>>

SweepFindsNobody ==
    /\ sweep = "strip"
    /\ \E g \in due : IsFirst(g) /\ g.post \notin present /\ row' = g
    /\ sweep' = "drop"
    /\ UNCHANGED <<store, present, holds, task, due, bounds, orphans>>

\* Mutant of SweepRefused: the row is dropped after a refusal too.
SweepRefusedForgets ==
    /\ sweep = "strip"
    /\ \E g \in due : IsFirst(g) /\ g.post \in present /\ row' = g
    /\ sweep' = "drop"
    /\ UNCHANGED <<store, present, holds, task, due, bounds, orphans>>

SweepRefused ==
    /\ sweep = "strip"
    /\ \E g \in due :
          IsFirst(g) /\ g.post \in present /\ due' = due \ {g}
    /\ UNCHANGED <<store, present, holds, task, sweep, row, bounds, orphans>>

SweepDrops ==
    /\ sweep = "drop"
    /\ grants' = {g \in grants : g.id # row.id}
    /\ due' = due \ {row}
    /\ sweep' = "strip" /\ row' = Nil
    /\ UNCHANGED <<guild, nextId, present, holds, task, bounds, orphans>>

SweepEnd ==
    /\ sweep = "strip" /\ due = {}
    /\ sweep' = "idle"
    /\ UNCHANGED <<store, present, holds, task, due, row, bounds, orphans>>

\* Mutant of SweepFault: nothing restarts the loop.
SweepDies ==
    /\ sweep # "idle"
    /\ faults < MaxFaults /\ faults' = faults + 1
    /\ sweep' = "dead" /\ due' = {} /\ row' = Nil
    /\ UNCHANGED <<store, present, holds, task, now, clicks, hands, orphans>>

\* An exception escapes the loop body; on_expire_grants_error restarts it.
SweepFault ==
    /\ sweep # "idle"
    /\ faults < MaxFaults /\ faults' = faults + 1
    /\ sweep' = "idle" /\ due' = {} /\ row' = Nil
    /\ UNCHANGED <<store, present, holds, task, now, clicks, hands, orphans>>

-----------------------------------------------------------------------------
(***************************************************************************)
(* The end of _teardown: the guild's row goes, and the cascade takes its   *)
(* grants while members keep the roles.  (The rank roles the bot had made  *)
(* are deleted before; for their posts that is Leaves.)                    *)
(***************************************************************************)
Teardown ==
    /\ clicks < MaxClicks /\ clicks' = clicks + 1
    /\ guild' = FALSE /\ grants' = {} /\ orphans' = holds
    /\ UNCHANGED <<nextId, present, holds, task, sweep, due, row,
                   now, hands, faults>>

\* ensure_guild: /config, /setup, and the bot when it sees the guild
EnsureGuild ==
    /\ ~guild /\ guild' = TRUE
    /\ UNCHANGED <<grants, nextId, present, holds, task, sweep, due, row,
                   bounds, orphans>>

-----------------------------------------------------------------------------
Crash ==
    /\ faults < MaxFaults /\ faults' = faults + 1
    /\ orphans' = orphans \cup {p \in holds :
                      \E m \in Mods : task[m].pc = "record" /\ task[m].post = p}
    /\ task' = [m \in Mods |-> Idle]
    /\ sweep' = "idle" /\ due' = {} /\ row' = Nil
    /\ UNCHANGED <<store, present, holds, now, clicks, hands>>

\* People act in Discord: a member leaves, comes back without his roles, or
\* has the role taken off by hand.
Hand ==
    /\ hands < MaxHands /\ hands' = hands + 1
    /\ orphans' = orphans \cap holds'
    /\ UNCHANGED <<store, task, sweep, due, row, now, clicks, faults>>

Leaves(p) ==
    /\ p \in present /\ present' = present \ {p} /\ holds' = holds \ {p}
    /\ Hand

Returns(p) ==
    p \notin present /\ present' = present \cup {p} /\ UNCHANGED holds /\ Hand

TakenByHand(p) ==
    p \in holds /\ holds' = holds \ {p} /\ UNCHANGED present /\ Hand

TimePasses ==
    /\ now < MaxNow /\ now' = now + 1
    /\ UNCHANGED <<store, present, holds, task, sweep, due, row,
                   clicks, hands, faults, orphans>>

-----------------------------------------------------------------------------
ModClicks(m, p) == Revoke(m, p) \/ \E term \in Terms : Rank(m, p, term)

ModStep(m) ==
    \/ AddRole(m) \/ RecordGrant(m) \/ RecordFails(m)
    \/ RemoveRole(m) \/ ForgetGrants(m)

SweepStep ==
    \/ SweepStart \/ SweepFindsNobody \/ SweepRefused \/ SweepDrops \/ SweepEnd
    \/ \E p \in Posts : SweepStrips(p)

Next ==
    \/ \E m \in Mods : ModStep(m) \/ \E p \in Posts : ModClicks(m, p)
    \/ SweepStep \/ SweepFault \/ Teardown \/ EnsureGuild \/ Crash \/ TimePasses
    \/ \E p \in Posts : Leaves(p) \/ Returns(p) \/ TakenByHand(p)

Spec == Init /\ [][Next]_vars

(***************************************************************************)
(* asyncio resumes a handler whose call has returned, the sweep runs again *)
(* after every interval and every restart, and time passes.  Discord does  *)
(* not refuse the removal of one role for ever: strong fairness.           *)
(***************************************************************************)
Fairness ==
    /\ \A m \in Mods : WF_vars(ModStep(m))
    /\ WF_vars(SweepStep)
    /\ \A p \in Posts : SF_vars(SweepStrips(p))
    /\ WF_vars(TimePasses)

FairSpec == Spec /\ Fairness

-----------------------------------------------------------------------------
TypeOK ==
    /\ guild \in BOOLEAN /\ grants \in SUBSET Grant /\ nextId \in Nat
    /\ present \in SUBSET Posts /\ holds \in SUBSET Posts
    /\ task \in [Mods -> Task]
    /\ sweep \in {"idle", "strip", "drop"} /\ due \in SUBSET Grant
    /\ row \in Grant \cup {Nil}
    /\ now \in Nat /\ clicks \in Nat /\ hands \in Nat /\ faults \in Nat
    /\ orphans \in SUBSET Posts

\* A row of role_grants, or a handler about to insert it, speaks for the post.
Tracked(p) ==
    \/ \E g \in grants : g.post = p
    \/ \E m \in Mods : task[m].pc = "record" /\ task[m].post = p

(***************************************************************************)
(* The inductive invariant.                                                *)
(***************************************************************************)
\* Only present members hold roles, and a handler at work names a post.
PresentHold == holds \subseteq present
TasksNamed == \A m \in Mods : task[m].pc # "idle" => task[m].post \in Posts
\* Under Serial, two handlers at work are on different posts.
Alone ==
    Serial => \A m, n \in Mods :
        task[m].post = task[n].post /\ task[m].post # Nil => m = n
\* Row ids are fresh, so the row that the sweep drops is the row it queried.
IdsFresh ==
    /\ \A g \in grants \cup due : g.id < nextId
    /\ \A g, h \in grants \cup due : g.id = h.id => g = h
    /\ sweep = "drop" => row \in due
\* Under Serial, a handler about to forget a post's rows has stripped it and
\* the sweep about to drop a row has too, unless the post was granted anew
\* and another row or handler speaks for it, or its row is lost already.
StrippedFirst ==
    /\ Serial => \A m \in Mods :
          task[m].pc = "forget" => task[m].post \notin holds
    /\ Serial /\ sweep = "drop" =>
          \/ row.post \notin holds
          \/ \E g \in grants : g.post = row.post /\ g.id # row.id
          \/ \E m \in Mods : task[m].pc = "record" /\ task[m].post = row.post
          \/ row.post \in orphans

-----------------------------------------------------------------------------
\* "Strips the role in Discord BEFORE forgetting the grant" (_do_revoke), and
\* the sweep likewise: as long as nobody acts on one post twice at a time,
\* nobody holds a rank that no grant tracks, except since the process died
\* between add_roles and record_grant, since record_grant found no guild row,
\* or since a teardown took the rows of ranks still held.
HeldIsTracked == \A p \in holds : Tracked(p) \/ p \in orphans

TrackInv ==
    /\ TypeOK /\ PresentHold /\ TasksNamed /\ Alone /\ IdsFresh
    /\ StrippedFirst /\ (Serial => HeldIsTracked)

\* A rank that was only given for a term ends: refused removals are retried
\* and an exception does not stop the sweep for good.  (A permanent grant of
\* the same rank is another matter, and so is a rank whose row is lost, until
\* it is granted again.)
TempRankEnds ==
    \A p \in Posts :
        p \in holds /\ p \notin orphans
        ~> \/ p \notin holds \/ p \in orphans
           \/ \E g \in grants : g.post = p /\ g.expires = Nil

\* "perma (until removed), temp (expiry timestamp, scheduler removes)": the
\* scheduler never takes a rank away that a permanent grant still covers.
PermaOutlivesSweep ==
    [][\A p \in Posts :
          /\ \E g \in grants : g.post = p /\ g.expires = Nil
          /\ p \in holds /\ sweep' # sweep
          => p \in holds']_vars
=============================================================================
