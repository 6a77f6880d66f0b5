----------------------------- MODULE CommandGate -----------------------------
(***************************************************************************)
(* Who may run a command: the checks that precede every command and button *)
(* (cogs/admin.py, cogs/roles.py, services/ranks.py), and the record of    *)
(* those refused.                                                          *)
(*                                                                         *)
(* An action is one awaited call with the local code up to the next one.   *)
(* What the limiter says is either of its two answers (RateLimiter); the   *)
(* audit note is best effort and changes nothing.  One permission stands   *)
(* for those of services/ranks.py, and the command that is let through is  *)
(* the handler that another module is about.                               *)
(***************************************************************************)
EXTENDS Naturals, FiniteSets

CONSTANTS
    Calls,      \* interactions in flight together
    Users, Roles, Positions, Nil,
    Commands,
    Limited,    \* those with a rate limit
    Buttons,    \* those that ask the limiter after the permission
    AdminOnly,  \* those for administrators and the owner
    Required,   \* DEFAULT_PERMISSIONS of the others
    MaxCalls,   \* bound on calls
    MaxEdits,   \* bound on promotions and edits of ladder and rules
    MaxCrashes

VARIABLES
    roles,      \* the roles of each user
    ladder,     \* ranks: the position of each role on it
    rules,      \* permissions: the guild's own minimum; and who commands the
                \* guild, the owner and the roles with Administrator
    call,       \* what each interaction carries across an await
    incidents, saved,  \* the incidents, as written and as committed
    calls, edits, crashes

guild == <<roles, ladder, rules>>
bounds == <<calls, edits, crashes>>
vars == <<guild, call, incidents, saved, bounds>>

\* A check keeps the user and the roles of the interaction's payload, and in
\* the end a refusal's kind.  History: which of ladder and rules were "edited"
\* under it, and what the rule "was" at each moment of it.
Idle == [pc |-> "idle", user |-> Nil, held |-> {}, number |-> 0, ladder |-> Nil,
         limit |-> FALSE, why |-> "none", edited |-> {}, was |-> {}]

Init ==
    /\ roles \in [Users -> SUBSET Roles]
    /\ ladder \in [Roles -> Positions \cup {Nil}]
    /\ rules = [owner |-> Nil, commanding |-> {}, threshold |-> Nil]
    /\ call = [c \in Calls |-> Idle]
    /\ incidents = {} /\ saved = {}
    /\ calls = 0 /\ edits = 0 /\ crashes = 0

-----------------------------------------------------------------------------
(***************************************************************************)
(* services/ranks.py, and is_guild_admin                                   *)
(***************************************************************************)
\* Mutant of Rank: the most junior of the roles counts.
RankLowest(held, rungs) ==
    LET ps == {rungs[r] : r \in held} \ {Nil}
    IN  IF ps = {} THEN Nil ELSE CHOOSE p \in ps : \A q \in ps : p <= q

Rank(held, rungs) ==
    LET ps == {rungs[r] : r \in held} \ {Nil}
    IN  IF ps = {} THEN Nil ELSE CHOOSE p \in ps : \A q \in ps : p >= q

MinRank(rs) == IF rs.threshold = Nil THEN Required ELSE rs.threshold

HasPermission(rank, min, isAdmin) == isAdmin \/ (rank # Nil /\ rank >= min)

IsAdmin(u, held, rs) == u = rs.owner \/ held \cap rs.commanding # {}

\* The rule, and what it says: whoever commands the guild may, and who holds a
\* role on the ladder that is senior enough.
May(u, held, rungs, rs) ==
    \/ IsAdmin(u, held, rs)
    \/ \E r \in held : rungs[r] # Nil /\ rungs[r] >= MinRank(rs)

Rule(u, held, rungs, rs) == IF May(u, held, rungs, rs) THEN "allow" ELSE "refuse"

-----------------------------------------------------------------------------
Goto(c, pc) == call' = [call EXCEPT ![c].pc = pc]

\* The checks are over, with a kind of incident or with none.
Ends(c, n, pc, why) ==
    call' = [call EXCEPT ![c] = [Idle EXCEPT !.number = n, !.pc = pc, !.why = why]]

Refuse(c, n, why) == Ends(c, n, "incident", why)

\* The permission is there; a button that is limited asks the limiter now.
Allowed(c, n, limit) ==
    \/ Ends(c, n, "run", "none")
    \/ limit /\ Refuse(c, n, "rate_limit")

\* The command arrives with the user and the roles of its payload.  The limiter
\* is asked first, but by buttons, then whether the user commands the guild; a
\* rank has to be looked up.
Arrives(c, u, cmd) ==
    LET admin == IsAdmin(u, roles[u], rules)
        late == cmd \in Limited \cap Buttons
    IN  /\ call[c] = Idle
        /\ calls < MaxCalls /\ calls' = calls + 1
        /\ \/ cmd \in Limited \ Buttons /\ Refuse(c, calls', "rate_limit")
           \/ admin /\ Allowed(c, calls', late)
           \/ ~admin /\ cmd \in AdminOnly /\ Refuse(c, calls', "permission_denied")
           \/ /\ ~admin /\ cmd \notin AdminOnly
              /\ call' = [call EXCEPT ![c] =
                     [Idle EXCEPT !.pc = "ladder", !.user = u, !.held = roles[u],
                         !.number = calls', !.limit = late,
                         !.was = {Rule(u, roles[u], ladder, rules)}]]
        /\ UNCHANGED <<guild, incidents, saved, edits, crashes>>

LoadLadder(c) ==
    /\ call[c].pc = "ladder"
    /\ call' = [call EXCEPT ![c].pc = "overrides", ![c].ladder = ladder]
    /\ UNCHANGED <<guild, incidents, saved, bounds>>

\* The thresholds arrive; who commands the guild is asked once more, of the
\* guild as it is, but of the roles the interaction came with.
LoadOverrides(c) ==
    LET k == call[c]
        may == HasPermission(Rank(k.held, k.ladder), MinRank(rules),
                             IsAdmin(k.user, k.held, rules))
    IN  /\ k.pc = "overrides"
        /\ \/ may /\ Allowed(c, k.number, k.limit)
           \/ ~may /\ Refuse(c, k.number, "permission_denied")
        /\ UNCHANGED <<guild, incidents, saved, bounds>>

Run(c) ==
    /\ call[c].pc = "run"
    /\ call' = [call EXCEPT ![c] = Idle]
    /\ UNCHANGED <<guild, incidents, saved, bounds>>

-----------------------------------------------------------------------------
(***************************************************************************)
(* log_incident, then the refusal                                          *)
(***************************************************************************)
LogIncident(c) ==
    /\ call[c].pc = "incident"
    /\ incidents' = incidents \cup {call[c].number}
    /\ Goto(c, "commit")
    /\ UNCHANGED <<guild, saved, bounds>>

CommitIncident(c) ==
    /\ call[c].pc = "commit"
    /\ saved' = incidents
    /\ Goto(c, "decline")
    /\ UNCHANGED <<guild, incidents, bounds>>

Decline(c) ==
    /\ call[c].pc = "decline"
    /\ call' = [call EXCEPT ![c] = Idle]
    /\ UNCHANGED <<guild, incidents, saved, bounds>>

-----------------------------------------------------------------------------
(***************************************************************************)
(* The rest of the bot, and Discord                                        *)
(***************************************************************************)
Edit == edits < MaxEdits /\ edits' = edits + 1

\* A member's roles change.  The calls in flight keep those they came with.
Promotion(u) ==
    /\ Edit
    /\ \E R \in SUBSET Roles : roles' = [roles EXCEPT ![u] = R]
    /\ UNCHANGED <<ladder, rules, call, incidents, saved, calls, crashes>>

\* History: every check under way meets an edit.
Meets(kind) ==
    call' = [c \in Calls |->
        IF call[c].pc \notin {"ladder", "overrides"} THEN call[c]
        ELSE [call[c] EXCEPT
                 !.edited = @ \cup {kind},
                 !.was = @ \cup {Rule(call[c].user, call[c].held, ladder', rules')}]]

\* An edit of the ladder, of a threshold, or of who commands the guild.
Reorganised ==
    /\ Edit
    /\ \/ /\ \E r \in Roles, p \in Positions \cup {Nil} :
                ladder' = [ladder EXCEPT ![r] = p]
          /\ UNCHANGED rules
          /\ Meets("ladder")
       \/ /\ \/ \E p \in Positions \cup {Nil} :
                   rules' = [rules EXCEPT !.threshold = p]
             \/ \E u \in Users \cup {Nil} : rules' = [rules EXCEPT !.owner = u]
             \/ \E R \in SUBSET Roles : rules' = [rules EXCEPT !.commanding = R]
          /\ UNCHANGED ladder
          /\ Meets("rules")
    /\ UNCHANGED <<roles, incidents, saved, calls, crashes>>

Crash ==
    /\ crashes < MaxCrashes /\ crashes' = crashes + 1
    /\ call' = [c \in Calls |-> Idle]
    /\ incidents' = saved
    /\ UNCHANGED <<guild, saved, calls, edits>>

Next ==
    \/ \E c \in Calls :
          \/ \E u \in Users, cmd \in Commands : Arrives(c, u, cmd)
          \/ LoadLadder(c) \/ LoadOverrides(c) \/ Run(c)
          \/ LogIncident(c) \/ CommitIncident(c) \/ Decline(c)
    \/ \E u \in Users : Promotion(u)
    \/ Reorganised \/ Crash

Spec == Init /\ [][Next]_vars

-----------------------------------------------------------------------------
TypeOK ==
    /\ roles \in [Users -> SUBSET Roles]
    /\ ladder \in [Roles -> Positions \cup {Nil}]
    /\ rules \in [owner : Users \cup {Nil}, commanding : SUBSET Roles,
                  threshold : Positions \cup {Nil}]
    /\ \A c \in Calls :
          /\ call[c].pc \in {"idle", "ladder", "overrides", "run", "incident",
                             "commit", "decline"}
          /\ call[c].user \in Users \cup {Nil} /\ call[c].held \subseteq Roles
          /\ call[c].ladder \in [Roles -> Positions \cup {Nil}] \cup {Nil}
          /\ call[c].why \in {"none", "rate_limit", "permission_denied"}
          /\ call[c].edited \subseteq {"ladder", "rules"}
          /\ call[c].was \subseteq {"allow", "refuse"}
    /\ saved \subseteq 1..calls /\ incidents \subseteq 1..calls

Ruled(c) == call[c].pc = "overrides" /\ call'[c].pc \in {"run", "incident"}

Verdict(c) == IF call'[c].why = "permission_denied" THEN "refuse" ELSE "allow"

\* Ladder, thresholds and the guild's command are read at different moments of
\* one check (member_has_permission: "re-check the same rule at click time").
\* Whatever is edited meanwhile, the verdict is what the rule said of the
\* interaction's user and roles at one moment between arrival and verdict,
\* unless ladder and rules were both edited.
VerdictIsOfOneMoment ==
    [][\A c \in Calls : Ruled(c) /\ call[c].edited # {"ladder", "rules"} =>
          Verdict(c) \in call[c].was]_vars

\* This does not hold without the exception: an old ladder is judged by a new
\* threshold.
VerdictIsAlwaysOfOneMoment ==
    [][\A c \in Calls : Ruled(c) => Verdict(c) \in call[c].was]_vars

\* Nor does this: the roles are those of the payload, and a member promoted or
\* demoted while the check runs gets the verdict of before.
VerdictIsOfLiveRoles ==
    [][\A c \in Calls : Ruled(c) =>
          Verdict(c) = Rule(call[c].user, roles[call[c].user], ladder, rules)]_vars
=============================================================================
