------------------------------ MODULE Telemetry ------------------------------
(***************************************************************************)
(* The push feed (serverlink/feed.py and its callbacks in                  *)
(* cogs/serverlink.py): game servers POST snapshots with their guild's     *)
(* bearer token, the listener hands each to the guild's FeedLink, and      *)
(* /server and its Players button report what that link last heard.        *)
(*                                                                         *)
(* An action is one awaited call with the local code up to the next one.   *)
(* _apply_link is two steps here, the row and then the registry, and the   *)
(* listener runs while a guild has a feed link: module ServerLinks has the *)
(* rest.  A token is a number, that of the FeedLink made with it.  Who     *)
(* sends no token, or no JSON object, is answered and leaves no trace.  No *)
(* one subscribes to snapshots (base.py), so that handing one on is a step.*)
(* The clock is time.time(), taken not to go back; the status that the     *)
(* poll has cached of another backend is ServerLinks' matter.              *)
(***************************************************************************)
EXTENDS Naturals, FiniteSets

CONSTANTS
    Guilds, Nil,
    Requests,   \* POSTs that may be in flight together
    Readers,    \* replies that may be in flight together
    StaleAfter, \* STALE_AFTER_SECONDS in steps of the clock
    MaxTokens,  \* bound on tokens ever made
    MaxPosts,   \* bound on POSTs ever sent
    MaxTime,    \* bound on the clock
    MaxFaults   \* bound on teardowns and restarts

VARIABLES
    clock,
    stored,  \* the secret of each guild's feed row
    links,   \* self.links: the FeedLink of each guild
    opening, \* the FeedLink that _apply_link is about to register
    heard,   \* of each FeedLink: the last snapshot and when it came
    server,  \* the token that each guild's game server is set up with
    post,    \* what each POST carries across an await
    ask,     \* what each reply carries across an await
    tokens, posts, faults  \* what the bounds count

config == <<stored, links, opening, server>>
bounds == <<tokens, posts, faults>>
vars == <<clock, config, heard, post, ask, bounds>>

Tokens == 1..MaxTokens

\* Rows of the body: well formed, malformed, and with a number that float()
\* cannot hold (an integer of 400 digits is legal JSON).
Rows == {"good", "bad", "huge"}

NoPost == [pc |-> "idle", from |-> Nil, token |-> 0, guild |-> Nil, number |-> 0]
NoAsk == [link |-> Nil, guild |-> Nil]
Nothing == [number |-> 0, from |-> Nil, rows |-> {}, at |-> 0]

Init ==
    /\ clock = 0
    /\ stored = [g \in Guilds |-> Nil] /\ links = stored
    /\ opening = stored /\ server = stored
    /\ heard = [t \in Tokens |-> Nothing]
    /\ post = [r \in Requests |-> NoPost]
    /\ ask = [r \in Readers |-> NoAsk]
    /\ tokens = 0 /\ posts = 0 /\ faults = 0

-----------------------------------------------------------------------------
(***************************************************************************)
(* The admin: the guild's feed is linked, its token rotated (the same      *)
(* again) or the guild unlinked, and the token pasted into the mod.        *)
(***************************************************************************)
Link(g) ==
    /\ opening[g] = Nil
    /\ tokens < MaxTokens /\ tokens' = tokens + 1
    /\ stored' = [stored EXCEPT ![g] = tokens']
    /\ opening' = [opening EXCEPT ![g] = tokens']
    /\ UNCHANGED <<clock, links, heard, server, post, ask, posts, faults>>

Registered(g) ==
    /\ opening[g] # Nil
    /\ links' = [links EXCEPT ![g] = opening[g]]
    /\ opening' = [opening EXCEPT ![g] = Nil]
    /\ UNCHANGED <<clock, stored, heard, server, post, ask, bounds>>

Unlink(g) ==
    /\ opening[g] = Nil /\ links[g] # Nil
    /\ stored' = [stored EXCEPT ![g] = Nil]
    /\ links' = [links EXCEPT ![g] = Nil]
    /\ UNCHANGED <<clock, opening, heard, server, post, ask, bounds>>

Paste(g) ==
    /\ stored[g] # Nil /\ server[g] # stored[g]
    /\ server' = [server EXCEPT ![g] = stored[g]]
    /\ UNCHANGED <<clock, stored, links, opening, heard, post, ask, bounds>>

-----------------------------------------------------------------------------
(***************************************************************************)
(* handle_snapshot                                                         *)
(***************************************************************************)
Sends(r, g) ==
    /\ post[r] = NoPost /\ server[g] # Nil
    /\ \E x \in Guilds : links[x] # Nil
    /\ posts < MaxPosts /\ posts' = posts + 1
    /\ post' = [post EXCEPT ![r] = [pc |-> "lookup", from |-> g, token |-> server[g],
                                    guild |-> Nil, number |-> posts']]
    /\ UNCHANGED <<clock, config, heard, ask, tokens, faults>>

\* Mutant of Issued: any guild with a feed will do.
IssuedToAny(token) == {g \in Guilds : stored[g] # Nil}

\* _feed_token_lookup
Issued(token) == {g \in Guilds : stored[g] = token}

Lookup(r) ==
    /\ post[r].pc = "lookup"
    /\ IF Issued(post[r].token) = {} THEN post' = [post EXCEPT ![r] = NoPost]
       ELSE \E g \in Issued(post[r].token) :
               post' = [post EXCEPT ![r].pc = "body", ![r].guild = g]
    /\ UNCHANGED <<clock, config, heard, ask, bounds>>

\* parse_telemetry: malformed rows are dropped; float() raises OverflowError
\* on a huge number, which is neither a TypeError nor a ValueError.
Parses(body) == "huge" \notin body
Parsed(body) == body \ {"bad"}

\* _feed_on_snapshot and FeedLink.ingest, with the links as they are by now
Ingest(r, body) ==
    LET g == post[r].guild IN
    /\ post[r].pc = "body"
    /\ heard' = IF Parses(body) /\ links[g] # Nil
                THEN [heard EXCEPT ![links[g]] =
                         [number |-> post[r].number, from |-> post[r].from,
                          rows |-> Parsed(body), at |-> clock]]
                ELSE heard
    /\ post' = [post EXCEPT ![r] = NoPost]
    /\ UNCHANGED <<clock, config, ask, bounds>>

-----------------------------------------------------------------------------
(***************************************************************************)
(* /server and Players: the link is taken, minimal_mode awaited, and then  *)
(* that link is asked.                                                     *)
(***************************************************************************)
Asks(q, g) ==
    /\ ask[q] = NoAsk /\ links[g] # Nil
    /\ ask' = [ask EXCEPT ![q] = [link |-> links[g], guild |-> g]]
    /\ UNCHANGED <<clock, config, heard, post, bounds>>

\* Mutant of Stale: a link that has once heard something is never stale.
StaleAtFirst(t) == heard[t] = Nothing

Stale(t) == heard[t] = Nothing \/ clock - heard[t].at > StaleAfter

Reply(q, reachable) ==
    /\ ask[q] # NoAsk
    /\ reachable = ~Stale(ask[q].link)
    /\ ask' = [ask EXCEPT ![q] = NoAsk]
    /\ UNCHANGED <<clock, config, heard, post, bounds>>

-----------------------------------------------------------------------------
Tick ==
    /\ clock < MaxTime /\ clock' = clock + 1
    /\ UNCHANGED <<config, heard, post, ask, bounds>>

Fault == faults < MaxFaults /\ faults' = faults + 1

\* The guilds row goes, and the link's with it; self.links stays (_teardown).
Teardown(g) ==
    /\ stored[g] # Nil /\ opening[g] = Nil /\ Fault
    /\ stored' = [stored EXCEPT ![g] = Nil]
    /\ UNCHANGED <<clock, links, opening, heard, server, post, ask, tokens, posts>>

\* cog_load builds new links, which have heard nothing.
Restart ==
    /\ Fault
    /\ links' = stored /\ opening' = [g \in Guilds |-> Nil]
    /\ heard' = [t \in Tokens |-> Nothing]
    /\ post' = [r \in Requests |-> NoPost]
    /\ ask' = [q \in Readers |-> NoAsk]
    /\ UNCHANGED <<clock, stored, server, tokens, posts>>

Next ==
    \/ \E g \in Guilds :
          \/ Link(g) \/ Registered(g) \/ Unlink(g) \/ Paste(g) \/ Teardown(g)
          \/ \E r \in Requests : Sends(r, g)
          \/ \E q \in Readers : Asks(q, g)
    \/ \E r \in Requests : Lookup(r) \/ \E body \in SUBSET Rows : Ingest(r, body)
    \/ \E q \in Readers, reachable \in BOOLEAN : Reply(q, reachable)
    \/ Tick \/ Restart

Spec == Init /\ [][Next]_vars

-----------------------------------------------------------------------------
TypeOK ==
    /\ clock \in 0..MaxTime
    /\ \A f \in {stored, links, opening, server} : f \in [Guilds -> Tokens \cup {Nil}]
    /\ heard \in [Tokens -> [number : 0..MaxPosts, from : Guilds \cup {Nil},
                             rows : SUBSET {"good"}, at : 0..MaxTime]]
    /\ \A r \in Requests :
          /\ post[r].pc \in {"idle", "lookup", "body"}
          /\ post[r].from \in Guilds \cup {Nil} /\ post[r].guild \in Guilds \cup {Nil}
          /\ post[r].token \in 0..MaxTokens /\ post[r].number \in 0..posts
    /\ ask \in [Readers -> [link : Tokens \cup {Nil}, guild : Guilds \cup {Nil}]]

\* One listener serves every guild, "disambiguated by bearer token"
\* (cogs/serverlink.py): a guild that is told its server is reachable has
\* heard from its own server, within STALE_AFTER_SECONDS, through rotations,
\* teardowns and restarts in the middle of a POST or of the reply.
OwnServerAndRecent ==
    [][\A q \in Readers : Reply(q, TRUE) =>
          LET last == heard[ask[q].link] IN
          last.from = ask[q].guild /\ clock <= last.at + StaleAfter]_vars

\* "A bad/missing field drops just that row, never the whole snapshot"
\* (feed.py): a POST that got past its token leaves its good rows.
BadRowsDropAlone ==
    [][\A r \in Requests : \A body \in SUBSET Rows :
          Ingest(r, body) /\ links[post[r].guild] # Nil =>
              /\ heard'[links[post[r].guild]].number = post[r].number
              /\ heard'[links[post[r].guild]].rows = body \cap {"good"}]_vars

\* What the await between the token's check and the body allows: a rotated or
\* revoked token is still good for a POST that is under way.
RevokedIsRefused ==
    [][\A t \in Tokens : heard'[t] # heard[t] /\ heard'[t] # Nothing =>
          \E r \in Requests : post'[r] # post[r] /\ Issued(post[r].token) # {}]_vars

\* What two POSTs under way allow: the older one may land last.
FeedMovesForward ==
    [][\A t \in Tokens : heard'[t] # Nothing =>
          heard'[t].number >= heard[t].number]_vars
=============================================================================
