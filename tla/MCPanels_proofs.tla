--------------------------- MODULE MCPanels_proofs ---------------------------
(***************************************************************************)
(* Proofs about the other five of MCPanels, and the types of all eight.    *)
(* RateLimiter: what a bucket holds accounts for every call that was let   *)
(* through, so that bursts are bounded and refusals brief, for every       *)
(* capacity, rate and spacing of the calls.  CommandGate: a verdict is     *)
(* the rule's at one moment of the check, unless ladder and rules were     *)
(* both edited under it.  Boot: a bot that is up has all of the schema and *)
(* its guilds' rows, and keeps what was set.  Telemetry: a reply is about  *)
(* the guild's own server.  Formats: references and times come back as     *)
(* they were typed.                                                        *)
(***************************************************************************)
EXTENDS GuildConfig_proofs, FiniteSetTheorems

\* A full bucket holds at least one token.
LEMMA FullBucket == Full \in Nat /\ Refill \in Nat /\ Refill > 0 /\ Full >= Refill
<1>1. Capacity \in Nat /\ Refill \in Nat /\ Capacity >= 1 /\ Refill >= 1
  BY LimiterAssumption
<1>2. \A c \in Nat : c >= 1 => c * Refill >= Refill /\ c * Refill \in Nat
  BY <1>1, SMT
<1> QED
  BY <1>1, <1>2 DEF Full

LEMMA NoBucket == None \notin Bucket
BY LimiterAssumption, FullBucket DEF Bucket

LEMMA LimiterInitially == LimiterInit => LimiterInv
<1> SUFFICES ASSUME LimiterInit PROVE LimiterInv
  OBVIOUS
<1>1. LimiterTypeOK
  BY FullBucket DEF LimiterInit, LimiterTypeOK
<1>2. PaidFor
  BY DEF LimiterInit, PaidFor
<1> QED
  BY <1>1, <1>2 DEF LimiterInv

\* What a call finds in its bucket: the cap holds, and the bucket still pays
\* for what was let through in the window.
LEMMA TokensPaidFor ==
    ASSUME LimiterInv, NEW k \in Callers
    PROVE  /\ Tokens(k) \in 0..Full
           /\ given[k] * Refill + Tokens(k) <= Full + (clock - since)
           /\ Tokens(k) >= clock - latest[k] \/ Tokens(k) >= Refill
           /\ latest[k] \in {-1} \cup 0..clock
<1>1. /\ clock \in Nat /\ since \in Nat /\ since <= clock
      /\ given[k] \in Nat /\ latest[k] \in Int
      /\ bucket[k] # None => bucket[k] \in Bucket /\ bucket[k].last <= clock
  BY DEF LimiterInv, LimiterTypeOK
<1>2. CASE bucket[k] = None
  <2>1. given[k] = 0 /\ latest[k] = -1 /\ Tokens(k) = Full
    BY <1>2 DEF LimiterInv, PaidFor, Tokens
  <2>2. given[k] * Refill = 0
    BY <2>1, FullBucket
  <2> QED
    BY <1>1, <2>1, <2>2, FullBucket
<1>3. CASE bucket[k] # None
  <2> DEFINE b == bucket[k]
             spent == given[k] * Refill
  <2>1. b.tokens \in Nat /\ b.tokens <= Full /\ b.last \in Nat /\ b.last <= clock
    BY <1>1, <1>3, FullBucket DEF Bucket
  <2>2. /\ latest[k] \in 0..b.last
        /\ b.tokens >= b.last - latest[k] \/ b.tokens >= Refill
        /\ IF b.last < since THEN given[k] = 0
           ELSE spent + b.tokens <= Full + (b.last - since)
    BY <1>3 DEF LimiterInv, PaidFor
  <2>3. spent \in Nat /\ (given[k] = 0 => spent = 0)
    BY <1>1, FullBucket
  <2>4. Tokens(k) = IF b.tokens + (clock - b.last) < Full
                    THEN b.tokens + (clock - b.last) ELSE Full
    BY <1>3 DEF Tokens
  <2> HIDE DEF b, spent
  <2>5. /\ Tokens(k) \in 0..Full
        /\ spent + Tokens(k) <= Full + (clock - since)
    BY <1>1, <2>1, <2>2, <2>3, <2>4, FullBucket
  <2>6. Tokens(k) >= clock - latest[k] \/ Tokens(k) >= Refill
    BY <1>1, <2>1, <2>2, <2>4, FullBucket
  <2> QED
    BY <1>1, <2>1, <2>2, <2>5, <2>6 DEF spent
<1> QED
  BY <1>2, <1>3

\* A call through takes a token and is counted.
LEMMA AllowPays ==
    ASSUME LimiterInv, NEW k \in Callers, Allow(k)
    PROVE  LimiterInv'
<1> DEFINE t == Tokens(k)
<1>1. /\ clock \in Nat /\ since \in Nat /\ since <= clock /\ given[k] \in Nat
      /\ bucket \in [Callers -> Bucket \cup {None}]
      /\ given \in [Callers -> Nat] /\ latest \in [Callers -> {-1} \cup Nat]
      /\ \A j \in Callers : bucket[j] # None => bucket[j].last <= clock
  BY DEF LimiterInv, LimiterTypeOK
<1>2. t \in Nat /\ t <= Full /\ t >= Refill
      /\ given[k] * Refill + t <= Full + (clock - since)
  BY TokensPaidFor, FullBucket DEF Allow
<1>3. /\ bucket' = [bucket EXCEPT ![k] = [tokens |-> t - Refill, last |-> clock]]
      /\ given' = [given EXCEPT ![k] = @ + 1]
      /\ latest' = [latest EXCEPT ![k] = clock]
      /\ clock' = clock /\ since' = since
  BY DEF Allow
<1>4. [tokens |-> t - Refill, last |-> clock] \in Bucket
  BY <1>1, <1>2, FullBucket DEF Bucket
<1>5. LimiterTypeOK'
  BY <1>1, <1>3, <1>4, NoBucket DEF LimiterTypeOK
<1>6. /\ bucket'[k] # None /\ bucket'[k].last = clock
      /\ bucket'[k].tokens = t - Refill
      /\ given'[k] = given[k] + 1 /\ latest'[k] = clock
  BY <1>1, <1>3, <1>4, NoBucket
<1>7. given'[k] * Refill = given[k] * Refill + Refill
  BY <1>1, <1>6, FullBucket
<1>8. PaidFor'
  <2> SUFFICES ASSUME NEW j \in Callers
               PROVE  IF bucket'[j] = None THEN given'[j] = 0 /\ latest'[j] = -1
                      ELSE /\ latest'[j] \in 0..bucket'[j].last
                           /\ bucket'[j].tokens >= bucket'[j].last - latest'[j]
                              \/ bucket'[j].tokens >= Refill
                           /\ IF bucket'[j].last < since' THEN given'[j] = 0
                              ELSE given'[j] * Refill + bucket'[j].tokens
                                      <= Full + (bucket'[j].last - since')
    BY DEF PaidFor
  <2>1. CASE j = k
    <3>1. given[k] * Refill \in Nat
      BY <1>1, FullBucket
    <3> QED
      BY <2>1, <3>1, <1>1, <1>2, <1>3, <1>6, <1>7, FullBucket
  <2>2. CASE j # k
    <3>1. bucket'[j] = bucket[j] /\ given'[j] = given[j] /\ latest'[j] = latest[j]
      BY <2>2, <1>1, <1>3
    <3> QED
      BY <3>1, <1>3 DEF LimiterInv, PaidFor
  <2> QED
    BY <2>1, <2>2
<1> QED
  BY <1>5, <1>8 DEF LimiterInv

\* A refusal brings the bucket up to date and takes nothing.
LEMMA DenyPays ==
    ASSUME LimiterInv, NEW k \in Callers, Deny(k)
    PROVE  LimiterInv' /\ latest[k] >= 0 /\ clock < latest[k] + Refill
<1> DEFINE t == Tokens(k)
<1>1. /\ clock \in Nat /\ since \in Nat /\ since <= clock /\ given[k] \in Nat
      /\ bucket \in [Callers -> Bucket \cup {None}] /\ latest[k] \in Int
      /\ given \in [Callers -> Nat] /\ latest \in [Callers -> {-1} \cup Nat]
      /\ \A j \in Callers : bucket[j] # None => bucket[j].last <= clock
  BY DEF LimiterInv, LimiterTypeOK
<1>2. /\ t \in Nat /\ t <= Full /\ t < Refill
      /\ given[k] * Refill + t <= Full + (clock - since)
      /\ t >= clock - latest[k]
      /\ latest[k] \in {-1} \cup 0..clock
  BY TokensPaidFor, FullBucket, <1>1 DEF Deny
<1>3. latest[k] >= 0
  <2>1. bucket[k] # None
    BY <1>2, FullBucket DEF Tokens
  <2>2. bucket[k] \in Bucket /\ latest[k] \in 0..bucket[k].last
    BY <2>1, <1>1 DEF LimiterInv, PaidFor
  <2> QED
    BY <2>2 DEF Bucket
<1>4. /\ bucket' = [bucket EXCEPT ![k] = [tokens |-> t, last |-> clock]]
      /\ clock' = clock /\ since' = since /\ given' = given /\ latest' = latest
  BY DEF Deny
<1>5. [tokens |-> t, last |-> clock] \in Bucket
  BY <1>1, <1>2, FullBucket DEF Bucket
<1>6. LimiterTypeOK'
  BY <1>1, <1>4, <1>5, NoBucket DEF LimiterTypeOK
<1>7. bucket'[k] # None /\ bucket'[k].last = clock /\ bucket'[k].tokens = t
  BY <1>1, <1>4, <1>5, NoBucket
<1>8. PaidFor'
  <2> SUFFICES ASSUME NEW j \in Callers
               PROVE  IF bucket'[j] = None THEN given'[j] = 0 /\ latest'[j] = -1
                      ELSE /\ latest'[j] \in 0..bucket'[j].last
                           /\ bucket'[j].tokens >= bucket'[j].last - latest'[j]
                              \/ bucket'[j].tokens >= Refill
                           /\ IF bucket'[j].last < since' THEN given'[j] = 0
                              ELSE given'[j] * Refill + bucket'[j].tokens
                                      <= Full + (bucket'[j].last - since')
    BY DEF PaidFor
  <2>1. CASE j = k
    BY <2>1, <1>1, <1>2, <1>3, <1>4, <1>7
  <2>2. CASE j # k
    <3>1. bucket'[j] = bucket[j] /\ given'[j] = given[j] /\ latest'[j] = latest[j]
      BY <2>2, <1>1, <1>4
    <3> QED
      BY <3>1, <1>4 DEF LimiterInv, PaidFor
  <2> QED
    BY <2>1, <2>2
<1>9. clock < latest[k] + Refill
  <2> HIDE DEF t
  <2> QED
    BY <1>1, <1>2, FullBucket
<1> QED
  BY <1>3, <1>6, <1>8, <1>9 DEF LimiterInv

LEMMA TickPays == LimiterInv /\ Tick => LimiterInv'
<1> SUFFICES ASSUME LimiterInv, Tick PROVE LimiterInv'
  OBVIOUS
<1>1. /\ clock' = clock + 1 /\ clock \in Nat
      /\ since' = since /\ bucket' = bucket /\ given' = given /\ latest' = latest
  BY DEF Tick, LimiterInv, LimiterTypeOK
<1>2. LimiterTypeOK'
  <2>1. \A k \in Callers : bucket[k] # None => bucket[k].last <= clock'
    BY <1>1, FullBucket DEF LimiterInv, LimiterTypeOK, Bucket
  <2>2. since \in 0..clock'
    BY <1>1 DEF LimiterInv, LimiterTypeOK
  <2> QED
    BY <1>1, <2>1, <2>2 DEF LimiterInv, LimiterTypeOK
<1>3. PaidFor'
  BY <1>1 DEF LimiterInv, PaidFor
<1> QED
  BY <1>2, <1>3 DEF LimiterInv

\* A window that begins now starts from what the bucket holds.
LEMMA WatchPays == LimiterInv /\ Watch => LimiterInv'
<1> SUFFICES ASSUME LimiterInv, Watch PROVE LimiterInv'
  OBVIOUS
<1>1. /\ clock \in Nat
      /\ bucket \in [Callers -> Bucket \cup {None}]
      /\ \A j \in Callers : bucket[j] # None => bucket[j].last <= clock
      /\ since' = clock /\ clock' = clock /\ bucket' = bucket /\ latest' = latest
      /\ given' = [k \in Callers |-> 0]
  BY DEF LimiterInv, LimiterTypeOK, Watch
<1>2. LimiterTypeOK'
  BY <1>1 DEF LimiterInv, LimiterTypeOK
<1>3. PaidFor'
  <2> SUFFICES ASSUME NEW j \in Callers, bucket[j] # None
               PROVE  IF bucket[j].last < clock THEN given'[j] = 0
                      ELSE given'[j] * Refill + bucket[j].tokens
                              <= Full + (bucket[j].last - clock)
    BY <1>1 DEF LimiterInv, PaidFor
  <2>1. bucket[j].tokens \in 0..Full /\ bucket[j].last \in Nat /\ bucket[j].last <= clock
    BY <1>1 DEF Bucket
  <2>2. given'[j] = 0 /\ given'[j] * Refill = 0
    BY <1>1, FullBucket
  <2> QED
    BY <1>1, <2>1, <2>2, FullBucket
<1> QED
  BY <1>2, <1>3 DEF LimiterInv

LEMMA LimiterStep == LimiterInv /\ [LimiterNext]_limiter => LimiterInv'
<1> SUFFICES ASSUME LimiterInv, [LimiterNext]_limiter PROVE LimiterInv'
  OBVIOUS
<1>1. CASE Tick
  BY <1>1, TickPays
<1>2. CASE Watch
  BY <1>2, WatchPays
<1>3. ASSUME NEW k \in Callers, Allow(k) PROVE LimiterInv'
  BY <1>3, AllowPays
<1>4. ASSUME NEW k \in Callers, Deny(k) PROVE LimiterInv'
  BY <1>4, DenyPays
<1>5. CASE UNCHANGED limiter
  BY <1>5 DEF limiter, LimiterInv, LimiterTypeOK, PaidFor
<1> QED
  BY <1>1, <1>2, <1>3, <1>4, <1>5 DEF LimiterNext

\* Every bucket holds between nothing and its capacity, and no bucket was
\* brought up to date in the future (_Bucket).
THEOREM LimiterTypes == LimiterSpec => []LimiterTypeOK
<1>1. LimiterInv => LimiterTypeOK
  BY DEF LimiterInv
<1> QED
  BY <1>1, LimiterInitially, LimiterStep, PTL DEF LimiterSpec

\* For every capacity and rate, a key gets no more calls through in a stretch
\* of time than a full bucket and the refills of that time pay for (allow).
THEOREM BurstsAreBounded == LimiterSpec => []BurstIsBounded
<1>1. LimiterInv => BurstIsBounded
  <2> SUFFICES ASSUME LimiterInv, NEW k \in Callers
               PROVE  given[k] * Refill <= Full + (clock - since)
    BY DEF BurstIsBounded
  <2>1. /\ given[k] * Refill \in Nat /\ clock \in Nat /\ since \in Nat
    BY FullBucket DEF LimiterInv, LimiterTypeOK
  <2> QED
    BY <2>1, TokensPaidFor, FullBucket
<1> QED
  BY <1>1, LimiterInitially, LimiterStep, PTL DEF LimiterSpec

\* Who is refused has had a call through less than one refill ago, however
\* often they were refused in between (allow).
THEOREM RefusalsAreBrief == LimiterSpec => RefusedOnlyBriefly
<1>1. LimiterInv /\ [LimiterNext]_limiter =>
        [\A k \in Callers : Deny(k) => latest[k] >= 0 /\ clock < latest[k] + Refill]_limiter
  BY DenyPays
<1> QED
  BY <1>1, LimiterInitially, LimiterStep, PTL DEF LimiterSpec, RefusedOnlyBriefly

-----------------------------------------------------------------------------
(***************************************************************************)
(* CommandGate.                                                            *)
(***************************************************************************)
Ladders == [Roles -> Rungs \cup {Nil}]

Rules == [owner : Users \cup {Nil}, commanding : SUBSET Roles,
          threshold : Rungs \cup {Nil}]

Call == [pc : {"idle", "ladder", "overrides", "run", "incident", "commit",
               "decline"},
         user : Users \cup {Nil}, held : SUBSET Roles, number : Nat,
         ladder : Ladders \cup {Nil}, limit : BOOLEAN,
         why : {"none", "rate_limit", "permission_denied"},
         edited : SUBSET {"ladder", "rules"}, was : SUBSET {"allow", "refuse"}]

\* A check that waits for the thresholds has the ladder as it is, unless that
\* was edited; and unless the rules were, what they say of the ladder it has is
\* what the rule said at some moment.
Waits(k) ==
    k.pc = "overrides" =>
        /\ k.ladder \in Ladders
        /\ "ladder" \notin k.edited => k.ladder = ladder
        /\ "rules" \notin k.edited => Gate!Rule(k.user, k.held, k.ladder, rules) \in k.was

\* What the rule says now is among what it said; and incidents are those of
\* calls that were made.
GateInv ==
    /\ roles \in [Users -> SUBSET Roles]
    /\ ladder \in Ladders /\ rules \in Rules
    /\ calls \in Nat
    /\ incidents \subseteq 1..calls /\ logged \subseteq 1..calls
    /\ call \in [Admins -> Call]
    /\ \A c \in Admins :
          /\ call[c].pc = "idle" \/ call[c].number \in 1..calls
          /\ call[c].pc \in {"ladder", "overrides"} =>
                Gate!Rule(call[c].user, call[c].held, ladder, rules) \in call[c].was
          /\ Waits(call[c])

LEMMA IdleIsCall == Gate!Idle \in Call /\ Gate!Idle.pc = "idle"
BY DEF Gate!Idle, Call

\* Of finitely many numbers one is the highest: those above it are the least
\* of the sets of those above each.
LEMMA HighestRung ==
    ASSUME NEW S, S \subseteq Nat, IsFiniteSet(S), S # {}
    PROVE  \E p \in S : \A q \in S : p >= q
<1> DEFINE Above(p) == {q \in S : q > p}
           T == {Above(p) : p \in S}
<1>1. FiniteSubsetsOf(S) = SUBSET S
  BY FS_FiniteSubsetsOfFinite
<1>2. T \subseteq FiniteSubsetsOf(S) /\ T # {}
  <2>1. \A p \in S : Above(p) \in SUBSET S
    OBVIOUS
  <2>2. T \subseteq SUBSET S
    BY <2>1
  <2>3. T # {}
    OBVIOUS
  <2> QED BY <1>1, <2>2, <2>3
<1>3. PICK x \in T : \A y \in T : <<y, x>> \notin StrictSubsetOrdering(S)
  <2>1. IsWellFoundedOn(StrictSubsetOrdering(S), FiniteSubsetsOf(S))
    BY FS_StrictSubsetOrderingWellFounded
  <2> HIDE DEF T
  <2> QED BY <1>2, <2>1, WFMin
<1>4. PICK p \in S : x = Above(p)
  BY <1>3
<1>5. ASSUME NEW q \in S PROVE p >= q
  <2> SUFFICES ASSUME ~(p >= q) PROVE FALSE
    OBVIOUS
  <2>1. p \in Nat /\ q \in Nat /\ q > p
    BY <1>4
  <2>2. Above(q) \subseteq Above(p)
    <3>1. ASSUME NEW r \in S, r > q PROVE r > p
      <4>1. r \in Nat
        OBVIOUS
      <4> QED BY <2>1, <3>1, <4>1
    <3> QED BY <3>1
  <2>3. q \in Above(p) /\ q \notin Above(q)
    BY <2>1
  <2>4. <<Above(q), Above(p)>> \in StrictSubsetOrdering(S)
    BY <2>2, <2>3 DEF StrictSubsetOrdering
  <2> QED BY <1>3, <1>4, <2>4
<1> QED BY <1>4, <1>5

\* The rank that resolve_rank finds suffices just when one of the roles does.
LEMMA RankSuffices ==
    ASSUME NEW held \in SUBSET Roles, NEW rungs \in Ladders,
           NEW min \in Nat
    PROVE  (Gate!Rank(held, rungs) # Nil /\ Gate!Rank(held, rungs) >= min)
              <=> \E r \in held : rungs[r] # Nil /\ rungs[r] >= min
<1> DEFINE ps == {rungs[r] : r \in held} \ {Nil}
<1>1. ps \subseteq Rungs /\ ps \subseteq Nat /\ Nil \notin ps
  BY GateAssumption DEF Ladders
<1>2. CASE ps = {}
  <2>1. Gate!Rank(held, rungs) = Nil
    BY <1>2 DEF Gate!Rank
  <2> QED BY <1>2, <2>1
<1>3. CASE ps # {}
  <2>1. IsFiniteSet(ps)
    BY <1>1, FS_Subset, GateAssumption
  <2>2. Gate!Rank(held, rungs) = CHOOSE p \in ps : \A q \in ps : p >= q
    BY <1>3 DEF Gate!Rank
  <2>3. \E p \in ps : \A q \in ps : p >= q
    <3> HIDE DEF ps
    <3> QED BY <1>1, <1>3, <2>1, HighestRung
  <2>4. /\ Gate!Rank(held, rungs) \in ps
        /\ \A q \in ps : Gate!Rank(held, rungs) >= q
    <3> HIDE DEF ps
    <3> QED BY <2>2, <2>3
  <2> QED BY <1>1, <2>4
<1> QED BY <1>2, <1>3

LEMMA GateInit == Gate!Init => GateInv
<1> SUFFICES ASSUME Gate!Init PROVE GateInv
  OBVIOUS
<1>1. /\ roles \in [Users -> SUBSET Roles] /\ ladder \in Ladders /\ rules \in Rules
      /\ calls = 0 /\ incidents = {} /\ logged = {}
  BY DEF Gate!Init, Ladders, Rules
<1>2. call = [c \in Admins |-> Gate!Idle]
  BY DEF Gate!Init
<1>3. call \in [Admins -> Call] /\ \A c \in Admins : call[c].pc = "idle"
  BY <1>2, IdleIsCall
<1> QED BY <1>1, <1>3 DEF GateInv, Waits

LEMMA RuleSays ==
    ASSUME NEW u, NEW held, NEW rungs, NEW rs
    PROVE  /\ Gate!Rule(u, held, rungs, rs) \in {"allow", "refuse"}
           /\ Gate!Rule(u, held, rungs, rs) = "allow" <=> Gate!May(u, held, rungs, rs)
BY DEF Gate!Rule

\* The step of one call, with the guild's ladder and rules as they are.
LEMMA CallStep ==
    ASSUME GateInv, UNCHANGED Gate!guild, calls' \in Nat, calls <= calls',
           incidents' \subseteq 1..calls', logged' \subseteq 1..calls',
           NEW c \in Admins, NEW r \in Call, call' = [call EXCEPT ![c] = r],
           r.pc = "idle" \/ r.number \in 1..calls',
           r.pc \in {"ladder", "overrides"} =>
               Gate!Rule(r.user, r.held, ladder, rules) \in r.was,
           Waits(r)
    PROVE  GateInv'
<1>1. call' \in [Admins -> Call]
  BY DEF GateInv
<1>2. \A d \in Admins : call'[d] = IF d = c THEN r ELSE call[d]
  BY DEF GateInv
<1>3. \A d \in Admins : call'[d].pc = "idle" \/ call'[d].number \in 1..calls'
  BY <1>2 DEF GateInv
<1>4. UNCHANGED <<roles, ladder, rules>>
  BY DEF Gate!guild
<1>5. ASSUME NEW d \in Admins
      PROVE  /\ call'[d].pc \in {"ladder", "overrides"} =>
                    Gate!Rule(call'[d].user, call'[d].held, ladder', rules') \in call'[d].was
             /\ Waits(call[d])'
  <2>1. CASE d = c
    <3>1. call'[d] = r
      BY <1>2, <2>1
    <3> QED BY <1>4, <3>1 DEF Waits
  <2>2. CASE d # c
    <3>1. call'[d] = call[d]
      BY <1>2, <2>2
    <3> QED BY <1>4, <3>1 DEF GateInv, Waits
  <2> QED BY <2>1, <2>2
<1>6. roles' \in [Users -> SUBSET Roles] /\ ladder' \in Ladders /\ rules' \in Rules
  BY <1>4 DEF GateInv
<1> QED BY <1>1, <1>3, <1>5, <1>6 DEF GateInv

\* The end of a check leaves nothing that waits.
LEMMA VerdictStep ==
    ASSUME GateInv, UNCHANGED Gate!guild, calls' \in Nat, calls <= calls',
           UNCHANGED <<incidents, logged>>,
           NEW c \in Admins, NEW n \in Nat, NEW pc, NEW why,
           n \in 1..calls', pc \in {"run", "incident"},
           why \in {"none", "rate_limit", "permission_denied"},
           Gate!Ends(c, n, pc, why)
    PROVE  GateInv'
<1>1. PICK r \in Call : /\ r.pc = pc /\ r.number = n
                       /\ call' = [call EXCEPT ![c] = r]
  <2>1. [Gate!Idle EXCEPT !.number = n, !.pc = pc, !.why = why] \in Call
    BY DEF Gate!Idle, Call
  <2>2. /\ [Gate!Idle EXCEPT !.number = n, !.pc = pc, !.why = why].pc = pc
        /\ [Gate!Idle EXCEPT !.number = n, !.pc = pc, !.why = why].number = n
    BY DEF Gate!Idle
  <2> QED BY <2>1, <2>2 DEF Gate!Ends
<1>2. incidents' \subseteq 1..calls' /\ logged' \subseteq 1..calls'
  BY DEF GateInv
<1>3. Waits(r) /\ r.pc \notin {"ladder", "overrides"}
  BY <1>1 DEF Waits
<1>4. r.number \in 1..calls'
  BY <1>1
<1> QED BY <1>1, <1>2, <1>3, <1>4, CallStep

LEMMA GateStep == GateInv /\ [Gate!Next]_Gate!vars => GateInv'
<1> SUFFICES ASSUME GateInv, [Gate!Next]_Gate!vars PROVE GateInv'
  OBVIOUS
<1> USE DEF Gate!bounds
<1>a. /\ call \in [Admins -> Call] /\ calls \in Nat /\ ladder \in Ladders
      /\ incidents \subseteq 1..calls /\ logged \subseteq 1..calls
      /\ \A c \in Admins : call[c].pc = "idle" \/ call[c].number \in 1..calls
  BY DEF GateInv
<1>1. CASE UNCHANGED Gate!vars
  BY <1>1 DEF Gate!vars, Gate!guild, GateInv, Waits
<1>2. ASSUME NEW c \in Admins, NEW u \in Users, NEW cmd \in Commands,
             Gate!Arrives(c, u, cmd)
      PROVE  GateInv'
  <2>1. /\ calls' = calls + 1 /\ UNCHANGED <<Gate!guild, incidents, logged>>
        /\ calls' \in Nat /\ calls <= calls' /\ calls' \in 1..calls'
    BY <1>2, <1>a DEF Gate!Arrives
  <2>2. ASSUME NEW pc \in {"run", "incident"},
               NEW why \in {"none", "rate_limit", "permission_denied"},
               Gate!Ends(c, calls', pc, why)
        PROVE  GateInv'
    <3>1. \A n \in Nat : n = calls' /\ Gate!Ends(c, n, pc, why) => GateInv'
      BY <2>1, VerdictStep
    <3> QED BY <2>1, <2>2, <3>1
  <2>3. CASE call' = [call EXCEPT ![c] =
                 [Gate!Idle EXCEPT !.pc = "ladder", !.user = u, !.held = roles[u],
                     !.number = calls', !.limit = cmd \in Limited \cap Buttons,
                     !.was = {Gate!Rule(u, roles[u], ladder, rules)}]]
    <3> DEFINE r == [Gate!Idle EXCEPT !.pc = "ladder", !.user = u, !.held = roles[u],
                        !.number = calls', !.limit = cmd \in Limited \cap Buttons,
                        !.was = {Gate!Rule(u, roles[u], ladder, rules)}]
    <3>1. /\ roles[u] \in SUBSET Roles
          /\ {Gate!Rule(u, roles[u], ladder, rules)} \in SUBSET {"allow", "refuse"}
          /\ (cmd \in Limited \cap Buttons) \in BOOLEAN
      BY RuleSays DEF GateInv
    <3>2. /\ r.pc = "ladder" /\ r.user = u /\ r.held = roles[u] /\ r.number = calls'
          /\ r.was = {Gate!Rule(u, roles[u], ladder, rules)}
      BY DEF Gate!Idle
    <3>3. r \in Call
      BY <2>1, <3>1 DEF Gate!Idle, Call
    <3>4. call' = [call EXCEPT ![c] = r]
      BY <2>3
    <3> HIDE DEF r
    <3>5. incidents' \subseteq 1..calls' /\ logged' \subseteq 1..calls'
      BY <1>a, <2>1
    <3>6. Waits(r) /\ Gate!Rule(r.user, r.held, ladder, rules) \in r.was
      BY <3>2 DEF Waits
    <3>7. r.number \in 1..calls' /\ UNCHANGED Gate!guild
      BY <2>1, <3>2
    <3> QED BY <2>1, <3>3, <3>4, <3>5, <3>6, <3>7, CallStep
  <2>4. \/ Gate!Ends(c, calls', "incident", "rate_limit")
        \/ Gate!Ends(c, calls', "run", "none")
        \/ Gate!Ends(c, calls', "incident", "permission_denied")
        \/ call' = [call EXCEPT ![c] =
                 [Gate!Idle EXCEPT !.pc = "ladder", !.user = u, !.held = roles[u],
                     !.number = calls', !.limit = cmd \in Limited \cap Buttons,
                     !.was = {Gate!Rule(u, roles[u], ladder, rules)}]]
    BY <1>2, Zenon DEF Gate!Arrives, Gate!Allowed, Gate!Refuse
  <2> QED BY <2>2, <2>3, <2>4
<1>3. ASSUME NEW c \in Admins, Gate!LoadLadder(c) PROVE GateInv'
  <2> DEFINE r == [call[c] EXCEPT !.pc = "overrides", !.ladder = ladder]
  <2>1. call[c] \in Call /\ call[c].pc = "ladder"
    BY <1>3, <1>a DEF Gate!LoadLadder
  <2>2. /\ r \in Call /\ r.user = call[c].user /\ r.held = call[c].held
        /\ r.ladder = ladder /\ r.was = call[c].was /\ r.number \in 1..calls
    BY <2>1, <1>a DEF Call
  <2>3. call' = [call EXCEPT ![c] = r]
    BY <1>3 DEF Gate!LoadLadder
  <2>4. UNCHANGED <<Gate!guild, calls, incidents, logged>>
    BY <1>3 DEF Gate!LoadLadder
  <2>5. /\ incidents' \subseteq 1..calls' /\ logged' \subseteq 1..calls'
        /\ calls <= calls' /\ calls' \in Nat
    BY <1>a, <2>4
  <2> HIDE DEF r
  <2>6. Gate!Rule(r.user, r.held, ladder, rules) \in r.was
    BY <2>1, <2>2 DEF GateInv
  <2>7. Waits(r)
    BY <1>a, <2>2, <2>6 DEF Waits
  <2> QED BY <1>a, <2>2, <2>3, <2>4, <2>5, <2>6, <2>7, CallStep
<1>4. ASSUME NEW c \in Admins, NEW pc \in {"commit", "decline"},
             call[c].pc # "idle", Gate!Goto(c, pc),
             UNCHANGED <<Gate!guild, calls>>,
             incidents' \subseteq 1..calls, logged' \subseteq 1..calls
      PROVE  GateInv'
  <2> DEFINE r == [call[c] EXCEPT !.pc = pc]
  <2>1. r \in Call /\ r.pc = pc /\ r.number \in 1..calls
    BY <1>4, <1>a DEF Call
  <2>2. call' = [call EXCEPT ![c] = r]
    BY <1>4 DEF Gate!Goto
  <2> HIDE DEF r
  <2>3. /\ incidents' \subseteq 1..calls' /\ logged' \subseteq 1..calls'
        /\ calls <= calls' /\ calls' \in Nat /\ UNCHANGED Gate!guild
        /\ r.number \in 1..calls'
    BY <1>a, <1>4, <2>1
  <2>4. Waits(r) /\ r.pc \notin {"ladder", "overrides"}
    BY <2>1 DEF Waits
  <2> QED BY <2>1, <2>2, <2>3, <2>4, CallStep
<1>5. ASSUME NEW c \in Admins, Gate!LoadOverrides(c) PROVE GateInv'
  <2>1. /\ call[c].pc = "overrides"
        /\ UNCHANGED <<Gate!guild, calls, incidents, logged>>
    BY <1>5 DEF Gate!LoadOverrides
  <2>2. call[c].number \in Nat /\ call[c].number \in 1..calls'
    BY <1>a, <2>1
  <2>3. \/ Gate!Ends(c, call[c].number, "incident", "rate_limit")
        \/ Gate!Ends(c, call[c].number, "run", "none")
        \/ Gate!Ends(c, call[c].number, "incident", "permission_denied")
    BY <1>5, Zenon DEF Gate!LoadOverrides, Gate!Allowed, Gate!Refuse
  <2>4. calls' \in Nat /\ calls <= calls' /\ UNCHANGED <<Gate!guild, incidents, logged>>
    BY <1>a, <2>1
  <2> QED BY <2>2, <2>3, <2>4, VerdictStep
<1>6. ASSUME NEW c \in Admins, Gate!LogIncident(c) \/ Gate!CommitIncident(c)
      PROVE  GateInv'
  <2>1. call[c].pc # "idle" /\ UNCHANGED <<Gate!guild, calls>>
    BY <1>6 DEF Gate!LogIncident, Gate!CommitIncident
  <2>2. incidents' \subseteq 1..calls /\ logged' \subseteq 1..calls
    BY <1>6, <1>a DEF Gate!LogIncident, Gate!CommitIncident
  <2>3. Gate!Goto(c, "commit") \/ Gate!Goto(c, "decline")
    BY <1>6 DEF Gate!LogIncident, Gate!CommitIncident
  <2> QED BY <1>4, <2>1, <2>2, <2>3
<1>7. ASSUME NEW c \in Admins, Gate!Run(c) \/ Gate!Decline(c) PROVE GateInv'
  <2>1. /\ call' = [call EXCEPT ![c] = Gate!Idle]
        /\ UNCHANGED <<Gate!guild, calls, incidents, logged>>
    BY <1>7 DEF Gate!Run, Gate!Decline
  <2>2. /\ incidents' \subseteq 1..calls' /\ logged' \subseteq 1..calls'
        /\ calls <= calls' /\ calls' \in Nat
    BY <1>a, <2>1
  <2>3. Waits(Gate!Idle) /\ Gate!Idle.pc \notin {"ladder", "overrides"}
    BY IdleIsCall DEF Waits
  <2> QED BY <1>a, <2>1, <2>2, <2>3, IdleIsCall, CallStep
<1>8. ASSUME NEW u \in Users, Gate!Promotion(u) PROVE GateInv'
  <2>1. roles' \in [Users -> SUBSET Roles]
    BY <1>8 DEF Gate!Promotion, GateInv
  <2>2. UNCHANGED <<ladder, rules, call, incidents, logged, calls>>
    BY <1>8 DEF Gate!Promotion
  <2> QED BY <2>1, <2>2 DEF GateInv, Waits
<1>9. CASE Gate!Reorganised
  <2>1. UNCHANGED <<roles, calls, incidents, logged>>
    BY <1>9 DEF Gate!Reorganised
  <2>2. PICK kind \in {"ladder", "rules"} :
          /\ Gate!Meets(kind) /\ ladder' \in Ladders /\ rules' \in Rules
          /\ kind = "ladder" => UNCHANGED rules
          /\ kind = "rules" => UNCHANGED ladder
    <3>1. CASE UNCHANGED rules /\ Gate!Meets("ladder")
                  /\ \E r \in Roles, p \in Rungs \cup {Nil} : ladder' = [ladder EXCEPT ![r] = p]
      BY <1>a, <3>1 DEF GateInv, Ladders
    <3>2. CASE /\ UNCHANGED ladder /\ Gate!Meets("rules")
               /\ \/ \E p \in Rungs \cup {Nil} : rules' = [rules EXCEPT !.threshold = p]
                  \/ \E u \in Users \cup {Nil} : rules' = [rules EXCEPT !.owner = u]
                  \/ \E R \in SUBSET Roles : rules' = [rules EXCEPT !.commanding = R]
      <4>1. rules' \in Rules
        BY <3>2 DEF GateInv, Rules
      <4> QED BY <1>a, <3>2, <4>1
    <3> QED BY <1>9, <3>1, <3>2 DEF Gate!Reorganised
  <2>3. ASSUME NEW c \in Admins
        PROVE  /\ call'[c] \in Call
               /\ call'[c].pc = "idle" \/ call'[c].number \in 1..calls
               /\ call'[c].pc \in {"ladder", "overrides"} =>
                     Gate!Rule(call'[c].user, call'[c].held, ladder', rules') \in call'[c].was
               /\ Waits(call[c])'
    <3> DEFINE now == Gate!Rule(call[c].user, call[c].held, ladder', rules')
    <3>1. CASE call[c].pc \notin {"ladder", "overrides"}
      <4>1. call'[c] = call[c]
        BY <2>2, <3>1 DEF Gate!Meets
      <4> QED BY <1>a, <3>1, <4>1 DEF Waits
    <3>2. CASE call[c].pc \in {"ladder", "overrides"}
      <4>1. call'[c] = [call[c] EXCEPT !.edited = @ \cup {kind}, !.was = @ \cup {now}]
        BY <2>2, <3>2 DEF Gate!Meets
      <4>2. now \in {"allow", "refuse"}
        BY RuleSays
      <4>3. call[c] \in Call /\ call[c].number \in 1..calls
        BY <1>a, <3>2
      <4>4. /\ call'[c] \in Call
            /\ call'[c].pc = call[c].pc /\ call'[c].number = call[c].number
            /\ call'[c].user = call[c].user /\ call'[c].held = call[c].held
            /\ call'[c].ladder = call[c].ladder
            /\ call'[c].edited = call[c].edited \cup {kind}
            /\ call'[c].was = call[c].was \cup {now}
        <5> HIDE DEF now
        <5>1. /\ call[c].edited \cup {kind} \in SUBSET {"ladder", "rules"}
              /\ call[c].was \cup {now} \in SUBSET {"allow", "refuse"}
          BY <4>2, <4>3 DEF Call
        <5> QED BY <4>1, <4>3, <5>1 DEF Call
      <4>5. now \in call'[c].was
        <5> HIDE DEF now
        <5> QED BY <4>4
      <4>6. Waits(call[c])'
        <5>1. Waits(call[c])
          BY DEF GateInv
        <5>2. CASE kind = "ladder"
          BY <2>2, <4>4, <5>1, <5>2 DEF Waits
        <5>3. CASE kind = "rules"
          BY <2>2, <4>4, <5>1, <5>3 DEF Waits
        <5> QED BY <5>2, <5>3
      <4> QED BY <4>3, <4>4, <4>5, <4>6
    <3> QED BY <3>1, <3>2
  <2>4. call' \in [Admins -> Call]
    BY <2>2, <2>3 DEF Gate!Meets
  <2> QED BY <1>a, <2>1, <2>2, <2>3, <2>4 DEF GateInv
<1>10. CASE Gate!Crash
  <2>1. /\ call' = [c \in Admins |-> Gate!Idle]
        /\ UNCHANGED <<roles, ladder, rules, calls, logged>> /\ incidents' = logged
    BY <1>10 DEF Gate!Crash, Gate!guild
  <2>2. call' \in [Admins -> Call] /\ \A c \in Admins : call'[c].pc = "idle"
    BY <2>1, IdleIsCall
  <2> QED BY <2>1, <2>2 DEF GateInv, Waits
<1> QED
  BY <1>1, <1>2, <1>3, <1>5, <1>6, <1>7, <1>8, <1>9, <1>10 DEF Gate!Next

\* Nothing but Gate!LoadOverrides gives a verdict, and it applies the rule to
\* the ladder it has and the rules as they are.
LEMMA VerdictIsTheRules ==
    ASSUME GateInv, [Gate!Next]_Gate!vars, NEW c \in Admins, Gate!Ruled(c),
           call[c].edited # {"ladder", "rules"}
    PROVE  Gate!Verdict(c) \in call[c].was
<1>a. /\ call \in [Admins -> Call] /\ call[c].pc = "overrides"
      /\ call'[c].pc \in {"run", "incident"}
      /\ call[c].ladder \in Ladders /\ call[c].held \in SUBSET Roles
      /\ call[c].edited \in SUBSET {"ladder", "rules"}
      /\ Gate!Rule(call[c].user, call[c].held, ladder, rules) \in call[c].was
  BY DEF GateInv, Waits, Gate!Ruled, Call
<1>1. CASE Gate!LoadOverrides(c)
  <2> DEFINE k == call[c]
             says == Gate!Rule(k.user, k.held, k.ladder, rules)
             may == Gate!HasPermission(Gate!Rank(k.held, k.ladder), Gate!MinRank(rules),
                                       Gate!IsAdmin(k.user, k.held, rules))
  <2>1. may <=> Gate!May(k.user, k.held, k.ladder, rules)
    <3>1. Gate!MinRank(rules) \in Nat
      BY GateAssumption DEF Gate!MinRank, GateInv, Rules
    <3> QED BY <1>a, <3>1, RankSuffices DEF Gate!HasPermission, Gate!May
  <2>2. says \in call[c].was
    <3>1. CASE "ladder" \notin call[c].edited
      BY <1>a, <3>1 DEF GateInv, Waits
    <3>2. CASE "rules" \notin call[c].edited
      BY <1>a, <3>2 DEF GateInv, Waits
    <3> QED BY <1>a, <3>1, <3>2
  <2>3. CASE may
    <3>1. \/ Gate!Ends(c, k.number, "run", "none")
          \/ Gate!Ends(c, k.number, "incident", "rate_limit")
      BY <1>1, <2>3 DEF Gate!LoadOverrides, Gate!Allowed, Gate!Refuse
    <3>2. call'[c].why \in {"none", "rate_limit"}
      BY <1>a, <3>1 DEF Gate!Ends, Gate!Idle
    <3>3. says = "allow"
      BY <2>1, <2>3 DEF Gate!Rule
    <3> QED BY <2>2, <3>2, <3>3 DEF Gate!Verdict
  <2>4. CASE ~may
    <3>1. Gate!Ends(c, k.number, "incident", "permission_denied")
      BY <1>1, <2>4 DEF Gate!LoadOverrides, Gate!Refuse
    <3>2. call'[c].why = "permission_denied"
      BY <1>a, <3>1 DEF Gate!Ends, Gate!Idle
    <3>3. says = "refuse"
      BY <2>1, <2>4 DEF Gate!Rule
    <3> QED BY <2>2, <3>2, <3>3 DEF Gate!Verdict
  <2> QED BY <2>3, <2>4
<1>2. ASSUME ~Gate!LoadOverrides(c) PROVE FALSE
  <2>1. call'[c].pc # call[c].pc
    BY <1>a
  <2>2. ASSUME NEW d \in Admins, NEW r, call' = [call EXCEPT ![d] = r], d # c
        PROVE  FALSE
    BY <1>a, <2>1, <2>2
  <2>3. ASSUME NEW d \in Admins, NEW u \in Users, NEW cmd \in Commands,
               Gate!Arrives(d, u, cmd)
        PROVE  FALSE
    <3>1. call[d] = Gate!Idle
      BY <2>3 DEF Gate!Arrives
    <3>2. d # c
      BY <1>a, <3>1, IdleIsCall
    <3>3. \E r : call' = [call EXCEPT ![d] = r]
      BY <2>3, Zenon DEF Gate!Arrives, Gate!Allowed, Gate!Refuse, Gate!Ends
    <3> QED BY <2>2, <3>2, <3>3
  <2>4. ASSUME NEW d \in Admins,
               \/ Gate!LoadLadder(d) \/ Gate!Run(d) \/ Gate!LogIncident(d)
               \/ Gate!CommitIncident(d) \/ Gate!Decline(d)
        PROVE  FALSE
    <3>1. call[d].pc # "overrides"
      BY <2>4 DEF Gate!LoadLadder, Gate!Run, Gate!LogIncident, Gate!CommitIncident, Gate!Decline
    <3>2. PICK r : call' = [call EXCEPT ![d] = r]
      BY <2>4 DEF Gate!LoadLadder, Gate!Run, Gate!LogIncident, Gate!CommitIncident, Gate!Decline, Gate!Goto
    <3> QED BY <1>a, <2>2, <3>1, <3>2
  <2>5. ASSUME NEW d \in Admins, Gate!LoadOverrides(d) PROVE FALSE
    <3>1. d # c
      BY <1>2, <2>5
    <3>2. \E r : call' = [call EXCEPT ![d] = r]
      BY <2>5, Zenon DEF Gate!LoadOverrides, Gate!Allowed, Gate!Refuse, Gate!Ends
    <3> QED BY <2>2, <3>1, <3>2
  <2>6. ASSUME NEW u \in Users, Gate!Promotion(u) PROVE FALSE
    BY <2>1, <2>6 DEF Gate!Promotion
  <2>7. CASE Gate!Reorganised
    <3>1. PICK kind : Gate!Meets(kind)
      BY <2>7 DEF Gate!Reorganised
    <3>2. call'[c].pc = call[c].pc
      BY <1>a, <3>1 DEF Gate!Meets, Call
    <3> QED BY <2>1, <3>2
  <2>8. CASE Gate!Crash
    BY <1>a, <2>8, IdleIsCall DEF Gate!Crash
  <2>9. CASE UNCHANGED Gate!vars
    BY <2>1, <2>9 DEF Gate!vars
  <2> QED BY <2>3, <2>4, <2>5, <2>6, <2>7, <2>8, <2>9 DEF Gate!Next
<1> QED BY <1>1, <1>2

LEMMA GateInvariant == PartsSpec => []GateInv
<1>1. PartsInit => GateInv
  BY GateInit DEF PartsInit
<1>2. GateInv /\ [PartsNext]_<<part, parts>> => GateInv'
  <2>1. [PartsNext]_<<part, parts>> => [Gate!Next]_Gate!vars
    BY DEF PartsNext, parts, gate, Gate!vars, Gate!guild, Gate!bounds
  <2> QED BY <2>1, GateStep
<1> QED BY <1>1, <1>2, PTL DEF PartsSpec

\* For any ladder of finitely many rungs, any commands, any roles and any edits:
\* a check under which ladder and rules were not both edited gives the verdict
\* that the rule gave, of the user and the roles the interaction came with, at
\* some moment of the check (VerdictIsOfOneMoment).
THEOREM VerdictsAreOfOneMoment == PartsSpec => VerdictIsOfOneMoment
<1>1. GateInv /\ [PartsNext]_<<part, parts>> =>
         [\A c \in Admins : Gate!Ruled(c) /\ call[c].edited # {"ladder", "rules"} =>
             Gate!Verdict(c) \in call[c].was]_Gate!vars
  <2>1. [PartsNext]_<<part, parts>> => [Gate!Next]_Gate!vars
    BY DEF PartsNext, parts, gate, Gate!vars, Gate!guild, Gate!bounds
  <2> QED BY <2>1, VerdictIsTheRules
<1> QED
  BY <1>1, GateInvariant, PTL DEF PartsSpec, VerdictIsOfOneMoment, Gate!VerdictIsOfOneMoment

-----------------------------------------------------------------------------
(***************************************************************************)
(* Boot.  In a start of the bot, what has been recorded is there, and the  *)
(* one migration that is being applied is the next one.                    *)
(***************************************************************************)
BootPcs == {"down", "version", "script", "record", "hook", "up"}

BootProcs == [pc : BootPcs, at : {0} \cup Start!Migrations, line : Nat,
              ready : BOOLEAN]

Migrated ==
    /\ schema \in [Start!Migrations -> Nat] /\ version \in 0..Len(Statements)
    /\ proc \in BootProcs
    /\ \A m \in Start!Migrations :
          /\ schema[m] <= Statements[m]
          /\ m <= version => schema[m] = Statements[m]
    /\ proc.pc \in {"script", "record"} =>
          /\ proc.at = version + 1 /\ proc.at \in Start!Migrations
          /\ proc.pc = "script" => proc.line \in 1..Statements[proc.at]
          /\ proc.pc = "record" => schema[proc.at] = Statements[proc.at]
    /\ proc.pc \in {"hook", "up"} => version = Len(Statements)

\* Once on_ready has come, a guild without a row is one torn down or one that
\* somebody is about to look at.
Backfilled ==
    /\ rows \in [Guilds -> {Nil, "defaults", "set"}]
    /\ member \cup todo \cup joining \cup torn \subseteq Guilds
    /\ proc.ready =>
          \A g \in member : rows[g] # Nil \/ g \in torn \cup todo \cup joining

BootInv == Migrated /\ Backfilled

LEMMA MigrationSizes ==
    /\ Len(Statements) \in Nat /\ Start!Migrations = 1..Len(Statements)
    /\ \A m \in Start!Migrations : Statements[m] \in Nat /\ Statements[m] >= 1
BY BootAssumption DEF Start!Migrations

LEMMA DownIsProc ==
    Start!Down \in BootProcs /\ Start!Down.pc = "down" /\ ~Start!Down.ready
BY DEF Start!Down, BootProcs, BootPcs

LEMMA BootInit == Start!Init => BootInv
<1> SUFFICES ASSUME Start!Init PROVE BootInv
  OBVIOUS
<1>1. Migrated
  BY MigrationSizes DEF Start!Init, Migrated, Start!Down, BootProcs, BootPcs
<1>2. Backfilled
  BY DEF Start!Init, Backfilled, Start!Down
<1> QED BY <1>1, <1>2 DEF BootInv

\* After the version recorded comes the next migration, from its first
\* statement, or the hook.
LEMMA NextMigrationIs ==
    ASSUME NEW current \in 0..Len(Statements)
    PROVE  LET next == Start!NextMigration(current) IN
           /\ next \in BootProcs /\ ~next.ready
           /\ \/ /\ next.pc = "script" /\ next.at = current + 1 /\ next.line = 1
                 /\ current + 1 \in Start!Migrations
              \/ next.pc = "hook" /\ current = Len(Statements)
<1>1. CASE current < Len(Statements)
  <2>1. current + 1 \in Start!Migrations
    BY <1>1, MigrationSizes
  <2> QED BY <1>1, <2>1, DownIsProc DEF Start!NextMigration, BootProcs, BootPcs
<1>2. CASE current = Len(Statements)
  <2>1. ~(current < Len(Statements))
    BY <1>2, MigrationSizes
  <2> QED BY <1>2, <2>1, DownIsProc DEF Start!NextMigration, BootProcs, BootPcs
<1> QED BY <1>1, <1>2, MigrationSizes

LEMMA NextMigrationFollows ==
    ASSUME Migrated, schema' = schema, version' \in 0..Len(Statements),
           proc' = Start!NextMigration(version'),
           \A m \in Start!Migrations : m <= version' => schema[m] = Statements[m]
    PROVE  Migrated' /\ ~proc'.ready
<1>1. /\ proc' \in BootProcs /\ ~proc'.ready
      /\ \/ /\ proc'.pc = "script" /\ proc'.at = version' + 1 /\ proc'.line = 1
            /\ proc'.at \in Start!Migrations
         \/ proc'.pc = "hook" /\ version' = Len(Statements)
  BY NextMigrationIs
<1> QED BY <1>1, MigrationSizes DEF Migrated

LEMMA MigratedStep == Migrated /\ [Start!Next]_(Start!vars) => Migrated'
<1> SUFFICES ASSUME Migrated, [Start!Next]_(Start!vars) PROVE Migrated'
  OBVIOUS
<1>1. CASE Start!Start
  BY <1>1, MigrationSizes DEF Start!Start, Migrated, BootProcs, BootPcs
<1>2. CASE Start!ReadVersion
  BY <1>2, NextMigrationFollows DEF Start!ReadVersion, Migrated
<1>3. CASE Start!RunStatement
  <2> DEFINE m == proc.at
  <2>1. /\ proc.pc = "script" /\ m = version + 1 /\ m \in Start!Migrations
        /\ schema[m] = proc.line - 1 /\ proc.line \in 1..Statements[m]
        /\ Statements[m] \in Nat
    BY <1>3, MigrationSizes DEF Start!RunStatement, Migrated
  <2>2. /\ schema' = [schema EXCEPT ![m] = proc.line]
        /\ version' = version
        /\ proc' = IF proc.line = Statements[m] THEN [proc EXCEPT !.pc = "record"]
                   ELSE [proc EXCEPT !.line = @ + 1]
    BY <1>3 DEF Start!RunStatement
  <2>3. /\ schema' \in [Start!Migrations -> Nat]
        /\ \A k \in Start!Migrations :
              /\ schema'[k] <= Statements[k]
              /\ k <= version => schema'[k] = Statements[k]
    BY <2>1, <2>2, MigrationSizes DEF Migrated
  <2>4. CASE proc.line = Statements[m]
    <3>1. proc' = [proc EXCEPT !.pc = "record"]
      BY <2>2, <2>4
    <3>2. schema'[m] = Statements[m]
      BY <2>1, <2>2, <2>4 DEF Migrated
    <3> QED BY <2>1, <2>2, <2>3, <3>1, <3>2 DEF Migrated, BootProcs, BootPcs
  <2>5. CASE proc.line # Statements[m]
    <3>1. proc' = [proc EXCEPT !.line = proc.line + 1]
      BY <2>2, <2>5
    <3>2. proc.line + 1 \in 1..Statements[m] /\ proc.line + 1 \in Nat
      BY <2>1, <2>5
    <3> QED BY <2>1, <2>2, <2>3, <3>1, <3>2 DEF Migrated, BootProcs, BootPcs
  <2> QED BY <2>4, <2>5
<1>4. CASE Start!RunAgainFails \/ Start!Crash
  BY <1>4, DownIsProc DEF Start!RunAgainFails, Start!Crash, Migrated
<1>5. CASE Start!Record
  <2>1. /\ version' = version + 1 /\ schema' = schema
        /\ proc' = Start!NextMigration(version')
        /\ version + 1 \in Start!Migrations
        /\ schema[version + 1] = Statements[version + 1]
    BY <1>5 DEF Start!Record, Migrated
  <2>2. version' \in 0..Len(Statements)
    BY <2>1, MigrationSizes
  <2>3. \A m \in Start!Migrations : m <= version' => schema[m] = Statements[m]
    BY <2>1, MigrationSizes DEF Migrated
  <2> QED BY <2>1, <2>2, <2>3, NextMigrationFollows
<1>6. CASE Start!Hook \/ Start!Ready
  BY <1>6 DEF Start!Hook, Start!Ready, Start!Up, Migrated, BootProcs, BootPcs
<1>7. ASSUME NEW g \in Guilds,
             \/ Start!EnsureNext(g) \/ Start!EnsureJoined(g) \/ Start!Joins(g)
             \/ Start!Leaves(g) \/ Start!Setup(g) \/ Start!Teardown(g)
      PROVE  Migrated'
  <2>1. UNCHANGED <<schema, version, proc>>
    BY <1>7 DEF Start!EnsureNext, Start!EnsureJoined, Start!Joins, Start!Leaves,
                Start!Setup, Start!Teardown
  <2> QED BY <2>1 DEF Migrated
<1>8. CASE UNCHANGED Start!vars
  BY <1>8 DEF Start!vars, Start!guilds, Migrated
<1> QED
  BY <1>1, <1>2, <1>3, <1>4, <1>5, <1>6, <1>7, <1>8 DEF Start!Next

LEMMA BackfilledStep ==
    Migrated /\ Backfilled /\ [Start!Next]_(Start!vars) => Backfilled'
<1> SUFFICES ASSUME Migrated, Backfilled, [Start!Next]_(Start!vars) PROVE Backfilled'
  OBVIOUS
<1>1. ASSUME Start!Start \/ Start!RunStatement \/ Start!Hook
      PROVE  Backfilled'
  <2>1. UNCHANGED Start!guilds /\ proc'.ready = proc.ready
    BY <1>1 DEF Start!Start, Start!RunStatement, Start!Hook, Migrated,
                BootProcs
  <2> QED BY <2>1 DEF Start!guilds, Backfilled
<1>2. ASSUME Start!ReadVersion \/ Start!Record \/ Start!RunAgainFails
      PROVE  Backfilled'
  <2>1. \A current : ~Start!NextMigration(current).ready
    BY DownIsProc DEF Start!NextMigration, BootProcs
  <2>2. ~proc'.ready /\ UNCHANGED Start!guilds
    BY <1>2, <2>1, DownIsProc
    DEF Start!ReadVersion, Start!Record, Start!RunAgainFails
  <2> QED BY <2>2 DEF Start!guilds, Backfilled
<1>3. CASE Start!Ready
  BY <1>3 DEF Start!Ready, Backfilled
<1>4. CASE Start!Crash
  BY <1>4 DEF Start!Crash, Start!Down, Backfilled
<1>5. ASSUME NEW g \in Guilds, Start!EnsureNext(g) \/ Start!EnsureJoined(g)
      PROVE  Backfilled'
  <2>1. /\ rows' \in [Guilds -> {Nil, "defaults", "set"}]
        /\ rows'[g] # Nil
        /\ \A x \in Guilds \ {g} : rows'[x] = rows[x]
    BY <1>5, BootAssumption
    DEF Start!EnsureNext, Start!EnsureJoined, Start!EnsureGuild, Backfilled
  <2>2. /\ torn' = torn \ {g} /\ UNCHANGED <<proc, member>>
        /\ todo \ {g} \subseteq todo' /\ joining \ {g} \subseteq joining'
        /\ todo' \subseteq todo /\ joining' \subseteq joining
    BY <1>5 DEF Start!EnsureNext, Start!EnsureJoined, Start!EnsureGuild
  <2> QED BY <2>1, <2>2 DEF Backfilled
<1>6. ASSUME NEW g \in Guilds, Start!Joins(g) \/ Start!Leaves(g)
      PROVE  Backfilled'
  BY <1>6 DEF Start!Joins, Start!Leaves, Backfilled
<1>7. ASSUME NEW g \in Guilds, Start!Setup(g) PROVE Backfilled'
  BY <1>7, BootAssumption DEF Start!Setup, Backfilled
<1>8. ASSUME NEW g \in Guilds, Start!Teardown(g) PROVE Backfilled'
  BY <1>8 DEF Start!Teardown, Backfilled
<1>9. CASE UNCHANGED Start!vars
  BY <1>9 DEF Start!vars, Start!guilds, Backfilled
<1> QED
  BY <1>1, <1>2, <1>3, <1>4, <1>5, <1>6, <1>7, <1>8, <1>9 DEF Start!Next

LEMMA BootStep == BootInv /\ [PartsNext]_<<part, parts>> => BootInv'
<1>1. [PartsNext]_<<part, parts>> => [Start!Next]_(Start!vars)
  BY DEF PartsNext, parts, boot, Start!vars, Start!guilds
<1> QED BY <1>1, MigratedStep, BackfilledStep DEF BootInv

LEMMA BootInvariant == PartsSpec => []BootInv
<1>1. PartsInit => BootInv
  BY BootInit DEF PartsInit
<1> QED BY <1>1, BootStep, PTL DEF PartsSpec

\* For any list of migrations and any crashes between their statements: a bot
\* that is up has every statement of every migration, and one that has caught
\* up has a row for each guild it is in, unless torn down since (UpMeansReady).
THEOREM BootsReady == PartsSpec => []UpMeansReady
<1>1. BootInv => UpMeansReady
  <2> SUFFICES ASSUME BootInv PROVE Start!SchemaWhole /\ Start!RowsThere
    BY DEF UpMeansReady, Start!UpMeansReady
  <2>1. Start!SchemaWhole
    BY MigrationSizes DEF BootInv, Migrated, Start!SchemaWhole, Start!Up
  <2>2. Start!RowsThere
    BY DEF BootInv, Backfilled, Start!RowsThere
  <2> QED BY <2>1, <2>2
<1> QED BY <1>1, BootInvariant, PTL

\* Whatever starts, joins and backfills come in between, only a teardown takes
\* a guild's settings away (SettingsOutlive).
THEOREM SettingsSurvive == PartsSpec => SettingsOutlive
<1>1. BootInv /\ [PartsNext]_<<part, parts>> =>
         [\A g \in Guilds : rows[g] = "set" /\ rows'[g] # "set"
              => Start!Teardown(g)]_(Start!vars)
  <2> SUFFICES ASSUME BootInv, [Start!Next]_(Start!vars), NEW g \in Guilds,
                      rows[g] = "set", rows'[g] # "set"
               PROVE  Start!Teardown(g)
    BY DEF PartsNext, parts, boot, Start!vars, Start!guilds
  <2>1. rows \in [Guilds -> {Nil, "defaults", "set"}]
    BY DEF BootInv, Backfilled
  <2>2. ASSUME \/ Start!Start \/ Start!ReadVersion \/ Start!RunStatement
               \/ Start!RunAgainFails \/ Start!Record \/ Start!Hook
               \/ Start!Ready \/ Start!Crash \/ UNCHANGED Start!vars
        PROVE  FALSE
    BY <2>2 DEF Start!Start, Start!ReadVersion, Start!RunStatement,
                Start!RunAgainFails, Start!Record, Start!Hook, Start!Ready,
                Start!Crash, Start!guilds, Start!vars
  <2>3. ASSUME NEW h \in Guilds,
               \/ Start!EnsureNext(h) \/ Start!EnsureJoined(h) \/ Start!Joins(h)
               \/ Start!Leaves(h) \/ Start!Setup(h)
        PROVE  FALSE
    BY <2>1, <2>3, BootAssumption
    DEF Start!EnsureNext, Start!EnsureJoined, Start!EnsureGuild, Start!Joins,
        Start!Leaves, Start!Setup
  <2>4. ASSUME NEW h \in Guilds, Start!Teardown(h) PROVE Start!Teardown(g)
    <3>1. h = g
      BY <2>1, <2>4 DEF Start!Teardown
    <3> QED BY <2>4, <3>1
  <2> QED BY <2>2, <2>3, <2>4 DEF Start!Next
<1> QED BY <1>1, BootInvariant, PTL DEF PartsSpec, SettingsOutlive, Start!SettingsOutlive

-----------------------------------------------------------------------------
(***************************************************************************)
(* Telemetry.  A token is made for one guild, and wherever it turns up     *)
(* afterwards it is that guild's: in a row, a link, the mod's settings, a  *)
(* POST or a reply under way, and with what was heard.                     *)
(***************************************************************************)
Snapshot == [number : 0..MaxReports, from : Guilds \cup {Nil},
             rows : SUBSET {"good"}, at : 0..MaxHours]

Report == [pc : {"idle", "lookup", "body"}, from : Guilds \cup {Nil},
           token : 0..MaxTokens, guild : Guilds \cup {Nil}, number : 0..MaxReports]

Question == [link : Feed!Tokens \cup {Nil}, guild : Guilds \cup {Nil}]

PerGuild == [Guilds -> Feed!Tokens \cup {Nil}]

FeedTyped ==
    /\ time \in 0..MaxHours /\ tokens \in 0..MaxTokens /\ sent \in 0..MaxReports
    /\ stored \in PerGuild /\ links \in PerGuild
    /\ opening \in PerGuild /\ server \in PerGuild
    /\ heard \in [Feed!Tokens -> Snapshot]
    /\ post \in [Requests -> Report]
    /\ \A r \in Requests : post[r].number <= sent
    /\ ask \in [Readers -> Question]

\* The tokens made so far are owned, each by the guild it was made for.
OwnTokens(owner, f) ==
    \A g \in Guilds : f[g] # Nil => f[g] \in 1..tokens /\ owner[f[g]] = g

OwnReports(owner) ==
    \A r \in Requests : post[r].pc # "idle" =>
        /\ post[r].from \in Guilds
        /\ post[r].token \in 1..tokens /\ owner[post[r].token] = post[r].from
        /\ post[r].pc = "body" => post[r].guild = post[r].from

OwnSnapshots(owner) ==
    \A t \in Feed!Tokens : heard[t] # Feed!Nothing =>
        t \in 1..tokens /\ heard[t].from = owner[t]

OwnQuestions(owner) ==
    \A q \in Readers : ask[q] # Feed!NoAsk =>
        /\ ask[q].link \in 1..tokens
        /\ owner[ask[q].link] = ask[q].guild

Owned(owner) ==
    /\ OwnTokens(owner, stored) /\ OwnTokens(owner, links)
    /\ OwnTokens(owner, opening) /\ OwnTokens(owner, server)
    /\ OwnReports(owner) /\ OwnSnapshots(owner) /\ OwnQuestions(owner)

Owners == [Feed!Tokens -> Guilds \cup {Nil}]

FeedInv == FeedTyped /\ \E owner \in Owners : Owned(owner)

LEMMA FeedConstants ==
    /\ MaxTokens \in Nat /\ MaxReports \in Nat /\ MaxHours \in Nat
    /\ StaleAfter \in Nat /\ Feed!Tokens = 1..MaxTokens /\ Nil \notin Feed!Tokens
    /\ Nil \notin Guilds
BY FeedAssumption DEF Feed!Tokens

LEMMA EmptyRecords ==
    /\ Feed!NoPost \in Report /\ Feed!NoPost.pc = "idle" /\ Feed!NoPost.number = 0
    /\ Feed!Nothing \in Snapshot
    /\ Feed!NoAsk \in Question
<1>1. Feed!NoPost \in Report /\ Feed!NoPost.pc = "idle" /\ Feed!NoPost.number = 0
  BY FeedConstants DEF Feed!NoPost, Report
<1>2. Feed!Nothing \in Snapshot
  BY FeedConstants DEF Feed!Nothing, Snapshot
<1>3. Feed!NoAsk \in Question
  BY DEF Feed!NoAsk, Question
<1> QED BY <1>1, <1>2, <1>3

LEMMA FeedInit == Feed!Init => FeedInv
<1> SUFFICES ASSUME Feed!Init PROVE FeedInv
  OBVIOUS
<1>1. /\ time = 0 /\ tokens = 0 /\ sent = 0
      /\ stored = [g \in Guilds |-> Nil] /\ links = stored
      /\ opening = stored /\ server = stored
      /\ heard = [t \in Feed!Tokens |-> Feed!Nothing]
      /\ post = [r \in Requests |-> Feed!NoPost]
      /\ ask = [r \in Readers |-> Feed!NoAsk]
  BY DEF Feed!Init
<1>2. FeedTyped
  BY <1>1, FeedConstants, EmptyRecords DEF FeedTyped, PerGuild
<1> DEFINE owner == [t \in Feed!Tokens |-> Nil]
<1>3. owner \in Owners
  BY DEF Owners
<1>4. Owned(owner)
  BY <1>1, EmptyRecords
  DEF Owned, OwnTokens, OwnReports, OwnSnapshots, OwnQuestions
<1> QED BY <1>2, <1>3, <1>4 DEF FeedInv

\* What is owned stays so when more tokens are made.
LEMMA OwnershipGrows ==
    ASSUME FeedTyped, NEW owner \in Owners, Owned(owner), NEW g \in Guilds,
           tokens < MaxTokens, tokens' = tokens + 1,
           NEW heir, heir = [owner EXCEPT ![tokens'] = g],
           UNCHANGED <<links, server, heard, post, ask>>,
           stored' = [stored EXCEPT ![g] = tokens'],
           opening' = [opening EXCEPT ![g] = tokens']
    PROVE  heir \in Owners /\ Owned(heir)'
<1>1. /\ tokens \in Nat /\ tokens' \in Feed!Tokens
      /\ tokens' \in 1..tokens' /\ 1..tokens \subseteq 1..tokens'
      /\ 1..tokens \subseteq Feed!Tokens /\ tokens' \notin 1..tokens
  BY FeedConstants DEF FeedTyped
<1>2. /\ heir \in Owners /\ heir[tokens'] = g
      /\ \A t \in 1..tokens : heir[t] = owner[t]
  BY <1>1 DEF Owners
<1>3. OwnTokens(heir, stored)' /\ OwnTokens(heir, opening)'
  BY <1>1, <1>2 DEF Owned, OwnTokens, FeedTyped, PerGuild
<1>4. OwnTokens(heir, links)' /\ OwnTokens(heir, server)'
  BY <1>1, <1>2 DEF Owned, OwnTokens, FeedTyped, PerGuild
<1>5. OwnReports(heir)' /\ OwnQuestions(heir)'
  BY <1>1, <1>2 DEF Owned, OwnReports, OwnQuestions
<1>6. OwnSnapshots(heir)'
  BY <1>1, <1>2 DEF Owned, OwnSnapshots
<1> QED BY <1>2, <1>3, <1>4, <1>5, <1>6 DEF Owned

LEMMA FeedTypedStep == FeedTyped /\ [Feed!Next]_(Feed!vars) => FeedTyped'
<1> SUFFICES ASSUME FeedTyped, [Feed!Next]_(Feed!vars) PROVE FeedTyped'
  OBVIOUS
<1> USE DEF Feed!config, Feed!bounds, FeedTyped
<1>1. ASSUME NEW g \in Guilds, Feed!Link(g) PROVE FeedTyped'
  <2>1. tokens' \in Feed!Tokens /\ tokens' \in 0..MaxTokens
    BY <1>1, FeedConstants DEF Feed!Link
  <2> QED BY <1>1, <2>1 DEF Feed!Link, PerGuild
<1>2. ASSUME NEW g \in Guilds, Feed!Registered(g) PROVE FeedTyped'
  BY <1>2 DEF Feed!Registered, PerGuild
<1>3. ASSUME NEW g \in Guilds, Feed!Unlink(g) \/ Feed!Teardown(g) PROVE FeedTyped'
  BY <1>3 DEF Feed!Unlink, Feed!Teardown, PerGuild
<1>4. ASSUME NEW g \in Guilds, Feed!Paste(g) PROVE FeedTyped'
  BY <1>4 DEF Feed!Paste, PerGuild
<1>5. ASSUME NEW g \in Guilds, NEW r \in Requests, Feed!Sends(r, g) PROVE FeedTyped'
  <2> DEFINE new == [pc |-> "lookup", from |-> g, token |-> server[g],
                     guild |-> Nil, number |-> sent']
  <2>1. sent' = sent + 1 /\ sent' \in 0..MaxReports
    BY <1>5, FeedConstants DEF Feed!Sends
  <2>2. server[g] \in 0..MaxTokens
    BY <1>5, FeedConstants DEF Feed!Sends, PerGuild
  <2>3. new \in Report /\ new.number <= sent'
    BY <2>1, <2>2 DEF Report
  <2>4. post' = [post EXCEPT ![r] = new]
    BY <1>5 DEF Feed!Sends
  <2> HIDE DEF new
  <2>5. post' \in [Requests -> Report]
        /\ \A s \in Requests : post'[s].number <= sent'
    BY <2>1, <2>3, <2>4, FeedConstants DEF Report
  <2> QED BY <1>5, <2>1, <2>5 DEF Feed!Sends
<1>6. ASSUME NEW r \in Requests, Feed!Lookup(r) PROVE FeedTyped'
  <2>1. PICK new \in Report :
           post' = [post EXCEPT ![r] = new] /\ new.number <= sent
    <3>1. CASE Feed!Issued(post[r].token) = {}
      BY <1>6, <3>1, EmptyRecords, FeedConstants DEF Feed!Lookup
    <3>2. CASE Feed!Issued(post[r].token) # {}
      <4>1. PICK g \in Guilds :
               post' = [post EXCEPT ![r].pc = "body", ![r].guild = g]
        BY <1>6, <3>2 DEF Feed!Lookup, Feed!Issued
      <4> DEFINE new == [post[r] EXCEPT !.pc = "body", !.guild = g]
      <4>2. new \in Report /\ new.number = post[r].number
        BY DEF Report
      <4>3. post' = [post EXCEPT ![r] = new]
        BY <4>1
      <4> QED BY <4>2, <4>3
    <3> QED BY <3>1, <3>2
  <2> QED BY <1>6, <2>1 DEF Feed!Lookup
<1>7. ASSUME NEW r \in Requests, NEW body \in SUBSET Feed!Rows, Feed!Ingest(r, body)
      PROVE  FeedTyped'
  <2> DEFINE new == [number |-> post[r].number, from |-> post[r].from,
                     rows |-> Feed!Parsed(body), at |-> time]
             g == post[r].guild
  <2>1. Feed!Parses(body) => new \in Snapshot
    BY DEF Feed!Parses, Feed!Parsed, Feed!Rows, Report, Snapshot
  <2>2. heard' = heard \/ (heard' = [heard EXCEPT ![links[g]] = new]
                           /\ Feed!Parses(body))
    BY <1>7 DEF Feed!Ingest
  <2> HIDE DEF new
  <2>3. heard' \in [Feed!Tokens -> Snapshot]
    BY <2>1, <2>2
  <2>4. post' = [post EXCEPT ![r] = Feed!NoPost]
    BY <1>7 DEF Feed!Ingest
  <2>5. post' \in [Requests -> Report] /\ \A s \in Requests : post'[s].number <= sent
    BY <2>4, EmptyRecords, FeedConstants
  <2> QED BY <1>7, <2>3, <2>5 DEF Feed!Ingest
<1>8. ASSUME NEW q \in Readers, NEW g \in Guilds, Feed!Asks(q, g) PROVE FeedTyped'
  <2>1. [link |-> links[g], guild |-> g] \in Question
    BY DEF PerGuild, Question
  <2> QED BY <1>8, <2>1 DEF Feed!Asks
<1>9. ASSUME NEW q \in Readers, NEW b \in BOOLEAN, Feed!Reply(q, b) PROVE FeedTyped'
  BY <1>9, EmptyRecords DEF Feed!Reply
<1>10. CASE Feed!Tick
  BY <1>10, FeedConstants DEF Feed!Tick
<1>11. CASE Feed!Restart
  BY <1>11, EmptyRecords, FeedConstants DEF Feed!Restart, PerGuild
<1>12. CASE UNCHANGED Feed!vars
  BY <1>12 DEF Feed!vars
<1> QED
  BY <1>1, <1>2, <1>3, <1>4, <1>5, <1>6, <1>7, <1>8, <1>9, <1>10, <1>11, <1>12
  DEF Feed!Next

\* No step but Link makes an owner: the others only hand tokens on.
LEMMA OwnedStep ==
    ASSUME FeedTyped, NEW owner \in Owners, Owned(owner), [Feed!Next]_(Feed!vars)
    PROVE  \E heir \in Owners : Owned(heir)'
<1> USE DEF Feed!config, Feed!bounds
<1>1. ASSUME NEW g \in Guilds, Feed!Link(g) PROVE \E heir \in Owners : Owned(heir)'
  <2>1. PICK heir : heir = [owner EXCEPT ![tokens'] = g]
    OBVIOUS
  <2>2. heir \in Owners /\ Owned(heir)'
    BY <1>1, <2>1, OwnershipGrows DEF Feed!Link
  <2> QED BY <2>2
<1>2. ASSUME NEW g \in Guilds,
             \/ Feed!Registered(g) \/ Feed!Unlink(g) \/ Feed!Teardown(g)
             \/ Feed!Paste(g)
      PROVE  Owned(owner)'
  <2>1. UNCHANGED <<tokens, post, heard, ask>>
    BY <1>2 DEF Feed!Registered, Feed!Unlink, Feed!Teardown, Feed!Paste
  <2>2. /\ OwnTokens(owner, stored)' /\ OwnTokens(owner, links)'
        /\ OwnTokens(owner, opening)' /\ OwnTokens(owner, server)'
    BY <1>2, <2>1
    DEF Feed!Registered, Feed!Unlink, Feed!Teardown, Feed!Paste, Owned, OwnTokens,
        FeedTyped, PerGuild
  <2> QED BY <2>1, <2>2 DEF Owned, OwnReports, OwnSnapshots, OwnQuestions
<1>3. ASSUME UNCHANGED <<stored, links, opening, server, tokens>>,
             OwnReports(owner)', OwnSnapshots(owner)', OwnQuestions(owner)'
      PROVE  Owned(owner)'
  BY <1>3 DEF Owned, OwnTokens
<1>4. ASSUME NEW g \in Guilds, NEW r \in Requests, Feed!Sends(r, g)
      PROVE  Owned(owner)'
  <2>1. /\ post' = [post EXCEPT ![r] =
               [pc |-> "lookup", from |-> g, token |-> server[g],
                guild |-> Nil, number |-> sent']]
        /\ server[g] # Nil
        /\ UNCHANGED <<stored, links, opening, server, tokens, heard, ask>>
    BY <1>4 DEF Feed!Sends
  <2>2. server[g] \in 1..tokens /\ owner[server[g]] = g
    BY <2>1 DEF Owned, OwnTokens
  <2>3. OwnReports(owner)'
    BY <2>1, <2>2 DEF Owned, OwnReports, FeedTyped
  <2> QED BY <1>3, <2>1, <2>3 DEF Owned, OwnSnapshots, OwnQuestions
<1>5. ASSUME NEW r \in Requests, Feed!Lookup(r) PROVE Owned(owner)'
  <2>1. /\ post[r].pc = "lookup"
        /\ UNCHANGED <<stored, links, opening, server, tokens, heard, ask>>
    BY <1>5 DEF Feed!Lookup
  <2>2. CASE Feed!Issued(post[r].token) = {}
    <3>1. post' = [post EXCEPT ![r] = Feed!NoPost]
      BY <1>5, <2>2 DEF Feed!Lookup
    <3>2. OwnReports(owner)'
      BY <2>1, <3>1, EmptyRecords DEF Owned, OwnReports, FeedTyped
    <3> QED BY <1>3, <2>1, <3>2 DEF Owned, OwnSnapshots, OwnQuestions
  <2>3. CASE Feed!Issued(post[r].token) # {}
    <3>1. PICK g \in Feed!Issued(post[r].token) :
             post' = [post EXCEPT ![r].pc = "body", ![r].guild = g]
      BY <1>5, <2>3 DEF Feed!Lookup
    <3>2. /\ post[r].from \in Guilds /\ post[r].token \in 1..tokens
          /\ owner[post[r].token] = post[r].from
      BY <2>1 DEF Owned, OwnReports
    <3>3. g \in Guilds /\ stored[g] = post[r].token /\ stored[g] # Nil
      BY <3>2, FeedConstants DEF Feed!Issued, FeedTyped
    <3>4. g = post[r].from
      BY <3>2, <3>3 DEF Owned, OwnTokens
    <3>5. OwnReports(owner)'
      BY <2>1, <3>1, <3>2, <3>4 DEF Owned, OwnReports, FeedTyped, Report
    <3> QED BY <1>3, <2>1, <3>5 DEF Owned, OwnSnapshots, OwnQuestions
  <2> QED BY <2>2, <2>3
<1>6. ASSUME NEW r \in Requests, NEW body \in SUBSET Feed!Rows, Feed!Ingest(r, body)
      PROVE  Owned(owner)'
  <2> DEFINE g == post[r].guild
  <2>1. /\ post[r].pc = "body" /\ post' = [post EXCEPT ![r] = Feed!NoPost]
        /\ UNCHANGED <<stored, links, opening, server, tokens, ask>>
    BY <1>6 DEF Feed!Ingest
  <2>2. OwnReports(owner)'
    BY <2>1, EmptyRecords DEF Owned, OwnReports, FeedTyped
  <2>3. g \in Guilds /\ g = post[r].from
    BY <2>1 DEF Owned, OwnReports
  <2>4. OwnSnapshots(owner)'
    <3>1. CASE heard' = heard
      BY <2>1, <3>1 DEF Owned, OwnSnapshots
    <3>2. CASE heard' # heard
      <4>1. /\ links[g] # Nil
            /\ heard' = [heard EXCEPT ![links[g]] =
                 [number |-> post[r].number, from |-> post[r].from,
                  rows |-> Feed!Parsed(body), at |-> time]]
        BY <1>6, <3>2 DEF Feed!Ingest
      <4>2. links[g] \in 1..tokens /\ owner[links[g]] = g
        BY <2>3, <4>1 DEF Owned, OwnTokens
      <4> QED BY <2>1, <2>3, <4>1, <4>2 DEF Owned, OwnSnapshots, FeedTyped
    <3> QED BY <3>1, <3>2
  <2> QED BY <1>3, <2>1, <2>2, <2>4 DEF Owned, OwnQuestions
<1>7. ASSUME NEW q \in Readers, NEW g \in Guilds, Feed!Asks(q, g)
      PROVE  Owned(owner)'
  <2>1. /\ links[g] # Nil
        /\ ask' = [ask EXCEPT ![q] = [link |-> links[g], guild |-> g]]
        /\ UNCHANGED <<stored, links, opening, server, tokens, heard, post>>
    BY <1>7 DEF Feed!Asks
  <2>2. links[g] \in 1..tokens /\ owner[links[g]] = g
    BY <2>1 DEF Owned, OwnTokens
  <2>3. OwnQuestions(owner)'
    BY <2>1, <2>2 DEF Owned, OwnQuestions, FeedTyped
  <2> QED BY <1>3, <2>1, <2>3 DEF Owned, OwnSnapshots, OwnReports
<1>8. ASSUME NEW q \in Readers, NEW b \in BOOLEAN, Feed!Reply(q, b)
      PROVE  Owned(owner)'
  <2>1. /\ ask' = [ask EXCEPT ![q] = Feed!NoAsk]
        /\ UNCHANGED <<stored, links, opening, server, tokens, heard, post>>
    BY <1>8 DEF Feed!Reply
  <2>2. OwnQuestions(owner)'
    BY <2>1 DEF Owned, OwnQuestions, FeedTyped
  <2> QED BY <1>3, <2>1, <2>2 DEF Owned, OwnSnapshots, OwnReports
<1>9. CASE Feed!Tick \/ UNCHANGED Feed!vars
  BY <1>9
  DEF Feed!Tick, Feed!vars, Owned, OwnTokens, OwnReports, OwnSnapshots, OwnQuestions
<1>10. CASE Feed!Restart
  <2>1. /\ links' = stored /\ opening' = [g \in Guilds |-> Nil]
        /\ heard' = [t \in Feed!Tokens |-> Feed!Nothing]
        /\ post' = [r \in Requests |-> Feed!NoPost]
        /\ ask' = [q \in Readers |-> Feed!NoAsk]
        /\ UNCHANGED <<stored, server, tokens>>
    BY <1>10 DEF Feed!Restart
  <2> QED
    BY <2>1, EmptyRecords
    DEF Owned, OwnTokens, OwnReports, OwnSnapshots, OwnQuestions
<1> QED
  BY <1>1, <1>2, <1>4, <1>5, <1>6, <1>7, <1>8, <1>9, <1>10 DEF Feed!Next

LEMMA FeedInvariant == PartsSpec => []FeedInv
<1>1. PartsInit => FeedInv
  BY FeedInit DEF PartsInit
<1>2. FeedInv /\ [PartsNext]_<<part, parts>> => FeedInv'
  <2>1. [PartsNext]_<<part, parts>> => [Feed!Next]_(Feed!vars)
    BY DEF PartsNext, parts, feed, Feed!vars, Feed!config, Feed!bounds
  <2> QED BY <2>1, FeedTypedStep, OwnedStep DEF FeedInv
<1> QED BY <1>1, <1>2, PTL DEF PartsSpec

\* For any number of guilds, tokens, POSTs and replies under way: a guild that
\* is told its server is reachable has heard from its own server, and no longer
\* ago than STALE_AFTER_SECONDS (OwnServerAndRecent).
THEOREM RepliesAreOwn == PartsSpec => OwnServerAndRecent
<1>1. FeedInv /\ [PartsNext]_<<part, parts>> =>
         [\A q \in Readers : Feed!Reply(q, TRUE) =>
              LET last == heard[ask[q].link] IN
              last.from = ask[q].guild /\ time <= last.at + StaleAfter]_(Feed!vars)
  <2> SUFFICES ASSUME FeedInv, NEW q \in Readers, Feed!Reply(q, TRUE)
               PROVE  /\ heard[ask[q].link].from = ask[q].guild
                      /\ time <= heard[ask[q].link].at + StaleAfter
    OBVIOUS
  <2> DEFINE last == heard[ask[q].link]
  <2>1. PICK owner \in Owners : Owned(owner)
    BY DEF FeedInv
  <2>2. /\ ask[q].link \in Feed!Tokens
        /\ owner[ask[q].link] = ask[q].guild
    BY <2>1, FeedConstants DEF Feed!Reply, Owned, OwnQuestions, FeedInv, FeedTyped
  <2>3. last # Feed!Nothing /\ ~(time - last.at > StaleAfter)
    BY DEF Feed!Reply, Feed!Stale
  <2>4. last.from = ask[q].guild
    BY <2>1, <2>2, <2>3 DEF Owned, OwnSnapshots
  <2>5. last.at \in Nat /\ time \in Nat
    BY <2>2, FeedConstants DEF FeedInv, FeedTyped, Snapshot
  <2> HIDE DEF last
  <2>6. time <= last.at + StaleAfter
    BY <2>3, <2>5, FeedConstants
  <2> QED BY <2>4, <2>6 DEF last
<1> QED
  BY <1>1, FeedInvariant, PTL DEF PartsSpec, OwnServerAndRecent, Feed!OwnServerAndRecent

-----------------------------------------------------------------------------
(***************************************************************************)
(* Formats.  Every input is answered once, so that what is to be shown is  *)
(* that each answer is right for its input.                                *)
(***************************************************************************)
Typable ==
    \/ input.what = "mark" /\ input.east \in Nat /\ input.north \in Nat
    \/ /\ input.what \in {"rank", "event"} /\ input.now \in Nat
       /\ input.amount \in Nat /\ input.unit \in Nat /\ input.unit >= Second
    \/ input.what = "date" /\ input.now \in Nat /\ input.at \in Nat

FormatsInv == Typable /\ Typed!TypeOK /\ InputsComeBack

LEMMA FormatsConstants ==
    /\ Extent \in Nat /\ Size \in Nat /\ Second \in Nat /\ Minute \in Nat
    /\ Extent > 0 /\ Size > 0 /\ Second > 0 /\ Minute > 0 /\ Minute % Second = 0
    /\ MaxDate \in Nat
BY FormatsAssumption

-----------------------------------------------------------------------------
LEMMA Digits == ASSUME NEW r PROVE r \in Typed!ThreeDigits <=> r \in Nat /\ r <= 999
BY DEF Typed!ThreeDigits

\* Grid references.
LEMMA Metres ==
    ASSUME NEW half, NEW ordinal \in Nat, Typed!Recognised(half, ordinal)
    PROVE  /\ Typed!ParseGrid(half, ordinal) \in Nat
           /\ Typed!ParseGrid(half, ordinal) < 100000
           /\ half = 3 => Typed!ParseGrid(half, ordinal) = ordinal * 100
<1>1. half \in 2..5 /\ ordinal * Typed!Multiplier(half) < 100000
  BY DEF Typed!Recognised, Typed!Supported
<1>2. half = 2 \/ half = 3 \/ half = 4 \/ half = 5
  BY <1>1
<1>3. /\ half = 2 => Typed!Multiplier(half) = 1000
      /\ half = 3 => Typed!Multiplier(half) = 100
      /\ half = 4 => Typed!Multiplier(half) = 10
      /\ half = 5 => Typed!Multiplier(half) = 1
  BY DEF Typed!Multiplier
<1> QED BY <1>1, <1>2, <1>3 DEF Typed!ParseGrid

\* A spot between two hundreds is rounded to the nearer of them.
LEMMA Rounded ==
    ASSUME NEW x \in Nat, x < 100000
    PROVE  \/ Typed!Round(x, 100) = x \div 100 /\ x % 100 <= 50
           \/ Typed!Round(x, 100) = x \div 100 + 1 /\ x % 100 >= 50
<1> DEFINE q == x \div 100
           m == x % 100
<1>1. Typed!Round(x, 100) = IF 2 * m < 100 \/ (2 * m = 100 /\ q % 2 = 0) THEN q ELSE q + 1
  BY DEF Typed!Round
<1>2. q \in Nat /\ m \in 0..99
  OBVIOUS
<1> HIDE DEF q, m
<1>3. CASE 2 * m < 100 \/ (2 * m = 100 /\ q % 2 = 0)
  BY <1>1, <1>2, <1>3 DEF q, m
<1>4. CASE ~(2 * m < 100 \/ (2 * m = 100 /\ q % 2 = 0))
  <2>1. 2 * m >= 100
    BY <1>2, <1>4
  <2>2. m >= 50
    BY <1>2, <2>1
  <2>3. Typed!Round(x, 100) = q + 1
    BY <1>1, <1>4
  <2> QED BY <2>2, <2>3 DEF q, m
<1> QED BY <1>3, <1>4

\* Of the hundreds on either side of x, s is the nearer.
Nearer(s, x, q, m) ==
    /\ x = q * 100 + m /\ q <= 999 /\ m <= 99
    /\ \/ s = q /\ (m <= 50 \/ q = 999)
       \/ s = q + 1 /\ m >= 50

AsNear(s, r, x) == Typed!Abs(s * 100 - x) <= Typed!Abs(r * 100 - x)

LEMMA Nearest ==
    ASSUME NEW x \in Nat, NEW q \in Nat, NEW m \in Nat, NEW s \in Nat,
           NEW r \in Typed!ThreeDigits, Nearer(s, x, q, m)
    PROVE  AsNear(s, r, x)
<1> r \in Nat /\ r <= 999
  BY Digits
<1>0. /\ x = q * 100 + m /\ q <= 999 /\ m <= 99
      /\ \/ s = q /\ (m <= 50 \/ q = 999)
         \/ s = q + 1 /\ m >= 50
  BY DEF Nearer
<1>1. CASE s = q
  <2>1. s * 100 - x = -m
    BY <1>0, <1>1
  <2>2. Typed!Abs(s * 100 - x) = m
    BY <1>1, <2>1 DEF AsNear, Typed!Abs
  <2>3. CASE r <= q
    <3>1. r * 100 - x <= -m
      BY <1>0, <2>3
    <3> QED BY <2>2, <3>1 DEF AsNear, Typed!Abs
  <2>4. CASE r >= q + 1
    <3>1. r * 100 - x >= 100 - m /\ m <= 50
      BY <1>0, <1>1, <2>4
    <3> QED BY <2>2, <3>1 DEF AsNear, Typed!Abs
  <2> QED BY <2>3, <2>4
<1>2. CASE s = q + 1
  <2>1. s * 100 - x = 100 - m /\ m >= 50 /\ m <= 99
    BY <1>0, <1>2
  <2>2. Typed!Abs(s * 100 - x) = 100 - m
    BY <2>1 DEF AsNear, Typed!Abs
  <2>3. CASE r <= q
    <3>1. r * 100 - x <= -m
      BY <1>0, <2>3
    <3> QED BY <2>1, <2>2, <3>1 DEF AsNear, Typed!Abs
  <2>4. CASE r >= q + 1
    <3>1. r * 100 - x >= 100 - m
      BY <1>0, <2>4
    <3> QED BY <2>2, <3>1 DEF AsNear, Typed!Abs
  <2> QED BY <2>3, <2>4
<1> QED BY <1>0, <1>1, <1>2

\* A reference of six digits names the nearest multiple of a hundred metres.
LEMMA SixDigits ==
    ASSUME NEW x \in Nat, x < 100000
    PROVE  /\ Typed!FormatGrid(x, 3) \in Typed!ThreeDigits
           /\ \A r \in Typed!ThreeDigits :
                 Typed!Abs(Typed!FormatGrid(x, 3) * 100 - x) <= Typed!Abs(r * 100 - x)
           /\ \A e \in Nat : x = e * 100 => Typed!FormatGrid(x, 3) = e
<1> DEFINE q == x \div 100
           m == x % 100
           n == Typed!Round(x, 100)
           said == Typed!FormatGrid(x, 3)
<1>1. q \in Nat /\ q <= 999 /\ m \in Nat /\ m <= 99 /\ x = q * 100 + m
  OBVIOUS
<1>2. said = Typed!Clamp(n, 0, 999)
  <2>1. Typed!Multiplier(3) = 100
    BY DEF Typed!Multiplier
  <2> QED BY <2>1 DEF Typed!FormatGrid
<1>3. (n = q /\ m <= 50) \/ (n = q + 1 /\ m >= 50)
  BY Rounded
<1> HIDE DEF q, m, n, said
<1>4. \/ said = q /\ (m <= 50 \/ q = 999)
      \/ said = q + 1 /\ q + 1 <= 999 /\ m >= 50
  <2>1. CASE n = q /\ m <= 50
    BY <1>1, <1>2, <2>1 DEF Typed!Clamp
  <2>2. CASE n = q + 1 /\ m >= 50
    BY <1>1, <1>2, <2>2 DEF Typed!Clamp
  <2> QED BY <1>3, <2>1, <2>2
<1>5. said \in Nat /\ said <= 999
  BY <1>1, <1>4
<1>6. ASSUME NEW r \in Typed!ThreeDigits
      PROVE  Typed!Abs(said * 100 - x) <= Typed!Abs(r * 100 - x)
  <2>1. Nearer(said, x, q, m)
    BY <1>1, <1>4 DEF Nearer
  <2>2. q \in Nat /\ m \in Nat /\ said \in Nat
    BY <1>1, <1>5
  <2>3. AsNear(said, r, x)
    BY <2>1, <2>2, Nearest
  <2> QED BY <2>3 DEF AsNear
<1>7. ASSUME NEW e \in Nat, x = e * 100 PROVE said = e
  BY <1>1, <1>4, <1>7
<1> QED BY <1>5, <1>6, <1>7, Digits DEF said

-----------------------------------------------------------------------------
\* A clamped product is the product of what is clamped.
LEMMA ClampTimes ==
    ASSUME NEW k \in Int, NEW s \in Nat, s > 0, NEW top \in Nat
    PROVE  /\ Typed!Clamp(k, 0, top) \in 0..top
           /\ Typed!Clamp(k * s, 0, s * top) = Typed!Clamp(k, 0, top) * s
           /\ (Typed!Clamp(k, 0, top) * s) \div s = Typed!Clamp(k, 0, top)
           /\ Typed!Clamp(k, 0, top) * s \in 0..(s * top)
<1>1. /\ k < 0 <=> k * s < 0
      /\ k > top <=> k * s > s * top
  <2>1. \A a, b \in Int : a < b => a * s < b * s
    OBVIOUS
  <2>2. \A a, b \in Int : a <= b => a * s <= b * s
    OBVIOUS
  <2>3. 0 * s = 0 /\ top * s = s * top /\ k * s \in Int /\ s * top \in Int
    OBVIOUS
  <2>4. k < 0 => k * s < 0
    BY <2>1, <2>3
  <2>5. k >= 0 => k * s >= 0
    BY <2>2, <2>3
  <2>6. k > top => k * s > s * top
    BY <2>1, <2>3
  <2>7. k <= top => k * s <= s * top
    BY <2>2, <2>3
  <2> QED BY <2>3, <2>4, <2>5, <2>6, <2>7
<1>2. Typed!Clamp(k, 0, top) \in 0..top
  BY DEF Typed!Clamp
<1>3. Typed!Clamp(k * s, 0, s * top) = Typed!Clamp(k, 0, top) * s
  <2>1. k * s \in Int /\ s * top \in Int /\ 0 * s = 0 /\ top * s = s * top
    OBVIOUS
  <2>2. CASE k < 0
    BY <1>1, <2>1, <2>2 DEF Typed!Clamp
  <2>3. CASE k > top
    BY <1>1, <2>1, <2>3 DEF Typed!Clamp
  <2>4. CASE ~(k < 0) /\ ~(k > top)
    BY <1>1, <2>1, <2>4 DEF Typed!Clamp
  <2> QED BY <2>2, <2>3, <2>4
<1>4. \A c \in Int : (c * s) \div s = c
  OBVIOUS
<1>5. \A c \in 0..top : c * s \in 0..(s * top)
  OBVIOUS
<1> QED BY <1>2, <1>3, <1>4, <1>5

\* A marker's pixel, read back, is the marker, or the edge next to it.
LEMMA PixelsReadBack ==
    ASSUME NEW x \in Nat
    PROVE  LET px == Typed!Drawn(Typed!East(x))
               py == Typed!Drawn(Typed!Down(x))
           IN  /\ px \in 0..(Size * Extent) /\ py \in 0..(Size * Extent)
               /\ Typed!ToEast(px) = Typed!Clamp(x, 0, Extent)
               /\ Typed!ToNorth(py) = Typed!Clamp(x, 0, Extent)
<1> DEFINE c == Typed!Clamp(x, 0, Extent)
           d == Typed!Clamp(Extent - x, 0, Extent)
<1>1. Typed!Drawn(Typed!East(x)) = c * Size /\ c * Size \in 0..(Size * Extent)
      /\ (c * Size) \div Size = c
  BY ClampTimes, FormatsConstants DEF Typed!Drawn, Typed!East
<1>2. Extent - x \in Int /\ Size * Extent - x * Size = (Extent - x) * Size
  BY FormatsConstants
<1>3. Typed!Drawn(Typed!Down(x)) = d * Size /\ d * Size \in 0..(Size * Extent)
  BY <1>2, ClampTimes, FormatsConstants DEF Typed!Drawn, Typed!Down
<1>4. d = Extent - c /\ c \in 0..Extent
  BY FormatsConstants DEF Typed!Clamp
<1> HIDE DEF c, d
<1>5. Size * Extent - d * Size = c * Size
  <2>1. (Extent - c) * Size = Extent * Size - c * Size
        /\ Extent * Size = Size * Extent /\ c * Size \in Int /\ Size * Extent \in Int
    BY <1>4, FormatsConstants
  <2> QED BY <1>4, <2>1
<1> QED BY <1>1, <1>3, <1>5 DEF Typed!ToEast, Typed!ToNorth, c

-----------------------------------------------------------------------------
\* Times, cut to whole seconds.
LEMMA StoredIs ==
    ASSUME NEW t \in Nat
    PROVE  /\ Typed!Stored(t) \in 0..t /\ Typed!Stored(t) > t - Second
           /\ t % Second = 0 => Typed!Stored(t) = t
<1>1. t % Second \in 0..(Second - 1)
  BY FormatsConstants
<1>2. t % Second <= t
  BY FormatsConstants
<1> QED BY <1>1, <1>2, FormatsConstants DEF Typed!Stored

LEMMA Multiple ==
    ASSUME NEW t \in Nat, NEW s \in Nat, s > 0
    PROVE  /\ (t - (t % s)) % s = 0
           /\ t % s = 0 => \E k \in Nat : t = k * s
<1>1. (t - (t % s)) % s = 0
  OBVIOUS
<1>2. ASSUME t % s = 0 PROVE \E k \in Nat : t = k * s
  BY <1>2
<1> QED BY <1>1, <1>2

LEMMA WholeMinutes ==
    ASSUME NEW t \in Nat
    PROVE  t - (t % Minute) \in Nat /\ (t - (t % Minute)) % Second = 0
<1> DEFINE u == t - (t % Minute)
<1>1. u \in Nat /\ u % Minute = 0
  <2>1. t % Minute \in 0..t
    BY FormatsConstants
  <2>2. (t - (t % Minute)) % Minute = 0
    BY FormatsConstants, Multiple
  <2> QED BY <2>1, <2>2
<1> HIDE DEF u
<1>2. PICK k \in Nat : u = k * Minute
  BY <1>1, FormatsConstants, Multiple
<1>3. PICK m \in Nat : Minute = m * Second
  BY FormatsConstants, Multiple
<1>4. u = (k * m) * Second /\ k * m \in Nat
  BY <1>2, <1>3, FormatsConstants
<1>5. u % Second = 0
  BY <1>4, FormatsConstants
<1> QED BY <1>1, <1>5 DEF u

-----------------------------------------------------------------------------
LEMMA MarkAnswers ==
    ASSUME Typable, Typed!Mark
    PROVE  FormatsInv'
<1> DEFINE x == Typed!ParseGrid(input.half, input.east)
           z == Typed!ParseGrid(input.half, input.north)
<1>1. /\ input.what = "mark" /\ input' = input
      /\ Typed!Recognised(input.half, input.east)
      /\ Typed!Recognised(input.half, input.north)
      /\ answer' = [how |-> "marked", x |-> x, z |-> z,
                    px |-> Typed!Drawn(Typed!East(x)), py |-> Typed!Drawn(Typed!Down(z)),
                    said |-> <<Typed!FormatGrid(x, 3), Typed!FormatGrid(z, 3)>>]
  BY DEF Typed!Mark
<1>2. input.east \in Nat /\ input.north \in Nat
  BY <1>1 DEF Typable
<1>3. /\ x \in Nat /\ x < 100000 /\ z \in Nat /\ z < 100000
      /\ input.half = 3 => x = input.east * 100 /\ z = input.north * 100
  BY <1>1, <1>2, Metres
<1> HIDE DEF x, z
<1>4. /\ answer'.how = "marked" /\ answer'.x = x /\ answer'.z = z
      /\ answer'.px = Typed!Drawn(Typed!East(x))
      /\ answer'.py = Typed!Drawn(Typed!Down(z))
      /\ answer'.said = <<Typed!FormatGrid(x, 3), Typed!FormatGrid(z, 3)>>
      /\ answer'.said[1] = Typed!FormatGrid(x, 3)
      /\ answer'.said[2] = Typed!FormatGrid(z, 3)
  BY <1>1
<1> DEFINE sx == Typed!FormatGrid(x, 3)
           sz == Typed!FormatGrid(z, 3)
<1>5. /\ sx \in Typed!ThreeDigits
      /\ \A r \in Typed!ThreeDigits :
            Typed!Abs(sx * 100 - x) <= Typed!Abs(r * 100 - x)
      /\ \A e \in Nat : x = e * 100 => sx = e
  BY <1>3, SixDigits
<1>6. /\ sz \in Typed!ThreeDigits
      /\ \A r \in Typed!ThreeDigits :
            Typed!Abs(sz * 100 - z) <= Typed!Abs(r * 100 - z)
      /\ \A e \in Nat : z = e * 100 => sz = e
  BY <1>3, SixDigits
<1> HIDE DEF sx, sz
<1>7. Typed!TypeOK'
  BY <1>1, <1>4, <1>5, <1>6 DEF Typed!TypeOK, Typed!Outcome, sx, sz
<1>8. Typed!ReplyNamesTheSpot'
  <2>1. input.half = 3 => answer'.said = <<input.east, input.north>>
    BY <1>2, <1>3, <1>4, <1>5, <1>6 DEF sx, sz
  <2>2. ASSUME NEW r \in Typed!ThreeDigits
        PROVE  /\ Typed!Abs(answer'.said[1] * 100 - answer'.x)
                     <= Typed!Abs(r * 100 - answer'.x)
               /\ Typed!Abs(answer'.said[2] * 100 - answer'.z)
                     <= Typed!Abs(r * 100 - answer'.z)
    BY <1>4, <1>5, <1>6 DEF sx, sz
  <2> QED BY <1>1, <2>1, <2>2 DEF Typed!ReplyNamesTheSpot, Typed!Abs
<1>9. Typed!DrawnWhereMarked'
  <2>1. x \in Nat /\ z \in Nat
    BY <1>3
  <2> QED
    BY <1>4, <2>1, PixelsReadBack
    DEF Typed!DrawnWhereMarked, Typed!ToEast, Typed!ToNorth, Typed!Clamp
<1>10. Typed!TimesLieAhead'
  BY <1>4 DEF Typed!TimesLieAhead, Typed!Outcome
<1> QED
  BY <1>1, <1>7, <1>8, <1>9, <1>10
  DEF FormatsInv, Typable, InputsComeBack, Typed!InputsComeBack

\* An answer that stores nothing and marks nothing.
LEMMA OtherAnswers ==
    ASSUME Typable, input' = input, answer'.how \in {"declined", "broken"}
    PROVE  FormatsInv'
BY DEF FormatsInv, Typable, InputsComeBack, Typed!InputsComeBack, Typed!TypeOK,
       Typed!Outcome, Typed!ReplyNamesTheSpot, Typed!DrawnWhereMarked,
       Typed!TimesLieAhead

LEMMA StoredAnswers ==
    ASSUME Typable, input' = input, input.what # "mark",
           NEW t \in Nat, answer' = Typed!Answered(t),
           input.what \in {"event", "date"} => Typed!Stored(t) > input.now,
           input.what = "rank" => t = input.now + input.amount * input.unit
    PROVE  FormatsInv'
<1>1. CASE t > MaxDate
  <2>1. answer'.how = "broken"
    BY <1>1 DEF Typed!Answered
  <2> QED BY <2>1, OtherAnswers
<1>2. CASE ~(t > MaxDate)
  <2>1. answer'.how = "stored" /\ answer'.at = Typed!Stored(t)
    BY <1>2 DEF Typed!Answered
  <2>2. /\ Typed!Stored(t) \in 0..MaxDate
        /\ input.what = "rank" =>
              Typed!Stored(t) > input.now + input.amount * input.unit - Second
    <3>1. Typed!Stored(t) \in 0..t /\ Typed!Stored(t) > t - Second
      BY StoredIs
    <3>2. MaxDate \in Nat /\ t <= MaxDate
      BY <1>2, FormatsConstants
    <3>3. Typed!Stored(t) \in 0..MaxDate
      BY <3>1, <3>2
    <3>4. CASE input.what = "rank"
      <4>1. /\ input.now \in Nat /\ input.amount * input.unit \in Nat
            /\ t = input.now + input.amount * input.unit
        BY <3>4 DEF Typable
      <4>2. input.now + input.amount * input.unit - Second = t - Second
        BY <4>1, FormatsConstants
      <4> QED BY <3>1, <3>3, <4>2
    <3> QED BY <3>3, <3>4
  <2>3. Typed!TimesLieAhead'
    BY <2>1, <2>2 DEF Typed!TimesLieAhead
  <2> QED
    BY <2>1, <2>2, <2>3
    DEF FormatsInv, Typable, InputsComeBack, Typed!InputsComeBack, Typed!TypeOK,
        Typed!Outcome, Typed!ReplyNamesTheSpot, Typed!DrawnWhereMarked
<1> QED BY <1>1, <1>2

LEMMA TermAnswers == Typable /\ Typed!Term => FormatsInv'
<1> SUFFICES ASSUME Typable, Typed!Term PROVE FormatsInv'
  OBVIOUS
<1> DEFINE t == input.now + input.amount * input.unit
<1>1. /\ input.what = "rank" /\ input' = input /\ answer' = Typed!Answered(t)
  BY DEF Typed!Term, Typed!Plus
<1>2. t \in Nat
  BY <1>1 DEF Typable
<1> HIDE DEF t
<1> QED BY <1>1, <1>2, StoredAnswers DEF t

\* A start ahead of now lies ahead of it in whole seconds too: a duration is
\* nothing or at least a second, and a date has whole minutes.
LEMMA ScheduleAnswers == Typable /\ Typed!Schedule => FormatsInv'
<1> SUFFICES ASSUME Typable, Typed!Schedule PROVE FormatsInv'
  OBVIOUS
<1> DEFINE start == IF input.what = "event"
                    THEN Typed!Plus(input.now, input.amount, input.unit)
                    ELSE input.at - (input.at % Minute)
<1>1. /\ input.what \in {"event", "date"} /\ input' = input
      /\ answer' = IF Typed!Starts(start, input.now) THEN Typed!Answered(start)
                   ELSE [how |-> "declined"]
  BY DEF Typed!Schedule
<1>2. /\ start \in Nat /\ input.now \in Nat
      /\ start > input.now => Typed!Stored(start) > input.now
  <2>1. CASE input.what = "event"
    <3>1. /\ input.now \in Nat /\ input.amount \in Nat /\ input.unit \in Nat
          /\ input.unit >= Second
      BY <2>1 DEF Typable
    <3>2. input.amount * input.unit \in Nat
          /\ input.amount > 0 => input.amount * input.unit >= input.unit
      BY <3>1
    <3>3. input.amount = 0 => input.amount * input.unit = 0
      BY <3>1
    <3>4. start = input.now + input.amount * input.unit
      BY <2>1 DEF Typed!Plus
    <3>5. start \in Nat /\ (start > input.now => start - Second >= input.now)
      BY <3>1, <3>2, <3>3, <3>4, FormatsConstants
    <3> HIDE DEF start
    <3> QED BY <3>1, <3>5, StoredIs, FormatsConstants
  <2>2. CASE input.what = "date"
    <3>1. input.now \in Nat /\ input.at \in Nat
      BY <2>2 DEF Typable
    <3>2. start = input.at - (input.at % Minute)
      BY <2>2
    <3>3. start \in Nat /\ start % Second = 0
      BY <3>1, <3>2, WholeMinutes
    <3> HIDE DEF start
    <3> QED BY <3>1, <3>3, StoredIs
  <2> QED BY <1>1, <2>1, <2>2
<1> HIDE DEF start
<1>3. CASE start > input.now
  BY <1>1, <1>2, <1>3, StoredAnswers DEF Typed!Starts
<1>4. CASE ~(start > input.now)
  <2>1. answer'.how = "declined"
    BY <1>1, <1>4 DEF Typed!Starts
  <2> QED BY <1>1, <2>1, OtherAnswers
<1> QED BY <1>3, <1>4

LEMMA FormatsInvariant == PartsSpec => []FormatsInv
<1>1. PartsInit => FormatsInv
  <2>1. Typed!Init => Typable /\ answer = Nil
    BY FormatsAssumption DEF Typed!Init, Typable
  <2>2. Typable /\ answer = Nil => FormatsInv
    BY DEF FormatsInv, InputsComeBack, Typed!InputsComeBack, Typed!TypeOK,
           Typed!Outcome, Typed!ReplyNamesTheSpot, Typed!DrawnWhereMarked,
           Typed!TimesLieAhead
  <2> QED BY <2>1, <2>2 DEF PartsInit
<1>2. FormatsInv /\ [PartsNext]_<<part, parts>> => FormatsInv'
  <2> SUFFICES ASSUME FormatsInv, [PartsNext]_<<part, parts>> PROVE FormatsInv'
    OBVIOUS
  <2>1. Typed!Next \/ UNCHANGED <<input, answer>>
    BY DEF PartsNext, parts, typed
  <2>2. Typable
    BY DEF FormatsInv
  <2>3. CASE Typed!Declined
    BY <2>2, <2>3, OtherAnswers DEF Typed!Declined
  <2>4. CASE UNCHANGED <<input, answer>>
    BY <2>4
    DEF FormatsInv, Typable, InputsComeBack, Typed!InputsComeBack, Typed!TypeOK,
        Typed!Outcome, Typed!ReplyNamesTheSpot, Typed!DrawnWhereMarked,
        Typed!TimesLieAhead
  <2> QED
    BY <2>1, <2>2, <2>3, <2>4, MarkAnswers, TermAnswers, ScheduleAnswers DEF Typed!Next
<1> QED BY <1>1, <1>2, PTL DEF PartsSpec

\* For any terrain and picture, any reference, duration and date: the reply
\* names the nearest spot, the marker is drawn there or at the edge, and what
\* is stored of a time still lies ahead (InputsComeBack).
THEOREM TypedComesBack == PartsSpec => []InputsComeBack
<1>1. FormatsInv => InputsComeBack
  BY DEF FormatsInv
<1> QED BY <1>1, FormatsInvariant, PTL
-----------------------------------------------------------------------------
(***************************************************************************)
(* All of them side by side.                                               *)
(***************************************************************************)
LEMMA ConfigInvariant == PartsSpec => [](ConfigTyped /\ Stages)
<1>1. PartsInit => ConfigTyped /\ Stages
  BY ConfigTypedInit DEF PartsInit
<1>2. ConfigTyped /\ Stages /\ [PartsNext]_<<part, parts>> => (ConfigTyped /\ Stages)'
  <2>1. [PartsNext]_<<part, parts>> => [Next]_vars
    BY DEF PartsNext, parts
  <2> QED BY <2>1, ConfigTypedStep
<1> QED BY <1>1, <1>2, PTL DEF PartsSpec

LEMMA LimiterInvariant == PartsSpec => []LimiterInv
<1>1. PartsInit => LimiterInv
  BY LimiterInitially DEF PartsInit
<1>2. LimiterInv /\ [PartsNext]_<<part, parts>> => LimiterInv'
  <2>1. [PartsNext]_<<part, parts>> => [LimiterNext]_limiter
    BY DEF PartsNext, parts
  <2> QED BY <2>1, LimiterStep
<1> QED BY <1>1, <1>2, PTL DEF PartsSpec

LEMMA WizardTypes == WizardInv => Wizard!TypeOK
<1> SUFFICES ASSUME WizardInv PROVE Wizard!TypeOK
  OBVIOUS
<1>1. /\ made \in Nat
      /\ cats \subseteq [id : 1..made, name : Wizard!Names]
      /\ chans \subseteq [id : 1..made, name : STRING, in : 0..made]
      /\ \A d \in chans : d.in = 0 \/ \E c \in cats : c.id = d.in
  BY DEF WizardInv, Tidy
<1>2. ASSUME NEW h \in Admins
      PROVE  /\ run[h].pc \in {"idle", "save", "commit", "ladder", "category",
                               "channel", "reply"}
             /\ run[h].wizard \in BOOLEAN /\ run[h].choice \in Wizard!Selections
             /\ run[h].at \in 1..(Wizard!Last(h) + 1)
             /\ run[h].home \in [Wizard!Names -> 0..made]
  <2>1. run[h] \in Application(made) /\ run[h].at <= Len(Plan(run[h])) + 1
    BY DEF WizardInv, Fits
  <2>2. Len(Plan(run[h])) \in Nat /\ Wizard!Last(h) = Len(Plan(run[h]))
    BY <2>1, Plans DEF Application, Wizard!Last, Plan
  <2> QED BY <2>1, <2>2 DEF Application
<1>3. \A c \in cats : c.id \in 1..made /\ c.name \in Wizard!Names
  BY <1>1
<1>4. \A c \in chans : c.id \in 1..made /\ c.in \in {0} \cup Wizard!Ids(cats)
  BY <1>1 DEF Wizard!Ids
<1>5. /\ view \in [open : BOOLEAN, choice : Wizard!Selections]
      /\ row \in Choices /\ kept \in Choices /\ changed \in BOOLEAN
      /\ alone \subseteq Admins
  BY DEF WizardInv
<1> QED BY <1>2, <1>3, <1>4, <1>5 DEF Wizard!TypeOK

LEMMA GateTypes == GateInv => Gate!TypeOK
<1> SUFFICES ASSUME GateInv PROVE Gate!TypeOK
  OBVIOUS
<1>1. \A c \in Admins : call[c] \in Call
  BY DEF GateInv
<1>2. \A c \in Admins :
         /\ call[c].pc \in {"idle", "ladder", "overrides", "run", "incident",
                            "commit", "decline"}
         /\ call[c].user \in Users \cup {Nil} /\ call[c].held \subseteq Roles
         /\ call[c].ladder \in Ladders \cup {Nil}
         /\ call[c].why \in {"none", "rate_limit", "permission_denied"}
         /\ call[c].edited \subseteq {"ladder", "rules"}
         /\ call[c].was \subseteq {"allow", "refuse"}
  BY <1>1 DEF Call
<1> QED BY <1>2 DEF GateInv, Gate!TypeOK, Ladders, Rules

LEMMA FeedTypes == FeedInv => Feed!TypeOK
<1> SUFFICES ASSUME FeedTyped PROVE Feed!TypeOK
  BY DEF FeedInv
<1>1. \A r \in Requests : post[r] \in Report /\ post[r].number <= sent
  BY DEF FeedTyped
<1>2. sent \in Nat
  BY FeedConstants DEF FeedTyped
<1>3. ASSUME NEW r \in Requests
      PROVE  /\ post[r].pc \in {"idle", "lookup", "body"}
             /\ post[r].from \in Guilds \cup {Nil} /\ post[r].guild \in Guilds \cup {Nil}
             /\ post[r].token \in 0..MaxTokens /\ post[r].number \in 0..sent
  BY <1>1, <1>2, FeedConstants DEF Report
<1>4. \A f \in {stored, links, opening, server} : f \in PerGuild
  BY DEF FeedTyped
<1> QED
  BY <1>3, <1>4 DEF FeedTyped, Feed!TypeOK, PerGuild, Snapshot, Question

\* In every part the state keeps its type (PartsTypeOK).
THEOREM PartsTypes == OneAtATime => (PartsSpec => []PartsTypeOK)
<1> SUFFICES ASSUME OneAtATime PROVE PartsSpec => []PartsTypeOK
  OBVIOUS
<1>1. ConfigTyped => TypeOK
  BY DEF ConfigTyped, TypeOK, Task, Pcs
<1>2. MapInv => Pinned!TypeOK
  BY DEF MapInv, MapTyped, Pinned!TypeOK
<1>3. BootInv => Start!TypeOK
  BY DEF BootInv, Migrated, Backfilled, BootProcs, BootPcs, Start!TypeOK
<1>4. FormatsInv => Typed!TypeOK
  BY DEF FormatsInv
<1>5. LimiterInv => LimiterTypeOK
  BY DEF LimiterInv
<1>6. /\ ConfigTyped /\ Stages /\ MapInv /\ WizardInv /\ FeedInv
      /\ BootInv /\ FormatsInv /\ GateInv /\ LimiterInv
      => PartsTypeOK
  BY <1>1, <1>2, <1>3, <1>4, <1>5, WizardTypes, FeedTypes, GateTypes DEF PartsTypeOK
<1> QED
  BY <1>6, ConfigInvariant, MapInvariant, WizardInvariant, FeedInvariant,
     BootInvariant, FormatsInvariant, GateInvariant, LimiterInvariant, PTL
===============================================================================
