----------------------------- MODULE RateLimiter -----------------------------
(***************************************************************************)
(* TokenBucketLimiter (services/ratelimit.py).  Time is counted in units   *)
(* of which Refill make a token, and tokens in the same units, so that     *)
(* elapsed / refill_seconds is a whole number of them: what the floats     *)
(* round off is left out.  time.monotonic() never goes back.               *)
(***************************************************************************)
EXTENDS Integers

CONSTANTS
    Callers,    \* (guild, user, command)
    None,
    Capacity,
    Refill,
    MaxTime     \* bound on the clock

ASSUME LimiterAssumption ==
    /\ {Capacity, Refill} \subseteq Nat \ {0}
    /\ None \notin [tokens : Nat, last : Nat]

VARIABLES
    clock,
    bucket,  \* _buckets
    since,   \* history: when the window under watch began
    given,   \* history: calls let through in it
    latest   \* history: when the last call of each key was let through

limiter == <<clock, bucket, since, given, latest>>

Full == Capacity * Refill

LimiterInit ==
    /\ clock = 0 /\ since = 0
    /\ bucket = [k \in Callers |-> None]
    /\ given = [k \in Callers |-> 0]
    /\ latest = [k \in Callers |-> -1]

\* Mutant of Tokens: what has been saved up is not capped.
TokensUncapped(k) ==
    IF bucket[k] = None THEN Full
    ELSE bucket[k].tokens + (clock - bucket[k].last)

\* bucket.tokens once the call has brought it up to date
Tokens(k) ==
    IF bucket[k] = None THEN Full
    ELSE LET saved == bucket[k].tokens + (clock - bucket[k].last)
         IN  IF saved < Full THEN saved ELSE Full

Allow(k) ==
    /\ Tokens(k) >= Refill
    /\ bucket' = [bucket EXCEPT ![k] =
                     [tokens |-> Tokens(k) - Refill, last |-> clock]]
    /\ given' = [given EXCEPT ![k] = @ + 1]
    /\ latest' = [latest EXCEPT ![k] = clock]
    /\ UNCHANGED <<clock, since>>

\* Mutant of Deny: the time is noted and the tokens are not.
DenyForgets(k) ==
    /\ Tokens(k) < Refill
    /\ bucket' = [bucket EXCEPT ![k].last = clock]
    /\ UNCHANGED <<clock, since, given, latest>>

Deny(k) ==
    /\ Tokens(k) < Refill
    /\ bucket' = [bucket EXCEPT ![k] = [tokens |-> Tokens(k), last |-> clock]]
    /\ UNCHANGED <<clock, since, given, latest>>

Tick ==
    /\ clock < MaxTime /\ clock' = clock + 1
    /\ UNCHANGED <<bucket, since, given, latest>>

\* Any moment may be the one from which calls are counted.
Watch ==
    /\ since' = clock /\ given' = [k \in Callers |-> 0]
    /\ UNCHANGED <<clock, bucket, latest>>

LimiterNext == Tick \/ Watch \/ \E k \in Callers : Allow(k) \/ Deny(k)

LimiterSpec == LimiterInit /\ [][LimiterNext]_limiter

-----------------------------------------------------------------------------
Bucket == [tokens : 0..Full, last : Nat]

LimiterTypeOK ==
    /\ clock \in Nat /\ since \in 0..clock
    /\ bucket \in [Callers -> Bucket \cup {None}]
    /\ \A k \in Callers : bucket[k] # None => bucket[k].last <= clock
    /\ given \in [Callers -> Nat]
    /\ latest \in [Callers -> {-1} \cup Nat]

\* In any stretch of time a key gets no more calls through than a full bucket
\* and the refills of that time pay for, however its calls are spaced (allow).
BurstIsBounded ==
    \A k \in Callers : given[k] * Refill <= Full + (clock - since)

\* Who is refused has had a call through less than one refill ago: refused
\* calls cost nothing, and somebody who keeps trying is let in at the full
\* rate (allow).
RefusedOnlyBriefly ==
    [][\A k \in Callers : Deny(k) => latest[k] >= 0 /\ clock < latest[k] + Refill]_limiter

-----------------------------------------------------------------------------
(***************************************************************************)
(* The inductive invariant: what a bucket holds is what is left of a full  *)
(* one and the time of the window, and what came in since the last call.   *)
(***************************************************************************)
PaidFor ==
    \A k \in Callers :
        IF bucket[k] = None THEN given[k] = 0 /\ latest[k] = -1
        ELSE /\ latest[k] \in 0..bucket[k].last
             /\ bucket[k].tokens >= bucket[k].last - latest[k]
                \/ bucket[k].tokens >= Refill
             /\ IF bucket[k].last < since THEN given[k] = 0
                ELSE given[k] * Refill + bucket[k].tokens
                        <= Full + (bucket[k].last - since)

LimiterInv == LimiterTypeOK /\ PaidFor
=============================================================================
