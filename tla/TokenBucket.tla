----------------------------- MODULE TokenBucket -----------------------------
(***************************************************************************)
(* The token bucket of notebook 07: a Lua script refills the bucket by the *)
(* time since the last check and takes from it.  The script runs           *)
(* atomically at the Redis server, with the time the client has read       *)
(* before, so that checks may be evaluated in another order than their     *)
(* clocks were read.                                                       *)
(***************************************************************************)
EXTENDS Integers

CONSTANTS
    Takers,      \* checks of one bucket
    MaxTokens,
    RefillRate,  \* tokens per tick
    Asked,       \* how many tokens a check may request
    LatestTick   \* bound: of the clock

ASSUME BucketAssumption ==
    /\ MaxTokens \in Nat /\ RefillRate \in Nat /\ LatestTick \in Nat
    /\ Asked \subseteq Nat \ {0}

VARIABLES
    ticks,       \* the clock
    bucket,      \* the hash: its tokens and last_refill
    exists,      \* whether there is a hash
    taker,       \* [Takers -> stage, requested and now]
    spent,       \* history: all tokens taken
    grant        \* history: [Takers -> spent before it took, if it did]

bucketVars == <<ticks, bucket, exists, taker, spent, grant>>

BucketInit ==
    /\ ticks = 0
    /\ bucket = [tokens |-> 0, last_refill |-> 0]
    /\ exists = FALSE
    /\ taker = [c \in Takers |-> [stage |-> "idle", requested |-> 0, now |-> 0]]
    /\ spent = 0
    /\ grant = [c \in Takers |-> 0]

BucketTypeOK ==
    /\ ticks \in Nat
    /\ bucket \in [tokens : Int, last_refill : Nat]
    /\ exists \in BOOLEAN
    /\ taker \in [Takers -> [stage : {"idle", "sent", "granted", "denied"},
                             requested : Nat, now : Nat]]
    /\ spent \in Nat
    /\ grant \in [Takers -> Nat]

-----------------------------------------------------------------------------
\* The client reads its clock and sends the script.
SendCheck(c) ==
    /\ taker[c].stage = "idle"
    /\ \E n \in Asked :
          taker' = [taker EXCEPT
                      ![c] = [stage |-> "sent", requested |-> n, now |-> ticks]]
    /\ UNCHANGED <<ticks, bucket, exists, spent, grant>>

\* What the script finds: without a hash, a full bucket.
Found(now) ==
    IF exists THEN bucket ELSE [tokens |-> MaxTokens, last_refill |-> now]

Lesser(a, b) == IF a <= b THEN a ELSE b

\* Mutant: a bucket that is never full.
RefilledWithoutLimit(now) ==
    Found(now).tokens + (now - Found(now).last_refill) * RefillRate

\* The elapsed time is negative for a check that has been overtaken.
Refilled(now) ==
    Lesser(MaxTokens, Found(now).tokens + (now - Found(now).last_refill) * RefillRate)

\* TOKEN_BUCKET_LUA; last_refill becomes `now` whether tokens are taken or not.
Evaluate(c) ==
    LET now == taker[c].now
        requested == taker[c].requested
        granted == Refilled(now) >= requested
    IN  /\ taker[c].stage = "sent"
        /\ exists' = TRUE
        /\ bucket' = [tokens |-> Refilled(now) - (IF granted THEN requested ELSE 0),
                      last_refill |-> now]
        /\ taker' = [taker EXCEPT ![c].stage = IF granted THEN "granted" ELSE "denied"]
        /\ spent' = spent + (IF granted THEN requested ELSE 0)
        /\ grant' = IF granted THEN [grant EXCEPT ![c] = spent] ELSE grant
        /\ UNCHANGED ticks

\* Time passes.
Elapse ==
    /\ ticks < LatestTick
    /\ ticks' = ticks + 1
    /\ UNCHANGED <<bucket, exists, taker, spent, grant>>

BucketNext == (\E c \in Takers : SendCheck(c) \/ Evaluate(c)) \/ Elapse

BucketSpec == BucketInit /\ [][BucketNext]_bucketVars

-----------------------------------------------------------------------------
Granted == {c \in Takers : taker[c].stage = "granted"}

(* From a granted check to one that was evaluated later, both included, at   *)
(* most a full bucket and what was refilled between their clock readings has *)
(* been taken.  That is so even if checks overtake each other: of two that   *)
(* are evaluated in the wrong order the later one gets less.                 *)
BucketBound ==
    \A a, b \in Granted :
       grant[a] <= grant[b] =>
          grant[b] + taker[b].requested - grant[a]
             <= MaxTokens + RefillRate * (taker[b].now - taker[a].now)

=============================================================================
