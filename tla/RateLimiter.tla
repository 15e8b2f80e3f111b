---------------------------- MODULE RateLimiter ----------------------------
(***************************************************************************)
(* The sliding-window rate limiter (RedisBroker.rate_limit_check), one     *)
(* key.  A check reads the clock, then sends one MULTI/EXEC pipeline:      *)
(* forget what is older than the window, count what is left, record the    *)
(* check, set the key's expiry.  The pipeline is atomic at the server, but *)
(* it works with the time that was read before it was sent: checks can be  *)
(* executed in another order than they read the clock in, each one up to   *)
(* MaxDelay late.                                                          *)
(*                                                                         *)
(* Limits are parameters of each request, so checks of one key may come    *)
(* with different windows and maxima.  A window of no length is left out:  *)
(* EXPIRE would delete the key at once.                                    *)
(***************************************************************************)
EXTENDS Integers, FiniteSets

CONSTANTS
    Calls,           \* the checks of this key
    Limits,          \* the parameters requests come with
    ShortestWindow,  \* no request has a shorter window_seconds
    LargestMax,      \* no request has a larger max_requests
    MaxDelay,        \* the longest time from reading the clock to EXEC
    MaxTime          \* bound: how far the clock runs

ASSUME CallsAssumption == IsFiniteSet(Calls)
ASSUME LimitsAssumption ==
    /\ Limits \subseteq [window : Nat \ {0}, max : Nat]
    /\ ShortestWindow \in Nat /\ LargestMax \in Nat
    /\ \A limit \in Limits : /\ limit.window >= ShortestWindow
                             /\ limit.max <= LargestMax
ASSUME DelayAssumption == MaxDelay \in Nat
ASSUME TimeAssumption == MaxTime \in Nat

VARIABLES
    now,        \* the clock of the application and of the server
    step,       \* per call: "new", "sent", "done"
    at,         \* per call: the time it read, its score in the sorted set
    limit,      \* per call: its max_requests and window_seconds
    entries,    \* the sorted set ratelimit:<key>, a member per recorded call
    expires,    \* when the key expires
    recorded,   \* history: the calls that were ever added
    allowed,    \* history: the calls answered allowed = true
    denied      \* history: the calls answered allowed = false

limiterVars == <<now, step, at, limit, entries, expires, recorded, allowed, denied>>

LimiterInit ==
    /\ now = 0
    /\ step = [c \in Calls |-> "new"]
    /\ at = [c \in Calls |-> 0]
    /\ limit \in [Calls -> Limits]
    /\ entries = {}
    /\ expires = 0
    /\ recorded = {}
    /\ allowed = {}
    /\ denied = {}

-----------------------------------------------------------------------------
\* now = time.time()
Check(c) ==
    /\ step[c] = "new"
    /\ step' = [step EXCEPT ![c] = "sent"]
    /\ at' = [at EXCEPT ![c] = now]
    /\ UNCHANGED <<now, limit, entries, expires, recorded, allowed, denied>>

\* The sorted set as the server finds it: gone when the key has expired.
Live == IF now > expires THEN {} ELSE entries

\* Mutant: nothing is removed.
KeptAll(c) == Live

\* ZREMRANGEBYSCORE 0 .. now - window_seconds, both ends included.
Kept(c) == {e \in Live : at[e] > at[c] - limit[c].window}

\* Mutant: one check too many.
AllowedUpToMax(c) == Cardinality(Kept(c)) <= limit[c].max

\* current_count < max_requests
Allowed(c) == Cardinality(Kept(c)) < limit[c].max

\* The server's part of the pipeline: what is kept, ZADD and EXPIRE.
Record(c) ==
    /\ entries' = Kept(c) \cup {c}
    /\ expires' = now + limit[c].window
    /\ recorded' = recorded \cup {c}

\* The pipeline is executed and answered.  The check is recorded whatever the
\* answer is.
Execute(c) ==
    /\ step[c] = "sent"
    /\ step' = [step EXCEPT ![c] = "done"]
    /\ Record(c)
    /\ IF Allowed(c)
       THEN allowed' = allowed \cup {c} /\ UNCHANGED denied
       ELSE denied' = denied \cup {c} /\ UNCHANGED allowed
    /\ UNCHANGED <<now, at, limit>>

\* The connection is lost: 500, and the server may have executed the pipeline.
Fail(c) ==
    /\ step[c] = "sent"
    /\ step' = [step EXCEPT ![c] = "done"]
    /\ Record(c) \/ UNCHANGED <<entries, expires, recorded>>
    /\ UNCHANGED <<now, at, limit, allowed, denied>>

Tick ==
    /\ now < MaxTime
    /\ \A c \in Calls : step[c] = "sent" => now < at[c] + MaxDelay
    /\ now' = now + 1
    /\ UNCHANGED <<step, at, limit, entries, expires, recorded, allowed, denied>>

LimiterNext == Tick \/ \E c \in Calls : Check(c) \/ Execute(c) \/ Fail(c)

LimiterSpec == LimiterInit /\ [][LimiterNext]_limiterVars

-----------------------------------------------------------------------------
(* Properties *)

LimiterTypeOK ==
    /\ now \in 0 .. MaxTime
    /\ step \in [Calls -> {"new", "sent", "done"}]
    /\ at \in [Calls -> 0 .. MaxTime]
    /\ limit \in [Calls -> Limits]
    /\ entries \subseteq recorded
    /\ expires \in Nat
    /\ recorded \subseteq {c \in Calls : step[c] = "done"}
    /\ allowed \subseteq recorded /\ denied \subseteq recorded

\* The limit holds however checks overtake each other: of the checks that read
\* the clock within ShortestWindow - MaxDelay of each other at most LargestMax
\* are allowed.  A late pipeline with an old time, a pipeline that forgets what
\* another one still counts, and the expiry of the key cannot let more through.
WindowBound ==
    \A t \in -1 .. MaxTime :
        Cardinality({c \in allowed :
                       /\ t < at[c]
                       /\ at[c] <= t + ShortestWindow - MaxDelay})
          <= LargestMax

\* Nobody is turned away without cause: max_requests other checks were recorded
\* no longer ago than the window of the one denied.
DeniedForCause ==
    \A c \in denied :
        Cardinality({e \in recorded \ {c} :
                       at[e] > at[c] - limit[c].window}) >= limit[c].max

\* A client is turned away for the requests it got through, not for those it
\* was refused: max_requests checks within the window were not denied.
DeniedForAdmitted ==
    \A c \in denied :
        Cardinality({e \in recorded \ denied :
                       at[e] > at[c] - limit[c].window}) >= limit[c].max

=============================================================================
