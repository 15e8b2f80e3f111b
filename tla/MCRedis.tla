------------------------------ MODULE MCRedis ------------------------------
(***************************************************************************)
(* What the Redis broker keeps under a key, and a notebook that is a       *)
(* client of it, on small instances.  They use different keys and share no *)
(* state, so each is run on its own: `part` says which.                    *)
(*                                                                         *)
(* work, the stream and the list: three requests in progress, two consumer *)
(* groups and three items, for two readers of one group with a third       *)
(* request beside them, or two waiting pops.                               *)
(* limiter: three checks and a window of three or four time units for one  *)
(* or two requests, with pipelines up to one unit late, so that a window   *)
(* can fill, slide and expire and checks can overtake each other.          *)
(* filter: two shapes and three members, two of them with a position in    *)
(* common in each shape.                                                   *)
(* sale: three sales from a stock of three, two requests of which may fail.*)
(***************************************************************************)
EXTENDS RedisWork, RateLimiter, BloomFilter, StockSale, TLC

MCLimits == {[window |-> 3, max |-> 1], [window |-> 4, max |-> 2]}
MCMembers == {[md5 |-> 1, sha1 |-> 3], [md5 |-> 4, sha1 |-> 5],
              [md5 |-> 2, sha1 |-> 7]}
MCShapes == {[bit_size |-> 7, num_hashes |-> 2],
             [bit_size |-> 10, num_hashes |-> 3]}

VARIABLE part

vars == <<part, workVars, limiterVars, bloomVars, saleVars>>

Init ==
    /\ part \in {"work", "limiter", "filter", "sale"}
    /\ WorkInit /\ LimiterInit /\ BloomInit /\ SaleInit
    /\ part # "limiter" =>
          limit = [c \in Calls |-> CHOOSE l \in Limits : TRUE]
    /\ part # "sale" => withLock /\ quantity = [s \in 1 .. Sales |-> 1]

OthersStay ==
    /\ UNCHANGED part
    /\ part # "work" => UNCHANGED workVars
    /\ part # "limiter" => UNCHANGED limiterVars
    /\ part # "filter" => UNCHANGED bloomVars
    /\ part # "sale" => UNCHANGED saleVars

WorkStep == part = "work" /\ WorkNext /\ OthersStay
LimiterStep == part = "limiter" /\ LimiterNext /\ OthersStay
FilterStep == part = "filter" /\ BloomNext /\ OthersStay
SaleStep == part = "sale" /\ SaleNext /\ OthersStay

\* At its bound the clock of the limiter stands still.
ClockStopped == part = "limiter" /\ now = MaxTime /\ UNCHANGED vars

Next == WorkStep \/ LimiterStep \/ FilterStep \/ SaleStep \/ ClockStopped

Spec == Init /\ [][Next]_vars

(* Types of all parts. *)
TypeOK == WorkTypeOK /\ LimiterTypeOK /\ BloomTypeOK /\ SaleTypeOK

(* Requests are interchangeable (the checks of the limiter have the same     *)
(* names), groups too, and no property is a liveness property.             *)
Symmetry == Permutations(Handlers) \cup Permutations(Groups)

=============================================================================
