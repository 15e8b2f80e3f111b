--------------------------- MODULE MCRateLimiter ---------------------------
(***************************************************************************)
(* RateLimiter with one limit for all checks, one request in a window of   *)
(* three time units: enough to show what a denied check costs.             *)
(***************************************************************************)
EXTENDS RateLimiter

MCOneLimit == {[window |-> 3, max |-> 1]}

=============================================================================
