--------------------------- MODULE BreakerDiagram ---------------------------
(***************************************************************************)
(* What a circuit breaker promises to an observer who only polls its       *)
(* `state` property: the three modes and the edges between them.  It is    *)
(* the state diagram drawn at the head of app/resilience/circuit_breaker.py*)
(* plus the two edges that the code has and the diagram does not:          *)
(* StaleSuccess (a call admitted earlier succeeds while the breaker is     *)
(* still open) and Reset (the route POST /resilience/.../reset).           *)
(***************************************************************************)
EXTENDS Naturals

VARIABLE mode

Modes == {"closed", "open", "half_open"}

Init == mode = "closed"

(* threshold reached *)
Trip == mode = "closed" /\ mode' = "open"

(* recovery timeout elapsed *)
Cooldown == mode = "open" /\ mode' = "half_open"

(* a call let through in half-open succeeded, or the route reset it *)
Recover == mode = "half_open" /\ mode' = "closed"

(* a call failed while half-open: a new recovery timeout starts *)
Relapse == mode = "half_open" /\ mode' = "open"

(* not in the drawn diagram: a late success or a reset *)
StaleSuccessOrReset == mode = "open" /\ mode' = "closed"

Next == Trip \/ Cooldown \/ Recover \/ Relapse \/ StaleSuccessOrReset

(* The only progress the breaker itself owes: an open breaker does not stay
   open for ever (it turns half-open unless something closes it first). *)
Spec == Init /\ [][Next]_mode /\ WF_mode(Cooldown)

=============================================================================
