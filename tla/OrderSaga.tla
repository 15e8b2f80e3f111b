------------------------------ MODULE OrderSaga ------------------------------
(***************************************************************************)
(* The order saga of notebook 15                                           *)
(* (notebooks/15_challenge_saga_order.ipynb): an orchestrator runs four    *)
(* steps and, when one raises, compensates those it has recorded, last     *)
(* first.  The steps are requests to this application's key-value and      *)
(* RabbitMQ routes.  A request is served, refused (a status the steps do   *)
(* not look at), or raises in the client, whether or not it was executed.  *)
(***************************************************************************)
EXTENDS Integers, Sequences

CONSTANTS
    Items,      \* how many items are ordered, one piece of each
    Plenty,     \* the stock assumed of an item that has no stock key: 100
    MaxFaults   \* bound: requests refused or raised

ASSUME SagaAssumption ==
    Items \in Nat \ {0} /\ Plenty \in Nat \ {0} /\ MaxFaults \in Nat

NoKey == -1
Steps == 1 .. 4     \* order, payment, inventory, shipping

VARIABLES
    initial,    \* [1 .. Items -> stock before the saga, or NoKey]
    stock,      \* [1 .. Items -> stock, or NoKey]
    effects,    \* keys set and events published
    saved,      \* [Steps -> the status stored by _save_state]
    phase,      \* execute, compensate, or the status returned
    step,       \* the step of the loop
    at,         \* its next request
    read,       \* current_stock
    executed,   \* how many steps are in executed_steps
    shaky,      \* the steps of which a request was refused or raised
    faults      \* how many requests were

sagaVars == <<initial, stock, effects, saved, phase, step, at, read, executed,
              shaky, faults>>

Put(what) == [op |-> "put", arg |-> what]
Delete(what) == [op |-> "delete", arg |-> what]
Save(status) == [op |-> "save", arg |-> status]

\* for item in items: get the stock, set it.
PerItem == [n \in 1 .. 2 * Items |->
              [op |-> IF n % 2 = 1 THEN "get" ELSE "set", arg |-> (n + 1) \div 2]]

Execute ==
    << <<Put("order")>>,
       <<Put("payment"), Put("payment.completed")>>,
       PerItem,
       <<Put("shipping.ready")>> >>

Compensate ==
    << <<Delete("order")>>,
       <<Put("refund")>>,
       PerItem,
       <<Put("shipping.cancelled")>> >>

SagaRequests ==
    IF phase = "execute" THEN Append(Execute[step], Save("COMPLETED"))
                         ELSE Append(Compensate[step], Save("COMPENSATED"))

Running == phase \in {"execute", "compensate"}
Request == SagaRequests[at]

SagaInit ==
    /\ initial \in [1 .. Items -> {NoKey, 0, 1}]
    /\ stock = initial
    /\ effects = {}
    /\ saved = [s \in Steps |-> "none"]
    /\ phase = "execute" /\ step = 1 /\ at = 1
    /\ read = 0
    /\ executed = 0
    /\ shaky = {}
    /\ faults = 0

\* executed_steps.append follows execute_fn and precedes _save_state.
Recorded == IF at = Len(SagaRequests) - 1 THEN step ELSE executed

\* The request returned: the next one, the next step, or the end.
Proceed(skip) ==
    LET next == at + 1 + skip
        last == next > Len(SagaRequests)
    IN  /\ at' = IF last THEN 1 ELSE next
        /\ IF phase = "execute"
           THEN /\ executed' = Recorded
                /\ step' = IF last /\ step < 4 THEN step + 1 ELSE step
                /\ phase' = IF last /\ step = 4 THEN "SUCCESS" ELSE phase
           ELSE /\ UNCHANGED executed
                /\ step' = IF last /\ step > 1 THEN step - 1 ELSE step
                /\ phase' = IF last /\ step = 1 THEN "FAILED" ELSE phase

\* Mutant: the steps are compensated in the order of their execution, the
\* first one first, as long as none fails.
RaiseToFirst ==
    /\ at' = 1
    /\ UNCHANGED executed
    /\ step' = 1
    /\ phase' = IF phase = "execute" /\ executed > 0 THEN "compensate" ELSE "FAILED"

\* The request raised.  In execute_fn or _save_state the recorded steps are
\* compensated, from the last; in a compensation the loop goes on with the
\* step before.
Raise ==
    /\ at' = 1
    /\ UNCHANGED executed
    /\ LET next == IF phase = "execute" THEN executed ELSE step - 1
       IN  /\ step' = IF next = 0 THEN 1 ELSE next
           /\ phase' = IF next = 0 THEN "FAILED" ELSE "compensate"

Apply ==
    /\ effects' = CASE Request.op = "put" -> effects \cup {Request.arg}
                 [] Request.op = "delete" -> effects \ {Request.arg}
                 [] OTHER -> effects
    /\ stock' = IF Request.op = "set"
                THEN [stock EXCEPT ![Request.arg] =
                        IF phase = "execute" THEN read - 1 ELSE read + 1]
                ELSE stock
    /\ saved' = IF Request.op = "save"
                THEN [saved EXCEPT ![step] = Request.arg] ELSE saved

\* A fault: it makes the step shaky unless it hits _save_state.
Fault ==
    /\ faults < MaxFaults
    /\ faults' = faults + 1
    /\ shaky' = IF Request.op = "save" THEN shaky ELSE shaky \cup {step}

NoFault == UNCHANGED <<shaky, faults>>

\* A get of the stock.  Of an item without a stock key execution assumes
\* Plenty, and raises when there is not enough; compensation passes the item
\* by.  An error response has no "exists" either.
GetStock ==
    /\ Running /\ Request.op = "get"
    /\ \E served \in BOOLEAN :
          LET found == served /\ stock[Request.arg] # NoKey
              level == IF found THEN stock[Request.arg] ELSE Plenty
          IN  /\ IF served THEN NoFault ELSE Fault
              /\ IF phase = "execute"
                 THEN IF level < 1 THEN Raise /\ UNCHANGED read
                                   ELSE Proceed(0) /\ read' = level
                 ELSE IF found THEN Proceed(0) /\ read' = level
                               ELSE Proceed(1) /\ UNCHANGED read
    /\ UNCHANGED <<initial, stock, effects, saved>>

\* A request that changes something is served.
Served ==
    /\ Running /\ Request.op # "get"
    /\ Apply /\ Proceed(0) /\ NoFault
    /\ UNCHANGED <<initial, read>>

\* It is refused: no step looks at the status.
Refused ==
    /\ Running /\ Request.op # "get"
    /\ Fault /\ Proceed(0)
    /\ UNCHANGED <<initial, stock, effects, saved, read>>

\* It raises in the client; the server may have executed it.
Raises ==
    /\ Running
    /\ \/ Request.op # "get" /\ Apply
       \/ UNCHANGED <<effects, stock, saved>>
    /\ Fault /\ Raise
    /\ UNCHANGED <<initial, read>>

SagaEnded == ~Running /\ UNCHANGED sagaVars

SagaNext == GetStock \/ Served \/ Refused \/ Raises \/ SagaEnded

SagaSpec == SagaInit /\ [][SagaNext]_sagaVars

-----------------------------------------------------------------------------
(* Properties *)

SagaTypeOK ==
    /\ stock \in [1 .. Items -> NoKey .. Plenty + 1]
    /\ saved \in [Steps -> {"none", "COMPLETED", "COMPENSATED"}]
    /\ phase \in {"execute", "compensate", "SUCCESS", "FAILED"}
    /\ step \in Steps /\ executed \in 0 .. 4
    /\ Running => at \in 1 .. Len(SagaRequests)
    /\ shaky \subseteq Steps

Level(quantity) == IF quantity = NoKey THEN Plenty ELSE quantity

Performed(s) ==
    CASE s = 1 -> "order" \in effects
      [] s = 2 -> {"payment", "payment.completed"} \subseteq effects
      [] s = 3 -> \A i \in 1 .. Items : stock[i] = Level(initial[i]) - 1
      [] s = 4 -> "shipping.ready" \in effects

Untouched(s) ==
    CASE s = 1 -> "order" \notin effects
      [] s = 2 -> {"payment", "payment.completed", "refund"} \cap effects = {}
      [] s = 3 -> stock = initial
      [] s = 4 -> {"shipping.ready", "shipping.cancelled"} \cap effects = {}

Undone(s) ==
    CASE s = 1 -> "order" \notin effects
      [] s = 2 -> "refund" \in effects
      [] s = 3 -> \A i \in 1 .. Items : Level(stock[i]) = Level(initial[i])
      [] s = 4 -> "shipping.cancelled" \in effects

\* The stock of one item was not enough: what was taken before stays taken.
RanOut(s) ==
    /\ s = 3
    /\ \E i \in 1 .. Items :
          /\ initial[i] = 0
          /\ \A j \in i .. Items : stock[j] = initial[j]

(* What the returned status says of the four services, whichever request
   was refused or raised where, in a step, in saving the state of a step, or
   in a compensation: after SUCCESS every step whose own requests were all
   served has its effect, after FAILED it is undone or was never begun, so
   that a fault costs at most the step it hit.  The one exception needs no
   fault: an inventory step that runs out keeps the items it has taken. *)
StatusIsTrue ==
    \A s \in Steps \ shaky :
        /\ phase = "SUCCESS" => Performed(s)
        /\ phase = "FAILED" => Undone(s) \/ Untouched(s) \/ RanOut(s)

=============================================================================
