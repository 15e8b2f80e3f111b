------------------------------ MODULE StockSale ------------------------------
(***************************************************************************)
(* Limited stock sold through the cache routes of this application         *)
(* (notebooks 11 and 12): the stock is a key with a time to live, and a    *)
(* sale reads it and sets what remains.  Notebook 11 sells one piece to    *)
(* each payment and brackets the sale with a lock key, which is set by     *)
(* cache/set as well; notebook 12 sells any number of seats to a request,  *)
(* without a lock.                                                         *)
(*                                                                         *)
(* A request is served, refused (an error status), or raises in the        *)
(* client, executed or not.                                                *)
(***************************************************************************)
EXTENDS Naturals, FiniteSets

CONSTANTS
    Stock,      \* INITIAL_STOCK, or the seats of a section
    Sales,      \* how many payments or booking requests
    AtOnce,     \* sales in progress at once: one, as both notebooks do it
    MaxRetries, \* of acquire_lock
    MaxFaults,  \* bound: requests refused or raised
    Gone        \* of the stock key: there is none

ASSUME SaleAssumption ==
    /\ {Stock, Sales, MaxRetries} \subseteq Nat
    /\ Gone \notin Nat

VARIABLES
    withLock,   \* which notebook it is
    quantity,   \* [1 .. Sales -> pieces asked for]
    stock,      \* the stock key
    locked,     \* whether the lock key exists
    begun,      \* how many sales have begun
    sale,       \* [1 .. Sales -> what it does: a request, or its end]
    result,     \* [1 .. Sales -> the end it comes to when the lock is released]
    current,    \* [1 .. Sales -> the stock it has read]
    attempts,   \* [1 .. Sales -> failed attempts to acquire the lock]
    sold,       \* pieces of the successful sales
    failures    \* requests refused or raised so far

saleVars == <<withLock, quantity, stock, locked, begun, sale, result, current,
              attempts, sold, failures>>
chosen == <<withLock, quantity>>

SaleInit ==
    /\ withLock \in BOOLEAN
    /\ quantity \in [1 .. Sales -> 1 .. 2]
    /\ withLock => \A s \in 1 .. Sales : quantity[s] = 1
    /\ stock = Stock        \* init_inventory
    /\ locked = FALSE
    /\ begun = 0
    /\ sale = [s \in 1 .. Sales |-> "waits"]
    /\ result = [s \in 1 .. Sales |-> "none"]
    /\ current = [s \in 1 .. Sales |-> 0]
    /\ attempts = [s \in 1 .. Sales |-> 0]
    /\ sold = 0
    /\ failures = 0

-----------------------------------------------------------------------------
InProgress(s) == sale[s] \in {"acquire", "get", "set", "release"}

\* A request was refused or raised.
Fault == failures < MaxFaults /\ failures' = failures + 1
NoFault == UNCHANGED failures

\* The loop goes on to the next sale, unless one has raised.
BeginSale ==
    /\ begun < Sales
    /\ \A s \in 1 .. Sales : sale[s] # "raised"
    /\ Cardinality({s \in 1 .. begun : InProgress(s)}) < AtOnce
    /\ begun' = begun + 1
    /\ sale' = [sale EXCEPT ![begun + 1] = IF withLock THEN "acquire" ELSE "get"]
    /\ UNCHANGED <<chosen, stock, locked, result, current, attempts, sold,
                   failures>>

\* acquire_lock: cache/set overwrites, so that it is answered 200 whoever has
\* set the key before.  A fault is a failed attempt, with the key set or not.
Acquire(s) ==
    /\ sale[s] = "acquire"
    /\ \/ /\ NoFault
          /\ locked' = TRUE
          /\ sale' = [sale EXCEPT ![s] = "get"]
          /\ UNCHANGED attempts
       \/ /\ Fault
          /\ locked' \in {locked, TRUE}
          /\ attempts' = [attempts EXCEPT ![s] = @ + 1]
          /\ sale' = [sale EXCEPT
                        ![s] = IF attempts'[s] < MaxRetries THEN @ ELSE "no lock"]
    /\ UNCHANGED <<chosen, stock, begun, result, current, sold>>

\* The sale comes to its end; with a lock, by way of `finally`.
EndAs(s, end) ==
    /\ sale' = [sale EXCEPT ![s] = IF withLock THEN "release" ELSE end]
    /\ result' = [result EXCEPT ![s] = end]

\* Mutant: stock that is not in the cache is taken to be untouched.
LevelUnlessGone == IF stock = Gone THEN Stock ELSE stock

\* get_inventory: without a hit there is no stock.
Level == IF stock = Gone THEN 0 ELSE stock

\* cache/get; an error response has no "hit" either.
GetStock(s) ==
    /\ sale[s] = "get"
    /\ \/ /\ NoFault
          /\ IF Level >= quantity[s]
             THEN /\ current' = [current EXCEPT ![s] = Level]
                  /\ sale' = [sale EXCEPT ![s] = "set"]
                  /\ UNCHANGED result
             ELSE EndAs(s, "sold out") /\ UNCHANGED current
       \/ /\ Fault
          /\ \E end \in {"sold out", "raised"} : EndAs(s, end)
          /\ UNCHANGED current
    /\ UNCHANGED <<chosen, stock, locked, begun, attempts, sold>>

\* cache/set of what remains, its answer asserted to be 200.
SetStock(s) ==
    /\ sale[s] = "set"
    /\ \/ /\ NoFault
          /\ stock' = current[s] - quantity[s]
          /\ EndAs(s, "success")
          /\ sold' = sold + quantity[s]
       \/ /\ Fault
          /\ stock' \in {stock, current[s] - quantity[s]}
          /\ EndAs(s, "raised")
          /\ UNCHANGED sold
    /\ UNCHANGED <<chosen, locked, begun, current, attempts>>

\* release_lock: no answer and no exception matters.
Release(s) ==
    /\ sale[s] = "release"
    /\ \/ NoFault /\ locked' = FALSE
       \/ Fault /\ locked' \in {locked, FALSE}
    /\ sale' = [sale EXCEPT ![s] = result[s]]
    /\ UNCHANGED <<chosen, stock, begun, result, current, attempts, sold>>

\* The times to live: five seconds of the lock, 300 of the stock.
KeyExpires ==
    /\ \/ locked /\ locked' = FALSE /\ UNCHANGED stock
       \/ stock # Gone /\ stock' = Gone /\ UNCHANGED locked
    /\ UNCHANGED <<chosen, begun, sale, result, current, attempts, sold, failures>>

SaleOver ==
    /\ \A s \in 1 .. Sales : ~InProgress(s)
    /\ begun = Sales \/ \E s \in 1 .. Sales : sale[s] = "raised"
    /\ UNCHANGED saleVars

Selling(s) == Acquire(s) \/ GetStock(s) \/ SetStock(s) \/ Release(s)

SaleNext ==
    BeginSale \/ (\E s \in 1 .. Sales : Selling(s)) \/ KeyExpires \/ SaleOver

SaleSpec == SaleInit /\ [][SaleNext]_saleVars

-----------------------------------------------------------------------------
(* Properties *)

Ends == {"success", "sold out", "no lock", "raised"}

SaleTypeOK ==
    /\ stock \in 0 .. Stock \cup {Gone}
    /\ locked \in BOOLEAN
    /\ begun \in 0 .. Sales
    /\ sale \in [1 .. Sales ->
                    {"waits", "acquire", "get", "set", "release"} \cup Ends]
    /\ result \in [1 .. Sales -> {"none"} \cup Ends]
    /\ sold \in Nat

Raised(s) == "raised" \in {sale[s], result[s]}

(* The stock key and the sales agree, one sale at a time, whatever is
   refused, raises or expires: never more is sold than there was, and while
   the key exists it holds what is left, except that a sale that raised may
   have taken its pieces.  With two sales in progress (AtOnce = 2) it fails,
   with the lock key as without. *)
SalesMatchStock ==
    /\ sold <= Stock
    /\ stock # Gone =>
          \/ stock = Stock - sold
          \/ \E s \in 1 .. Sales : Raised(s) /\ stock = Stock - sold - quantity[s]

=============================================================================
