----------------------------- MODULE LeaseLock -----------------------------
(***************************************************************************)
(* The distributed lock of notebook 09 and the counter it protects: every  *)
(* task increments the counter several times, each time under a lock of    *)
(* its own id, SET NX EX to acquire and a script to release, which deletes *)
(* the key only when it still holds that id.  Redis deletes the key when   *)
(* its time is up, whatever the task is doing.  Any command may fail,      *)
(* executed or not; an exception ends its task, the others go on.          *)
(*                                                                         *)
(* An id is used for one acquisition.  It is the task's name here: a task  *)
(* comes to its next id only when the key does not hold the last one.      *)
(***************************************************************************)
EXTENDS Integers

CONSTANTS
    Tasks,          \* the tasks gathered in the notebook
    Increments,     \* of each task
    None

ASSUME LockAssumption == None \notin Tasks /\ Increments \in Nat

VARIABLES
    key,        \* the lock's key: the task whose id it holds, or None
    counter,    \* the key "counter:with-lock"
    doing,      \* [Tasks -> "try", "get", "set", "release", "giveup", "done",
                \* "failed"]
    seen,       \* [Tasks -> the counter as it has read it, 0 when not needed]
    left,       \* [Tasks -> increments it has still to make]
    late,       \* the tasks whose lease ended before they released it
    overran,    \* whether a lease ever ended in the critical section
    written     \* how often the counter was set

lockVars == <<key, counter, doing, seen, left, late, overran, written>>

\* Between acquire and release; "giveup" is the release of a task that raised.
Critical == {"get", "set", "release", "giveup"}
Holds(t) == doing[t] \in Critical

LockInit ==
    /\ key = None
    /\ counter = 0
    /\ doing = [t \in Tasks |-> "try"]
    /\ seen = [t \in Tasks |-> 0]
    /\ left = [t \in Tasks |-> Increments]
    /\ late = {}
    /\ overran = FALSE
    /\ written = 0

-----------------------------------------------------------------------------
\* SET NX is executed when the key is absent.
Absent == key = None

\* acquire() returns true.  While the key is there the task tries again.
acquire(t) ==
    /\ doing[t] = "try" /\ Absent
    /\ key' = t
    /\ doing' = [doing EXCEPT ![t] = "get"]
    /\ late' = late \ {t}
    /\ UNCHANGED <<counter, seen, left, overran, written>>

\* acquire() raises.  When only the reply was lost, the key stays.
AcquireFails(t) ==
    /\ doing[t] = "try"
    /\ key' \in {key} \cup (IF Absent THEN {t} ELSE {})
    /\ doing' = [doing EXCEPT ![t] = "failed"]
    /\ UNCHANGED <<counter, seen, left, late, overran, written>>

GetCounter(t) ==
    /\ doing[t] = "get"
    /\ seen' = [seen EXCEPT ![t] = counter]
    /\ doing' = [doing EXCEPT ![t] = "set"]
    /\ UNCHANGED <<key, counter, left, late, overran, written>>

SetTo(t) ==
    /\ counter' = seen[t] + 1
    /\ written' = written + 1

SetCounter(t) ==
    /\ doing[t] = "set"
    /\ SetTo(t)
    /\ seen' = [seen EXCEPT ![t] = 0]
    /\ doing' = [doing EXCEPT ![t] = "release"]
    /\ UNCHANGED <<key, left, late, overran>>

\* GET or SET raises, the SET executed or not: `finally` releases the lock.
CommandFails(t) ==
    /\ doing[t] \in {"get", "set"}
    /\ \/ doing[t] = "set" /\ SetTo(t)
       \/ UNCHANGED <<counter, written>>
    /\ seen' = [seen EXCEPT ![t] = 0]
    /\ doing' = [doing EXCEPT ![t] = "giveup"]
    /\ UNCHANGED <<key, left, late, overran>>

\* Mutant: DEL without the comparison.
DeleteKey(t) == key' = None

\* The script: DEL when GET returns the id.
DeleteOwn(t) == key' = IF key = t THEN None ELSE key

release(t) ==
    /\ doing[t] \in {"release", "giveup"}
    /\ DeleteOwn(t)
    /\ left' = [left EXCEPT ![t] = @ - 1]
    /\ doing' = [doing EXCEPT ![t] = CASE @ = "giveup" -> "failed"
                                       [] left[t] > 1 -> "try"
                                       [] OTHER       -> "done"]
    /\ UNCHANGED <<counter, seen, late, overran, written>>

\* The script's call raises, executed or not.
ReleaseFails(t) ==
    /\ doing[t] \in {"release", "giveup"}
    /\ DeleteOwn(t) \/ UNCHANGED key
    /\ doing' = [doing EXCEPT ![t] = "failed"]
    /\ UNCHANGED <<counter, seen, left, late, overran, written>>

\* Mutant: the key has no time to live.
NeverExpires == FALSE

HasExpiry == TRUE

\* The key's time is up.
LeaseEnds ==
    /\ key # None /\ HasExpiry
    /\ key' = None
    /\ late' = IF Holds(key) THEN late \cup {key} ELSE late
    /\ overran' = (overran \/ Holds(key))
    /\ UNCHANGED <<counter, doing, seen, left, written>>

Inside(t) ==
    \/ GetCounter(t) \/ SetCounter(t) \/ CommandFails(t)
    \/ release(t) \/ ReleaseFails(t)

safe_increment(t) == acquire(t) \/ AcquireFails(t) \/ Inside(t)

TaskEnded(t) == doing[t] \in {"done", "failed"}

TasksDone == (\A t \in Tasks : TaskEnded(t)) /\ UNCHANGED lockVars

LockNext ==
    \/ \E t \in Tasks : safe_increment(t)
    \/ LeaseEnds
    \/ TasksDone

\* Every task is scheduled, and tries the lock again and again; its commands
\* end, with a result or an error; Redis deletes an expired key.
LockFairness ==
    /\ \A t \in Tasks : WF_lockVars(acquire(t)) /\ WF_lockVars(Inside(t))
    /\ WF_lockVars(LeaseEnds)

LockSpec == LockInit /\ [][LockNext]_lockVars /\ LockFairness

-----------------------------------------------------------------------------
(* Properties *)

LockTypeOK ==
    /\ key \in Tasks \cup {None}
    /\ counter \in Nat
    /\ doing \in [Tasks -> Critical \cup {"try", "done", "failed"}]
    /\ seen \in [Tasks -> Nat]
    /\ left \in [Tasks -> Int]
    /\ late \in SUBSET Tasks
    /\ overran \in BOOLEAN
    /\ written \in Nat

\* A task in its critical section owns the key until its own lease ends: nobody
\* acquires or deletes it meanwhile, not even a task whose lease ended long ago.
\* Two tasks are inside together only after a lease has run out.
KeyIsMine == \A t \in Tasks : Holds(t) /\ t \notin late => key = t

\* As long as no lease runs out inside, no update is lost, whichever commands
\* fail: the counter is the number of times it was set.
NoLostUpdate == ~overran => counter = written

\* What the lock is for, and what it can promise with a lease.
LeaseProtects == KeyIsMine /\ NoLostUpdate

\* The lock is nobody's for ever: every task ends, although one may die with the
\* key set.
EveryTaskEnds == \A t \in Tasks : <>TaskEnded(t)

=============================================================================
