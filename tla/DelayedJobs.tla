----------------------------- MODULE DelayedJobs -----------------------------
(***************************************************************************)
(* The delayed jobs of notebook 10: a sorted set of jobs, each scored with *)
(* the time it is to be executed at, and a poller that looks for those     *)
(* whose time has come, removes each and executes it, a fixed number of    *)
(* rounds long.  A tick of the clock is the interval between two polls,    *)
(* requests may take up to LateTicks ticks more, all together, and any of  *)
(* them may raise in the client, executed or not.                          *)
(***************************************************************************)
EXTENDS Naturals, Sequences, SequencesExt

CONSTANTS
    Due,        \* when each job is to be executed, ticks after `now`, rising
    Rounds,     \* of the poller
    Batch,      \* num: jobs taken at a poll
    LateTicks   \* bound: ticks lost to slow requests

\* As the notebook has chosen them: three jobs, at most ten a poll, and twenty
\* rounds of half a second for delays of up to eight seconds.
ASSUME JobsAssumption ==
    /\ Due \in Seq(Nat) /\ Due # << >>
    /\ \A i, j \in 1 .. Len(Due) : i < j => Due[i] < Due[j]
    /\ Rounds \in Nat /\ Due[Len(Due)] < Rounds
    /\ Batch \in Nat /\ Batch >= Len(Due)
    /\ LateTicks \in Nat

Jobs == 1 .. Len(Due)

VARIABLES
    clock,
    late,       \* ticks lost so far
    delayed,    \* the sorted set
    cell,       \* what the notebook is at, and the round of the poller
    jobs,       \* the jobs in the poller's hand, in order
    processed,  \* the jobs executed, each with the time
    gone        \* history: jobs removed by a ZREM whose reply was lost

jobVars == <<clock, late, delayed, cell, jobs, processed, gone>>

JobsInit ==
    /\ clock = 0 /\ late = 0
    /\ delayed = {}
    /\ cell = [at |-> "register", round |-> 1]
    /\ jobs = << >> /\ processed = << >>
    /\ gone = {}

JobsTypeOK ==
    /\ clock \in 0 .. Rounds + LateTicks /\ late \in 0 .. LateTicks
    /\ delayed \subseteq Jobs /\ gone \subseteq Jobs
    /\ cell \in [at : {"register", "poll", "remove", "returned", "raised"},
                 round : 1 .. Rounds]
    /\ \A i \in DOMAIN jobs : jobs[i] \in Jobs
    /\ \A i \in DOMAIN processed : processed[i] \in [job : Jobs, at : 0 .. Rounds + LateTicks]

-----------------------------------------------------------------------------
Goes(stage) == cell' = [cell EXCEPT !.at = stage]

\* Jobs are registered one by one; an exception ends the notebook.
Register ==
    /\ cell.at = "register"
    /\ \E i \in Jobs :
          /\ i \notin delayed /\ 1 .. i - 1 \subseteq delayed
          /\ \/ delayed' = delayed \cup {i} /\ Goes(IF i = Len(Due) THEN "poll" ELSE "register")
             \/ delayed' \in {delayed, delayed \cup {i}} /\ Goes("raised")
    /\ UNCHANGED <<clock, late, jobs, processed, gone>>

\* ZRANGEBYSCORE from 0 to now, from the first, at most Batch.
DueNow ==
    LET due == {i \in delayed : Due[i] <= clock}
    IN  CHOOSE s \in [1 .. Cardinality(due) -> due] :
           /\ Range(s) = due
           /\ \A i, j \in DOMAIN s : i < j => Due[s[i]] < Due[s[j]]

Poll ==
    /\ cell.at = "poll"
    /\ \/ /\ jobs' = SubSeq(DueNow, 1, IF Len(DueNow) < Batch THEN Len(DueNow) ELSE Batch)
          /\ Goes("remove")
       \/ Goes("raised") /\ UNCHANGED jobs
    /\ UNCHANGED <<clock, late, delayed, processed, gone>>

\* ZREM of one job, whose answer nobody reads, and only then its execution.
RemoveAndProcess ==
    /\ cell.at = "remove" /\ jobs # << >>
    /\ LET job == Head(jobs)
       IN  \/ /\ delayed' = delayed \ {job}
              /\ processed' = Append(processed, [job |-> job, at |-> clock])
              /\ jobs' = Tail(jobs)
              /\ UNCHANGED <<cell, gone>>
           \/ /\ delayed' = delayed \ {job}
              /\ gone' = gone \cup {job}
              /\ Goes("raised")
              /\ UNCHANGED <<jobs, processed>>
           \/ /\ Goes("raised")
              /\ UNCHANGED <<delayed, jobs, processed, gone>>
    /\ UNCHANGED <<clock, late>>

\* Mutant: the rounds follow each other at once.
NextRoundAtOnce ==
    /\ cell.at = "remove" /\ jobs = << >>
    /\ cell' = IF cell.round < Rounds THEN [at |-> "poll", round |-> cell.round + 1]
                                      ELSE [cell EXCEPT !.at = "returned"]
    /\ UNCHANGED <<clock, late, delayed, jobs, processed, gone>>

\* The poller sleeps for the interval, after the last round as well.
NextRound ==
    /\ cell.at = "remove" /\ jobs = << >>
    /\ clock' = clock + 1
    /\ cell' = IF cell.round < Rounds THEN [at |-> "poll", round |-> cell.round + 1]
                                      ELSE [cell EXCEPT !.at = "returned"]
    /\ UNCHANGED <<late, delayed, jobs, processed, gone>>

\* A request takes its time, or the sleep is longer than asked for.
Late ==
    /\ late < LateTicks /\ cell.at \in {"register", "poll", "remove"}
    /\ late' = late + 1 /\ clock' = clock + 1
    /\ UNCHANGED <<delayed, cell, jobs, processed, gone>>

JobsNext == Register \/ Poll \/ RemoveAndProcess \/ NextRound \/ Late

JobsSpec == JobsInit /\ [][JobsNext]_jobVars

-----------------------------------------------------------------------------
(* The poller executes every job once, in the order of their times and none  *)
(* before its time, however slow the requests are; when it returns it has    *)
(* executed all of them.  A job is lost only if the reply to its removal is, *)
(* and that ends the poller, so it is one job at most.                       *)
JobsOnTime ==
    /\ \A i \in DOMAIN processed :
          /\ processed[i].at >= Due[processed[i].job]
          /\ \A k \in 1 .. i - 1 : processed[k].job < processed[i].job
    /\ cell.at = "returned" => Len(processed) = Len(Due)
    /\ cell.at \in {"poll", "remove"} =>
          gone = {} /\ delayed = Jobs \ {processed[i].job : i \in DOMAIN processed}
    /\ \A j, k \in gone : j = k

=============================================================================
