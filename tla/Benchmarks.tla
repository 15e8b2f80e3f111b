----------------------------- MODULE Benchmarks -----------------------------
(***************************************************************************)
(* The benchmark routes (app/api/benchmark_routes.py), the results they    *)
(* leave in the metrics collector, and the MCP tool run_benchmark, which   *)
(* runs in the same process and takes no lock.                             *)
(*                                                                         *)
(* A request finds benchmark_lock locked and is answered 409, or takes it  *)
(* without suspending: nobody ever waits for the lock.                     *)
(***************************************************************************)
EXTENDS Naturals, Sequences, SequencesExt

CONSTANTS
    Clients,        \* requests that can be in progress at once
    MaxRuns         \* bound: benchmark requests let in

ASSUME MaxRunsAssumption == MaxRuns \in Nat

Kinds == <<"redis", "redis_stream", "rabbitmq", "kafka", "kafka_batch">>
Tools == {"redis", "rabbitmq", "kafka"}     \* broker_map of the MCP tool
NoRun == 0

VARIABLES
    runs,       \* how many requests have been let in
    running,    \* [Clients -> the run it is, what it has still to run, whether
                \* it is /all, and the kinds that failed]
    tool,       \* the broker an MCP benchmark is running on, or "none"
    results,    \* metrics_collector.results: <<kind, run>>, oldest first
    answers     \* of /all: [run, what failed, its comparison]

benchVars == <<runs, running, tool, results, answers>>

Idle == [run |-> NoRun, todo |-> <<>>, all |-> FALSE, failed |-> {}]

\* benchmark_lock.locked(); the routes hold it from Begin to their answer.
BenchmarkLocked == \E c \in Clients : running[c] # Idle

BenchInit ==
    /\ runs = 0
    /\ running = [c \in Clients |-> Idle]
    /\ tool = "none"
    /\ results = <<>>
    /\ answers = {}

\* Not 409.
Free == ~BenchmarkLocked

\* A route takes the lock: one benchmark, or all of them one after another.
Begin(c) ==
    /\ Free
    /\ running[c] = Idle /\ runs < MaxRuns
    /\ runs' = runs + 1
    /\ \E todo \in {<<Kinds[k]>> : k \in DOMAIN Kinds} \cup {Kinds} :
          running' = [running EXCEPT
                        ![c] = [run |-> runs + 1, todo |-> todo,
                                all |-> todo = Kinds, failed |-> {}]]
    /\ UNCHANGED <<tool, results, answers>>

Todo(c) == running[c].todo

\* A benchmark returns, and its result is added.
Measured(c) ==
    /\ Todo(c) # <<>>
    /\ results' = Append(results, <<Head(Todo(c)), running[c].run>>)
    /\ running' = [running EXCEPT ![c].todo = Tail(@)]
    /\ UNCHANGED <<runs, tool, answers>>

\* It raises: /all records the error and goes on, the others answer 500.
Breaks(c) ==
    /\ Todo(c) # <<>>
    /\ running' = IF running[c].all
                  THEN [running EXCEPT ![c].todo = Tail(@),
                                       ![c].failed = @ \cup {Head(Todo(c))}]
                  ELSE [running EXCEPT ![c] = Idle]
    /\ UNCHANGED <<runs, tool, results, answers>>

\* Mutant: the first result of a kind is kept.
EarliestOf(kind) ==
    LET of == {i \in DOMAIN results : results[i][1] = kind}
    IN  IF of = {} THEN NoRun ELSE results[Min(of)][2]

\* get_comparison: the newest result of a kind.
LatestOf(kind) ==
    LET of == {i \in DOMAIN results : results[i][1] = kind}
    IN  IF of = {} THEN NoRun ELSE results[Max(of)][2]

\* The answer, and the end of `async with benchmark_lock`.
AnswerBenchmark(c) ==
    /\ running[c] # Idle /\ Todo(c) = <<>>
    /\ answers' = IF running[c].all
                  THEN answers \cup
                         {[run |-> running[c].run, failed |-> running[c].failed,
                           comparison |-> [k \in ToSet(Kinds) |-> LatestOf(k)]]}
                  ELSE answers
    /\ running' = [running EXCEPT ![c] = Idle]
    /\ UNCHANGED <<runs, tool, results>>

\* run_benchmark of the MCP server: no lock, and no result added.
BeginTool ==
    /\ tool = "none"
    /\ tool' \in Tools
    /\ UNCHANGED <<runs, running, results, answers>>

EndTool ==
    /\ tool # "none"
    /\ tool' = "none"
    /\ UNCHANGED <<runs, running, results, answers>>

BenchNext ==
    \/ \E c \in Clients :
          Begin(c) \/ Measured(c) \/ Breaks(c) \/ AnswerBenchmark(c)
    \/ BeginTool \/ EndTool

BenchSpec == BenchInit /\ [][BenchNext]_benchVars

-----------------------------------------------------------------------------
(* Properties *)

BenchTypeOK ==
    /\ runs \in 0 .. MaxRuns
    /\ \A c \in Clients : running[c].run \in 0 .. runs
    /\ tool \in Tools \cup {"none"}
    /\ \A i \in DOMAIN results : results[i][2] \in 1 .. runs

(* The comparison in an answer of /all is of this very run: for each broker
   it names the result measured by the request itself, unless the benchmark
   failed, and then an older one.  Neither another route that finished in
   between nor the MCP tool, which ignores the lock, gets into it. *)
ComparisonIsOwn ==
    \A a \in answers :
        \A k \in ToSet(Kinds) :
            IF k \in a.failed THEN a.comparison[k] < a.run
                              ELSE a.comparison[k] = a.run

=============================================================================
