--------------------------- MODULE DeliveryStatus ---------------------------
(***************************************************************************)
(* The delivery tracking of notebook 16                                    *)
(* (notebooks/16_challenge_realtime_delivery.ipynb), a client of this      *)
(* application.  The notebook publishes the orders, starts a task for each *)
(* and sleeps; a task stores a status, appends it to the timeline, sends a *)
(* notification, and leaves the next status to a task of its own that      *)
(* nobody awaits.  Then the notebook shows the timelines and deletes what  *)
(* it stored.                                                              *)
(*                                                                         *)
(* A request is served, refused (no status is looked at but that of        *)
(* list/range), or raises in the client, executed or not.  Time is in      *)
(* units of five seconds: the delays are multiples, and httpx lets a       *)
(* request take no longer.                                                 *)
(***************************************************************************)
EXTENDS Naturals, Sequences

CONSTANTS
    Deliveries,     \* 1 .. how many: the notebook takes them in this order
    MaxFaulty,      \* bound: requests refused or raised
    MaxSlow         \* bound: requests that take a unit of time

ASSUME DeliveriesAssumption ==
    /\ \E n \in Deliveries : n \in Nat /\ Deliveries = 1 .. n
    /\ MaxFaulty \in Nat /\ MaxSlow \in Nat

Delivered == 4      \* the statuses: received, cooking, delivering, delivered

\* delay_seconds of the status that comes next.
Delay(s) == CASE s = 2 -> 2 [] s = 3 -> 3 [] s = Delivered -> 0

\* Mutant: the notebook forgets that the statuses take time to store.
ShowTooSoon == 5

ShowAfter == 7      \* asyncio.sleep(35)

VARIABLES
    stage,      \* the cell of the notebook
    turn,       \* the delivery its loop is at
    call,       \* the request of that delivery
    wakes,      \* when the notebook's sleep ends
    time,
    stored,     \* [Deliveries -> the status key, 0 if there is none]
    timeline,   \* [Deliveries -> the list, oldest entry first]
    tracker,    \* [Deliveries -> the task that is at work for it]
    shown,      \* [Deliveries -> the timeline as displayed]
    faulty,     \* [Deliveries -> how many of its requests failed]
    slow        \* [Deliveries -> how many of its task's took a unit]

deliveryVars == <<stage, turn, call, wakes, time, stored, timeline, tracker,
                  shown, faulty, slow>>
keys == <<stored, timeline>>
trouble == <<faulty, slow>>

\* A task: the status it is at, what it does, and since when or until when.
Task(s, does, when) == [status |-> s, does |-> does, at |-> when]

DeliveryInit ==
    /\ stage = "publish" /\ turn = 1 /\ call = 1
    /\ wakes = 0 /\ time = 0
    /\ stored = [d \in Deliveries |-> 0]
    /\ timeline = [d \in Deliveries |-> <<>>]
    /\ tracker = [d \in Deliveries |-> Task(1, "none", 0)]
    /\ shown = [d \in Deliveries |-> <<>>]
    /\ faulty = [d \in Deliveries |-> 0]
    /\ slow = [d \in Deliveries |-> 0]

-----------------------------------------------------------------------------
(* Requests *)

Perform(d, request, s) ==
    /\ stored' = CASE request = "set" -> [stored EXCEPT ![d] = s]
                 [] request = "delete status" -> [stored EXCEPT ![d] = 0]
                 [] OTHER -> stored
    /\ timeline' = CASE request = "push" -> [timeline EXCEPT ![d] = Append(@, s)]
                   [] request = "delete timeline" -> [timeline EXCEPT ![d] = <<>>]
                   [] OTHER -> timeline

TotalFaulty ==
    LET sum[n \in Nat] == IF n = 0 THEN 0 ELSE sum[n - 1] + faulty[n]
    IN  sum[Len(faulty)]

Fails(d) ==
    /\ TotalFaulty < MaxFaulty
    /\ faulty' = [faulty EXCEPT ![d] = @ + 1]
    /\ UNCHANGED slow

\* A response came, be it an error: the caller goes on.
Responds(d, request, s) ==
    \/ Perform(d, request, s) /\ UNCHANGED trouble
    \/ UNCHANGED keys /\ Fails(d)

RaisesInClient(d, request, s) ==
    /\ Fails(d)
    /\ Perform(d, request, s) \/ UNCHANGED keys

-----------------------------------------------------------------------------
(* The notebook *)

CellRequests == CASE stage = "publish" -> <<"set", "topic", "push">>
         [] stage = "show" -> <<"range">>
         [] stage = "clean" -> <<"delete status", "delete timeline">>
         [] OTHER -> <<>>

InLoop == stage \in {"publish", "show", "clean"}

\* publish_delivery_order, display_delivery_timeline, cleanup: for each
\* delivery, one request after the other.
NextCall(after) ==
    LET lastCall == call = Len(CellRequests)
        lastTurn == turn = Len(tracker)
    IN  /\ call' = IF lastCall THEN 1 ELSE call + 1
        /\ turn' = IF ~lastCall THEN turn ELSE IF lastTurn THEN 1 ELSE turn + 1
        /\ stage' = IF lastCall /\ lastTurn THEN after ELSE stage

PublishOrder ==
    /\ stage = "publish"
    /\ Responds(turn, CellRequests[call], 1)
    /\ NextCall("track")
    /\ tracker' = IF stage' = "track"
                  THEN [d \in Deliveries |-> Task(1, "set", time)] ELSE tracker
    /\ UNCHANGED <<wakes, time, shown>>

\* await asyncio.gather(*tasks): the tasks of the first status have ended.
Gathered ==
    /\ stage = "track"
    /\ \A d \in Deliveries : tracker[d].status > 1
    /\ stage' = "wait" /\ wakes' = time + ShowAfter
    /\ UNCHANGED <<turn, call, time, keys, tracker, shown, trouble>>

Awake ==
    /\ stage = "wait" /\ time = wakes
    /\ stage' = "show"
    /\ UNCHANGED <<turn, call, wakes, time, keys, tracker, shown, trouble>>

\* list/range; a refusal is displayed as an empty timeline.
Display ==
    /\ stage = "show"
    /\ \/ shown' = [shown EXCEPT ![turn] = timeline[turn]] /\ UNCHANGED trouble
       \/ UNCHANGED shown /\ Fails(turn)
    /\ NextCall("clean")
    /\ UNCHANGED <<wakes, time, keys, tracker>>

Cleanup ==
    /\ stage = "clean"
    /\ Responds(turn, CellRequests[call], 0)
    /\ NextCall("ended")
    /\ UNCHANGED <<wakes, time, tracker, shown>>

\* A request of the notebook raises: the cell fails.
CellRaises ==
    /\ InLoop
    /\ RaisesInClient(turn, CellRequests[call], IF stage = "publish" THEN 1 ELSE 0)
    /\ stage' = "failed"
    /\ UNCHANGED <<turn, call, wakes, time, tracker, shown>>

-----------------------------------------------------------------------------
(* The tasks *)

AtWork(d) == tracker[d].does \in {"set", "push", "notify"}
Asleep(d) == tracker[d].does = "sleep"

\* process_status_transition: what the task does after the request it is at.
\* With the last one it creates the task of the next status, and ends.
Following(d) ==
    LET s == tracker[d].status
    IN  CASE tracker[d].does = "set" -> Task(s, "push", time)
        []   tracker[d].does = "push" -> Task(s, "notify", time)
        []   OTHER -> IF s < Delivered
                      THEN Task(s + 1, "sleep", time + Delay(s + 1))
                      ELSE Task(s, "done", time)

TaskRequest(d) ==
    /\ AtWork(d)
    /\ Responds(d, tracker[d].does, tracker[d].status)
    /\ tracker' = [tracker EXCEPT ![d] = Following(d)]
    /\ UNCHANGED <<stage, turn, call, wakes, time, shown>>

\* The exception ends the task.  gather raises that of a first task; nobody
\* sees that of a later one.
TaskRaises(d) ==
    /\ AtWork(d)
    /\ RaisesInClient(d, tracker[d].does, tracker[d].status)
    /\ tracker' = [tracker EXCEPT ![d].does = "dead", ![d].at = time]
    /\ stage' = IF tracker[d].status = 1 /\ stage = "track" THEN "failed" ELSE stage
    /\ UNCHANGED <<turn, call, wakes, time, shown>>

\* schedule_next_status: the sleep is over.
TaskWakes(d) ==
    /\ Asleep(d) /\ tracker[d].at = time
    /\ tracker' = [tracker EXCEPT ![d].does = "set"]
    /\ UNCHANGED <<stage, turn, call, wakes, time, keys, shown, trouble>>

\* Sleeps end when they are due, and no request takes more than a unit.
TimePasses ==
    /\ \E d \in Deliveries : AtWork(d) \/ Asleep(d) \/ stage = "wait"
    /\ \A d \in Deliveries :
          /\ AtWork(d) => tracker[d].at = time /\ slow[d] < MaxSlow
          /\ Asleep(d) => time < tracker[d].at
    /\ stage = "wait" => time < wakes
    /\ time' = time + 1
    /\ slow' = [d \in Deliveries |-> IF AtWork(d) THEN slow[d] + 1 ELSE slow[d]]
    /\ UNCHANGED <<stage, turn, call, wakes, keys, tracker, shown, faulty>>

AllQuiet ==
    /\ stage \in {"ended", "failed"}
    /\ \A d \in Deliveries : ~AtWork(d) /\ ~Asleep(d)
    /\ UNCHANGED deliveryVars

DeliveryNext ==
    \/ PublishOrder \/ Gathered \/ Awake \/ Display \/ Cleanup \/ CellRaises
    \/ \E d \in Deliveries : TaskRequest(d) \/ TaskRaises(d) \/ TaskWakes(d)
    \/ TimePasses \/ AllQuiet

DeliverySpec == DeliveryInit /\ [][DeliveryNext]_deliveryVars

-----------------------------------------------------------------------------
(* Properties *)

DeliveryTypeOK ==
    /\ stage \in {"publish", "track", "wait", "show", "clean", "ended", "failed"}
    /\ turn \in Deliveries /\ call \in 1 .. 3
    /\ stored \in [Deliveries -> 0 .. Delivered]
    /\ \A d \in Deliveries :
          /\ tracker[d].status \in 1 .. Delivered
          /\ tracker[d].does \in
                {"none", "set", "push", "notify", "sleep", "done", "dead"}
          /\ slow[d] \in 0 .. MaxSlow

Ordered(line) == \A i, j \in DOMAIN line : i < j => line[i] <= line[j]

(* The timelines that the notebook announces as complete are.  A timeline is
   in the order of the statuses whatever fails, and one of whose requests
   none failed and at most one took five seconds has all of them when it is
   displayed, the first one twice, since both publish_delivery_order and the
   first task add it; of such a delivery cleanup leaves nothing behind. *)
ShownIsComplete ==
    \A d \in Deliveries :
        /\ Ordered(timeline[d])
        /\ faulty[d] = 0 /\ slow[d] <= 1 =>
              /\ stage \in {"clean", "ended"} => shown[d] = <<1, 1, 2, 3, 4>>
              /\ stage = "ended" => stored[d] = 0 /\ timeline[d] = <<>>

=============================================================================
