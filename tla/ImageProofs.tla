------------------------ MODULE ImageProofs ------------------------
(***************************************************************************)
(* The image pipeline keeps its promises for any number of tasks and       *)
(* workers, any prefetch and any number of redeliveries.                   *)
(***************************************************************************)
EXTENDS MCImages, SequenceLemmas, FiniteSetTheorems

(* What is in the queue or held by a channel was sent; what was not sent yet
   has left no trace. *)
SentBefore ==
    \A t \in Tasks :
        form[t] = "unsent" =>
            /\ t \notin Range(ready) /\ ~Held(t)
            /\ events[t] = 0 /\ t \notin completed

(* A goroutine works on a request that can be parsed, and with a channel that
   is up on the first delivery of it.  A process that is down works on none. *)
WorksOnHead ==
    \A w \in Workers :
        /\ current[w] = None <=> step[w] = "idle"
        /\ channel[w] = "down" => step[w] = "idle"
        /\ step[w] # "idle" => form[current[w]] \in {"content", "metadata"}
        /\ step[w] # "idle" /\ channel[w] = "up" =>
              unacked[w] # <<>> /\ Head(unacked[w]) = current[w]
        /\ step[w] = "idle" => status[w] = Unset

(* What is about to be acked was answered. *)
AnsweredBeforeAck ==
    \A w \in Workers : step[w] = "ack" => events[current[w]] > 0

(* This delivery of t was answered, and is about to be acked. *)
Replied(w, t) == step[w] = "ack" /\ current[w] = t

(* A request that waits, or is held and was not answered by its holder, was
   answered at most as often as it was taken back. *)
AnswersCounted ==
    \A t \in Tasks :
        /\ events[t] <= 1 + redelivered[t]
        /\ t \in Range(ready) => events[t] <= redelivered[t]
        /\ \A w \in Workers :
              t \in Range(unacked[w]) /\ ~Replied(w, t) =>
                  events[t] <= redelivered[t]

HasResult(t) == stored[TaskID(t)] # "none"

(* What a goroutine has written by the step it is at, unless a write failed. *)
WritesKept ==
    \A w \in Workers :
        /\ step[w] = "store_data" => current[w] \in unstored \/ HasResult(current[w])
        /\ status[w] = "completed" =>
              \/ current[w] \in unstored
              \/ HasResult(current[w]) /\ TaskID(current[w]) \in data

IInv == PipelineTypeOK /\ OneCopy /\ SentBefore /\ NoRequestLost /\ WorksOnHead
        /\ AnsweredBeforeAck /\ AnswersCounted /\ WritesKept /\ CompletedIsStored

-----------------------------------------------------------------------------

LEMMA UnsetStatus == Unset # "none" /\ Unset # "completed" /\ Unset # "failed"
  BY Zenon DEF Unset

(* Who is at a later step, or has set the status, works on a request. *)
LEMMA BusyWithSent ==
    ASSUME IInv, NEW w \in Workers,
           step[w] # "idle" \/ status[w] = "completed"
    PROVE  /\ step[w] # "idle"
           /\ current[w] \in Tasks
           /\ form[current[w]] \in {"content", "metadata"}
<1>1. step[w] # "idle"
  BY UnsetStatus DEF IInv, WorksOnHead
<1>2. current[w] # None /\ form[current[w]] \in {"content", "metadata"}
  BY <1>1 DEF IInv, WorksOnHead
<1>3. current[w] \in Tasks \cup {None}
  BY DEF IInv, PipelineTypeOK
<1> QED
  BY <1>1, <1>2, <1>3

LEMMA InitInv == PipelineInit => IInv
<1> SUFFICES ASSUME PipelineInit PROVE IInv
  OBVIOUS
<1>1. PipelineTypeOK
  BY UnsetStatus, PrefetchAssumption, MaxRedeliveriesAssumption
  DEF PipelineInit, PipelineTypeOK, Keys
<1>2. OneCopy
  BY RangeEmpty DEF PipelineInit, OneCopy
<1>3. SentBefore
  BY RangeEmpty DEF PipelineInit, SentBefore, Held
<1>4. NoRequestLost
  BY DEF PipelineInit, NoRequestLost
<1>5. WorksOnHead /\ AnsweredBeforeAck
  BY DEF PipelineInit, WorksOnHead, AnsweredBeforeAck
<1>6. AnswersCounted
  BY RangeEmpty DEF PipelineInit, AnswersCounted
<1>7. WritesKept /\ CompletedIsStored
  BY UnsetStatus DEF PipelineInit, WritesKept, CompletedIsStored
<1> QED
  BY <1>1, <1>2, <1>3, <1>4, <1>5, <1>6, <1>7 DEF IInv

LEMMA PublishInv ==
    ASSUME IInv, NEW t \in Tasks, NEW f \in {"content", "metadata", "broken"},
           PublishRequest(t, f)
    PROVE  IInv'
<1> USE DEF PublishRequest, IInv, work, redis
<1>1. Range(ready') = Range(ready) \cup {t} /\ ready' \in Seq(Tasks)
  BY RangeAppend DEF PipelineTypeOK
<1>2. form[t] = "unsent" /\ form' = [form EXCEPT ![t] = f]
  OBVIOUS
<1>3. PipelineTypeOK'
  BY <1>1 DEF PipelineTypeOK
<1>4. OneCopy'
  <2>1. t \notin Range(ready) /\ \A w \in Workers : t \notin Range(unacked[w])
    BY DEF SentBefore, Held
  <2>2. IsInjective(ready')
    BY <2>1, InjectiveAppend DEF OneCopy, PipelineTypeOK
  <2> QED
    BY <1>1, <2>1, <2>2, ZenonT(30) DEF OneCopy
<1>5. SentBefore'
  BY <1>1 DEF SentBefore, Held, PipelineTypeOK
<1>6. NoRequestLost'
  BY <1>1 DEF NoRequestLost, Held, PipelineTypeOK
<1>7. WorksOnHead' /\ AnsweredBeforeAck'
  BY DEF WorksOnHead, AnsweredBeforeAck, PipelineTypeOK
<1>8. AnswersCounted'
  BY <1>1 DEF AnswersCounted, Replied, SentBefore, PipelineTypeOK
<1>9. ASSUME NEW u \in Tasks, form[u] # "unsent"
      PROVE  TaskID(u)' = TaskID(u) /\ HasResult(u)' = HasResult(u)
  BY <1>9 DEF TaskID, HasResult, PipelineTypeOK
<1>10. WritesKept'
  <2> SUFFICES ASSUME NEW w \in Workers, step[w] = "store_data" \/ status[w] = "completed"
               PROVE  WritesKept!(w)'
    BY DEF WritesKept
  <2>1. current[w] \in Tasks /\ form[current[w]] # "unsent"
    BY BusyWithSent
  <2> QED
    BY <1>9, <2>1 DEF WritesKept
<1>11. CompletedIsStored'
  BY <1>9 DEF CompletedIsStored, HasResult, SentBefore, PipelineTypeOK
<1> QED
  BY <1>3, <1>4, <1>5, <1>6, <1>7, <1>8, <1>10, <1>11

LEMMA DeliverInv ==
    ASSUME IInv, NEW w \in Workers, Deliver(w)
    PROVE  IInv'
<1> DEFINE t == Head(ready)
<1> USE DEF Deliver, IInv, work, redis
<1>1. /\ t \in Tasks
      /\ ready' = Tail(ready) /\ ready' \in Seq(Tasks)
      /\ Range(ready) = {t} \cup Range(ready')
      /\ IsInjective(ready') /\ t \notin Range(ready')
  BY HeadAndTail DEF PipelineTypeOK, OneCopy
<1>2. /\ unacked' = [unacked EXCEPT ![w] = Append(@, t)]
      /\ unacked'[w] = Append(unacked[w], t)
      /\ \A v \in Workers : v # w => unacked'[v] = unacked[v]
      /\ unacked \in [Workers -> Seq(Tasks)]
  BY DEF PipelineTypeOK
<1>3. /\ unacked'[w] \in Seq(Tasks)
      /\ Len(unacked'[w]) = Len(unacked[w]) + 1
      /\ Range(unacked'[w]) = Range(unacked[w]) \cup {t}
  BY <1>1, <1>2, RangeAppend, AppendProperties
<1> HIDE DEF t
<1>4. PipelineTypeOK'
  <2>1. unacked' \in [Workers -> Seq(Tasks)]
    BY <1>2, <1>3
  <2>2. ASSUME NEW v \in Workers PROVE Len(unacked'[v]) <= Prefetch
    <3>1. CASE v = w
      <4>1. Len(unacked[w]) \in Nat /\ Len(unacked[w]) < Prefetch
        BY <1>2, LenProperties
      <4> QED
        BY <1>3, <3>1, <4>1, PrefetchAssumption
    <3>2. CASE v # w
      BY <1>2, <3>2 DEF PipelineTypeOK
    <3> QED
      BY <3>1, <3>2
  <2> QED
    BY <1>1, <2>1, <2>2 DEF PipelineTypeOK
<1>5. OneCopy'
  <2>1. IsInjective(unacked'[w])
    BY <1>1, <1>2, InjectiveAppend DEF OneCopy
  <2> QED
    BY <1>1, <1>2, <1>3, <2>1 DEF OneCopy
<1>6. SentBefore'
  BY <1>1, <1>2, <1>3 DEF SentBefore, Held
<1>7. NoRequestLost'
  BY <1>1, <1>2, <1>3 DEF NoRequestLost, Held
<1>8. WorksOnHead'
  BY <1>1, <1>2, HeadTailAppend, AppendProperties DEF WorksOnHead
<1>9. AnsweredBeforeAck' /\ WritesKept' /\ CompletedIsStored'
  BY DEF AnsweredBeforeAck, WritesKept, CompletedIsStored, HasResult, TaskID
<1>10. AnswersCounted'
  BY <1>1, <1>2, <1>3 DEF AnswersCounted, Replied
<1> QED
  BY <1>4, <1>5, <1>6, <1>7, <1>8, <1>9, <1>10

(* A delivery is settled: the first one of w, and no other. *)
LEMMA SettledQueues ==
    ASSUME IInv, NEW w \in Workers, unacked[w] # <<>>, Settled(w), UNCHANGED ready
    PROVE  /\ unacked' \in [Workers -> Seq(Tasks)]
           /\ \A v \in Workers : Len(unacked'[v]) <= Prefetch
           /\ Range(unacked[w]) = {Head(unacked[w])} \cup Range(unacked'[w])
           /\ Head(unacked[w]) \in Tasks
           /\ Head(unacked[w]) \notin Range(unacked'[w])
           /\ \A v \in Workers : v # w => unacked'[v] = unacked[v]
           /\ UNCHANGED channel /\ channel[w] = "up" => OneCopy'
<1>1. /\ unacked' = [unacked EXCEPT ![w] = Tail(@)]
      /\ unacked \in [Workers -> Seq(Tasks)]
      /\ IsInjective(unacked[w])
      /\ \A v \in Workers : Len(unacked[v]) <= Prefetch
  BY DEF Settled, IInv, PipelineTypeOK, OneCopy
<1>2. unacked'[w] = Tail(unacked[w]) /\ unacked[w] \in Seq(Tasks)
  BY <1>1
<1>3. /\ Head(unacked[w]) \in Tasks
      /\ unacked'[w] \in Seq(Tasks)
      /\ Len(unacked'[w]) = Len(unacked[w]) - 1
      /\ Range(unacked[w]) = {Head(unacked[w])} \cup Range(unacked'[w])
      /\ IsInjective(unacked'[w]) /\ Head(unacked[w]) \notin Range(unacked'[w])
  BY <1>1, <1>2, HeadAndTail
<1>4. \A v \in Workers : v # w => unacked'[v] = unacked[v]
  BY <1>1
<1>5. unacked' \in [Workers -> Seq(Tasks)]
  BY <1>1, <1>2, <1>3
<1>6. \A v \in Workers : Len(unacked'[v]) <= Prefetch
  <2>1. Len(unacked[w]) \in Nat
    BY <1>2
  <2> QED
    BY <1>1, <1>3, <1>4, <2>1, PrefetchAssumption
<1>7. UNCHANGED channel /\ channel[w] = "up" => OneCopy'
  BY <1>3, <1>4 DEF IInv, OneCopy
<1> QED
  BY <1>3, <1>4, <1>5, <1>6, <1>7

LEMMA RejectInv ==
    ASSUME IInv, NEW w \in Workers, RejectBroken(w)
    PROVE  IInv'
<1> DEFINE t == Head(unacked[w])
<1>1. /\ channel[w] = "up" /\ step[w] = "idle" /\ unacked[w] # <<>>
      /\ form[t] = "broken" /\ Settled(w)
      /\ UNCHANGED <<channel, current, step, status, form, ready, events, completed,
                     redelivered, stored, data, unstored>>
  BY DEF RejectBroken, Begin, work, queues, redis
<1>2. /\ unacked' \in [Workers -> Seq(Tasks)]
      /\ \A v \in Workers : Len(unacked'[v]) <= Prefetch
      /\ Range(unacked[w]) = {t} \cup Range(unacked'[w])
      /\ t \in Tasks
      /\ \A v \in Workers : v # w => unacked'[v] = unacked[v]
      /\ OneCopy'
  BY <1>1, SettledQueues
<1> HIDE DEF t
<1>3. PipelineTypeOK'
  BY <1>1, <1>2 DEF IInv, PipelineTypeOK
<1>4. SentBefore'
  BY <1>1, <1>2 DEF IInv, SentBefore, Held
<1>5. NoRequestLost'
  BY <1>1, <1>2 DEF IInv, NoRequestLost, Held
<1>6. WorksOnHead'
  BY <1>1, <1>2 DEF IInv, WorksOnHead
<1>7. AnsweredBeforeAck' /\ WritesKept' /\ CompletedIsStored'
  BY <1>1 DEF IInv, AnsweredBeforeAck, WritesKept, CompletedIsStored, HasResult, TaskID
<1>8. AnswersCounted'
  BY <1>1, <1>2 DEF IInv, AnswersCounted, Replied
<1> QED
  BY <1>2, <1>3, <1>4, <1>5, <1>6, <1>7, <1>8 DEF IInv

(* A step of the goroutine that leaves the queues and the answers alone, and
   does not begin or end with the delivery that is to be acked. *)
LEMMA WorkInv ==
    ASSUME IInv, NEW w \in Workers,
           UNCHANGED <<form, ready, channel, unacked, events, completed, redelivered>>,
           NEW s \in {"idle", "store_result", "store_data", "reply"},
           step[w] # "ack", step' = [step EXCEPT ![w] = s],
           \A v \in Workers : v # w => current'[v] = current[v] /\ status'[v] = status[v],
           PipelineTypeOK', WorksOnHead', WritesKept', CompletedIsStored'
    PROVE  IInv'
<1>1. \A v \in Workers : step'[v] = "ack" <=> step[v] = "ack" /\ v # w
  BY DEF IInv, PipelineTypeOK
<1>2. OneCopy' /\ SentBefore' /\ NoRequestLost'
  BY DEF IInv, OneCopy, SentBefore, NoRequestLost, Held
<1>3. AnsweredBeforeAck'
  BY <1>1 DEF IInv, AnsweredBeforeAck
<1>4. \A t \in Tasks, v \in Workers : Replied(v, t)' <=> Replied(v, t)
  BY <1>1 DEF Replied
<1>5. AnswersCounted'
  BY <1>4 DEF IInv, AnswersCounted
<1> QED
  BY <1>2, <1>3, <1>5 DEF IInv

LEMMA UnmarshalInv ==
    ASSUME IInv, NEW w \in Workers, Unmarshal(w)
    PROVE  IInv'
<1> DEFINE t == Head(unacked[w])
<1>1. /\ channel[w] = "up" /\ step[w] = "idle" /\ unacked[w] # <<>>
      /\ form[t] # "broken"
      /\ current' = [current EXCEPT ![w] = t]
      /\ step' = [step EXCEPT ![w] = "store_result"]
      /\ UNCHANGED <<channel, unacked, status, form, ready, events, completed,
                     redelivered, stored, data, unstored>>
  BY DEF Unmarshal, Begin, queues, redis
<1>2. t \in Tasks /\ t # None /\ t \in Range(unacked[w])
  BY <1>1, HeadAndTail, NoneAssumption DEF IInv, PipelineTypeOK
<1> HIDE DEF t
<1>3. form[t] \in {"content", "metadata"}
  BY <1>1, <1>2 DEF IInv, PipelineTypeOK, SentBefore, Held
<1>4. PipelineTypeOK'
  BY <1>1, <1>2 DEF IInv, PipelineTypeOK
<1>5. WorksOnHead'
  BY <1>1, <1>2, <1>3 DEF IInv, PipelineTypeOK, WorksOnHead, t
<1>6. status[w] # "completed"
  BY <1>1, UnsetStatus DEF IInv, WorksOnHead
<1>7. WritesKept' /\ CompletedIsStored'
  BY <1>1, <1>6 DEF IInv, PipelineTypeOK, WritesKept, CompletedIsStored, HasResult, TaskID
<1>8. \A v \in Workers : v # w => current'[v] = current[v] /\ status'[v] = status[v]
  BY <1>1 DEF IInv, PipelineTypeOK
<1> QED
  BY <1>1, <1>4, <1>5, <1>7, <1>8, WorkInv

LEMMA EncodeFailsInv ==
    ASSUME IInv, NEW w \in Workers, EncodeFails(w)
    PROVE  IInv'
<1>1. /\ step[w] = "store_result"
      /\ step' = [step EXCEPT ![w] = "reply"]
      /\ status' = [status EXCEPT ![w] = "failed"]
      /\ UNCHANGED <<channel, unacked, current, form, ready, events, completed,
                     redelivered, stored, data, unstored>>
  BY DEF EncodeFails, queues, redis
<1>2. PipelineTypeOK'
  BY <1>1 DEF IInv, PipelineTypeOK
<1>3. WorksOnHead'
  BY <1>1, UnsetStatus DEF IInv, PipelineTypeOK, WorksOnHead
<1>4. WritesKept' /\ CompletedIsStored'
  BY <1>1 DEF IInv, PipelineTypeOK, WritesKept, CompletedIsStored, HasResult, TaskID
<1>5. \A v \in Workers : v # w => current'[v] = current[v] /\ status'[v] = status[v]
  BY <1>1 DEF IInv, PipelineTypeOK
<1> QED
  BY <1>1, <1>2, <1>3, <1>4, <1>5, WorkInv

(* What is stored stays stored, also when another worker stores it again. *)
LEMMA StoreResultInv ==
    ASSUME IInv, NEW w \in Workers, StoreResult(w)
    PROVE  IInv'
<1>0. PICK t \in Tasks : t = current[w]
  BY BusyWithSent DEF StoreResult
<1>1. /\ step[w] = "store_result"
      /\ step' = [step EXCEPT ![w] = "store_data"]
      /\ \/ stored' = [stored EXCEPT ![TaskID(t)] = status[w]] /\ UNCHANGED unstored
         \/ unstored' = unstored \cup {t} /\ UNCHANGED stored
      /\ UNCHANGED <<channel, unacked, current, status, form, ready, events,
                     completed, redelivered, data>>
  BY <1>0 DEF StoreResult, queues
<1>2. t \in Tasks /\ TaskID(t) \in Keys
  BY DEF TaskID, Keys
<1>3. status[w] \in {Unset, "completed", "failed"} /\ status[w] # "none"
  BY UnsetStatus DEF IInv, PipelineTypeOK
<1>4. PipelineTypeOK'
  BY <1>1, <1>2, <1>3 DEF IInv, PipelineTypeOK
<1>5. WorksOnHead'
  BY <1>1 DEF IInv, PipelineTypeOK, WorksOnHead
<1>6. \A u \in Tasks : TaskID(u)' = TaskID(u) /\ (HasResult(u) => HasResult(u)')
  BY <1>1, <1>3 DEF IInv, PipelineTypeOK, HasResult, TaskID, Keys
<1>7. unstored \subseteq unstored' /\ (t \in unstored' \/ HasResult(t)')
  BY <1>1, <1>2, <1>3 DEF IInv, PipelineTypeOK, HasResult, TaskID
<1>8. WritesKept'
  <2> SUFFICES ASSUME NEW v \in Workers
               PROVE  /\ step'[v] = "store_data" =>
                            current[v] \in unstored' \/ HasResult(current[v])'
                      /\ status[v] = "completed" =>
                            \/ current[v] \in unstored'
                            \/ HasResult(current[v])' /\ TaskID(current[v])' \in data
    BY <1>1 DEF WritesKept, HasResult, TaskID
  <2>1. step'[v] = "store_data" => v = w \/ step[v] = "store_data"
    BY <1>1 DEF IInv, PipelineTypeOK
  <2>2. step[v] = "store_data" \/ status[v] = "completed" => current[v] \in Tasks
    BY BusyWithSent
  <2> QED
    BY <1>0, <1>1, <1>6, <1>7, <2>1, <2>2 DEF IInv, WritesKept, HasResult
<1>9. CompletedIsStored'
  BY <1>1, <1>6, <1>7 DEF IInv, PipelineTypeOK, CompletedIsStored, HasResult
<1>10. \A v \in Workers : v # w => current'[v] = current[v] /\ status'[v] = status[v]
  BY <1>1
<1> QED
  BY <1>1, <1>4, <1>5, <1>8, <1>9, <1>10, WorkInv

LEMMA StoreDataInv ==
    ASSUME IInv, NEW w \in Workers, StoreData(w)
    PROVE  IInv'
<1>0. PICK t \in Tasks : t = current[w]
  BY BusyWithSent DEF StoreData
<1>1. /\ step[w] = "store_data"
      /\ step' = [step EXCEPT ![w] = "reply"]
      /\ status' = [status EXCEPT ![w] = "completed"]
      /\ \/ data' = data \cup {TaskID(t)} /\ UNCHANGED unstored
         \/ unstored' = unstored \cup {t} /\ UNCHANGED data
      /\ UNCHANGED <<channel, unacked, current, form, ready, events,
                     completed, redelivered, stored>>
  BY <1>0 DEF StoreData, queues
<1>2. t \in Tasks /\ TaskID(t) \in Keys
  BY DEF TaskID, Keys
<1>3. t \in unstored \/ HasResult(t)
  BY <1>0, <1>1 DEF IInv, WritesKept, HasResult
<1>4. PipelineTypeOK'
  BY <1>1, <1>2 DEF IInv, PipelineTypeOK
<1>5. WorksOnHead'
  BY <1>1, UnsetStatus DEF IInv, PipelineTypeOK, WorksOnHead
<1>6. \A u : TaskID(u)' = TaskID(u) /\ HasResult(u)' = HasResult(u)
  BY <1>1 DEF HasResult, TaskID
<1>7. /\ unstored \subseteq unstored' /\ data \subseteq data'
      /\ t \in unstored' \/ (HasResult(t) /\ TaskID(t) \in data')
  BY <1>1, <1>3 DEF HasResult, TaskID
<1>8. WritesKept'
  <2> SUFFICES ASSUME NEW v \in Workers
               PROVE  /\ step'[v] = "store_data" =>
                            current[v] \in unstored' \/ HasResult(current[v])
                      /\ status'[v] = "completed" =>
                            \/ current[v] \in unstored'
                            \/ HasResult(current[v]) /\ TaskID(current[v]) \in data'
    BY <1>1 DEF WritesKept, HasResult, TaskID
  <2>1. /\ step'[v] = "store_data" => step[v] = "store_data"
        /\ status'[v] = "completed" => v = w \/ status[v] = "completed"
    BY <1>1 DEF IInv, PipelineTypeOK
  <2> QED
    BY <1>0, <1>7, <2>1 DEF IInv, WritesKept, HasResult
<1>9. CompletedIsStored'
  BY <1>1, <1>6, <1>7 DEF IInv, CompletedIsStored
<1>10. \A v \in Workers : v # w => current'[v] = current[v] /\ status'[v] = status[v]
  BY <1>1 DEF IInv, PipelineTypeOK
<1> QED
  BY <1>1, <1>4, <1>5, <1>8, <1>9, <1>10, WorkInv

(* The goroutine has finished with a delivery: it is idle again. *)
LEMMA DoneWork ==
    ASSUME IInv, NEW w \in Workers, Done(w), UNCHANGED <<form, redis>>
    PROVE  /\ current' \in [Workers -> Tasks \cup {None}]
           /\ step' \in [Workers -> {"idle", "store_result", "store_data", "reply", "ack"}]
           /\ status' \in [Workers -> {Unset, "completed", "failed"}]
           /\ step'[w] = "idle" /\ current'[w] = None /\ status'[w] = Unset
           /\ \A v \in Workers : v # w =>
                 /\ current'[v] = current[v] /\ step'[v] = step[v]
                 /\ status'[v] = status[v]
           /\ WritesKept'
<1>1. /\ current' = [current EXCEPT ![w] = None]
      /\ step' = [step EXCEPT ![w] = "idle"]
      /\ status' = [status EXCEPT ![w] = Unset]
      /\ UNCHANGED <<form, stored, data, unstored>>
  BY DEF Done, redis
<1>2. /\ current' \in [Workers -> Tasks \cup {None}]
      /\ step' \in [Workers -> {"idle", "store_result", "store_data", "reply", "ack"}]
      /\ status' \in [Workers -> {Unset, "completed", "failed"}]
      /\ step'[w] = "idle" /\ current'[w] = None /\ status'[w] = Unset
      /\ \A v \in Workers : v # w =>
            /\ current'[v] = current[v] /\ step'[v] = step[v]
            /\ status'[v] = status[v]
  BY <1>1 DEF IInv, PipelineTypeOK
<1>3. WritesKept'
  BY <1>1, <1>2, UnsetStatus DEF IInv, WritesKept, HasResult, TaskID
<1> QED
  BY <1>2, <1>3

LEMMA PublishFailsInv ==
    ASSUME IInv, NEW w \in Workers, PublishFails(w)
    PROVE  IInv'
<1>1. /\ step[w] = "reply" /\ channel[w] # "up" /\ Done(w)
      /\ UNCHANGED <<channel, unacked, form, ready, events, completed,
                     redelivered, stored, data, unstored>>
  BY DEF PublishFails, queues, redis
<1>2. step' = [step EXCEPT ![w] = "idle"]
  BY <1>1 DEF Done
<1>3. PipelineTypeOK'
  BY <1>1, DoneWork DEF IInv, PipelineTypeOK, redis
<1>4. WorksOnHead'
  BY <1>1, DoneWork DEF IInv, WorksOnHead, redis
<1>5. WritesKept' /\ CompletedIsStored'
  BY <1>1, DoneWork DEF IInv, CompletedIsStored, TaskID, redis
<1>6. \A v \in Workers : v # w => current'[v] = current[v] /\ status'[v] = status[v]
  BY <1>1, DoneWork DEF redis
<1> QED
  BY <1>1, <1>2, <1>3, <1>4, <1>5, <1>6, WorkInv

(* The one worker that can reply has the only copy, which nobody answered
   since the broker last took it back. *)
LEMMA PublishResultInv ==
    ASSUME IInv, NEW w \in Workers, PublishResult(w)
    PROVE  IInv'
<1> DEFINE t == current[w]
<1>1. /\ step[w] = "reply" /\ channel[w] = "up"
      /\ events' = [events EXCEPT ![t] = @ + 1]
      /\ completed' = IF status[w] = "completed" THEN completed \cup {t} ELSE completed
      /\ step' = [step EXCEPT ![w] = "ack"]
      /\ UNCHANGED <<form, ready, channel, unacked, current, status, redelivered,
                     stored, data, unstored>>
  BY DEF PublishResult, redis
<1>2. /\ t \in Tasks /\ form[t] \in {"content", "metadata"}
      /\ unacked[w] # <<>> /\ Head(unacked[w]) = t
  BY <1>1, BusyWithSent DEF IInv, WorksOnHead
<1>3. t \in Range(unacked[w]) /\ unacked[w] \in Seq(Tasks)
  BY <1>2, HeadAndTail DEF IInv, PipelineTypeOK
<1>4. events[t] <= redelivered[t]
  BY <1>1, <1>2, <1>3 DEF IInv, AnswersCounted, Replied
<1>5. /\ events[t] \in Nat /\ redelivered[t] \in 0 .. MaxRedeliveries
      /\ events'[t] = events[t] + 1
      /\ \A u \in Tasks : u # t => events'[u] = events[u]
      /\ events' \in [Tasks -> 0 .. MaxRedeliveries + 1]
  BY <1>1, <1>2, <1>4, MaxRedeliveriesAssumption DEF IInv, PipelineTypeOK
<1>6. \A v \in Workers : step'[v] = IF v = w THEN "ack" ELSE step[v]
  BY <1>1 DEF IInv, PipelineTypeOK
<1>7. t \notin Range(ready) /\ \A v \in Workers : v # w => t \notin Range(unacked[v])
  BY <1>3 DEF IInv, OneCopy
<1> HIDE DEF t
<1>8. PipelineTypeOK'
  BY <1>1, <1>2, <1>5 DEF IInv, PipelineTypeOK
<1>9. OneCopy' /\ SentBefore'
  BY <1>1, <1>2, <1>5 DEF IInv, OneCopy, SentBefore, Held
<1>10. NoRequestLost'
  BY <1>1, <1>5 DEF IInv, NoRequestLost, Held
<1>11. WorksOnHead'
  BY <1>1, <1>6 DEF IInv, WorksOnHead
<1>12. AnsweredBeforeAck'
  <2> SUFFICES ASSUME NEW v \in Workers, step'[v] = "ack"
               PROVE  events'[current[v]] > 0
    BY <1>1 DEF AnsweredBeforeAck
  <2>1. CASE current[v] = t
    BY <1>5, <2>1
  <2>2. CASE current[v] # t
    <3>1. step[v] = "ack" /\ current[v] \in Tasks
      BY <1>6, <2>2, BusyWithSent DEF t
    <3> QED
      BY <1>5, <2>2, <3>1 DEF IInv, AnsweredBeforeAck
  <2> QED
    BY <2>1, <2>2
<1>13. AnswersCounted'
  <2> SUFFICES ASSUME NEW u \in Tasks
               PROVE  /\ events'[u] <= 1 + redelivered[u]
                      /\ u \in Range(ready) => events'[u] <= redelivered[u]
                      /\ \A v \in Workers :
                            u \in Range(unacked[v]) /\ ~Replied(v, u)' =>
                                events'[u] <= redelivered[u]
    BY <1>1 DEF AnswersCounted
  <2>1. CASE u = t
    BY <1>1, <1>4, <1>5, <1>6, <1>7, <2>1 DEF Replied, t
  <2>2. CASE u # t
    <3>1. \A v \in Workers : ~Replied(v, u)' => ~Replied(v, u)
      BY <1>1, <1>6 DEF Replied
    <3> QED
      BY <1>5, <2>2, <3>1 DEF IInv, AnswersCounted
  <2> QED
    BY <2>1, <2>2
<1>14. WritesKept'
  BY <1>1, <1>6 DEF IInv, WritesKept, HasResult, TaskID
<1>15. CompletedIsStored'
  <2>1. status[w] = "completed" => t \in unstored \/ (HasResult(t) /\ TaskID(t) \in data)
    BY DEF IInv, WritesKept, HasResult, TaskID, t
  <2> QED
    BY <1>1, <2>1 DEF IInv, CompletedIsStored, HasResult, TaskID
<1> QED
  BY <1>8, <1>9, <1>10, <1>11, <1>12, <1>13, <1>14, <1>15 DEF IInv

(* One worker is idle again, with whatever is left in its hand; the others
   work on. *)
LEMMA StillOnHead ==
    ASSUME IInv, NEW w \in Workers, UNCHANGED form,
           step'[w] = "idle", current'[w] = None, status'[w] = Unset,
           \A v \in Workers : v # w =>
              /\ current'[v] = current[v] /\ step'[v] = step[v]
              /\ status'[v] = status[v] /\ channel'[v] = channel[v]
              /\ unacked'[v] = unacked[v]
    PROVE  WorksOnHead'
<1> SUFFICES ASSUME NEW v \in Workers
             PROVE  WorksOnHead!(v)'
  BY DEF WorksOnHead
<1>1. CASE v = w
  BY <1>1
<1>2. CASE v # w
  BY <1>2 DEF IInv, WorksOnHead
<1> QED
  BY <1>1, <1>2

(* The ack settles the delivery that was answered, or nothing at all. *)
LEMMA AckInv ==
    ASSUME IInv, NEW w \in Workers, AckDelivery(w)
    PROVE  IInv'
<1>0. PICK t \in Tasks : t = current[w]
  BY BusyWithSent DEF AckDelivery
<1>1. /\ step[w] = "ack" /\ Done(w)
      /\ IF channel[w] = "up" THEN Settled(w) ELSE UNCHANGED unacked
      /\ UNCHANGED <<channel, form, ready, events, completed, redelivered,
                     stored, data, unstored>>
  BY DEF AckDelivery, queues, redis
<1>2. /\ current' \in [Workers -> Tasks \cup {None}]
      /\ step' \in [Workers -> {"idle", "store_result", "store_data", "reply", "ack"}]
      /\ status' \in [Workers -> {Unset, "completed", "failed"}]
      /\ step'[w] = "idle" /\ current'[w] = None /\ status'[w] = Unset
      /\ \A v \in Workers : v # w =>
            /\ current'[v] = current[v] /\ step'[v] = step[v]
            /\ status'[v] = status[v]
      /\ WritesKept'
  BY <1>1, DoneWork DEF redis
<1>3. events[t] > 0
  BY <1>0, <1>1 DEF IInv, AnsweredBeforeAck
<1>4. CompletedIsStored'
  BY <1>1 DEF IInv, CompletedIsStored, TaskID
<1>5. AnsweredBeforeAck'
  BY <1>1, <1>2 DEF IInv, AnsweredBeforeAck
<1>6. CASE channel[w] = "up"
  <2>1. unacked[w] # <<>> /\ Head(unacked[w]) = t
    BY <1>0, <1>1, <1>6 DEF IInv, WorksOnHead
  <2>2. /\ unacked' \in [Workers -> Seq(Tasks)]
        /\ \A v \in Workers : Len(unacked'[v]) <= Prefetch
        /\ Range(unacked[w]) = {t} \cup Range(unacked'[w])
        /\ t \notin Range(unacked'[w])
        /\ \A v \in Workers : v # w => unacked'[v] = unacked[v]
        /\ OneCopy'
    BY <1>1, <1>6, <2>1, SettledQueues
  <2>3. PipelineTypeOK'
    BY <1>1, <1>2, <2>2 DEF IInv, PipelineTypeOK
  <2>4. SentBefore' /\ NoRequestLost'
    BY <1>1, <1>3, <2>2 DEF IInv, SentBefore, NoRequestLost, Held
  <2>5. WorksOnHead'
    BY <1>1, <1>2, <2>2, StillOnHead
  <2>6. AnswersCounted'
    <3> SUFFICES ASSUME NEW u \in Tasks, NEW v \in Workers,
                        u \in Range(unacked'[v]), ~Replied(v, u)'
                 PROVE  events[u] <= redelivered[u]
      BY <1>1 DEF IInv, AnswersCounted
    <3>1. u \in Range(unacked[v]) /\ ~Replied(v, u)
      BY <1>0, <1>2, <2>2 DEF Replied
    <3> QED
      BY <3>1 DEF IInv, AnswersCounted
  <2> QED
    BY <1>2, <1>4, <1>5, <2>2, <2>3, <2>4, <2>5, <2>6 DEF IInv
<1>7. CASE channel[w] # "up"
  <2>1. UNCHANGED unacked /\ unacked[w] = <<>>
    BY <1>1, <1>7 DEF IInv, OneCopy
  <2>2. PipelineTypeOK'
    BY <1>1, <1>2, <2>1 DEF IInv, PipelineTypeOK
  <2>3. OneCopy' /\ SentBefore' /\ NoRequestLost'
    BY <1>1, <2>1 DEF IInv, OneCopy, SentBefore, NoRequestLost, Held
  <2>4. WorksOnHead'
    BY <1>1, <1>2, <2>1 DEF IInv, WorksOnHead
  <2>5. AnswersCounted'
    <3> SUFFICES ASSUME NEW u \in Tasks, NEW v \in Workers,
                        u \in Range(unacked[v]), ~Replied(v, u)'
                 PROVE  events[u] <= redelivered[u]
      BY <1>1, <2>1 DEF IInv, AnswersCounted
    <3>1. v # w
      BY <2>1, RangeEmpty
    <3>2. ~Replied(v, u)
      BY <1>2, <3>1 DEF Replied
    <3> QED
      BY <3>2 DEF IInv, AnswersCounted
  <2> QED
    BY <1>2, <1>4, <1>5, <2>2, <2>3, <2>4, <2>5 DEF IInv
<1> QED
  BY <1>6, <1>7

-----------------------------------------------------------------------------
(* The broker takes the deliveries of a channel back: they wait again, each
   of them redelivered once more. *)
LEMMA RequeueQueues ==
    ASSUME IInv, NEW w \in Workers, Requeue(w)
    PROVE  /\ ready' \in Seq(Tasks)
           /\ unacked' \in [Workers -> Seq(Tasks)]
           /\ \A v \in Workers : Len(unacked'[v]) <= Prefetch
           /\ redelivered' \in [Tasks -> 0 .. MaxRedeliveries]
           /\ Range(ready') = Range(unacked[w]) \cup Range(ready)
           /\ IsInjective(ready')
           /\ unacked'[w] = <<>> /\ Range(unacked'[w]) = {}
           /\ \A v \in Workers : v # w => unacked'[v] = unacked[v]
           /\ \A t \in Tasks :
                 redelivered'[t] =
                    IF t \in Range(unacked[w]) THEN redelivered[t] + 1 ELSE redelivered[t]
<1>1. /\ \A t \in Range(unacked[w]) : redelivered[t] < MaxRedeliveries
      /\ ready' = unacked[w] \o ready
      /\ unacked' = [unacked EXCEPT ![w] = <<>>]
      /\ redelivered' = [t \in Tasks |->
                           redelivered[t] + (IF t \in Range(unacked[w]) THEN 1 ELSE 0)]
  BY DEF Requeue
<1>2. /\ ready \in Seq(Tasks) /\ unacked \in [Workers -> Seq(Tasks)]
      /\ unacked[w] \in Seq(Tasks)
      /\ redelivered \in [Tasks -> 0 .. MaxRedeliveries]
      /\ \A v \in Workers : Len(unacked[v]) <= Prefetch
  BY DEF IInv, PipelineTypeOK
<1>3. /\ IsInjective(unacked[w]) /\ IsInjective(ready)
      /\ Range(unacked[w]) \cap Range(ready) = {}
  BY DEF IInv, OneCopy
<1>4. ready' \in Seq(Tasks) /\ Range(ready') = Range(unacked[w]) \cup Range(ready)
  BY <1>1, <1>2, ConcatProperties, RangeConcatenation
<1>5. IsInjective(ready')
  BY <1>1, <1>2, <1>3, InjectiveConcat
<1>6. /\ unacked'[w] = <<>> /\ Range(unacked'[w]) = {}
      /\ \A v \in Workers : v # w => unacked'[v] = unacked[v]
  BY <1>1, <1>2, RangeEmpty
<1>7. unacked' \in [Workers -> Seq(Tasks)]
  BY <1>1, <1>2, EmptySeq
<1>8. \A v \in Workers : Len(unacked'[v]) <= Prefetch
  BY <1>2, <1>6, EmptySeq, PrefetchAssumption
<1>9. \A t \in Tasks :
         redelivered'[t] =
            IF t \in Range(unacked[w]) THEN redelivered[t] + 1 ELSE redelivered[t]
  BY <1>1, <1>2
<1>10. redelivered' \in [Tasks -> 0 .. MaxRedeliveries]
  BY <1>1, <1>2, MaxRedeliveriesAssumption
<1> QED
  BY <1>4, <1>5, <1>6, <1>7, <1>8, <1>9, <1>10

(* What a requeue does to the parts of the invariant about the queues. *)
LEMMA RequeueInv ==
    ASSUME IInv, NEW w \in Workers, Requeue(w),
           UNCHANGED <<form, events, completed>>,
           \A v \in Workers : v # w =>
              /\ channel'[v] = channel[v] /\ step'[v] = step[v]
              /\ current'[v] = current[v]
    PROVE  OneCopy' /\ SentBefore' /\ NoRequestLost' /\ AnswersCounted'
<1>1. /\ Range(ready') = Range(unacked[w]) \cup Range(ready)
      /\ IsInjective(ready')
      /\ unacked'[w] = <<>> /\ Range(unacked'[w]) = {}
      /\ \A v \in Workers : v # w => unacked'[v] = unacked[v]
      /\ \A t \in Tasks :
            redelivered'[t] =
               IF t \in Range(unacked[w]) THEN redelivered[t] + 1 ELSE redelivered[t]
  BY RequeueQueues
<1>2. OneCopy'
  <2>1. IsInjective(<<>>)
    BY RangeEmpty
  <2> QED
    BY <1>1, <2>1, ZenonT(30) DEF IInv, OneCopy
<1>3. SentBefore' /\ NoRequestLost'
  BY <1>1 DEF IInv, SentBefore, NoRequestLost, Held
<1>4. AnswersCounted'
  <2> SUFFICES ASSUME NEW t \in Tasks
               PROVE  /\ events[t] <= 1 + redelivered'[t]
                      /\ t \in Range(ready') => events[t] <= redelivered'[t]
                      /\ \A v \in Workers :
                            t \in Range(unacked'[v]) /\ ~Replied(v, t)' =>
                                events[t] <= redelivered'[t]
    BY DEF AnswersCounted
  <2>1. redelivered[t] \in Nat /\ events[t] \in Nat /\ events[t] <= 1 + redelivered[t]
    BY MaxRedeliveriesAssumption DEF IInv, PipelineTypeOK, AnswersCounted
  <2>2. CASE t \in Range(unacked[w])
    BY <1>1, <2>1, <2>2
  <2>3. CASE t \notin Range(unacked[w])
    <3>1. ASSUME NEW v \in Workers, t \in Range(unacked'[v]), ~Replied(v, t)'
          PROVE  events[t] <= redelivered'[t]
      <4>1. v # w /\ t \in Range(unacked[v]) /\ ~Replied(v, t)
        BY <1>1, <3>1 DEF Replied
      <4> QED
        BY <1>1, <2>3, <4>1 DEF IInv, AnswersCounted
    <3> QED
      BY <1>1, <2>1, <2>3, <3>1 DEF IInv, AnswersCounted
  <2> QED
    BY <2>2, <2>3
<1> QED
  BY <1>2, <1>3, <1>4

LEMMA CrashInv ==
    ASSUME IInv, NEW w \in Workers, Crash(w)
    PROVE  IInv'
<1>1. /\ channel' = [channel EXCEPT ![w] = "down"]
      /\ Requeue(w) /\ Done(w)
      /\ UNCHANGED <<form, events, completed, stored, data, unstored>>
  BY DEF Crash, redis
<1>2. /\ channel' \in [Workers -> {"up", "closed", "down"}]
      /\ channel'[w] = "down"
      /\ \A v \in Workers : v # w => channel'[v] = channel[v]
  BY <1>1 DEF IInv, PipelineTypeOK
<1>3. /\ current' \in [Workers -> Tasks \cup {None}]
      /\ step' \in [Workers -> {"idle", "store_result", "store_data", "reply", "ack"}]
      /\ status' \in [Workers -> {Unset, "completed", "failed"}]
      /\ step'[w] = "idle" /\ current'[w] = None /\ status'[w] = Unset
      /\ \A v \in Workers : v # w =>
            /\ current'[v] = current[v] /\ step'[v] = step[v]
            /\ status'[v] = status[v]
      /\ WritesKept'
  BY <1>1, DoneWork DEF redis
<1>4. OneCopy' /\ SentBefore' /\ NoRequestLost' /\ AnswersCounted'
  BY <1>1, <1>2, <1>3, RequeueInv
<1>5. PipelineTypeOK'
  BY <1>1, <1>2, <1>3, RequeueQueues DEF IInv, PipelineTypeOK
<1>6. WorksOnHead'
  BY <1>1, <1>2, <1>3, RequeueQueues, StillOnHead
<1>7. AnsweredBeforeAck' /\ CompletedIsStored'
  BY <1>1, <1>3 DEF IInv, AnsweredBeforeAck, CompletedIsStored, TaskID
<1> QED
  BY <1>3, <1>4, <1>5, <1>6, <1>7 DEF IInv

LEMMA CloseChannelInv ==
    ASSUME IInv, NEW w \in Workers, CloseChannel(w)
    PROVE  IInv'
<1>1. /\ channel' = [channel EXCEPT ![w] = "closed"]
      /\ Requeue(w)
      /\ UNCHANGED <<form, events, completed, current, step, status, stored, data,
                     unstored>>
  BY DEF CloseChannel, work, redis
<1>2. /\ channel' \in [Workers -> {"up", "closed", "down"}]
      /\ channel'[w] = "closed"
      /\ \A v \in Workers : v # w => channel'[v] = channel[v]
  BY <1>1 DEF IInv, PipelineTypeOK
<1>3. OneCopy' /\ SentBefore' /\ NoRequestLost' /\ AnswersCounted'
  BY <1>1, <1>2, RequeueInv
<1>4. PipelineTypeOK'
  BY <1>1, <1>2, RequeueQueues DEF IInv, PipelineTypeOK
<1>5. WorksOnHead'
  BY <1>1, <1>2, RequeueQueues, SMTT(30) DEF IInv, WorksOnHead
<1>6. AnsweredBeforeAck' /\ CompletedIsStored' /\ WritesKept'
  BY <1>1 DEF IInv, AnsweredBeforeAck, CompletedIsStored, WritesKept, HasResult, TaskID
<1> QED
  BY <1>3, <1>4, <1>5, <1>6 DEF IInv

(* A process ends, or comes up again, with nothing in hand. *)
LEMMA ProcessInv ==
    ASSUME IInv, NEW w \in Workers, Terminate(w) \/ Restart(w)
    PROVE  IInv'
<1>1. /\ \E c \in {"up", "down"} : channel' = [channel EXCEPT ![w] = c]
      /\ channel[w] # "up" /\ step[w] = "idle"
      /\ UNCHANGED <<unacked, current, step, status, form, ready, events, completed,
                     redelivered, stored, data, unstored>>
  BY DEF Terminate, Restart, work, queues, redis, IInv, WorksOnHead
<1>2. PipelineTypeOK'
  BY <1>1 DEF IInv, PipelineTypeOK
<1>3. OneCopy' /\ SentBefore' /\ NoRequestLost'
  BY <1>1 DEF IInv, PipelineTypeOK, OneCopy, SentBefore, NoRequestLost, Held
<1>4. WorksOnHead'
  BY <1>1 DEF IInv, PipelineTypeOK, WorksOnHead
<1>5. AnsweredBeforeAck' /\ CompletedIsStored' /\ WritesKept' /\ AnswersCounted'
  BY <1>1 DEF IInv, AnsweredBeforeAck, CompletedIsStored, WritesKept, HasResult,
              TaskID, AnswersCounted, Replied
<1> QED
  BY <1>2, <1>3, <1>4, <1>5 DEF IInv

LEMMA NextInv == IInv /\ [PipelineNext]_pipelineVars => IInv'
<1> SUFFICES ASSUME IInv, [PipelineNext]_pipelineVars PROVE IInv'
  OBVIOUS
<1>1. CASE UNCHANGED pipelineVars
  <2> USE <1>1 DEF pipelineVars, IInv
  <2>1. PipelineTypeOK' /\ OneCopy' /\ SentBefore' /\ NoRequestLost'
    BY DEF PipelineTypeOK, OneCopy, SentBefore, NoRequestLost, Held
  <2>2. WorksOnHead' /\ AnsweredBeforeAck' /\ AnswersCounted'
    BY DEF WorksOnHead, AnsweredBeforeAck, AnswersCounted, Replied
  <2>3. WritesKept' /\ CompletedIsStored'
    BY DEF WritesKept, CompletedIsStored, HasResult, TaskID
  <2> QED
    BY <2>1, <2>2, <2>3
<1>2. CASE PipelineNext
  BY <1>2, PublishInv, DeliverInv, UnmarshalInv, EncodeFailsInv, StoreResultInv,
     StoreDataInv, PublishResultInv, PublishFailsInv, AckInv, RejectInv, CrashInv,
     CloseChannelInv, ProcessInv DEF PipelineNext
<1> QED
  BY <1>1, <1>2

(* The inductive invariant holds. *)
THEOREM Invariance == PipelineSpec => []IInv
  BY InitInv, NextInv, PTL DEF PipelineSpec

(* The state of the pipeline stays within its types, however many tasks,
   workers and redeliveries there are. *)
THEOREM TypesHold == PipelineSpec => []PipelineTypeOK
<1>1. IInv => PipelineTypeOK
  BY DEF IInv
<1> QED
  BY <1>1, Invariance, PTL

(* No crash, lost channel or failed write loses a request that can be parsed
   before it is answered. *)
THEOREM LosesNoRequest == PipelineSpec => []NoRequestLost
<1>1. IInv => NoRequestLost
  BY DEF IInv
<1> QED
  BY <1>1, Invariance, PTL

(* A request is answered once, and once more at most for each time that the
   broker took it back. *)
THEOREM AnswersOncePerDelivery == PipelineSpec => []DuplicatesAreRedeliveries
<1>1. IInv => DuplicatesAreRedeliveries
  BY DEF IInv, AnswersCounted, DuplicatesAreRedeliveries
<1> QED
  BY <1>1, Invariance, PTL

(* There is one copy of each request, and one worker that can reply to it. *)
THEOREM RepliesOneAtATime == PipelineSpec => []OneAtATime
<1>1. IInv => OneAtATime
  <2> SUFFICES ASSUME IInv PROVE OneAtATime
    OBVIOUS
  <2>1. ASSUME NEW v \in Workers, NEW w \in Workers,
               current[v] # None, current[v] = current[w],
               channel[v] = "up", channel[w] = "up", v # w
        PROVE  FALSE
    <3>1. /\ step[v] # "idle" /\ step[w] # "idle"
      BY <2>1 DEF IInv, WorksOnHead
    <3>2. /\ unacked[v] # <<>> /\ Head(unacked[v]) = current[v]
          /\ unacked[w] # <<>> /\ Head(unacked[w]) = current[v]
          /\ unacked[v] \in Seq(Tasks) /\ unacked[w] \in Seq(Tasks)
      BY <2>1, <3>1 DEF IInv, WorksOnHead, PipelineTypeOK
    <3>3. current[v] \in Range(unacked[v]) /\ current[v] \in Range(unacked[w])
      BY <3>2, HeadAndTail
    <3> QED
      BY <2>1, <3>3 DEF IInv, OneCopy
  <2>2. OneReplier
    BY <2>1 DEF OneReplier
  <2> QED
    BY <2>2 DEF IInv, OneAtATime
<1> QED
  BY <1>1, Invariance, PTL

(* Who is told "completed" finds both keys, unless a write failed. *)
THEOREM StoresWhatIsCompleted == PipelineSpec => []CompletedIsStored
<1>1. IInv => CompletedIsStored
  BY DEF IInv
<1> QED
  BY <1>1, Invariance, PTL

-----------------------------------------------------------------------------
(***************************************************************************)
(* What the worker computes, for images of any size and any colours.       *)
(***************************************************************************)
Levels == 0 .. 255
Pixels == [Channels -> Levels]

(* There is no image before it is downloaded. *)
ImageInv ==
    /\ stage \in {"requested", "decoded", "resized"}
    /\ stage = "requested" => size = NoSize /\ img = << >>
    /\ stage # "requested" => size \in Sizes /\ img \in [Points(size) -> Pixels]

LEMMA SizeNumbers ==
    ASSUME NEW s \in Sizes
    PROVE  /\ s[1] \in Nat \ {0} /\ s[2] \in Nat \ {0}
           /\ s = <<s[1], s[2]>>
  BY ImagesAssumption

LEMMA PointParts ==
    ASSUME NEW s \in Sizes, NEW p
    PROVE  p \in Points(s) <=> /\ p = <<p[1], p[2]>>
                               /\ p[1] \in 0 .. s[1] - 1 /\ p[2] \in 0 .. s[2] - 1
  BY DEF Points

LEMMA PixelParts ==
    ASSUME NEW f \in Pixels
    PROVE  /\ DOMAIN f = Channels
           /\ \A c \in Channels : f[c] \in Nat /\ f[c] <= 255
           /\ f[1] \in Nat /\ f[1] <= 255 /\ f[2] \in Nat /\ f[2] <= 255
           /\ f[3] \in Nat /\ f[3] <= 255
<1>1. 1 \in Channels /\ 2 \in Channels /\ 3 \in Channels
  BY DEF Channels
<1>2. \A c \in Channels : f[c] \in Nat /\ f[c] <= 255
  BY DEF Pixels, Levels
<1> QED
  BY <1>1, <1>2 DEF Pixels

(* Eight bits hold any number, and change none below 256. *)
LEMMA ByteLevel ==
    ASSUME NEW n \in Int
    PROVE  Byte(n) \in Levels /\ (n \in Levels => Byte(n) = n)
  BY DEF Byte, Levels

LEMMA ClampLevel ==
    ASSUME NEW n \in Int
    PROVE  clampUint8(n) \in Levels /\ (n \in Levels => clampUint8(n) = n)
  BY DEF clampUint8, Byte, Levels

LEMMA ClampRises ==
    ASSUME NEW m \in Int, NEW n \in Int, m <= n
    PROVE  clampUint8(m) <= clampUint8(n)
  BY DEF clampUint8, Byte

LEMMA WeightedNatural ==
    ASSUME NEW f \in Pixels, NEW a \in Nat, NEW b \in Nat, NEW c \in Nat
    PROVE  Weighted(<<a, b, c>>, f) \in Nat
<1>1. f[1] \in Nat /\ f[2] \in Nat /\ f[3] \in Nat
  BY PixelParts
<1>2. Weighted(<<a, b, c>>, f) = a * (f[1] * 257) + b * (f[2] * 257) + c * (f[3] * 257)
  BY DEF Weighted, Wide
<1> QED
  BY <1>1, <1>2

(* Of the same colour in all channels a weighted sum is a multiple. *)
LEMMA WeightedGrey ==
    ASSUME NEW f \in Pixels, NEW v \in Nat, \A c \in Channels : f[c] = v,
           NEW a \in Nat, NEW b \in Nat, NEW c \in Nat
    PROVE  Weighted(<<a, b, c>>, f) = (a + b + c) * (257 * v)
<1>1. f[1] = v /\ f[2] = v /\ f[3] = v
  BY DEF Channels
<1>2. Weighted(<<a, b, c>>, f) = a * (v * 257) + b * (v * 257) + c * (v * 257)
  BY <1>1 DEF Weighted, Wide
<1> QED
  BY <1>2

-----------------------------------------------------------------------------
(* Each filter makes pixels of pixels. *)
LEMMA GrayscaleTyped == ASSUME NEW f \in Pixels PROVE applyGrayscale(f) \in Pixels
<1>1. PICK n : n = Weighted(<<299, 587, 114>>, f)
  OBVIOUS
<1>2. n \in Nat
  BY <1>1, WeightedNatural
<1>3. Byte(n \div (1000 * 256)) \in Levels
  BY <1>2, ByteLevel
<1> QED
  BY <1>1, <1>3 DEF applyGrayscale, Pixels

LEMMA GrayscaleKeepsGrey ==
    ASSUME NEW f \in Pixels, NEW v \in Levels, \A c \in Channels : f[c] = v
    PROVE  applyGrayscale(f) = f
<1>1. PICK n : n = Weighted(<<299, 587, 114>>, f)
  OBVIOUS
<1>2. n = (299 + 587 + 114) * (257 * v) /\ v \in Nat /\ v <= 255
  <2>1. v \in Nat /\ v <= 255
    BY DEF Levels
  <2>2. n = (299 + 587 + 114) * (257 * v)
    BY <1>1, <2>1, WeightedGrey
  <2> QED
    BY <2>1, <2>2
<1>3. n \div (1000 * 256) = v
  BY <1>2
<1>4. Byte(n \div (1000 * 256)) = v
  BY <1>3, ByteLevel DEF Levels
<1> QED
  BY <1>1, <1>4 DEF applyGrayscale, Pixels

LEMMA SepiaSum ==
    ASSUME NEW f \in Pixels, NEW c \in Channels
    PROVE  Weighted(SepiaWeights[c], f) \in Nat
<1>1. c = 1 \/ c = 2 \/ c = 3
  BY DEF Channels
<1>2. CASE c = 1
  BY <1>2, WeightedNatural DEF SepiaWeights
<1>3. CASE c = 2
  BY <1>3, WeightedNatural DEF SepiaWeights
<1>4. CASE c = 3
  BY <1>4, WeightedNatural DEF SepiaWeights
<1> QED
  BY <1>1, <1>2, <1>3, <1>4

LEMMA SepiaTyped == ASSUME NEW f \in Pixels PROVE applySepia(f) \in Pixels
<1>1. ASSUME NEW c \in Channels
      PROVE  Byte(Smaller(255, Weighted(SepiaWeights[c], f) \div (1000 * 256))) \in Levels
  <2>1. PICK n : n = Weighted(SepiaWeights[c], f) /\ n \in Nat
    BY SepiaSum
  <2>2. Smaller(255, n \div (1000 * 256)) \in Int
    BY <2>1 DEF Smaller
  <2> QED
    BY <2>1, <2>2, ByteLevel
<1> QED
  BY <1>1 DEF applySepia, Pixels

(* The weights of a row of sepia: the darker of two greys stays the darker. *)
LEMMA SepiaRises ==
    ASSUME NEW f \in Pixels, NEW g \in Pixels, NEW u \in Levels, NEW v \in Levels, u <= v,
           \A c \in Channels : f[c] = u /\ g[c] = v, NEW c \in Channels
    PROVE  applySepia(f)[c] <= applySepia(g)[c]
<1>1. ASSUME NEW k \in Nat, NEW l \in Nat, NEW m \in Nat,
             SepiaWeights[c] = <<k, l, m>>
      PROVE  applySepia(f)[c] <= applySepia(g)[c]
  <2>1. PICK s, t : /\ s = Weighted(SepiaWeights[c], f) /\ t = Weighted(SepiaWeights[c], g)
    OBVIOUS
  <2>2. u \in Nat /\ v \in Nat
    BY DEF Levels
  <2>3. (\A d \in Channels : f[d] = u) /\ (\A d \in Channels : g[d] = v)
    OBVIOUS
  <2>4. s = (k + l + m) * (257 * u) /\ t = (k + l + m) * (257 * v)
    <3>1. Weighted(<<k, l, m>>, f) = (k + l + m) * (257 * u)
      BY <2>2, <2>3, WeightedGrey
    <3>2. Weighted(<<k, l, m>>, g) = (k + l + m) * (257 * v)
      BY <2>2, <2>3, WeightedGrey
    <3>3. s = Weighted(<<k, l, m>>, f) /\ t = Weighted(<<k, l, m>>, g)
      BY <1>1, <2>1
    <3> QED
      BY <3>1, <3>2, <3>3
  <2>5. s \in Nat /\ t \in Nat /\ s <= t
    BY <2>4, <2>2
  <2>6. s \div (1000 * 256) \in Nat /\ s \div (1000 * 256) <= t \div (1000 * 256)
    BY <2>5
  <2>7. PICK x, y : x = s \div (1000 * 256) /\ y = t \div (1000 * 256)
    OBVIOUS
  <2>8. /\ Smaller(255, x) \in Levels /\ Smaller(255, y) \in Levels
        /\ Smaller(255, x) <= Smaller(255, y)
    BY <2>5, <2>6, <2>7 DEF Smaller, Levels
  <2>9. Byte(Smaller(255, x)) <= Byte(Smaller(255, y))
    BY <2>8, ByteLevel DEF Levels
  <2> QED
    BY <2>1, <2>7, <2>9 DEF applySepia
<1>2. c = 1 \/ c = 2 \/ c = 3
  BY DEF Channels
<1>3. \E k, l, m \in Nat : SepiaWeights[c] = <<k, l, m>>
  <2>1. CASE c = 1
    BY <2>1 DEF SepiaWeights
  <2>2. CASE c = 2
    BY <2>2 DEF SepiaWeights
  <2>3. CASE c = 3
    BY <2>3 DEF SepiaWeights
  <2> QED
    BY <1>2, <2>1, <2>2, <2>3
<1> QED
  BY <1>1, <1>3

LEMMA ContrastTyped == ASSUME NEW f \in Pixels PROVE applyContrast(f) \in Pixels
<1>1. ASSUME NEW c \in Channels
      PROVE  clampUint8((13 * (f[c] - 128) + 1280) \div 10) \in Levels
  <2>1. (13 * (f[c] - 128) + 1280) \div 10 \in Int
    BY PixelParts
  <2> QED
    BY <2>1, ClampLevel
<1> QED
  BY <1>1 DEF applyContrast, Pixels

LEMMA ContrastRises ==
    ASSUME NEW f \in Pixels, NEW g \in Pixels, NEW c \in Channels, f[c] <= g[c]
    PROVE  applyContrast(f)[c] <= applyContrast(g)[c]
<1>1. PICK u, v : u = f[c] /\ v = g[c]
  OBVIOUS
<1>2. u \in Nat /\ v \in Nat /\ u <= v
  BY <1>1, PixelParts
<1>3. PICK x, y : x = (13 * (u - 128) + 1280) \div 10 /\ y = (13 * (v - 128) + 1280) \div 10
  OBVIOUS
<1>4. x \in Int /\ y \in Int /\ x <= y
  BY <1>2, <1>3
<1> QED
  BY <1>1, <1>3, <1>4, ClampRises DEF applyContrast

-----------------------------------------------------------------------------
(* The box around a point, in columns or in rows. *)
Planes == [Points(size) -> Levels]
Ones == [q \in Points(size) |-> 1]
Column(f, x, y) ==
    Inside(f, <<x, y - 1>>) + Inside(f, <<x, y>>) + Inside(f, <<x, y + 1>>)
Row(f, x, y) ==
    Inside(f, <<x - 1, y>>) + Inside(f, <<x, y>>) + Inside(f, <<x + 1, y>>)

LEMMA OnesPlane == Ones \in Planes
  BY DEF Ones, Planes, Levels

LEMMA InsideParts ==
    ASSUME size \in Sizes, NEW f \in Planes, NEW x \in Int, NEW y \in Int
    PROVE  /\ Inside(f, <<x, y>>) \in Nat
           /\ x \notin 0 .. size[1] - 1 \/ y \notin 0 .. size[2] - 1 =>
                 Inside(f, <<x, y>>) = 0
           /\ x \in 0 .. size[1] - 1 /\ y \in 0 .. size[2] - 1 =>
                 /\ <<x, y>> \in Points(size)
                 /\ Inside(f, <<x, y>>) = f[<<x, y>>]
           /\ Inside(f, <<x, y>>) <= 255 * Inside(Ones, <<x, y>>)
           /\ Inside(Ones, <<x, y>>) \in 0 .. 1
<1>1. <<x, y>> \in Points(size) <=> x \in 0 .. size[1] - 1 /\ y \in 0 .. size[2] - 1
  BY DEF Points
<1>2. CASE <<x, y>> \in Points(size)
  <2>1. Inside(f, <<x, y>>) = f[<<x, y>>] /\ Inside(Ones, <<x, y>>) = 1
    BY <1>2 DEF Inside, Ones
  <2>2. f[<<x, y>>] \in Levels
    BY <1>2 DEF Planes
  <2> QED
    BY <1>1, <1>2, <2>1, <2>2 DEF Levels
<1>3. CASE <<x, y>> \notin Points(size)
  BY <1>1, <1>3 DEF Inside
<1> QED
  BY <1>2, <1>3

LEMMA BoxColumns ==
    ASSUME size \in Sizes, NEW f \in Planes, NEW x \in Int, NEW y \in Int
    PROVE  /\ BoxSum(f, <<x, y>>) =
                 Column(f, x - 1, y) + Column(f, x, y) + Column(f, x + 1, y)
           /\ BoxSum(f, <<x, y>>) = Row(f, x, y - 1) + Row(f, x, y) + Row(f, x, y + 1)
           /\ \A i \in {x - 1, x, x + 1} : Column(f, i, y) \in Nat
           /\ \A j \in {y - 1, y, y + 1} : Row(f, x, j) \in Nat
<1>1. \A i \in {x - 1, x, x + 1}, j \in {y - 1, y, y + 1} : Inside(f, <<i, j>>) \in Nat
  <2> SUFFICES ASSUME NEW i \in {x - 1, x, x + 1}, NEW j \in {y - 1, y, y + 1}
               PROVE  Inside(f, <<i, j>>) \in Nat
    OBVIOUS
  <2>1. i \in Int /\ j \in Int
    OBVIOUS
  <2> QED
    BY <2>1, InsideParts
<1>2. /\ BoxRow(f, <<x, y>>, -1) = Row(f, x, y - 1)
      /\ BoxRow(f, <<x, y>>, 0) = Row(f, x, y)
      /\ BoxRow(f, <<x, y>>, 1) = Row(f, x, y + 1)
  <2>1. y + -1 = y - 1 /\ y + 0 = y
    OBVIOUS
  <2> QED
    BY <2>1 DEF BoxRow, Row
<1>3. BoxSum(f, <<x, y>>) = Row(f, x, y - 1) + Row(f, x, y) + Row(f, x, y + 1)
  BY <1>2 DEF BoxSum
<1>4. Row(f, x, y - 1) + Row(f, x, y) + Row(f, x, y + 1)
         = Column(f, x - 1, y) + Column(f, x, y) + Column(f, x + 1, y)
  BY <1>1 DEF Row, Column
<1> QED
  BY <1>1, <1>3, <1>4 DEF Row, Column

LEMMA Columns ==
    ASSUME size \in Sizes, NEW f \in Planes, NEW x \in Int, NEW y \in Int
    PROVE  /\ Column(f, x, y) \in Nat /\ Row(f, x, y) \in Nat
           /\ Column(Ones, x, y) \in 0 .. 3 /\ Row(Ones, x, y) \in 0 .. 3
           /\ Column(f, x, y) <= 255 * Column(Ones, x, y)
           /\ x \notin 0 .. size[1] - 1 => Column(f, x, y) = 0
           /\ y \notin 0 .. size[2] - 1 => Row(f, x, y) = 0
           /\ <<x, y>> \in Points(size) =>
                 Column(Ones, x, y) >= 1 /\ Row(Ones, x, y) >= 1
<1>1. ASSUME NEW i \in {x - 1, x, x + 1}, NEW j \in {y - 1, y, y + 1}
      PROVE  /\ Inside(f, <<i, j>>) \in Nat
             /\ Inside(f, <<i, j>>) <= 255 * Inside(Ones, <<i, j>>)
             /\ Inside(Ones, <<i, j>>) \in 0 .. 1
             /\ i \notin 0 .. size[1] - 1 \/ j \notin 0 .. size[2] - 1 =>
                   Inside(f, <<i, j>>) = 0
  <2>1. i \in Int /\ j \in Int
    OBVIOUS
  <2> QED
    BY <2>1, InsideParts
<1>2. <<x, y>> \in Points(size) => Inside(Ones, <<x, y>>) = 1
  BY DEF Inside, Ones
<1>3. /\ Column(f, x, y) \in Nat /\ Column(Ones, x, y) \in 0 .. 3
      /\ Column(f, x, y) <= 255 * Column(Ones, x, y)
      /\ <<x, y>> \in Points(size) => Column(Ones, x, y) >= 1
  BY <1>1, <1>2 DEF Column
<1>4. /\ Row(f, x, y) \in Nat /\ Row(Ones, x, y) \in 0 .. 3
      /\ <<x, y>> \in Points(size) => Row(Ones, x, y) >= 1
  BY <1>1, <1>2 DEF Row
<1>5. x \notin 0 .. size[1] - 1 => Column(f, x, y) = 0
  BY <1>1 DEF Column
<1>6. y \notin 0 .. size[2] - 1 => Row(f, x, y) = 0
  BY <1>1 DEF Row
<1> QED
  BY <1>3, <1>4, <1>5, <1>6

LEMMA ColumnBounds ==
    ASSUME size \in Sizes, NEW f \in Planes, NEW y \in Int
    PROVE  \A i \in Int : /\ Column(f, i, y) \in Nat
                          /\ Column(Ones, i, y) \in 0 .. 3
                          /\ Column(f, i, y) <= 255 * Column(Ones, i, y)
<1> SUFFICES ASSUME NEW i \in Int
             PROVE  /\ Column(f, i, y) \in Nat
                    /\ Column(Ones, i, y) \in 0 .. 3
                    /\ Column(f, i, y) <= 255 * Column(Ones, i, y)
  OBVIOUS
<1>1. Column(f, i, y) \in Nat
  BY Columns
<1>2. Column(Ones, i, y) \in 0 .. 3
  BY Columns
<1>3. Column(f, i, y) <= 255 * Column(Ones, i, y)
  BY Columns
<1> QED
  BY <1>1, <1>2, <1>3

(* Of the points of a box none is brighter than 255, and one is inside. *)
LEMMA BoxBounds ==
    ASSUME size \in Sizes, NEW f \in Planes, NEW p \in Points(size)
    PROVE  /\ BoxSum(f, p) \in Nat /\ CountInside(p) \in 1 .. 9
           /\ CountInside(p) = BoxSum(Ones, p)
           /\ BoxSum(f, p) <= 255 * CountInside(p)
<1>1. PICK x \in Int, y \in Int : p = <<x, y>>
  BY PointParts
<1>2. CountInside(p) = BoxSum(Ones, p)
  BY DEF CountInside, Ones
<1>3. ASSUME NEW i \in {x - 1, x, x + 1}
      PROVE  /\ Column(f, i, y) \in Nat
             /\ Column(Ones, i, y) \in 0 .. 3
             /\ Column(f, i, y) <= 255 * Column(Ones, i, y)
  <2>1. i \in Int
    BY <1>1
  <2> QED
    BY <2>1, ColumnBounds, Zenon
<1>4. Column(Ones, x, y) >= 1
  BY <1>1, Columns
<1>5. /\ BoxSum(f, p) = Column(f, x - 1, y) + Column(f, x, y) + Column(f, x + 1, y)
      /\ BoxSum(Ones, p) =
            Column(Ones, x - 1, y) + Column(Ones, x, y) + Column(Ones, x + 1, y)
  BY <1>1, BoxColumns, OnesPlane
<1> QED
  BY <1>2, <1>3, <1>4, <1>5

(* So a mean is a level, and eight bits hold it. *)
LEMMA MeanLevel ==
    ASSUME NEW s \in Nat, NEW n \in 1 .. 9, s <= 255 * n
    PROVE  s \div n \in Levels
<1>1. PICK q : q = s \div n
  OBVIOUS
<1>2. q \in Int /\ n * q <= s /\ s < n * (q + 1)
  BY <1>1
<1>3. q <= 255
  <2> SUFFICES ASSUME q >= 256 PROVE FALSE
    BY <1>2
  <2>1. n * q >= n * 256
    BY <1>2
  <2> QED
    BY <1>2, <2>1
<1>4. q >= 0
  <2> SUFFICES ASSUME q + 1 <= 0 PROVE FALSE
    BY <1>2
  <2>1. n * (q + 1) <= 0
    BY <1>2
  <2> QED
    BY <1>2, <2>1
<1> QED
  BY <1>1, <1>2, <1>3, <1>4 DEF Levels

LEMMA BlurLevel ==
    ASSUME size \in Sizes, NEW f \in Planes, NEW p \in Points(size)
    PROVE  /\ BoxSum(f, p) \div CountInside(p) \in Levels
           /\ Byte(BoxSum(f, p) \div CountInside(p)) = BoxSum(f, p) \div CountInside(p)
<1>1. BoxSum(f, p) \div CountInside(p) \in Levels
  BY BoxBounds, MeanLevel
<1> QED
  BY <1>1, ByteLevel DEF Levels

(* The mean of one level is that level. *)
LEMMA BlurKeepsLevel ==
    ASSUME size \in Sizes, NEW v \in Levels, NEW p \in Points(size),
           NEW f \in Planes, \A q \in Points(size) : f[q] = v
    PROVE  BoxSum(f, p) \div CountInside(p) = v
<1>1. PICK x \in Int, y \in Int : p = <<x, y>>
  BY PointParts
<1>2. ASSUME NEW i \in {x - 1, x, x + 1}, NEW j \in {y - 1, y, y + 1}
      PROVE  /\ Inside(f, <<i, j>>) = v * Inside(Ones, <<i, j>>)
             /\ Inside(Ones, <<i, j>>) \in Nat
  BY InsideParts, OnesPlane DEF Inside, Ones, Levels
<1>3. ASSUME NEW i \in {x - 1, x, x + 1}
      PROVE  /\ Column(f, i, y) = v * Column(Ones, i, y)
             /\ Column(Ones, i, y) \in Nat
  BY <1>2 DEF Column, Levels
<1>4. /\ BoxSum(f, p) = Column(f, x - 1, y) + Column(f, x, y) + Column(f, x + 1, y)
      /\ BoxSum(Ones, p) =
            Column(Ones, x - 1, y) + Column(Ones, x, y) + Column(Ones, x + 1, y)
  BY <1>1, BoxColumns, OnesPlane
<1>5. BoxSum(f, p) = v * BoxSum(Ones, p)
  BY <1>3, <1>4 DEF Levels
<1>6. PICK n \in 1 .. 9 : n = CountInside(p) /\ BoxSum(f, p) = v * n
  BY <1>5, BoxBounds
<1>7. (v * n) \div n = v
  BY SMTT(30) DEF Levels
<1> QED
  BY <1>6, <1>7

-----------------------------------------------------------------------------
(* A window of three over rising numbers, of which the first or the last may
   be outside: the mean rises as the window moves on, rounded down or not. *)
LEMMA MeansCompared ==
    ASSUME NEW s \in Nat, NEW t \in Nat, NEW r \in 1 .. 3,
           NEW k \in 2 .. 3, NEW l \in 2 .. 3, s * l <= t * k
    PROVE  s \div (k * r) <= t \div (l * r)
<1>1. CASE k = 2 /\ l = 2
  BY <1>1
<1>2. CASE k = 2 /\ l = 3
  <2>1. CASE r = 1
    BY <1>2, <2>1
  <2>2. CASE r = 2
    BY <1>2, <2>2
  <2>3. CASE r = 3
    BY <1>2, <2>3
  <2> QED
    BY <2>1, <2>2, <2>3
<1>3. CASE k = 3 /\ l = 2
  <2>1. CASE r = 1
    BY <1>3, <2>1
  <2>2. CASE r = 2
    BY <1>3, <2>2
  <2>3. CASE r = 3
    BY <1>3, <2>3
  <2> QED
    BY <2>1, <2>2, <2>3
<1>4. CASE k = 3 /\ l = 3
  BY <1>4
<1> QED
  BY <1>1, <1>2, <1>3, <1>4

Window(C, x) == C[x - 1] + C[x] + C[x + 1]

LEMMA SumPositive ==
    ASSUME NEW a \in Nat, NEW b \in Nat \ {0}, NEW c \in Nat
    PROVE  a + b + c \in Nat \ {0}
  OBVIOUS

LEMMA WindowRises ==
    ASSUME NEW n \in Nat, NEW r \in 1 .. 3,
           NEW C \in [-1 .. n -> Nat], C[-1] = 0, C[n] = 0,
           \A i, j \in 0 .. n - 1 : i <= j => C[i] <= C[j],
           NEW K \in [-1 .. n -> Nat], K[-1] = 0, K[n] = 0,
           \A i \in 0 .. n - 1 : K[i] = r,
           NEW x \in 0 .. n - 1, NEW y \in 0 .. n - 1, x <= y
    PROVE  Window(C, x) \div Window(K, x) <= Window(C, y) \div Window(K, y)
<1>1. PICK a, b, c : a = C[x - 1] /\ b = C[x] /\ c = C[x + 1]
  OBVIOUS
<1>2. PICK d, e, f : d = C[y - 1] /\ e = C[y] /\ f = C[y + 1]
  OBVIOUS
<1>3. /\ a \in Nat /\ b \in Nat /\ c \in Nat
      /\ d \in Nat /\ e \in Nat /\ f \in Nat
  BY <1>1, <1>2
<1>4. CASE x = y
  <2>1. PICK u \in Nat, v \in Nat \ {0}, w \in Nat :
            u = K[x - 1] /\ v = K[x] /\ w = K[x + 1]
    <3>1. K[x - 1] \in Nat /\ K[x] = r /\ K[x + 1] \in Nat
      OBVIOUS
    <3>2. r \in Nat \ {0}
      OBVIOUS
    <3> QED
      BY <3>1, <3>2, Zenon
  <2>2. Window(K, x) \in Nat \ {0}
    <3>1. Window(K, x) = u + v + w
      BY <2>1 DEF Window
    <3>2. u + v + w \in Nat \ {0}
      BY <2>1, SumPositive, Zenon
    <3> QED
      BY <3>1, <3>2, Zenon
  <2>3. Window(C, x) \in Nat
    <3>1. Window(C, x) = a + b + c
      BY <1>1 DEF Window
    <3> QED
      BY <1>3, <3>1
  <2>4. PICK z \in Int : z = Window(C, x) \div Window(K, x)
    BY <2>2, <2>3
  <2>5. z <= z
    BY <2>4
  <2> QED
    BY <1>4, <2>4, <2>5
<1>5. CASE x < y
  <2>1. b <= c /\ b <= d /\ d <= e /\ c <= e
    <3>1. x + 1 \in 0 .. n - 1 /\ y - 1 \in 0 .. n - 1
      BY <1>5
    <3>2. x <= x + 1 /\ x <= y - 1 /\ y - 1 <= y /\ x + 1 <= y
      BY <1>5
    <3>3. b <= c
      BY <1>1, <3>1, <3>2
    <3>4. b <= d
      BY <1>1, <1>2, <3>1, <3>2
    <3>5. d <= e
      BY <1>2, <3>1, <3>2
    <3>6. c <= e
      BY <1>1, <1>2, <3>1, <3>2
    <3> QED
      BY <3>3, <3>4, <3>5, <3>6
  <2>2. IF x = 0 THEN a = 0 ELSE a <= b
    BY <1>1
  <2>3. IF y = n - 1 THEN f = 0 ELSE e <= f
    <3>1. CASE y = n - 1
      <4>1. y + 1 = n
        BY <3>1
      <4> QED
        BY <1>2, <3>1, <4>1
    <3>2. CASE y # n - 1
      <4>1. y + 1 \in 0 .. n - 1 /\ y <= y + 1
        BY <3>2
      <4> QED
        BY <1>2, <3>2, <4>1
    <3> QED
      BY <3>1, <3>2
  <2>4. PICK k \in 2 .. 3 : (k = 2 <=> x = 0) /\ Window(K, x) = k * r
    <3>1. K[x] = r /\ K[x + 1] = r /\ K[x - 1] = IF x = 0 THEN 0 ELSE r
      BY <1>5
    <3>2. CASE x = 0
      <4>1. Window(K, x) = 2 * r
        BY <3>1, <3>2 DEF Window
      <4> QED
        BY <3>2, <4>1
    <3>3. CASE x # 0
      <4>1. Window(K, x) = 3 * r
        BY <3>1, <3>3 DEF Window
      <4> QED
        BY <3>3, <4>1
    <3> QED
      BY <3>2, <3>3
  <2>5. PICK l \in 2 .. 3 : (l = 2 <=> y = n - 1) /\ Window(K, y) = l * r
    <3>1. K[y] = r /\ K[y - 1] = r /\ K[y + 1] = IF y = n - 1 THEN 0 ELSE r
      <4>1. y - 1 \in 0 .. n - 1
        BY <1>5
      <4>2. y = n - 1 => y + 1 = n
        OBVIOUS
      <4>3. y # n - 1 => y + 1 \in 0 .. n - 1
        OBVIOUS
      <4> QED
        BY <4>1, <4>2, <4>3
    <3>2. CASE y = n - 1
      <4>1. Window(K, y) = 2 * r
        BY <3>1, <3>2 DEF Window
      <4> QED
        BY <3>2, <4>1
    <3>3. CASE y # n - 1
      <4>1. Window(K, y) = 3 * r
        BY <3>1, <3>3 DEF Window
      <4> QED
        BY <3>3, <4>1
    <3> QED
      BY <3>2, <3>3
  <2>6. PICK s \in Nat, t \in Nat : s = a + b + c /\ t = d + e + f
    BY <1>3
  <2>7. s * l <= t * k
    <3>1. CASE k = 2 /\ l = 2
      BY <1>3, <2>1, <2>2, <2>3, <2>4, <2>5, <2>6, <3>1
    <3>2. CASE k = 2 /\ l = 3
      BY <1>3, <2>1, <2>2, <2>3, <2>4, <2>5, <2>6, <3>2
    <3>3. CASE k = 3 /\ l = 2
      BY <1>3, <2>1, <2>2, <2>3, <2>4, <2>5, <2>6, <3>3
    <3>4. CASE k = 3 /\ l = 3
      BY <1>3, <2>1, <2>2, <2>3, <2>4, <2>5, <2>6, <3>4
    <3> QED
      BY <3>1, <3>2, <3>3, <3>4
  <2>8. s \div (k * r) <= t \div (l * r)
    BY <2>7, MeansCompared
  <2>9. Window(C, x) = s /\ Window(C, y) = t
    BY <1>1, <1>2, <2>6 DEF Window
  <2> QED
    BY <2>4, <2>5, <2>8, <2>9
<1> QED
  BY <1>4, <1>5

-----------------------------------------------------------------------------
(* Blurring does not reverse a gradient: the columns of the boxes rise when *)
(* the levels rise along the rows, and the rows when they rise along the    *)
(* columns.                                                                 *)
RisesAlong(f, d) ==
    \A p, q \in Points(size) : p[d] <= q[d] /\ p[3 - d] = q[3 - d] => f[p] <= f[q]

LEMMA ColumnsRise ==
    ASSUME size \in Sizes, NEW f \in Planes, RisesAlong(f, 1), NEW y \in 0 .. size[2] - 1,
           NEW i \in 0 .. size[1] - 1, NEW j \in 0 .. size[1] - 1, i <= j
    PROVE  /\ Column(f, i, y) <= Column(f, j, y)
           /\ Column(Ones, i, y) = Column(Ones, j, y)
<1>1. ASSUME NEW z \in {y - 1, y, y + 1}
      PROVE  /\ Inside(f, <<i, z>>) <= Inside(f, <<j, z>>)
             /\ Inside(Ones, <<i, z>>) = Inside(Ones, <<j, z>>)
             /\ Inside(f, <<i, z>>) \in Nat /\ Inside(f, <<j, z>>) \in Nat
             /\ Inside(Ones, <<i, z>>) \in Nat
  <2>1. z \in Int /\ i \in Int /\ j \in Int
    OBVIOUS
  <2>2. CASE z \in 0 .. size[2] - 1
    <3>1. /\ <<i, z>> \in Points(size) /\ <<j, z>> \in Points(size)
          /\ Inside(f, <<i, z>>) = f[<<i, z>>] /\ Inside(f, <<j, z>>) = f[<<j, z>>]
      BY <2>1, <2>2, InsideParts
    <3>2. f[<<i, z>>] <= f[<<j, z>>]
      <4>1. <<i, z>>[1] <= <<j, z>>[1] /\ <<i, z>>[3 - 1] = <<j, z>>[3 - 1]
        OBVIOUS
      <4> QED
        BY <3>1, <4>1 DEF RisesAlong
    <3>3. Inside(Ones, <<i, z>>) = 1 /\ Inside(Ones, <<j, z>>) = 1
      BY <3>1 DEF Inside, Ones
    <3>4. Inside(f, <<i, z>>) \in Nat /\ Inside(f, <<j, z>>) \in Nat
      BY <2>1, InsideParts
    <3> QED
      BY <3>1, <3>2, <3>3, <3>4
  <2>3. CASE z \notin 0 .. size[2] - 1
    <3>1. Inside(f, <<i, z>>) = 0 /\ Inside(f, <<j, z>>) = 0
      BY <2>1, <2>3, InsideParts
    <3>2. Inside(Ones, <<i, z>>) = 0 /\ Inside(Ones, <<j, z>>) = 0
      BY <2>1, <2>3, InsideParts, OnesPlane
    <3> QED
      BY <3>1, <3>2
  <2> QED
    BY <2>2, <2>3
<1> QED
  BY <1>1 DEF Column

LEMMA RowsRise ==
    ASSUME size \in Sizes, NEW f \in Planes, RisesAlong(f, 2), NEW x \in 0 .. size[1] - 1,
           NEW i \in 0 .. size[2] - 1, NEW j \in 0 .. size[2] - 1, i <= j
    PROVE  /\ Row(f, x, i) <= Row(f, x, j)
           /\ Row(Ones, x, i) = Row(Ones, x, j)
<1>1. ASSUME NEW z \in {x - 1, x, x + 1}
      PROVE  /\ Inside(f, <<z, i>>) <= Inside(f, <<z, j>>)
             /\ Inside(Ones, <<z, i>>) = Inside(Ones, <<z, j>>)
             /\ Inside(f, <<z, i>>) \in Nat /\ Inside(f, <<z, j>>) \in Nat
             /\ Inside(Ones, <<z, i>>) \in Nat
  <2>1. z \in Int /\ i \in Int /\ j \in Int
    OBVIOUS
  <2>2. CASE z \in 0 .. size[1] - 1
    <3>1. /\ <<z, i>> \in Points(size) /\ <<z, j>> \in Points(size)
          /\ Inside(f, <<z, i>>) = f[<<z, i>>] /\ Inside(f, <<z, j>>) = f[<<z, j>>]
      BY <2>1, <2>2, InsideParts
    <3>2. f[<<z, i>>] <= f[<<z, j>>]
      <4>1. <<z, i>>[2] <= <<z, j>>[2] /\ <<z, i>>[3 - 2] = <<z, j>>[3 - 2]
        OBVIOUS
      <4> QED
        BY <3>1, <4>1 DEF RisesAlong
    <3>3. Inside(Ones, <<z, i>>) = 1 /\ Inside(Ones, <<z, j>>) = 1
      BY <3>1 DEF Inside, Ones
    <3>4. Inside(f, <<z, i>>) \in Nat /\ Inside(f, <<z, j>>) \in Nat
      BY <2>1, InsideParts
    <3> QED
      BY <3>1, <3>2, <3>3, <3>4
  <2>3. CASE z \notin 0 .. size[1] - 1
    <3>1. Inside(f, <<z, i>>) = 0 /\ Inside(f, <<z, j>>) = 0
      BY <2>1, <2>3, InsideParts
    <3>2. Inside(Ones, <<z, i>>) = 0 /\ Inside(Ones, <<z, j>>) = 0
      BY <2>1, <2>3, InsideParts, OnesPlane
    <3> QED
      BY <3>1, <3>2
  <2> QED
    BY <2>2, <2>3
<1> QED
  BY <1>1 DEF Row

LEMMA BlurRisesAlongRows ==
    ASSUME size \in Sizes, NEW f \in Planes, RisesAlong(f, 1),
           NEW p \in Points(size), NEW q \in Points(size), p[1] <= q[1], p[2] = q[2]
    PROVE  BoxSum(f, p) \div CountInside(p) <= BoxSum(f, q) \div CountInside(q)
<1>1. PICK n, y, s, t : n = size[1] /\ y = p[2] /\ s = p[1] /\ t = q[1]
  OBVIOUS
<1>2. /\ n \in Nat /\ s \in 0 .. n - 1 /\ t \in 0 .. n - 1 /\ s <= t
      /\ y \in 0 .. size[2] - 1 /\ p = <<s, y>> /\ q = <<t, y>>
  BY <1>1, PointParts, SizeNumbers
<1>3. PICK r \in 1 .. 3 : r = Column(Ones, s, y)
  <2>1. Column(Ones, s, y) \in 0 .. 3 /\ Column(Ones, s, y) >= 1
    BY <1>2, Columns
  <2> QED
    BY <2>1
<1>4. \A i \in 0 .. n - 1 : Column(Ones, i, y) = r
  <2> SUFFICES ASSUME NEW i \in 0 .. n - 1 PROVE Column(Ones, i, y) = r
    OBVIOUS
  <2>1. s <= i \/ i <= s
    BY <1>2
  <2> QED
    BY <1>1, <1>2, <1>3, <2>1, ColumnsRise
<1>5. PICK C, K : /\ C = [i \in -1 .. n |-> Column(f, i, y)]
                  /\ K = [i \in -1 .. n |-> Column(Ones, i, y)]
  OBVIOUS
<1>6. ASSUME NEW g \in Planes, NEW G, G = [i \in -1 .. n |-> Column(g, i, y)]
      PROVE  /\ G \in [-1 .. n -> Nat] /\ G[-1] = 0 /\ G[n] = 0
             /\ \A x \in 0 .. n - 1 : BoxSum(g, <<x, y>>) = Window(G, x)
  <2>1. y \in Int
    BY <1>2
  <2>2. \A i \in -1 .. n : Column(g, i, y) \in Nat
    <3> SUFFICES ASSUME NEW i \in -1 .. n PROVE Column(g, i, y) \in Nat
      OBVIOUS
    <3>1. i \in Int
      BY <1>2
    <3> QED
      BY <2>1, <3>1, Columns
  <2>3. Column(g, -1, y) = 0 /\ Column(g, n, y) = 0
    <3>1. -1 \in Int /\ -1 \notin 0 .. size[1] - 1 /\ n \in Int /\ n \notin 0 .. size[1] - 1
      BY <1>1, <1>2
    <3> QED
      BY <2>1, <3>1, Columns
  <2>4. ASSUME NEW x \in 0 .. n - 1
        PROVE  BoxSum(g, <<x, y>>) = Window(G, x)
    <3>1. BoxSum(g, <<x, y>>) = Column(g, x - 1, y) + Column(g, x, y) + Column(g, x + 1, y)
      <4>1. x \in Int
        BY <1>2
      <4> QED
        BY <2>1, <4>1, BoxColumns
    <3>2. /\ G[x - 1] = Column(g, x - 1, y) /\ G[x] = Column(g, x, y)
          /\ G[x + 1] = Column(g, x + 1, y)
      BY <1>2, <1>6
    <3> QED
      BY <3>1, <3>2 DEF Window
  <2> QED
    BY <1>2, <1>6, <2>2, <2>3, <2>4
<1>7. /\ C \in [-1 .. n -> Nat] /\ C[-1] = 0 /\ C[n] = 0
      /\ \A x \in 0 .. n - 1 : BoxSum(f, <<x, y>>) = Window(C, x)
  BY <1>5, <1>6
<1>8. /\ K \in [-1 .. n -> Nat] /\ K[-1] = 0 /\ K[n] = 0
      /\ \A x \in 0 .. n - 1 : BoxSum(Ones, <<x, y>>) = Window(K, x)
      /\ \A i \in 0 .. n - 1 : K[i] = r
  <2>1. \A i \in 0 .. n - 1 : K[i] = r
    BY <1>2, <1>4, <1>5
  <2> QED
    BY <1>5, <1>6, <2>1, OnesPlane
<1>9. \A i, j \in 0 .. n - 1 : i <= j => C[i] <= C[j]
  <2> SUFFICES ASSUME NEW i \in 0 .. n - 1, NEW j \in 0 .. n - 1, i <= j
               PROVE  C[i] <= C[j]
    OBVIOUS
  <2>1. Column(f, i, y) <= Column(f, j, y)
    BY <1>1, <1>2, ColumnsRise
  <2> QED
    BY <1>2, <1>5, <2>1
<1>10. Window(C, s) \div Window(K, s) <= Window(C, t) \div Window(K, t)
  BY <1>2, <1>7, <1>8, <1>9, WindowRises
<1>11. CountInside(p) = Window(K, s) /\ CountInside(q) = Window(K, t)
  BY <1>2, <1>8, BoxBounds
<1> QED
  BY <1>2, <1>7, <1>10, <1>11

LEMMA BlurRisesAlongColumns ==
    ASSUME size \in Sizes, NEW f \in Planes, RisesAlong(f, 2),
           NEW p \in Points(size), NEW q \in Points(size), p[2] <= q[2], p[1] = q[1]
    PROVE  BoxSum(f, p) \div CountInside(p) <= BoxSum(f, q) \div CountInside(q)
<1>1. PICK n, y, s, t : n = size[2] /\ y = p[1] /\ s = p[2] /\ t = q[2]
  OBVIOUS
<1>2. /\ n \in Nat /\ s \in 0 .. n - 1 /\ t \in 0 .. n - 1 /\ s <= t
      /\ y \in 0 .. size[1] - 1 /\ p = <<y, s>> /\ q = <<y, t>>
  BY <1>1, PointParts, SizeNumbers
<1>3. PICK r \in 1 .. 3 : r = Row(Ones, y, s)
  <2>1. Row(Ones, y, s) \in 0 .. 3 /\ Row(Ones, y, s) >= 1
    BY <1>2, Columns
  <2> QED
    BY <2>1
<1>4. \A i \in 0 .. n - 1 : Row(Ones, y, i) = r
  <2> SUFFICES ASSUME NEW i \in 0 .. n - 1 PROVE Row(Ones, y, i) = r
    OBVIOUS
  <2>1. s <= i \/ i <= s
    BY <1>2
  <2> QED
    BY <1>1, <1>2, <1>3, <2>1, RowsRise
<1>5. PICK C, K : /\ C = [i \in -1 .. n |-> Row(f, y, i)]
                  /\ K = [i \in -1 .. n |-> Row(Ones, y, i)]
  OBVIOUS
<1>6. ASSUME NEW g \in Planes, NEW G, G = [i \in -1 .. n |-> Row(g, y, i)]
      PROVE  /\ G \in [-1 .. n -> Nat] /\ G[-1] = 0 /\ G[n] = 0
             /\ \A x \in 0 .. n - 1 : BoxSum(g, <<y, x>>) = Window(G, x)
  <2>1. y \in Int
    BY <1>2
  <2>2. \A i \in -1 .. n : Row(g, y, i) \in Nat
    <3> SUFFICES ASSUME NEW i \in -1 .. n PROVE Row(g, y, i) \in Nat
      OBVIOUS
    <3>1. i \in Int
      BY <1>2
    <3> QED
      BY <2>1, <3>1, Columns
  <2>3. Row(g, y, -1) = 0 /\ Row(g, y, n) = 0
    <3>1. -1 \in Int /\ -1 \notin 0 .. size[2] - 1 /\ n \in Int /\ n \notin 0 .. size[2] - 1
      BY <1>1, <1>2
    <3> QED
      BY <2>1, <3>1, Columns
  <2>4. ASSUME NEW x \in 0 .. n - 1
        PROVE  BoxSum(g, <<y, x>>) = Window(G, x)
    <3>1. BoxSum(g, <<y, x>>) = Row(g, y, x - 1) + Row(g, y, x) + Row(g, y, x + 1)
      <4>1. x \in Int
        BY <1>2
      <4> QED
        BY <2>1, <4>1, BoxColumns
    <3>2. /\ G[x - 1] = Row(g, y, x - 1) /\ G[x] = Row(g, y, x)
          /\ G[x + 1] = Row(g, y, x + 1)
      BY <1>2, <1>6
    <3> QED
      BY <3>1, <3>2 DEF Window
  <2> QED
    BY <1>2, <1>6, <2>2, <2>3, <2>4
<1>7. /\ C \in [-1 .. n -> Nat] /\ C[-1] = 0 /\ C[n] = 0
      /\ \A x \in 0 .. n - 1 : BoxSum(f, <<y, x>>) = Window(C, x)
  BY <1>5, <1>6
<1>8. /\ K \in [-1 .. n -> Nat] /\ K[-1] = 0 /\ K[n] = 0
      /\ \A x \in 0 .. n - 1 : BoxSum(Ones, <<y, x>>) = Window(K, x)
      /\ \A i \in 0 .. n - 1 : K[i] = r
  <2>1. \A i \in 0 .. n - 1 : K[i] = r
    BY <1>2, <1>4, <1>5
  <2> QED
    BY <1>5, <1>6, <2>1, OnesPlane
<1>9. \A i, j \in 0 .. n - 1 : i <= j => C[i] <= C[j]
  <2> SUFFICES ASSUME NEW i \in 0 .. n - 1, NEW j \in 0 .. n - 1, i <= j
               PROVE  C[i] <= C[j]
    OBVIOUS
  <2>1. Row(f, y, i) <= Row(f, y, j)
    BY <1>1, <1>2, RowsRise
  <2> QED
    BY <1>2, <1>5, <2>1
<1>10. Window(C, s) \div Window(K, s) <= Window(C, t) \div Window(K, t)
  BY <1>2, <1>7, <1>8, <1>9, WindowRises
<1>11. CountInside(p) = Window(K, s) /\ CountInside(q) = Window(K, t)
  BY <1>2, <1>8, BoxBounds
<1> QED
  BY <1>2, <1>7, <1>10, <1>11

-----------------------------------------------------------------------------
(* The filters that look at the points around a point. *)
Picture == size \in Sizes /\ img \in [Points(size) -> Pixels]
Plane(c) == [q \in Points(size) |-> img[q][c]]

LEMMA PlaneParts ==
    ASSUME Picture, NEW c \in Channels
    PROVE  /\ Plane(c) \in Planes
           /\ \A q \in Points(size) : Plane(c)[q] = img[q][c]
<1>1. ASSUME NEW q \in Points(size) PROVE img[q][c] \in Levels
  BY DEF Picture, Pixels
<1> QED
  BY <1>1 DEF Plane, Planes

LEMMA BlurParts ==
    ASSUME Picture, NEW p \in Points(size)
    PROVE  /\ applyBoxBlur(p) \in Pixels
           /\ \A c \in Channels :
                 applyBoxBlur(p)[c] = BoxSum(Plane(c), p) \div CountInside(p)
<1>1. ASSUME NEW c \in Channels
      PROVE  /\ BoxSum(Plane(c), p) \div CountInside(p) \in Levels
             /\ applyBoxBlur(p)[c] = BoxSum(Plane(c), p) \div CountInside(p)
  <2>1. Plane(c) \in Planes /\ size \in Sizes
    BY PlaneParts DEF Picture
  <2>2. /\ BoxSum(Plane(c), p) \div CountInside(p) \in Levels
        /\ Byte(BoxSum(Plane(c), p) \div CountInside(p))
               = BoxSum(Plane(c), p) \div CountInside(p)
    BY <2>1, BlurLevel
  <2>3. applyBoxBlur(p)[c] = Byte(BoxSum(Plane(c), p) \div CountInside(p))
    BY DEF applyBoxBlur, Plane
  <2> QED
    BY <2>2, <2>3
<1>2. applyBoxBlur(p) = [c \in Channels |-> applyBoxBlur(p)[c]]
  BY DEF applyBoxBlur
<1> QED
  BY <1>1, <1>2 DEF Pixels

LEMMA EdgeInside ==
    ASSUME size \in Sizes, NEW x \in Int, NEW y \in Int
    PROVE  Edge(<<x, y>>) \in Points(size)
<1>1. PICK m \in Nat \ {0}, n \in Nat \ {0} : m = size[1] /\ n = size[2]
  BY SizeNumbers
<1>2. /\ Larger(0, Smaller(x, m - 1)) \in 0 .. m - 1
      /\ Larger(0, Smaller(y, n - 1)) \in 0 .. n - 1
  BY <1>1 DEF Larger, Smaller
<1>3. Edge(<<x, y>>) = <<Larger(0, Smaller(x, m - 1)), Larger(0, Smaller(y, n - 1))>>
  BY <1>1 DEF Edge
<1> QED
  BY <1>1, <1>2, <1>3 DEF Points

(* The centre and the four neighbours of a point. *)
LEMMA Neighbours ==
    ASSUME Picture, NEW p \in Points(size)
    PROVE  \E l, r, u, d \in Points(size) :
              applySharpen(p) =
                  [c \in Channels |->
                      clampUint8(5 * img[p][c] - img[l][c] - img[r][c]
                                 - img[u][c] - img[d][c])]
<1>1. PICK x \in Int, y \in Int : p = <<x, y>>
  BY PointParts DEF Picture
<1>2. PICK l, r, u, d : /\ l = Edge(<<p[1] - 1, p[2]>>)
                        /\ r = Edge(<<p[1] + 1, p[2]>>)
                        /\ u = Edge(<<p[1], p[2] - 1>>)
                        /\ d = Edge(<<p[1], p[2] + 1>>)
  OBVIOUS
<1>3. /\ l \in Points(size) /\ r \in Points(size)
      /\ u \in Points(size) /\ d \in Points(size)
  <2>1. /\ l = Edge(<<x - 1, y>>) /\ r = Edge(<<x + 1, y>>)
        /\ u = Edge(<<x, y - 1>>) /\ d = Edge(<<x, y + 1>>)
    BY <1>1, <1>2
  <2> QED
    BY <2>1, EdgeInside DEF Picture
<1>4. applySharpen(p) =
          [c \in Channels |->
              clampUint8(5 * img[p][c] - img[l][c] - img[r][c] - img[u][c] - img[d][c])]
  BY <1>2 DEF applySharpen
<1> QED
  BY <1>3, <1>4

LEMMA SharpenTyped ==
    ASSUME Picture, NEW p \in Points(size)
    PROVE  applySharpen(p) \in Pixels
<1>1. PICK l \in Points(size), r \in Points(size), u \in Points(size), d \in Points(size) :
          applySharpen(p) =
              [c \in Channels |->
                  clampUint8(5 * img[p][c] - img[l][c] - img[r][c]
                             - img[u][c] - img[d][c])]
  BY Neighbours
<1>2. ASSUME NEW c \in Channels
      PROVE  clampUint8(5 * img[p][c] - img[l][c] - img[r][c] - img[u][c] - img[d][c])
                 \in Levels
  <2>1. \A q \in Points(size) : img[q][c] \in Nat
    BY PixelParts DEF Picture
  <2>2. 5 * img[p][c] - img[l][c] - img[r][c] - img[u][c] - img[d][c] \in Int
    BY <2>1
  <2> QED
    BY <2>2, ClampLevel
<1> QED
  BY <1>1, <1>2 DEF Pixels

(* Of an image of one colour, five times it less four times it is left. *)
LEMMA SharpenKeepsColour ==
    ASSUME Picture, NEW v \in Pixels, \A q \in Points(size) : img[q] = v,
           NEW p \in Points(size)
    PROVE  applySharpen(p) = v
<1>1. PICK l \in Points(size), r \in Points(size), u \in Points(size), d \in Points(size) :
          applySharpen(p) =
              [c \in Channels |->
                  clampUint8(5 * img[p][c] - img[l][c] - img[r][c]
                             - img[u][c] - img[d][c])]
  BY Neighbours
<1>2. ASSUME NEW c \in Channels
      PROVE  clampUint8(5 * img[p][c] - img[l][c] - img[r][c] - img[u][c] - img[d][c])
                 = v[c]
  <2>1. v[c] \in Nat /\ v[c] <= 255
    BY PixelParts
  <2>2. 5 * img[p][c] - img[l][c] - img[r][c] - img[u][c] - img[d][c] = v[c]
    BY <2>1
  <2> QED
    BY <2>1, <2>2, ClampLevel DEF Levels
<1>3. v = [c \in Channels |-> v[c]]
  BY DEF Pixels
<1> QED
  BY <1>1, <1>2, <1>3

LEMMA BlurKeepsColour ==
    ASSUME Picture, NEW v \in Pixels, \A q \in Points(size) : img[q] = v,
           NEW p \in Points(size)
    PROVE  applyBoxBlur(p) = v
<1>1. ASSUME NEW c \in Channels PROVE applyBoxBlur(p)[c] = v[c]
  <2>1. /\ Plane(c) \in Planes /\ size \in Sizes /\ v[c] \in Levels
        /\ \A q \in Points(size) : Plane(c)[q] = v[c]
    BY PlaneParts DEF Picture, Pixels
  <2>2. BoxSum(Plane(c), p) \div CountInside(p) = v[c]
    BY <2>1, BlurKeepsLevel
  <2> QED
    BY <2>2, BlurParts
<1>2. applyBoxBlur(p) \in Pixels
  BY BlurParts
<1> QED
  BY <1>1, <1>2 DEF Pixels

LEMMA FilteredValues ==
    ASSUME NEW p \in Points(size)
    PROVE  /\ Filtered("grayscale")[p] = applyGrayscale(img[p])
           /\ Filtered("sepia")[p] = applySepia(img[p])
           /\ Filtered("contrast")[p] = applyContrast(img[p])
           /\ Filtered("blur")[p] = applyBoxBlur(p)
           /\ Filtered("sharpen")[p] = applySharpen(p)
<1>1. \A filter : Filtered(filter)[p] = FilteredAt(filter, p)
  BY DEF Filtered
<1>2. /\ FilteredAt("grayscale", p) = applyGrayscale(img[p])
      /\ FilteredAt("sepia", p) = applySepia(img[p])
      /\ FilteredAt("contrast", p) = applyContrast(img[p])
      /\ FilteredAt("blur", p) = applyBoxBlur(p)
      /\ FilteredAt("sharpen", p) = applySharpen(p)
  BY Zenon DEF FilteredAt
<1> QED
  BY <1>1, <1>2

(* Each filter makes an image of the same size. *)
LEMMA FilteredTyped ==
    ASSUME Picture, NEW filter \in Filters
    PROVE  Filtered(filter) \in [Points(size) -> Pixels]
<1>1. ASSUME NEW p \in Points(size)
      PROVE  Filtered(filter)[p] \in Pixels
  <2> img[p] \in Pixels
    BY DEF Picture
  <2>1. CASE filter = "grayscale"
    BY <2>1, GrayscaleTyped, FilteredValues
  <2>2. CASE filter = "sepia"
    BY <2>2, SepiaTyped, FilteredValues
  <2>3. CASE filter = "contrast"
    BY <2>3, ContrastTyped, FilteredValues
  <2>4. CASE filter = "blur"
    BY <2>4, BlurParts, FilteredValues
  <2>5. CASE filter = "sharpen"
    BY <2>5, SharpenTyped, FilteredValues
  <2> QED
    BY <2>1, <2>2, <2>3, <2>4, <2>5 DEF Filters
<1>2. /\ DOMAIN Filtered(filter) = Points(size)
      /\ Filtered(filter) = [p \in Points(size) |-> Filtered(filter)[p]]
  BY DEF Filtered
<1> QED
  BY <1>1, <1>2

-----------------------------------------------------------------------------
(* One colour, and one level. *)
LEMMA ConstantParts ==
    ASSUME NEW S, S # {}, IsFiniteSet(S), NEW T, NEW f \in [S -> T]
    PROVE  Constant(f) <=> \E v \in T : \A q \in S : f[q] = v
<1>1. IsFiniteSet(Range(f))
  <2>1. f \in Surjection(S, Range(f))
    BY DEF Surjection, Range
  <2> QED
    BY <2>1, FS_Surjection
<1>2. Constant(f) <=> \E v : Range(f) = {v}
  BY <1>1, FS_Singleton DEF Constant
<1>3. ASSUME NEW v, Range(f) = {v} PROVE v \in T /\ \A q \in S : f[q] = v
  BY <1>3 DEF Range
<1>4. ASSUME NEW v \in T, \A q \in S : f[q] = v PROVE Range(f) = {v}
  BY <1>4 DEF Range
<1> QED
  BY <1>2, <1>3, <1>4

LEMMA PointsFinite ==
    ASSUME NEW s \in Sizes
    PROVE  Points(s) # {} /\ IsFiniteSet(Points(s))
<1>1. s[1] \in Nat \ {0} /\ s[2] \in Nat \ {0}
  BY SizeNumbers
<1>2. <<0, 0>> \in Points(s)
  BY <1>1 DEF Points
<1>3. IsFiniteSet(0 .. s[1] - 1) /\ IsFiniteSet(0 .. s[2] - 1)
  <2>1. 0 \in Int /\ s[1] - 1 \in Int /\ s[2] - 1 \in Int
    BY <1>1
  <2> QED
    BY <2>1, FS_Interval
<1>4. IsFiniteSet(Points(s))
  BY <1>3, FS_Product DEF Points
<1> QED
  BY <1>2, <1>4

LEMMA ConstantImage ==
    ASSUME NEW s \in Sizes, NEW f \in [Points(s) -> Pixels]
    PROVE  Constant(f) <=> \E v \in Pixels : \A q \in Points(s) : f[q] = v
  BY PointsFinite, ConstantParts

LEMMA ConstantPixel ==
    ASSUME NEW f \in Pixels
    PROVE  Constant(f) <=> \E v \in Levels : \A c \in Channels : f[c] = v
<1>1. Channels # {} /\ IsFiniteSet(Channels)
  <2>1. PICK a \in Int, b \in Int : a = 1 /\ b = 3
    OBVIOUS
  <2>2. IsFiniteSet(a .. b)
    BY FS_Interval
  <2>3. Channels = a .. b /\ 1 \in Channels
    BY <2>1 DEF Channels
  <2> QED
    BY <2>2, <2>3
<1> QED
  BY <1>1, ConstantParts DEF Pixels

LEMMA GreyParts ==
    ASSUME Picture, Grey(img), NEW p \in Points(size)
    PROVE  \E v \in Levels : \A c \in Channels : img[p][c] = v
<1>1. img[p] \in Pixels /\ Constant(img[p])
  BY DEF Picture, Grey
<1> QED
  BY <1>1, ConstantPixel

(* A filter makes one colour of one colour, and blurring and sharpening the
   same one. *)
LEMMA FrameKept ==
    ASSUME Picture, Constant(img), NEW filter \in Filters
    PROVE  /\ Constant(Filtered(filter))
           /\ filter \in {"blur", "sharpen"} => Filtered(filter) = img
<1>1. PICK v \in Pixels : \A q \in Points(size) : img[q] = v
  BY ConstantImage DEF Picture
<1>2. PICK f : f = Filtered(filter)
  OBVIOUS
<1>3. f \in [Points(size) -> Pixels]
  BY <1>2, FilteredTyped
<1>4. filter \in {"blur", "sharpen"} => \A q \in Points(size) : f[q] = v
  <2> SUFFICES ASSUME NEW q \in Points(size), filter \in {"blur", "sharpen"}
               PROVE  f[q] = v
    OBVIOUS
  <2>1. CASE filter = "blur"
    BY <1>1, <1>2, <2>1, FilteredValues, BlurKeepsColour
  <2>2. CASE filter = "sharpen"
    BY <1>1, <1>2, <2>2, FilteredValues, SharpenKeepsColour
  <2> QED
    BY <2>1, <2>2
<1>5. \E w \in Pixels : \A q \in Points(size) : f[q] = w
  <2>1. CASE filter = "grayscale"
    <3>1. \A q \in Points(size) : f[q] = applyGrayscale(v)
      BY <1>1, <1>2, <2>1, FilteredValues
    <3> QED
      BY <3>1, GrayscaleTyped
  <2>2. CASE filter = "sepia"
    <3>1. \A q \in Points(size) : f[q] = applySepia(v)
      BY <1>1, <1>2, <2>2, FilteredValues
    <3> QED
      BY <3>1, SepiaTyped
  <2>3. CASE filter = "contrast"
    <3>1. \A q \in Points(size) : f[q] = applyContrast(v)
      BY <1>1, <1>2, <2>3, FilteredValues
    <3> QED
      BY <3>1, ContrastTyped
  <2>4. CASE filter \in {"blur", "sharpen"}
    BY <1>4, <2>4
  <2> QED
    BY <2>1, <2>2, <2>3, <2>4 DEF Filters
<1>6. Constant(f)
  BY <1>3, <1>5, ConstantImage DEF Picture
<1>7. filter \in {"blur", "sharpen"} => f = img
  BY <1>1, <1>3, <1>4 DEF Picture
<1> QED
  BY <1>2, <1>6, <1>7

LEMMA GreyKept ==
    ASSUME Picture, Grey(img)
    PROVE  Filtered("grayscale") = img
<1>1. ASSUME NEW p \in Points(size) PROVE Filtered("grayscale")[p] = img[p]
  BY GreyParts, GrayscaleKeepsGrey, FilteredValues DEF Picture
<1>2. Filtered("grayscale") \in [Points(size) -> Pixels]
  BY FilteredTyped DEF Filters
<1> QED
  BY <1>1, <1>2 DEF Picture

LEMMA BlurRises ==
    ASSUME Picture, NEW d \in 1 .. 2, Rises(size, img, d)
    PROVE  Rises(size, Filtered("blur"), d)
<1> SUFFICES ASSUME NEW p \in Points(size), NEW q \in Points(size),
                    p[d] <= q[d], p[3 - d] = q[3 - d], NEW c \in Channels
             PROVE  Filtered("blur")[p][c] <= Filtered("blur")[q][c]
  BY DEF Rises
<1>1. size \in Sizes /\ Plane(c) \in Planes
  BY PlaneParts DEF Picture
<1>2. RisesAlong(Plane(c), d)
  BY PlaneParts DEF RisesAlong, Rises
<1>3. BoxSum(Plane(c), p) \div CountInside(p) <= BoxSum(Plane(c), q) \div CountInside(q)
  <2>1. CASE d = 1
    <3>1. p[1] <= q[1] /\ p[2] = q[2]
      BY <2>1
    <3> QED
      BY <1>1, <1>2, <2>1, <3>1, BlurRisesAlongRows
  <2>2. CASE d = 2
    <3>1. p[2] <= q[2] /\ p[1] = q[1]
      BY <2>2
    <3> QED
      BY <1>1, <1>2, <2>2, <3>1, BlurRisesAlongColumns
  <2> QED
    BY <2>1, <2>2
<1>4. /\ Filtered("blur")[p][c] = BoxSum(Plane(c), p) \div CountInside(p)
      /\ Filtered("blur")[q][c] = BoxSum(Plane(c), q) \div CountInside(q)
  BY FilteredValues, BlurParts
<1> QED
  BY <1>3, <1>4

LEMMA ContrastKeepsOrder ==
    ASSUME Picture, NEW d \in 1 .. 2, Rises(size, img, d)
    PROVE  Rises(size, Filtered("contrast"), d)
<1> SUFFICES ASSUME NEW p \in Points(size), NEW q \in Points(size),
                    p[d] <= q[d], p[3 - d] = q[3 - d], NEW c \in Channels
             PROVE  Filtered("contrast")[p][c] <= Filtered("contrast")[q][c]
  BY DEF Rises
<1>1. img[p] \in Pixels /\ img[q] \in Pixels /\ img[p][c] <= img[q][c]
  BY DEF Picture, Rises
<1>2. /\ Filtered("contrast")[p] = applyContrast(img[p])
      /\ Filtered("contrast")[q] = applyContrast(img[q])
  BY FilteredValues
<1> QED
  BY <1>1, <1>2, ContrastRises

LEMMA SepiaKeepsOrder ==
    ASSUME Picture, Grey(img), NEW d \in 1 .. 2, Rises(size, img, d)
    PROVE  Rises(size, Filtered("sepia"), d)
<1> SUFFICES ASSUME NEW p \in Points(size), NEW q \in Points(size),
                    p[d] <= q[d], p[3 - d] = q[3 - d], NEW c \in Channels
             PROVE  Filtered("sepia")[p][c] <= Filtered("sepia")[q][c]
  BY DEF Rises
<1>1. img[p] \in Pixels /\ img[q] \in Pixels /\ img[p][c] <= img[q][c]
  BY DEF Picture, Rises
<1>2. PICK u \in Levels : \A e \in Channels : img[p][e] = u
  BY GreyParts
<1>3. PICK v \in Levels : \A e \in Channels : img[q][e] = v
  BY GreyParts
<1>4. u <= v
  BY <1>1, <1>2, <1>3
<1>5. /\ Filtered("sepia")[p] = applySepia(img[p])
      /\ Filtered("sepia")[q] = applySepia(img[q])
  BY FilteredValues
<1> QED
  BY <1>1, <1>2, <1>3, <1>4, <1>5, SepiaRises

-----------------------------------------------------------------------------
(* Resizing.  Along one side of f points shown by t, the point x shows the  *)
(* point Shown(f, t, x): in order, all of them when there is room, and none *)
(* twice when there is not.                                                 *)
Shown(f, t, x) == (x * f) \div t

LEMMA ShownInside ==
    ASSUME NEW f \in Nat \ {0}, NEW t \in Nat \ {0}, NEW x \in 0 .. t - 1
    PROVE  Shown(f, t, x) \in 0 .. f - 1
<1>1. PICK a \in Nat : a = x * f
  OBVIOUS
<1>2. a < t * f
  <2>1. (t - x) * f > 0
    OBVIOUS
  <2> QED
    BY <1>1, <2>1
<1>3. PICK q : q = a \div t
  OBVIOUS
<1>4. q \in Nat /\ q * t <= a
  BY <1>3
<1>5. q < f
  <2> SUFFICES ASSUME q >= f PROVE FALSE
    BY <1>4
  <2>1. q * t >= f * t
    BY <1>4
  <2> QED
    BY <1>2, <1>4, <2>1
<1> QED
  BY <1>1, <1>3, <1>4, <1>5 DEF Shown

LEMMA ShownRises ==
    ASSUME NEW f \in Nat \ {0}, NEW t \in Nat \ {0},
           NEW x \in Nat, NEW y \in Nat, x <= y
    PROVE  Shown(f, t, x) <= Shown(f, t, y)
<1>1. PICK a \in Nat, b \in Nat : a = x * f /\ b = y * f
  OBVIOUS
<1>2. a <= b
  <2>1. (y - x) * f >= 0
    OBVIOUS
  <2> QED
    BY <1>1, <2>1
<1>3. PICK q, r : q = a \div t /\ r = b \div t
  OBVIOUS
<1>4. /\ q \in Nat /\ q * t <= a /\ r \in Nat /\ b < (r + 1) * t
  BY <1>3
<1>5. q <= r
  <2> SUFFICES ASSUME q >= r + 1 PROVE FALSE
    BY <1>4
  <2>1. q * t >= (r + 1) * t
    BY <1>4
  <2> QED
    BY <1>2, <1>4, <2>1
<1> QED
  BY <1>1, <1>3, <1>5 DEF Shown

(* The first point that shows z is z * t / f, rounded up. *)
LEMMA ShowsAll ==
    ASSUME NEW f \in Nat \ {0}, NEW t \in Nat \ {0}, f <= t, NEW z \in 0 .. f - 1
    PROVE  \E x \in 0 .. t - 1 : Shown(f, t, x) = z
<1>1. PICK a \in Nat : a = z * t
  OBVIOUS
<1>2. PICK x : x = (a + (f - 1)) \div f
  OBVIOUS
<1>3. x \in Nat /\ x * f <= a + f - 1 /\ a + f - 1 < (x + 1) * f
  BY <1>2
<1>4. a <= x * f /\ x * f < a + t
  BY <1>3
<1>5. x < t
  <2> SUFFICES ASSUME x >= t PROVE FALSE
    BY <1>3
  <2>1. PICK m \in Nat, n \in Nat : m = t * f /\ n = x * f
    BY <1>3
  <2>2. n >= m
    <3>1. (x - t) * f >= 0
      BY <1>3
    <3> QED
      BY <1>3, <2>1, <3>1
  <2>3. a + t <= m
    <3>1. (f - 1 - z) * t >= 0
      OBVIOUS
    <3> QED
      BY <1>1, <2>1, <3>1
  <2>4. n < a + t
    BY <1>4, <2>1
  <2> QED
    BY <2>2, <2>3, <2>4
<1>6. (x * f) \div t = z
  <2>1. PICK b \in Nat : b = x * f
    BY <1>3
  <2>2. z * t <= b /\ b < (z + 1) * t
    BY <1>1, <1>4, <2>1
  <2>3. b \div t = z
    BY <2>2
  <2> QED
    BY <2>1, <2>3
<1>7. Shown(f, t, x) = z /\ x \in 0 .. t - 1
  BY <1>3, <1>5, <1>6 DEF Shown
<1> QED
  BY <1>7

LEMMA ShowsNoneTwice ==
    ASSUME NEW f \in Nat \ {0}, NEW t \in Nat \ {0}, t <= f,
           NEW x \in Nat, NEW y \in Nat, x < y
    PROVE  Shown(f, t, x) < Shown(f, t, y)
<1>1. PICK a \in Nat, b \in Nat : a = x * f /\ b = y * f
  OBVIOUS
<1>2. a + t <= b
  <2>1. (y - x - 1) * f >= 0
    OBVIOUS
  <2> QED
    BY <1>1, <2>1
<1>3. PICK q, r : q = a \div t /\ r = b \div t
  OBVIOUS
<1>4. /\ q \in Nat /\ q * t <= a /\ r \in Nat /\ b < (r + 1) * t
  BY <1>3
<1>5. q < r
  <2> SUFFICES ASSUME q + 1 >= r + 1 PROVE FALSE
    BY <1>4
  <2>1. (q + 1) * t >= (r + 1) * t
    BY <1>4
  <2> QED
    BY <1>2, <1>4, <2>1
<1> QED
  BY <1>1, <1>3, <1>5 DEF Shown

LEMMA NearestParts ==
    ASSUME NEW from \in Sizes, NEW to \in Sizes, NEW p \in Points(to)
    PROVE  /\ Nearest(from, to, p) =
                  <<Shown(from[1], to[1], p[1]), Shown(from[2], to[2], p[2])>>
           /\ Nearest(from, to, p) \in Points(from)
<1>1. /\ from[1] \in Nat \ {0} /\ to[1] \in Nat \ {0} /\ p[1] \in 0 .. to[1] - 1
      /\ from[2] \in Nat \ {0} /\ to[2] \in Nat \ {0} /\ p[2] \in 0 .. to[2] - 1
  BY SizeNumbers, PointParts
<1>2. PICK x, y : /\ x = Shown(from[1], to[1], p[1])
                  /\ y = Shown(from[2], to[2], p[2])
  OBVIOUS
<1>3. x \in 0 .. from[1] - 1 /\ y \in 0 .. from[2] - 1
  BY <1>1, <1>2, ShownInside
<1>4. /\ Smaller(x, from[1] - 1) = x
      /\ Smaller(y, from[2] - 1) = y
  BY <1>1, <1>3 DEF Smaller
<1>5. Nearest(from, to, p) = <<Smaller(x, from[1] - 1), Smaller(y, from[2] - 1)>>
  BY <1>2 DEF Nearest, Shown
<1> QED
  BY <1>2, <1>3, <1>4, <1>5 DEF Points

LEMMA ResizeTyped ==
    ASSUME NEW from \in Sizes, NEW to \in Sizes, NEW f \in [Points(from) -> Pixels]
    PROVE  /\ resizeImage(from, f, to) \in [Points(to) -> Pixels]
           /\ \A p \in Points(to) : resizeImage(from, f, to)[p] = f[Nearest(from, to, p)]
  BY NearestParts DEF resizeImage

LEMMA ResizeKeepsOrder ==
    ASSUME NEW from \in Sizes, NEW to \in Sizes, NEW f \in [Points(from) -> Pixels],
           NEW d \in 1 .. 2, Rises(from, f, d)
    PROVE  Rises(to, resizeImage(from, f, to), d)
<1> SUFFICES ASSUME NEW p \in Points(to), NEW q \in Points(to),
                    p[d] <= q[d], p[3 - d] = q[3 - d], NEW c \in Channels
             PROVE  f[Nearest(from, to, p)][c] <= f[Nearest(from, to, q)][c]
  BY ResizeTyped DEF Rises
<1>1. PICK u \in Points(from), v \in Points(from) :
          u = Nearest(from, to, p) /\ v = Nearest(from, to, q)
  BY NearestParts
<1>2. /\ u = <<Shown(from[1], to[1], p[1]), Shown(from[2], to[2], p[2])>>
      /\ v = <<Shown(from[1], to[1], q[1]), Shown(from[2], to[2], q[2])>>
  BY <1>1, NearestParts
<1>3. u[d] <= v[d] /\ u[3 - d] = v[3 - d]
  <2>1. /\ from[1] \in Nat \ {0} /\ to[1] \in Nat \ {0}
        /\ from[2] \in Nat \ {0} /\ to[2] \in Nat \ {0}
        /\ p[1] \in Nat /\ p[2] \in Nat /\ q[1] \in Nat /\ q[2] \in Nat
    BY SizeNumbers, PointParts
  <2>2. CASE d = 1
    <3>1. p[1] <= q[1] /\ p[2] = q[2]
      BY <2>2
    <3>2. Shown(from[1], to[1], p[1]) <= Shown(from[1], to[1], q[1])
      BY <2>1, <3>1, ShownRises
    <3> QED
      BY <1>2, <2>2, <3>1, <3>2
  <2>3. CASE d = 2
    <3>1. p[2] <= q[2] /\ p[1] = q[1]
      BY <2>3
    <3>2. Shown(from[2], to[2], p[2]) <= Shown(from[2], to[2], q[2])
      BY <2>1, <3>1, ShownRises
    <3> QED
      BY <1>2, <2>3, <3>1, <3>2
  <2> QED
    BY <2>2, <2>3
<1> QED
  BY <1>1, <1>3 DEF Rises

LEMMA EnlargedShowsAll ==
    ASSUME NEW from \in Sizes, NEW to \in Sizes, NEW f \in [Points(from) -> Pixels],
           \A d \in 1 .. 2 : to[d] >= from[d]
    PROVE  Range(f) = Range(resizeImage(from, f, to))
<1>1. PICK g : g = resizeImage(from, f, to)
  OBVIOUS
<1>2. /\ DOMAIN f = Points(from) /\ DOMAIN g = Points(to)
      /\ \A p \in Points(to) : g[p] = f[Nearest(from, to, p)]
  BY <1>1, ResizeTyped
<1>3. ASSUME NEW z \in Points(from)
      PROVE  \E p \in Points(to) : Nearest(from, to, p) = z
  <2>1. /\ from[1] \in Nat \ {0} /\ to[1] \in Nat \ {0} /\ from[1] <= to[1]
        /\ from[2] \in Nat \ {0} /\ to[2] \in Nat \ {0} /\ from[2] <= to[2]
        /\ z = <<z[1], z[2]>> /\ z[1] \in 0 .. from[1] - 1 /\ z[2] \in 0 .. from[2] - 1
    BY SizeNumbers, PointParts
  <2>2. PICK x \in 0 .. to[1] - 1 : Shown(from[1], to[1], x) = z[1]
    BY <2>1, ShowsAll
  <2>3. PICK y \in 0 .. to[2] - 1 : Shown(from[2], to[2], y) = z[2]
    BY <2>1, ShowsAll
  <2>4. PICK p \in Points(to) : p = <<x, y>>
    BY DEF Points
  <2>5. Nearest(from, to, p) = z
    <3>1. p[1] = x /\ p[2] = y
      BY <2>4
    <3>2. Nearest(from, to, p) =
              <<Shown(from[1], to[1], p[1]), Shown(from[2], to[2], p[2])>>
      BY NearestParts
    <3>3. Nearest(from, to, p) = <<z[1], z[2]>>
      BY <2>2, <2>3, <3>1, <3>2
    <3> QED
      BY <2>1, <3>3
  <2> QED
    BY <2>5
<1>4. \A p \in Points(to) : Nearest(from, to, p) \in Points(from)
  BY NearestParts
<1>5. Range(f) = Range(g)
  BY <1>2, <1>3, <1>4 DEF Range
<1> QED
  BY <1>1, <1>5

LEMMA ReducedShowsNoneTwice ==
    ASSUME NEW from \in Sizes, NEW to \in Sizes, NEW f \in [Points(from) -> Pixels],
           \A d \in 1 .. 2 : to[d] <= from[d], IsInjective(f)
    PROVE  IsInjective(resizeImage(from, f, to))
<1>1. PICK g : g = resizeImage(from, f, to)
  OBVIOUS
<1>2. /\ DOMAIN f = Points(from) /\ DOMAIN g = Points(to)
      /\ \A p \in Points(to) : g[p] = f[Nearest(from, to, p)]
  BY <1>1, ResizeTyped
<1>3. ASSUME NEW p \in Points(to), NEW q \in Points(to),
             Nearest(from, to, p) = Nearest(from, to, q)
      PROVE  p = q
  <2>1. /\ from[1] \in Nat \ {0} /\ to[1] \in Nat \ {0} /\ to[1] <= from[1]
        /\ from[2] \in Nat \ {0} /\ to[2] \in Nat \ {0} /\ to[2] <= from[2]
        /\ p = <<p[1], p[2]>> /\ p[1] \in Nat /\ p[2] \in Nat
        /\ q = <<q[1], q[2]>> /\ q[1] \in Nat /\ q[2] \in Nat
    BY SizeNumbers, PointParts
  <2>2. /\ Nearest(from, to, p) =
               <<Shown(from[1], to[1], p[1]), Shown(from[2], to[2], p[2])>>
        /\ Nearest(from, to, q) =
               <<Shown(from[1], to[1], q[1]), Shown(from[2], to[2], q[2])>>
    BY NearestParts
  <2>3. /\ Shown(from[1], to[1], p[1]) = Shown(from[1], to[1], q[1])
        /\ Shown(from[2], to[2], p[2]) = Shown(from[2], to[2], q[2])
    <3>1. PICK i, j, k, l : /\ i = Shown(from[1], to[1], p[1])
                            /\ j = Shown(from[2], to[2], p[2])
                            /\ k = Shown(from[1], to[1], q[1])
                            /\ l = Shown(from[2], to[2], q[2])
      OBVIOUS
    <3>2. <<i, j>> = <<k, l>>
      BY <1>3, <2>2, <3>1, Zenon
    <3>3. i = k /\ j = l
      BY <3>2
    <3> QED
      BY <3>1, <3>3
  <2>4. ASSUME NEW a \in Nat \ {0}, NEW b \in Nat \ {0}, b <= a, NEW x \in Nat,
               NEW y \in Nat, Shown(a, b, x) = Shown(a, b, y)
        PROVE  x = y
    <3>1. PICK n \in Int : n = Shown(a, b, x)
      <4>1. x * a \in Nat
        OBVIOUS
      <4> QED
        BY <4>1 DEF Shown
    <3>2. ~(x < y)
      BY <2>4, <3>1, ShowsNoneTwice
    <3>3. ~(y < x)
      BY <2>4, <3>1, ShowsNoneTwice
    <3> QED
      BY <3>2, <3>3
  <2>5. p[1] = q[1] /\ p[2] = q[2]
    BY <2>1, <2>3, <2>4
  <2> QED
    BY <2>1, <2>5
<1>4. IsInjective(g)
  BY <1>2, <1>3, NearestParts DEF IsInjective
<1> QED
  BY <1>1, <1>4

-----------------------------------------------------------------------------
(* The steps of the worker. *)
LEMMA GradientPixel ==
    ASSUME NEW u \in 0 .. 255, NEW v \in 0 .. 255
    PROVE  <<u, v, 128>> \in [1 .. 3 -> 0 .. 255]
  BY SMTT(30)

LEMMA TestImageTyped ==
    ASSUME NEW of \in Sizes
    PROVE  generateTestImage(of) \in [Points(of) -> Pixels]
<1>1. ASSUME NEW p \in Points(of)
      PROVE  <<Byte((p[1] * 255) \div of[1]), Byte((p[2] * 255) \div of[2]), 128>>
                 \in Pixels
  <2>1. /\ of[1] \in Nat \ {0} /\ of[2] \in Nat \ {0}
        /\ p[1] \in Nat /\ p[2] \in Nat
    BY SizeNumbers, PointParts
  <2>2. PICK a \in Nat, b \in Nat : a = p[1] * 255 /\ b = p[2] * 255
    BY <2>1
  <2>3. a \div of[1] \in Int /\ b \div of[2] \in Int
    BY <2>1
  <2>4. PICK u \in Levels, v \in Levels :
            u = Byte((p[1] * 255) \div of[1]) /\ v = Byte((p[2] * 255) \div of[2])
    BY <2>2, <2>3, ByteLevel
  <2>5. <<u, v, 128>> \in [1 .. 3 -> 0 .. 255]
    BY GradientPixel, Zenon DEF Levels
  <2> QED
    BY <2>4, <2>5 DEF Pixels, Channels, Levels
<1> QED
  BY <1>1 DEF generateTestImage

LEMMA ImageInitInv == ASSUME FilterInit PROVE ImageInv
  BY DEF FilterInit, ImageInv

LEMMA ImagePicture ==
    ASSUME ImageInv, stage # "requested"
    PROVE  Picture
  BY DEF ImageInv, Picture

LEMMA DownloadInv == ASSUME ImageInv, Download PROVE ImageInv'
<1>1. size' \in Sizes /\ stage' = "decoded"
  BY DEF Download
<1>2. img' \in [Points(size') -> Pixels]
  <2>1. CASE img' \in [Points(size') -> Colours]
    <3>1. Colours \subseteq Pixels
      BY ImagesAssumption DEF Pixels, Channels, Levels
    <3> QED
      BY <2>1, <3>1
  <2>2. CASE img' = generateTestImage(size')
    <3>1. PICK of \in Sizes : of = size'
      BY <1>1
    <3>2. generateTestImage(of) \in [Points(of) -> Pixels]
      BY TestImageTyped
    <3> QED
      BY <2>2, <3>1, <3>2
  <2> QED
    BY <2>1, <2>2 DEF Download
<1> QED
  BY <1>1, <1>2 DEF ImageInv

LEMMA ResizeStep ==
    ASSUME ImageInv, Resize
    PROVE  ImageInv' /\ ShownInOrder
<1>1. Picture /\ stage = "decoded" /\ stage' = "resized"
  BY DEF Resize, Picture, ImageInv
<1>2. PICK from \in Sizes, to \in Sizes : from = size /\ to = size'
  BY <1>1 DEF Resize, Picture
<1>3. PICK f \in [Points(from) -> Pixels] :
          f = img /\ img' = resizeImage(from, f, to)
  BY <1>1, <1>2 DEF Resize, Picture
<1>4. PICK g \in [Points(to) -> Pixels] : g = img' /\ g = resizeImage(from, f, to)
  BY <1>3, ResizeTyped
<1>5. ImageInv'
  BY <1>1, <1>2, <1>4 DEF ImageInv
<1>6. Rising(from, f) \subseteq Rising(to, g)
  BY <1>4, ResizeKeepsOrder DEF Rising
<1>7. (\A d \in 1 .. 2 : to[d] >= from[d]) => Range(f) = Range(g)
  BY <1>4, EnlargedShowsAll
<1>8. (\A d \in 1 .. 2 : to[d] <= from[d]) /\ IsInjective(f) => IsInjective(g)
  BY <1>4, ReducedShowsNoneTwice
<1>9. ShownInOrder
  BY <1>2, <1>3, <1>4, <1>6, <1>7, <1>8 DEF ShownInOrder
<1> QED
  BY <1>5, <1>9

LEMMA ApplyStep ==
    ASSUME ImageInv, NEW filter \in Filters, Apply(filter)
    PROVE  /\ ImageInv' /\ Picture /\ Picture'
           /\ size' = size /\ stage' = stage /\ img' = Filtered(filter)
<1>1. /\ stage = "resized" /\ stage' = stage /\ size' = size
      /\ img' = Filtered(filter)
  BY DEF Apply
<1>2. Picture
  BY <1>1, ImagePicture
<1>3. img' \in [Points(size) -> Pixels]
  BY <1>1, <1>2, FilteredTyped
<1> QED
  BY <1>1, <1>2, <1>3 DEF ImageInv, Picture

(* What the filters keep, said of two images that a filter leads from one to *)
(* the other; two filters may do so.                                         *)
LEMMA FiltersKeep ==
    ASSUME ImageInv
    PROVE  /\ applied' # applied /\ FilterNext /\ Constant(img) => Constant(img')
           /\ Constant(img) /\ (Apply("blur") \/ Apply("sharpen")) => img' = img
           /\ Grey(img) /\ Apply("grayscale") => img' = img
           /\ (Grey(img) /\ (Apply("sepia") \/ Apply("blur"))) \/ Apply("contrast") =>
                 Rising(size, img) \subseteq Rising(size, img')
<1>0. {"grayscale", "sepia", "contrast", "blur", "sharpen"} \subseteq Filters
  BY DEF Filters
<1>1. ASSUME applied' # applied, FilterNext, Constant(img) PROVE Constant(img')
  <2>1. PICK filter \in Filters : Apply(filter)
    BY <1>1 DEF FilterNext, Download, Resize
  <2> QED
    BY <1>1, <2>1, ApplyStep, FrameKept
<1>2. ASSUME Constant(img), NEW filter \in {"blur", "sharpen"}, Apply(filter)
      PROVE  img' = img
  BY <1>0, <1>2, ApplyStep, FrameKept
<1>3. ASSUME Grey(img), Apply("grayscale") PROVE img' = img
  BY <1>0, <1>3, ApplyStep, GreyKept
<1>4. ASSUME Apply("blur") PROVE Rising(size, img) \subseteq Rising(size, img')
  <2>1. Picture /\ img' = Filtered("blur")
    BY <1>0, <1>4, ApplyStep
  <2> QED
    BY <2>1, BlurRises DEF Rising
<1>5. ASSUME Apply("contrast") PROVE Rising(size, img) \subseteq Rising(size, img')
  <2>1. Picture /\ img' = Filtered("contrast")
    BY <1>0, <1>5, ApplyStep
  <2> QED
    BY <2>1, ContrastKeepsOrder DEF Rising
<1>6. ASSUME Grey(img), Apply("sepia")
      PROVE  Rising(size, img) \subseteq Rising(size, img')
  <2>1. Picture /\ img' = Filtered("sepia")
    BY <1>0, <1>6, ApplyStep
  <2> QED
    BY <1>6, <2>1, SepiaKeepsOrder DEF Rising
<1> QED
  BY <1>1, <1>2, <1>3, <1>4, <1>5, <1>6

LEMMA ImageStepInv ==
    ImageInv /\ [FilterNext]_imageVars =>
        ImageInv' /\ ((ShownInOrder /\ NoFrame /\ NoOverflow) \/ UNCHANGED imageVars)
<1> SUFFICES ASSUME ImageInv, [FilterNext]_imageVars
             PROVE  ImageInv' /\ ((ShownInOrder /\ NoFrame /\ NoOverflow)
                                  \/ UNCHANGED imageVars)
  OBVIOUS
<1>1. CASE UNCHANGED imageVars
  BY <1>1 DEF imageVars, ImageInv
<1>2. CASE FilterNext
  <2>1. NoFrame /\ NoOverflow
    BY <1>2, FiltersKeep DEF NoFrame, NoOverflow
  <2>2. CASE Download
    <3>1. ShownInOrder
      BY <2>2 DEF Download, ShownInOrder
    <3> QED
      BY <2>1, <2>2, <3>1, DownloadInv
  <2>3. CASE Resize
    BY <2>1, <2>3, ResizeStep
  <2>4. ASSUME NEW filter \in Filters, Apply(filter)
        PROVE  ImageInv' /\ ShownInOrder
    <3>1. ShownInOrder
      BY <2>4 DEF Apply, ShownInOrder
    <3> QED
      BY <2>4, <3>1, ApplyStep
  <2> QED
    BY <1>2, <2>1, <2>2, <2>3, <2>4 DEF FilterNext
<1> QED
  BY <1>1, <1>2

LEMMA ImageTyped == ImageInv => FilterTypeOK
<1> SUFFICES ASSUME ImageInv PROVE FilterTypeOK
  OBVIOUS
<1>1. CASE stage = "requested"
  <2>1. size = NoSize /\ img = << >>
    BY <1>1 DEF ImageInv
  <2>2. Points(NoSize) = {}
    BY DEF Points, NoSize
  <2> QED
    BY <2>1, <2>2 DEF FilterTypeOK
<1>2. CASE stage # "requested"
  BY <1>2, ImagePicture DEF Picture, FilterTypeOK, Pixels, Levels
<1> QED
  BY <1>1, <1>2

(* An image is a picture of its size with levels of eight bits, from the
   download through every filter, whatever the sizes and colours. *)
THEOREM ImageInvariance == FilterSpec => []ImageInv
<1>1. ImageInv /\ [FilterNext]_imageVars => ImageInv'
  BY ImageStepInv
<1> QED
  BY <1>1, ImageInitInv, PTL DEF FilterSpec

(* Neither the border nor the eight bits of an image show: what NoArtefacts
   says of resizing and of the filters, for images of every size and colour. *)
THEOREM ShowsNoArtefacts == FilterSpec => NoArtefacts
<1>1. ImageInv /\ [FilterNext]_imageVars =>
          [ShownInOrder /\ NoFrame /\ NoOverflow]_imageVars
  BY ImageStepInv
<1> QED
  BY <1>1, ImageInvariance, PTL DEF FilterSpec, NoArtefacts

-----------------------------------------------------------------------------
(* The composition of requests and images. *)
LEMMA PartsOfImages ==
    /\ Init => PipelineInit /\ FilterInit
    /\ [Next]_vars => [PipelineNext]_pipelineVars /\ [FilterNext]_imageVars
<1>1. Init => PipelineInit /\ FilterInit
  BY DEF Init
<1>2. [Next]_vars => [PipelineNext]_pipelineVars /\ [FilterNext]_imageVars
  BY DEF Next, vars, RequestStep, ImageStep, OthersStay
<1> QED
  BY <1>1, <1>2

(* The state of requests and images stays within its types. *)
THEOREM ImageTypes == Spec => []TypeOK
<1>1. Init => IInv /\ ImageInv
  BY PartsOfImages, InitInv, ImageInitInv
<1>2. IInv /\ ImageInv /\ [Next]_vars => IInv' /\ ImageInv'
  BY PartsOfImages, NextInv, ImageStepInv
<1>3. IInv /\ ImageInv => TypeOK
  BY ImageTyped DEF IInv, TypeOK
<1> QED
  BY <1>1, <1>2, <1>3, PTL DEF Spec

(* The images of the composition show no artefacts either. *)
THEOREM NoArtefactsShown == Spec => NoArtefacts
<1>1. Spec => FilterSpec
  BY PartsOfImages, PTL DEF Spec, FilterSpec
<1> QED
  BY <1>1, ShowsNoArtefacts, PTL
=============================================================================
