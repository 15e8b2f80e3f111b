----------------------------- MODULE RedisWork -----------------------------
(***************************************************************************)
(* How the Redis routes hand out work (app/brokers/redis_broker.py,        *)
(* app/api/redis_routes.py): the stream "test-stream" with its consumer    *)
(* groups, and the list "test-queue".  Every handler talks to Redis one    *)
(* command at a time; each command is atomic at the server, any other      *)
(* request may come between two of them, and any of them may fail: the     *)
(* connection is lost before the server executed it, or after it did and   *)
(* before the reply arrived.  Requests of a single command are one action  *)
(* here; a request that takes work and settles it with further commands    *)
(* occupies a handler from one to the next.                                *)
(***************************************************************************)
EXTENDS Naturals, Sequences, SequencesExt, FiniteSets

CONSTANTS
    Handlers,   \* requests that can be in progress at the same time
    Groups,     \* names of consumer groups
    Count,      \* entries one group read asks for
    MaxItems    \* bound: entries and jobs created in a behaviour

ASSUME WorkAssumption ==
    /\ Count \in Nat \ {0}
    /\ MaxItems \in Nat

Items == 1 .. MaxItems
Queue == "queue"
Places == Groups \cup {Queue}

ASSUME PlacesAssumption == Queue \notin Groups

VARIABLES
    issued,     \* how many items have been created; item i is the i-th
    stream,     \* the entries of the stream, in the order of their ids
    group,      \* [Groups -> the group at the server]
    list,       \* the jobs in the list, from its left end to its right end
    raw,        \* the jobs that list_push created: their value is no JSON
    blocked,    \* the handlers waiting in BRPOP, the longest wait first
    handler,    \* [Handlers -> what the request has in hand]
    answered,   \* <<place, item>> in a 200 answer of a read or a pop
    dropped,    \* <<place, item>> acknowledged or popped by a failed request
    stranded    \* <<place, item>> left pending by a failed request

workVars == <<issued, stream, group, list, raw, blocked, handler,
          answered, dropped, stranded>>

server == <<issued, stream, group, list, raw, blocked>>
outcome == <<answered, dropped, stranded>>

Absent == [made |-> FALSE, last |-> 0, pending |-> {}]
Idle == [op |-> "idle"]
Popping == [op |-> "popping"]
Acking(g, todo, acked) ==
    [op |-> "acking", group |-> g, todo |-> todo, acked |-> acked]
Popped(i) == [op |-> "popped", job |-> i]

In(place, items) == {place} \X items

WorkInit ==
    /\ issued = 0
    /\ stream = <<>>
    /\ group = [g \in Groups |-> Absent]
    /\ list = <<>>
    /\ raw = {}
    /\ blocked = <<>>
    /\ handler = [h \in Handlers |-> Idle]
    /\ answered = {}
    /\ dropped = {}
    /\ stranded = {}

-----------------------------------------------------------------------------
(* Streams *)

\* stream_add: XADD.
stream_add ==
    /\ issued < MaxItems
    /\ issued' = issued + 1
    /\ stream' = Append(stream, issued + 1)
    /\ UNCHANGED <<group, list, raw, blocked, handler, outcome>>

\* stream_create_group: XGROUP CREATE from id 0.  On a group that exists it is
\* refused with BUSYGROUP and the request answers already_exists.
stream_create_group(g) ==
    /\ ~group[g].made
    /\ group' = [group EXCEPT ![g].made = TRUE]
    /\ UNCHANGED <<issued, stream, list, raw, blocked, handler, outcome>>

\* How far into the stream the group's last delivered id is.
Seen(g) ==
    CHOOSE n \in 0 .. Len(stream) :
        \A j \in 1 .. Len(stream) : j <= n <=> stream[j] <= group[g].last

\* Mutant: the read asks for what is pending as well.
FreshOrPending(g) ==
    SelectSeq(stream, LAMBDA i : i > group[g].last \/ i \in group[g].pending)
\* What XREADGROUP with the id ">" delivers: entries never delivered before.
Fresh(g) == SubSeq(stream, Seen(g) + 1, Len(stream))

Batch(g) ==
    LET fresh == Fresh(g)
    IN  SubSeq(fresh, 1, IF Len(fresh) < Count THEN Len(fresh) ELSE Count)

Deliver(g) ==
    group' = [group EXCEPT ![g].last = Last(Batch(g)),
                           ![g].pending = @ \cup Range(Batch(g))]

\* stream_read_group: XREADGROUP.  Without a group it answers 500, without a
\* fresh entry 200 and no messages; neither changes anything.
stream_read_group(h, g) ==
    /\ handler[h] = Idle
    /\ group[g].made
    /\ Batch(g) # <<>>
    /\ Deliver(g)
    /\ handler' = [handler EXCEPT ![h] = Acking(g, Batch(g), <<>>)]
    /\ UNCHANGED <<issued, stream, list, raw, blocked, outcome>>

\* The reply to XREADGROUP is lost: the server counts the entries as delivered.
ReadReplyLost(h, g) ==
    /\ handler[h] = Idle
    /\ group[g].made
    /\ Batch(g) # <<>>
    /\ Deliver(g)
    /\ stranded' = stranded \cup In(g, Range(Batch(g)))
    /\ UNCHANGED <<issued, stream, list, raw, blocked, handler,
                   answered, dropped>>

\* Mutant: no XACK.
AcknowledgeNot(g, i) == UNCHANGED group

\* XACK at the server; without effect when the stream was deleted meanwhile.
Acknowledge(g, i) == group' = [group EXCEPT ![g].pending = @ \ {i}]

\* The loop of stream_read_group: the entry is parsed, then acknowledged.
AckEntry(h) ==
    /\ handler[h].op = "acking"
    /\ handler[h].todo # <<>>
    /\ LET g == handler[h].group
           i == Head(handler[h].todo)
       IN  /\ Acknowledge(g, i)
           /\ handler' = [handler EXCEPT
                            ![h] = Acking(g, Tail(@.todo), Append(@.acked, i))]
    /\ UNCHANGED <<issued, stream, list, raw, blocked, outcome>>

\* XACK raises: the request answers 500 and everything in its hand is gone from
\* it, whether the server has executed this last command or not.
AckFails(h) ==
    /\ handler[h].op = "acking"
    /\ handler[h].todo # <<>>
    /\ LET g == handler[h].group
           i == Head(handler[h].todo)
           done == Range(handler[h].acked)
           left == Range(Tail(handler[h].todo))
       IN  \/ /\ Acknowledge(g, i)
              /\ dropped' = dropped \cup In(g, done \cup {i})
              /\ stranded' = stranded \cup In(g, left)
           \/ /\ dropped' = dropped \cup In(g, done)
              /\ stranded' = stranded \cup In(g, left \cup {i})
              /\ UNCHANGED group
    /\ handler' = [handler EXCEPT ![h] = Idle]
    /\ UNCHANGED <<issued, stream, list, raw, blocked, answered>>

\* All entries are acknowledged: 200 with the messages.
AnswerRead(h) ==
    /\ handler[h].op = "acking"
    /\ handler[h].todo = <<>>
    /\ answered' = answered
                     \cup In(handler[h].group, Range(handler[h].acked))
    /\ handler' = [handler EXCEPT ![h] = Idle]
    /\ UNCHANGED <<server, dropped, stranded>>

\* cache_delete and kv_delete take any key: the stream goes with its groups.
\* What was pending in them is pending nowhere now.
DeleteStream ==
    /\ stream # <<>> \/ \E g \in Groups : group[g].made
    /\ stream' = <<>>
    /\ group' = [g \in Groups |-> Absent]
    /\ UNCHANGED <<issued, list, raw, blocked, handler, outcome>>

-----------------------------------------------------------------------------
(* The list queue *)

\* Mutant: RPUSH.
PushRight(i) ==
    IF blocked = <<>>
    THEN /\ list' = Append(list, i)
         /\ UNCHANGED <<blocked, handler>>
    ELSE /\ handler' = [handler EXCEPT ![Head(blocked)] = Popped(i)]
         /\ blocked' = Tail(blocked)
         /\ UNCHANGED list

\* LPUSH.  A client blocked on the key is served from the right end at once.
Push(i) ==
    IF blocked = <<>>
    THEN /\ list' = <<i>> \o list
         /\ UNCHANGED <<blocked, handler>>
    ELSE /\ handler' = [handler EXCEPT ![Head(blocked)] = Popped(i)]
         /\ blocked' = Tail(blocked)
         /\ UNCHANGED list

\* queue_push: a job as JSON.
queue_push ==
    /\ issued < MaxItems
    /\ issued' = issued + 1
    /\ Push(issued + 1)
    /\ UNCHANGED <<stream, group, raw, outcome>>

\* list_push: any string, under any key.
list_push ==
    /\ issued < MaxItems
    /\ issued' = issued + 1
    /\ raw' = raw \cup {issued + 1}
    /\ Push(issued + 1)
    /\ UNCHANGED <<stream, group, outcome>>

\* queue_pop: BRPOP, which takes the right end or waits.
queue_pop(h) ==
    /\ handler[h] = Idle
    /\ \/ /\ list # <<>>
          /\ handler' = [handler EXCEPT ![h] = Popped(Last(list))]
          /\ list' = Front(list)
          /\ UNCHANGED blocked
       \/ /\ list = <<>>
          /\ handler' = [handler EXCEPT ![h] = Popping]
          /\ blocked' = Append(blocked, h)
          /\ UNCHANGED list
    /\ UNCHANGED <<issued, stream, group, raw, outcome>>

\* Mutant: the caller leaves and its command stays at the server.
GiveUpButWait(h) ==
    /\ handler[h] = Popping
    /\ handler' = [handler EXCEPT ![h] = Idle]
    /\ UNCHANGED <<server, outcome>>

\* The wait ends without a job: BRPOP's own timeout, answered 200 with no
\* message, or a lost connection, answered 500.
GiveUp(h) ==
    /\ handler[h] = Popping
    /\ \E i \in 1 .. Len(blocked) :
          blocked[i] = h /\ blocked' = RemoveAt(blocked, i)
    /\ handler' = [handler EXCEPT ![h] = Idle]
    /\ UNCHANGED <<issued, stream, group, list, raw, outcome>>

\* After the job has left the list: json.loads of it and LLEN, then 200.
AnswerPop(h) ==
    /\ handler[h].op = "popped"
    /\ handler[h].job \notin raw
    /\ answered' = answered \cup In(Queue, {handler[h].job})
    /\ handler' = [handler EXCEPT ![h] = Idle]
    /\ UNCHANGED <<server, dropped, stranded>>

\* The reply to BRPOP is lost, json.loads raises or LLEN fails: 500.
PopFails(h) ==
    /\ handler[h].op = "popped"
    /\ dropped' = dropped \cup In(Queue, {handler[h].job})
    /\ handler' = [handler EXCEPT ![h] = Idle]
    /\ UNCHANGED <<server, answered, stranded>>

\* cache_delete and kv_delete on the list.
DeleteList ==
    /\ list # <<>>
    /\ list' = <<>>
    /\ UNCHANGED <<issued, stream, group, raw, blocked, handler, outcome>>

-----------------------------------------------------------------------------
WorkNext ==
    \/ stream_add
    \/ \E g \in Groups : stream_create_group(g)
    \/ \E h \in Handlers, g \in Groups : stream_read_group(h, g)
    \/ \E h \in Handlers, g \in Groups : ReadReplyLost(h, g)
    \/ \E h \in Handlers : AckEntry(h) \/ AckFails(h) \/ AnswerRead(h)
    \/ DeleteStream
    \/ queue_push
    \/ list_push
    \/ \E h \in Handlers : queue_pop(h) \/ GiveUp(h)
    \/ \E h \in Handlers : AnswerPop(h) \/ PopFails(h)
    \/ DeleteList

WorkSpec == WorkInit /\ [][WorkNext]_workVars

-----------------------------------------------------------------------------
(* Properties *)

\* What a request in progress has taken and not yet settled.
TakenBy(h, place) ==
    CASE place # Queue /\ handler[h].op = "acking" ->
            IF handler[h].group = place
            THEN Range(handler[h].todo) \cup Range(handler[h].acked)
            ELSE {}
      [] place = Queue /\ handler[h].op = "popped" -> {handler[h].job}
      [] OTHER -> {}

At(outcomes, place) == {i \in Items : <<place, i>> \in outcomes}

HandedOut(place) ==
    At(answered \cup dropped \cup stranded, place)
        \cup UNION {TakenBy(h, place) : h \in Handlers}

\* Types of all variables; a request has at most Count entries in hand, and the
\* clients the server knows to wait are the pops that wait.
WorkTypeOK ==
    /\ issued \in 0 .. MaxItems
    /\ stream \in Seq(1 .. issued)
    /\ \A g \in Groups :
          /\ group[g].made \in BOOLEAN
          /\ group[g].last \in 0 .. issued
          /\ group[g].pending \subseteq 1 .. group[g].last
    /\ list \in Seq(1 .. issued)
    /\ raw \subseteq 1 .. issued
    /\ blocked \in Seq(Handlers)
    /\ IsInjective(blocked)
    /\ Range(blocked) = {h \in Handlers : handler[h] = Popping}
    /\ blocked # <<>> => list = <<>>
    /\ \A h \in Handlers :
          \/ handler[h] \in {Idle, Popping}
          \/ \E i \in Items : handler[h] = Popped(i)
          \/ /\ handler[h].op = "acking"
             /\ handler[h].group \in Groups
             /\ Len(handler[h].todo) + Len(handler[h].acked) \in 1 .. Count
    /\ answered \subseteq Places \X Items
    /\ dropped \subseteq Places \X Items
    /\ stranded \subseteq Groups \X Items

\* No entry is given to two requests of one group and no job to two pops, at
\* the same time or later, however requests overlap and fail: an item has one
\* fate (stream_read_group's ">", queue_pop's BRPOP).
HandedOutOnce ==
    /\ answered \cap (dropped \cup stranded) = {}
    /\ dropped \cap stranded = {}
    /\ \A place \in Places, h \in Handlers :
          /\ TakenBy(h, place)
                \cap At(answered \cup dropped \cup stranded, place) = {}
          /\ \A k \in Handlers \ {h} :
                TakenBy(h, place) \cap TakenBy(k, place) = {}

\* A group passes over no entry: of the entries in the stream exactly those up
\* to its last delivered id have been handed out, also when the group is
\* created after them, or the stream was deleted in between.
NoneSkipped ==
    \A g \in Groups : \A i \in Range(stream) :
        i <= group[g].last <=> i \in HandedOut(g)

\* What XINFO shows as pending is what requests have still to acknowledge and
\* what failed requests left behind, nothing else.
PendingExact ==
    \A g \in Groups :
        LET unsettled ==
              UNION {Range(handler[h].todo) :
                       h \in {k \in Handlers : /\ handler[k].op = "acking"
                                               /\ handler[k].group = g}}
        IN  group[g].pending =
              (unsettled \cup At(stranded, g)) \cap Range(stream)

\* Every item taken is accounted for: it has one fate, and what a group has
\* taken and not settled is pending there, where an operator can see it.
TakenIsAccounted == HandedOutOnce /\ PendingExact

\* Jobs leave the queue in the order they entered it, whether they lay in the
\* list or went straight to a waiting pop (LPUSH with BRPOP).
OldestFirst ==
    \A i \in Range(list), j \in HandedOut(Queue) : j < i

\* A group is served every entry, and the queue every job, in order.
ServedInOrder == NoneSkipped /\ OldestFirst

=============================================================================
