-------------------------- MODULE NotebookProofs --------------------------
(***************************************************************************)
(* What the parts of MCNotebooks keep true for every value of their        *)
(* constants, one part after the other.                                    *)
(***************************************************************************)
EXTENDS MCNotebooks, RabbitQueuesProofs, SequenceLemmas, FiniteSetTheorems, TLAPS

-----------------------------------------------------------------------------
(* The token bucket, for every number of checks, every rate and capacity and *)
(* every order in which checks overtake each other.                          *)

(* Between a granted check and now: what has been taken since it, together   *)
(* with what the bucket holds, is a full bucket and what was refilled        *)
(* between the two readings of the clock, at most.  BucketBound follows when *)
(* the next check takes of what the bucket holds.                            *)
TakenSince ==
    \A a \in Granted :
       /\ exists
       /\ taker[a].requested \in Nat \ {0}
       /\ grant[a] + taker[a].requested <= spent
       /\ spent - grant[a] + bucket.tokens
             <= MaxTokens + RefillRate * (bucket.last_refill - taker[a].now)

(* A check in flight asks for one token or more, so two of them differ in   *)
(* what had been taken before.                                               *)
SentAsked == \A c \in Takers : taker[c].stage = "sent" => taker[c].requested \in Nat \ {0}

(* The inductive invariant. *)
BucketInv == BucketTypeOK /\ SentAsked /\ TakenSince /\ BucketBound

-----------------------------------------------------------------------------
LEMMA RefillAdds ==
    ASSUME NEW x \in Nat, NEW y \in Nat, NEW z \in Nat
    PROVE  (x - y) * RefillRate + RefillRate * (y - z) = RefillRate * (x - z)
BY BucketAssumption

(* What the script finds after the refill: no more than a full bucket, and no
   more than what was left and what the elapsed time adds, or takes. *)
LEMMA RefilledBounds ==
    ASSUME BucketTypeOK, NEW t \in Nat
    PROVE  /\ Refilled(t) \in Int
           /\ Refilled(t) <= MaxTokens
           /\ exists => Refilled(t) <= bucket.tokens + (t - bucket.last_refill) * RefillRate
<1>1. Found(t).tokens \in Int /\ Found(t).last_refill \in Nat
  BY BucketAssumption DEF BucketTypeOK, Found
<1>2. (t - Found(t).last_refill) * RefillRate \in Int
  BY <1>1, BucketAssumption
<1>3. DEFINE full == Found(t).tokens + (t - Found(t).last_refill) * RefillRate
<1>4. full \in Int
  BY <1>1, <1>2
<1>5. Refilled(t) = IF MaxTokens <= full THEN MaxTokens ELSE full
  BY DEF Refilled, Lesser
<1>6. exists => full = bucket.tokens + (t - bucket.last_refill) * RefillRate
  BY DEF Found
<1>7. QED
  <2> HIDE DEF full
  <2> QED BY <1>4, <1>5, <1>6, BucketAssumption

(* The script: each granted check sees what was taken since it grow by as much
   as the bucket shrinks. *)
LEMMA EvaluateKeeps ==
    ASSUME BucketInv, NEW c \in Takers, Evaluate(c)
    PROVE  BucketInv'
<1> DEFINE instant == taker[c].now
           requested == taker[c].requested
           granted == Refilled(instant) >= requested
<1>1. instant \in Nat /\ requested \in Nat \ {0}
  BY DEF BucketInv, BucketTypeOK, SentAsked, Evaluate
<1>2. /\ Refilled(instant) \in Int /\ Refilled(instant) <= MaxTokens
      /\ exists => Refilled(instant) <= bucket.tokens + (instant - bucket.last_refill) * RefillRate
  BY <1>1, RefilledBounds DEF BucketInv
<1>3. /\ exists' = TRUE
      /\ bucket' = [tokens |-> Refilled(instant) - (IF granted THEN requested ELSE 0),
                    last_refill |-> instant]
      /\ taker' = [taker EXCEPT ![c].stage = IF granted THEN "granted" ELSE "denied"]
      /\ spent' = spent + (IF granted THEN requested ELSE 0)
      /\ grant' = IF granted THEN [grant EXCEPT ![c] = spent] ELSE grant
      /\ ticks' = ticks /\ taker[c].stage = "sent"
  BY DEF Evaluate
<1> HIDE DEF instant, requested, granted
<1>4. granted \in BOOLEAN /\ (granted <=> Refilled(instant) >= requested)
  BY DEF granted
<1>5. BucketTypeOK'
  BY <1>1, <1>2, <1>3, <1>4 DEF BucketInv, BucketTypeOK
<1>6. /\ \A d \in Takers : taker'[d].requested = taker[d].requested /\ taker'[d].now = taker[d].now
      /\ \A d \in Takers \ {c} : taker'[d].stage = taker[d].stage
      /\ taker'[c].stage = IF granted THEN "granted" ELSE "denied"
  BY <1>3 DEF BucketInv, BucketTypeOK
<1>7. SentAsked'
  BY <1>3, <1>6, <1>4 DEF BucketInv, SentAsked
<1>8. /\ bucket'.tokens = Refilled(instant) - (IF granted THEN requested ELSE 0)
      /\ bucket'.last_refill = instant
  BY <1>3
<1>9. ASSUME NEW a \in Granted', a # c
      PROVE  /\ a \in Granted /\ grant'[a] = grant[a]
             /\ spent' - grant[a] + bucket'.tokens
                   <= MaxTokens + RefillRate * (instant - taker[a].now)
  <2>1. a \in Granted /\ a \in Takers /\ grant'[a] = grant[a]
    BY <1>3, <1>4, <1>6, <1>9 DEF Granted, BucketInv, BucketTypeOK
  <2>2. /\ spent - grant[a] + bucket.tokens
              <= MaxTokens + RefillRate * (bucket.last_refill - taker[a].now)
        /\ exists
    BY <2>1 DEF BucketInv, TakenSince
  <2>3. spent' + bucket'.tokens = spent + Refilled(instant)
    BY <1>1, <1>2, <1>3, <1>4, <1>8 DEF BucketInv, BucketTypeOK
  <2>4. /\ taker[a].now \in Nat /\ bucket.last_refill \in Nat /\ bucket.tokens \in Int
        /\ spent \in Nat /\ grant[a] \in Nat /\ spent' \in Nat /\ bucket'.tokens \in Int
    BY <1>5, <2>1 DEF BucketInv, BucketTypeOK
  <2>5. (instant - bucket.last_refill) * RefillRate + RefillRate * (bucket.last_refill - taker[a].now)
          = RefillRate * (instant - taker[a].now)
    BY <1>1, <2>4, RefillAdds, ZenonT(30)
  <2>6. /\ (instant - bucket.last_refill) * RefillRate \in Int
        /\ RefillRate * (bucket.last_refill - taker[a].now) \in Int
        /\ RefillRate * (instant - taker[a].now) \in Int
    BY <1>1, <2>4, BucketAssumption
  <2>7. QED
    BY <1>2, <2>1, <2>2, <2>3, <2>4, <2>5, <2>6, BucketAssumption
<1>10. ASSUME c \in Granted'
       PROVE  /\ granted /\ grant'[c] = spent
              /\ spent' = spent + requested /\ bucket'.tokens = Refilled(instant) - requested
              /\ RefillRate * (instant - instant) = 0
  BY <1>1, <1>3, <1>4, <1>6, <1>8, <1>10, BucketAssumption DEF Granted, BucketInv, BucketTypeOK
<1>11. spent \in Nat /\ spent' \in Nat /\ spent <= spent'
  BY <1>1, <1>3, <1>4, <1>5 DEF BucketInv, BucketTypeOK
<1>12. TakenSince'
  <2> SUFFICES ASSUME NEW a \in Granted'
               PROVE  /\ exists'
                      /\ taker'[a].requested \in Nat \ {0}
                      /\ grant'[a] + taker'[a].requested <= spent'
                      /\ spent' - grant'[a] + bucket'.tokens
                            <= MaxTokens + RefillRate * (bucket'.last_refill - taker'[a].now)
    BY DEF TakenSince
  <2>1. CASE a = c
    <3>1. /\ grant'[c] = spent /\ spent' = spent + requested /\ bucket'.last_refill = instant
          /\ bucket'.tokens = Refilled(instant) - requested
          /\ RefillRate * (instant - instant) = 0
      BY <2>1, <1>8, <1>10
    <3>2. taker'[c].now = instant /\ taker'[c].requested = requested
      BY <1>6 DEF instant, requested
    <3>3. QED
      BY <2>1, <3>1, <3>2, <1>1, <1>2, <1>3, <1>11, BucketAssumption
  <2>2. CASE a # c
    <3>1. /\ a \in Granted /\ a \in Takers /\ grant'[a] = grant[a]
          /\ spent' - grant[a] + bucket'.tokens
                   <= MaxTokens + RefillRate * (instant - taker[a].now)
      BY <1>9, <2>2 DEF Granted
    <3>2. /\ taker[a].requested \in Nat \ {0} /\ grant[a] \in Nat
          /\ grant[a] + taker[a].requested <= spent
      BY <3>1 DEF BucketInv, TakenSince, BucketTypeOK
    <3>3. QED
      BY <1>3, <1>6, <1>8, <1>11, <3>1, <3>2
  <2>3. QED
    BY <2>1, <2>2
<1>13. BucketBound'
  <2> SUFFICES ASSUME NEW a \in Granted', NEW b \in Granted', grant'[a] <= grant'[b]
               PROVE  grant'[b] + taker'[b].requested - grant'[a]
                        <= MaxTokens + RefillRate * (taker'[b].now - taker'[a].now)
    BY DEF BucketBound
  <2>0. a \in Takers /\ b \in Takers
    BY DEF Granted
  <2>1. CASE a # c /\ b # c
    <3>1. a \in Granted /\ b \in Granted /\ grant'[a] = grant[a] /\ grant'[b] = grant[b]
      BY <2>1, <1>9
    <3>2. QED
      BY <3>1, <2>0, <1>6 DEF BucketInv, BucketBound
  <2>2. CASE a # c /\ b = c
    <3>1. /\ grant'[a] = grant[a]
          /\ spent' - grant[a] + bucket'.tokens
                   <= MaxTokens + RefillRate * (instant - taker[a].now)
      BY <1>9, <2>2
    <3>2. /\ grant'[c] = spent /\ spent' = spent + requested
          /\ bucket'.tokens = Refilled(instant) - requested /\ Refilled(instant) >= requested
      BY <1>10, <1>4, <2>2
    <3>3. grant[a] \in Nat /\ taker[a].now \in Nat /\ RefillRate * (instant - taker[a].now) \in Int
      BY <2>0, <1>1, BucketAssumption DEF BucketInv, BucketTypeOK
    <3>4. taker'[c].now = instant /\ taker'[a].now = taker[a].now /\ taker'[c].requested = requested
      BY <1>6, <2>0 DEF instant, requested
    <3>5. QED
      BY <2>2, <3>1, <3>2, <3>3, <3>4, <1>1, <1>2, <1>11, BucketAssumption
  <2>3. CASE a = c /\ b # c
    <3>1. b \in Granted /\ grant'[b] = grant[b]
      BY <2>3, <1>9
    <3>2. grant[b] + taker[b].requested <= spent /\ taker[b].requested \in Nat \ {0} /\ grant[b] \in Nat
      BY <3>1, <2>0 DEF BucketInv, TakenSince, BucketTypeOK
    <3>3. grant'[a] = spent
      BY <2>3, <1>10
    <3>4. QED
      BY <3>1, <3>2, <3>3, <1>11
  <2>4. CASE a = c /\ b = c
    <3>1. /\ grant'[c] = spent /\ Refilled(instant) >= requested /\ RefillRate * (instant - instant) = 0
      BY <1>10, <1>4, <2>4
    <3>2. taker'[c].now = instant /\ taker'[c].requested = requested
      BY <1>6 DEF instant, requested
    <3>3. QED
      BY <2>4, <3>1, <3>2, <1>1, <1>2, <1>11, BucketAssumption
  <2>5. QED
    BY <2>1, <2>2, <2>3, <2>4
<1>14. QED
  BY <1>5, <1>7, <1>12, <1>13 DEF BucketInv

(* The inductive invariant holds. *)
THEOREM BucketInvariance == BucketSpec => []BucketInv
<1>1. BucketInit => BucketInv
  <2> SUFFICES ASSUME BucketInit PROVE BucketInv
    OBVIOUS
  <2>1. BucketTypeOK
    <3>1. /\ bucket = [tokens |-> 0, last_refill |-> 0]
          /\ taker = [c \in Takers |-> [stage |-> "idle", requested |-> 0, now |-> 0]]
          /\ grant = [c \in Takers |-> 0]
          /\ ticks = 0 /\ spent = 0 /\ exists = FALSE
      BY DEF BucketInit
    <3>2. /\ bucket \in [tokens : Int, last_refill : Nat]
          /\ [stage |-> "idle", requested |-> 0, now |-> 0]
               \in [stage : {"idle", "sent", "granted", "denied"}, requested : Nat, now : Nat]
      BY <3>1
    <3>3. QED
      BY <3>1, <3>2 DEF BucketTypeOK
  <2>2. \A c \in Takers : taker[c].stage = "idle"
    BY DEF BucketInit
  <2>3. Granted = {} /\ SentAsked
    BY <2>2 DEF Granted, SentAsked
  <2>4. QED
    BY <2>1, <2>3 DEF BucketInv, TakenSince, BucketBound
<1>2. BucketInv /\ [BucketNext]_bucketVars => BucketInv'
  <2> SUFFICES ASSUME BucketInv, [BucketNext]_bucketVars PROVE BucketInv'
    OBVIOUS
  <2>1. ASSUME NEW c \in Takers, SendCheck(c) PROVE BucketInv'
    <3>1. PICK n \in Asked :
            taker' = [taker EXCEPT ![c] = [stage |-> "sent", requested |-> n, now |-> ticks]]
      BY <2>1 DEF SendCheck
    <3>2. n \in Nat \ {0} /\ ticks \in Nat
      BY BucketAssumption DEF BucketInv, BucketTypeOK
    <3>3. /\ taker'[c] = [stage |-> "sent", requested |-> n, now |-> ticks]
          /\ \A d \in Takers \ {c} : taker'[d] = taker[d]
          /\ taker' \in [Takers -> [stage : {"idle", "sent", "granted", "denied"},
                                    requested : Nat, now : Nat]]
      BY <3>1, <3>2 DEF BucketInv, BucketTypeOK
    <3>4. /\ UNCHANGED <<ticks, bucket, exists, spent, grant>>
          /\ taker[c].stage = "idle"
      BY <2>1 DEF SendCheck
    <3>5. Granted' = Granted /\ c \notin Granted
      BY <3>3, <3>4 DEF Granted
    <3>6. BucketTypeOK' /\ SentAsked'
      BY <3>2, <3>3, <3>4 DEF BucketInv, BucketTypeOK, SentAsked
    <3>7. TakenSince' /\ BucketBound'
      BY <3>3, <3>4, <3>5 DEF BucketInv, TakenSince, BucketBound, Granted
    <3>8. QED
      BY <3>6, <3>7 DEF BucketInv
  <2>2. ASSUME NEW c \in Takers, Evaluate(c) PROVE BucketInv'
    BY <2>2, EvaluateKeeps
  <2>3. CASE Elapse
    BY <2>3 DEF Elapse, BucketInv, BucketTypeOK, SentAsked, TakenSince, BucketBound, Granted
  <2>4. CASE UNCHANGED bucketVars
    BY <2>4 DEF bucketVars, BucketInv, BucketTypeOK, SentAsked, TakenSince, BucketBound, Granted
  <2>5. QED
    BY <2>1, <2>2, <2>3, <2>4 DEF BucketNext
<1>3. QED
  BY <1>1, <1>2, PTL DEF BucketSpec

(* No stretch of granted checks takes more than a full bucket and what was
   refilled between its first and its last reading of the clock. *)
THEOREM BucketAlwaysBounded == BucketSpec => []BucketBound
<1>1. BucketInv => BucketBound
  BY DEF BucketInv
<1> QED
  BY <1>1, BucketInvariance, PTL

-----------------------------------------------------------------------------
(***************************************************************************)
(* The memory searched by meaning: who finds an element finds its text, for*)
(* any number of stores, queries, elements and topics.                     *)
(***************************************************************************)
(* What a store or a query works on, it has. *)
InWork ==
    /\ \A s \in Stores : store[s].at \in {"vector", "text"} =>
          store[s].id \in Elements /\ store[s].topic \in Topics
    /\ \A q \in Queries :
          /\ query[q].at \in {"search", "read", "save", "add"} => query[q].topic \in Topics
          /\ query[q].at = "read" => query[q].found \in Ids

(* An element that is not excused has one store between its two commands, at
   most, and its vector is from that store, or gone with the set. *)
StoredByOne ==
    \A s \in Stores : store[s].at = "text" /\ store[s].id \notin excused =>
        /\ meaning[store[s].id] \in {Nil, store[s].topic}
        /\ \A t \in Stores : store[t].at = "text" /\ store[t].id = store[s].id => s = t

(* A query sets its text before its vector, and this is the last it does. *)
TextFirst ==
    \A q \in Queries :
        /\ query[q].at = "add" /\ q \notin excused => text[q] = query[q].topic
        /\ meaning[q] # Nil => query[q].at = "done"

MemoryInv == MemoryTypeOK /\ InWork /\ StoredByOne /\ TextFirst /\ FoundHasText

LEMMA MemoryInitInv == MemoryInit => MemoryInv
<1> SUFFICES ASSUME MemoryInit PROVE MemoryInv
  OBVIOUS
<1>1. MemoryTypeOK
  BY DEF MemoryInit, MemoryTypeOK
<1> QED
  BY <1>1 DEF MemoryInit, MemoryInv, InWork, StoredByOne, TextFirst, FoundHasText, Ids

LEMMA StoringInv ==
    ASSUME MemoryInv, NEW s \in Stores, Storing(s)
    PROVE  MemoryInv'
<1> DEFINE i == store[s].id
           t == store[s].topic
<1> USE DEF MemoryInv
<1>0. query' = query /\ excused \subseteq excused'
  BY DEF Storing, BeginStore, StoreVector, StoreText, Excuse
<1>1. CASE BeginStore(s)
  <2>1. PICK e \in Elements, u \in Topics :
          store' = [store EXCEPT ![s] = [at |-> "vector", id |-> e, topic |-> u]]
    BY <1>1 DEF BeginStore
  <2>2. UNCHANGED <<meaning, text, excused>>
    BY <1>1 DEF BeginStore
  <2>3. store[s].at = "idle"
    BY <1>1 DEF BeginStore
  <2>4. MemoryTypeOK'
    BY <1>0, <2>1, <2>2 DEF MemoryTypeOK
  <2>5. \A o \in Stores : store'[o] = IF o = s THEN [at |-> "vector", id |-> e, topic |-> u]
                                      ELSE store[o]
    BY <2>1 DEF MemoryTypeOK
  <2>6. InWork' /\ StoredByOne' /\ TextFirst'
    BY <1>0, <2>2, <2>5 DEF InWork, StoredByOne, TextFirst
  <2>7. FoundHasText'
    BY <2>2, <2>3, <2>5 DEF FoundHasText, BeingStored
  <2> QED
    BY <2>4, <2>6, <2>7
<1>2. CASE StoreVector(s)
  <2>1. store[s].at = "vector" /\ i \in Elements /\ t \in Topics /\ i \in Ids
    BY <1>2 DEF StoreVector, InWork, Ids
  <2>2. UNCHANGED <<text, query>>
    BY <1>2 DEF StoreVector
  <2>3. PICK to \in {"text", "done"} :
          /\ store' = [store EXCEPT ![s].at = to]
          /\ \/ meaning' = meaning /\ to = "done" /\ excused' = excused
             \/ /\ meaning' = [meaning EXCEPT ![i] = t]
                /\ i \in excused' \/ to = "text"
                /\ ~Overlapped(s) \/ i \in excused'
    BY <1>2 DEF StoreVector, StoreGoes, Excuse
  <2>4. \A o \in Stores :
           /\ store'[o].id = store[o].id /\ store'[o].topic = store[o].topic
           /\ store'[o].at = IF o = s THEN to ELSE store[o].at
    BY <2>3 DEF MemoryTypeOK
  <2>5. \/ meaning' = meaning
        \/ meaning' = [meaning EXCEPT ![i] = t]
    BY <1>2 DEF StoreVector
  <2>7. excused' \subseteq Ids
    BY <1>2, <2>1 DEF StoreVector, Excuse, MemoryTypeOK
  <2>8. MemoryTypeOK'
    <3>1. store' \in [Stores -> [at : {"idle", "vector", "text", "done"},
                                 id : Elements \cup {Nil}, topic : Topics \cup {Nil}]]
      BY <2>3 DEF MemoryTypeOK
    <3>2. meaning' \in [Ids -> Topics \cup {Nil}]
      BY <2>1, <2>5 DEF MemoryTypeOK
    <3> QED
      BY <2>2, <2>7, <3>1, <3>2 DEF MemoryTypeOK
  <2>9. InWork'
    BY <1>0, <2>1, <2>4 DEF InWork
  <2>10. \A j \in Ids : meaning'[j] = meaning[j] \/ (j = i /\ meaning'[j] = t)
    BY <2>5 DEF MemoryTypeOK
  <2>11. TextFirst'
    BY <1>0, <2>1, <2>2, <2>10, MemoryAssumption DEF TextFirst, Ids
  <2>12. CASE meaning' = meaning /\ to = "done" /\ excused' = excused
    BY <2>1, <2>2, <2>4, <2>8, <2>9, <2>11, <2>12 DEF StoredByOne, FoundHasText, BeingStored
  <2>13. CASE /\ meaning' = [meaning EXCEPT ![i] = t]
              /\ i \in excused' \/ to = "text"
              /\ ~Overlapped(s) \/ i \in excused'
    <3>1. StoredByOne'
      <4> SUFFICES ASSUME NEW o \in Stores, store'[o].at = "text", store'[o].id \notin excused'
                   PROVE  /\ meaning'[store'[o].id] \in {Nil, store'[o].topic}
                          /\ \A u \in Stores :
                                store'[u].at = "text" /\ store'[u].id = store'[o].id => o = u
        BY DEF StoredByOne
      <4>1. CASE store[o].id = i
        <5>1. i \notin excused' /\ ~Overlapped(s)
          BY <2>4, <2>13, <4>1
        <5>2. \A u \in Stores \ {s} : ~(store[u].at = "text" /\ store[u].id = i)
          BY <5>1 DEF Overlapped
        <5>3. o = s
          BY <2>4, <4>1, <5>2
        <5>4. meaning'[i] = t
          BY <2>1, <2>13 DEF MemoryTypeOK
        <5> QED
          BY <2>4, <4>1, <5>2, <5>3, <5>4
      <4>2. CASE store[o].id # i
        <5>1. o # s /\ store[o].at = "text" /\ store[o].id \in Ids
          BY <2>4, <4>2 DEF InWork, Ids
        <5>2. meaning'[store[o].id] = meaning[store[o].id]
          BY <2>10, <4>2, <5>1
        <5> QED
          BY <1>0, <2>4, <4>2, <5>1, <5>2 DEF StoredByOne
      <4> QED
        BY <4>1, <4>2
    <3>2. FoundHasText'
      <4> SUFFICES ASSUME NEW j \in Ids \ excused', meaning'[j] # Nil, ~BeingStored(j)'
                   PROVE  text'[j] = meaning'[j]
        BY DEF FoundHasText
      <4>1. j # i
        BY <2>4, <2>13 DEF BeingStored
      <4>2. meaning'[j] = meaning[j] /\ ~BeingStored(j)
        BY <2>1, <2>4, <2>10, <4>1 DEF BeingStored
      <4> QED
        BY <1>0, <2>2, <4>2 DEF FoundHasText
    <3> QED
      BY <2>8, <2>9, <2>11, <3>1, <3>2
  <2> QED
    BY <2>3, <2>12, <2>13
<1>3. CASE StoreText(s)
  <2>1. store[s].at = "text" /\ i \in Elements /\ t \in Topics /\ i \in Ids
    BY <1>3 DEF StoreText, InWork, Ids
  <2>2. UNCHANGED <<meaning, query>> /\ store' = [store EXCEPT ![s].at = "done"]
    BY <1>3 DEF StoreText, StoreGoes
  <2>3. \A o \in Stores :
           /\ store'[o].id = store[o].id /\ store'[o].topic = store[o].topic
           /\ store'[o].at = IF o = s THEN "done" ELSE store[o].at
    BY <2>2 DEF MemoryTypeOK
  <2>4. text' = [text EXCEPT ![i] = t] \/ (text' = text /\ i \in excused')
    BY <1>3 DEF StoreText, Excuse
  <2>5. excused' \subseteq Ids
    BY <1>3, <2>1 DEF StoreText, Excuse, MemoryTypeOK
  <2>6. MemoryTypeOK'
    BY <2>1, <2>2, <2>4, <2>5 DEF MemoryTypeOK
  <2>7. InWork'
    BY <1>0, <2>3 DEF InWork
  <2>8. StoredByOne'
    BY <1>0, <2>2, <2>3 DEF StoredByOne
  <2>9. \A j \in Ids : text'[j] = text[j] \/ (j = i /\ text'[j] = t)
    BY <2>4 DEF MemoryTypeOK
  <2>10. TextFirst'
    BY <1>0, <2>1, <2>2, <2>9, MemoryAssumption DEF TextFirst, Ids
  <2>11. FoundHasText'
    <3> SUFFICES ASSUME NEW j \in Ids \ excused', meaning[j] # Nil, ~BeingStored(j)'
                 PROVE  text'[j] = meaning[j]
      BY <2>2 DEF FoundHasText
    <3>1. CASE j = i
      <4>1. meaning[i] = t
        BY <1>0, <2>1, <3>1 DEF StoredByOne
      <4> QED
        BY <2>1, <2>4, <3>1, <4>1 DEF MemoryTypeOK
    <3>2. CASE j # i
      <4>1. ~BeingStored(j)
        BY <2>3, <3>2 DEF BeingStored
      <4> QED
        BY <1>0, <2>9, <3>2, <4>1 DEF FoundHasText
    <3> QED
      BY <3>1, <3>2
  <2> QED
    BY <2>6, <2>7, <2>8, <2>10, <2>11
<1> QED
  BY <1>1, <1>2, <1>3 DEF Storing

(* A query touches its own element only, which no store does. *)
LEMMA AskingInv ==
    ASSUME MemoryInv, NEW q \in Queries, Asking(q) \/ TextExpires(q)
    PROVE  MemoryInv'
<1> USE DEF MemoryInv
<1>1. store' = store /\ excused \subseteq excused' /\ q \in Ids
  BY DEF Asking, Ask, Search, ReadText, SaveAnswer, AddAnswer, QueryRaises, TextExpires, Excuse,
         Ids
<1>2. MemoryTypeOK' /\ InWork'
  <2>1. CASE Ask(q)
    <3>1. PICK t \in Topics :
            query' = [query EXCEPT ![q].at = "search", ![q].topic = t]
      BY <2>1 DEF Ask
    <3>2. \A p \in Queries :
             /\ query'[p].at = IF p = q THEN "search" ELSE query[p].at
             /\ query'[p].topic = IF p = q THEN t ELSE query[p].topic
             /\ query'[p].found = query[p].found
      BY <3>1 DEF MemoryTypeOK
    <3>3. UNCHANGED <<meaning, text, store, excused>>
      BY <2>1 DEF Ask
    <3>4. query' \in [Queries ->
                        [at : {"idle", "search", "read", "save", "add", "done"},
                         topic : Topics \cup {Nil}, found : Ids \cup {Nil},
                         answer : Topics \cup {Nil}]]
      <4> DEFINE R == [at : {"idle", "search", "read", "save", "add", "done"},
                       topic : Topics \cup {Nil}, found : Ids \cup {Nil},
                       answer : Topics \cup {Nil}]
                 searching == [query EXCEPT ![q].at = "search"]
      <4>1. searching \in [Queries -> R]
        BY DEF MemoryTypeOK
      <4>2. query' = [searching EXCEPT ![q].topic = t]
        BY <3>1
      <4> HIDE DEF searching
      <4> QED
        BY <4>1, <4>2
    <3>5. MemoryTypeOK'
      BY <3>3, <3>4 DEF MemoryTypeOK
    <3> QED
      BY <3>2, <3>3, <3>5 DEF InWork
  <2>2. CASE Search(q)
    BY <2>2, SMTT(30) DEF Search, QueryGoes, MemoryTypeOK, InWork
  <2>3. CASE ReadText(q)
    <3>1. query[q].found \in Ids /\ query[q].at = "read" /\ UNCHANGED <<meaning, text, store, excused>>
      BY <2>3 DEF ReadText, InWork
    <3>2. PICK a \in Topics \cup {Nil} :
            query' = [query EXCEPT ![q].at = "done", ![q].answer = a]
      BY <2>3, <3>1 DEF ReadText, MemoryTypeOK
    <3> DEFINE R == [at : {"idle", "search", "read", "save", "add", "done"},
                     topic : Topics \cup {Nil}, found : Ids \cup {Nil},
                     answer : Topics \cup {Nil}]
               read == [query EXCEPT ![q].at = "done"]
    <3>3. read \in [Queries -> R]
      BY DEF MemoryTypeOK
    <3>4. query' = [read EXCEPT ![q].answer = a]
      BY <3>2
    <3>5. \A p \in Queries :
             /\ query'[p].at = IF p = q THEN "done" ELSE query[p].at
             /\ query'[p].topic = query[p].topic
             /\ query'[p].found = query[p].found
      BY <3>2 DEF MemoryTypeOK
    <3> HIDE DEF read
    <3>6. query' \in [Queries -> R]
      BY <3>3, <3>4
    <3>7. MemoryTypeOK'
      BY <3>1, <3>6 DEF MemoryTypeOK
    <3> QED
      BY <3>1, <3>5, <3>7 DEF InWork
  <2>4. CASE SaveAnswer(q)
    <3>1. PICK to \in {"add", "done"} : query' = [query EXCEPT ![q].at = to]
      BY <2>4 DEF SaveAnswer, QueryGoes
    <3>2. /\ text' = [text EXCEPT ![q] = query[q].topic] /\ query[q].topic \in Topics
          /\ UNCHANGED <<meaning, store, excused>>
      BY <2>4 DEF SaveAnswer, InWork
    <3>3. MemoryTypeOK'
      BY <1>1, <3>1, <3>2 DEF MemoryTypeOK
    <3> QED
      BY <2>4, <3>1, <3>2, <3>3 DEF InWork, MemoryTypeOK, SaveAnswer
  <2>5. CASE AddAnswer(q)
    BY <2>5, <1>1 DEF AddAnswer, QueryGoes, MemoryTypeOK, InWork
  <2>6. CASE QueryRaises(q)
    BY <2>6 DEF QueryRaises, QueryGoes, MemoryTypeOK, InWork
  <2>7. CASE TextExpires(q)
    BY <2>7, <1>1 DEF TextExpires, Excuse, MemoryTypeOK, InWork
  <2> QED
    BY <2>1, <2>2, <2>3, <2>4, <2>5, <2>6, <2>7 DEF Asking
<1>3. \A j \in Ids \ {q} : meaning'[j] = meaning[j] /\ text'[j] = text[j]
  BY DEF Asking, Ask, Search, ReadText, SaveAnswer, AddAnswer, QueryRaises, TextExpires,
         MemoryTypeOK
<1>4. \A p \in Queries \ {q} : query'[p] = query[p]
  BY DEF Asking, Ask, Search, ReadText, SaveAnswer, AddAnswer, QueryRaises, TextExpires,
         QueryGoes, MemoryTypeOK
<1>5. StoredByOne'
  <2>1. \A s \in Stores : store[s].at = "text" => store[s].id \in Ids \ {q}
    BY MemoryAssumption DEF InWork, Ids
  <2> QED
    BY <1>1, <1>3, <2>1 DEF StoredByOne
<1>6. /\ query'[q].at = "add" /\ q \notin excused' => text'[q] = query'[q].topic
      /\ meaning'[q] # Nil => query'[q].at = "done"
      /\ q \notin excused' /\ meaning'[q] # Nil => text'[q] = meaning'[q]
  <2>0. ~BeingStored(q)
    BY MemoryAssumption DEF BeingStored, InWork
  <2>1. q \notin excused /\ meaning[q] # Nil => text[q] = meaning[q]
    BY <1>1, <2>0 DEF FoundHasText
  <2>2. CASE Ask(q) \/ Search(q) \/ ReadText(q) \/ QueryRaises(q)
    <3>1. UNCHANGED <<meaning, text, excused>> /\ query[q].at # "done"
          /\ query'[q].at # "add"
      BY <2>2 DEF Ask, Search, ReadText, QueryRaises, QueryGoes, MemoryTypeOK
    <3> QED
      BY <2>1, <3>1 DEF TextFirst
  <2>3. CASE SaveAnswer(q)
    BY <2>3, <1>1 DEF SaveAnswer, QueryGoes, MemoryTypeOK, TextFirst
  <2>4. CASE AddAnswer(q)
    BY <2>4, <1>1 DEF AddAnswer, QueryGoes, MemoryTypeOK, TextFirst
  <2>5. CASE TextExpires(q)
    BY <2>5 DEF TextExpires, Excuse, TextFirst
  <2> QED
    BY <2>2, <2>3, <2>4, <2>5 DEF Asking
<1>7. TextFirst'
  BY <1>1, <1>3, <1>4, <1>6 DEF TextFirst, Ids
<1>8. FoundHasText'
  BY <1>1, <1>3, <1>6 DEF FoundHasText, BeingStored
<1> QED
  BY <1>2, <1>5, <1>7, <1>8

LEMMA MemoryNextInv == MemoryInv /\ [MemoryNext]_memoryVars => MemoryInv'
<1> SUFFICES ASSUME MemoryInv, [MemoryNext]_memoryVars PROVE MemoryInv'
  OBVIOUS
<1>1. CASE DeleteSet
  BY <1>1 DEF DeleteSet, MemoryInv, MemoryTypeOK, InWork, StoredByOne, TextFirst, FoundHasText,
              Ids
<1>2. CASE UNCHANGED memoryVars
  BY <1>2 DEF memoryVars, MemoryInv, MemoryTypeOK, InWork, StoredByOne, TextFirst,
              FoundHasText, BeingStored
<1> QED
  BY <1>1, <1>2, StoringInv, AskingInv DEF MemoryNext

(* Who finds an element in the vector set reads the text its vector stands for,
   whatever stores and queries do at the same time, unless a store of it was
   cut short or overlapped by another one or the text has expired. *)
THEOREM FoundIsReadable == MemorySpec => []FoundHasText
<1>1. MemoryInv => FoundHasText
  BY DEF MemoryInv
<1> QED
  BY MemoryInitInv, MemoryNextInv, <1>1, PTL DEF MemorySpec

-----------------------------------------------------------------------------
(***************************************************************************)
(* The cache in front of changing data, for any number of readers, any time*)
(* to live and any latency.                                                *)
(***************************************************************************)
Replaced(v) == v < LastVersion /\ Known(v + 1)

(* The versions become current one after the other. *)
InTurn ==
    \E c \in Versions :
       /\ \A v \in Versions : Known(v) <=> v <= c
       /\ \A v \in Versions : Known(v) => since[v] <= tick

(* What is in hand was read at most Latency ago, what is under the key was read
   at most Latency before it was set. *)
Recent ==
    /\ \A r \in Readers : reader[r].at \in {"store", "ttl"} =>
          reader[r].tick <= tick /\ tick <= reader[r].tick + Latency
    /\ \A r \in Readers : reader[r].at = "store" /\ Replaced(reader[r].version) =>
          reader[r].tick <= since[reader[r].version + 1]
    /\ \A r \in Readers : reader[r].at = "ttl" /\ Replaced(reader[r].version) =>
          reader[r].tick < since[reader[r].version + 1] + TTL + Latency
    /\ entry # NoEntry =>
          /\ tick < entry.expires /\ entry.expires <= tick + TTL
          /\ Replaced(entry.version) =>
                entry.expires <= since[entry.version + 1] + TTL + Latency

LateBy(s) == IF s.remaining = 0 THEN Latency ELSE 2 * Latency

ServedRecent ==
    \A r \in Readers : served[r] # NotServed =>
        /\ served[r].at <= tick
        /\ Replaced(served[r].version) =>
              served[r].at < since[served[r].version + 1] + TTL + LateBy(served[r])

CacheInv == CacheTypeOK /\ InTurn /\ Recent /\ ServedRecent

LEMMA CacheNumbers ==
    /\ TTL \in Nat /\ TTL > 0 /\ Latency \in Nat /\ LastVersion \in Nat /\ LastTick \in Nat
  BY CacheAssumption

(* The two facts a tick of the clock relates: since is a function to numbers. *)
LEMMA SinceTyped ==
    ASSUME CacheTypeOK
    PROVE  /\ tick \in Nat
           /\ \A v \in Versions : since[v] \in Int
           /\ \A v \in Versions : Known(v) => since[v] \in Nat
           /\ \A v \in Versions : Replaced(v) => v + 1 \in Versions /\ since[v + 1] \in Nat
  BY CacheNumbers DEF CacheTypeOK, Versions, Ticks, Known, Replaced

LEMMA TheCurrent ==
    ASSUME CacheTypeOK, NEW c \in Versions, \A v \in Versions : Known(v) <=> v <= c
    PROVE  /\ Current = c
           /\ ~Replaced(c)
           /\ \A v \in Versions : v < c => Replaced(v)
<1>1. \A v \in Versions : v \in Nat /\ v <= LastVersion
  BY CacheNumbers DEF Versions
<1>2. Known(c) /\ \A w \in Versions : Known(w) => w <= c
  BY <1>1
<1>3. \A d \in Versions : Known(d) /\ (\A w \in Versions : Known(w) => w <= d) => d = c
  BY <1>1, <1>2
<1>4. Current = c
  BY <1>2, <1>3 DEF Current
<1> QED
  BY <1>1, <1>4, CacheNumbers DEF Replaced, Versions

LEMMA CacheInitInv == CacheInit => CacheInv
<1> SUFFICES ASSUME CacheInit PROVE CacheInv
  OBVIOUS
<1> USE CacheNumbers
<1>1. CacheTypeOK
  BY DEF CacheInit, CacheTypeOK, NotServed, Versions, Ticks
<1>2. InTurn
  <2>1. 0 \in Versions /\ \A v \in Versions : Known(v) <=> v <= 0
    BY DEF CacheInit, Versions, Known
  <2>2. \A v \in Versions : Known(v) => since[v] <= tick
    BY DEF CacheInit, Versions, Known
  <2> QED
    BY <2>1, <2>2 DEF InTurn
<1>3. Recent /\ ServedRecent
  BY DEF CacheInit, Recent, ServedRecent
<1> QED
  BY <1>1, <1>2, <1>3 DEF CacheInv

(* A reader's step leaves the data and the clock alone. *)
LEMMA ReadingInv ==
    ASSUME CacheInv, NEW r \in Readers, Reading(r)
    PROVE  CacheInv'
<1> USE CacheNumbers DEF CacheInv
<1>1. UNCHANGED <<tick, since>>
  BY DEF Reading, GetOrMiss, Fetch, Set, FetchRaises, GetValue, GetRemaining, Again
<1>2. /\ \A v : Known(v)' <=> Known(v)
      /\ \A v : Replaced(v)' <=> Replaced(v)
      /\ InTurn'
  BY <1>1 DEF Known, Replaced, InTurn
<1>3. tick \in Nat /\ tick \in Ticks
      /\ \A v \in Versions : Replaced(v) => since[v + 1] \in Nat
  BY SinceTyped DEF CacheTypeOK
<1>4. PICK to \in {"idle", "fetch", "store", "ttl", "done"}, v \in Versions :
         reader' = [reader EXCEPT ![r] = [at |-> to, version |-> v, tick |-> tick]]
         /\ (to = "store" => ~Replaced(v))
         /\ (to = "ttl" => entry # NoEntry /\ v = entry.version)
  <2>1. PICK c \in Versions : \A v \in Versions : Known(v) <=> v <= c
    BY DEF InTurn
  <2>2. Current \in Versions /\ ~Replaced(Current)
    BY <2>1, TheCurrent
  <2>3. 0 \in Versions /\ reader[r].version \in Versions
        /\ (entry # NoEntry => entry.version \in Versions)
    BY DEF Versions, CacheTypeOK
  <2> QED
    BY <2>2, <2>3
       DEF Reading, GetOrMiss, Fetch, Set, FetchRaises, GetValue, GetRemaining, Again, ReaderGoes
<1>5. /\ reader'[r] = [at |-> to, version |-> v, tick |-> tick]
      /\ \A o \in Readers \ {r} : reader'[o] = reader[o]
      /\ reader' \in [Readers -> [at : {"idle", "fetch", "store", "ttl", "done"},
                                  version : Versions, tick : Ticks]]
  BY <1>3, <1>4 DEF CacheTypeOK
<1>6. \/ entry' = entry
      \/ /\ reader[r].at = "store"
         /\ entry' = [version |-> reader[r].version, expires |-> tick + TTL]
  BY DEF Reading, GetOrMiss, Fetch, Set, FetchRaises, GetValue, GetRemaining, Again
<1>7. /\ entry' = NoEntry \/ entry' \in [version : Versions, expires : 1 .. LastTick + TTL]
      /\ entry' # NoEntry =>
           /\ tick < entry'.expires /\ entry'.expires <= tick + TTL
           /\ Replaced(entry'.version) =>
                entry'.expires <= since[entry'.version + 1] + TTL + Latency
  <2>1. CASE entry' = entry
    BY <2>1 DEF CacheTypeOK, Recent
  <2>2. CASE /\ reader[r].at = "store"
             /\ entry' = [version |-> reader[r].version, expires |-> tick + TTL]
    <3>1. reader[r].version \in Versions /\ reader[r].tick \in Nat
      BY DEF CacheTypeOK, Ticks
    <3>2. entry' \in [version : Versions, expires : 1 .. LastTick + TTL]
      BY <1>3, <2>2, <3>1 DEF Ticks
    <3>3. reader[r].tick <= tick /\ tick <= reader[r].tick + Latency
      BY <2>2 DEF Recent
    <3>4. Replaced(reader[r].version) => reader[r].tick <= since[reader[r].version + 1]
      BY <2>2 DEF Recent
    <3> QED
      BY <1>3, <2>2, <3>1, <3>2, <3>3, <3>4
  <2> QED
    BY <1>6, <2>1, <2>2
<1>8. Recent'
  <2>1. to = "ttl" /\ Replaced(v) => tick < since[v + 1] + TTL + Latency
    BY <1>3, <1>4 DEF Recent, CacheTypeOK
  <2>2. tick <= tick + Latency
    BY <1>3
  <2>3. \A o \in Readers : reader'[o].at \in {"store", "ttl"} =>
           reader'[o].tick <= tick /\ tick <= reader'[o].tick + Latency
    BY <1>3, <1>5, <2>2 DEF Recent
  <2>4. \A o \in Readers : reader'[o].at = "store" /\ Replaced(reader'[o].version) =>
           reader'[o].tick <= since[reader'[o].version + 1]
    BY <1>4, <1>5 DEF Recent
  <2>5. \A o \in Readers : reader'[o].at = "ttl" /\ Replaced(reader'[o].version) =>
           reader'[o].tick < since[reader'[o].version + 1] + TTL + Latency
    BY <1>5, <2>1 DEF Recent
  <2> QED
    BY <1>1, <1>2, <1>7, <2>3, <2>4, <2>5 DEF Recent
<1>9. /\ served' \in [Readers -> [version : Versions, at : Ticks, remaining : -2 .. TTL]]
      /\ ServedRecent'
  <2>1. CASE UNCHANGED served
    BY <1>1, <1>2, <2>1 DEF CacheTypeOK, ServedRecent
  <2>2. CASE served' = [served EXCEPT ![r] = NotServed]
    <3>1. NotServed \in [version : Versions, at : Ticks, remaining : -2 .. TTL]
      BY DEF NotServed, Versions, Ticks
    <3> QED
      BY <1>1, <1>2, <2>2, <3>1 DEF CacheTypeOK, ServedRecent
  <2>3. ASSUME NEW w \in Versions, NEW left \in -2 .. TTL,
               served' = [served EXCEPT ![r] = [version |-> w, at |-> tick, remaining |-> left]],
               Replaced(w) => tick < since[w + 1] + TTL + (IF left = 0 THEN Latency
                                                           ELSE 2 * Latency)
        PROVE  /\ served' \in [Readers -> [version : Versions, at : Ticks, remaining : -2 .. TTL]]
               /\ ServedRecent'
    <3>1. served'[r] = [version |-> w, at |-> tick, remaining |-> left]
          /\ \A o \in Readers \ {r} : served'[o] = served[o]
      BY <2>3 DEF CacheTypeOK
    <3>2. \A o \in Readers : served'[o] # NotServed =>
             /\ served'[o].at <= tick
             /\ Replaced(served'[o].version) =>
                   served'[o].at < since[served'[o].version + 1] + TTL + LateBy(served'[o])
      BY <1>3, <2>3, <3>1 DEF ServedRecent, LateBy
    <3>3. served' \in [Readers -> [version : Versions, at : Ticks, remaining : -2 .. TTL]]
      BY <1>3, <2>3 DEF CacheTypeOK
    <3> QED
      BY <1>1, <1>2, <3>2, <3>3 DEF ServedRecent
  <2>4. CASE GetOrMiss(r) /\ entry # NoEntry
    <3>1. entry.version \in Versions /\ entry.expires \in Nat /\ 0 \in -2 .. TTL
      BY <2>4 DEF CacheTypeOK
    <3>2. Replaced(entry.version) => tick < since[entry.version + 1] + TTL + Latency
      BY <1>3, <2>4, <3>1 DEF Recent
    <3> QED
      BY <2>3, <2>4, <3>1, <3>2 DEF GetOrMiss, Serve
  <2>5. CASE Set(r)
    <3>1. reader[r].version \in Versions /\ reader[r].tick \in Nat /\ 0 \in -2 .. TTL
      BY DEF CacheTypeOK, Ticks
    <3>2. Replaced(reader[r].version) => tick < since[reader[r].version + 1] + TTL + Latency
      BY <1>3, <2>5, <3>1 DEF Recent, Set
    <3> QED
      BY <2>3, <2>5, <3>1, <3>2 DEF Set, Serve
  <2>6. CASE GetRemaining(r)
    <3> DEFINE left == IF entry = NoEntry THEN -2 ELSE entry.expires - tick
    <3>1. reader[r].version \in Versions /\ reader[r].tick \in Nat
      BY DEF CacheTypeOK, Ticks
    <3>2. left \in -2 .. TTL /\ left # 0
      BY <1>3 DEF Recent, CacheTypeOK
    <3>3. Replaced(reader[r].version) => tick < since[reader[r].version + 1] + TTL + 2 * Latency
      BY <1>3, <2>6, <3>1 DEF Recent, GetRemaining
    <3>4. served' = [served EXCEPT ![r] = [version |-> reader[r].version, at |-> tick,
                                           remaining |-> left]]
      BY <2>6 DEF GetRemaining, Serve
    <3> HIDE DEF left
    <3> QED
      BY <2>3, <3>1, <3>2, <3>3, <3>4
  <2>7. \/ UNCHANGED served \/ served' = [served EXCEPT ![r] = NotServed]
        \/ GetOrMiss(r) /\ entry # NoEntry
        \/ Set(r) \/ GetRemaining(r)
    BY DEF Reading, GetOrMiss, Fetch, FetchRaises, GetValue, Again
  <2> QED
    BY <2>1, <2>2, <2>4, <2>5, <2>6, <2>7
<1>10. CacheTypeOK'
  BY <1>1, <1>5, <1>7, <1>9 DEF CacheTypeOK
<1> QED
  BY <1>2, <1>8, <1>9, <1>10

LEMMA ChangeInv == CacheInv /\ Change => CacheInv'
<1> SUFFICES ASSUME CacheInv, Change PROVE CacheInv'
  OBVIOUS
<1> USE CacheNumbers DEF CacheInv
<1>1. PICK c \in Versions :
        /\ \A v \in Versions : Known(v) <=> v <= c
        /\ \A v \in Versions : Known(v) => since[v] <= tick
  BY DEF InTurn
<1>2. Current = c /\ ~Replaced(c)
  BY <1>1, TheCurrent
<1>3. /\ c < LastVersion /\ since' = [since EXCEPT ![c + 1] = tick]
      /\ UNCHANGED <<tick, entry, reader, served>>
  BY <1>2 DEF Change
<1>4. c \in Nat /\ c + 1 \in Versions /\ tick \in Nat /\ tick \in Ticks
  BY <1>3, SinceTyped DEF Versions, CacheTypeOK
<1>5. \A v \in Versions : since'[v] = IF v = c + 1 THEN tick ELSE since[v]
  BY <1>3 DEF CacheTypeOK
<1>6. CacheTypeOK'
  BY <1>3, <1>4 DEF CacheTypeOK
<1>7. \A v \in Versions : Known(v)' <=> v <= c + 1
  BY <1>1, <1>4, <1>5 DEF Known, Versions
<1>8. InTurn'
  <2>1. \A v \in Versions : Known(v)' => since'[v] <= tick
    BY <1>1, <1>4, <1>5, SinceTyped DEF Known
  <2> QED
    BY <1>3, <1>4, <1>7, <2>1 DEF InTurn
<1>9. \A v \in Versions :
         Replaced(v)' => \/ Replaced(v) /\ since'[v + 1] = since[v + 1]
                         \/ since'[v + 1] = tick
  <2> SUFFICES ASSUME NEW v \in Versions, Replaced(v)'
               PROVE  \/ Replaced(v) /\ since'[v + 1] = since[v + 1]
                      \/ since'[v + 1] = tick
    OBVIOUS
  <2>1. v \in Nat /\ v < LastVersion /\ v + 1 \in Versions
    BY DEF Replaced, Versions
  <2> QED
    BY <1>5, <2>1 DEF Replaced, Known
<1>10. Recent'
  <2>1. \A r \in Readers : reader[r].version \in Versions /\ reader[r].tick \in Nat
    BY DEF CacheTypeOK, Ticks
  <2>2. entry # NoEntry => entry.version \in Versions /\ entry.expires \in Nat
    BY DEF CacheTypeOK
  <2>3. \A r \in Readers : reader[r].at = "store" /\ Replaced(reader[r].version)' =>
           reader[r].tick <= since'[reader[r].version + 1]
    BY <1>3, <1>9, <2>1 DEF Recent
  <2>4. \A r \in Readers : reader[r].at = "ttl" /\ Replaced(reader[r].version)' =>
           reader[r].tick < since'[reader[r].version + 1] + TTL + Latency
    <3> SUFFICES ASSUME NEW r \in Readers, reader[r].at = "ttl",
                        Replaced(reader[r].version)'
                 PROVE  reader[r].tick < since'[reader[r].version + 1] + TTL + Latency
      OBVIOUS
    <3>1. reader[r].tick <= tick
      BY DEF Recent
    <3>2. Replaced(reader[r].version) =>
             reader[r].tick < since[reader[r].version + 1] + TTL + Latency
      BY DEF Recent
    <3>3. tick < tick + TTL + Latency
      BY <1>4
    <3> QED
      <4> DEFINE v == reader[r].version
      <4>1. \/ Replaced(v) /\ since'[v + 1] = since[v + 1]
            \/ since'[v + 1] = tick
        BY <1>3, <1>9, <2>1
      <4>2. CASE Replaced(v) /\ since'[v + 1] = since[v + 1]
        BY <3>2, <4>2
      <4>3. CASE since'[v + 1] = tick
        BY <1>4, <2>1, <3>1, <3>3, <4>3
      <4> QED
        BY <4>1, <4>2, <4>3
  <2>5. entry # NoEntry /\ Replaced(entry.version)' =>
           entry.expires <= since'[entry.version + 1] + TTL + Latency
    <3> SUFFICES ASSUME entry # NoEntry, Replaced(entry.version)'
                 PROVE  entry.expires <= since'[entry.version + 1] + TTL + Latency
      OBVIOUS
    <3> DEFINE v == entry.version
    <3>1. \/ Replaced(v) /\ since'[v + 1] = since[v + 1]
          \/ since'[v + 1] = tick
      BY <1>3, <1>9, <2>2
    <3>2. CASE Replaced(v) /\ since'[v + 1] = since[v + 1]
      BY <3>2 DEF Recent
    <3>3. CASE since'[v + 1] = tick
      <4>1. entry.expires <= tick + TTL
        BY DEF Recent
      <4> QED
        BY <1>4, <2>2, <3>3, <4>1
    <3> QED
      BY <3>1, <3>2, <3>3
  <2> QED
    BY <1>3, <2>3, <2>4, <2>5 DEF Recent
<1>11. ServedRecent'
  <2> SUFFICES ASSUME NEW r \in Readers, served[r] # NotServed
               PROVE  /\ served[r].at <= tick
                      /\ Replaced(served[r].version)' =>
                           served[r].at < since'[served[r].version + 1] + TTL + LateBy(served[r])
    BY <1>3 DEF ServedRecent, LateBy
  <2>1. served[r].version \in Versions /\ served[r].at \in Nat /\ LateBy(served[r]) \in Nat
    BY DEF CacheTypeOK, Ticks, LateBy
  <2>2. /\ served[r].at <= tick
        /\ Replaced(served[r].version) =>
              served[r].at < since[served[r].version + 1] + TTL + LateBy(served[r])
    BY DEF ServedRecent
  <2> DEFINE v == served[r].version
  <2>3. ASSUME Replaced(v)'
        PROVE  \/ Replaced(v) /\ since'[v + 1] = since[v + 1]
               \/ since'[v + 1] = tick
    BY <1>3, <1>9, <2>1, <2>3
  <2>4. CASE Replaced(v) /\ since'[v + 1] = since[v + 1]
    BY <1>3, <2>2, <2>4
  <2>5. CASE since'[v + 1] = tick
    <3>1. /\ TTL \in Nat \ {0} /\ served[r].at <= tick
          /\ served[r].at \in Nat /\ LateBy(served[r]) \in Nat /\ tick \in Nat
      BY <1>4, <2>1, <2>2, CacheNumbers
    <3> QED
      BY <1>3, <2>5, <3>1
  <2>6. served[r].at <= tick
    BY <2>2
  <2> QED
    BY <2>3, <2>4, <2>5, <2>6
<1> QED
  BY <1>6, <1>8, <1>10, <1>11

LEMMA TickInv == CacheInv /\ TickOn => CacheInv'
<1> SUFFICES ASSUME CacheInv, TickOn PROVE CacheInv'
  OBVIOUS
<1> USE CacheNumbers DEF CacheInv
<1>1. tick \in Nat /\ tick' = tick + 1 /\ tick' \in Ticks /\ UNCHANGED <<since, reader, served>>
  BY SinceTyped DEF TickOn, CacheTypeOK, Ticks
<1>2. \/ entry' = entry /\ (entry # NoEntry => entry.expires # tick + 1)
      \/ entry' = NoEntry
  BY DEF TickOn
<1>3. CacheTypeOK'
  BY <1>1, <1>2 DEF CacheTypeOK
<1>4. (\A v : Known(v)' <=> Known(v)) /\ \A v : Replaced(v)' <=> Replaced(v)
  BY <1>1 DEF Known, Replaced
<1>5. InTurn'
  <2>1. \A v \in Versions : since[v] \in Int
    BY SinceTyped
  <2> QED
    BY <1>1, <1>4, <2>1 DEF InTurn
<1>6. Recent'
  <2>1. \A r \in Readers : reader[r].at \in {"store", "ttl"} =>
           reader[r].tick <= tick + 1 /\ tick + 1 <= reader[r].tick + Latency
    <3> SUFFICES ASSUME NEW r \in Readers, reader[r].at \in {"store", "ttl"}
                 PROVE  reader[r].tick <= tick + 1 /\ tick + 1 <= reader[r].tick + Latency
      OBVIOUS
    <3>1. reader[r].tick \in Nat
      BY DEF CacheTypeOK, Ticks
    <3>2. reader[r].tick <= tick /\ tick - reader[r].tick < Latency
      BY DEF Recent, TickOn
    <3> QED
      BY <1>1, <3>1, <3>2
  <2>2. entry' # NoEntry => tick + 1 < entry'.expires /\ entry'.expires <= tick + 1 + TTL
    BY <1>1, <1>2 DEF Recent, CacheTypeOK
  <2>3. entry' # NoEntry => entry' = entry
    BY <1>2
  <2> QED
    BY <1>1, <1>4, <2>1, <2>2, <2>3 DEF Recent
<1>7. ServedRecent'
  <2>1. \A r \in Readers : served[r].at \in Nat
    BY DEF CacheTypeOK, Ticks
  <2> QED
    BY <1>1, <1>4, <2>1 DEF ServedRecent, LateBy
<1> QED
  BY <1>3, <1>5, <1>6, <1>7

LEMMA CacheNextInv == CacheInv /\ [CacheNext]_cacheVars => CacheInv'
<1> SUFFICES ASSUME CacheInv, [CacheNext]_cacheVars PROVE CacheInv'
  OBVIOUS
<1>1. CASE Invalidate
  BY <1>1 DEF Invalidate, CacheInv, CacheTypeOK, InTurn, Recent, ServedRecent, Known, Replaced,
              LateBy
<1>2. CASE UNCHANGED cacheVars
  BY <1>2 DEF cacheVars, CacheInv, CacheTypeOK, InTurn, Recent, ServedRecent, Known, Replaced,
              LateBy
<1> QED
  BY <1>1, <1>2, ReadingInv, ChangeInv, TickInv DEF CacheNext

(* What get_or_fetch returns was current within the time to live and the
   latency of a fetch, what cache_get returns within one latency more; and who
   keeps it for as long as cache_get says keeps it for less than twice that. *)
THEOREM StaleNoLonger == CacheSpec => []StaleAtMost
<1>1. ASSUME CacheInv PROVE StaleAtMost
  <2> USE CacheNumbers
  <2> SUFFICES ASSUME NEW r \in Readers, served[r] # NotServed
               PROVE  /\ StaleFor(served[r].version, served[r].at) < TTL + LateBy(served[r])
                      /\ served[r].remaining > 0 =>
                           StaleFor(served[r].version, served[r].at + served[r].remaining)
                              < 2 * (TTL + Latency)
    BY DEF StaleAtMost, LateBy
  <2>1. /\ served[r].version \in Versions /\ served[r].at \in Nat
        /\ served[r].remaining \in Int /\ served[r].remaining <= TTL
        /\ LateBy(served[r]) \in Nat /\ LateBy(served[r]) <= 2 * Latency
    BY <1>1 DEF CacheInv, CacheTypeOK, Ticks, LateBy
  <2>2. Replaced(served[r].version) =>
           /\ since[served[r].version + 1] \in Nat
           /\ served[r].at < since[served[r].version + 1] + TTL + LateBy(served[r])
    BY <1>1, <2>1, SinceTyped DEF CacheInv, ServedRecent
  <2>3. \A x : StaleFor(served[r].version, x) =
           IF Replaced(served[r].version) THEN x - since[served[r].version + 1] ELSE 0
    BY DEF StaleFor, Replaced
  <2> QED
    BY <2>1, <2>2, <2>3
<1> QED
  BY CacheInitInv, CacheNextInv, <1>1, PTL DEF CacheSpec

-----------------------------------------------------------------------------
(***************************************************************************)
(* DelayedJobs: every job once, in order and on time, for all jobs that    *)
(* are due in rising order, and all rounds and delays.                     *)
(***************************************************************************)
(* The jobs in the poller's hand are the next ones, from the first that is   *)
(* not executed to m, and those due a round ago are among them.              *)
InHand(m) ==
    /\ Range(jobs) = Len(processed) + 1 .. m
    /\ \A i, j \in 1 .. Len(jobs) : i < j => jobs[i] < jobs[j]
    /\ \A i \in Len(processed) + 1 .. m : Due[i] <= clock
    /\ \A i \in Jobs : Due[i] < cell.round => i <= m

JobsInv ==
    LET p == Len(processed)
    IN  /\ JobsTypeOK
        /\ processed \in Seq([job : Jobs, at : 0 .. Rounds + LateTicks])
        /\ \A i \in 1 .. p : processed[i].job = i /\ processed[i].at >= Due[i]
        /\ jobs \in Seq(Jobs)
        /\ clock = (IF cell.at = "returned" THEN cell.round ELSE cell.round - 1) + late
        /\ cell.at # "raised" => gone = {}
        /\ cell.at = "register" => p = 0 /\ jobs = << >> /\ cell.round = 1
        /\ cell.at \in {"poll", "remove"} => delayed = p + 1 .. Len(Due) /\ p <= Len(Due)
        /\ cell.at = "poll" =>
              jobs = << >> /\ \A i \in Jobs : Due[i] < cell.round - 1 => i <= p
        /\ cell.at = "remove" => \E m \in p .. Len(Due) : InHand(m)
        /\ cell.at = "returned" => p = Len(Due)
        /\ \A j, k \in gone : j = k

LEMMA JobNumbers ==
    /\ Len(Due) \in Nat \ {0} /\ Rounds \in Nat /\ LateTicks \in Nat /\ Batch \in Nat
    /\ Jobs = 1 .. Len(Due) /\ Batch >= Len(Due)
    /\ \A i \in Jobs : Due[i] \in Nat /\ Due[i] < Rounds
    /\ \A i, j \in Jobs : i < j => Due[i] < Due[j]
<1>1. Due \in Seq(Nat) /\ Len(Due) \in Nat \ {0}
  BY JobsAssumption, EmptySeq
<1>2. \A i \in Jobs : Due[i] \in Nat /\ (i < Len(Due) => Due[i] < Due[Len(Due)])
  BY <1>1, JobsAssumption DEF Jobs
<1>3. \A i \in Jobs : i \in Nat /\ (i = Len(Due) \/ i < Len(Due))
  BY <1>1 DEF Jobs
<1>4. Due[Len(Due)] \in Nat /\ Due[Len(Due)] < Rounds /\ Rounds \in Nat
  BY <1>1, <1>2, JobsAssumption DEF Jobs
<1>5. \A i \in Jobs : Due[i] < Rounds
  BY <1>2, <1>3, <1>4
<1> QED
  BY <1>1, <1>2, <1>5, JobsAssumption DEF Jobs

LEMMA JobsTyped ==
    ASSUME JobsInv
    PROVE  /\ clock \in Nat /\ late \in Nat /\ late <= LateTicks
           /\ cell.round \in Nat /\ cell.round >= 1 /\ cell.round <= Rounds
           /\ cell.at \in {"register", "poll", "remove", "returned", "raised"}
           /\ cell = [at |-> cell.at, round |-> cell.round]
           /\ Len(processed) \in Nat /\ Len(jobs) \in Nat
           /\ cell.at # "returned" => clock = cell.round - 1 + late
<1>1. /\ clock \in 0 .. Rounds + LateTicks /\ late \in 0 .. LateTicks
      /\ cell \in [at : {"register", "poll", "remove", "returned", "raised"},
                   round : 1 .. Rounds]
  BY DEF JobsInv, JobsTypeOK
<1>2. cell.at # "returned" => clock = cell.round - 1 + late
  BY DEF JobsInv
<1>3. Len(processed) \in Nat /\ Len(jobs) \in Nat
  BY LenProperties DEF JobsInv
<1> QED
  BY <1>1, <1>2, <1>3, JobNumbers

LEMMA JobsBegin == JobsInit => JobsInv
<1> SUFFICES ASSUME JobsInit PROVE JobsInv
  OBVIOUS
<1>1. jobs = << >> /\ processed = << >> /\ Len(processed) = 0
  BY DEF JobsInit
<1>2. JobsTypeOK
  BY <1>1, JobNumbers DEF JobsInit, JobsTypeOK
<1>3. /\ processed \in Seq([job : Jobs, at : 0 .. Rounds + LateTicks])
      /\ jobs \in Seq(Jobs)
  BY <1>1
<1> QED
  BY <1>1, <1>2, <1>3 DEF JobsInit, JobsInv

(* Those due are the next ones, since earlier jobs are due earlier; and they *)
(* are fewer than the poll may take.                                         *)
LEMMA WhatIsDue ==
    ASSUME JobsInv, cell.at = "poll"
    PROVE  /\ DueNow \in Seq(Jobs) /\ Len(DueNow) <= Batch
           /\ \A i, j \in 1 .. Len(DueNow) : i < j => DueNow[i] < DueNow[j]
           /\ \E m \in Len(processed) .. Len(Due) :
                 /\ Range(DueNow) = Len(processed) + 1 .. m
                 /\ \A i \in Len(processed) + 1 .. m : Due[i] <= clock
                 /\ \A i \in Jobs : Due[i] <= clock => i <= m
<1> DEFINE p == Len(processed)
           due == {i \in delayed : Due[i] <= clock}
<1>1. /\ p \in Nat /\ p <= Len(Due) /\ delayed = p + 1 .. Len(Due) /\ clock \in Nat
      /\ delayed \subseteq Jobs
      /\ \A i \in Jobs : Due[i] < cell.round - 1 => i <= p
  BY DEF JobsInv, JobsTypeOK
<1>2. PICK m \in p .. Len(Due) : due = p + 1 .. m
  <2>1. CASE due = {}
    <3>1. p \in p .. Len(Due) /\ due = p + 1 .. p
      BY <1>1, <2>1, JobNumbers
    <3> QED
      BY <3>1
  <2>2. CASE due # {}
    <3>1. due \subseteq 0 .. Len(Due)
      BY <1>1, JobNumbers
    <3>2. PICK m \in due : \A i \in due : i <= m
      <4> HIDE DEF due
      <4> QED
        BY <2>2, <3>1, GreatestOf, JobNumbers
    <3>3. m \in p .. Len(Due) /\ m \in Jobs /\ Due[m] <= clock
      BY <1>1, <3>2, JobNumbers
    <3>4. \A i \in p + 1 .. m : i \in Jobs /\ i \in delayed /\ Due[i] <= clock
      BY <1>1, <3>3, JobNumbers
    <3>5. due = p + 1 .. m
      BY <1>1, <3>2, <3>3, <3>4
    <3> QED
      BY <3>3, <3>5
  <2> QED
    BY <2>1, <2>2
<1>3. /\ IsFiniteSet(due) /\ Cardinality(due) = m - p /\ m \in Nat
  <2>1. m \in Int /\ p + 1 \in Int /\ m \in Nat
    BY <1>1
  <2>2. /\ IsFiniteSet(p + 1 .. m)
        /\ Cardinality(p + 1 .. m) = IF p + 1 > m THEN 0 ELSE m - (p + 1) + 1
    BY <2>1, FS_Interval
  <2> HIDE DEF due
  <2> QED
    BY <1>1, <1>2, <2>1, <2>2
<1> DEFINE fit(s) == /\ Range(s) = due
                     /\ \A i, j \in DOMAIN s : i < j => Due[s[i]] < Due[s[j]]
           next == [i \in 1 .. m - p |-> p + i]
<1>4. next \in [1 .. Cardinality(due) -> due] /\ fit(next)
  <2>1. \A i \in 1 .. m - p : p + i \in p + 1 .. m /\ p + i \in Jobs
    BY <1>1, JobNumbers
  <2>2. \A i \in p + 1 .. m : i - p \in 1 .. m - p /\ next[i - p] = i
    BY <1>1
  <2>3. Range(next) = p + 1 .. m
    BY <2>1, <2>2 DEF Range
  <2>4. \A i, j \in 1 .. m - p : i < j => Due[next[i]] < Due[next[j]]
    BY <1>1, <2>1, JobNumbers
  <2> QED
    BY <1>2, <1>3, <2>1, <2>3, <2>4
<1>5. DueNow \in [1 .. Cardinality(due) -> due] /\ fit(DueNow)
  <2>1. DueNow = CHOOSE s \in [1 .. Cardinality(due) -> due] : fit(s)
    BY DEF DueNow
  <2> HIDE DEF due, fit
  <2> QED
    BY <1>4, <2>1
<1>6. /\ DueNow \in Seq(Jobs) /\ Len(DueNow) = m - p /\ DOMAIN DueNow = 1 .. m - p
      /\ \A i \in 1 .. m - p : DueNow[i] \in Jobs
  <2>1. m - p \in Nat /\ due \subseteq Jobs
    BY <1>1, <1>3
  <2>2. DueNow \in [1 .. m - p -> due]
    BY <1>3, <1>5
  <2> HIDE DEF due, fit
  <2>3. DueNow \in [1 .. m - p -> Jobs]
    BY <2>1, <2>2
  <2> QED
    BY <2>1, <2>3
<1>7. \A i, j \in 1 .. m - p : i < j => DueNow[i] < DueNow[j]
  <2> SUFFICES ASSUME NEW i \in 1 .. m - p, NEW j \in 1 .. m - p, i < j
               PROVE  DueNow[i] < DueNow[j]
    OBVIOUS
  <2>1. DueNow[i] \in Jobs /\ DueNow[j] \in Jobs /\ Due[DueNow[i]] < Due[DueNow[j]]
    BY <1>5, <1>6
  <2> HIDE DEF due, fit
  <2>2. \A a, b \in Jobs : Due[a] < Due[b] => a < b
    BY JobNumbers
  <2> QED
    BY <2>1, <2>2
<1>8. \A i \in Jobs : Due[i] <= clock => i <= m
  <2> SUFFICES ASSUME NEW i \in Jobs, Due[i] <= clock PROVE i <= m
    OBVIOUS
  <2>1. CASE i <= p
    BY <1>1, <2>1, JobNumbers
  <2>2. CASE i > p
    <3>1. i \in due
      BY <1>1, <2>2, JobNumbers
    <3> QED
      BY <1>1, <1>2, <3>1
  <2> QED
    BY <1>1, <2>1, <2>2, JobNumbers
<1>9. \A i \in p + 1 .. m : Due[i] <= clock
  BY <1>2
<1>10. Range(DueNow) = p + 1 .. m
  BY <1>2, <1>5
<1>11. Len(DueNow) <= Batch
  BY <1>1, <1>3, <1>6, JobNumbers
<1> QED
  BY <1>6, <1>7, <1>8, <1>9, <1>10, <1>11

LEMMA RegisterInv == JobsInv /\ Register => JobsInv'
<1> SUFFICES ASSUME JobsInv, Register PROVE JobsInv'
  OBVIOUS
<1> USE JobNumbers
<1>1. /\ cell.at = "register" /\ cell.round = 1 /\ processed = << >> /\ jobs = << >> /\ gone = {}
      /\ delayed \subseteq Jobs /\ UNCHANGED <<clock, late, jobs, processed, gone>>
      /\ Len(processed) = 0
  BY EmptySeq DEF JobsInv, JobsTypeOK, Register
<1>2. PICK i \in Jobs : /\ 1 .. i - 1 \subseteq delayed
                        /\ \/ /\ delayed' = delayed \cup {i}
                              /\ Goes(IF i = Len(Due) THEN "poll" ELSE "register")
                           \/ delayed' \in {delayed, delayed \cup {i}} /\ Goes("raised")
  BY DEF Register
<1>3. delayed' \subseteq Jobs
  BY <1>1, <1>2
<1>4. \/ cell' = [cell EXCEPT !.at = "register"]
      \/ cell' = [cell EXCEPT !.at = "poll"] /\ delayed' = Jobs
      \/ cell' = [cell EXCEPT !.at = "raised"]
  <2>1. ASSUME i = Len(Due) PROVE delayed \cup {i} = Jobs
    <3>1. \A k \in 1 .. Len(Due) : k \in 1 .. Len(Due) - 1 \/ k = Len(Due)
      OBVIOUS
    <3>2. 1 .. Len(Due) - 1 \subseteq delayed /\ delayed \subseteq Jobs
      BY <1>1, <1>2, <2>1
    <3> QED
      BY <2>1, <3>1, <3>2
  <2> QED
    BY <1>2, <2>1 DEF Goes
<1>5. /\ cell'.round = 1 /\ cell'.at \in {"register", "poll", "raised"}
      /\ cell'.at = "poll" => delayed' = Jobs
  BY <1>1, <1>4 DEF JobsInv, JobsTypeOK
<1>6. JobsTypeOK'
  <2>1. cell' \in [at : {"register", "poll", "remove", "returned", "raised"}, round : 1 .. Rounds]
    BY <1>4 DEF JobsInv, JobsTypeOK
  <2> QED
    BY <1>1, <1>3, <2>1 DEF JobsInv, JobsTypeOK
<1> QED
  BY <1>1, <1>5, <1>6 DEF JobsInv

LEMMA PollInv == JobsInv /\ Poll => JobsInv'
<1> SUFFICES ASSUME JobsInv, Poll PROVE JobsInv'
  OBVIOUS
<1> USE JobNumbers
<1>1. /\ cell.at = "poll" /\ UNCHANGED <<clock, late, delayed, processed, gone>>
      /\ Len(processed) \in Nat /\ clock \in Nat /\ gone = {}
  BY DEF JobsInv, JobsTypeOK, Poll
<1>2. CASE Goes("raised") /\ UNCHANGED jobs
  <2>1. cell'.at = "raised" /\ cell'.round = cell.round
    BY <1>2 DEF Goes, JobsInv, JobsTypeOK
  <2>2. JobsTypeOK'
    BY <1>1, <1>2 DEF Goes, JobsInv, JobsTypeOK
  <2> QED
    BY <1>1, <1>2, <2>1, <2>2 DEF JobsInv
<1>3. CASE /\ jobs' = SubSeq(DueNow, 1, IF Len(DueNow) < Batch THEN Len(DueNow) ELSE Batch)
           /\ Goes("remove")
  <2>1. /\ DueNow \in Seq(Jobs) /\ Len(DueNow) <= Batch
        /\ \A i, j \in 1 .. Len(DueNow) : i < j => DueNow[i] < DueNow[j]
    BY <1>1, WhatIsDue
  <2>2. PICK m \in Len(processed) .. Len(Due) :
           /\ Range(DueNow) = Len(processed) + 1 .. m
           /\ \A i \in Len(processed) + 1 .. m : Due[i] <= clock
           /\ \A i \in Jobs : Due[i] <= clock => i <= m
    BY <1>1, WhatIsDue
  <2>3. jobs' = DueNow
    <3>1. jobs' = SubSeq(DueNow, 1, Len(DueNow))
      BY <1>3, <2>1
    <3> QED
      BY <2>1, <3>1
  <2>4. /\ cell'.at = "remove" /\ cell'.round = cell.round
        /\ cell.round - 1 <= clock /\ cell.round \in Nat \ {0}
        /\ clock = cell.round - 1 + late
    BY <1>1, <1>3 DEF Goes, JobsInv, JobsTypeOK
  <2>5. InHand(m)'
    <3>1. \A i \in Jobs : Due[i] < cell.round => i <= m
      BY <1>1, <2>2, <2>4
    <3> QED
      BY <1>1, <2>1, <2>2, <2>3, <2>4, <3>1 DEF InHand
  <2>6. JobsTypeOK'
    <3>1. \A i \in DOMAIN jobs' : jobs'[i] \in Jobs
      BY <2>1, <2>3
    <3> QED
      BY <1>1, <1>3, <3>1 DEF Goes, JobsInv, JobsTypeOK
  <2>7. m \in Len(processed') .. Len(Due)
    BY <1>1, <2>2
  <2> QED
    BY <1>1, <2>1, <2>3, <2>4, <2>5, <2>6, <2>7 DEF JobsInv
<1> QED
  BY <1>2, <1>3 DEF Poll

(* The first of the jobs in hand is the one after those executed.            *)
LEMMA FirstInHand ==
    ASSUME JobsInv, cell.at = "remove", jobs # << >>,
           NEW m \in Len(processed) .. Len(Due), InHand(m)
    PROVE  /\ Head(jobs) = Len(processed) + 1 /\ Head(jobs) <= m
           /\ Range(Tail(jobs)) = Len(processed) + 2 .. m
           /\ Tail(jobs) \in Seq(Jobs)
           /\ \A i, j \in 1 .. Len(Tail(jobs)) : i < j => Tail(jobs)[i] < Tail(jobs)[j]
<1> DEFINE p == Len(processed)
<1>1. /\ jobs \in Seq(Jobs) /\ p \in Nat /\ m \in Nat
      /\ Range(jobs) = p + 1 .. m
      /\ \A i, j \in 1 .. Len(jobs) : i < j => jobs[i] < jobs[j]
  BY JobNumbers DEF JobsInv, InHand
<1>2. /\ Head(jobs) = jobs[1] /\ Tail(jobs) \in Seq(Jobs) /\ Len(jobs) \in Nat \ {0}
      /\ Len(Tail(jobs)) = Len(jobs) - 1
      /\ \A i \in 1 .. Len(Tail(jobs)) : Tail(jobs)[i] = jobs[i + 1]
  BY <1>1, HeadTailProperties, EmptySeq
<1>3. /\ Range(jobs) = {Head(jobs)} \cup Range(Tail(jobs))
  BY <1>1, HeadAndTail
<1>4. \A x \in Range(Tail(jobs)) : x > jobs[1]
  <2> SUFFICES ASSUME NEW x \in Range(Tail(jobs)) PROVE x > jobs[1]
    OBVIOUS
  <2>1. PICK i \in 1 .. Len(Tail(jobs)) : Tail(jobs)[i] = x
    BY <1>2, RangeMember
  <2>2. i + 1 \in 1 .. Len(jobs) /\ 1 \in 1 .. Len(jobs) /\ 1 < i + 1 /\ jobs[i + 1] = x
    BY <1>2, <2>1
  <2>3. jobs[1] \in Nat /\ jobs[i + 1] \in Nat
    BY <1>1, <2>2, JobNumbers
  <2>4. jobs[1] < jobs[i + 1]
    BY <1>1, <2>2
  <2> QED
    BY <2>2, <2>3, <2>4
<1>5. jobs[1] \in p + 1 .. m /\ \A x \in p + 1 .. m : x >= jobs[1]
  <2>1. jobs[1] \in p + 1 .. m
    BY <1>1, <1>2, <1>3
  <2> QED
    BY <1>1, <1>2, <1>3, <1>4, <2>1
<1>6. jobs[1] = p + 1 /\ p + 1 <= m
  BY <1>1, <1>5
<1>7. Range(Tail(jobs)) = p + 2 .. m
  <2>1. \A x : x \in p + 2 .. m <=> x \in p + 1 .. m /\ x > p + 1
    BY <1>1
  <2>2. \A x : x \in Range(Tail(jobs)) <=> x \in p + 1 .. m /\ x > p + 1
    <3> DEFINE T == Range(Tail(jobs))
    <3>1. p + 1 .. m = {p + 1} \cup T /\ \A x \in T : x > p + 1
      BY <1>1, <1>2, <1>3, <1>4, <1>6
    <3>2. ~(p + 1 > p + 1)
      BY <1>1
    <3> HIDE DEF T
    <3>3. ASSUME NEW x, x \in T PROVE x \in p + 1 .. m /\ x > p + 1
      BY <3>1, <3>3
    <3>4. ASSUME NEW x, x \in p + 1 .. m, x > p + 1 PROVE x \in T
      <4>1. x # p + 1
        BY <3>2, <3>4
      <4> QED
        BY <3>1, <3>4, <4>1
    <3>5. \A x : x \in T <=> x \in p + 1 .. m /\ x > p + 1
      BY <3>3, <3>4, Zenon
    <3> QED
      BY <3>5 DEF T
  <2> QED
    BY <2>1, <2>2
<1>8. \A i, j \in 1 .. Len(Tail(jobs)) : i < j => Tail(jobs)[i] < Tail(jobs)[j]
  BY <1>1, <1>2
<1> QED
  BY <1>2, <1>6, <1>7, <1>8

LEMMA RemoveInv == JobsInv /\ RemoveAndProcess => JobsInv'
<1> SUFFICES ASSUME JobsInv, RemoveAndProcess PROVE JobsInv'
  OBVIOUS
<1> USE JobNumbers
<1> DEFINE p == Len(processed)
           job == Head(jobs)
<1>1. /\ cell.at = "remove" /\ jobs # << >> /\ UNCHANGED <<clock, late>>
      /\ p \in Nat /\ p <= Len(Due) /\ delayed = p + 1 .. Len(Due) /\ gone = {}
      /\ jobs \in Seq(Jobs)
      /\ clock \in 0 .. Rounds + LateTicks /\ clock \in Nat
      /\ clock = cell.round - 1 + late
  <2>1. cell.at = "remove" /\ jobs # << >> /\ UNCHANGED <<clock, late>>
    BY DEF RemoveAndProcess
  <2>2. /\ delayed = p + 1 .. Len(Due) /\ p <= Len(Due) /\ gone = {} /\ jobs \in Seq(Jobs)
        /\ clock \in 0 .. Rounds + LateTicks
    BY <2>1 DEF JobsInv, JobsTypeOK
  <2> QED
    BY <2>1, <2>2, JobsTyped
<1>2. PICK m \in p .. Len(Due) : InHand(m)
  BY <1>1 DEF JobsInv
<1>3. /\ job = p + 1 /\ job <= m
      /\ Range(Tail(jobs)) = p + 2 .. m
      /\ Tail(jobs) \in Seq(Jobs)
      /\ \A i, j \in 1 .. Len(Tail(jobs)) : i < j => Tail(jobs)[i] < Tail(jobs)[j]
  BY <1>1, <1>2, FirstInHand
<1>4. job \in Jobs /\ m \in Nat /\ m <= Len(Due)
  BY <1>1, <1>2, <1>3
<1> HIDE DEF job
<1>5. CASE Goes("raised")
  <2>1. /\ UNCHANGED <<jobs, processed>> /\ delayed' \subseteq Jobs
        /\ gone' = {} \/ gone' = {job}
        /\ cell'.at = "raised" /\ cell'.round = cell.round
    BY <1>1, <1>5 DEF RemoveAndProcess, Goes, JobsInv, JobsTypeOK, job
  <2>2. JobsTypeOK'
    BY <1>1, <1>4, <1>5, <2>1 DEF Goes, JobsInv, JobsTypeOK
  <2>3. \A j, k \in gone' : j = k
    BY <2>1
  <2> QED
    BY <1>1, <2>1, <2>2, <2>3 DEF JobsInv
<1>6. CASE /\ delayed' = delayed \ {job}
           /\ processed' = Append(processed, [job |-> job, at |-> clock])
           /\ jobs' = Tail(jobs)
           /\ UNCHANGED <<cell, gone>>
  <2> DEFINE D == [job : Jobs, at : 0 .. Rounds + LateTicks]
             e == [job |-> job, at |-> clock]
  <2>1. e \in D /\ processed \in Seq(D)
    BY <1>1, <1>4 DEF JobsInv
  <2>2. /\ processed' \in Seq(D) /\ Len(processed') = p + 1
        /\ \A i \in 1 .. p : processed'[i] = processed[i]
        /\ processed'[p + 1] = e
    BY <1>6, <2>1, AppendProperties
  <2>3. \A i \in 1 .. p + 1 : processed'[i].job = i /\ processed'[i].at >= Due[i]
    <3>1. \A i \in 1 .. p : processed'[i].job = i /\ processed'[i].at >= Due[i]
      BY <2>2 DEF JobsInv
    <3>2. Due[p + 1] <= clock
      BY <1>1, <1>2, <1>3 DEF InHand
    <3>3. processed'[p + 1].job = p + 1 /\ processed'[p + 1].at >= Due[p + 1]
      BY <1>1, <1>3, <1>4, <2>2, <3>2
    <3>4. \A i \in 1 .. p + 1 : i \in 1 .. p \/ i = p + 1
      BY <1>1
    <3> QED
      BY <3>1, <3>3, <3>4
  <2>4. delayed' = p + 2 .. Len(Due)
    BY <1>1, <1>3, <1>6
  <2>5. m \in p + 1 .. Len(Due)
    BY <1>1, <1>3, <1>4
  <2>6. InHand(m)'
    <3>1. \A i \in p + 2 .. m : Due[i] <= clock
      <4>1. \A i \in p + 2 .. m : i \in p + 1 .. m
        BY <1>1, <1>4
      <4>2. \A i \in p + 1 .. m : Due[i] <= clock
        BY <1>2 DEF InHand
      <4> QED
        BY <4>1, <4>2
    <3>2. Len(processed') + 1 = p + 2
      BY <1>1, <2>2
    <3>3. \A i \in Jobs : Due[i] < cell.round => i <= m
      BY <1>2 DEF InHand
    <3> QED
      BY <1>1, <1>3, <1>6, <3>1, <3>2, <3>3 DEF InHand
  <2>7. JobsTypeOK'
    <3>1. delayed' \subseteq Jobs
      BY <1>1, <2>4
    <3>2. /\ \A i \in DOMAIN jobs' : jobs'[i] \in Jobs
          /\ \A i \in DOMAIN processed' : processed'[i] \in D
      <4>1. \A i \in DOMAIN jobs' : jobs'[i] \in Jobs
        <5>1. jobs' \in Seq(Jobs)
          BY <1>3, <1>6
        <5> QED
          BY <5>1
      <4> HIDE DEF D
      <4>2. \A i \in DOMAIN processed' : processed'[i] \in D
        BY <2>2
      <4> QED
        BY <4>1, <4>2
    <3> QED
      BY <1>1, <1>6, <3>1, <3>2 DEF JobsInv, JobsTypeOK
  <2>8. p + 1 <= Len(Due) /\ cell' = cell /\ gone' = {} /\ jobs' \in Seq(Jobs)
    BY <1>1, <1>3, <1>4, <1>6
  <2>9. delayed' = Len(processed') + 1 .. Len(Due)
    BY <1>1, <2>2, <2>4
  <2> HIDE DEF e
  <2> QED
    BY <1>1, <2>2, <2>3, <2>5, <2>6, <2>7, <2>8, <2>9 DEF JobsInv
<1> QED
  BY <1>5, <1>6 DEF RemoveAndProcess, job

LEMMA NextRoundInv == JobsInv /\ NextRound => JobsInv'
<1> SUFFICES ASSUME JobsInv, NextRound PROVE JobsInv'
  OBVIOUS
<1> USE JobNumbers
<1> DEFINE p == Len(processed)
<1>1. /\ cell.at = "remove" /\ jobs = << >> /\ clock' = clock + 1
      /\ UNCHANGED <<late, delayed, jobs, processed, gone>>
      /\ p \in Nat /\ p <= Len(Due) /\ gone = {}
      /\ cell.round \in 1 .. Rounds
      /\ clock \in Nat /\ clock = cell.round - 1 + late /\ late \in 0 .. LateTicks
  <2>1. /\ cell.at = "remove" /\ jobs = << >> /\ clock' = clock + 1
        /\ UNCHANGED <<late, delayed, jobs, processed, gone>>
    BY DEF NextRound
  <2>2. p <= Len(Due) /\ gone = {}
    BY <2>1 DEF JobsInv
  <2> QED
    BY <2>1, <2>2, JobsTyped
<1>2. \A i \in Jobs : Due[i] < cell.round => i <= p
  <2>1. PICK m \in p .. Len(Due) : InHand(m)
    BY <1>1 DEF JobsInv
  <2>2. Range(jobs) = {} /\ Range(jobs) = p + 1 .. m /\ m \in Nat /\ p <= m
    BY <1>1, <2>1, RangeEmpty DEF InHand
  <2>3. m = p
    <3>1. p + 1 \notin p + 1 .. m
      BY <2>2
    <3> QED
      BY <1>1, <2>2, <3>1
  <2> QED
    BY <2>1, <2>3 DEF InHand
<1>3. \/ /\ cell.round < Rounds /\ cell'.at = "poll" /\ cell'.round = cell.round + 1
      \/ /\ cell.round = Rounds /\ cell'.at = "returned" /\ cell'.round = cell.round
  <2>1. \/ cell.round < Rounds /\ cell' = [at |-> "poll", round |-> cell.round + 1]
        \/ cell.round = Rounds /\ cell' = [cell EXCEPT !.at = "returned"]
    BY <1>1 DEF NextRound
  <2> QED
    BY <1>1, <2>1, JobsTyped
<1>4. cell' \in [at : {"register", "poll", "remove", "returned", "raised"}, round : 1 .. Rounds]
  <2>1. cell' \in {[at |-> "poll", round |-> cell.round + 1], [cell EXCEPT !.at = "returned"]}
    BY <1>1 DEF NextRound
  <2>2. cell = [at |-> cell.at, round |-> cell.round]
    BY JobsTyped
  <2> QED
    BY <1>1, <1>3, <2>1, <2>2
<1>5. clock' \in 0 .. Rounds + LateTicks
  <2>1. cell.round \in Nat /\ cell.round <= Rounds /\ late \in Nat /\ late <= LateTicks
    BY <1>1
  <2>2. clock' = cell.round + late
    BY <1>1, <2>1
  <2> QED
    BY <2>1, <2>2
<1>6. JobsTypeOK'
  BY <1>1, <1>4, <1>5 DEF JobsInv, JobsTypeOK
<1>7. CASE cell.round = Rounds
  <2>1. Len(Due) \in Jobs /\ Due[Len(Due)] < Rounds
    OBVIOUS
  <2>2. p = Len(Due)
    BY <1>1, <1>2, <1>7, <2>1
  <2>3. clock' = cell'.round + late /\ cell'.at = "returned"
    BY <1>1, <1>3, <1>7
  <2> QED
    BY <1>1, <1>6, <2>2, <2>3 DEF JobsInv
<1>8. CASE cell.round < Rounds
  <2>1. /\ clock' = cell'.round - 1 + late /\ cell'.at = "poll" /\ cell'.round - 1 = cell.round
    <3>1. cell'.at = "poll" /\ cell'.round = cell.round + 1
      BY <1>3, <1>8
    <3>2. cell.round \in Nat /\ late \in Nat
      BY <1>1
    <3> QED
      BY <1>1, <3>1, <3>2, SMTT(20)
  <2> QED
    BY <1>1, <1>2, <1>6, <2>1 DEF JobsInv
<1> QED
  BY <1>1, <1>7, <1>8

LEMMA LateInv == JobsInv /\ Late => JobsInv'
<1> SUFFICES ASSUME JobsInv, Late PROVE JobsInv'
  OBVIOUS
<1> USE JobNumbers
<1>1. /\ late < LateTicks /\ cell.at \in {"register", "poll", "remove"}
      /\ late' = late + 1 /\ clock' = clock + 1
      /\ UNCHANGED <<delayed, cell, jobs, processed, gone>>
      /\ late \in Nat /\ clock \in Nat /\ clock = cell.round - 1 + late
      /\ cell.round \in 1 .. Rounds
  BY JobsTyped DEF Late
<1>2. JobsTypeOK'
  <2>1. late' \in 0 .. LateTicks /\ clock' \in 0 .. Rounds + LateTicks
    BY <1>1
  <2> QED
    BY <1>1, <2>1 DEF JobsInv, JobsTypeOK
<1>3. clock' = cell.round - 1 + late'
  BY <1>1, SMTT(20)
<1>4. cell.at = "remove" => \E m \in Len(processed) .. Len(Due) : InHand(m)'
  <2> SUFFICES ASSUME NEW m \in Len(processed) .. Len(Due), InHand(m), cell.at = "remove"
               PROVE  InHand(m)'
    BY DEF JobsInv
  <2>1. \A i \in Len(processed) + 1 .. m : Due[i] <= clock + 1
    <3>1. \A i \in Len(processed) + 1 .. m : i \in Jobs
      BY JobsTyped
    <3>2. \A i \in Len(processed) + 1 .. m : Due[i] <= clock
      BY DEF InHand
    <3> SUFFICES ASSUME NEW i \in Len(processed) + 1 .. m PROVE Due[i] <= clock + 1
      OBVIOUS
    <3>3. Due[i] \in Nat /\ Due[i] <= clock
      BY <3>1, <3>2
    <3>4. clock \in Nat
      BY <1>1
    <3> QED
      BY <3>3, <3>4
  <2> QED
    BY <1>1, <2>1 DEF InHand
<1> QED
  BY <1>1, <1>2, <1>3, <1>4 DEF JobsInv

(* Registering, polling, removing and the passing of time preserve it.       *)
THEOREM JobsInvariance == JobsSpec => []JobsInv
<1>1. JobsInv /\ [JobsNext]_jobVars => JobsInv'
  <2>1. ASSUME JobsInv, UNCHANGED jobVars PROVE JobsInv'
    BY <2>1 DEF jobVars, JobsInv, JobsTypeOK, InHand
  <2> QED
    BY <2>1, RegisterInv, PollInv, RemoveInv, NextRoundInv, LateInv DEF JobsNext
<1> QED
  BY JobsBegin, <1>1, PTL DEF JobsSpec

(* The poller executes every job once, in order and none before its time,    *)
(* all of them when it returns; only a lost reply loses a job, one at most.  *)
THEOREM JobsAlwaysOnTime == JobsSpec => []JobsOnTime
<1>1. JobsInv => JobsOnTime
  <2> SUFFICES ASSUME JobsInv PROVE JobsOnTime
    OBVIOUS
  <2>1. /\ DOMAIN processed = 1 .. Len(processed) /\ Len(processed) \in Nat
        /\ \A i \in 1 .. Len(processed) : processed[i].job = i /\ processed[i].at >= Due[i]
    BY DEF JobsInv
  <2>2. {processed[i].job : i \in DOMAIN processed} = 1 .. Len(processed)
    <3>1. \A j : j \in {processed[i].job : i \in DOMAIN processed} <=>
                    \E i \in 1 .. Len(processed) : j = i
      BY <2>1
    <3> QED
      BY <3>1
  <2>3. cell.at \in {"poll", "remove"} => delayed = Jobs \ (1 .. Len(processed)) /\ gone = {}
    <3> SUFFICES ASSUME cell.at \in {"poll", "remove"}
                 PROVE  delayed = Jobs \ (1 .. Len(processed)) /\ gone = {}
      OBVIOUS
    <3>1. delayed = Len(processed) + 1 .. Len(Due) /\ gone = {}
      BY DEF JobsInv
    <3>2. \A j : j \in Len(processed) + 1 .. Len(Due) <=> j \in Jobs \ (1 .. Len(processed))
      BY <2>1, JobNumbers
    <3> QED
      BY <3>1, <3>2
  <2>4. \A i \in DOMAIN processed :
           /\ processed[i].at >= Due[processed[i].job]
           /\ \A k \in 1 .. i - 1 : processed[k].job < processed[i].job
    BY <2>1
  <2> QED
    BY <2>2, <2>3, <2>4 DEF JobsInv, JobsOnTime
<1> QED
  BY <1>1, JobsInvariance, PTL


-----------------------------------------------------------------------------
(* The delivery tracking.  Whatever fails, a timeline is in order: a status
   is appended by the task of that status, and a task's status only grows.  Of
   a delivery none of whose requests failed the timeline is known at every
   point (KnownLine), and while the notebook waits, the time at which its task
   ends is bounded by what the sleeps ahead of it and the slow requests behind
   it leave of the wait (OnTime): with one slow request at most it has ended
   when the notebook looks. *)
AllStatuses == 1 .. Delivered
Doings == {"none", "set", "push", "notify", "sleep", "done", "dead"}
CellStages == {"publish", "track", "wait", "show", "clean", "ended", "failed"}

\* How many there are.
Count == CHOOSE n \in Deliveries : n \in Nat /\ Deliveries = 1 .. n

DeliveryTyped ==
    /\ stage \in CellStages
    /\ turn \in Deliveries /\ call \in 1 .. 3
    /\ wakes \in Nat /\ time \in Nat
    /\ stored \in [Deliveries -> 0 .. Delivered]
    /\ timeline \in [Deliveries -> Seq(AllStatuses)]
    /\ tracker \in [Deliveries -> [status : AllStatuses, does : Doings, at : Nat]]
    /\ shown \in [Deliveries -> Seq(AllStatuses)]
    /\ faulty \in [Deliveries -> Nat]
    /\ slow \in [Deliveries -> 0 .. MaxSlow]

(* The loops of the cells make two requests for each delivery, or three, or
   one, and begin with the first. *)
CallKnown ==
    /\ stage \in {"track", "wait"} => turn = 1 /\ call = 1
    /\ stage = "show" => call = 1
    /\ stage = "clean" => call \in 1 .. 2

OrderKept(d) ==
    /\ Ordered(timeline[d])
    /\ \A i \in DOMAIN timeline[d] : timeline[d][i] <= tracker[d].status

Progress(d) ==
    /\ stage = "publish" => tracker[d].status = 1 /\ tracker[d].does = "none"
    /\ stage \notin {"publish", "failed"} => tracker[d].does # "none"
    /\ stage \in {"wait", "show", "clean", "ended"} => tracker[d].status > 1
    /\ tracker[d].does = "dead" => faulty[d] > 0
    /\ tracker[d].does = "done" => tracker[d].status = Delivered
    /\ Asleep(d) => /\ tracker[d].status > 1
                    /\ time <= tracker[d].at
                    /\ tracker[d].at <= time + Delay(tracker[d].status)

(* The sleeps between the second status and this one. *)
Ahead(s) == IF s = 2 THEN 2 ELSE 5

OnTime(d) ==
    stage = "wait" =>
        /\ AtWork(d) =>
              time + ShowAfter <= wakes + Ahead(tracker[d].status) + slow[d]
        /\ Asleep(d) =>
              tracker[d].at + ShowAfter <= wakes + Ahead(tracker[d].status) + slow[d]

(* The timeline with the first n statuses: the first one is there twice, or
   once if no task has added it. *)
Line(n) == [i \in 1 .. n + 1 |-> IF i = 1 THEN 1 ELSE i - 1]

Pushed(d) ==
    IF tracker[d].does \in {"notify", "done"}
    THEN tracker[d].status ELSE tracker[d].status - 1

KnownLine(d) ==
    faulty[d] = 0 =>
        /\ stage = "publish" => timeline[d] = IF d < turn THEN Line(0) ELSE << >>
        /\ stage \in {"track", "wait"} => timeline[d] = Line(Pushed(d))

Displayed(d) ==
    faulty[d] = 0 /\ slow[d] <= 1 =>
        /\ stage \in {"show", "clean", "ended"} => tracker[d].does = "done"
        /\ stage = "show" => /\ timeline[d] = Line(Delivered)
                             /\ d < turn => shown[d] = Line(Delivered)
        /\ stage \in {"clean", "ended"} => shown[d] = Line(Delivered)
        /\ stage = "clean" =>
              /\ d < turn \/ (d = turn /\ call = 2) => stored[d] = 0
              /\ d < turn => timeline[d] = << >>
        /\ stage = "ended" => stored[d] = 0 /\ timeline[d] = << >>

Tracked(d) == OrderKept(d) /\ Progress(d) /\ OnTime(d) /\ KnownLine(d) /\ Displayed(d)

(* The inductive invariant. *)
DeliveryInv == DeliveryTyped /\ CallKnown /\ \A d \in Deliveries : Tracked(d)

-----------------------------------------------------------------------------
LEMMA Numbered ==
    /\ Count \in Nat \ {0} /\ Deliveries = 1 .. Count
    /\ MaxSlow \in Nat
<1>1. PICK n \in Deliveries : n \in Nat /\ Deliveries = 1 .. n
  BY DeliveriesAssumption
<1>2. Count \in Deliveries /\ Count \in Nat /\ Deliveries = 1 .. Count
  BY <1>1 DEF Count
<1> QED
  BY <1>2, DeliveriesAssumption

(* The four lines. *)
LEMMA FirstLine == Line(0) \in Seq(AllStatuses) /\ Append(<< >>, 1) = Line(0)
<1>1. Line(0) = <<1>>
  BY DEF Line
<1>2. <<1>> \in Seq(AllStatuses)
  BY DEF AllStatuses, Delivered
<1>3. Append(<< >>, 1) = <<1>>
  OBVIOUS
<1> QED
  BY <1>1, <1>2, <1>3

LEMMA LineGrows ==
    ASSUME NEW n \in 0 .. 3
    PROVE  Append(Line(n), n + 1) = Line(n + 1)
<1>1. /\ Line(n) \in Seq(Nat) /\ Len(Line(n)) = n + 1
      /\ \A i \in 1 .. n + 1 : Line(n)[i] = IF i = 1 THEN 1 ELSE i - 1
  BY DEF Line
<1>2. /\ Line(n + 1) \in Seq(Nat) /\ Len(Line(n + 1)) = n + 2
      /\ \A i \in 1 .. n + 2 : Line(n + 1)[i] = IF i = 1 THEN 1 ELSE i - 1
  BY DEF Line
<1>3. /\ Append(Line(n), n + 1) \in Seq(Nat) /\ Len(Append(Line(n), n + 1)) = n + 2
      /\ \A i \in 1 .. n + 1 : Append(Line(n), n + 1)[i] = Line(n)[i]
      /\ Append(Line(n), n + 1)[n + 2] = n + 1
  BY <1>1
<1>4. \A i \in 1 .. n + 2 : Append(Line(n), n + 1)[i] = Line(n + 1)[i]
  BY <1>1, <1>2, <1>3
<1> HIDE DEF Line
<1> QED
  BY <1>2, <1>3, <1>4, SeqEqual

LEMMA WholeLine == Line(Delivered) = <<1, 1, 2, 3, 4>>
<1>1. /\ Line(4) \in Seq(Nat) /\ Len(Line(4)) = 5
      /\ Line(4)[1] = 1 /\ Line(4)[2] = 1 /\ Line(4)[3] = 2 /\ Line(4)[4] = 3 /\ Line(4)[5] = 4
  BY DEF Line
<1> QED
  BY <1>1 DEF Delivered

(* A status is appended by a task of that status or, the first, before there
   are tasks: the line stays in order. *)
LEMMA AppendOrdered ==
    ASSUME NEW line \in Seq(AllStatuses), NEW s \in AllStatuses, Ordered(line),
           \A i \in DOMAIN line : line[i] <= s
    PROVE  /\ Append(line, s) \in Seq(AllStatuses)
           /\ Ordered(Append(line, s))
           /\ \A i \in DOMAIN Append(line, s) : Append(line, s)[i] <= s
<1>1. /\ Append(line, s) \in Seq(AllStatuses)
      /\ Len(Append(line, s)) = Len(line) + 1
      /\ \A i \in 1 .. Len(line) : Append(line, s)[i] = line[i]
      /\ Append(line, s)[Len(line) + 1] = s
      /\ DOMAIN line = 1 .. Len(line) /\ Len(line) \in Nat
      /\ DOMAIN Append(line, s) = 1 .. Len(line) + 1
  OBVIOUS
<1>2. s \in Nat /\ s <= s
  BY DEF AllStatuses
<1>3. \A i \in 1 .. Len(line) + 1 : i \in 1 .. Len(line) \/ i = Len(line) + 1
  BY <1>1
<1>4. \A i \in DOMAIN Append(line, s) : Append(line, s)[i] <= s
  BY <1>1, <1>2, <1>3
<1>5. ASSUME NEW i \in 1 .. Len(line) + 1, NEW j \in 1 .. Len(line) + 1, i < j
      PROVE  Append(line, s)[i] <= Append(line, s)[j]
  <2>1. i \in 1 .. Len(line)
    BY <1>1, <1>5
  <2>2. CASE j \in 1 .. Len(line)
    BY <1>1, <1>5, <2>1, <2>2 DEF Ordered
  <2>3. CASE j = Len(line) + 1
    BY <1>1, <2>1, <2>3
  <2> QED
    BY <1>3, <2>2, <2>3
<1> QED
  BY <1>1, <1>4, <1>5 DEF Ordered

(* What a request executed at the server changes, and for which delivery. *)
LEMMA Performs ==
    ASSUME DeliveryTyped, NEW d \in Deliveries, NEW q, NEW s \in 0 .. Delivered,
           q = "push" => s \in AllStatuses, Perform(d, q, s)
    PROVE  /\ stored' \in [Deliveries -> 0 .. Delivered]
           /\ timeline' \in [Deliveries -> Seq(AllStatuses)]
           /\ \A e \in Deliveries \ {d} : stored'[e] = stored[e] /\ timeline'[e] = timeline[e]
           /\ q \notin {"set", "delete status"} => stored'[d] = stored[d]
           /\ q = "delete status" => stored'[d] = 0
           /\ q \notin {"push", "delete timeline"} => timeline'[d] = timeline[d]
           /\ q = "push" => timeline'[d] = Append(timeline[d], s)
           /\ q = "delete timeline" => timeline'[d] = << >>
<1>1. stored \in [Deliveries -> 0 .. Delivered] /\ timeline \in [Deliveries -> Seq(AllStatuses)]
  BY DEF DeliveryTyped
<1>2. /\ q = "set" => stored' = [stored EXCEPT ![d] = s]
      /\ q = "delete status" => stored' = [stored EXCEPT ![d] = 0]
      /\ q \notin {"set", "delete status"} => stored' = stored
  BY DEF Perform
<1>3. /\ q = "push" => timeline' = [timeline EXCEPT ![d] = Append(timeline[d], s)]
      /\ q = "delete timeline" => timeline' = [timeline EXCEPT ![d] = << >>]
      /\ q \notin {"push", "delete timeline"} => timeline' = timeline
  BY DEF Perform
<1>4. q = "push" => Append(timeline[d], s) \in Seq(AllStatuses)
  BY <1>1
<1>5. << >> \in Seq(AllStatuses) /\ 0 \in 0 .. Delivered
  BY DEF Delivered
<1>6. stored' \in [Deliveries -> 0 .. Delivered]
  BY <1>1, <1>2, <1>5
<1>7. timeline' \in [Deliveries -> Seq(AllStatuses)]
  BY <1>1, <1>3, <1>4, <1>5
<1> QED
  BY <1>1, <1>2, <1>3, <1>6, <1>7

LEMMA FailsCounts ==
    ASSUME DeliveryTyped, NEW d \in Deliveries, Fails(d)
    PROVE  /\ faulty' \in [Deliveries -> Nat]
           /\ faulty'[d] > 0 /\ slow' = slow
           /\ \A e \in Deliveries \ {d} : faulty'[e] = faulty[e]
  BY DEF DeliveryTyped, Fails

(* Either what a request asks for is done, or it is counted as failed. *)
LEMMA Response ==
    ASSUME DeliveryTyped, NEW d \in Deliveries, NEW q, NEW s \in 0 .. Delivered,
           q = "push" => s \in AllStatuses,
           Responds(d, q, s) \/ RaisesInClient(d, q, s)
    PROVE  /\ slow' = slow
           /\ faulty' \in [Deliveries -> Nat]
           /\ stored' \in [Deliveries -> 0 .. Delivered]
           /\ timeline' \in [Deliveries -> Seq(AllStatuses)]
           /\ \A e \in Deliveries \ {d} : /\ stored'[e] = stored[e] /\ timeline'[e] = timeline[e]
                                          /\ faulty'[e] = faulty[e]
           /\ \/ timeline'[d] = timeline[d]
              \/ timeline'[d] = << >>
              \/ q = "push" /\ timeline'[d] = Append(timeline[d], s)
           /\ (Perform(d, q, s) /\ faulty' = faulty) \/ faulty'[d] > 0
           /\ RaisesInClient(d, q, s) => faulty'[d] > 0
<1>1. /\ stored \in [Deliveries -> 0 .. Delivered]
      /\ timeline \in [Deliveries -> Seq(AllStatuses)] /\ faulty \in [Deliveries -> Nat]
  BY DEF DeliveryTyped
<1>2. CASE Perform(d, q, s) /\ UNCHANGED trouble
  <2>1. slow' = slow /\ faulty' = faulty
    BY <1>2 DEF trouble
  <2>2. RaisesInClient(d, q, s) => faulty'[d] > 0
    BY FailsCounts DEF RaisesInClient
  <2> QED
    BY <1>1, <1>2, <2>1, <2>2, Performs
<1>3. CASE Fails(d) /\ Perform(d, q, s)
  BY <1>3, FailsCounts, Performs
<1>4. CASE Fails(d) /\ UNCHANGED keys
  BY <1>1, <1>4, FailsCounts DEF keys
<1> QED
  BY <1>2, <1>3, <1>4 DEF Responds, RaisesInClient


(* The requests of a cell, and how its loop goes on. *)
LEMMA CellCalls ==
    /\ stage = "publish" => /\ Len(CellRequests) = 3 /\ CellRequests[1] = "set"
                            /\ CellRequests[2] = "topic" /\ CellRequests[3] = "push"
    /\ stage = "show" => Len(CellRequests) = 1 /\ CellRequests[1] = "range"
    /\ stage = "clean" => /\ Len(CellRequests) = 2 /\ CellRequests[1] = "delete status"
                          /\ CellRequests[2] = "delete timeline"
<1>1. stage = "publish" => CellRequests = <<"set", "topic", "push">>
  BY DEF CellRequests
<1>2. stage = "show" => CellRequests = <<"range">>
  BY DEF CellRequests
<1>3. stage = "clean" => CellRequests = <<"delete status", "delete timeline">>
  BY DEF CellRequests
<1>4. /\ Len(<<"set", "topic", "push">>) = 3 /\ <<"set", "topic", "push">>[1] = "set"
      /\ <<"set", "topic", "push">>[2] = "topic" /\ <<"set", "topic", "push">>[3] = "push"
  OBVIOUS
<1>5. Len(<<"range">>) = 1 /\ <<"range">>[1] = "range"
  OBVIOUS
<1>6. /\ Len(<<"delete status", "delete timeline">>) = 2
      /\ <<"delete status", "delete timeline">>[1] = "delete status"
      /\ <<"delete status", "delete timeline">>[2] = "delete timeline"
  OBVIOUS
<1> QED
  BY <1>1, <1>2, <1>3, <1>4, <1>5, <1>6, Zenon

LEMMA NextCalls ==
    ASSUME DeliveryTyped, CallKnown, InLoop, NEW after, NextCall(after)
    PROVE  \/ /\ call < Len(CellRequests) /\ call' = call + 1
              /\ turn' = turn /\ stage' = stage
           \/ /\ call = Len(CellRequests) /\ call' = 1
              /\ turn < Count /\ turn' = turn + 1 /\ turn' \in Deliveries /\ stage' = stage
           \/ /\ call = Len(CellRequests) /\ call' = 1
              /\ turn = Count /\ turn' = 1 /\ stage' = after
<1>1. Len(tracker) = Count
  <2>1. tracker \in Seq([status : AllStatuses, does : Doings, at : Nat])
    <3>1. ASSUME NEW S, NEW n \in Nat, NEW t \in [1 .. n -> S] PROVE t \in Seq(S)
      OBVIOUS
    <3> QED
      BY <3>1, Numbered DEF DeliveryTyped
  <2>2. DOMAIN tracker = 1 .. Count /\ Len(tracker) \in Nat /\ DOMAIN tracker = 1 .. Len(tracker)
    BY <2>1, Numbered DEF DeliveryTyped
  <2> QED
    BY <2>2, Numbered
<1>2. turn \in Nat /\ turn <= Count /\ call \in Nat /\ call >= 1 /\ turn >= 1
  BY Numbered DEF DeliveryTyped
<1>3. call <= Len(CellRequests) /\ Len(CellRequests) \in Nat
  <2>1. call \in 1 .. 3 /\ stage \in {"publish", "show", "clean"}
    BY DEF DeliveryTyped, InLoop
  <2>2. CASE stage = "publish"
    BY <2>1, <2>2, CellCalls
  <2>3. CASE stage = "show"
    BY <2>3, CellCalls DEF CallKnown
  <2>4. CASE stage = "clean"
    <3>1. call \in 1 .. 2
      BY <2>4 DEF CallKnown
    <3>2. Len(CellRequests) = 2
      BY <2>4, CellCalls
    <3> QED
      BY <3>1, <3>2
  <2> QED
    BY <2>1, <2>2, <2>3, <2>4
<1>4. CASE call < Len(CellRequests)
  BY <1>2, <1>3, <1>4 DEF NextCall
<1>5. CASE call = Len(CellRequests) /\ turn < Count
  BY <1>1, <1>2, <1>3, <1>5, Numbered DEF NextCall
<1>6. CASE call = Len(CellRequests) /\ turn = Count
  BY <1>1, <1>2, <1>3, <1>6 DEF NextCall
<1> QED
  BY <1>2, <1>3, <1>4, <1>5, <1>6, Numbered

(* A delivery that a step does not touch. *)
LEMMA TrackedStays ==
    ASSUME NEW e \in Deliveries, Tracked(e), UNCHANGED <<wakes, time>>,
           tracker'[e] = tracker[e], timeline'[e] = timeline[e], stored'[e] = stored[e],
           shown'[e] = shown[e], faulty'[e] = faulty[e], slow'[e] = slow[e],
           (stage' = stage /\ turn' = turn /\ call' = call) \/ stage' = "failed"
    PROVE  Tracked(e)'
<1>1. OrderKept(e)'
  BY DEF Tracked, OrderKept, Ordered
<1>2. Progress(e)'
  BY DEF Tracked, Progress, Asleep
<1>3. OnTime(e)'
  BY DEF Tracked, OnTime, AtWork, Asleep
<1>4. KnownLine(e)'
  BY DEF Tracked, KnownLine, Pushed
<1>5. Displayed(e)'
  BY DEF Tracked, Displayed
<1> QED
  BY <1>1, <1>2, <1>3, <1>4, <1>5 DEF Tracked

LEMMA DeliveryBegins == DeliveryInit => DeliveryInv
<1> SUFFICES ASSUME DeliveryInit PROVE DeliveryInv
  OBVIOUS
<1>1. 1 \in Deliveries /\ \A d \in Deliveries : d \in Nat /\ ~(d < 1)
  BY Numbered
<1>2. << >> \in Seq(AllStatuses) /\ 1 \in AllStatuses /\ 0 \in 0 .. Delivered /\ 0 \in 0 .. MaxSlow
  BY Numbered DEF AllStatuses, Delivered
<1>3. DeliveryTyped
  BY <1>1, <1>2 DEF DeliveryInit, DeliveryTyped, CellStages, Doings, Task
<1>4. CallKnown
  BY DEF DeliveryInit, CallKnown
<1>5. ASSUME NEW d \in Deliveries PROVE Tracked(d)
  <2>1. timeline[d] = << >> /\ DOMAIN timeline[d] = {}
    BY DEF DeliveryInit
  <2>2. OrderKept(d)
    BY <2>1 DEF OrderKept, Ordered
  <2>3. stage = "publish" /\ tracker[d].status = 1 /\ tracker[d].does = "none" /\ turn = 1
    BY DEF DeliveryInit, Task
  <2>4. Progress(d) /\ OnTime(d) /\ Displayed(d)
    BY <2>3 DEF Progress, OnTime, Displayed, Asleep
  <2>5. KnownLine(d)
    BY <1>1, <2>1, <2>3 DEF KnownLine
  <2> QED
    BY <2>2, <2>4, <2>5 DEF Tracked
<1> QED
  BY <1>3, <1>4, <1>5 DEF DeliveryInv


(* The cell that publishes the orders: each line begins with the first status. *)
LEMMA PublishTracked == DeliveryInv /\ PublishOrder => DeliveryInv'
<1> SUFFICES ASSUME DeliveryInv, PublishOrder PROVE DeliveryInv'
  OBVIOUS
<1> DEFINE q == CellRequests[call]
<1>1. /\ DeliveryTyped /\ CallKnown /\ \A d \in Deliveries : Tracked(d)
      /\ stage = "publish" /\ InLoop /\ turn \in Deliveries
      /\ Responds(turn, q, 1) /\ NextCall("track")
      /\ UNCHANGED <<wakes, time, shown>> /\ time \in Nat
      /\ tracker' = IF stage' = "track" THEN [d \in Deliveries |-> Task(1, "set", time)] ELSE tracker
  BY DEF DeliveryInv, DeliveryTyped, PublishOrder, InLoop
<1>2. /\ Len(CellRequests) = 3 /\ CellRequests[1] = "set"
      /\ CellRequests[2] = "topic" /\ CellRequests[3] = "push"
  BY <1>1, CellCalls
<1>3. 1 \in 0 .. Delivered /\ 1 \in AllStatuses
  BY DEF Delivered, AllStatuses
<1>4. /\ slow' = slow /\ faulty' \in [Deliveries -> Nat]
      /\ stored' \in [Deliveries -> 0 .. Delivered]
      /\ timeline' \in [Deliveries -> Seq(AllStatuses)]
      /\ \A e \in Deliveries \ {turn} : /\ stored'[e] = stored[e] /\ timeline'[e] = timeline[e]
                                        /\ faulty'[e] = faulty[e]
      /\ \/ timeline'[turn] = timeline[turn]
         \/ timeline'[turn] = << >>
         \/ timeline'[turn] = Append(timeline[turn], 1)
      /\ (Perform(turn, q, 1) /\ faulty' = faulty) \/ faulty'[turn] > 0
  <2> HIDE DEF q
  <2> QED
    BY <1>1, <1>3, Response
<1>5. \/ call < 3 /\ call' = call + 1 /\ turn' = turn /\ stage' = "publish"
      \/ /\ call = 3 /\ call' = 1 /\ turn < Count /\ turn' = turn + 1 /\ turn' \in Deliveries
         /\ stage' = "publish"
      \/ call = 3 /\ call' = 1 /\ turn = Count /\ turn' = 1 /\ stage' = "track"
  BY <1>1, <1>2, NextCalls
<1>6. call \in 1 .. 3 /\ turn \in Nat /\ \A d \in Deliveries : d \in Nat /\ d >= 1 /\ d <= Count
  BY <1>1, Numbered DEF DeliveryTyped
<1>7. \A d \in Deliveries : /\ tracker[d].status = 1 /\ tracker[d].does = "none"
                            /\ OrderKept(d) /\ KnownLine(d)
  BY <1>1 DEF Tracked, Progress
<1>8. \A d \in Deliveries :
         \/ /\ stage' = "track" /\ tracker'[d].status = 1 /\ tracker'[d].does = "set"
         \/ /\ stage' = "publish" /\ tracker'[d].status = 1 /\ tracker'[d].does = "none"
  BY <1>1, <1>5, <1>7 DEF Task
<1>9. faulty'[turn] = 0 =>
         /\ faulty[turn] = 0
         /\ timeline'[turn] = IF call = 3 THEN Append(timeline[turn], 1) ELSE timeline[turn]
  <2> SUFFICES ASSUME faulty'[turn] = 0
               PROVE  /\ faulty[turn] = 0
                      /\ timeline'[turn] = IF call = 3 THEN Append(timeline[turn], 1) ELSE timeline[turn]
    OBVIOUS
  <2>1. Perform(turn, q, 1) /\ faulty' = faulty
    BY <1>4
  <2>2. q \in {"set", "topic", "push"} /\ (q = "push" <=> call = 3)
    BY <1>2, <1>6
  <2> HIDE DEF q
  <2>3. /\ q \notin {"push", "delete timeline"} => timeline'[turn] = timeline[turn]
        /\ q = "push" => timeline'[turn] = Append(timeline[turn], 1)
    BY <1>1, <1>3, <2>1, Performs
  <2> QED
    BY <2>1, <2>2, <2>3
<1>10. DeliveryTyped'
  <2>1. tracker' \in [Deliveries -> [status : AllStatuses, does : Doings, at : Nat]]
    <3>1. Task(1, "set", time) \in [status : AllStatuses, does : Doings, at : Nat]
      BY <1>1, <1>3 DEF Task, Doings
    <3>2. tracker \in [Deliveries -> [status : AllStatuses, does : Doings, at : Nat]]
      BY <1>1 DEF DeliveryTyped
    <3> QED
      BY <1>1, <3>1, <3>2
  <2>2. turn' \in Deliveries /\ call' \in 1 .. 3 /\ stage' \in CellStages
    BY <1>1, <1>5, <1>6, Numbered DEF CellStages
  <2> QED
    BY <1>1, <1>4, <2>1, <2>2 DEF DeliveryTyped
<1>11. CallKnown'
  BY <1>5 DEF CallKnown
<1>12. ASSUME NEW d \in Deliveries PROVE Tracked(d)'
  <2>1. OrderKept(d)'
    <3>1. Ordered(timeline[d]) /\ timeline[d] \in Seq(AllStatuses)
          /\ \A i \in DOMAIN timeline[d] : timeline[d][i] <= 1
      BY <1>1, <1>7 DEF OrderKept, DeliveryTyped
    <3>2. /\ Ordered(Append(timeline[d], 1))
          /\ \A i \in DOMAIN Append(timeline[d], 1) : Append(timeline[d], 1)[i] <= 1
      BY <1>3, <3>1, AppendOrdered
    <3>3. timeline'[d] \in {timeline[d], << >>, Append(timeline[d], 1)}
      BY <1>4
    <3>4. Ordered(<< >>) /\ DOMAIN << >> = {}
      BY DEF Ordered
    <3>5. Ordered(timeline'[d]) /\ \A i \in DOMAIN timeline'[d] : timeline'[d][i] <= 1
      BY <3>1, <3>2, <3>3, <3>4
    <3> QED
      BY <1>8, <3>5 DEF OrderKept, Ordered
  <2>2. Progress(d)' /\ OnTime(d)' /\ Displayed(d)'
    BY <1>8 DEF Progress, OnTime, Displayed, Asleep
  <2>3. KnownLine(d)'
    <3> SUFFICES ASSUME faulty'[d] = 0
                 PROVE  /\ stage' = "publish" => timeline'[d] = IF d < turn' THEN Line(0) ELSE << >>
                        /\ stage' = "track" => timeline'[d] = Line(0)
      BY <1>5, <1>8 DEF KnownLine, Pushed
    <3>1. faulty[d] = 0 /\ timeline[d] = (IF d < turn THEN Line(0) ELSE << >>)
      BY <1>1, <1>4, <1>7, <1>9 DEF KnownLine
    <3>2. CASE d = turn
      <4>1. timeline'[d] = IF call = 3 THEN Line(0) ELSE << >>
        <5>1. ~(d < turn)
          BY <1>6, <3>2
        <5>2. timeline[d] = << >>
          BY <3>1, <5>1, Zenon
        <5>3. timeline'[d] = IF call = 3 THEN Append(timeline[d], 1) ELSE timeline[d]
          BY <1>9, <3>2, Zenon
        <5> QED
          BY <5>2, <5>3, FirstLine, Zenon
      <4> QED
        BY <1>5, <1>6, <3>2, <4>1
    <3>3. CASE d # turn
      <4>1. timeline'[d] = IF d < turn THEN Line(0) ELSE << >>
        BY <1>4, <3>1, <3>3
      <4> QED
        BY <1>5, <1>6, <3>3, <4>1
    <3> QED
      BY <3>2, <3>3
  <2> QED
    BY <2>1, <2>2, <2>3 DEF Tracked
<1> QED
  BY <1>10, <1>11, <1>12 DEF DeliveryInv


LEMMA StatusRange ==
    ASSUME DeliveryTyped, NEW d \in Deliveries
    PROVE  /\ tracker[d].status \in {1, 2, 3, 4} /\ tracker[d].does \in Doings
           /\ tracker[d].at \in Nat /\ faulty[d] \in Nat /\ slow[d] \in Nat
           /\ time \in Nat /\ wakes \in Nat
           /\ tracker[d] = [status |-> tracker[d].status, does |-> tracker[d].does,
                            at |-> tracker[d].at]
<1>1. tracker[d] \in [status : AllStatuses, does : Doings, at : Nat]
  BY DEF DeliveryTyped
<1>2. slow[d] \in 0 .. MaxSlow /\ faulty[d] \in Nat /\ time \in Nat /\ wakes \in Nat
  BY DEF DeliveryTyped
<1>3. slow[d] \in Nat
  BY <1>2, Numbered
<1> QED
  BY <1>1, <1>2, <1>3 DEF AllStatuses, Delivered

(* The first tasks have ended: from here on the wait bounds the others. *)
LEMMA GatheredTracked == DeliveryInv /\ Gathered => DeliveryInv'
<1> SUFFICES ASSUME DeliveryInv, Gathered PROVE DeliveryInv'
  OBVIOUS
<1>1. /\ DeliveryTyped /\ CallKnown /\ \A d \in Deliveries : Tracked(d) /\ tracker[d].status > 1
      /\ stage = "track" /\ stage' = "wait" /\ wakes' = time + 7 /\ time \in Nat
      /\ UNCHANGED <<turn, call, time, stored, timeline, tracker, shown, faulty, slow>>
  BY DEF DeliveryInv, DeliveryTyped, Gathered, ShowAfter, keys, trouble
<1>2. DeliveryTyped' /\ CallKnown'
  BY <1>1 DEF DeliveryTyped, CallKnown, CellStages
<1>3. ASSUME NEW d \in Deliveries PROVE Tracked(d)'
  <2>1. OrderKept(d)'
    BY <1>1 DEF Tracked, OrderKept, Ordered
  <2>2. Progress(d)'
    BY <1>1 DEF Tracked, Progress, Asleep
  <2>3. OnTime(d)'
    <3> DEFINE s == tracker[d].status
    <3>1. /\ s \in {2, 3, 4} /\ tracker[d].at \in Nat /\ slow[d] \in Nat
          /\ Asleep(d) => tracker[d].at <= time + Delay(s)
      <4>1. /\ s \in {1, 2, 3, 4} /\ tracker[d].at \in Nat /\ slow[d] \in Nat /\ s > 1
        BY <1>1, StatusRange
      <4>2. Asleep(d) => tracker[d].at <= time + Delay(s)
        BY <1>1 DEF Tracked, Progress
      <4> QED
        BY <4>1, <4>2
    <3>2. Delay(s) \in Nat /\ Delay(s) <= Ahead(s) /\ Ahead(s) \in Nat
      BY <3>1 DEF Delay, Ahead, Delivered
    <3>3. /\ AtWork(d)' => AtWork(d)
          /\ Asleep(d)' => Asleep(d)
      BY <1>1 DEF AtWork, Asleep
    <3>4. time + 7 <= (time + 7) + Ahead(s) + slow[d]
      BY <1>1, <3>1, <3>2
    <3>5. Asleep(d) => tracker[d].at + 7 <= (time + 7) + Ahead(s) + slow[d]
      BY <1>1, <3>1, <3>2
    <3> QED
      BY <1>1, <3>3, <3>4, <3>5 DEF OnTime, ShowAfter
  <2>4. KnownLine(d)'
    BY <1>1 DEF Tracked, KnownLine, Pushed
  <2>5. Displayed(d)'
    BY <1>1 DEF Displayed
  <2> QED
    BY <2>1, <2>2, <2>3, <2>4, <2>5 DEF Tracked
<1> QED
  BY <1>2, <1>3 DEF DeliveryInv

(* The notebook looks: the tasks without trouble have ended by then. *)
LEMMA AwakeTracked == DeliveryInv /\ Awake => DeliveryInv'
<1> SUFFICES ASSUME DeliveryInv, Awake PROVE DeliveryInv'
  OBVIOUS
<1>1. /\ DeliveryTyped /\ CallKnown /\ \A d \in Deliveries : Tracked(d)
      /\ stage = "wait" /\ stage' = "show" /\ time = wakes /\ turn = 1 /\ call = 1
      /\ UNCHANGED <<turn, call, wakes, time, stored, timeline, tracker, shown, faulty, slow>>
  BY DEF DeliveryInv, CallKnown, Awake, keys, trouble
<1>2. DeliveryTyped' /\ CallKnown'
  BY <1>1 DEF DeliveryTyped, CallKnown, CellStages
<1>3. ASSUME NEW d \in Deliveries PROVE Tracked(d)'
  <2>1. OrderKept(d)'
    BY <1>1 DEF Tracked, OrderKept, Ordered
  <2>2. Progress(d)'
    BY <1>1 DEF Tracked, Progress, Asleep
  <2>3. OnTime(d)' /\ KnownLine(d)'
    BY <1>1 DEF OnTime, KnownLine
  <2>4. Displayed(d)'
    <3> SUFFICES ASSUME faulty[d] = 0, slow[d] <= 1
                 PROVE  tracker[d].does = "done" /\ timeline[d] = Line(Delivered)
      <4>1. ~(d < 1)
        BY Numbered
      <4> QED
        BY <1>1, <4>1 DEF Displayed
    <3> DEFINE s == tracker[d].status
    <3>1. /\ s \in {1, 2, 3, 4} /\ tracker[d].does \in Doings /\ tracker[d].at \in Nat
          /\ slow[d] \in Nat /\ time \in Nat
      BY <1>1, StatusRange
    <3>2. Ahead(s) \in Nat /\ Ahead(s) <= 5
      BY DEF Ahead
    <3>3. ~AtWork(d)
      <4>1. AtWork(d) => time + 7 <= time + Ahead(s) + slow[d]
        BY <1>1 DEF Tracked, OnTime, ShowAfter
      <4> QED
        BY <3>1, <3>2, <4>1
    <3>4. ~Asleep(d)
      <4>1. Asleep(d) => /\ tracker[d].at + 7 <= time + Ahead(s) + slow[d]
                         /\ time <= tracker[d].at
        BY <1>1 DEF Tracked, OnTime, Progress, ShowAfter
      <4> QED
        BY <3>1, <3>2, <4>1
    <3>5. tracker[d].does = "done"
      <4>1. tracker[d].does # "none" /\ tracker[d].does # "dead"
        BY <1>1 DEF Tracked, Progress
      <4> QED
        BY <3>1, <3>3, <3>4, <4>1 DEF AtWork, Asleep, Doings
    <3>6. s = Delivered
      BY <1>1, <3>5 DEF Tracked, Progress
    <3> QED
      BY <1>1, <3>5, <3>6 DEF Tracked, KnownLine, Pushed
  <2> QED
    BY <2>1, <2>2, <2>3, <2>4 DEF Tracked
<1> QED
  BY <1>2, <1>3 DEF DeliveryInv


LEMMA DisplayTracked == DeliveryInv /\ Display => DeliveryInv'
<1> SUFFICES ASSUME DeliveryInv, Display PROVE DeliveryInv'
  OBVIOUS
<1>1. /\ DeliveryTyped /\ CallKnown /\ \A d \in Deliveries : Tracked(d)
      /\ stage = "show" /\ InLoop /\ call = 1 /\ turn \in Deliveries /\ NextCall("clean")
      /\ UNCHANGED <<wakes, time, stored, timeline, tracker>>
      /\ \/ shown' = [shown EXCEPT ![turn] = timeline[turn]] /\ UNCHANGED trouble
         \/ UNCHANGED shown /\ Fails(turn)
  BY DEF DeliveryInv, DeliveryTyped, CallKnown, Display, InLoop, keys
<1>2. \/ /\ call' = 1 /\ turn < Count /\ turn' = turn + 1 /\ turn' \in Deliveries
         /\ stage' = "show"
      \/ call' = 1 /\ turn = Count /\ turn' = 1 /\ stage' = "clean"
  <2>1. Len(CellRequests) = 1
    BY <1>1, CellCalls
  <2> QED
    BY <1>1, <2>1, NextCalls
<1>3. turn \in Nat /\ \A d \in Deliveries : d \in Nat /\ d >= 1 /\ d <= Count
  BY <1>1, Numbered
<1>4. /\ shown' \in [Deliveries -> Seq(AllStatuses)]
      /\ faulty' \in [Deliveries -> Nat] /\ slow' = slow
      /\ \A d \in Deliveries \ {turn} : shown'[d] = shown[d] /\ faulty'[d] = faulty[d]
      /\ (faulty' = faulty /\ shown'[turn] = timeline[turn]) \/ faulty'[turn] > 0
  <2>1. /\ shown \in [Deliveries -> Seq(AllStatuses)] /\ faulty \in [Deliveries -> Nat]
        /\ timeline \in [Deliveries -> Seq(AllStatuses)]
    BY <1>1 DEF DeliveryTyped
  <2>2. CASE shown' = [shown EXCEPT ![turn] = timeline[turn]] /\ UNCHANGED trouble
    <3>1. faulty' = faulty /\ slow' = slow
      BY <2>2 DEF trouble
    <3> QED
      BY <1>1, <2>1, <2>2, <3>1
  <2>3. CASE UNCHANGED shown /\ Fails(turn)
    BY <1>1, <2>1, <2>3, FailsCounts
  <2> QED
    BY <1>1, <2>2, <2>3
<1>5. DeliveryTyped'
  <2>1. turn' \in Deliveries /\ call' \in 1 .. 3 /\ stage' \in CellStages
    BY <1>1, <1>2, Numbered DEF CellStages
  <2> QED
    BY <1>1, <1>4, <2>1 DEF DeliveryTyped
<1>6. CallKnown'
  BY <1>2 DEF CallKnown
<1>7. ASSUME NEW d \in Deliveries PROVE Tracked(d)'
  <2>1. OrderKept(d)'
    BY <1>1 DEF Tracked, OrderKept, Ordered
  <2>2. faulty'[d] = 0 => faulty[d] = 0 /\ (d = turn => shown'[d] = timeline[d])
    BY <1>4
  <2>3. faulty[d] > 0 => faulty'[d] > 0
    <3>1. faulty[d] \in Nat /\ faulty'[d] \in Nat
      BY <1>1, <1>4 DEF DeliveryTyped
    <3> QED
      BY <2>2, <3>1
  <2>4. Progress(d)'
    <3>1. Progress(d)
      BY <1>1 DEF Tracked
    <3> QED
      BY <1>1, <1>2, <2>3, <3>1 DEF Progress, Asleep
  <2>5. OnTime(d)' /\ KnownLine(d)'
    BY <1>2 DEF OnTime, KnownLine
  <2>6. Displayed(d)'
    <3> SUFFICES ASSUME faulty'[d] = 0, slow[d] <= 1
                 PROVE  /\ tracker[d].does = "done" /\ timeline[d] = Line(Delivered)
                        /\ stage' = "show" => (d < turn' => shown'[d] = Line(Delivered))
                        /\ stage' = "clean" => shown'[d] = Line(Delivered)
      BY <1>1, <1>2, <1>3, <1>4 DEF Displayed
    <3>1. /\ tracker[d].does = "done" /\ timeline[d] = Line(Delivered)
          /\ d < turn => shown[d] = Line(Delivered)
      BY <1>1, <2>2 DEF Tracked, Displayed
    <3>2. d <= turn => shown'[d] = Line(Delivered)
      BY <1>3, <1>4, <2>2, <3>1
    <3> QED
      BY <1>2, <1>3, <3>1, <3>2
  <2> QED
    BY <2>1, <2>4, <2>5, <2>6 DEF Tracked
<1> QED
  BY <1>5, <1>6, <1>7 DEF DeliveryInv

LEMMA CleanupTracked == DeliveryInv /\ Cleanup => DeliveryInv'
<1> SUFFICES ASSUME DeliveryInv, Cleanup PROVE DeliveryInv'
  OBVIOUS
<1> DEFINE q == CellRequests[call]
<1>1. /\ DeliveryTyped /\ CallKnown /\ \A d \in Deliveries : Tracked(d)
      /\ stage = "clean" /\ InLoop /\ call \in 1 .. 2 /\ turn \in Deliveries
      /\ Responds(turn, q, 0) /\ NextCall("ended")
      /\ UNCHANGED <<wakes, time, tracker, shown>>
  BY DEF DeliveryInv, DeliveryTyped, CallKnown, Cleanup, InLoop
<1>2. /\ Len(CellRequests) = 2 /\ CellRequests[1] = "delete status"
      /\ CellRequests[2] = "delete timeline"
  BY <1>1, CellCalls
<1>3. /\ call = 1 \/ call = 2
      /\ call = 1 => q = "delete status"
      /\ call = 2 => q = "delete timeline"
      /\ q # "push" /\ 0 \in 0 .. Delivered
  <2>1. call = 1 \/ call = 2
    BY <1>1
  <2>2. call = 1 => q = "delete status"
    BY <1>2, Zenon
  <2>3. call = 2 => q = "delete timeline"
    BY <1>2, Zenon
  <2>4. 0 \in 0 .. Delivered
    BY DEF Delivered
  <2> HIDE DEF q
  <2>5. q # "push"
    BY <2>1, <2>2, <2>3
  <2> QED
    BY <2>1, <2>2, <2>3, <2>4, <2>5
<1>4. /\ slow' = slow /\ faulty' \in [Deliveries -> Nat]
      /\ stored' \in [Deliveries -> 0 .. Delivered]
      /\ timeline' \in [Deliveries -> Seq(AllStatuses)]
      /\ \A e \in Deliveries \ {turn} : /\ stored'[e] = stored[e] /\ timeline'[e] = timeline[e]
                                        /\ faulty'[e] = faulty[e]
      /\ timeline'[turn] = timeline[turn] \/ timeline'[turn] = << >>
      /\ (Perform(turn, q, 0) /\ faulty' = faulty) \/ faulty'[turn] > 0
  <2> HIDE DEF q
  <2> QED
    BY <1>1, <1>3, Response
<1>5. \/ call = 1 /\ call' = 2 /\ turn' = turn /\ stage' = "clean"
      \/ /\ call = 2 /\ call' = 1 /\ turn < Count /\ turn' = turn + 1 /\ turn' \in Deliveries
         /\ stage' = "clean"
      \/ call = 2 /\ call' = 1 /\ turn = Count /\ turn' = 1 /\ stage' = "ended"
  <2>1. \/ /\ call < 2 /\ call' = call + 1
           /\ turn' = turn /\ stage' = stage
        \/ /\ call = 2 /\ call' = 1
           /\ turn < Count /\ turn' = turn + 1 /\ turn' \in Deliveries /\ stage' = stage
        \/ /\ call = 2 /\ call' = 1
           /\ turn = Count /\ turn' = 1 /\ stage' = "ended"
    BY <1>1, <1>2, NextCalls
  <2>2. stage = "clean" /\ (call = 1 \/ call = 2)
    BY <1>1, <1>3
  <2> QED
    BY <2>1, <2>2
<1>6. turn \in Nat /\ \A d \in Deliveries : d \in Nat /\ d >= 1 /\ d <= Count
  BY <1>1, Numbered
<1>7. faulty'[turn] = 0 =>
         /\ faulty[turn] = 0
         /\ call = 1 => stored'[turn] = 0
         /\ call = 2 => stored'[turn] = stored[turn] /\ timeline'[turn] = << >>
  <2> SUFFICES ASSUME faulty'[turn] = 0
               PROVE  /\ faulty[turn] = 0
                      /\ call = 1 => stored'[turn] = 0
                      /\ call = 2 => stored'[turn] = stored[turn] /\ timeline'[turn] = << >>
    OBVIOUS
  <2>1. Perform(turn, q, 0) /\ faulty' = faulty
    BY <1>4
  <2>2. /\ call = 1 => q = "delete status"
        /\ call = 2 => q = "delete timeline"
    BY <1>3, Zenon
  <2> HIDE DEF q
  <2>3. /\ q = "delete status" => stored'[turn] = 0
        /\ q = "delete timeline" => stored'[turn] = stored[turn] /\ timeline'[turn] = << >>
    BY <1>1, <1>3, <2>1, Performs
  <2> QED
    BY <2>1, <2>2, <2>3
<1>8. DeliveryTyped'
  <2>1. turn' \in Deliveries /\ call' \in 1 .. 3 /\ stage' \in CellStages
    BY <1>1, <1>5, Numbered DEF CellStages
  <2> QED
    BY <1>1, <1>4, <2>1 DEF DeliveryTyped
<1>9. CallKnown'
  BY <1>5 DEF CallKnown
<1>10. ASSUME NEW d \in Deliveries PROVE Tracked(d)'
  <2>1. OrderKept(d)'
    <3>1. timeline'[d] = timeline[d] \/ timeline'[d] = << >>
      BY <1>4
    <3>2. DOMAIN << >> = {}
      OBVIOUS
    <3>3. OrderKept(d)
      BY <1>1 DEF Tracked
    <3> QED
      BY <1>1, <3>1, <3>2, <3>3 DEF OrderKept, Ordered
  <2>2. faulty'[d] = 0 => faulty[d] = 0
    BY <1>4, <1>7
  <2>3. faulty[d] > 0 => faulty'[d] > 0
    <3>1. faulty[d] \in Nat /\ faulty'[d] \in Nat
      BY <1>1, <1>4 DEF DeliveryTyped
    <3> QED
      BY <2>2, <3>1
  <2>4. Progress(d)'
    <3>1. Progress(d)
      BY <1>1 DEF Tracked
    <3> QED
      BY <1>1, <1>5, <2>3, <3>1 DEF Progress, Asleep
  <2>5. OnTime(d)' /\ KnownLine(d)'
    BY <1>5 DEF OnTime, KnownLine
  <2>6. Displayed(d)'
    <3> SUFFICES ASSUME faulty'[d] = 0, slow[d] <= 1
                 PROVE  /\ tracker[d].does = "done" /\ shown[d] = Line(Delivered)
                        /\ stage' = "clean" =>
                              /\ d < turn' \/ (d = turn' /\ call' = 2) => stored'[d] = 0
                              /\ d < turn' => timeline'[d] = << >>
                        /\ stage' = "ended" => stored'[d] = 0 /\ timeline'[d] = << >>
      BY <1>1, <1>4, <1>5 DEF Displayed
    <3>1. /\ tracker[d].does = "done" /\ shown[d] = Line(Delivered)
          /\ d < turn \/ (d = turn /\ call = 2) => stored[d] = 0
          /\ d < turn => timeline[d] = << >>
      BY <1>1, <2>2 DEF Tracked, Displayed
    <3>2. CASE d # turn
      BY <1>4, <1>5, <1>6, <3>1, <3>2
    <3>3. CASE d = turn
      BY <1>5, <1>6, <1>7, <3>1, <3>3
    <3> QED
      BY <3>2, <3>3
  <2> QED
    BY <2>1, <2>4, <2>5, <2>6 DEF Tracked
<1> QED
  BY <1>8, <1>9, <1>10 DEF DeliveryInv


LEMMA CellRaisesTracked == DeliveryInv /\ CellRaises => DeliveryInv'
<1> SUFFICES ASSUME DeliveryInv, CellRaises PROVE DeliveryInv'
  OBVIOUS
<1>1. PICK q, s : /\ RaisesInClient(turn, q, s) /\ q = CellRequests[call]
                  /\ s = IF stage = "publish" THEN 1 ELSE 0
  BY DEF CellRaises
<1>2. /\ DeliveryTyped /\ CallKnown /\ \A d \in Deliveries : Tracked(d)
      /\ InLoop /\ turn \in Deliveries /\ stage' = "failed"
      /\ UNCHANGED <<turn, call, wakes, time, tracker, shown>>
  BY DEF DeliveryInv, DeliveryTyped, CellRaises
<1>3. (s = 1 /\ stage = "publish") \/ (s = 0 /\ q # "push")
  <2>1. CASE stage = "publish"
    BY <1>1, <2>1
  <2>2. CASE stage = "show"
    <3>1. q = "range"
      BY <1>1, <1>2, <2>2, CellCalls DEF CallKnown
    <3> QED
      BY <1>1, <2>2, <3>1
  <2>3. CASE stage = "clean"
    <3>1. call = 1 \/ call = 2
      BY <1>2, <2>3 DEF CallKnown
    <3>2. q = "delete status" \/ q = "delete timeline"
      BY <1>1, <2>3, <3>1, CellCalls
    <3>3. s = 0
      BY <1>1, <2>3
    <3> QED
      BY <3>2, <3>3
  <2> QED
    BY <1>2, <2>1, <2>2, <2>3 DEF InLoop
<1>4. /\ s \in 0 .. Delivered
      /\ q = "push" => s = 1 /\ s \in AllStatuses /\ stage = "publish"
  BY <1>3 DEF AllStatuses, Delivered
<1>5. /\ slow' = slow /\ faulty' \in [Deliveries -> Nat] /\ faulty'[turn] > 0
      /\ stored' \in [Deliveries -> 0 .. Delivered]
      /\ timeline' \in [Deliveries -> Seq(AllStatuses)]
      /\ \A e \in Deliveries \ {turn} : /\ stored'[e] = stored[e] /\ timeline'[e] = timeline[e]
                                        /\ faulty'[e] = faulty[e]
      /\ \/ timeline'[turn] = timeline[turn]
         \/ timeline'[turn] = << >>
         \/ q = "push" /\ timeline'[turn] = Append(timeline[turn], s)
  BY <1>1, <1>2, <1>4, Response
<1>6. DeliveryTyped' /\ CallKnown'
  BY <1>2, <1>5 DEF DeliveryTyped, CallKnown, CellStages
<1>7. ASSUME NEW d \in Deliveries \ {turn} PROVE Tracked(d)'
  BY <1>2, <1>5, <1>7, TrackedStays
<1>8. ASSUME NEW d \in Deliveries, d = turn PROVE Tracked(d)'
  <2>1. OrderKept(d)'
    <3>1. OrderKept(d) /\ timeline[d] \in Seq(AllStatuses)
      BY <1>2 DEF Tracked, DeliveryTyped
    <3>2. CASE q = "push" /\ timeline'[d] = Append(timeline[d], s)
      <4>1. tracker[d].status = s /\ s \in AllStatuses
        BY <1>2, <1>4, <3>2 DEF Tracked, Progress
      <4> QED
        BY <1>2, <3>1, <3>2, <4>1, AppendOrdered DEF OrderKept, Ordered
    <3>3. CASE timeline'[d] = << >>
      <4>1. \A i \in DOMAIN timeline'[d] : FALSE
        BY <3>3
      <4> QED
        BY <4>1, Zenon DEF OrderKept, Ordered
    <3> QED
      BY <1>2, <1>5, <1>8, <3>1, <3>2, <3>3 DEF OrderKept, Ordered
  <2>2. Progress(d)'
    <3>1. Progress(d)
      BY <1>2 DEF Tracked
    <3> QED
      BY <1>2, <1>5, <1>8, <3>1 DEF Progress, Asleep
  <2>3. OnTime(d)' /\ KnownLine(d)' /\ Displayed(d)'
    BY <1>2 DEF OnTime, KnownLine, Displayed
  <2> QED
    BY <2>1, <2>2, <2>3 DEF Tracked
<1>9. \A d \in Deliveries : Tracked(d)'
  BY <1>7, <1>8
<1> QED
  BY <1>6, <1>9, Zenon DEF DeliveryInv

-----------------------------------------------------------------------------
(* The tasks. *)
LEMMA FollowingTask ==
    ASSUME DeliveryTyped, NEW d \in Deliveries, AtWork(d)
    PROVE  /\ Following(d) \in [status : AllStatuses, does : Doings, at : Nat]
           /\ Following(d).status >= tracker[d].status
           /\ Following(d).does \notin {"none", "dead"}
           /\ \/ /\ Following(d).status = tracker[d].status
                 /\ \/ tracker[d].does = "set" /\ Following(d).does = "push"
                    \/ tracker[d].does = "push" /\ Following(d).does = "notify"
                    \/ /\ tracker[d].does = "notify" /\ Following(d).does = "done"
                       /\ tracker[d].status = Delivered
              \/ /\ tracker[d].does = "notify" /\ Following(d).does = "sleep"
                 /\ tracker[d].status < Delivered
                 /\ Following(d).status = tracker[d].status + 1
                 /\ Following(d).at = time + Delay(tracker[d].status + 1)
<1> DEFINE s == tracker[d].status
<1>1. s \in {1, 2, 3, 4} /\ time \in Nat /\ tracker[d].does \in {"set", "push", "notify"}
  BY StatusRange DEF AtWork
<1>2. CASE tracker[d].does = "set"
  BY <1>1, <1>2 DEF Following, Task, AllStatuses, Doings, Delivered
<1>3. CASE tracker[d].does = "push"
  BY <1>1, <1>3 DEF Following, Task, AllStatuses, Doings, Delivered
<1>4. CASE tracker[d].does = "notify" /\ s = 4
  BY <1>1, <1>4 DEF Following, Task, AllStatuses, Doings, Delivered
<1>5. CASE tracker[d].does = "notify" /\ s < 4
  <2>1. Following(d) = Task(s + 1, "sleep", time + Delay(s + 1))
    BY <1>5 DEF Following, Delivered
  <2>2. s + 1 \in 2 .. 4 /\ s + 1 \in AllStatuses
    BY <1>1, <1>5 DEF AllStatuses, Delivered
  <2>3. Delay(s + 1) \in Nat
    BY <2>2 DEF Delay, Delivered
  <2>4. time + Delay(s + 1) \in Nat
    BY <1>1, <2>3
  <2> HIDE DEF s
  <2>5. /\ Following(d).status = s + 1 /\ Following(d).does = "sleep"
        /\ Following(d).at = time + Delay(s + 1)
        /\ Following(d) \in [status : AllStatuses, does : Doings, at : Nat]
    BY <2>1, <2>2, <2>4 DEF Task, Doings
  <2>6. s + 1 >= s /\ s < Delivered
    BY <1>1, <1>5 DEF s, Delivered
  <2> QED
    BY <1>5, <2>5, <2>6 DEF s
<1> QED
  BY <1>1, <1>2, <1>3, <1>4, <1>5


LEMMA TaskRequestTracked ==
    ASSUME DeliveryInv, NEW d \in Deliveries, TaskRequest(d)
    PROVE  DeliveryInv'
<1>1. PICK q, s : /\ q = tracker[d].does /\ s = tracker[d].status
                  /\ Responds(d, q, s)
  BY DEF TaskRequest
<1>2. /\ DeliveryTyped /\ CallKnown /\ \A e \in Deliveries : Tracked(e)
      /\ AtWork(d) /\ tracker' = [tracker EXCEPT ![d] = Following(d)]
      /\ UNCHANGED <<stage, turn, call, wakes, time, shown>>
  BY DEF DeliveryInv, TaskRequest
<1>3. /\ s \in {1, 2, 3, 4} /\ q \in {"set", "push", "notify"}
      /\ s \in AllStatuses /\ s \in 0 .. Delivered /\ time \in Nat /\ wakes \in Nat
      /\ slow[d] \in Nat
  <2>1. s \in {1, 2, 3, 4} /\ time \in Nat /\ wakes \in Nat /\ slow[d] \in Nat
    BY <1>1, <1>2, StatusRange
  <2>2. q \in {"set", "push", "notify"}
    BY <1>1, <1>2 DEF AtWork
  <2>3. s \in AllStatuses /\ s \in 0 .. Delivered
    BY <2>1 DEF AllStatuses, Delivered
  <2> QED
    BY <2>1, <2>2, <2>3
<1>4. PICK f : f = Following(d)
  OBVIOUS
<1>5. /\ f \in [status : AllStatuses, does : Doings, at : Nat]
      /\ f.status >= s /\ f.does \notin {"none", "dead"}
      /\ \/ /\ f.status = s
            /\ \/ q = "set" /\ f.does = "push"
               \/ q = "push" /\ f.does = "notify"
               \/ q = "notify" /\ f.does = "done" /\ s = Delivered
         \/ /\ q = "notify" /\ f.does = "sleep" /\ s < Delivered
            /\ f.status = s + 1 /\ f.at = time + Delay(s + 1)
  BY <1>1, <1>2, <1>4, FollowingTask
<1>6. /\ slow' = slow /\ faulty' \in [Deliveries -> Nat]
      /\ stored' \in [Deliveries -> 0 .. Delivered]
      /\ timeline' \in [Deliveries -> Seq(AllStatuses)]
      /\ \A e \in Deliveries \ {d} : /\ stored'[e] = stored[e] /\ timeline'[e] = timeline[e]
                                     /\ faulty'[e] = faulty[e]
      /\ \/ timeline'[d] = timeline[d]
         \/ timeline'[d] = << >>
         \/ timeline'[d] = Append(timeline[d], s)
      /\ (Perform(d, q, s) /\ faulty' = faulty) \/ faulty'[d] > 0
  BY <1>1, <1>2, <1>3, Response
<1>7. /\ tracker' \in [Deliveries -> [status : AllStatuses, does : Doings, at : Nat]]
      /\ tracker'[d] = f /\ \A e \in Deliveries \ {d} : tracker'[e] = tracker[e]
  BY <1>2, <1>4, <1>5 DEF DeliveryTyped
<1>8. DeliveryTyped' /\ CallKnown'
  BY <1>2, <1>6, <1>7 DEF DeliveryTyped, CallKnown
<1>9. ASSUME NEW e \in Deliveries, e # d PROVE Tracked(e)'
  BY <1>2, <1>6, <1>7, <1>9, TrackedStays
<1>10. Tracked(d)
  BY <1>2
<1>11. OrderKept(d)'
  <2>1. /\ Ordered(timeline[d]) /\ timeline[d] \in Seq(AllStatuses)
        /\ \A i \in DOMAIN timeline[d] : timeline[d][i] <= s
    BY <1>1, <1>2, <1>10 DEF Tracked, OrderKept, DeliveryTyped
  <2>2. /\ Ordered(Append(timeline[d], s))
        /\ \A i \in DOMAIN Append(timeline[d], s) : Append(timeline[d], s)[i] <= s
    BY <1>3, <2>1, AppendOrdered
  <2>3. Ordered(<< >>) /\ DOMAIN << >> = {}
    BY DEF Ordered
  <2>4. Ordered(timeline'[d]) /\ \A i \in DOMAIN timeline'[d] : timeline'[d][i] <= s
    BY <1>6, <2>1, <2>2, <2>3
  <2>5. timeline'[d] \in Seq(AllStatuses) /\ f.status \in {1, 2, 3, 4}
    BY <1>5, <1>6 DEF AllStatuses, Delivered
  <2>6. \A i \in DOMAIN timeline'[d] : timeline'[d][i] \in Nat
    <3>1. \A i \in DOMAIN timeline'[d] : timeline'[d][i] \in AllStatuses
      BY <2>5
    <3>2. AllStatuses \subseteq Nat
      BY DEF AllStatuses, Delivered
    <3> QED
      BY <3>1, <3>2
  <2>7. \A i \in DOMAIN timeline'[d] : timeline'[d][i] <= f.status
    BY <1>3, <1>5, <2>4, <2>5, <2>6
  <2> QED
    BY <1>7, <2>4, <2>7 DEF OrderKept, Ordered
<1>12. Progress(d)'
  <2>1. stage # "publish" /\ (stage \in {"wait", "show", "clean", "ended"} => s > 1)
    BY <1>1, <1>2, <1>10 DEF Tracked, Progress, AtWork
  <2>2. f.status \in {1, 2, 3, 4}
    BY <1>5 DEF AllStatuses, Delivered
  <2>3. s > 1 => f.status > 1
    BY <1>3, <1>5, <2>2
  <2>4. f.does = "done" => f.status = Delivered
    BY <1>5
  <2>5. f.does = "sleep" => /\ f.status > 1 /\ time <= f.at
                            /\ f.at <= time + Delay(f.status)
    <3> SUFFICES ASSUME f.does = "sleep"
                 PROVE  f.status > 1 /\ time <= f.at /\ f.at <= time + Delay(f.status)
      OBVIOUS
    <3>1. s < Delivered /\ f.status = s + 1 /\ f.at = time + Delay(s + 1)
      BY <1>5
    <3>2. s + 1 \in {2, 3, 4}
      BY <1>3, <3>1 DEF Delivered
    <3>3. Delay(s + 1) \in Nat
      BY <3>2 DEF Delay, Delivered
    <3> QED
      BY <1>3, <3>1, <3>2, <3>3
  <2> QED
    BY <1>2, <1>5, <1>7, <2>1, <2>3, <2>4, <2>5 DEF Progress, Asleep
<1>13. OnTime(d)'
  <2> SUFFICES ASSUME stage = "wait"
               PROVE  /\ f.does \in {"set", "push", "notify"} =>
                            time + 7 <= wakes + Ahead(f.status) + slow[d]
                      /\ f.does = "sleep" => f.at + 7 <= wakes + Ahead(f.status) + slow[d]
    BY <1>2, <1>6, <1>7 DEF OnTime, AtWork, Asleep, ShowAfter
  <2>1. s > 1 /\ time + 7 <= wakes + Ahead(s) + slow[d]
    BY <1>1, <1>2, <1>10 DEF Tracked, OnTime, Progress, ShowAfter
  <2>2. CASE f.does # "sleep"
    BY <1>5, <2>1, <2>2
  <2>3. CASE f.does = "sleep"
    <3>1. f.status = s + 1 /\ f.at = time + Delay(s + 1) /\ s < 4
      BY <1>5, <2>3 DEF Delivered
    <3>2. CASE s = 2
      <4>1. Delay(s + 1) = 3 /\ Ahead(s) = 2 /\ Ahead(s + 1) = 5
        BY <3>2 DEF Delay, Ahead, Delivered
      <4> QED
        BY <1>3, <2>1, <2>3, <3>1, <4>1
    <3>3. CASE s = 3
      <4>1. Delay(s + 1) = 0 /\ Ahead(s) = 5 /\ Ahead(s + 1) = 5
        BY <3>3 DEF Delay, Ahead, Delivered
      <4> QED
        BY <1>3, <2>1, <2>3, <3>1, <4>1
    <3> QED
      BY <1>3, <2>1, <3>1, <3>2, <3>3
  <2> QED
    BY <2>2, <2>3
<1>14. KnownLine(d)'
  <2> SUFFICES ASSUME faulty'[d] = 0, stage \in {"track", "wait"}
               PROVE  timeline'[d] = Line(IF f.does \in {"notify", "done"}
                                          THEN f.status ELSE f.status - 1)
    <3>1. stage # "publish"
      BY <1>1, <1>2, <1>10 DEF Tracked, Progress, AtWork
    <3> QED
      BY <1>2, <1>7, <3>1 DEF KnownLine, Pushed
  <2>1. Perform(d, q, s) /\ faulty' = faulty
    BY <1>6
  <2>2. timeline[d] = Line(IF q \in {"notify", "done"} THEN s ELSE s - 1)
    BY <1>1, <1>10, <2>1 DEF Tracked, KnownLine, Pushed
  <2>3. timeline'[d] = IF q = "push" THEN Append(timeline[d], s) ELSE timeline[d]
    BY <1>2, <1>3, <2>1, Performs
  <2>4. CASE q = "set"
    BY <1>5, <2>2, <2>3, <2>4
  <2>5. CASE q = "push"
    <3>1. s - 1 \in 0 .. 3 /\ (s - 1) + 1 = s
      BY <1>3
    <3>2. Append(Line(s - 1), s) = Line(s)
      BY <3>1, LineGrows
    <3>3. timeline'[d] = Append(Line(s - 1), s)
      BY <2>2, <2>3, <2>5
    <3> QED
      BY <1>5, <2>5, <3>2, <3>3
  <2>6. CASE q = "notify"
    <3>1. timeline'[d] = Line(s) /\ (s + 1) - 1 = s
      BY <1>3, <2>2, <2>3, <2>6
    <3> QED
      BY <1>5, <2>6, <3>1
  <2> QED
    BY <1>3, <2>4, <2>5, <2>6
<1>15. Displayed(d)'
  <2> SUFFICES ASSUME faulty'[d] = 0, slow[d] <= 1
               PROVE  stage \notin {"show", "clean", "ended"}
    BY <1>2, <1>6 DEF Displayed
  <2>1. faulty[d] = 0
    BY <1>6
  <2> QED
    BY <1>2, <1>10, <2>1 DEF Tracked, Displayed, AtWork
<1>16. Tracked(d)'
  BY <1>11, <1>12, <1>13, <1>14, <1>15 DEF Tracked
<1>17. \A e \in Deliveries : Tracked(e)'
  BY <1>9, <1>16
<1> QED
  BY <1>8, <1>17 DEF DeliveryInv


LEMMA TaskRaisesTracked ==
    ASSUME DeliveryInv, NEW d \in Deliveries, TaskRaises(d)
    PROVE  DeliveryInv'
<1>1. PICK q, s : /\ q = tracker[d].does /\ s = tracker[d].status
                  /\ RaisesInClient(d, q, s)
  BY DEF TaskRaises
<1>2. /\ DeliveryTyped /\ CallKnown /\ \A e \in Deliveries : Tracked(e)
      /\ AtWork(d) /\ tracker' = [tracker EXCEPT ![d].does = "dead", ![d].at = time]
      /\ stage' = "failed" \/ stage' = stage
      /\ UNCHANGED <<turn, call, wakes, time, shown>>
  BY DEF DeliveryInv, TaskRaises
<1>3. s \in AllStatuses /\ s \in 0 .. Delivered /\ time \in Nat
  <2>1. s \in {1, 2, 3, 4} /\ time \in Nat
    BY <1>1, <1>2, StatusRange
  <2> QED
    BY <2>1 DEF AllStatuses, Delivered
<1>4. /\ slow' = slow /\ faulty' \in [Deliveries -> Nat] /\ faulty'[d] > 0
      /\ stored' \in [Deliveries -> 0 .. Delivered]
      /\ timeline' \in [Deliveries -> Seq(AllStatuses)]
      /\ \A e \in Deliveries \ {d} : /\ stored'[e] = stored[e] /\ timeline'[e] = timeline[e]
                                     /\ faulty'[e] = faulty[e]
      /\ \/ timeline'[d] = timeline[d]
         \/ timeline'[d] = << >>
         \/ timeline'[d] = Append(timeline[d], s)
  BY <1>1, <1>2, <1>3, Response
<1>5. /\ tracker' \in [Deliveries -> [status : AllStatuses, does : Doings, at : Nat]]
      /\ tracker'[d].status = s /\ tracker'[d].does = "dead"
      /\ \A e \in Deliveries \ {d} : tracker'[e] = tracker[e]
  <2>1. tracker \in [Deliveries -> [status : AllStatuses, does : Doings, at : Nat]]
    BY <1>2 DEF DeliveryTyped
  <2> QED
    BY <1>1, <1>2, <1>3, <2>1 DEF Doings
<1>6. DeliveryTyped' /\ CallKnown'
  BY <1>2, <1>4, <1>5 DEF DeliveryTyped, CallKnown, CellStages
<1>7. ASSUME NEW e \in Deliveries, e # d PROVE Tracked(e)'
  BY <1>2, <1>4, <1>5, <1>7, TrackedStays
<1>8. OrderKept(d)'
  <2>1. /\ Ordered(timeline[d]) /\ timeline[d] \in Seq(AllStatuses)
        /\ \A i \in DOMAIN timeline[d] : timeline[d][i] <= s
    BY <1>1, <1>2 DEF Tracked, OrderKept, DeliveryTyped
  <2>2. /\ Ordered(Append(timeline[d], s))
        /\ \A i \in DOMAIN Append(timeline[d], s) : Append(timeline[d], s)[i] <= s
    BY <1>3, <2>1, AppendOrdered
  <2>3. Ordered(<< >>) /\ DOMAIN << >> = {}
    BY DEF Ordered
  <2>4. Ordered(timeline'[d]) /\ \A i \in DOMAIN timeline'[d] : timeline'[d][i] <= s
    BY <1>4, <2>1, <2>2, <2>3
  <2> QED
    BY <1>5, <2>4 DEF OrderKept, Ordered
<1>9. Progress(d)'
  <2>1. stage # "publish" /\ (stage \in {"wait", "show", "clean", "ended"} => s > 1)
    BY <1>1, <1>2 DEF Tracked, Progress, AtWork
  <2> QED
    BY <1>2, <1>4, <1>5, <2>1 DEF Progress, Asleep
<1>10. OnTime(d)'
  BY <1>5 DEF OnTime, AtWork, Asleep
<1>11. KnownLine(d)' /\ Displayed(d)'
  BY <1>4 DEF KnownLine, Displayed
<1>12. \A e \in Deliveries : Tracked(e)'
  BY <1>7, <1>8, <1>9, <1>10, <1>11 DEF Tracked
<1> QED
  BY <1>6, <1>12 DEF DeliveryInv

LEMMA TaskWakesTracked ==
    ASSUME DeliveryInv, NEW d \in Deliveries, TaskWakes(d)
    PROVE  DeliveryInv'
<1>1. /\ DeliveryTyped /\ CallKnown /\ \A e \in Deliveries : Tracked(e)
      /\ Asleep(d) /\ tracker[d].at = time
      /\ tracker' = [tracker EXCEPT ![d].does = "set"]
      /\ UNCHANGED <<stage, turn, call, wakes, time, stored, timeline, shown, faulty, slow>>
  BY DEF DeliveryInv, TaskWakes, keys, trouble
<1>2. /\ tracker' \in [Deliveries -> [status : AllStatuses, does : Doings, at : Nat]]
      /\ tracker'[d].status = tracker[d].status /\ tracker'[d].does = "set"
      /\ \A e \in Deliveries \ {d} : tracker'[e] = tracker[e]
  <2>1. tracker \in [Deliveries -> [status : AllStatuses, does : Doings, at : Nat]]
    BY <1>1 DEF DeliveryTyped
  <2> QED
    BY <1>1, <2>1 DEF Doings
<1>3. DeliveryTyped' /\ CallKnown'
  BY <1>1, <1>2 DEF DeliveryTyped, CallKnown
<1>4. ASSUME NEW e \in Deliveries, e # d PROVE Tracked(e)'
  BY <1>1, <1>2, <1>4, TrackedStays
<1>5. OrderKept(d)'
  BY <1>1, <1>2 DEF Tracked, OrderKept, Ordered
<1>6. Progress(d)'
  BY <1>1, <1>2 DEF Tracked, Progress, Asleep
<1>7. OnTime(d)'
  BY <1>1, <1>2 DEF Tracked, OnTime, AtWork, Asleep
<1>8. KnownLine(d)'
  <2>1. tracker[d].does \notin {"notify", "done"} /\ stage # "publish"
    BY <1>1 DEF Tracked, Progress, Asleep
  <2> QED
    BY <1>1, <1>2, <2>1 DEF Tracked, KnownLine, Pushed
<1>9. Displayed(d)'
  BY <1>1, <1>2 DEF Tracked, Displayed, Asleep
<1>10. \A e \in Deliveries : Tracked(e)'
  BY <1>4, <1>5, <1>6, <1>7, <1>8, <1>9 DEF Tracked
<1> QED
  BY <1>3, <1>10 DEF DeliveryInv

LEMMA TimePassesTracked == DeliveryInv /\ TimePasses => DeliveryInv'
<1> SUFFICES ASSUME DeliveryInv, TimePasses PROVE DeliveryInv'
  OBVIOUS
<1>1. /\ DeliveryTyped /\ CallKnown /\ \A e \in Deliveries : Tracked(e)
      /\ \A e \in Deliveries : /\ AtWork(e) => slow[e] < MaxSlow
                               /\ Asleep(e) => time < tracker[e].at
      /\ time' = time + 1
      /\ slow' = [e \in Deliveries |-> IF AtWork(e) THEN slow[e] + 1 ELSE slow[e]]
      /\ UNCHANGED <<stage, turn, call, wakes, stored, timeline, tracker, shown, faulty>>
  BY DEF DeliveryInv, TimePasses, keys
<1>2. /\ slow' \in [Deliveries -> 0 .. MaxSlow] /\ time' \in Nat
  <2>1. /\ slow \in [Deliveries -> 0 .. MaxSlow] /\ time \in Nat /\ MaxSlow \in Nat
    BY <1>1, Numbered DEF DeliveryTyped
  <2>2. ASSUME NEW e \in Deliveries
        PROVE  (IF AtWork(e) THEN slow[e] + 1 ELSE slow[e]) \in 0 .. MaxSlow
    BY <1>1, <2>1
  <2> QED
    BY <1>1, <2>1, <2>2
<1>3. DeliveryTyped' /\ CallKnown'
  BY <1>1, <1>2 DEF DeliveryTyped, CallKnown
<1>4. ASSUME NEW d \in Deliveries PROVE Tracked(d)'
  <2> DEFINE s == tracker[d].status
  <2>1. /\ s \in {1, 2, 3, 4} /\ tracker[d].at \in Nat /\ slow[d] \in Nat
        /\ time \in Nat /\ wakes \in Nat
    BY <1>1, StatusRange
  <2>2. /\ slow'[d] = IF AtWork(d) THEN slow[d] + 1 ELSE slow[d]
        /\ slow'[d] <= 1 => slow[d] <= 1
    BY <1>1, <2>1
  <2>3. OrderKept(d)'
    BY <1>1 DEF Tracked, OrderKept, Ordered
  <2>4. Progress(d)'
    <3>1. Progress(d)
      BY <1>1 DEF Tracked
    <3>2. Asleep(d) => /\ s > 1 /\ time' <= tracker[d].at
                       /\ tracker[d].at <= time' + Delay(s)
      <4> SUFFICES ASSUME Asleep(d)
                   PROVE  /\ s > 1 /\ time' <= tracker[d].at
                          /\ tracker[d].at <= time' + Delay(s)
        OBVIOUS
      <4>1. s > 1 /\ time < tracker[d].at /\ tracker[d].at <= time + Delay(s)
        BY <1>1, <3>1 DEF Progress
      <4>2. Delay(s) \in Nat
        BY <2>1, <4>1 DEF Delay, Delivered
      <4> QED
        BY <1>1, <2>1, <4>1, <4>2
    <3> QED
      BY <1>1, <3>1, <3>2 DEF Progress, Asleep
  <2>5. OnTime(d)'
    <3> SUFFICES ASSUME stage = "wait"
                 PROVE  /\ AtWork(d) => time' + 7 <= wakes + Ahead(s) + slow'[d]
                        /\ Asleep(d) => tracker[d].at + 7 <= wakes + Ahead(s) + slow'[d]
      BY <1>1 DEF OnTime, AtWork, Asleep, ShowAfter
    <3>1. /\ AtWork(d) => time + 7 <= wakes + Ahead(s) + slow[d]
          /\ Asleep(d) => tracker[d].at + 7 <= wakes + Ahead(s) + slow[d]
      BY <1>1 DEF Tracked, OnTime, ShowAfter
    <3>2. Ahead(s) \in Nat
      BY DEF Ahead
    <3>3. Asleep(d) => ~AtWork(d)
      BY DEF Asleep, AtWork
    <3> HIDE DEF s
    <3> QED
      BY <1>1, <2>1, <2>2, <3>1, <3>2, <3>3
  <2>6. KnownLine(d)'
    BY <1>1 DEF Tracked, KnownLine, Pushed
  <2>7. Displayed(d)'
    BY <1>1, <2>2 DEF Tracked, Displayed
  <2> QED
    BY <2>3, <2>4, <2>5, <2>6, <2>7 DEF Tracked
<1> QED
  BY <1>3, <1>4 DEF DeliveryInv

THEOREM DeliveryInvariance == DeliverySpec => []DeliveryInv
<1>1. DeliveryInv /\ [DeliveryNext]_deliveryVars => DeliveryInv'
  <2> SUFFICES ASSUME DeliveryInv, [DeliveryNext]_deliveryVars PROVE DeliveryInv'
    OBVIOUS
  <2>1. CASE UNCHANGED deliveryVars
    BY <2>1 DEF DeliveryInv, DeliveryTyped, CallKnown, Tracked, OrderKept, Ordered, Progress,
                OnTime, KnownLine, Pushed, Displayed, AtWork, Asleep, deliveryVars
  <2>2. AllQuiet => UNCHANGED deliveryVars
    BY DEF AllQuiet
  <2> QED
    BY <2>1, <2>2, PublishTracked, GatheredTracked, AwakeTracked, DisplayTracked, CleanupTracked,
       CellRaisesTracked, TaskRequestTracked, TaskRaisesTracked, TaskWakesTracked,
       TimePassesTracked DEF DeliveryNext
<1> QED
  BY <1>1, DeliveryBegins, PTL DEF DeliverySpec

(* The timelines that the notebook announces as complete are: one of whose    *)
(* requests none failed and at most one was slow, is shown with all its       *)
(* statuses, and nothing of it is left behind; every timeline is in order.    *)
THEOREM AlwaysComplete == DeliverySpec => []ShownIsComplete
<1>1. DeliveryInv => ShownIsComplete
  <2> SUFFICES ASSUME DeliveryInv, NEW d \in Deliveries
               PROVE  /\ Ordered(timeline[d])
                      /\ faulty[d] = 0 /\ slow[d] <= 1 =>
                            /\ stage \in {"clean", "ended"} => shown[d] = <<1, 1, 2, 3, 4>>
                            /\ stage = "ended" => stored[d] = 0 /\ timeline[d] = << >>
    BY DEF ShownIsComplete
  <2>1. Ordered(timeline[d]) /\ Displayed(d)
    BY DEF DeliveryInv, Tracked, OrderKept
  <2> QED
    BY <2>1, WholeLine DEF Displayed
<1> QED
  BY <1>1, DeliveryInvariance, PTL


-----------------------------------------------------------------------------
(* The instance that TLC checks moves one part at a time; so what is proved of
   the parts holds of it. *)
LEMMA PartsOfNotebooks ==
    Spec => RabbitSpec /\ DeliverySpec /\ MemorySpec /\ CacheSpec /\ BucketSpec /\ JobsSpec
<1>1. Init => /\ RabbitInit /\ DeliveryInit /\ MemoryInit /\ CacheInit /\ BucketInit
              /\ JobsInit
  BY DEF Init
<1>2. [Next]_vars =>
         /\ [RabbitNext]_rabbitVars /\ [DeliveryNext]_deliveryVars /\ [MemoryNext]_memoryVars
         /\ [CacheNext]_cacheVars /\ [BucketNext]_bucketVars /\ [JobsNext]_jobVars
  BY DEF Next, vars, OthersStay, QueueStep, DeliveryStep, VectorStep, CacheStep, BucketStep,
         JobsStep, Stopped
<1> QED
  BY <1>1, <1>2, PTL DEF Spec, RabbitSpec, DeliverySpec, MemorySpec, CacheSpec, BucketSpec,
                         JobsSpec

(* All that the queues, the tracking, the vectors, the cache, the bucket and  *)
(* the jobs keep has its type, for all their numbers.                         *)
THEOREM NotebookTypes == Spec => []TypeOK
<1>1. DeliveryInv => DeliveryTypeOK
  <2> SUFFICES ASSUME DeliveryInv PROVE DeliveryTypeOK
    OBVIOUS
  <2>1. DeliveryTyped
    BY DEF DeliveryInv
  <2>2. \A d \in Deliveries : /\ tracker[d].status \in 1 .. Delivered
                              /\ tracker[d].does \in Doings /\ slow[d] \in 0 .. MaxSlow
    BY <2>1 DEF DeliveryTyped, AllStatuses
  <2> QED
    BY <2>1, <2>2 DEF DeliveryTyped, DeliveryTypeOK, CellStages, Doings
<1>2. MemoryInv => MemoryTypeOK
  BY DEF MemoryInv
<1>3. CacheInv => CacheTypeOK
  BY DEF CacheInv
<1>4. BucketInv => BucketTypeOK
  BY DEF BucketInv
<1>5. JobsInv => JobsTypeOK
  BY DEF JobsInv
<1>6. RabbitTypeOK /\ DeliveryTypeOK /\ MemoryTypeOK /\ CacheTypeOK /\ BucketTypeOK /\ JobsTypeOK
         => TypeOK
  BY DEF TypeOK
<1> QED
  BY <1>1, <1>2, <1>3, <1>4, <1>5, <1>6, PartsOfNotebooks, TypesHold, DeliveryInvariance,
     MemoryInitInv, MemoryNextInv, CacheInitInv, CacheNextInv, BucketInvariance, JobsInvariance,
     PTL DEF MemorySpec, CacheSpec

(* What a notebook is shown is true: the timelines are complete, a vector    *)
(* that is found has its text, a value from the cache was current within its *)
(* time to live and the latencies.                                           *)
THEOREM AlwaysTrue == Spec => []ShownIsTrue
<1>1. ShownIsComplete /\ FoundHasText /\ StaleAtMost => ShownIsTrue
  BY DEF ShownIsTrue
<1> QED
  BY <1>1, PartsOfNotebooks, AlwaysComplete, FoundIsReadable, StaleNoLonger, PTL
=============================================================================
