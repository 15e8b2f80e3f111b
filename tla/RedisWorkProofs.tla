-------------------------- MODULE RedisWorkProofs --------------------------
(***************************************************************************)
(* The Redis routes hand out every stream entry and every job once and in  *)
(* order, and what they take stays accounted for, for any number of        *)
(* handlers, groups, items and entries per read.                           *)
(***************************************************************************)
EXTENDS RedisWork, SequenceLemmas

Increasing(s) == \A i, j \in 1 .. Len(s) : i < j => s[i] < s[j]
Decreasing(s) == \A i, j \in 1 .. Len(s) : i < j => s[i] > s[j]

Hands ==
    {Idle, Popping} \cup [op : {"popped"}, job : Items]
        \cup [op : {"acking"}, group : Groups, todo : Seq(Items), acked : Seq(Items)]

StateOK ==
    /\ issued \in 0 .. MaxItems
    /\ stream \in Seq(1 .. issued)
    /\ group \in [Groups -> [made : BOOLEAN, last : 0 .. issued, pending : SUBSET Items]]
    /\ list \in Seq(1 .. issued)
    /\ raw \subseteq 1 .. issued
    /\ blocked \in Seq(Handlers)
    /\ handler \in [Handlers -> Hands]
    /\ answered \subseteq Places \X Items
    /\ dropped \subseteq Places \X Items
    /\ stranded \subseteq Groups \X Items

(* The stream grows at its end and the list at its left; a group has stopped
   at an entry of the stream, or not begun. *)
InOrder ==
    /\ Increasing(stream)
    /\ Decreasing(list)
    /\ \A g \in Groups : group[g].last = 0 \/ group[g].last \in Range(stream)

WaitersOK ==
    /\ IsInjective(blocked)
    /\ Range(blocked) = {h \in Handlers : handler[h] = Popping}
    /\ blocked # <<>> => list = <<>>

(* A read has each of its entries once. *)
InHandOK ==
    \A h \in Handlers : handler[h].op = "acking" =>
        /\ IsInjective(handler[h].todo)
        /\ Range(handler[h].todo) \cap Range(handler[h].acked) = {}
        /\ Len(handler[h].todo) + Len(handler[h].acked) \in 1 .. Count

(* What a request in state r has taken at `place`, and what a read in state r
   has still to acknowledge in the group g. *)
HandOf(r, place) ==
    CASE place # Queue /\ r.op = "acking" ->
            IF r.group = place THEN Range(r.todo) \cup Range(r.acked) ELSE {}
      [] place = Queue /\ r.op = "popped" -> {r.job}
      [] OTHER -> {}

TodoOf(r, g) ==
    IF r.op = "acking" /\ r.group = g THEN Range(r.todo) ELSE {}

Outcome(place, i) ==
    \/ <<place, i>> \in answered
    \/ <<place, i>> \in dropped
    \/ <<place, i>> \in stranded

HasFate(place, i) ==
    Outcome(place, i) \/ \E h \in Handlers : i \in HandOf(handler[h], place)

(* The properties, item by item. *)
OneFate ==
    /\ \A place \in Places, i \in Items :
          /\ <<place, i>> \in answered => <<place, i>> \notin dropped \cup stranded
          /\ <<place, i>> \in dropped => <<place, i>> \notin stranded
    /\ \A place \in Places, h \in Handlers : \A i \in HandOf(handler[h], place) :
          /\ ~Outcome(place, i)
          /\ \A k \in Handlers \ {h} : i \notin HandOf(handler[k], place)

FatesIssued == \A place \in Places : \A i : HasFate(place, i) => i \in 1 .. issued

DeliveredInOrder ==
    \A g \in Groups : \A i \in Range(stream) : i <= group[g].last <=> HasFate(g, i)

PoppedInOrder == \A i \in Range(list), j \in Items : HasFate(Queue, j) => j < i

PendingKnown ==
    \A g \in Groups, i \in Items :
        i \in group[g].pending <=>
            /\ i \in Range(stream)
            /\ \/ <<g, i>> \in stranded
               \/ \E h \in Handlers : i \in TodoOf(handler[h], g)

IInv == StateOK /\ InOrder /\ WaitersOK /\ InHandOK /\ OneFate /\ FatesIssued
        /\ DeliveredInOrder /\ PoppedInOrder /\ PendingKnown

-----------------------------------------------------------------------------
(* Sequences: what a read takes, what a push and a pop do to the list, what a
   caller that leaves does to the waiting clients. *)

LEMMA SeenSplits ==
    ASSUME StateOK, InOrder, NEW g \in Groups
    PROVE  /\ Seen(g) \in 0 .. Len(stream)
           /\ \A j \in 1 .. Len(stream) : j <= Seen(g) <=> stream[j] <= group[g].last
<1>1. /\ stream \in Seq(1 .. issued) /\ Len(stream) \in Nat /\ issued \in Nat
      /\ \A j \in 1 .. Len(stream) : stream[j] \in 1 .. issued
  BY WorkAssumption DEF StateOK
<1>2. \E n \in 0 .. Len(stream) :
         \A j \in 1 .. Len(stream) : j <= n <=> stream[j] <= group[g].last
  <2>1. CASE group[g].last = 0
    <3>1. ASSUME NEW j \in 1 .. Len(stream)
          PROVE  j <= 0 <=> stream[j] <= group[g].last
      <4>1. stream[j] \in Nat \ {0} /\ j \in Nat \ {0}
        BY <1>1
      <4> QED
        BY <2>1, <4>1
    <3>2. 0 \in 0 .. Len(stream)
      BY <1>1
    <3> QED
      BY <3>1, <3>2
  <2>2. CASE group[g].last \in Range(stream)
    <3>1. PICK p \in 1 .. Len(stream) : stream[p] = group[g].last
      BY <1>1, <2>2, RangeMember
    <3>2. ASSUME NEW j \in 1 .. Len(stream)
          PROVE  j <= p <=> stream[j] <= group[g].last
      <4>1. /\ j < p => stream[j] < stream[p]
            /\ p < j => stream[p] < stream[j]
        BY DEF InOrder, Increasing
      <4> QED
        BY <1>1, <3>1, <4>1
    <3> QED
      BY <3>2
  <2> QED
    BY <2>1, <2>2 DEF InOrder
<1> QED
  BY <1>2 DEF Seen

LEMMA BatchTaken ==
    ASSUME StateOK, InOrder, NEW g \in Groups, Batch(g) # <<>>
    PROVE  /\ Batch(g) \in Seq(1 .. issued)
           /\ Len(Batch(g)) \in 1 .. Count
           /\ IsInjective(Batch(g))
           /\ Last(Batch(g)) \in Range(stream)
           /\ Last(Batch(g)) \in 1 .. issued
           /\ \A i : i \in Range(Batch(g)) <=>
                        /\ i \in Range(stream)
                        /\ group[g].last < i /\ i <= Last(Batch(g))
<1> DEFINE N == Len(stream)
           n == Seen(g)
           k == IF N - n < Count THEN N - n ELSE Count
<1>1. /\ stream \in Seq(1 .. issued) /\ N \in Nat /\ issued \in Nat
      /\ \A j \in 1 .. N : stream[j] \in 1 .. issued
      /\ Count \in Nat \ {0} /\ group[g].last \in Nat
  BY WorkAssumption DEF StateOK
<1>2. n \in 0 .. N /\ \A j \in 1 .. N : j <= n <=> stream[j] <= group[g].last
  BY SeenSplits
<1>3. \A i, j \in 1 .. N : i < j => stream[i] < stream[j]
  BY DEF InOrder, Increasing
<1> HIDE DEF N, n
<1>4. /\ Fresh(g) \in Seq(1 .. issued) /\ Len(Fresh(g)) = N - n
      /\ \A j \in 1 .. (N - n) : Fresh(g)[j] = stream[n + j]
  <2>1. \A i \in (n + 1) .. N : stream[i] \in 1 .. issued
    BY <1>1, <1>2
  <2>2. /\ SubSeq(stream, n + 1, N) \in Seq(1 .. issued)
        /\ Len(SubSeq(stream, n + 1, N)) =
              IF n + 1 <= N THEN N - (n + 1) + 1 ELSE 0
        /\ \A i \in 1 .. (N - (n + 1) + 1) :
              SubSeq(stream, n + 1, N)[i] = stream[(n + 1) + i - 1]
    BY <1>1, <1>2, <2>1, SubSeqProperties
  <2>3. Fresh(g) = SubSeq(stream, n + 1, N)
    BY DEF Fresh, n, N
  <2>4. N - (n + 1) + 1 = N - n /\ \A i \in 1 .. (N - n) : (n + 1) + i - 1 = n + i
    BY <1>1, <1>2
  <2> QED
    BY <1>1, <1>2, <2>2, <2>3, <2>4
<1>5. Batch(g) = SubSeq(Fresh(g), 1, k) /\ k \in 0 .. (N - n) /\ k <= Count
  BY <1>1, <1>2, <1>4 DEF Batch
<1> HIDE DEF k
<1>6. /\ Batch(g) \in Seq(1 .. issued) /\ Len(Batch(g)) = k
      /\ \A j \in 1 .. k : Batch(g)[j] = stream[n + j]
  <2>1. \A i \in 1 .. k : Fresh(g)[i] \in 1 .. issued
    BY <1>1, <1>2, <1>4, <1>5
  <2>2. /\ SubSeq(Fresh(g), 1, k) \in Seq(1 .. issued)
        /\ Len(SubSeq(Fresh(g), 1, k)) = IF 1 <= k THEN k - 1 + 1 ELSE 0
        /\ \A i \in 1 .. (k - 1 + 1) : SubSeq(Fresh(g), 1, k)[i] = Fresh(g)[1 + i - 1]
    BY <1>1, <1>2, <1>5, <2>1, SubSeqProperties
  <2>3. k - 1 + 1 = k /\ \A i \in 1 .. k : 1 + i - 1 = i /\ i \in 1 .. (N - n)
    BY <1>1, <1>2, <1>5
  <2> QED
    BY <1>1, <1>2, <1>4, <1>5, <2>2, <2>3
<1>7. k \in 1 .. Count
  <2>1. k # 0
    <3> SUFFICES ASSUME k = 0 PROVE FALSE
      OBVIOUS
    <3>1. Batch(g) = <<>>
      BY <1>6
    <3> QED
      BY <3>1
  <2> QED
    BY <1>1, <1>2, <1>5, <2>1
<1>8. /\ n + k \in 1 .. N /\ Last(Batch(g)) = stream[n + k]
      /\ \A j \in 1 .. k : n + j \in 1 .. N
  <2>1. k \in 1 .. k /\ Len(Batch(g)) = k
    BY <1>6, <1>7
  <2> QED
    BY <1>1, <1>2, <1>5, <1>6, <1>7, <2>1 DEF Last
<1>9. IsInjective(Batch(g))
  <2> SUFFICES ASSUME NEW i \in 1 .. k, NEW j \in 1 .. k, Batch(g)[i] = Batch(g)[j]
               PROVE  i = j
    BY <1>6 DEF IsInjective
  <2>1. stream[n + i] = stream[n + j] /\ n + i \in 1 .. N /\ n + j \in 1 .. N
    BY <1>6, <1>8
  <2>2. ~(n + i < n + j) /\ ~(n + j < n + i)
    BY <1>1, <1>3, <2>1
  <2> QED
    BY <1>2, <1>7, <2>2
<1>10. Last(Batch(g)) \in Range(stream) /\ Last(Batch(g)) \in 1 .. issued
  BY <1>1, <1>8, RangeMember DEF N
<1>11. ASSUME NEW i
       PROVE  i \in Range(Batch(g)) <=>
                 /\ i \in Range(stream)
                 /\ group[g].last < i /\ i <= Last(Batch(g))
  <2>1. ASSUME i \in Range(Batch(g))
        PROVE  i \in Range(stream) /\ group[g].last < i /\ i <= Last(Batch(g))
    <3>1. PICK j \in 1 .. k : Batch(g)[j] = i
      BY <1>6, <2>1, RangeMember
    <3>2. i = stream[n + j] /\ n + j \in 1 .. N /\ i \in 1 .. issued
      BY <1>1, <1>6, <1>8, <3>1
    <3>3. ~(n + j <= n)
      BY <1>2, <1>7
    <3>4. ~(stream[n + j] <= group[g].last)
      BY <1>2, <3>2, <3>3
    <3>5. j = k \/ n + j < n + k
      BY <1>2, <1>7
    <3>6. i <= Last(Batch(g))
      BY <1>1, <1>3, <1>8, <3>2, <3>5
    <3>7. i \in Range(stream)
      BY <1>1, <3>2, RangeMember DEF N
    <3> QED
      BY <1>1, <3>2, <3>4, <3>6, <3>7
  <2>2. ASSUME i \in Range(stream), group[g].last < i, i <= Last(Batch(g))
        PROVE  i \in Range(Batch(g))
    <3>1. PICK p \in 1 .. N : stream[p] = i
      BY <1>1, <2>2, RangeMember DEF N
    <3>2. ~(p <= n)
      BY <1>1, <1>2, <2>2, <3>1
    <3>3. ~(n + k < p)
      BY <1>1, <1>3, <1>8, <2>2, <3>1
    <3>4. p - n \in 1 .. k /\ n + (p - n) = p
      BY <1>2, <1>7, <3>2, <3>3
    <3>5. Batch(g)[p - n] = i
      BY <1>6, <3>1, <3>4
    <3> QED
      BY <1>6, <3>4, <3>5, RangeMember
  <2> QED
    BY <2>1, <2>2
<1> QED
  BY <1>6, <1>7, <1>9, <1>10, <1>11

LEMMA PushedLeft ==
    ASSUME NEW n \in Nat, NEW s \in Seq(1 .. n), Decreasing(s)
    PROVE  /\ <<n + 1>> \o s \in Seq(1 .. (n + 1))
           /\ Range(<<n + 1>> \o s) = {n + 1} \cup Range(s)
           /\ Decreasing(<<n + 1>> \o s)
<1> DEFINE a == <<n + 1>>
           t == a \o s
<1>1. /\ a \in Seq(1 .. (n + 1)) /\ Len(a) = 1 /\ a[1] = n + 1
      /\ s \in Seq(1 .. (n + 1)) /\ Len(s) \in Nat
      /\ \A i \in 1 .. Len(s) : s[i] \in 1 .. n
  OBVIOUS
<1> HIDE DEF a
<1>2. /\ t \in Seq(1 .. (n + 1)) /\ Len(t) = 1 + Len(s)
      /\ \A i \in 1 .. (1 + Len(s)) : t[i] = IF i <= 1 THEN a[i] ELSE s[i - 1]
  <2>1. /\ t \in Seq(1 .. (n + 1)) /\ Len(t) = Len(a) + Len(s)
        /\ \A i \in 1 .. Len(a) + Len(s) : t[i] = IF i <= Len(a) THEN a[i] ELSE s[i - Len(a)]
    BY <1>1, ConcatProperties
  <2> QED
    BY <1>1, <2>1
<1> HIDE DEF t
<1>3. t[1] = n + 1 /\ \A i \in 1 .. Len(s) : t[i + 1] = s[i]
  <2>1. t[1] = n + 1
    BY <1>1, <1>2
  <2>2. ASSUME NEW i \in 1 .. Len(s) PROVE t[i + 1] = s[i]
    <3>1. i + 1 \in 1 .. (1 + Len(s)) /\ ~(i + 1 <= 1) /\ (i + 1) - 1 = i
      BY <1>1
    <3> QED
      BY <1>2, <3>1
  <2> QED
    BY <2>1, <2>2
<1>4. ASSUME NEW x PROVE x \in Range(t) <=> x \in {n + 1} \cup Range(s)
  <2>1. ASSUME x \in Range(t) PROVE x = n + 1 \/ x \in Range(s)
    <3>1. PICK i \in 1 .. (1 + Len(s)) : t[i] = x
      BY <1>2, <2>1, RangeMember
    <3>2. CASE i = 1
      BY <1>3, <3>1, <3>2
    <3>3. CASE i # 1
      <4>1. i - 1 \in 1 .. Len(s) /\ ~(i <= 1)
        BY <1>1, <3>3
      <4>2. s[i - 1] = x
        BY <1>2, <3>1, <4>1
      <4> QED
        BY <4>1, <4>2, RangeMember
    <3> QED
      BY <3>2, <3>3
  <2>2. ASSUME x = n + 1 PROVE x \in Range(t)
    BY <1>1, <1>2, <1>3, <2>2, RangeMember
  <2>3. ASSUME x \in Range(s) PROVE x \in Range(t)
    <3>1. PICK i \in 1 .. Len(s) : s[i] = x
      BY <2>3, RangeMember
    <3>2. i + 1 \in 1 .. (1 + Len(s)) /\ t[i + 1] = x
      BY <1>1, <1>3, <3>1
    <3> QED
      BY <1>2, <3>2, RangeMember
  <2> QED
    BY <2>1, <2>2, <2>3
<1>5. Decreasing(t)
  <2> SUFFICES ASSUME NEW i \in 1 .. (1 + Len(s)), NEW j \in 1 .. (1 + Len(s)), i < j
               PROVE  t[i] > t[j]
    BY <1>2 DEF Decreasing
  <2>1. j - 1 \in 1 .. Len(s) /\ t[j] = s[j - 1]
    BY <1>1, <1>2
  <2>2. CASE i = 1
    BY <1>1, <1>3, <2>1, <2>2
  <2>3. CASE i # 1
    <3>1. i - 1 \in 1 .. Len(s) /\ t[i] = s[i - 1] /\ i - 1 < j - 1
      BY <1>1, <1>2, <2>3
    <3> QED
      BY <2>1, <3>1 DEF Decreasing
  <2> QED
    BY <2>2, <2>3
<1>6. Range(t) = {n + 1} \cup Range(s)
  BY <1>4
<1> QED
  BY <1>2, <1>5, <1>6 DEF t, a

LEMMA PoppedRight ==
    ASSUME NEW n \in Nat, NEW s \in Seq(1 .. n), s # <<>>, Decreasing(s)
    PROVE  /\ Last(s) \in Range(s) /\ Last(s) \in 1 .. n
           /\ Front(s) \in Seq(1 .. n)
           /\ Decreasing(Front(s))
           /\ \A i \in Range(Front(s)) : i \in Range(s) /\ i > Last(s)
<1>1. Len(s) \in Nat /\ Len(s) # 0 /\ \A i \in 1 .. Len(s) : s[i] \in 1 .. n
  OBVIOUS
<1> DEFINE m == Len(s) - 1
<1>2. /\ Front(s) \in Seq(1 .. n) /\ Len(Front(s)) = m
      /\ \A i \in 1 .. m : Front(s)[i] = s[i]
  <2>1. \A i \in 1 .. m : s[i] \in 1 .. n
    BY <1>1
  <2>2. m \in Int /\ 1 \in Int
    BY <1>1
  <2> HIDE DEF m
  <2>3. /\ SubSeq(s, 1, m) \in Seq(1 .. n)
        /\ Len(SubSeq(s, 1, m)) = IF 1 <= m THEN m - 1 + 1 ELSE 0
        /\ \A i \in 1 .. (m - 1 + 1) : SubSeq(s, 1, m)[i] = s[1 + i - 1]
    BY <2>1, <2>2, SubSeqProperties
  <2>4. m \in Nat /\ m - 1 + 1 = m /\ \A i \in 1 .. m : 1 + i - 1 = i
    BY <1>1, <2>2 DEF m
  <2> QED
    BY <2>3, <2>4 DEF Front, m
<1>3. Last(s) = s[Len(s)] /\ Len(s) \in 1 .. Len(s)
  BY <1>1 DEF Last
<1>4. Last(s) \in Range(s) /\ Last(s) \in 1 .. n
  BY <1>1, <1>3, RangeMember
<1>5. Decreasing(Front(s))
  <2> SUFFICES ASSUME NEW i \in 1 .. m, NEW j \in 1 .. m, i < j
               PROVE  Front(s)[i] > Front(s)[j]
    BY <1>2 DEF Decreasing
  <2>1. i \in 1 .. Len(s) /\ j \in 1 .. Len(s)
    BY <1>1
  <2>2. s[i] > s[j]
    BY <2>1 DEF Decreasing
  <2> QED
    BY <1>2, <2>2
<1>6. ASSUME NEW i \in Range(Front(s)) PROVE i \in Range(s) /\ i > Last(s)
  <2>1. PICK j \in 1 .. m : Front(s)[j] = i
    BY <1>2, RangeMember
  <2>2. j \in 1 .. Len(s) /\ j < Len(s)
    BY <1>1
  <2>3. s[j] = i
    BY <1>2, <2>1
  <2> QED
    BY <1>3, <2>2, <2>3, RangeMember DEF Decreasing
<1> QED
  BY <1>2, <1>4, <1>5, <1>6

-----------------------------------------------------------------------------
(* What requests have in hand, and what becomes of it. *)

LEMMA HandIsTaken ==
    \A h, place : TakenBy(h, place) = HandOf(handler[h], place)
  BY DEF TakenBy, HandOf

LEMMA HandFields ==
    ASSUME NEW r \in Hands
    PROVE  /\ r.op \in {"idle", "popping", "popped", "acking"}
           /\ r.op = "idle" => r = Idle
           /\ r.op = "popping" => r = Popping
           /\ r.op = "popped" => r.job \in Items /\ r = Popped(r.job)
           /\ r.op = "acking" =>
                 /\ r.group \in Groups /\ r.todo \in Seq(Items) /\ r.acked \in Seq(Items)
                 /\ r = Acking(r.group, r.todo, r.acked)
  BY DEF Hands, Idle, Popping, Popped, Acking

LEMMA NothingInHand ==
    /\ \A place : HandOf(Idle, place) = {} /\ TodoOf(Idle, place) = {}
    /\ \A place : HandOf(Popping, place) = {} /\ TodoOf(Popping, place) = {}
    /\ Idle \in Hands /\ Popping \in Hands
    /\ Idle.op = "idle" /\ Popping.op = "popping" /\ Idle # Popping
  BY DEF HandOf, TodoOf, Idle, Popping, Hands

LEMMA JobInHand ==
    ASSUME NEW i \in Items
    PROVE  /\ HandOf(Popped(i), Queue) = {i}
           /\ \A place \in Groups : HandOf(Popped(i), place) = {}
           /\ \A g : TodoOf(Popped(i), g) = {}
           /\ Popped(i) \in Hands /\ Popped(i).op = "popped" /\ Popped(i).job = i
           /\ Popped(i) # Popping
  BY PlacesAssumption DEF HandOf, TodoOf, Popped, Hands, Popping

LEMMA EntriesInHand ==
    ASSUME NEW g \in Groups, NEW t \in Seq(Items), NEW a \in Seq(Items)
    PROVE  /\ HandOf(Acking(g, t, a), g) = Range(t) \cup Range(a)
           /\ \A place \in Places \ {g} : HandOf(Acking(g, t, a), place) = {}
           /\ TodoOf(Acking(g, t, a), g) = Range(t)
           /\ \A k \in Groups \ {g} : TodoOf(Acking(g, t, a), k) = {}
           /\ Acking(g, t, a) \in Hands /\ Acking(g, t, a).op = "acking"
           /\ Acking(g, t, a).group = g
           /\ Acking(g, t, a).todo = t /\ Acking(g, t, a).acked = a
           /\ Acking(g, t, a) # Popping
<1>1. g # Queue
  BY PlacesAssumption
<1> QED
  BY <1>1, PlacesAssumption DEF HandOf, TodoOf, Acking, Hands, Popping, Places

LEMMA ItemsInHand ==
    ASSUME NEW r \in Hands, NEW place
    PROVE  place \in Groups =>
              HandOf(r, place) \subseteq Items /\ TodoOf(r, place) \subseteq HandOf(r, place)
<1> SUFFICES ASSUME place \in Groups
             PROVE  /\ HandOf(r, place) \subseteq Items
                    /\ TodoOf(r, place) \subseteq HandOf(r, place)
  OBVIOUS
<1>1. place # Queue
  BY PlacesAssumption
<1>2. r.op = "acking" => Range(r.todo) \subseteq Items /\ Range(r.acked) \subseteq Items
  BY HandFields, RangeMember
<1> QED
  BY <1>1, <1>2 DEF HandOf, TodoOf

LEMMA InMember == \A p, A, q, i : <<q, i>> \in In(p, A) <=> q = p /\ i \in A
  BY DEF In

(* Some items of the place p, which h had in hand or nobody had, are answered
   (A), dropped (D), left pending (S), or now in the hand of h (H). *)
Settles(h, p, A, D, S, H) ==
    /\ A \in SUBSET Items /\ D \in SUBSET Items
    /\ S \in SUBSET Items /\ H \in SUBSET Items
    /\ A \cap D = {} /\ A \cap S = {} /\ A \cap H = {}
    /\ D \cap S = {} /\ D \cap H = {} /\ S \cap H = {}
    /\ answered' = answered \cup In(p, A)
    /\ dropped' = dropped \cup In(p, D)
    /\ stranded' = stranded \cup In(p, S)
    /\ \A k \in Handlers \ {h} : handler'[k] = handler[k]
    /\ \A q \in Places \ {p} : HandOf(handler'[h], q) = HandOf(handler[h], q)
    /\ HandOf(handler'[h], p) = H
    /\ HandOf(handler[h], p) \subseteq A \cup D \cup S \cup H
    /\ \A i \in A \cup D \cup S \cup H : i \in HandOf(handler[h], p) \/ ~HasFate(p, i)
    /\ S # {} => p \in Groups

LEMMA Fates ==
    ASSUME OneFate, StateOK,
           NEW h \in Handlers, NEW p \in Places, NEW A, NEW D, NEW S, NEW H,
           Settles(h, p, A, D, S, H)
    PROVE  /\ OneFate'
           /\ answered' \subseteq Places \X Items
           /\ dropped' \subseteq Places \X Items
           /\ stranded' \subseteq Groups \X Items
           /\ \A q \in Places \ {p} : \A i : HasFate(q, i)' <=> HasFate(q, i)
           /\ \A i : HasFate(p, i)' <=> HasFate(p, i) \/ i \in A \cup D \cup S \cup H
<1>0. /\ A \in SUBSET Items /\ D \in SUBSET Items
      /\ S \in SUBSET Items /\ H \in SUBSET Items
      /\ A \cap D = {} /\ A \cap S = {} /\ A \cap H = {}
      /\ D \cap S = {} /\ D \cap H = {} /\ S \cap H = {}
      /\ answered' = answered \cup In(p, A)
      /\ dropped' = dropped \cup In(p, D)
      /\ stranded' = stranded \cup In(p, S)
      /\ \A k \in Handlers \ {h} : handler'[k] = handler[k]
      /\ \A q \in Places \ {p} : HandOf(handler'[h], q) = HandOf(handler[h], q)
      /\ HandOf(handler'[h], p) = H
      /\ HandOf(handler[h], p) \subseteq A \cup D \cup S \cup H
      /\ \A i \in A \cup D \cup S \cup H : i \in HandOf(handler[h], p) \/ ~HasFate(p, i)
      /\ S # {} => p \in Groups
  BY DEF Settles
<1> USE <1>0
<1>1. \A q, i :
         /\ <<q, i>> \in answered' <=> <<q, i>> \in answered \/ (q = p /\ i \in A)
         /\ <<q, i>> \in dropped' <=> <<q, i>> \in dropped \/ (q = p /\ i \in D)
         /\ <<q, i>> \in stranded' <=> <<q, i>> \in stranded \/ (q = p /\ i \in S)
  BY InMember
<1>2. /\ answered' \subseteq Places \X Items
      /\ dropped' \subseteq Places \X Items
      /\ stranded' \subseteq Groups \X Items
  BY DEF In, StateOK
<1>3. ASSUME NEW i \in A \cup D \cup S \cup H
      PROVE  /\ ~Outcome(p, i)
             /\ \A k \in Handlers \ {h} : i \notin HandOf(handler[k], p)
  BY DEF OneFate, HasFate
<1>4. \A q \in Places, i \in Items :
         /\ <<q, i>> \in answered' => <<q, i>> \notin dropped' \cup stranded'
         /\ <<q, i>> \in dropped' => <<q, i>> \notin stranded'
  <2> SUFFICES ASSUME NEW q \in Places, NEW i \in Items
               PROVE  /\ <<q, i>> \in answered' =>
                            <<q, i>> \notin dropped' /\ <<q, i>> \notin stranded'
                      /\ <<q, i>> \in dropped' => <<q, i>> \notin stranded'
    OBVIOUS
  <2>1. /\ <<q, i>> \in answered => <<q, i>> \notin dropped /\ <<q, i>> \notin stranded
        /\ <<q, i>> \in dropped => <<q, i>> \notin stranded
    BY DEF OneFate
  <2>2. q = p /\ i \in A \cup D \cup S =>
           <<q, i>> \notin answered /\ <<q, i>> \notin dropped /\ <<q, i>> \notin stranded
    BY <1>3 DEF Outcome
  <2>3. /\ <<q, i>> \in answered' <=> <<q, i>> \in answered \/ (q = p /\ i \in A)
        /\ <<q, i>> \in dropped' <=> <<q, i>> \in dropped \/ (q = p /\ i \in D)
        /\ <<q, i>> \in stranded' <=> <<q, i>> \in stranded \/ (q = p /\ i \in S)
    BY <1>1, Zenon
  <2>4. i \in A => i \notin D /\ i \notin S
    OBVIOUS
  <2>5. i \in D => i \notin S
    OBVIOUS
  <2> QED
    BY <2>1, <2>2, <2>3, <2>4, <2>5, Zenon
<1>5. ASSUME NEW q \in Places, NEW k \in Handlers, NEW i \in HandOf(handler'[k], q)
      PROVE  /\ ~(<<q, i>> \in answered' \/ <<q, i>> \in dropped' \/ <<q, i>> \in stranded')
             /\ \A l \in Handlers \ {k} : i \notin HandOf(handler'[l], q)
  <2>1. CASE q # p
    <3>1. \A l \in Handlers : HandOf(handler'[l], q) = HandOf(handler[l], q)
      BY <2>1
    <3>2. /\ ~Outcome(q, i)
          /\ \A l \in Handlers \ {k} : i \notin HandOf(handler[l], q)
      BY <3>1, <1>5 DEF OneFate
    <3>3. /\ <<q, i>> \in answered' <=> <<q, i>> \in answered
          /\ <<q, i>> \in dropped' <=> <<q, i>> \in dropped
          /\ <<q, i>> \in stranded' <=> <<q, i>> \in stranded
      BY <1>1, <2>1, Zenon
    <3> QED
      BY <3>1, <3>2, <3>3 DEF Outcome
  <2>2. CASE q = p /\ k = h
    <3>1. i \in H /\ \A l \in Handlers \ {h} : handler'[l] = handler[l]
      BY <1>5, <2>2
    <3>2. /\ <<q, i>> \in answered' <=> <<q, i>> \in answered \/ i \in A
          /\ <<q, i>> \in dropped' <=> <<q, i>> \in dropped \/ i \in D
          /\ <<q, i>> \in stranded' <=> <<q, i>> \in stranded \/ i \in S
      BY <1>1, <2>2, Zenon
    <3>3. ~Outcome(p, i) /\ \A l \in Handlers \ {h} : i \notin HandOf(handler[l], p)
      BY <1>3, <3>1
    <3> QED
      BY <2>2, <3>1, <3>2, <3>3 DEF Outcome
  <2>3. CASE q = p /\ k # h
    <3>1. handler'[k] = handler[k] /\ i \in HandOf(handler[k], p)
      BY <1>5, <2>3
    <3>2. /\ ~Outcome(p, i)
          /\ \A l \in Handlers \ {k} : i \notin HandOf(handler[l], p)
      BY <3>1 DEF OneFate
    <3>3. i \notin A \cup D \cup S \cup H
      BY <1>3, <2>3, <3>1
    <3>4. /\ <<q, i>> \in answered' <=> <<q, i>> \in answered
          /\ <<q, i>> \in dropped' <=> <<q, i>> \in dropped
          /\ <<q, i>> \in stranded' <=> <<q, i>> \in stranded
      BY <1>1, <3>3
    <3>5. i \notin HandOf(handler'[h], q)
      BY <2>3, <3>3
    <3> QED
      BY <2>3, <3>2, <3>4, <3>5 DEF Outcome
  <2> QED
    BY <2>1, <2>2, <2>3
<1>6. OneFate'
  BY <1>4, <1>5 DEF OneFate, Outcome
<1>7. ASSUME NEW q \in Places \ {p}, NEW i PROVE HasFate(q, i)' <=> HasFate(q, i)
  <2>1. \A k \in Handlers : HandOf(handler'[k], q) = HandOf(handler[k], q)
    OBVIOUS
  <2>2. /\ <<q, i>> \in answered' <=> <<q, i>> \in answered
        /\ <<q, i>> \in dropped' <=> <<q, i>> \in dropped
        /\ <<q, i>> \in stranded' <=> <<q, i>> \in stranded
    BY <1>1
  <2> QED
    BY <2>1, <2>2 DEF HasFate, Outcome
<1>8. ASSUME NEW i
      PROVE  HasFate(p, i)' <=> HasFate(p, i) \/ i \in A \cup D \cup S \cup H
  <2>1. (\E k \in Handlers : i \in HandOf(handler'[k], p)) <=>
           i \in H \/ \E k \in Handlers \ {h} : i \in HandOf(handler[k], p)
    OBVIOUS
  <2>2. (\E k \in Handlers : i \in HandOf(handler[k], p)) <=>
           \/ i \in HandOf(handler[h], p)
           \/ \E k \in Handlers \ {h} : i \in HandOf(handler[k], p)
    OBVIOUS
  <2>3. /\ <<p, i>> \in answered' <=> <<p, i>> \in answered \/ i \in A
        /\ <<p, i>> \in dropped' <=> <<p, i>> \in dropped \/ i \in D
        /\ <<p, i>> \in stranded' <=> <<p, i>> \in stranded \/ i \in S
    BY <1>1, Zenon
  <2> QED
    BY <2>1, <2>2, <2>3 DEF HasFate, Outcome
<1> QED
  BY <1>2, <1>6, <1>7, <1>8

LEMMA InNothing == \A p : In(p, {}) = {}
  BY DEF In

LEMMA FatesStay ==
    ASSUME OneFate, UNCHANGED <<handler, answered, dropped, stranded>>
    PROVE  /\ OneFate'
           /\ \A q, i : HasFate(q, i)' <=> HasFate(q, i)
  BY DEF OneFate, HasFate, Outcome

LEMMA PendingStays ==
    ASSUME PendingKnown,
           \A g \in Groups : group'[g].pending = group[g].pending,
           UNCHANGED <<stream, stranded>>,
           \A k \in Handlers, g \in Groups :
              TodoOf(handler'[k], g) = TodoOf(handler[k], g)
    PROVE  PendingKnown'
  BY DEF PendingKnown

LEMMA GroupFields ==
    ASSUME StateOK, NEW g \in Groups
    PROVE  /\ group[g].made \in BOOLEAN /\ group[g].last \in 0 .. issued
           /\ group[g].pending \in SUBSET Items
           /\ issued \in Nat /\ group[g].last \in Nat
  BY WorkAssumption DEF StateOK

LEMMA InitInv == WorkInit => IInv
<1> SUFFICES ASSUME WorkInit PROVE IInv
  OBVIOUS
<1>1. /\ issued = 0 /\ stream = <<>> /\ list = <<>> /\ raw = {} /\ blocked = <<>>
      /\ answered = {} /\ dropped = {} /\ stranded = {}
      /\ group = [g \in Groups |-> Absent] /\ handler = [h \in Handlers |-> Idle]
      /\ \A h \in Handlers : handler[h] = Idle
      /\ \A g \in Groups : group[g].last = 0 /\ group[g].pending = {}
  BY DEF WorkInit, Absent
<1>2. Range(stream) = {} /\ Range(list) = {} /\ Range(blocked) = {} /\ IsInjective(blocked)
  BY <1>1, RangeEmpty
<1>3. Len(stream) = 0 /\ Len(list) = 0
  BY <1>1
<1>4. /\ \A q, i : ~Outcome(q, i) /\ ~HasFate(q, i)
      /\ \A h \in Handlers : \A g : TodoOf(handler[h], g) = {}
      /\ \A h \in Handlers : \A q : HandOf(handler[h], q) = {}
  BY <1>1, NothingInHand DEF HasFate, Outcome
<1>5. StateOK
  <2>1. \A S : <<>> \in Seq(S)
    OBVIOUS
  <2>2. 0 \in 0 .. MaxItems /\ 0 \in 0 .. issued
    BY <1>1, WorkAssumption
  <2>3. Absent \in [made : BOOLEAN, last : 0 .. issued, pending : SUBSET Items]
    BY <2>2 DEF Absent
  <2>4. handler \in [Handlers -> Hands]
    BY <1>1, NothingInHand
  <2> QED
    BY <1>1, <2>1, <2>2, <2>3, <2>4 DEF StateOK
<1>6. InOrder
  BY <1>1, <1>3 DEF InOrder, Increasing, Decreasing
<1>7. WaitersOK
  BY <1>1, <1>2, NothingInHand DEF WaitersOK
<1>8. InHandOK
  BY <1>1, NothingInHand DEF InHandOK
<1>9. OneFate
  BY <1>1, <1>4 DEF OneFate
<1>10. FatesIssued /\ DeliveredInOrder /\ PoppedInOrder
  BY <1>2, <1>4 DEF FatesIssued, DeliveredInOrder, PoppedInOrder
<1>11. PendingKnown
  BY <1>1, <1>2 DEF PendingKnown
<1> QED
  BY <1>5, <1>6, <1>7, <1>8, <1>9, <1>10, <1>11 DEF IInv

LEMMA StreamAddInv ==
    ASSUME IInv, stream_add
    PROVE  IInv'
<1>1. /\ issued < MaxItems /\ issued' = issued + 1 /\ stream' = Append(stream, issued + 1)
      /\ UNCHANGED <<group, list, raw, blocked, handler, answered, dropped, stranded>>
  BY DEF stream_add, outcome
<1>2. /\ issued \in Nat /\ issued' \in Nat /\ MaxItems \in Nat
      /\ stream \in Seq(1 .. issued) /\ stream \in Seq(1 .. issued')
      /\ list \in Seq(1 .. issued')
      /\ issued + 1 \in 1 .. issued' /\ issued' \in 0 .. MaxItems
      /\ \A i \in Range(stream) : i \in 1 .. issued
  <2>1. /\ issued \in Nat /\ issued' \in Nat /\ MaxItems \in Nat
        /\ issued + 1 \in 1 .. issued' /\ issued' \in 0 .. MaxItems
        /\ 1 .. issued \subseteq 1 .. issued'
    BY <1>1, WorkAssumption DEF IInv, StateOK
  <2>2. stream \in Seq(1 .. issued) /\ list \in Seq(1 .. issued)
    BY DEF IInv, StateOK
  <2> QED
    BY <2>1, <2>2, SeqWiden, RangeIn
<1>3. /\ stream' \in Seq(1 .. issued') /\ Len(stream') = Len(stream) + 1
      /\ \A i \in 1 .. Len(stream) : stream'[i] = stream[i]
      /\ stream'[Len(stream) + 1] = issued + 1
      /\ Range(stream') = Range(stream) \cup {issued + 1}
  <2>1. PICK e \in 1 .. issued' : e = issued + 1
    BY <1>2
  <2>2. stream' = Append(stream, e) /\ stream \in Seq(1 .. issued')
    BY <1>1, <1>2, <2>1
  <2>3. /\ Append(stream, e) \in Seq(1 .. issued')
        /\ Len(Append(stream, e)) = Len(stream) + 1
        /\ \A i \in 1 .. Len(stream) : Append(stream, e)[i] = stream[i]
        /\ Append(stream, e)[Len(stream) + 1] = e
    BY <2>2, AppendProperties
  <2>4. /\ Append(stream, e) \in Seq(1 .. issued')
        /\ Range(Append(stream, e)) = Range(stream) \cup {e}
    <3> DEFINE S == 1 .. issued'
    <3>1. stream \in Seq(S) /\ e \in S
      BY <2>1, <2>2
    <3> HIDE DEF S
    <3>2. Append(stream, e) \in Seq(S) /\ Range(Append(stream, e)) = Range(stream) \cup {e}
      BY <3>1, RangeAppend
    <3> QED
      BY <3>2 DEF S
  <2> QED
    BY <2>1, <2>2, <2>3, <2>4
<1>4. StateOK'
  <2>1. group' \in [Groups -> [made : BOOLEAN, last : 0 .. issued', pending : SUBSET Items]]
    BY <1>1, <1>2 DEF IInv, StateOK
  <2>2. raw' \subseteq 1 .. issued'
    BY <1>1, <1>2 DEF IInv, StateOK
  <2> QED
    BY <1>1, <1>2, <1>3, <2>1, <2>2 DEF IInv, StateOK
<1>5. InOrder'
  <2>1. Increasing(stream')
    <3> SUFFICES ASSUME NEW i \in 1 .. Len(stream'), NEW j \in 1 .. Len(stream'), i < j
                 PROVE  stream'[i] < stream'[j]
      BY DEF Increasing
    <3>1. Len(stream) \in Nat /\ i \in 1 .. Len(stream)
      <4>1. Len(stream) \in Nat
        BY <1>2
      <4>2. i \in 1 .. Len(stream) + 1 /\ j \in 1 .. Len(stream) + 1
        BY <1>3
      <4> QED
        BY <4>1, <4>2
    <3>4. stream[i] \in 1 .. issued
      BY <1>2, <3>1
    <3>2. CASE j \in 1 .. Len(stream)
      BY <1>3, <3>1, <3>2 DEF IInv, InOrder, Increasing
    <3>3. CASE j = Len(stream) + 1
      BY <1>2, <1>3, <3>1, <3>3, <3>4
    <3> QED
      BY <1>3, <3>1, <3>2, <3>3
  <2> QED
    BY <1>1, <1>3, <2>1 DEF IInv, InOrder, Decreasing
<1>6. OneFate' /\ \A q, i : HasFate(q, i)' <=> HasFate(q, i)
  BY <1>1, FatesStay DEF IInv
<1>7. \A q \in Places : ~HasFate(q, issued + 1)
  BY <1>2 DEF IInv, FatesIssued
<1>8. FatesIssued' /\ PoppedInOrder'
  BY <1>1, <1>2, <1>6 DEF IInv, FatesIssued, PoppedInOrder
<1>9. DeliveredInOrder'
  <2> SUFFICES ASSUME NEW g \in Groups, NEW i \in Range(stream')
               PROVE  i <= group[g].last <=> HasFate(g, i)
    BY <1>1, <1>6 DEF DeliveredInOrder
  <2>1. CASE i \in Range(stream)
    BY <2>1 DEF IInv, DeliveredInOrder
  <2>2. CASE i = issued + 1
    BY <1>2, <1>7, <2>2, GroupFields DEF IInv, Places
  <2> QED
    BY <1>3, <2>1, <2>2
<1>10. PendingKnown'
  <2> SUFFICES ASSUME NEW g \in Groups, NEW i \in Items
               PROVE  i \in group[g].pending <=>
                         /\ i \in Range(stream')
                         /\ \/ <<g, i>> \in stranded
                            \/ \E h \in Handlers : i \in TodoOf(handler[h], g)
    BY <1>1 DEF PendingKnown
  <2>1. i \in group[g].pending <=>
           /\ i \in Range(stream)
           /\ \/ <<g, i>> \in stranded
              \/ \E h \in Handlers : i \in TodoOf(handler[h], g)
    BY DEF IInv, PendingKnown
  <2>2. \/ <<g, i>> \in stranded
        \/ \E h \in Handlers : i \in TodoOf(handler[h], g)
        => HasFate(g, i)
    BY ItemsInHand DEF HasFate, Outcome, IInv, StateOK
  <2>3. i = issued + 1 => ~HasFate(g, i)
    BY <1>7 DEF Places
  <2> QED
    BY <1>3, <2>1, <2>2, <2>3
<1>11. WaitersOK' /\ InHandOK'
  BY <1>1 DEF IInv, WaitersOK, InHandOK
<1> QED
  BY <1>4, <1>5, <1>6, <1>8, <1>9, <1>10, <1>11 DEF IInv

LEMMA CreateGroupInv ==
    ASSUME IInv, NEW g \in Groups, stream_create_group(g)
    PROVE  IInv'
<1>1. /\ group' = [group EXCEPT ![g].made = TRUE]
      /\ UNCHANGED <<issued, stream, list, raw, blocked, handler, answered, dropped,
                     stranded>>
  BY DEF stream_create_group, outcome
<1>2. \A k \in Groups : /\ group'[k].last = group[k].last
                        /\ group'[k].pending = group[k].pending
  BY <1>1 DEF IInv, StateOK
<1>3. group' \in [Groups -> [made : BOOLEAN, last : 0 .. issued, pending : SUBSET Items]]
  BY <1>1 DEF IInv, StateOK
<1>4. StateOK' /\ InOrder' /\ WaitersOK' /\ InHandOK'
  BY <1>1, <1>2, <1>3 DEF IInv, StateOK, InOrder, Increasing, Decreasing, WaitersOK, InHandOK
<1>5. OneFate' /\ \A q, i : HasFate(q, i)' <=> HasFate(q, i)
  BY <1>1, FatesStay DEF IInv
<1>6. FatesIssued' /\ PoppedInOrder' /\ DeliveredInOrder'
  BY <1>1, <1>2, <1>5 DEF IInv, FatesIssued, PoppedInOrder, DeliveredInOrder
<1>7. PendingKnown'
  BY <1>1, <1>2, PendingStays DEF IInv
<1> QED
  BY <1>4, <1>5, <1>6, <1>7 DEF IInv

LEMMA DeleteStreamInv ==
    ASSUME IInv, DeleteStream
    PROVE  IInv'
<1>1. /\ stream' = <<>> /\ group' = [k \in Groups |-> Absent]
      /\ UNCHANGED <<issued, list, raw, blocked, handler, answered, dropped, stranded>>
  BY DEF DeleteStream, outcome
<1>2. \A k \in Groups : group'[k].last = 0 /\ group'[k].pending = {}
  BY <1>1 DEF Absent
<1>3. Range(stream') = {} /\ Len(stream') = 0 /\ stream' \in Seq(1 .. issued)
  BY <1>1, RangeEmpty
<1>4. group' \in [Groups -> [made : BOOLEAN, last : 0 .. issued, pending : SUBSET Items]]
  <2>1. 0 \in 0 .. issued
    BY WorkAssumption DEF IInv, StateOK
  <2> QED
    BY <1>1, <2>1 DEF Absent
<1>5. StateOK' /\ InOrder' /\ WaitersOK' /\ InHandOK'
  <2>1. StateOK'
    BY <1>1, <1>3, <1>4 DEF IInv, StateOK
  <2>2. InOrder'
    BY <1>1, <1>2, <1>3 DEF IInv, InOrder, Increasing, Decreasing
  <2> QED
    BY <1>1, <2>1, <2>2 DEF IInv, WaitersOK, InHandOK
<1>6. OneFate' /\ \A q, i : HasFate(q, i)' <=> HasFate(q, i)
  BY <1>1, FatesStay DEF IInv
<1>7. FatesIssued' /\ PoppedInOrder' /\ DeliveredInOrder'
  BY <1>1, <1>3, <1>6 DEF IInv, FatesIssued, PoppedInOrder, DeliveredInOrder
<1>8. PendingKnown'
  BY <1>2, <1>3 DEF PendingKnown
<1> QED
  BY <1>5, <1>6, <1>7, <1>8 DEF IInv

LEMMA DeleteListInv ==
    ASSUME IInv, DeleteList
    PROVE  IInv'
<1>1. /\ list' = <<>>
      /\ UNCHANGED <<issued, stream, group, raw, blocked, handler, answered, dropped,
                     stranded>>
  BY DEF DeleteList, outcome
<1>2. Range(list') = {} /\ Len(list') = 0 /\ list' \in Seq(1 .. issued)
  BY <1>1, RangeEmpty
<1>3. StateOK' /\ InOrder' /\ WaitersOK' /\ InHandOK'
  <2>1. StateOK'
    BY <1>1, <1>2 DEF IInv, StateOK
  <2>2. InOrder'
    BY <1>1, <1>2 DEF IInv, InOrder, Increasing, Decreasing
  <2> QED
    BY <1>1, <2>1, <2>2 DEF IInv, WaitersOK, InHandOK
<1>4. OneFate' /\ \A q, i : HasFate(q, i)' <=> HasFate(q, i)
  BY <1>1, FatesStay DEF IInv
<1>5. FatesIssued' /\ PoppedInOrder' /\ DeliveredInOrder'
  BY <1>1, <1>2, <1>4 DEF IInv, FatesIssued, PoppedInOrder, DeliveredInOrder
<1>6. PendingKnown'
  BY <1>1, PendingStays DEF IInv
<1> QED
  BY <1>3, <1>4, <1>5, <1>6 DEF IInv

(* Reading a group. *)

LEMMA DeliverGroup ==
    ASSUME IInv, NEW g \in Groups, Batch(g) # <<>>, Deliver(g)
    PROVE  /\ group' \in [Groups -> [made : BOOLEAN, last : 0 .. issued,
                                      pending : SUBSET Items]]
           /\ group'[g].last = Last(Batch(g))
           /\ group'[g].pending = group[g].pending \cup Range(Batch(g))
           /\ \A k \in Groups \ {g} : group'[k] = group[k]
           /\ Batch(g) \in Seq(Items) /\ Range(Batch(g)) \in SUBSET Items
           /\ \A i \in Range(Batch(g)) : i \in Range(stream) /\ i \in 1 .. issued
                                         /\ ~HasFate(g, i)
<1>1. group' = [group EXCEPT ![g].last = Last(Batch(g)),
                             ![g].pending = @ \cup Range(Batch(g))]
  BY DEF Deliver
<1>2. /\ Batch(g) \in Seq(1 .. issued) /\ Last(Batch(g)) \in 1 .. issued
      /\ \A i : i \in Range(Batch(g)) <=>
                   /\ i \in Range(stream)
                   /\ group[g].last < i /\ i <= Last(Batch(g))
  BY BatchTaken DEF IInv
<1>3. issued \in Nat /\ MaxItems \in Nat /\ issued <= MaxItems /\ 1 .. issued \subseteq Items
  BY WorkAssumption DEF IInv, StateOK, Items
<1>4. Batch(g) \in Seq(Items) /\ Range(Batch(g)) \in SUBSET Items
      /\ \A i \in Range(Batch(g)) : i \in 1 .. issued
  <2>1. \A i \in Range(Batch(g)) : i \in 1 .. issued
    BY <1>2, RangeIn
  <2>2. Batch(g) \in Seq(Items)
    BY <1>2, <1>3, SeqWiden
  <2> QED
    BY <1>3, <2>1, <2>2
<1>5. /\ group'[g].last = Last(Batch(g))
      /\ group'[g].pending = group[g].pending \cup Range(Batch(g))
      /\ group'[g].made = group[g].made
      /\ \A k \in Groups \ {g} : group'[k] = group[k]
  BY <1>1 DEF IInv, StateOK
<1>6. group' \in [Groups -> [made : BOOLEAN, last : 0 .. issued, pending : SUBSET Items]]
  <2>1. group[g].pending \cup Range(Batch(g)) \in SUBSET Items
    BY <1>4, GroupFields DEF IInv
  <2>2. Last(Batch(g)) \in 0 .. issued
    BY <1>2, <1>3
  <2> QED
    BY <1>1, <2>1, <2>2 DEF IInv, StateOK
<1>7. ASSUME NEW i \in Range(Batch(g)) PROVE ~HasFate(g, i) /\ i \in Range(stream)
  <2>1. i \in Range(stream) /\ ~(i <= group[g].last) /\ i \in 1 .. issued
    BY <1>2, <1>4, GroupFields DEF IInv
  <2> QED
    BY <2>1 DEF IInv, DeliveredInOrder
<1> QED
  BY <1>4, <1>5, <1>6, <1>7

(* The parts of the invariant that speak of the stream, after a delivery. *)
LEMMA DeliverInOrder ==
    ASSUME IInv, NEW g \in Groups, Batch(g) # <<>>, Deliver(g),
           UNCHANGED <<issued, stream, list>>,
           \A q \in Places \ {g} : \A i : HasFate(q, i)' <=> HasFate(q, i),
           \A i : HasFate(g, i)' <=> HasFate(g, i) \/ i \in Range(Batch(g))
    PROVE  InOrder' /\ FatesIssued' /\ DeliveredInOrder' /\ PoppedInOrder'
<1>1. /\ group'[g].last = Last(Batch(g))
      /\ \A k \in Groups \ {g} : group'[k] = group[k]
      /\ \A i \in Range(Batch(g)) : i \in Range(stream) /\ i \in 1 .. issued
  BY DeliverGroup
<1>2. /\ Last(Batch(g)) \in Range(stream) /\ Last(Batch(g)) \in 1 .. issued
      /\ \A i : i \in Range(Batch(g)) <=>
                   /\ i \in Range(stream)
                   /\ group[g].last < i /\ i <= Last(Batch(g))
  BY BatchTaken DEF IInv
<1>3. g \in Places /\ g # Queue /\ Queue \in Places
  BY PlacesAssumption DEF Places
<1>4. InOrder'
  BY <1>1, <1>2 DEF IInv, InOrder, Increasing, Decreasing
<1>5. FatesIssued'
  <2> SUFFICES ASSUME NEW q \in Places, NEW i, HasFate(q, i)'
               PROVE  i \in 1 .. issued
    BY DEF FatesIssued
  <2>1. HasFate(q, i) \/ (q = g /\ i \in Range(Batch(g)))
    <3>1. CASE q = g
      BY <3>1
    <3>2. CASE q # g
      BY <3>2
    <3> QED
      BY <3>1, <3>2
  <2> QED
    BY <1>1, <2>1 DEF IInv, FatesIssued
<1>6. PoppedInOrder'
  <2>1. \A j : HasFate(Queue, j)' <=> HasFate(Queue, j)
    BY <1>3
  <2> QED
    BY <2>1 DEF IInv, PoppedInOrder
<1>7. DeliveredInOrder'
  <2> SUFFICES ASSUME NEW k \in Groups, NEW i \in Range(stream)
               PROVE  i <= group'[k].last <=> HasFate(k, i)'
    BY DEF DeliveredInOrder
  <2>1. i <= group[k].last <=> HasFate(k, i)
    BY DEF IInv, DeliveredInOrder
  <2>2. CASE k # g
    <3>1. HasFate(k, i)' <=> HasFate(k, i)
      BY <2>2 DEF Places
    <3> QED
      BY <1>1, <2>1, <2>2, <3>1
  <2>3. CASE k = g
    <3>1. i \in 1 .. issued /\ group[g].last \in Nat /\ Last(Batch(g)) \in Nat
      <4>1. stream \in Seq(1 .. issued)
        BY DEF IInv, StateOK
      <4>2. i \in 1 .. issued
        BY <4>1, RangeIn
      <4> QED
        BY <1>2, <4>2, GroupFields DEF IInv
    <3>2. HasFate(g, i)' <=> i <= group[g].last \/ i \in Range(Batch(g))
      BY <2>1, <2>3
    <3>3. i \in Range(Batch(g)) <=> group[g].last < i /\ i <= Last(Batch(g))
      BY <1>2
    <3>4. group[g].last <= Last(Batch(g))
      <4>1. PICK l : l \in Range(Batch(g))
        <5>1. Batch(g) \in Seq(1 .. issued) /\ Len(Batch(g)) \in 1 .. Count
          BY BatchTaken DEF IInv
        <5> QED
          BY <5>1, RangeMember, WorkAssumption
      <4>2. group[g].last < l /\ l <= Last(Batch(g)) /\ l \in 1 .. issued
        BY <1>1, <1>2, <4>1
      <4> QED
        BY <3>1, <4>2
    <3> QED
      BY <1>1, <2>3, <3>1, <3>2, <3>3, <3>4
  <2> QED
    BY <2>2, <2>3
<1> QED
  BY <1>4, <1>5, <1>6, <1>7

LEMMA ReadGroupInv ==
    ASSUME IInv, NEW h \in Handlers, NEW g \in Groups, stream_read_group(h, g)
    PROVE  IInv'
<1> DEFINE r == Acking(g, Batch(g), <<>>)
           new == Range(Batch(g))
<1>1. /\ handler[h] = Idle /\ Batch(g) # <<>> /\ Deliver(g)
      /\ handler' = [handler EXCEPT ![h] = r]
      /\ UNCHANGED <<issued, stream, list, raw, blocked, answered, dropped, stranded>>
  BY DEF stream_read_group, outcome
<1>2. /\ group' \in [Groups -> [made : BOOLEAN, last : 0 .. issued,
                                 pending : SUBSET Items]]
      /\ group'[g].pending = group[g].pending \cup new
      /\ \A k \in Groups \ {g} : group'[k] = group[k]
      /\ Batch(g) \in Seq(Items) /\ new \in SUBSET Items
      /\ \A i \in new : i \in Range(stream) /\ ~HasFate(g, i)
  BY <1>1, DeliverGroup
<1>3. /\ IsInjective(Batch(g)) /\ Len(Batch(g)) \in 1 .. Count
  BY <1>1, BatchTaken DEF IInv
<1>4. /\ HandOf(r, g) = new /\ \A q \in Places \ {g} : HandOf(r, q) = {}
      /\ TodoOf(r, g) = new /\ \A k \in Groups \ {g} : TodoOf(r, k) = {}
      /\ r \in Hands /\ r.op = "acking" /\ r.group = g
      /\ r.todo = Batch(g) /\ r.acked = <<>> /\ r # Popping
  <2>1. <<>> \in Seq(Items) /\ Range(<<>>) = {}
    BY RangeEmpty
  <2>2. PICK a \in Seq(Items) : a = <<>> /\ Range(a) = {}
    BY <2>1
  <2>3. PICK b \in Seq(Items) : b = Batch(g)
    BY <1>2
  <2>4. r = Acking(g, b, a) /\ new = Range(b) \cup Range(a) /\ new = Range(b)
    BY <2>2, <2>3
  <2>5. /\ HandOf(Acking(g, b, a), g) = Range(b) \cup Range(a)
        /\ \A q \in Places \ {g} : HandOf(Acking(g, b, a), q) = {}
        /\ TodoOf(Acking(g, b, a), g) = Range(b)
        /\ \A k \in Groups \ {g} : TodoOf(Acking(g, b, a), k) = {}
        /\ Acking(g, b, a) \in Hands /\ Acking(g, b, a).op = "acking"
        /\ Acking(g, b, a).group = g
        /\ Acking(g, b, a).todo = b /\ Acking(g, b, a).acked = a
        /\ Acking(g, b, a) # Popping
    BY EntriesInHand
  <2> HIDE DEF r, new
  <2> QED
    BY <2>2, <2>3, <2>4, <2>5
<1> HIDE DEF r, new
<1>5. /\ handler'[h] = r /\ \A k \in Handlers \ {h} : handler'[k] = handler[k]
      /\ handler' \in [Handlers -> Hands]
  BY <1>1, <1>4 DEF IInv, StateOK
<1>6. g \in Places
  BY DEF Places
<1>7. /\ \A q : HandOf(handler[h], q) = {} /\ TodoOf(handler[h], q) = {}
      /\ handler[h] # Popping
  BY <1>1, NothingInHand
<1>8. /\ OneFate'
      /\ \A q \in Places \ {g} : \A i : HasFate(q, i)' <=> HasFate(q, i)
      /\ \A i : HasFate(g, i)' <=> HasFate(g, i) \/ i \in new
  <2> DEFINE A == {}
  <2>1. /\ answered' = answered \cup In(g, A) /\ dropped' = dropped \cup In(g, A)
        /\ stranded' = stranded \cup In(g, A)
    BY <1>1, InNothing
  <2>2. /\ A \in SUBSET Items /\ A \cap A = {} /\ A \cap new = {} /\ A = {}
        /\ \A i : i \in A \cup A \cup A \cup new <=> i \in new
    OBVIOUS
  <2> HIDE DEF A
  <2>3. Settles(h, g, A, A, A, new)
    BY <1>2, <1>4, <1>5, <1>6, <1>7, <2>1, <2>2 DEF Settles
  <2>4. OneFate /\ StateOK /\ g \in Places /\ new \in SUBSET Items
    BY <1>2, <1>6 DEF IInv
  <2>5. /\ OneFate'
        /\ \A q \in Places \ {g} : \A i : HasFate(q, i)' <=> HasFate(q, i)
        /\ \A i : HasFate(g, i)' <=> HasFate(g, i) \/ i \in A \cup A \cup A \cup new
    BY <2>2, <2>3, <2>4, Fates
  <2> QED
    BY <2>2, <2>5
<1>9. InOrder' /\ FatesIssued' /\ DeliveredInOrder' /\ PoppedInOrder'
  BY <1>1, <1>8, DeliverInOrder DEF new
<1>10. StateOK'
  BY <1>1, <1>2, <1>5 DEF IInv, StateOK
<1>11. WaitersOK'
  BY <1>1, <1>4, <1>5, <1>7 DEF IInv, WaitersOK
<1>12. InHandOK'
  <2>1. Range(<<>>) = {} /\ Len(<<>>) = 0
    BY RangeEmpty
  <2>2. IsInjective(r.todo) /\ Range(r.todo) \cap Range(r.acked) = {}
        /\ Len(r.todo) + Len(r.acked) \in 1 .. Count
    BY <1>3, <1>4, <2>1, WorkAssumption
  <2> QED
    BY <1>5, <2>2 DEF IInv, InHandOK
<1>13. PendingKnown'
  <2> SUFFICES ASSUME NEW k \in Groups, NEW i \in Items
               PROVE  i \in group'[k].pending <=>
                         /\ i \in Range(stream)
                         /\ \/ <<k, i>> \in stranded
                            \/ \E l \in Handlers : i \in TodoOf(handler'[l], k)
    BY <1>1 DEF PendingKnown
  <2>1. i \in group[k].pending <=>
           /\ i \in Range(stream)
           /\ \/ <<k, i>> \in stranded
              \/ \E l \in Handlers : i \in TodoOf(handler[l], k)
    BY DEF IInv, PendingKnown
  <2>2. (\E l \in Handlers : i \in TodoOf(handler'[l], k)) <=>
           \/ k = g /\ i \in new
           \/ \E l \in Handlers : i \in TodoOf(handler[l], k)
    BY <1>4, <1>5, <1>7
  <2>3. i \in group'[k].pending <=> i \in group[k].pending \/ (k = g /\ i \in new)
    BY <1>2
  <2> QED
    BY <1>2, <2>1, <2>2, <2>3
<1> QED
  BY <1>8, <1>9, <1>10, <1>11, <1>12, <1>13 DEF IInv

LEMMA ReadReplyLostInv ==
    ASSUME IInv, NEW h \in Handlers, NEW g \in Groups, ReadReplyLost(h, g)
    PROVE  IInv'
<1> DEFINE new == Range(Batch(g))
<1>1. /\ handler[h] = Idle /\ Batch(g) # <<>> /\ Deliver(g)
      /\ stranded' = stranded \cup In(g, new)
      /\ UNCHANGED <<issued, stream, list, raw, blocked, handler, answered, dropped>>
  BY DEF ReadReplyLost
<1>2. /\ group' \in [Groups -> [made : BOOLEAN, last : 0 .. issued,
                                 pending : SUBSET Items]]
      /\ group'[g].pending = group[g].pending \cup new
      /\ \A k \in Groups \ {g} : group'[k] = group[k]
      /\ new \in SUBSET Items
      /\ \A i \in new : i \in Range(stream) /\ ~HasFate(g, i)
  BY <1>1, DeliverGroup
<1> HIDE DEF new
<1>3. g \in Places
  BY DEF Places
<1>4. \A q : HandOf(handler[h], q) = {}
  BY <1>1, NothingInHand
<1>5. /\ OneFate' /\ stranded' \subseteq Groups \X Items
      /\ \A q \in Places \ {g} : \A i : HasFate(q, i)' <=> HasFate(q, i)
      /\ \A i : HasFate(g, i)' <=> HasFate(g, i) \/ i \in new
  <2> DEFINE A == {}
  <2>1. /\ answered' = answered \cup In(g, A) /\ dropped' = dropped \cup In(g, A)
        /\ stranded' = stranded \cup In(g, new)
    BY <1>1, InNothing
  <2>2. /\ A \in SUBSET Items /\ A \cap A = {} /\ A \cap new = {} /\ new \cap A = {}
        /\ A = {} /\ \A i : i \in A \cup A \cup new \cup A <=> i \in new
    OBVIOUS
  <2> HIDE DEF A
  <2>3. Settles(h, g, A, A, new, A)
    BY <1>1, <1>2, <1>3, <1>4, <2>1, <2>2 DEF Settles
  <2>4. OneFate /\ StateOK /\ g \in Places /\ new \in SUBSET Items
    BY <1>2, <1>3 DEF IInv
  <2>5. /\ OneFate' /\ stranded' \subseteq Groups \X Items
        /\ \A q \in Places \ {g} : \A i : HasFate(q, i)' <=> HasFate(q, i)
        /\ \A i : HasFate(g, i)' <=> HasFate(g, i) \/ i \in A \cup A \cup new \cup A
    BY <2>2, <2>3, <2>4, Fates
  <2> QED
    BY <2>2, <2>5
<1>6. InOrder' /\ FatesIssued' /\ DeliveredInOrder' /\ PoppedInOrder'
  BY <1>1, <1>5, DeliverInOrder DEF new
<1>7. StateOK'
  BY <1>1, <1>2, <1>5 DEF IInv, StateOK
<1>8. WaitersOK' /\ InHandOK'
  BY <1>1 DEF IInv, WaitersOK, InHandOK
<1>9. PendingKnown'
  <2> SUFFICES ASSUME NEW k \in Groups, NEW i \in Items
               PROVE  i \in group'[k].pending <=>
                         /\ i \in Range(stream)
                         /\ \/ <<k, i>> \in stranded'
                            \/ \E l \in Handlers : i \in TodoOf(handler[l], k)
    BY <1>1 DEF PendingKnown
  <2>1. i \in group[k].pending <=>
           /\ i \in Range(stream)
           /\ \/ <<k, i>> \in stranded
              \/ \E l \in Handlers : i \in TodoOf(handler[l], k)
    BY DEF IInv, PendingKnown
  <2>2. <<k, i>> \in stranded' <=> <<k, i>> \in stranded \/ (k = g /\ i \in new)
    BY <1>1, InMember
  <2>3. i \in group'[k].pending <=> i \in group[k].pending \/ (k = g /\ i \in new)
    BY <1>2
  <2> QED
    BY <1>2, <2>1, <2>2, <2>3
<1> QED
  BY <1>5, <1>6, <1>7, <1>8, <1>9 DEF IInv

(* Acknowledging what was read. *)

(* Nothing is handed out and the stream and the list stay as they are. *)
LEMMA OrderStays ==
    ASSUME IInv, UNCHANGED <<issued, stream, list>>,
           \A g \in Groups : group'[g].last = group[g].last,
           \A q \in Places : \A i : HasFate(q, i)' <=> HasFate(q, i)
    PROVE  InOrder' /\ FatesIssued' /\ DeliveredInOrder' /\ PoppedInOrder'
<1>1. \A g \in Groups : g \in Places
  BY DEF Places
<1>2. Queue \in Places
  BY DEF Places
<1> QED
  BY <1>1, <1>2 DEF IInv, InOrder, Increasing, Decreasing, FatesIssued, DeliveredInOrder,
                    PoppedInOrder

LEMMA AtAck ==
    ASSUME IInv, NEW h \in Handlers, handler[h].op = "acking"
    PROVE  \E g \in Groups, t \in Seq(Items), a \in Seq(Items) :
              /\ handler[h].group = g /\ handler[h].todo = t /\ handler[h].acked = a
              /\ handler[h] # Popping
              /\ Range(t) \in SUBSET Items /\ Range(a) \in SUBSET Items
              /\ Range(t) \cap Range(a) = {} /\ Len(t) + Len(a) \in 1 .. Count
              /\ HandOf(handler[h], g) = Range(t) \cup Range(a)
              /\ \A q \in Places \ {g} : HandOf(handler[h], q) = {}
              /\ TodoOf(handler[h], g) = Range(t)
              /\ \A k \in Groups \ {g} : TodoOf(handler[h], k) = {}
              /\ t = <<>> => Range(t) = {}
              /\ t # <<>> =>
                    /\ Head(t) \in Items /\ Tail(t) \in Seq(Items)
                    /\ Len(Tail(t)) = Len(t) - 1
                    /\ Range(t) = {Head(t)} \cup Range(Tail(t))
                    /\ IsInjective(Tail(t)) /\ Head(t) \notin Range(Tail(t))
<1>1. handler[h] \in Hands
  BY DEF IInv, StateOK
<1>2. PICK g \in Groups, t \in Seq(Items), a \in Seq(Items) :
        handler[h] = Acking(g, t, a) /\ handler[h].group = g
        /\ handler[h].todo = t /\ handler[h].acked = a
  BY <1>1, HandFields
<1>3. IsInjective(t) /\ Range(t) \cap Range(a) = {} /\ Len(t) + Len(a) \in 1 .. Count
  BY <1>2 DEF IInv, InHandOK
<1>4. Range(t) \in SUBSET Items /\ Range(a) \in SUBSET Items
  BY RangeMember
<1>5. t # <<>> =>
         /\ Head(t) \in Items /\ Tail(t) \in Seq(Items)
         /\ Len(Tail(t)) = Len(t) - 1
         /\ Range(t) = {Head(t)} \cup Range(Tail(t))
         /\ IsInjective(Tail(t)) /\ Head(t) \notin Range(Tail(t))
  BY <1>3, HeadAndTail
<1>6. t = <<>> => Range(t) = {}
  BY RangeEmpty
<1>7. /\ HandOf(handler[h], g) = Range(t) \cup Range(a)
      /\ \A q \in Places \ {g} : HandOf(handler[h], q) = {}
      /\ TodoOf(handler[h], g) = Range(t)
      /\ \A k \in Groups \ {g} : TodoOf(handler[h], k) = {}
      /\ handler[h] # Popping
  BY <1>2, EntriesInHand
<1> QED
  BY <1>2, <1>3, <1>4, <1>5, <1>6, <1>7

(* An entry that h has still to acknowledge is pending for nobody else. *)
LEMMA OwnEntry ==
    ASSUME IInv, NEW h \in Handlers, NEW g \in Groups, NEW i \in HandOf(handler[h], g)
    PROVE  /\ <<g, i>> \notin stranded
           /\ \A k \in Handlers \ {h} : i \notin TodoOf(handler[k], g)
<1>1. ~Outcome(g, i) /\ \A k \in Handlers \ {h} : i \notin HandOf(handler[k], g)
  BY DEF IInv, OneFate, Places
<1>2. \A k \in Handlers : TodoOf(handler[k], g) \subseteq HandOf(handler[k], g)
  BY ItemsInHand DEF IInv, StateOK
<1> QED
  BY <1>1, <1>2 DEF Outcome

LEMMA AckEntryInv ==
    ASSUME IInv, NEW h \in Handlers, AckEntry(h)
    PROVE  IInv'
<1>0. PICK g \in Groups, t \in Seq(Items), a \in Seq(Items) :
        /\ handler[h].group = g /\ handler[h].todo = t /\ handler[h].acked = a
        /\ handler[h] # Popping
        /\ Range(t) \in SUBSET Items /\ Range(a) \in SUBSET Items
        /\ Range(t) \cap Range(a) = {} /\ Len(t) + Len(a) \in 1 .. Count
        /\ HandOf(handler[h], g) = Range(t) \cup Range(a)
        /\ \A q \in Places \ {g} : HandOf(handler[h], q) = {}
        /\ TodoOf(handler[h], g) = Range(t)
        /\ \A k \in Groups \ {g} : TodoOf(handler[h], k) = {}
        /\ t = <<>> => Range(t) = {}
        /\ t # <<>> =>
              /\ Head(t) \in Items /\ Tail(t) \in Seq(Items)
              /\ Len(Tail(t)) = Len(t) - 1
              /\ Range(t) = {Head(t)} \cup Range(Tail(t))
              /\ IsInjective(Tail(t)) /\ Head(t) \notin Range(Tail(t))
  BY AtAck DEF AckEntry
<1>1. /\ t # <<>> /\ handler[h].op = "acking"
      /\ group' = [group EXCEPT ![g].pending = @ \ {Head(t)}]
      /\ handler' = [handler EXCEPT ![h] = Acking(g, Tail(t), Append(a, Head(t)))]
      /\ UNCHANGED <<issued, stream, list, raw, blocked, answered, dropped, stranded>>
  BY <1>0 DEF AckEntry, Acknowledge, outcome
<1>2. PICK e \in Items, u \in Seq(Items) :
        /\ e = Head(t) /\ u = Tail(t) /\ Len(u) = Len(t) - 1
        /\ Range(t) = {e} \cup Range(u) /\ IsInjective(u) /\ e \notin Range(u)
  BY <1>0, <1>1
<1>3. PICK b \in Seq(Items) :
        b = Append(a, e) /\ Len(b) = Len(a) + 1 /\ Range(b) = Range(a) \cup {e}
  <2>1. Append(a, e) \in Seq(Items) /\ Range(Append(a, e)) = Range(a) \cup {e}
    BY RangeAppend
  <2>2. Len(Append(a, e)) = Len(a) + 1
    BY AppendProperties
  <2> QED
    BY <2>1, <2>2
<1>4. PICK r \in Hands :
        /\ r = Acking(g, u, b) /\ r.op = "acking" /\ r.todo = u /\ r.acked = b
        /\ r.group = g
        /\ HandOf(r, g) = Range(u) \cup Range(b)
        /\ \A q \in Places \ {g} : HandOf(r, q) = {}
        /\ TodoOf(r, g) = Range(u)
        /\ \A k \in Groups \ {g} : TodoOf(r, k) = {}
        /\ r # Popping
  BY EntriesInHand
<1>5. /\ handler'[h] = r /\ \A k \in Handlers \ {h} : handler'[k] = handler[k]
      /\ handler' \in [Handlers -> Hands]
      /\ group'[g].pending = group[g].pending \ {e}
      /\ \A k \in Groups \ {g} : group'[k] = group[k]
      /\ \A k \in Groups : group'[k].last = group[k].last
  BY <1>1, <1>2, <1>3, <1>4 DEF IInv, StateOK
<1>6. group' \in [Groups -> [made : BOOLEAN, last : 0 .. issued, pending : SUBSET Items]]
  BY <1>1 DEF IInv, StateOK
<1>7. \A k \in Handlers, q \in Places : HandOf(handler'[k], q) = HandOf(handler[k], q)
  <2>1. /\ HandOf(handler[h], g) = Range(t) \cup Range(a)
        /\ \A q \in Places \ {g} : HandOf(handler[h], q) = {}
    BY <1>0
  <2>2. HandOf(r, g) = HandOf(handler[h], g)
    BY <1>2, <1>3, <1>4, <2>1
  <2>3. \A q \in Places : HandOf(r, q) = HandOf(handler[h], q)
    BY <1>4, <2>1, <2>2
  <2> QED
    BY <1>5, <2>3
<1>8. /\ OneFate'
      /\ \A q \in Places : \A i : HasFate(q, i)' <=> HasFate(q, i)
  <2>1. \A q, i : Outcome(q, i)' <=> Outcome(q, i)
    BY <1>1 DEF Outcome
  <2>2. OneFate'
    BY <1>1, <1>7 DEF IInv, OneFate, Outcome
  <2> QED
    BY <1>1, <1>7, <2>1, <2>2 DEF HasFate, Outcome
<1>9. InOrder' /\ FatesIssued' /\ DeliveredInOrder' /\ PoppedInOrder'
  BY <1>1, <1>5, <1>8, OrderStays
<1>10. StateOK'
  BY <1>1, <1>5, <1>6 DEF IInv, StateOK
<1>11. WaitersOK'
  BY <1>0, <1>1, <1>4, <1>5 DEF IInv, WaitersOK
<1>12. InHandOK'
  <2>1. Range(u) \cap Range(b) = {} /\ Len(u) + Len(b) \in 1 .. Count
    BY <1>0, <1>2, <1>3
  <2> QED
    BY <1>2, <1>4, <1>5, <2>1 DEF IInv, InHandOK
<1>13. PendingKnown'
  <2> SUFFICES ASSUME NEW k \in Groups, NEW i \in Items
               PROVE  i \in group'[k].pending <=>
                         /\ i \in Range(stream)
                         /\ \/ <<k, i>> \in stranded
                            \/ \E l \in Handlers : i \in TodoOf(handler'[l], k)
    BY <1>1 DEF PendingKnown
  <2>1. i \in group[k].pending <=>
           /\ i \in Range(stream)
           /\ \/ <<k, i>> \in stranded
              \/ \E l \in Handlers : i \in TodoOf(handler[l], k)
    BY DEF IInv, PendingKnown
  <2>2. CASE k # g
    <3>1. TodoOf(handler[h], k) = {} /\ TodoOf(r, k) = {}
      BY <1>0, <1>4, <2>2
    <3>2. \A l \in Handlers : TodoOf(handler'[l], k) = TodoOf(handler[l], k)
      BY <1>5, <3>1
    <3> QED
      BY <1>5, <2>1, <2>2, <3>2
  <2>3. CASE k = g /\ i # e
    <3>1. \A l \in Handlers : i \in TodoOf(handler'[l], k) <=> i \in TodoOf(handler[l], k)
      BY <1>0, <1>2, <1>4, <1>5, <2>3
    <3> QED
      BY <1>5, <2>1, <2>3, <3>1
  <2>4. CASE k = g /\ i = e
    <3>1. <<g, e>> \notin stranded /\ \A l \in Handlers \ {h} : e \notin TodoOf(handler[l], g)
      BY <1>0, <1>2, OwnEntry
    <3>2. \A l \in Handlers : e \notin TodoOf(handler'[l], g)
      BY <1>2, <1>4, <1>5, <3>1
    <3> QED
      BY <1>5, <2>4, <3>1, <3>2
  <2> QED
    BY <2>2, <2>3, <2>4
<1> QED
  BY <1>8, <1>9, <1>10, <1>11, <1>12, <1>13 DEF IInv

(* A read ends: of its entries, A are answered, D are gone and S stay pending. *)
ReadOver(h, g, A, D, S) ==
    /\ A \in SUBSET Items /\ D \in SUBSET Items /\ S \in SUBSET Items
    /\ A \cap D = {} /\ A \cap S = {} /\ D \cap S = {}
    /\ HandOf(handler[h], g) = A \cup D \cup S
    /\ \A q \in Places \ {g} : HandOf(handler[h], q) = {}
    /\ handler[h] # Popping
    /\ answered' = answered \cup In(g, A)
    /\ dropped' = dropped \cup In(g, D)
    /\ stranded' = stranded \cup In(g, S)
    /\ handler' = [handler EXCEPT ![h] = Idle]
    /\ UNCHANGED <<issued, stream, list, raw, blocked>>
    /\ group' \in [Groups -> [made : BOOLEAN, last : 0 .. issued,
                               pending : SUBSET Items]]
    /\ \A k \in Groups : group'[k].last = group[k].last

LEMMA ReadEnds ==
    ASSUME IInv, PendingKnown', NEW h \in Handlers, NEW g \in Groups,
           NEW A, NEW D, NEW S, ReadOver(h, g, A, D, S)
    PROVE  IInv'
<1>0. /\ A \in SUBSET Items /\ D \in SUBSET Items /\ S \in SUBSET Items
      /\ A \cap D = {} /\ A \cap S = {} /\ D \cap S = {}
      /\ HandOf(handler[h], g) = A \cup D \cup S
      /\ \A q \in Places \ {g} : HandOf(handler[h], q) = {}
      /\ handler[h] # Popping
      /\ answered' = answered \cup In(g, A)
      /\ dropped' = dropped \cup In(g, D)
      /\ stranded' = stranded \cup In(g, S)
      /\ handler' = [handler EXCEPT ![h] = Idle]
      /\ UNCHANGED <<issued, stream, list, raw, blocked>>
      /\ group' \in [Groups -> [made : BOOLEAN, last : 0 .. issued,
                                 pending : SUBSET Items]]
      /\ \A k \in Groups : group'[k].last = group[k].last
  BY DEF ReadOver
<1> USE <1>0
<1>1. PICK H \in SUBSET Items : H = {}
  OBVIOUS
<1>2. /\ handler'[h] = Idle /\ \A k \in Handlers \ {h} : handler'[k] = handler[k]
      /\ handler' \in [Handlers -> Hands]
  BY NothingInHand DEF IInv, StateOK
<1>3. Settles(h, g, A, D, S, H)
  <2>1. /\ \A q \in Places \ {g} : HandOf(handler'[h], q) = HandOf(handler[h], q)
        /\ HandOf(handler'[h], g) = H
    BY <1>1, <1>2, NothingInHand
  <2> QED
    BY <1>1, <1>2, <2>1 DEF Settles
<1>4. OneFate /\ StateOK /\ g \in Places
  BY DEF IInv, Places
<1>5. /\ OneFate'
      /\ answered' \subseteq Places \X Items
      /\ dropped' \subseteq Places \X Items
      /\ stranded' \subseteq Groups \X Items
      /\ \A q \in Places \ {g} : \A i : HasFate(q, i)' <=> HasFate(q, i)
      /\ \A i : HasFate(g, i)' <=> HasFate(g, i) \/ i \in A \cup D \cup S \cup H
  BY <1>1, <1>3, <1>4, Fates
<1>6. \A q \in Places : \A i : HasFate(q, i)' <=> HasFate(q, i)
  <2>1. \A i : i \in A \cup D \cup S \cup H => HasFate(g, i)
    BY <1>1 DEF HasFate
  <2> QED
    BY <1>5, <2>1
<1>7. InOrder' /\ FatesIssued' /\ DeliveredInOrder' /\ PoppedInOrder'
  BY <1>6, OrderStays
<1>8. StateOK'
  BY <1>2, <1>5 DEF IInv, StateOK
<1>9. WaitersOK' /\ InHandOK'
  BY <1>2, NothingInHand DEF IInv, WaitersOK, InHandOK
<1> QED
  BY <1>5, <1>7, <1>8, <1>9 DEF IInv


(* The first entry that h has still to acknowledge leaves the pending list. *)
LEMMA FirstAcked ==
    ASSUME IInv, NEW h \in Handlers, NEW g \in Groups,
           NEW e \in HandOf(handler[h], g), NEW U \in SUBSET Items, e \notin U,
           TodoOf(handler[h], g) = {e} \cup U,
           \A k \in Groups \ {g} : TodoOf(handler[h], k) = {},
           handler' = [handler EXCEPT ![h] = Idle],
           stranded' = stranded \cup In(g, U),
           group' = [group EXCEPT ![g].pending = @ \ {e}],
           UNCHANGED stream
    PROVE  PendingKnown'
<1>1. /\ handler'[h] = Idle /\ \A k \in Handlers \ {h} : handler'[k] = handler[k]
      /\ group'[g].pending = group[g].pending \ {e}
      /\ \A k \in Groups \ {g} : group'[k] = group[k]
      /\ \A k : TodoOf(handler'[h], k) = {}
  BY NothingInHand DEF IInv, StateOK
<1>2. <<g, e>> \notin stranded /\ \A l \in Handlers \ {h} : e \notin TodoOf(handler[l], g)
  BY OwnEntry
<1> SUFFICES ASSUME NEW k \in Groups, NEW i \in Items
             PROVE  i \in group'[k].pending <=>
                       /\ i \in Range(stream)
                       /\ \/ <<k, i>> \in stranded'
                          \/ \E l \in Handlers : i \in TodoOf(handler'[l], k)
  BY DEF PendingKnown
<1>3. i \in group[k].pending <=>
         /\ i \in Range(stream)
         /\ \/ <<k, i>> \in stranded
            \/ \E l \in Handlers : i \in TodoOf(handler[l], k)
  BY DEF IInv, PendingKnown
<1>4. <<k, i>> \in stranded' <=> <<k, i>> \in stranded \/ (k = g /\ i \in U)
  BY InMember
<1>5. CASE k # g
  <2>1. \A l \in Handlers : TodoOf(handler'[l], k) = TodoOf(handler[l], k)
    BY <1>1, <1>5
  <2> QED
    BY <1>1, <1>3, <1>4, <1>5, <2>1
<1>6. CASE k = g
  <2>1. (\E l \in Handlers : i \in TodoOf(handler[l], k)) <=>
           \/ i = e \/ i \in U
           \/ \E l \in Handlers \ {h} : i \in TodoOf(handler[l], k)
    BY <1>6
  <2>2. (\E l \in Handlers : i \in TodoOf(handler'[l], k)) <=>
           \E l \in Handlers \ {h} : i \in TodoOf(handler[l], k)
    BY <1>1
  <2>3. CASE i # e
    BY <1>1, <1>3, <1>4, <1>6, <2>1, <2>2, <2>3
  <2>4. CASE i = e
    BY <1>1, <1>2, <1>4, <1>6, <2>2, <2>4
  <2> QED
    BY <2>3, <2>4
<1> QED
  BY <1>5, <1>6

(* What h has still to acknowledge stays in the pending list. *)
LEMMA AllStay ==
    ASSUME IInv, NEW h \in Handlers, NEW g \in Groups,
           \A k \in Groups \ {g} : TodoOf(handler[h], k) = {},
           handler' = [handler EXCEPT ![h] = Idle],
           stranded' = stranded \cup In(g, TodoOf(handler[h], g)),
           UNCHANGED <<stream, group>>
    PROVE  PendingKnown'
<1>1. /\ handler'[h] = Idle /\ \A k \in Handlers \ {h} : handler'[k] = handler[k]
      /\ \A k : TodoOf(handler'[h], k) = {}
  BY NothingInHand DEF IInv, StateOK
<1> SUFFICES ASSUME NEW k \in Groups, NEW i \in Items
             PROVE  i \in group[k].pending <=>
                       /\ i \in Range(stream)
                       /\ \/ <<k, i>> \in stranded'
                          \/ \E l \in Handlers : i \in TodoOf(handler'[l], k)
  BY DEF PendingKnown
<1>3. i \in group[k].pending <=>
         /\ i \in Range(stream)
         /\ \/ <<k, i>> \in stranded
            \/ \E l \in Handlers : i \in TodoOf(handler[l], k)
  BY DEF IInv, PendingKnown
<1>4. <<k, i>> \in stranded' <=>
         <<k, i>> \in stranded \/ (k = g /\ i \in TodoOf(handler[h], g))
  BY InMember
<1>5. (\E l \in Handlers : i \in TodoOf(handler[l], k)) <=>
         \/ i \in TodoOf(handler[h], k)
         \/ \E l \in Handlers \ {h} : i \in TodoOf(handler[l], k)
  OBVIOUS
<1>6. (\E l \in Handlers : i \in TodoOf(handler'[l], k)) <=>
         \E l \in Handlers \ {h} : i \in TodoOf(handler[l], k)
  BY <1>1
<1>7. CASE k = g
  BY <1>3, <1>4, <1>5, <1>6, <1>7
<1>8. CASE k # g
  BY <1>3, <1>4, <1>5, <1>6, <1>8
<1> QED
  BY <1>7, <1>8

LEMMA AckFailsInv ==
    ASSUME IInv, NEW h \in Handlers, AckFails(h)
    PROVE  IInv'
<1>0. PICK g \in Groups, t \in Seq(Items), a \in Seq(Items) :
        /\ handler[h].group = g /\ handler[h].todo = t /\ handler[h].acked = a
        /\ handler[h] # Popping
        /\ Range(t) \in SUBSET Items /\ Range(a) \in SUBSET Items
        /\ Range(t) \cap Range(a) = {} /\ Len(t) + Len(a) \in 1 .. Count
        /\ HandOf(handler[h], g) = Range(t) \cup Range(a)
        /\ \A q \in Places \ {g} : HandOf(handler[h], q) = {}
        /\ TodoOf(handler[h], g) = Range(t)
        /\ \A k \in Groups \ {g} : TodoOf(handler[h], k) = {}
        /\ t = <<>> => Range(t) = {}
        /\ t # <<>> =>
              /\ Head(t) \in Items /\ Tail(t) \in Seq(Items)
              /\ Len(Tail(t)) = Len(t) - 1
              /\ Range(t) = {Head(t)} \cup Range(Tail(t))
              /\ IsInjective(Tail(t)) /\ Head(t) \notin Range(Tail(t))
  BY AtAck DEF AckFails
<1>1. /\ t # <<>>
      /\ \/ /\ group' = [group EXCEPT ![g].pending = @ \ {Head(t)}]
            /\ dropped' = dropped \cup In(g, Range(a) \cup {Head(t)})
            /\ stranded' = stranded \cup In(g, Range(Tail(t)))
         \/ /\ dropped' = dropped \cup In(g, Range(a))
            /\ stranded' = stranded \cup In(g, Range(Tail(t)) \cup {Head(t)})
            /\ group' = group
      /\ handler' = [handler EXCEPT ![h] = Idle]
      /\ UNCHANGED <<issued, stream, list, raw, blocked, answered>>
  BY <1>0 DEF AckFails, Acknowledge
<1>2. PICK e \in Items, U \in SUBSET Items, R \in SUBSET Items :
        /\ e = Head(t) /\ U = Range(Tail(t)) /\ R = Range(a)
        /\ Range(t) = {e} \cup U /\ e \notin U
  <2>1. Range(Tail(t)) \in SUBSET Items
    BY <1>0, <1>1
  <2> QED
    BY <1>0, <1>1, <2>1
<1>3. e \notin R /\ U \cap R = {} /\ e \in HandOf(handler[h], g)
      /\ HandOf(handler[h], g) = {e} \cup U \cup R
  BY <1>0, <1>2
<1>4. PICK A \in SUBSET Items : A = {} /\ answered' = answered \cup In(g, A)
  BY <1>1, InNothing
<1>5. CASE /\ group' = [group EXCEPT ![g].pending = @ \ {e}]
           /\ dropped' = dropped \cup In(g, R \cup {e})
           /\ stranded' = stranded \cup In(g, U)
  <2>1. PendingKnown'
    <3>1. /\ TodoOf(handler[h], g) = {e} \cup U
          /\ \A k \in Groups \ {g} : TodoOf(handler[h], k) = {}
          /\ handler' = [handler EXCEPT ![h] = Idle]
          /\ UNCHANGED stream
      BY <1>0, <1>1, <1>2
    <3> QED
      BY <1>2, <1>3, <1>5, <3>1, FirstAcked
  <2>2. PICK D \in SUBSET Items : D = R \cup {e}
    OBVIOUS
  <2>3. /\ A \cap D = {} /\ A \cap U = {} /\ D \cap U = {}
        /\ HandOf(handler[h], g) = A \cup D \cup U
        /\ dropped' = dropped \cup In(g, D)
    BY <1>2, <1>3, <1>4, <1>5, <2>2
  <2>4. /\ group' \in [Groups -> [made : BOOLEAN, last : 0 .. issued,
                                   pending : SUBSET Items]]
        /\ \A k \in Groups : group'[k].last = group[k].last
    BY <1>5 DEF IInv, StateOK
  <2>5. ReadOver(h, g, A, D, U)
    BY <1>0, <1>1, <1>4, <1>5, <2>3, <2>4 DEF ReadOver
  <2> QED
    BY <2>1, <2>5, ReadEnds
<1>6. CASE /\ dropped' = dropped \cup In(g, R)
           /\ stranded' = stranded \cup In(g, U \cup {e})
           /\ group' = group
  <2>1. PICK S \in SUBSET Items : S = U \cup {e} /\ S = TodoOf(handler[h], g)
    BY <1>0, <1>2
  <2>2. PendingKnown'
    BY <1>0, <1>1, <1>6, <2>1, AllStay
  <2>3. /\ A \cap R = {} /\ A \cap S = {} /\ R \cap S = {}
        /\ HandOf(handler[h], g) = A \cup R \cup S
        /\ stranded' = stranded \cup In(g, S)
    BY <1>2, <1>3, <1>4, <1>6, <2>1
  <2>4. /\ group' \in [Groups -> [made : BOOLEAN, last : 0 .. issued,
                                   pending : SUBSET Items]]
        /\ \A k \in Groups : group'[k].last = group[k].last
    BY <1>6 DEF IInv, StateOK
  <2>5. ReadOver(h, g, A, R, S)
    BY <1>0, <1>1, <1>4, <1>6, <2>3, <2>4 DEF ReadOver
  <2> QED
    BY <2>2, <2>5, ReadEnds
<1> QED
  BY <1>1, <1>2, <1>5, <1>6

LEMMA AnswerReadInv ==
    ASSUME IInv, NEW h \in Handlers, AnswerRead(h)
    PROVE  IInv'
<1>0. PICK g \in Groups, t \in Seq(Items), a \in Seq(Items) :
        /\ handler[h].group = g /\ handler[h].todo = t /\ handler[h].acked = a
        /\ handler[h] # Popping
        /\ Range(t) \in SUBSET Items /\ Range(a) \in SUBSET Items
        /\ Range(t) \cap Range(a) = {} /\ Len(t) + Len(a) \in 1 .. Count
        /\ HandOf(handler[h], g) = Range(t) \cup Range(a)
        /\ \A q \in Places \ {g} : HandOf(handler[h], q) = {}
        /\ TodoOf(handler[h], g) = Range(t)
        /\ \A k \in Groups \ {g} : TodoOf(handler[h], k) = {}
        /\ t = <<>> => Range(t) = {}
        /\ t # <<>> =>
              /\ Head(t) \in Items /\ Tail(t) \in Seq(Items)
              /\ Len(Tail(t)) = Len(t) - 1
              /\ Range(t) = {Head(t)} \cup Range(Tail(t))
              /\ IsInjective(Tail(t)) /\ Head(t) \notin Range(Tail(t))
  BY AtAck DEF AnswerRead
<1>1. /\ t = <<>> /\ answered' = answered \cup In(g, Range(a))
      /\ handler' = [handler EXCEPT ![h] = Idle]
      /\ UNCHANGED <<issued, stream, group, list, raw, blocked, dropped, stranded>>
  BY <1>0 DEF AnswerRead, server
<1>2. PICK A \in SUBSET Items : A = Range(a) /\ A = HandOf(handler[h], g)
  BY <1>0, <1>1
<1>3. PICK D \in SUBSET Items :
        D = {} /\ dropped' = dropped \cup In(g, D) /\ stranded' = stranded \cup In(g, D)
        /\ D = TodoOf(handler[h], g)
  BY <1>0, <1>1, InNothing
<1>4. PendingKnown'
  BY <1>0, <1>1, <1>3, AllStay
<1>5. /\ A \cap D = {} /\ D \cap D = {}
      /\ HandOf(handler[h], g) = A \cup D \cup D
      /\ answered' = answered \cup In(g, A)
  BY <1>1, <1>2, <1>3
<1>6. /\ group' \in [Groups -> [made : BOOLEAN, last : 0 .. issued,
                                 pending : SUBSET Items]]
      /\ \A k \in Groups : group'[k].last = group[k].last
  BY <1>1 DEF IInv, StateOK
<1>7. ReadOver(h, g, A, D, D)
  BY <1>0, <1>1, <1>3, <1>5, <1>6 DEF ReadOver
<1> QED
  BY <1>4, <1>7, ReadEnds


(* The list queue. *)

LEMMA HandsStay ==
    ASSUME OneFate, UNCHANGED <<answered, dropped, stranded>>,
           \A k \in Handlers, q \in Places : HandOf(handler'[k], q) = HandOf(handler[k], q)
    PROVE  /\ OneFate'
           /\ \A q \in Places : \A i : HasFate(q, i)' <=> HasFate(q, i)
<1>1. \A q, i : Outcome(q, i)' <=> Outcome(q, i)
  BY DEF Outcome
<1>2. OneFate'
  BY DEF OneFate, Outcome
<1> QED
  BY <1>1, <1>2 DEF HasFate, Outcome

LEMMA OneMore ==
    ASSUME IInv, issued < MaxItems, issued' = issued + 1
    PROVE  /\ issued \in Nat /\ issued' \in Nat /\ issued' \in 0 .. MaxItems
           /\ issued + 1 \in 1 .. issued' /\ issued + 1 \in Items
           /\ \A S \in {stream, list} : S \in Seq(1 .. issued')
           /\ group \in [Groups -> [made : BOOLEAN, last : 0 .. issued',
                                     pending : SUBSET Items]]
           /\ 1 .. issued \subseteq 1 .. issued'
           /\ \A q \in Places : ~HasFate(q, issued + 1)
<1>1. issued \in Nat /\ issued' \in Nat /\ MaxItems \in Nat
  BY WorkAssumption DEF IInv, StateOK
<1>2. /\ issued' \in 0 .. MaxItems /\ issued + 1 \in 1 .. issued'
      /\ issued + 1 \in Items /\ issued + 1 \notin 1 .. issued
      /\ 1 .. issued \subseteq 1 .. issued' /\ 0 .. issued \subseteq 0 .. issued'
  BY <1>1 DEF Items
<1>3. \A q \in Places : ~HasFate(q, issued + 1)
  BY <1>2 DEF IInv, FatesIssued
<1>4. \A S \in {stream, list} : S \in Seq(1 .. issued')
  <2>1. stream \in Seq(1 .. issued) /\ list \in Seq(1 .. issued)
    BY DEF IInv, StateOK
  <2>2. stream \in Seq(1 .. issued') /\ list \in Seq(1 .. issued')
    BY <1>2, <2>1, SeqWiden
  <2> QED
    BY <2>2
<1>5. group \in [Groups -> [made : BOOLEAN, last : 0 .. issued', pending : SUBSET Items]]
  BY <1>2 DEF IInv, StateOK
<1> QED
  BY <1>1, <1>2, <1>3, <1>4, <1>5

LEMMA PushInv ==
    ASSUME IInv, issued < MaxItems, issued' = issued + 1, Push(issued + 1),
           raw' \in SUBSET (raw \cup {issued + 1}),
           UNCHANGED <<stream, group, answered, dropped, stranded>>
    PROVE  IInv'
<1>1. /\ issued \in Nat /\ issued' \in Nat /\ issued' \in 0 .. MaxItems
      /\ issued + 1 \in 1 .. issued' /\ issued + 1 \in Items
      /\ stream \in Seq(1 .. issued') /\ list \in Seq(1 .. issued')
      /\ group \in [Groups -> [made : BOOLEAN, last : 0 .. issued',
                                pending : SUBSET Items]]
      /\ 1 .. issued \subseteq 1 .. issued'
      /\ \A q \in Places : ~HasFate(q, issued + 1)
  BY OneMore
<1>2. raw' \subseteq 1 .. issued'
  BY <1>1 DEF IInv, StateOK
<1>3. PICK e \in Items : e = issued + 1
  BY <1>1
<1>4. CASE blocked = <<>>
  <2>1. list' = <<issued + 1>> \o list /\ UNCHANGED <<blocked, handler>>
    BY <1>4 DEF Push
  <2>2. /\ list' \in Seq(1 .. issued') /\ Range(list') = {issued + 1} \cup Range(list)
        /\ Decreasing(list')
    <3>1. list \in Seq(1 .. issued) /\ Decreasing(list) /\ issued \in Nat
      BY <1>1 DEF IInv, StateOK, InOrder
    <3>2. /\ <<issued + 1>> \o list \in Seq(1 .. (issued + 1))
          /\ Range(<<issued + 1>> \o list) = {issued + 1} \cup Range(list)
          /\ Decreasing(<<issued + 1>> \o list)
      BY <3>1, PushedLeft
    <3> QED
      BY <2>1, <3>2
  <2>3. StateOK'
    BY <1>1, <1>2, <2>1, <2>2 DEF IInv, StateOK
  <2>4. InOrder'
    BY <2>2 DEF IInv, InOrder, Increasing
  <2>5. OneFate' /\ \A q, i : HasFate(q, i)' <=> HasFate(q, i)
    BY <2>1, FatesStay DEF IInv
  <2>6. FatesIssued' /\ DeliveredInOrder'
    BY <1>1, <2>5 DEF IInv, FatesIssued, DeliveredInOrder
  <2>7. PoppedInOrder'
    <3> SUFFICES ASSUME NEW i \in Range(list'), NEW j \in Items, HasFate(Queue, j)
                 PROVE  j < i
      BY <2>5 DEF PoppedInOrder
    <3>1. CASE i \in Range(list)
      BY <3>1 DEF IInv, PoppedInOrder
    <3>2. CASE i = issued + 1
      <4>1. j \in 1 .. issued
        BY DEF IInv, FatesIssued, Places
      <4> QED
        BY <1>1, <3>2, <4>1
    <3> QED
      BY <2>2, <3>1, <3>2
  <2>8. PendingKnown'
    BY <2>1, PendingStays DEF IInv
  <2>9. WaitersOK' /\ InHandOK'
    BY <1>4, <2>1 DEF IInv, WaitersOK, InHandOK
  <2> QED
    BY <2>3, <2>4, <2>5, <2>6, <2>7, <2>8, <2>9 DEF IInv
<1>5. CASE blocked # <<>>
  <2>1. PICK w \in Handlers, b \in Seq(Handlers) :
          /\ w = Head(blocked) /\ b = Tail(blocked)
          /\ Range(blocked) = {w} \cup Range(b) /\ IsInjective(b) /\ w \notin Range(b)
    <3>1. blocked \in Seq(Handlers) /\ IsInjective(blocked)
      BY DEF IInv, StateOK, WaitersOK
    <3>2. /\ Head(blocked) \in Handlers /\ Tail(blocked) \in Seq(Handlers)
          /\ Range(blocked) = {Head(blocked)} \cup Range(Tail(blocked))
          /\ IsInjective(Tail(blocked)) /\ Head(blocked) \notin Range(Tail(blocked))
      BY <1>5, <3>1, HeadAndTail
    <3> QED
      BY <3>2
  <2>2. /\ handler' = [handler EXCEPT ![w] = Popped(e)] /\ blocked' = b
        /\ list' = list
    BY <1>3, <1>5, <2>1 DEF Push
  <2>3. handler[w] = Popping /\ list = <<>>
    BY <1>5, <2>1 DEF IInv, WaitersOK
  <2>4. /\ HandOf(Popped(e), Queue) = {e}
        /\ \A q \in Groups : HandOf(Popped(e), q) = {}
        /\ \A k : TodoOf(Popped(e), k) = {}
        /\ Popped(e) \in Hands /\ Popped(e).op = "popped" /\ Popped(e) # Popping
    BY JobInHand
  <2>5. /\ handler'[w] = Popped(e)
        /\ \A k \in Handlers \ {w} : handler'[k] = handler[k]
        /\ handler' \in [Handlers -> Hands]
    BY <2>2, <2>4 DEF IInv, StateOK
  <2>6. /\ OneFate'
        /\ \A q \in Places \ {Queue} : \A i : HasFate(q, i)' <=> HasFate(q, i)
        /\ \A i : HasFate(Queue, i)' <=> HasFate(Queue, i) \/ i = e
    <3>1. PICK A \in SUBSET Items : A = {} /\ answered' = answered \cup In(Queue, A)
            /\ dropped' = dropped \cup In(Queue, A) /\ stranded' = stranded \cup In(Queue, A)
      BY InNothing
    <3>2. PICK H \in SUBSET Items : H = {e}
      OBVIOUS
    <3>3. Queue \in Places /\ \A q \in Places \ {Queue} : q \in Groups
      BY DEF Places
    <3>4. \A q : HandOf(handler[w], q) = {}
      BY <2>3, NothingInHand
    <3>5. Settles(w, Queue, A, A, A, H)
      BY <1>1, <1>3, <2>4, <2>5, <3>1, <3>2, <3>3, <3>4 DEF Settles
    <3>6. OneFate /\ StateOK
      BY DEF IInv
    <3>7. /\ OneFate'
          /\ \A q \in Places \ {Queue} : \A i : HasFate(q, i)' <=> HasFate(q, i)
          /\ \A i : HasFate(Queue, i)' <=> HasFate(Queue, i) \/ i \in A \cup A \cup A \cup H
      BY <3>3, <3>5, <3>6, Fates
    <3> QED
      BY <3>1, <3>2, <3>7
  <2>7. StateOK'
    BY <1>1, <1>2, <2>2, <2>5 DEF IInv, StateOK
  <2>8. InOrder'
    BY <2>2 DEF IInv, InOrder, Increasing, Decreasing
  <2>9. FatesIssued'
    <3> SUFFICES ASSUME NEW q \in Places, NEW i, HasFate(q, i)' PROVE i \in 1 .. issued'
      BY DEF FatesIssued
    <3>1. HasFate(q, i) \/ i = e
      BY <2>6
    <3> QED
      BY <1>1, <1>3, <3>1 DEF IInv, FatesIssued
  <2>10. DeliveredInOrder'
    <3>1. \A g \in Groups : g \in Places \ {Queue}
      BY PlacesAssumption DEF Places
    <3> QED
      BY <2>6, <3>1 DEF IInv, DeliveredInOrder
  <2>11. PoppedInOrder'
    <3>1. Range(list') = {}
      BY <2>2, <2>3, RangeEmpty
    <3> QED
      BY <3>1 DEF PoppedInOrder
  <2>12. PendingKnown'
    <3>1. \A k \in Handlers, g \in Groups : TodoOf(handler'[k], g) = TodoOf(handler[k], g)
      BY <2>3, <2>4, <2>5, NothingInHand
    <3> QED
      BY <3>1, PendingStays DEF IInv
  <2>13. WaitersOK'
    <3>1. Range(b) = {k \in Handlers : handler'[k] = Popping}
      BY <2>1, <2>3, <2>4, <2>5 DEF IInv, WaitersOK
    <3> QED
      BY <2>1, <2>2, <2>3, <3>1 DEF WaitersOK
  <2>14. InHandOK'
    BY <2>4, <2>5 DEF IInv, InHandOK
  <2> QED
    BY <2>6, <2>7, <2>8, <2>9, <2>10, <2>11, <2>12, <2>13, <2>14 DEF IInv
<1> QED
  BY <1>4, <1>5


LEMMA QueuePopInv ==
    ASSUME IInv, NEW h \in Handlers, queue_pop(h)
    PROVE  IInv'
<1>1. /\ handler[h] = Idle
      /\ \/ /\ list # <<>>
            /\ handler' = [handler EXCEPT ![h] = Popped(Last(list))]
            /\ list' = Front(list)
            /\ blocked' = blocked
         \/ /\ list = <<>>
            /\ handler' = [handler EXCEPT ![h] = Popping]
            /\ blocked' = Append(blocked, h)
            /\ list' = list
      /\ UNCHANGED <<issued, stream, group, raw, answered, dropped, stranded>>
  BY DEF queue_pop, outcome
<1>2. /\ \A q : HandOf(handler[h], q) = {} /\ TodoOf(handler[h], q) = {}
      /\ handler[h] # Popping
  BY <1>1, NothingInHand
<1>3. CASE list # <<>>
  <2>1. /\ list' = Front(list) /\ blocked' = blocked
        /\ handler' = [handler EXCEPT ![h] = Popped(Last(list))]
    BY <1>1, <1>3
  <2>2. /\ Last(list) \in Range(list) /\ Last(list) \in 1 .. issued
        /\ Front(list) \in Seq(1 .. issued)
        /\ Decreasing(Front(list))
        /\ \A i \in Range(Front(list)) : i \in Range(list) /\ i > Last(list)
    <3>1. issued \in Nat /\ list \in Seq(1 .. issued) /\ Decreasing(list)
      BY WorkAssumption DEF IInv, StateOK, InOrder
    <3> QED
      BY <1>3, <3>1, PoppedRight
  <2>3. PICK e \in Items : e = Last(list) /\ e \in 1 .. issued
    BY <2>2, WorkAssumption DEF IInv, StateOK, Items
  <2>4. ~HasFate(Queue, e)
    <3>1. e \in Range(list) /\ ~(e < e)
      BY <2>2, <2>3
    <3> QED
      BY <3>1 DEF IInv, PoppedInOrder
  <2>5. /\ HandOf(Popped(e), Queue) = {e}
        /\ \A q \in Groups : HandOf(Popped(e), q) = {}
        /\ \A k : TodoOf(Popped(e), k) = {}
        /\ Popped(e) \in Hands /\ Popped(e).op = "popped" /\ Popped(e) # Popping
    BY JobInHand
  <2>6. /\ handler'[h] = Popped(e)
        /\ \A k \in Handlers \ {h} : handler'[k] = handler[k]
        /\ handler' \in [Handlers -> Hands]
    BY <2>1, <2>3, <2>5 DEF IInv, StateOK
  <2>7. /\ OneFate'
        /\ \A q \in Places \ {Queue} : \A i : HasFate(q, i)' <=> HasFate(q, i)
        /\ \A i : HasFate(Queue, i)' <=> HasFate(Queue, i) \/ i = e
    <3>1. PICK A \in SUBSET Items : A = {} /\ answered' = answered \cup In(Queue, A)
            /\ dropped' = dropped \cup In(Queue, A) /\ stranded' = stranded \cup In(Queue, A)
      BY <1>1, InNothing
    <3>2. PICK H \in SUBSET Items : H = {e}
      OBVIOUS
    <3>3. Queue \in Places /\ \A q \in Places \ {Queue} : q \in Groups
      BY DEF Places
    <3>4. Settles(h, Queue, A, A, A, H)
      BY <1>2, <2>4, <2>5, <2>6, <3>1, <3>2, <3>3 DEF Settles
    <3>5. OneFate /\ StateOK
      BY DEF IInv
    <3>6. /\ OneFate'
          /\ \A q \in Places \ {Queue} : \A i : HasFate(q, i)' <=> HasFate(q, i)
          /\ \A i : HasFate(Queue, i)' <=> HasFate(Queue, i) \/ i \in A \cup A \cup A \cup H
      BY <3>3, <3>4, <3>5, Fates
    <3> QED
      BY <3>1, <3>2, <3>6
  <2>8. StateOK'
    BY <1>1, <2>1, <2>2, <2>6 DEF IInv, StateOK
  <2>9. InOrder'
    BY <1>1, <2>1, <2>2 DEF IInv, InOrder, Increasing
  <2>10. FatesIssued'
    <3> SUFFICES ASSUME NEW q \in Places, NEW i, HasFate(q, i)' PROVE i \in 1 .. issued
      BY <1>1 DEF FatesIssued
    <3>1. HasFate(q, i) \/ i = e
      BY <2>7
    <3> QED
      BY <2>3, <3>1 DEF IInv, FatesIssued
  <2>11. DeliveredInOrder'
    <3>1. \A g \in Groups : g \in Places \ {Queue}
      BY PlacesAssumption DEF Places
    <3> QED
      BY <1>1, <2>7, <3>1 DEF IInv, DeliveredInOrder
  <2>12. PoppedInOrder'
    <3> SUFFICES ASSUME NEW i \in Range(Front(list)), NEW j \in Items,
                        HasFate(Queue, j) \/ j = e
                 PROVE  j < i
      BY <2>1, <2>7 DEF PoppedInOrder
    <3>1. i \in Range(list) /\ i > e
      BY <2>2, <2>3
    <3>2. CASE HasFate(Queue, j)
      BY <3>1, <3>2 DEF IInv, PoppedInOrder
    <3>3. CASE j = e
      BY <3>1, <3>3
    <3> QED
      BY <3>2, <3>3
  <2>13. PendingKnown'
    <3>1. \A k \in Handlers, g \in Groups : TodoOf(handler'[k], g) = TodoOf(handler[k], g)
      BY <1>2, <2>5, <2>6
    <3> QED
      BY <1>1, <3>1, PendingStays DEF IInv
  <2>14. WaitersOK'
    <3>1. blocked = <<>>
      BY <1>3 DEF IInv, WaitersOK
    <3>2. Range(blocked) = {k \in Handlers : handler'[k] = Popping}
      BY <1>2, <2>5, <2>6 DEF IInv, WaitersOK
    <3> QED
      BY <2>1, <3>1, <3>2 DEF IInv, WaitersOK
  <2>15. InHandOK'
    BY <2>5, <2>6 DEF IInv, InHandOK
  <2> QED
    BY <2>7, <2>8, <2>9, <2>10, <2>11, <2>12, <2>13, <2>14, <2>15 DEF IInv
<1>4. CASE list = <<>>
  <2>1. /\ handler' = [handler EXCEPT ![h] = Popping]
        /\ blocked' = Append(blocked, h) /\ list' = list
    BY <1>1, <1>4
  <2>2. /\ handler'[h] = Popping
        /\ \A k \in Handlers \ {h} : handler'[k] = handler[k]
        /\ handler' \in [Handlers -> Hands]
    BY <2>1, NothingInHand DEF IInv, StateOK
  <2>3. /\ \A q : HandOf(Popping, q) = {} /\ TodoOf(Popping, q) = {}
        /\ Popping.op = "popping"
    BY NothingInHand
  <2>4. /\ \A k \in Handlers, q \in Places : HandOf(handler'[k], q) = HandOf(handler[k], q)
        /\ \A k \in Handlers, g \in Groups : TodoOf(handler'[k], g) = TodoOf(handler[k], g)
    BY <1>2, <2>2, <2>3
  <2>5. /\ OneFate'
        /\ \A q \in Places : \A i : HasFate(q, i)' <=> HasFate(q, i)
    BY <1>1, <2>4, HandsStay DEF IInv
  <2>6. InOrder' /\ FatesIssued' /\ DeliveredInOrder' /\ PoppedInOrder'
    <3>1. \A g \in Groups : group'[g].last = group[g].last
      BY <1>1
    <3> QED
      BY <1>1, <2>1, <2>5, <3>1, OrderStays
  <2>7. PendingKnown'
    BY <1>1, <2>4, PendingStays DEF IInv
  <2>8. /\ blocked' \in Seq(Handlers) /\ Range(blocked') = Range(blocked) \cup {h}
        /\ IsInjective(blocked')
    <3>1. blocked \in Seq(Handlers) /\ IsInjective(blocked) /\ h \notin Range(blocked)
      BY <1>2 DEF IInv, StateOK, WaitersOK
    <3>2. /\ Append(blocked, h) \in Seq(Handlers)
          /\ Range(Append(blocked, h)) = Range(blocked) \cup {h}
      BY <3>1, RangeAppend
    <3>3. IsInjective(Append(blocked, h))
      BY <3>1, InjectiveAppend
    <3> QED
      BY <2>1, <3>2, <3>3
  <2>9. StateOK'
    BY <1>1, <2>1, <2>2, <2>8 DEF IInv, StateOK
  <2>10. WaitersOK'
    <3>1. Range(blocked') = {k \in Handlers : handler'[k] = Popping}
      BY <2>2, <2>8 DEF IInv, WaitersOK
    <3> QED
      BY <1>4, <2>1, <2>8, <3>1 DEF WaitersOK
  <2>11. InHandOK'
    BY <2>2, <2>3 DEF IInv, InHandOK
  <2> QED
    BY <2>5, <2>6, <2>7, <2>9, <2>10, <2>11 DEF IInv
<1> QED
  BY <1>3, <1>4

LEMMA GiveUpInv ==
    ASSUME IInv, NEW h \in Handlers, GiveUp(h)
    PROVE  IInv'
<1>1. /\ handler[h] = Popping
      /\ handler' = [handler EXCEPT ![h] = Idle]
      /\ UNCHANGED <<issued, stream, group, list, raw, answered, dropped, stranded>>
  BY DEF GiveUp, outcome
<1>2. PICK p \in 1 .. Len(blocked) : blocked[p] = h /\ blocked' = RemoveAt(blocked, p)
  BY DEF GiveUp
<1>3. /\ handler'[h] = Idle
      /\ \A k \in Handlers \ {h} : handler'[k] = handler[k]
      /\ handler' \in [Handlers -> Hands]
  BY <1>1, NothingInHand DEF IInv, StateOK
<1>4. /\ \A k \in Handlers, q \in Places : HandOf(handler'[k], q) = HandOf(handler[k], q)
      /\ \A k \in Handlers, g \in Groups : TodoOf(handler'[k], g) = TodoOf(handler[k], g)
  BY <1>1, <1>3, NothingInHand
<1>5. /\ OneFate'
      /\ \A q \in Places : \A i : HasFate(q, i)' <=> HasFate(q, i)
  BY <1>1, <1>4, HandsStay DEF IInv
<1>6. InOrder' /\ FatesIssued' /\ DeliveredInOrder' /\ PoppedInOrder'
  <2>1. \A g \in Groups : group'[g].last = group[g].last
    BY <1>1
  <2> QED
    BY <1>1, <1>5, <2>1, OrderStays
<1>7. PendingKnown'
  BY <1>1, <1>4, PendingStays DEF IInv
<1>8. /\ blocked' \in Seq(Handlers) /\ Range(blocked') = Range(blocked) \ {h}
      /\ IsInjective(blocked') /\ (blocked' # <<>> => blocked # <<>>)
  <2>1. blocked \in Seq(Handlers) /\ IsInjective(blocked)
    BY DEF IInv, StateOK, WaitersOK
  <2>2. /\ RemoveAt(blocked, p) \in Seq(Handlers)
        /\ IsInjective(RemoveAt(blocked, p))
        /\ Range(RemoveAt(blocked, p)) = Range(blocked) \ {blocked[p]}
    BY <2>1, RemovedAt, RangeRemoved
  <2>3. blocked # <<>>
    BY <1>2
  <2> QED
    BY <1>2, <2>2, <2>3
<1>9. StateOK'
  BY <1>1, <1>3, <1>8 DEF IInv, StateOK
<1>10. WaitersOK'
  <2>1. Idle # Popping
    BY NothingInHand
  <2>2. Range(blocked') = {k \in Handlers : handler'[k] = Popping}
    BY <1>3, <1>8, <2>1 DEF IInv, WaitersOK
  <2> QED
    BY <1>1, <1>8, <2>2 DEF IInv, WaitersOK
<1>11. InHandOK'
  <2>1. Idle.op # "acking"
    BY NothingInHand
  <2> QED
    BY <1>3, <2>1 DEF IInv, InHandOK
<1> QED
  BY <1>5, <1>6, <1>7, <1>9, <1>10, <1>11 DEF IInv

(* A pop ends: its job is answered (A) or gone (D). *)
LEMMA PopEnds ==
    ASSUME IInv, NEW h \in Handlers, handler[h].op = "popped",
           NEW A \in SUBSET Items, NEW D \in SUBSET Items,
           A \cap D = {}, A \cup D = {handler[h].job},
           answered' = answered \cup In(Queue, A),
           dropped' = dropped \cup In(Queue, D),
           handler' = [handler EXCEPT ![h] = Idle],
           UNCHANGED <<issued, stream, group, list, raw, blocked, stranded>>
    PROVE  IInv'
<1>1. PICK e \in Items : e = handler[h].job /\ handler[h] = Popped(e)
  BY HandFields DEF IInv, StateOK
<1>2. /\ HandOf(handler[h], Queue) = {e}
      /\ \A q \in Groups : HandOf(handler[h], q) = {}
      /\ \A k : TodoOf(handler[h], k) = {}
      /\ handler[h] # Popping
  BY <1>1, JobInHand
<1>3. /\ handler'[h] = Idle
      /\ \A k \in Handlers \ {h} : handler'[k] = handler[k]
      /\ handler' \in [Handlers -> Hands]
  BY NothingInHand DEF IInv, StateOK
<1>4. /\ \A q : HandOf(Idle, q) = {} /\ TodoOf(Idle, q) = {}
      /\ Idle # Popping /\ Idle.op # "acking"
  BY NothingInHand
<1>5. Queue \in Places /\ \A q \in Places \ {Queue} : q \in Groups
  BY DEF Places
<1>6. PICK S \in SUBSET Items : S = {} /\ stranded' = stranded \cup In(Queue, S)
  BY InNothing
<1>7. Settles(h, Queue, A, D, S, S)
  BY <1>1, <1>2, <1>3, <1>4, <1>5, <1>6 DEF Settles
<1>8. OneFate /\ StateOK
  BY DEF IInv
<1>9. /\ OneFate'
      /\ answered' \subseteq Places \X Items
      /\ dropped' \subseteq Places \X Items
      /\ stranded' \subseteq Groups \X Items
      /\ \A q \in Places \ {Queue} : \A i : HasFate(q, i)' <=> HasFate(q, i)
      /\ \A i : HasFate(Queue, i)' <=> HasFate(Queue, i) \/ i \in A \cup D \cup S \cup S
  BY <1>5, <1>7, <1>8, Fates
<1>10. \A q \in Places : \A i : HasFate(q, i)' <=> HasFate(q, i)
  <2>1. \A i : i \in A \cup D \cup S \cup S => HasFate(Queue, i)
    BY <1>1, <1>2, <1>6 DEF HasFate
  <2> QED
    BY <1>9, <2>1
<1>11. InOrder' /\ FatesIssued' /\ DeliveredInOrder' /\ PoppedInOrder'
  <2>1. \A g \in Groups : group'[g].last = group[g].last
    OBVIOUS
  <2> QED
    BY <1>10, <2>1, OrderStays
<1>12. PendingKnown'
  <2>1. \A k \in Handlers, g \in Groups : TodoOf(handler'[k], g) = TodoOf(handler[k], g)
    BY <1>2, <1>3, <1>4
  <2> QED
    BY <2>1, PendingStays DEF IInv
<1>13. StateOK'
  BY <1>3, <1>9 DEF IInv, StateOK
<1>14. WaitersOK' /\ InHandOK'
  BY <1>2, <1>3, <1>4 DEF IInv, WaitersOK, InHandOK
<1> QED
  BY <1>9, <1>11, <1>12, <1>13, <1>14 DEF IInv


LEMMA AnswerPopInv ==
    ASSUME IInv, NEW h \in Handlers, AnswerPop(h)
    PROVE  IInv'
<1>1. /\ handler[h].op = "popped"
      /\ answered' = answered \cup In(Queue, {handler[h].job})
      /\ handler' = [handler EXCEPT ![h] = Idle]
      /\ UNCHANGED <<issued, stream, group, list, raw, blocked, dropped, stranded>>
  BY DEF AnswerPop, server
<1>2. handler[h].job \in Items
  BY <1>1, HandFields DEF IInv, StateOK
<1>3. PICK A \in SUBSET Items, D \in SUBSET Items : A = {handler[h].job} /\ D = {}
  BY <1>2
<1>4. /\ A \cap D = {} /\ A \cup D = {handler[h].job}
      /\ answered' = answered \cup In(Queue, A)
      /\ dropped' = dropped \cup In(Queue, D)
  BY <1>1, <1>3, InNothing
<1> QED
  BY <1>1, <1>4, PopEnds

LEMMA PopFailsInv ==
    ASSUME IInv, NEW h \in Handlers, PopFails(h)
    PROVE  IInv'
<1>1. /\ handler[h].op = "popped"
      /\ dropped' = dropped \cup In(Queue, {handler[h].job})
      /\ handler' = [handler EXCEPT ![h] = Idle]
      /\ UNCHANGED <<issued, stream, group, list, raw, blocked, answered, stranded>>
  BY DEF PopFails, server
<1>2. handler[h].job \in Items
  BY <1>1, HandFields DEF IInv, StateOK
<1>3. PICK A \in SUBSET Items, D \in SUBSET Items : A = {} /\ D = {handler[h].job}
  BY <1>2
<1>4. /\ A \cap D = {} /\ A \cup D = {handler[h].job}
      /\ answered' = answered \cup In(Queue, A)
      /\ dropped' = dropped \cup In(Queue, D)
  BY <1>1, <1>3, InNothing
<1> QED
  BY <1>1, <1>4, PopEnds

-----------------------------------------------------------------------------
(* The theorems. *)

LEMMA StutterInv == IInv /\ UNCHANGED workVars => IInv'
<1> SUFFICES ASSUME IInv, UNCHANGED workVars PROVE IInv'
  OBVIOUS
<1>1. UNCHANGED <<issued, stream, group, list, raw, blocked, handler, answered,
                  dropped, stranded>>
  BY DEF workVars
<1>2. StateOK' /\ InOrder' /\ WaitersOK' /\ InHandOK'
  BY <1>1 DEF IInv, StateOK, InOrder, Increasing, Decreasing, WaitersOK, InHandOK
<1>3. OneFate' /\ \A q, i : HasFate(q, i)' <=> HasFate(q, i)
  BY <1>1, FatesStay DEF IInv
<1>4. FatesIssued' /\ DeliveredInOrder' /\ PoppedInOrder'
  BY <1>1, <1>3 DEF IInv, FatesIssued, DeliveredInOrder, PoppedInOrder
<1>5. PendingKnown'
  BY <1>1, PendingStays DEF IInv
<1> QED
  BY <1>2, <1>3, <1>4, <1>5 DEF IInv

LEMMA NextInv == IInv /\ WorkNext => IInv'
<1> SUFFICES ASSUME IInv, WorkNext PROVE IInv'
  OBVIOUS
<1>1. CASE stream_add
  BY <1>1, StreamAddInv
<1>2. ASSUME NEW g \in Groups, stream_create_group(g) PROVE IInv'
  BY <1>2, CreateGroupInv
<1>3. ASSUME NEW h \in Handlers, NEW g \in Groups, stream_read_group(h, g) PROVE IInv'
  BY <1>3, ReadGroupInv
<1>4. ASSUME NEW h \in Handlers, NEW g \in Groups, ReadReplyLost(h, g) PROVE IInv'
  BY <1>4, ReadReplyLostInv
<1>5. ASSUME NEW h \in Handlers, AckEntry(h) PROVE IInv'
  BY <1>5, AckEntryInv
<1>6. ASSUME NEW h \in Handlers, AckFails(h) PROVE IInv'
  BY <1>6, AckFailsInv
<1>7. ASSUME NEW h \in Handlers, AnswerRead(h) PROVE IInv'
  BY <1>7, AnswerReadInv
<1>8. CASE DeleteStream
  BY <1>8, DeleteStreamInv
<1>9. CASE queue_push
  <2>1. /\ issued < MaxItems /\ issued' = issued + 1 /\ Push(issued + 1)
        /\ raw' \in SUBSET (raw \cup {issued + 1})
        /\ UNCHANGED <<stream, group, answered, dropped, stranded>>
    BY <1>9 DEF queue_push, outcome
  <2> QED
    BY <2>1, PushInv
<1>10. CASE list_push
  <2>1. /\ issued < MaxItems /\ issued' = issued + 1 /\ Push(issued + 1)
        /\ raw' \in SUBSET (raw \cup {issued + 1})
        /\ UNCHANGED <<stream, group, answered, dropped, stranded>>
    BY <1>10 DEF list_push, outcome
  <2> QED
    BY <2>1, PushInv
<1>11. ASSUME NEW h \in Handlers, queue_pop(h) PROVE IInv'
  BY <1>11, QueuePopInv
<1>12. ASSUME NEW h \in Handlers, GiveUp(h) PROVE IInv'
  BY <1>12, GiveUpInv
<1>13. ASSUME NEW h \in Handlers, AnswerPop(h) PROVE IInv'
  BY <1>13, AnswerPopInv
<1>14. ASSUME NEW h \in Handlers, PopFails(h) PROVE IInv'
  BY <1>14, PopFailsInv
<1>15. CASE DeleteList
  BY <1>15, DeleteListInv
<1> QED
  BY <1>1, <1>2, <1>3, <1>4, <1>5, <1>6, <1>7, <1>8, <1>9, <1>10, <1>11, <1>12, <1>13,
     <1>14, <1>15 DEF WorkNext

(* The conjunction above holds in every reachable state. *)
THEOREM Invariance == WorkSpec => []IInv
<1>1. IInv /\ [WorkNext]_workVars => IInv'
  BY NextInv, StutterInv
<1> QED
  BY InitInv, <1>1, PTL DEF WorkSpec

LEMMA TakenItems ==
    ASSUME StateOK, NEW place \in Places, NEW h \in Handlers
    PROVE  HandOf(handler[h], place) \subseteq Items
<1>1. handler[h] \in Hands
  BY DEF StateOK
<1>2. CASE place = Queue
  BY <1>1, <1>2, HandFields DEF HandOf
<1>3. CASE place \in Groups
  BY <1>1, <1>3, ItemsInHand
<1> QED
  BY <1>2, <1>3 DEF Places

LEMMA HandedOutIsFate ==
    ASSUME StateOK, NEW place \in Places, NEW i
    PROVE  i \in HandedOut(place) <=> HasFate(place, i)
<1>1. i \in At(answered \cup dropped \cup stranded, place) <=> Outcome(place, i)
  <2>1. Outcome(place, i) => i \in Items
    BY DEF Outcome, StateOK
  <2> QED
    BY <2>1 DEF At, Outcome
<1>2. i \in UNION {TakenBy(h, place) : h \in Handlers} <=>
         \E h \in Handlers : i \in HandOf(handler[h], place)
  BY HandIsTaken
<1> QED
  BY <1>1, <1>2 DEF HandedOut, HasFate

(* Types, and what the server knows of the waiting clients is what waits. *)
THEOREM TypesHold == WorkSpec => []WorkTypeOK
<1>1. IInv => WorkTypeOK
  <2> SUFFICES ASSUME IInv PROVE WorkTypeOK
    OBVIOUS
  <2>1. ASSUME NEW g \in Groups
        PROVE  /\ group[g].made \in BOOLEAN /\ group[g].last \in 0 .. issued
               /\ group[g].pending \subseteq 1 .. group[g].last
    <3>1. /\ group[g].made \in BOOLEAN /\ group[g].last \in 0 .. issued
          /\ group[g].pending \in SUBSET Items /\ group[g].last \in Nat
      BY GroupFields DEF IInv
    <3>2. ASSUME NEW i \in group[g].pending PROVE i \in 1 .. group[g].last
      <4>1. /\ i \in Items /\ i \in Range(stream)
            /\ \/ <<g, i>> \in stranded
               \/ \E h \in Handlers : i \in TodoOf(handler[h], g)
        BY <3>1 DEF IInv, PendingKnown
      <4>2. HasFate(g, i)
        BY <4>1, ItemsInHand DEF HasFate, Outcome, IInv, StateOK
      <4>3. i <= group[g].last
        BY <4>1, <4>2 DEF IInv, DeliveredInOrder
      <4> QED
        BY <3>1, <4>1, <4>3, WorkAssumption DEF Items
    <3> QED
      BY <3>1, <3>2
  <2>2. ASSUME NEW h \in Handlers
        PROVE  \/ handler[h] \in {Idle, Popping}
               \/ \E i \in Items : handler[h] = Popped(i)
               \/ /\ handler[h].op = "acking"
                  /\ handler[h].group \in Groups
                  /\ Len(handler[h].todo) + Len(handler[h].acked) \in 1 .. Count
    <3>1. handler[h] \in Hands
      BY DEF IInv, StateOK
    <3> QED
      BY <3>1, HandFields DEF IInv, InHandOK
  <2> QED
    BY <2>1, <2>2 DEF IInv, StateOK, WaitersOK, WorkTypeOK
<1> QED
  BY <1>1, Invariance, PTL

Unsettled(g) ==
    UNION {Range(handler[h].todo) :
             h \in {k \in Handlers : /\ handler[k].op = "acking"
                                     /\ handler[k].group = g}}

(* Every entry and every job that is taken has one fate, and what a group has
   taken and not settled is pending there, whatever fails in between. *)
THEOREM TakenOnce == WorkSpec => []TakenIsAccounted
<1>1. IInv => TakenIsAccounted
  <2> SUFFICES ASSUME IInv PROVE TakenIsAccounted
    OBVIOUS
  <2>1. answered \cap (dropped \cup stranded) = {} /\ dropped \cap stranded = {}
    <3>1. /\ answered \subseteq Places \X Items
          /\ dropped \subseteq Places \X Items
          /\ stranded \subseteq Groups \X Items
      BY DEF IInv, StateOK
    <3>2. \A p \in Places, i \in Items :
             /\ <<p, i>> \in answered => <<p, i>> \notin dropped \cup stranded
             /\ <<p, i>> \in dropped => <<p, i>> \notin stranded
      BY DEF IInv, OneFate
    <3> QED
      BY <3>1, <3>2
  <2>2. ASSUME NEW place \in Places, NEW h \in Handlers
        PROVE  /\ TakenBy(h, place)
                     \cap At(answered \cup dropped \cup stranded, place) = {}
               /\ \A k \in Handlers \ {h} :
                     TakenBy(h, place) \cap TakenBy(k, place) = {}
    <3>1. \A i \in HandOf(handler[h], place) :
             /\ ~Outcome(place, i)
             /\ \A k \in Handlers \ {h} : i \notin HandOf(handler[k], place)
      BY DEF IInv, OneFate
    <3> QED
      BY <3>1, HandIsTaken DEF At, Outcome
  <2>3. HandedOutOnce
    BY <2>1, <2>2 DEF HandedOutOnce
  <2>4. PendingExact
    <3> SUFFICES ASSUME NEW g \in Groups
                 PROVE  group[g].pending =
                          (Unsettled(g) \cup At(stranded, g)) \cap Range(stream)
      BY Zenon DEF PendingExact, Unsettled
    <3>1. ASSUME NEW i
          PROVE  i \in Unsettled(g) <=> \E h \in Handlers : i \in TodoOf(handler[h], g)
      BY DEF Unsettled, TodoOf
    <3>2. \A i : i \in Range(stream) => i \in Items
      <4>1. stream \in Seq(1 .. issued) /\ 1 .. issued \subseteq Items
        BY WorkAssumption DEF IInv, StateOK, Items
      <4>2. \A i \in Range(stream) : i \in 1 .. issued
        BY <4>1, RangeIn
      <4> QED
        BY <4>1, <4>2
    <3>3. \A i : i \in At(stranded, g) <=> i \in Items /\ <<g, i>> \in stranded
      BY DEF At
    <3>4. group[g].pending \in SUBSET Items
      BY GroupFields DEF IInv
    <3>5. \A i \in Items :
             i \in group[g].pending <=>
                /\ i \in Range(stream)
                /\ \/ <<g, i>> \in stranded
                   \/ \E h \in Handlers : i \in TodoOf(handler[h], g)
      BY DEF IInv, PendingKnown
    <3> QED
      BY <3>1, <3>2, <3>3, <3>4, <3>5
  <2> QED
    BY <2>3, <2>4 DEF TakenIsAccounted
<1> QED
  BY <1>1, Invariance, PTL

(* A group passes over no entry and the queue serves the oldest job first,
   through deletions of the stream, late groups and waiting pops. *)
THEOREM ServedOldestFirst == WorkSpec => []ServedInOrder
<1>1. IInv => ServedInOrder
  <2> SUFFICES ASSUME IInv PROVE ServedInOrder
    OBVIOUS
  <2>1. NoneSkipped
    BY HandedOutIsFate DEF NoneSkipped, IInv, DeliveredInOrder, Places
  <2>2. OldestFirst
    <3> SUFFICES ASSUME NEW i \in Range(list), NEW j \in HandedOut(Queue) PROVE j < i
      BY DEF OldestFirst
    <3>1. Queue \in Places /\ HasFate(Queue, j)
      BY HandedOutIsFate DEF IInv, Places
    <3>2. j \in Items
      BY <3>1, WorkAssumption DEF IInv, StateOK, FatesIssued, Items
    <3> QED
      BY <3>1, <3>2 DEF IInv, PoppedInOrder
  <2> QED
    BY <2>1, <2>2 DEF ServedInOrder
<1> QED
  BY <1>1, Invariance, PTL
=============================================================================
