--------------------------- MODULE RedisProofs ----------------------------
(***************************************************************************)
(* What the parts of MCRedis keep true for every value of their constants: *)
(* part by part, and at the end, with RedisWorkProofs, all of them.        *)
(***************************************************************************)
EXTENDS MCRedis, RedisWorkProofs, FiniteSetTheorems

-----------------------------------------------------------------------------
(***************************************************************************)
(* The sliding window of RateLimiter, for every number of checks, every    *)
(* set of limits and every bound on the delay of a pipeline.               *)
(***************************************************************************)
(* A check in flight read the clock at most MaxDelay ago, one that is recorded
   read it in the past. *)
LimiterTimesRead ==
    /\ \A c \in Calls : step[c] = "sent" =>
          at[c] <= now /\ now <= at[c] + MaxDelay
    /\ \A e \in recorded : at[e] <= now

(* The key outlives the shortest window of each of its members. *)
ExpiryCovers == \A e \in entries : at[e] + ShortestWindow <= expires

(* What was removed from the set, by whichever request and with whichever time,
   had left the shortest window. *)
ForgottenIsOld ==
    \A e \in recorded \ entries : at[e] + ShortestWindow <= now

(* WindowBound is not inductive: that a check is counted by the next one rests
   on the three facts above. *)
LimiterInv ==
    /\ LimiterTypeOK
    /\ LimiterTimesRead
    /\ ExpiryCovers
    /\ ForgottenIsOld
    /\ WindowBound
    /\ DeniedForCause

InWindow(t) == {c \in allowed : /\ t < at[c]
                                /\ at[c] <= t + ShortestWindow - MaxDelay}

USE CallsAssumption, LimitsAssumption, DelayAssumption, TimeAssumption

-----------------------------------------------------------------------------
LEMMA CallSets ==
    ASSUME NEW S, S \subseteq Calls
    PROVE  IsFiniteSet(S) /\ Cardinality(S) \in Nat
  BY FS_Subset, FS_CardinalityType

LEMMA LimitOf ==
    ASSUME LimiterTypeOK, NEW c \in Calls
    PROVE  /\ limit[c].window \in Nat /\ limit[c].max \in Nat
           /\ limit[c].window >= ShortestWindow /\ limit[c].max <= LargestMax
  BY DEF LimiterTypeOK

(* A pipeline finds every recorded check that read the clock less than the
   shortest window before now, be the key expired or not. *)
LEMMA RecentIsLive ==
    ASSUME LimiterInv, NEW e \in recorded, at[e] + ShortestWindow > now
    PROVE  e \in Live
<1>1. e \in entries /\ at[e] \in Nat /\ now \in Nat /\ expires \in Nat
  BY DEF LimiterInv, ForgottenIsOld, LimiterTypeOK
<1> QED
  BY <1>1 DEF LimiterInv, ExpiryCovers, Live

LEMMA LimiterInitIInv == LimiterInit => LimiterInv
<1> SUFFICES ASSUME LimiterInit PROVE LimiterInv
  OBVIOUS
<1>1. LimiterTypeOK
  BY DEF LimiterInit, LimiterTypeOK
<1>2. \A t \in -1 .. MaxTime : InWindow(t) = {}
  BY DEF LimiterInit, InWindow
<1>3. WindowBound
  BY <1>2, FS_EmptySet DEF WindowBound, InWindow
<1> QED
  BY <1>1, <1>3
     DEF LimiterInit, LimiterInv, LimiterTimesRead, ExpiryCovers, ForgottenIsOld, DeniedForCause

(* The first four conjuncts survive the server's part of a pipeline. *)
LEMMA RecordKeeps ==
    ASSUME LimiterInv, NEW c \in Calls, step[c] = "sent", Record(c),
           step' = [step EXCEPT ![c] = "done"],
           UNCHANGED <<now, at, limit>>
    PROVE  LimiterTimesRead' /\ ExpiryCovers' /\ ForgottenIsOld'
<1>1. /\ at \in [Calls -> Nat] /\ now \in Nat /\ expires \in Nat
      /\ recorded \subseteq Calls /\ entries \subseteq recorded
  BY DEF LimiterInv, LimiterTypeOK
<1>2. limit[c].window \in Nat /\ limit[c].window >= ShortestWindow
  BY LimitOf DEF LimiterInv
<1>3. at[c] <= now
  BY DEF LimiterInv, LimiterTimesRead
<1>4. Kept(c) \subseteq entries /\ Kept(c) \subseteq Live
  BY DEF Kept, Live
<1>5. LimiterTimesRead'
  <2>1. \A d \in Calls : step'[d] = "sent" => step[d] = "sent"
    BY DEF LimiterInv, LimiterTypeOK
  <2> QED
    BY <1>1, <1>3, <2>1 DEF LimiterInv, LimiterTimesRead, Record
<1>6. ExpiryCovers'
  <2> SUFFICES ASSUME NEW e \in entries'
               PROVE  at[e] + ShortestWindow <= expires'
    BY DEF ExpiryCovers
  <2>1. e \in recorded \/ e = c
    BY <1>1, <1>4 DEF Record
  <2>2. at[e] <= now
    BY <1>3, <2>1 DEF LimiterInv, LimiterTimesRead
  <2> QED
    BY <1>1, <1>2, <2>1, <2>2 DEF Record
<1>7. ForgottenIsOld'
  <2> SUFFICES ASSUME NEW e \in recorded, e \notin Kept(c)
               PROVE  at[e] + ShortestWindow <= now
    BY DEF ForgottenIsOld, Record
  <2>1. CASE e \notin Live
    BY <1>1, <2>1, RecentIsLive
  <2>2. CASE e \in Live
    <3>1. at[e] <= at[c] - limit[c].window
      BY <1>1, <1>2, <2>2 DEF Kept
    <3> QED
      BY <1>1, <1>2, <1>3, <3>1
  <2> QED
    BY <2>1, <2>2
<1> QED
  BY <1>5, <1>6, <1>7

(* An allowed check has seen all others of its window. *)
LEMMA AllowedKeepsBound ==
    ASSUME LimiterInv, NEW c \in Calls, step[c] = "sent", Allowed(c),
           allowed' = allowed \cup {c}, UNCHANGED at
    PROVE  WindowBound'
<1> SUFFICES ASSUME NEW t \in -1 .. MaxTime
             PROVE  Cardinality(InWindow(t)') <= LargestMax
  BY DEF WindowBound, InWindow
<1>1. /\ at \in [Calls -> Nat] /\ now \in Nat
      /\ recorded \subseteq Calls /\ allowed \subseteq recorded
  BY DEF LimiterInv, LimiterTypeOK
<1>2. /\ limit[c].window \in Nat /\ limit[c].max \in Nat
      /\ limit[c].window >= ShortestWindow /\ limit[c].max <= LargestMax
  BY LimitOf DEF LimiterInv
<1>3. at[c] <= now /\ now <= at[c] + MaxDelay
  BY DEF LimiterInv, LimiterTimesRead
<1>4. CASE ~(t < at[c] /\ at[c] <= t + ShortestWindow - MaxDelay)
  <2>1. InWindow(t)' = InWindow(t)
    BY <1>4 DEF InWindow
  <2> QED
    BY <2>1 DEF LimiterInv, WindowBound, InWindow
<1>5. CASE t < at[c] /\ at[c] <= t + ShortestWindow - MaxDelay
  <2>1. InWindow(t) \subseteq Kept(c)
    <3> SUFFICES ASSUME NEW e \in InWindow(t)
                 PROVE  e \in Live /\ at[e] > at[c] - limit[c].window
      BY DEF Kept
    <3>1. e \in recorded /\ at[e] \in Nat /\ t < at[e]
      BY <1>1 DEF InWindow
    <3>2. at[e] + ShortestWindow > now
      BY <1>1, <1>3, <1>5, <3>1
    <3>3. e \in Live
      BY <3>1, <3>2, RecentIsLive
    <3> QED
      BY <1>1, <1>2, <1>5, <3>1, <3>3
  <2>2. Kept(c) \subseteq Calls
    BY DEF LimiterInv, LimiterTypeOK, Kept, Live
  <2>3. /\ Cardinality(Kept(c)) \in Nat
        /\ IsFiniteSet(Kept(c)) /\ IsFiniteSet(InWindow(t))
        /\ Cardinality(InWindow(t)) \in Nat
    BY <2>1, <2>2, CallSets
  <2>4. Cardinality(InWindow(t)) <= Cardinality(Kept(c))
    BY <2>1, <2>3, FS_Subset
  <2>5. InWindow(t)' = InWindow(t) \cup {c}
    BY <1>5 DEF InWindow
  <2>6. \/ Cardinality(InWindow(t) \cup {c}) = Cardinality(InWindow(t))
        \/ Cardinality(InWindow(t) \cup {c}) = Cardinality(InWindow(t)) + 1
    BY <2>3, FS_AddElement
  <2>7. Cardinality(InWindow(t)') <= Cardinality(InWindow(t)) + 1
    BY <2>3, <2>5, <2>6
  <2>8. Cardinality(Kept(c)) + 1 <= limit[c].max
    BY <1>2, <2>3 DEF Allowed
  <2>9. Cardinality(InWindow(t)') \in Nat
    BY <2>3, <2>5, <2>6
  <2> QED
    BY <1>2, <2>3, <2>4, <2>7, <2>8, <2>9
<1> QED
  BY <1>4, <1>5

(* A check once denied keeps its cause: records only grow, and the times and
   limits of recorded checks do not change. *)
LEMMA CauseStays ==
    ASSUME LimiterInv, recorded \subseteq recorded', recorded' \subseteq Calls,
           UNCHANGED limit, \A e \in recorded : at'[e] = at[e],
           NEW c \in denied
    PROVE  Cardinality({e \in recorded' \ {c} :
                          at'[e] > at'[c] - limit'[c].window})
             >= limit'[c].max
<1> DEFINE Before == {e \in recorded \ {c} : at[e] > at[c] - limit[c].window}
           After == {e \in recorded' \ {c} :
                       at'[e] > at'[c] - limit'[c].window}
<1>1. c \in recorded /\ c \in Calls
  BY DEF LimiterInv, LimiterTypeOK
<1>2. Before \subseteq After
  BY <1>1
<1>3. IsFiniteSet(After) /\ Cardinality(After) \in Nat
  <2>1. After \subseteq Calls
    OBVIOUS
  <2> QED
    BY <2>1, CallSets
<1>4. Cardinality(Before) <= Cardinality(After) /\ Cardinality(Before) \in Nat
  BY <1>2, <1>3, FS_Subset, FS_CardinalityType
<1>5. Cardinality(Before) >= limit[c].max
  BY DEF LimiterInv, DeniedForCause
<1> QED
  BY <1>1, <1>3, <1>4, <1>5, LimitOf DEF LimiterInv

(* A check that is denied now has its cause in what it counted. *)
LEMMA DeniedHasCause ==
    ASSUME LimiterInv, NEW c \in Calls, step[c] = "sent", ~Allowed(c)
    PROVE  Cardinality({e \in (recorded \cup {c}) \ {c} :
                          at[e] > at[c] - limit[c].window}) >= limit[c].max
<1> DEFINE Cause == {e \in (recorded \cup {c}) \ {c} :
                       at[e] > at[c] - limit[c].window}
<1>1. c \notin recorded /\ recorded \subseteq Calls
  BY DEF LimiterInv, LimiterTypeOK
<1>2. Kept(c) \subseteq Cause
  BY <1>1 DEF LimiterInv, LimiterTypeOK, Kept, Live
<1>3. IsFiniteSet(Cause) /\ Cardinality(Cause) \in Nat
  <2>1. Cause \subseteq Calls
    BY <1>1
  <2> QED
    BY <2>1, CallSets
<1>4. Cardinality(Kept(c)) <= Cardinality(Cause) /\ Cardinality(Kept(c)) \in Nat
  BY <1>2, <1>3, FS_Subset, FS_CardinalityType
<1> QED
  BY <1>3, <1>4, LimitOf DEF Allowed, LimiterInv

-----------------------------------------------------------------------------
LEMMA LimiterNextIInv == LimiterInv /\ [LimiterNext]_limiterVars => LimiterInv'
<1> SUFFICES ASSUME LimiterInv, [LimiterNext]_limiterVars PROVE LimiterInv'
  OBVIOUS
<1> USE DEF LimiterInv
<1>0. /\ at \in [Calls -> 0 .. MaxTime] /\ now \in 0 .. MaxTime
      /\ recorded \subseteq Calls /\ expires \in Nat
      /\ step \in [Calls -> {"new", "sent", "done"}]
  BY DEF LimiterTypeOK
<1>1. CASE Tick
  <2>1. LimiterTypeOK'
    BY <1>1 DEF Tick, LimiterTypeOK
  <2>2. LimiterTimesRead'
    BY <1>0, <1>1 DEF Tick, LimiterTimesRead
  <2>3. ExpiryCovers' /\ ForgottenIsOld'
    BY <1>0, <1>1 DEF Tick, ExpiryCovers, ForgottenIsOld
  <2>4. WindowBound' /\ DeniedForCause'
    BY <1>1 DEF Tick, WindowBound, DeniedForCause
  <2> QED
    BY <2>1, <2>2, <2>3, <2>4
<1>2. ASSUME NEW c \in Calls, Check(c) PROVE LimiterInv'
  <2>1. LimiterTypeOK'
    BY <1>2 DEF Check, LimiterTypeOK
  <2>2. \A e \in recorded : at'[e] = at[e]
    BY <1>2 DEF Check, LimiterTypeOK
  <2>3. LimiterTimesRead'
    BY <1>0, <1>2, <2>2 DEF Check, LimiterTimesRead
  <2>4. ExpiryCovers' /\ ForgottenIsOld'
    BY <1>2, <2>2 DEF Check, ExpiryCovers, ForgottenIsOld, LimiterTypeOK
  <2>5. WindowBound'
    <3>1. \A t \in -1 .. MaxTime : InWindow(t)' = InWindow(t)
      BY <1>2, <2>2 DEF Check, InWindow, LimiterTypeOK
    <3> QED
      BY <3>1 DEF WindowBound, InWindow
  <2>6. DeniedForCause'
    BY <1>0, <1>2, <2>2, CauseStays DEF Check, DeniedForCause
  <2> QED
    BY <2>1, <2>3, <2>4, <2>5, <2>6
<1>3. ASSUME NEW c \in Calls, Execute(c) PROVE LimiterInv'
  <2>1. LimiterTypeOK'
    BY <1>3, LimitOf DEF Execute, Record, Kept, Live, LimiterTypeOK
  <2>2. LimiterTimesRead' /\ ExpiryCovers' /\ ForgottenIsOld'
    BY <1>3, RecordKeeps DEF Execute
  <2>3. CASE Allowed(c)
    <3>1. WindowBound'
      BY <1>3, <2>3, AllowedKeepsBound DEF Execute
    <3>2. DeniedForCause'
      BY <1>0, <1>3, <2>3, CauseStays DEF Execute, Record, DeniedForCause
    <3> QED
      BY <2>1, <2>2, <3>1, <3>2
  <2>4. CASE ~Allowed(c)
    <3>1. WindowBound'
      BY <1>3, <2>4 DEF Execute, WindowBound
    <3>2. DeniedForCause'
      BY <1>0, <1>3, <2>4, CauseStays, DeniedHasCause
         DEF Execute, Record, DeniedForCause
    <3> QED
      BY <2>1, <2>2, <3>1, <3>2
  <2> QED
    BY <2>3, <2>4
<1>4. ASSUME NEW c \in Calls, Fail(c) PROVE LimiterInv'
  <2>1. LimiterTypeOK'
    BY <1>4, LimitOf DEF Fail, Record, Kept, Live, LimiterTypeOK
  <2>2. LimiterTimesRead' /\ ExpiryCovers' /\ ForgottenIsOld'
    <3>1. CASE Record(c)
      BY <1>4, <3>1, RecordKeeps DEF Fail
    <3>2. CASE UNCHANGED <<entries, expires, recorded>>
      BY <1>0, <1>4, <3>2
         DEF Fail, LimiterTimesRead, ExpiryCovers, ForgottenIsOld
    <3> QED
      BY <1>4, <3>1, <3>2 DEF Fail
  <2>3. WindowBound'
    BY <1>4 DEF Fail, WindowBound
  <2>4. DeniedForCause'
    BY <1>0, <1>4, CauseStays DEF Fail, Record, DeniedForCause
  <2> QED
    BY <2>1, <2>2, <2>3, <2>4
<1>5. CASE UNCHANGED limiterVars
  BY <1>5 DEF limiterVars, LimiterTypeOK, LimiterTimesRead, ExpiryCovers, ForgottenIsOld,
              WindowBound, DeniedForCause
<1> QED
  BY <1>1, <1>2, <1>3, <1>4, <1>5 DEF LimiterNext

(* The inductive invariant holds in every reachable state. *)
THEOREM LimiterInvariance == LimiterSpec => []LimiterInv
  BY LimiterInitIInv, LimiterNextIInv, PTL DEF LimiterSpec

(* The variables keep their types: only finished checks are recorded, and every
   check that was answered is (the code answers after EXEC). *)
THEOREM LimiterTypes == LimiterSpec => []LimiterTypeOK
<1>1. LimiterInv => LimiterTypeOK
  BY DEF LimiterInv
<1> QED
  BY <1>1, LimiterInvariance, PTL

(* rate_limit_check lets at most LargestMax checks through that read the clock
   within ShortestWindow - MaxDelay, whatever overtakes what. *)
THEOREM WindowAlwaysBounded == LimiterSpec => []WindowBound
<1>1. LimiterInv => WindowBound
  BY DEF LimiterInv
<1> QED
  BY <1>1, LimiterInvariance, PTL

(* rate_limit_check denies a check only when max_requests others were recorded
   in its window. *)
THEOREM DeniedAlwaysForCause == LimiterSpec => []DeniedForCause
<1>1. LimiterInv => DeniedForCause
  BY DEF LimiterInv
<1> QED
  BY <1>1, LimiterInvariance, PTL

-----------------------------------------------------------------------------
(***************************************************************************)
(* What is proved about StockSale: for any stock, any number of sales of   *)
(* any quantities, and any number of requests refused or raised, sales     *)
(* that are made one at a time match the stock (SalesMatchStock).          *)
(*                                                                         *)
(* The property is not inductive: what SetStock writes was read before.    *)
(* So the invariant says what the sale in progress knows (SaleFresh), why it   *)
(* is the only one (SaleAlone), and that one that raised was the last          *)
(* (NoneAfterRaised).                                                      *)
(***************************************************************************)
SaleNumbers == 1 .. Sales

SaleWorking(s) == sale[s] \in {"acquire", "get", "set"}

SaleInv ==
    /\ quantity \in [SaleNumbers -> 1 .. 2]
    /\ stock \in Nat \cup {Gone}
    /\ begun \in 0 .. Sales
    /\ sale \in [SaleNumbers -> {"waits", "acquire", "get", "set", "release"} \cup Ends]
    /\ result \in [SaleNumbers -> {"none"} \cup Ends]
    /\ current \in [SaleNumbers -> Nat]
    /\ sold \in Nat

\* Sales begin in order, and there is at most one in progress.
SaleAlone ==
    /\ \A s \in SaleNumbers : s > begun => sale[s] = "waits" /\ result[s] = "none"
    /\ \A s, t \in SaleNumbers : InProgress(s) /\ InProgress(t) => s = t

\* A sale that raises releases the lock and ends; none is at work then.
NoneAfterRaised ==
    /\ \A s \in SaleNumbers : result[s] = "raised" => sale[s] \in {"release", "raised"}
    /\ \A s \in SaleNumbers : sale[s] = "release" => result[s] # "none"
    /\ \A s, t \in SaleNumbers : Raised(s) => ~SaleWorking(t)

\* What a sale is about to set is computed from what is left.
SaleFresh ==
    \A s \in SaleNumbers : sale[s] = "set" =>
        current[s] = Stock - sold /\ quantity[s] <= current[s]

SaleIInv == SaleInv /\ SaleAlone /\ NoneAfterRaised /\ SaleFresh /\ SalesMatchStock

-----------------------------------------------------------------------------
(* With room for one sale, none is in progress when another begins. *)
LEMMA NoneInProgress ==
    ASSUME AtOnce = 1, SaleIInv,
           Cardinality({s \in 1 .. begun : InProgress(s)}) < AtOnce
    PROVE  \A s \in SaleNumbers : ~InProgress(s)
<1> DEFINE P == {s \in 1 .. begun : InProgress(s)}
<1>1. IsFiniteSet(P)
  <2>1. begun \in Nat
    BY DEF SaleIInv, SaleInv
  <2>2. IsFiniteSet(1 .. begun)
    BY <2>1, FS_Interval
  <2>. QED
    BY <2>2, FS_Subset
<1>2. Cardinality(P) = 0
  BY <1>1, FS_CardinalityType
<1>3. P = {}
  BY <1>1, <1>2, FS_EmptySet
<1>4. ASSUME NEW s \in SaleNumbers, InProgress(s) PROVE s <= begun
  BY <1>4 DEF SaleIInv, SaleInv, SaleAlone, InProgress, SaleNumbers
<1>. QED
  BY <1>3, <1>4 DEF SaleNumbers

LEMMA ConstantsAreNat == Stock \in Nat /\ Sales \in Nat /\ MaxRetries \in Nat
BY SaleAssumption

LEMMA SaleBounds == SaleIInv => begun \in Int /\ SaleNumbers \subseteq Int
BY ConstantsAreNat DEF SaleIInv, SaleInv, SaleNumbers

LEMMA HasBegun ==
    ASSUME SaleIInv, NEW s \in SaleNumbers, sale[s] # "waits" PROVE s <= begun
<1>1. s > begun => sale[s] = "waits"
  BY DEF SaleIInv, SaleAlone
<1>. QED
  BY <1>1, SaleBounds

(* A step that raises nothing and leaves the stock alone. *)
LEMMA KeepsMatching ==
    ASSUME SalesMatchStock, stock' \in {stock, Gone}, UNCHANGED <<quantity, sold>>,
           \A s \in SaleNumbers : Raised(s) => Raised(s)'
    PROVE  SalesMatchStock'
<1> SUFFICES ASSUME stock' # Gone, stock' # Stock - sold'
             PROVE  \E s \in SaleNumbers : Raised(s)' /\ stock' = Stock - sold' - quantity'[s]
  BY DEF SalesMatchStock, SaleNumbers
<1>1. PICK s \in SaleNumbers : Raised(s) /\ stock = Stock - sold - quantity[s]
  BY DEF SalesMatchStock, SaleNumbers
<1>. QED
  BY <1>1

LEMMA SaleInitIInv == SaleInit => SaleIInv
<1> SUFFICES ASSUME SaleInit PROVE SaleIInv
  OBVIOUS
<1>1. SaleInv
  BY ConstantsAreNat DEF SaleInit, SaleInv, Ends, SaleNumbers
<1>2. \A s \in SaleNumbers : sale[s] = "waits" /\ result[s] = "none"
  BY DEF SaleInit, SaleNumbers
<1>3. \A s \in SaleNumbers : ~InProgress(s) /\ ~SaleWorking(s) /\ ~Raised(s)
  BY <1>2 DEF InProgress, SaleWorking, Raised
<1>4. SaleAlone /\ NoneAfterRaised /\ SaleFresh
  BY <1>2, <1>3 DEF SaleAlone, NoneAfterRaised, SaleFresh
<1>5. SalesMatchStock
  BY ConstantsAreNat DEF SaleInit, SalesMatchStock
<1>. QED
  BY <1>1, <1>4, <1>5 DEF SaleIInv

(* A sale that begins is the only one, and follows none that raised. *)
LEMMA BeginStep ==
    ASSUME AtOnce = 1, SaleIInv, BeginSale PROVE SaleIInv'
<1> DEFINE n == begun + 1
<1>1. \A s \in SaleNumbers : ~InProgress(s)
  BY NoneInProgress DEF BeginSale
<1>2. /\ n \in SaleNumbers
      /\ begun' = n
      /\ sale' = [sale EXCEPT ![n] = IF withLock THEN "acquire" ELSE "get"]
  BY ConstantsAreNat DEF SaleIInv, SaleInv, BeginSale, SaleNumbers
<1> HIDE DEF n
<1>3. UNCHANGED <<quantity, stock, result, current, sold>>
  BY DEF BeginSale, chosen
<1>4. \A s \in SaleNumbers : ~Raised(s)
  BY <1>1 DEF BeginSale, SaleIInv, NoneAfterRaised, Raised, InProgress, SaleNumbers
<1>5. SaleInv'
  BY <1>2, <1>3 DEF SaleIInv, SaleInv, SaleNumbers
<1>6. SaleAlone'
  <2>1. \A s \in SaleNumbers : InProgress(s)' => s = n
    BY <1>1, <1>2 DEF SaleIInv, SaleInv, InProgress
  <2>. QED
    <3>1. ASSUME NEW t \in SaleNumbers, t > begun' PROVE t # n /\ t > begun
      BY <1>2, <3>1, SaleBounds DEF n
    <3>2. \A t \in SaleNumbers : t > begun' => sale'[t] = "waits" /\ result'[t] = "none"
      BY <1>2, <1>3, <3>1 DEF SaleIInv, SaleInv, SaleAlone
    <3>. QED
      BY <2>1, <3>2 DEF SaleAlone
<1>7. NoneAfterRaised'
  <2>1. \A s \in SaleNumbers : ~Raised(s)'
    BY <1>2, <1>3, <1>4 DEF SaleIInv, SaleInv, Raised
  <2>2. /\ result[n] # "raised"
        /\ \A s \in SaleNumbers : sale'[s] = "release" => sale[s] = "release"
    BY <1>2, <1>4 DEF SaleIInv, SaleInv, Raised
  <2>. QED
    BY <1>3, <1>4, <2>1, <2>2 DEF SaleIInv, NoneAfterRaised, Raised
<1>8. SaleFresh'
  BY <1>2, <1>3 DEF SaleIInv, SaleInv, SaleFresh
<1>9. SalesMatchStock'
  BY <1>3, <1>4 DEF SaleIInv, SalesMatchStock, SaleNumbers
<1>. QED
  BY <1>5, <1>6, <1>7, <1>8, <1>9 DEF SaleIInv

(* What keeps the sales apart when the sale in progress, s, takes a step. *)
LEMMA OnlyOneMoves ==
    ASSUME SaleIInv, NEW s \in SaleNumbers, InProgress(s), UNCHANGED begun,
           \A t \in SaleNumbers \ {s} : sale'[t] = sale[t] /\ result'[t] = result[t],
           SaleWorking(s)' => SaleWorking(s),
           result'[s] = "raised" => sale'[s] \in {"release", "raised"},
           sale'[s] = "release" => result'[s] # "none"
    PROVE  /\ SaleAlone' /\ NoneAfterRaised'
           /\ \A t \in SaleNumbers : sale'[t] = "set" => t = s
<1>1. s <= begun /\ \A t \in SaleNumbers \ {s} : ~InProgress(t)
  BY HasBegun DEF SaleIInv, SaleAlone, InProgress
<1>2. \A t \in SaleNumbers \ {s} : ~InProgress(t)' /\ ~SaleWorking(t)' /\ sale'[t] # "set"
  BY <1>1 DEF InProgress, SaleWorking
<1>3. SaleAlone'
  <2>1. \A t \in SaleNumbers : t > begun' => t # s /\ sale[t] = "waits" /\ result[t] = "none"
    BY <1>1, SaleBounds DEF SaleIInv, SaleAlone
  <2>2. \A t \in SaleNumbers : InProgress(t)' => t = s
    BY <1>2 DEF InProgress
  <2>. QED
    BY <2>1, <2>2 DEF SaleAlone
<1>4. ASSUME NEW t \in SaleNumbers, NEW u \in SaleNumbers, Raised(t)' PROVE ~SaleWorking(u)'
  <2>1. CASE u # s
    BY <2>1, <1>2 DEF SaleWorking
  <2>2. CASE u = s /\ t = s
    BY <1>4, <2>2 DEF Raised, SaleWorking
  <2>3. CASE u = s /\ t # s
    <3>1. Raised(t)
      BY <1>4, <2>3 DEF Raised
    <3>2. ~SaleWorking(s)
      BY <3>1 DEF SaleIInv, NoneAfterRaised
    <3>. QED
      BY <2>3, <3>2 DEF SaleWorking
  <2>. QED
    BY <2>1, <2>2, <2>3
<1>5. NoneAfterRaised'
  <2>1. \A t \in SaleNumbers : result'[t] = "raised" => sale'[t] \in {"release", "raised"}
    BY DEF SaleIInv, NoneAfterRaised
  <2>2. \A t \in SaleNumbers : sale'[t] = "release" => result'[t] # "none"
    BY DEF SaleIInv, NoneAfterRaised
  <2>. QED
    BY <1>4, <2>1, <2>2 DEF NoneAfterRaised
<1>. QED
  BY <1>2, <1>3, <1>5

(* The lock is nothing that the property is about. *)
LEMMA AcquireStep ==
    ASSUME SaleIInv, NEW s \in SaleNumbers, Acquire(s) PROVE SaleIInv'
<1>1. /\ sale[s] = "acquire"
      /\ UNCHANGED <<quantity, stock, begun, result, current, sold>>
  BY DEF Acquire, chosen
<1>2. PICK next \in {"acquire", "get", "no lock"} :
        sale' = [sale EXCEPT ![s] = next]
  BY <1>1 DEF Acquire
<1>3. SaleInv'
  BY <1>1, <1>2 DEF SaleIInv, SaleInv, Ends
<1>4. /\ sale'[s] = next
      /\ \A t \in SaleNumbers \ {s} : sale'[t] = sale[t]
  BY <1>2 DEF SaleIInv, SaleInv
<1>5. InProgress(s) /\ SaleWorking(s) /\ result[s] # "raised"
  BY <1>1 DEF SaleIInv, NoneAfterRaised, InProgress, SaleWorking
<1>6. SaleAlone' /\ NoneAfterRaised' /\ \A t \in SaleNumbers : sale'[t] = "set" => t = s
  BY <1>1, <1>4, <1>5, OnlyOneMoves
<1>7. SaleFresh'
  BY <1>4, <1>6 DEF SaleFresh
<1>8. \A t \in SaleNumbers : Raised(t) => Raised(t)'
  BY <1>1, <1>4 DEF Raised
<1>9. SalesMatchStock'
  BY <1>1, <1>8, KeepsMatching DEF SaleIInv
<1>. QED
  BY <1>3, <1>6, <1>7, <1>9 DEF SaleIInv

(* What is read is what is left, since no sale has raised. *)
LEMMA GetStep ==
    ASSUME SaleIInv, NEW s \in SaleNumbers, GetStock(s) PROVE SaleIInv'
<1>1. /\ sale[s] = "get"
      /\ UNCHANGED <<quantity, stock, begun, sold>>
  BY DEF GetStock, chosen
<1>2. InProgress(s) /\ SaleWorking(s) /\ result[s] # "raised"
  BY <1>1 DEF SaleIInv, NoneAfterRaised, InProgress, SaleWorking
<1>3. \A t \in SaleNumbers : ~Raised(t)
  BY <1>2 DEF SaleIInv, NoneAfterRaised
<1>4. CASE /\ Level >= quantity[s]
           /\ current' = [current EXCEPT ![s] = Level]
           /\ sale' = [sale EXCEPT ![s] = "set"]
           /\ UNCHANGED result
  <2>1. Level \in Nat /\ quantity[s] \in 1 .. 2
    BY DEF SaleIInv, SaleInv, Level
  <2>2. Level = Stock - sold
    BY <1>3, <1>4, <2>1 DEF SaleIInv, SalesMatchStock, Level, SaleNumbers
  <2>3. SaleInv'
    BY <1>1, <1>4, <2>1 DEF SaleIInv, SaleInv
  <2>4. /\ sale'[s] = "set" /\ current'[s] = Level
        /\ \A t \in SaleNumbers \ {s} : sale'[t] = sale[t]
    BY <1>4, <2>1 DEF SaleIInv, SaleInv
  <2>5. SaleAlone' /\ NoneAfterRaised' /\ \A t \in SaleNumbers : sale'[t] = "set" => t = s
    BY <1>1, <1>2, <1>4, <2>4, OnlyOneMoves
  <2>6. SaleFresh'
    BY <1>1, <1>4, <2>1, <2>2, <2>4, <2>5 DEF SaleFresh
  <2>7. \A t \in SaleNumbers : Raised(t) => Raised(t)'
    BY <1>3
  <2>8. SalesMatchStock'
    BY <1>1, <2>7, KeepsMatching DEF SaleIInv
  <2>. QED
    BY <2>3, <2>5, <2>6, <2>8 DEF SaleIInv
<1>5. CASE UNCHANGED current /\ \E end \in {"sold out", "raised"} : EndAs(s, end)
  <2>1. PICK end \in {"sold out", "raised"} : EndAs(s, end)
    BY <1>5
  <2>2. PICK next \in {"release", end} : sale' = [sale EXCEPT ![s] = next]
    BY <2>1 DEF EndAs
  <2>3. result' = [result EXCEPT ![s] = end]
    BY <2>1 DEF EndAs
  <2>4. SaleInv'
    BY <1>1, <1>5, <2>2, <2>3 DEF SaleIInv, SaleInv, Ends
  <2>5. /\ sale'[s] = next /\ result'[s] = end
        /\ \A t \in SaleNumbers \ {s} : sale'[t] = sale[t] /\ result'[t] = result[t]
    BY <2>2, <2>3 DEF SaleIInv, SaleInv
  <2>6. SaleAlone' /\ NoneAfterRaised' /\ \A t \in SaleNumbers : sale'[t] = "set" => t = s
    BY <1>1, <1>2, <2>5, OnlyOneMoves
  <2>7. SaleFresh'
    BY <2>5, <2>6 DEF SaleFresh
  <2>8. SalesMatchStock'
    BY <1>1, <1>3, KeepsMatching DEF SaleIInv
  <2>. QED
    BY <2>4, <2>6, <2>7, <2>8 DEF SaleIInv
<1>. QED
  BY <1>4, <1>5 DEF GetStock

(* What is set is what is left once the sale's pieces are taken. *)
LEMMA SetStep ==
    ASSUME SaleIInv, NEW s \in SaleNumbers, SetStock(s) PROVE SaleIInv'
<1> DEFINE rest == current[s] - quantity[s]
<1>1. /\ sale[s] = "set"
      /\ UNCHANGED <<quantity, begun, current>>
  BY DEF SetStock, chosen
<1>2. InProgress(s) /\ SaleWorking(s) /\ result[s] # "raised"
  BY <1>1 DEF SaleIInv, NoneAfterRaised, InProgress, SaleWorking
<1>3. \A t \in SaleNumbers : ~Raised(t)
  BY <1>2 DEF SaleIInv, NoneAfterRaised
<1>4. current[s] = Stock - sold /\ quantity[s] <= current[s]
  BY <1>1 DEF SaleIInv, SaleFresh
<1>5. /\ quantity[s] \in Nat /\ current[s] \in Nat /\ sold \in Nat /\ rest \in Nat
      /\ rest = Stock - sold - quantity[s] /\ rest = Stock - (sold + quantity[s])
      /\ sold + quantity[s] <= Stock
  BY <1>4, ConstantsAreNat DEF SaleIInv, SaleInv
<1>6. stock \in {Gone, Stock - sold}
  BY <1>3 DEF SaleIInv, SaleInv, SalesMatchStock, SaleNumbers
<1> HIDE DEF rest
<1>7. PICK end \in {"success", "raised"} :
        /\ EndAs(s, end)
        /\ \/ end = "success" /\ stock' = rest /\ sold' = sold + quantity[s]
           \/ end = "raised" /\ stock' \in {stock, rest} /\ sold' = sold
  BY DEF SetStock, rest
<1>8. PICK next \in {"release", end} : sale' = [sale EXCEPT ![s] = next]
  BY <1>7 DEF EndAs
<1>9. result' = [result EXCEPT ![s] = end]
  BY <1>7 DEF EndAs
<1>10. SaleInv'
  <2>1. stock' \in Nat \cup {Gone} /\ sold' \in Nat
    BY <1>5, <1>7 DEF SaleIInv, SaleInv
  <2>. QED
    BY <1>1, <1>8, <1>9, <2>1 DEF SaleIInv, SaleInv, Ends
<1>11. /\ sale'[s] = next /\ result'[s] = end
       /\ \A t \in SaleNumbers \ {s} : sale'[t] = sale[t] /\ result'[t] = result[t]
  BY <1>8, <1>9 DEF SaleIInv, SaleInv
<1>12. SaleAlone' /\ NoneAfterRaised' /\ \A t \in SaleNumbers : sale'[t] = "set" => t = s
  BY <1>1, <1>2, <1>11, OnlyOneMoves
<1>13. SaleFresh'
  BY <1>11, <1>12 DEF SaleFresh
<1>14. SalesMatchStock'
  <2>1. CASE end = "success"
    BY <1>5, <1>7, <2>1 DEF SalesMatchStock
  <2>2. CASE end = "raised"
    <3>1. Raised(s)' /\ quantity' = quantity /\ sold' = sold
      BY <1>1, <1>7, <1>11, <2>2 DEF Raised
    <3>2. stock' \in {Gone, Stock - sold, rest}
      BY <1>6, <1>7, <2>2
    <3>. QED
      BY <1>5, <3>1, <3>2 DEF SaleIInv, SalesMatchStock, SaleNumbers
  <2>. QED
    BY <1>7, <2>1, <2>2
<1>. QED
  BY <1>10, <1>12, <1>13, <1>14 DEF SaleIInv

(* The end that the sale comes to was known before its lock is released. *)
LEMMA ReleaseStep ==
    ASSUME SaleIInv, NEW s \in SaleNumbers, Release(s) PROVE SaleIInv'
<1>1. /\ sale[s] = "release"
      /\ sale' = [sale EXCEPT ![s] = result[s]]
      /\ UNCHANGED <<quantity, stock, begun, result, current, sold>>
  BY DEF Release, chosen
<1>2. result[s] \in Ends
  BY <1>1 DEF SaleIInv, SaleInv, NoneAfterRaised
<1>3. InProgress(s)
  BY <1>1 DEF InProgress
<1>4. SaleInv'
  BY <1>1, <1>2 DEF SaleIInv, SaleInv
<1>5. /\ sale'[s] = result[s]
      /\ \A t \in SaleNumbers \ {s} : sale'[t] = sale[t]
  BY <1>1 DEF SaleIInv, SaleInv
<1>6. ~SaleWorking(s)' /\ sale'[s] # "release" /\ sale'[s] # "set"
  BY <1>2, <1>5 DEF Ends, SaleWorking
<1>7. SaleAlone' /\ NoneAfterRaised' /\ \A t \in SaleNumbers : sale'[t] = "set" => t = s
  BY <1>1, <1>3, <1>5, <1>6, OnlyOneMoves
<1>8. SaleFresh'
  BY <1>6, <1>7 DEF SaleFresh
<1>9. \A t \in SaleNumbers : Raised(t) => Raised(t)'
  BY <1>1, <1>5 DEF Raised
<1>10. SalesMatchStock'
  BY <1>1, <1>9, KeepsMatching DEF SaleIInv
<1>. QED
  BY <1>4, <1>7, <1>8, <1>10 DEF SaleIInv

(* The keys may expire at any time. *)
LEMMA KeyStep == SaleIInv /\ KeyExpires => SaleIInv'
<1> SUFFICES ASSUME SaleIInv, KeyExpires PROVE SaleIInv'
  OBVIOUS
<1>1. /\ stock' \in {stock, Gone}
      /\ UNCHANGED <<quantity, begun, sale, result, current, sold>>
  BY DEF KeyExpires, chosen
<1>2. SaleInv'
  BY <1>1 DEF SaleIInv, SaleInv
<1>3. SaleAlone' /\ NoneAfterRaised' /\ SaleFresh'
  BY <1>1 DEF SaleIInv, SaleAlone, NoneAfterRaised, SaleFresh, InProgress, SaleWorking, Raised
<1>4. \A t \in SaleNumbers : Raised(t) => Raised(t)'
  BY <1>1 DEF Raised
<1>5. SalesMatchStock'
  BY <1>1, <1>4, KeepsMatching DEF SaleIInv
<1>. QED
  BY <1>2, <1>3, <1>5 DEF SaleIInv

LEMMA SaleStutterStep == SaleIInv /\ UNCHANGED saleVars => SaleIInv'
BY DEF SaleIInv, SaleInv, SaleAlone, NoneAfterRaised, SaleFresh, SalesMatchStock, InProgress,
       SaleWorking, Raised, saleVars

LEMMA SaleNextIInv ==
    ASSUME AtOnce = 1 PROVE SaleIInv /\ [SaleNext]_saleVars => SaleIInv'
<1> SUFFICES ASSUME SaleIInv, [SaleNext]_saleVars PROVE SaleIInv'
  OBVIOUS
<1>1. CASE BeginSale
  BY <1>1, BeginStep
<1>2. ASSUME NEW s \in 1 .. Sales, Selling(s) PROVE SaleIInv'
  BY <1>2, AcquireStep, GetStep, SetStep, ReleaseStep DEF Selling, SaleNumbers
<1>3. CASE KeyExpires
  BY <1>3, KeyStep
<1>4. CASE SaleOver \/ UNCHANGED saleVars
  BY <1>4, SaleStutterStep DEF SaleOver
<1>. QED
  BY <1>1, <1>2, <1>3, <1>4 DEF SaleNext

(* Sales that are made one at a time never oversell, and while the stock key *)
(* exists it holds what is left, whatever is refused, raises or expires: for *)
(* any stock, any number of sales and any number of failures.                *)
THEOREM SoldOneAtATime ==
    ASSUME AtOnce = 1 PROVE SaleSpec => []SalesMatchStock
<1>1. SaleIInv => SalesMatchStock
  BY DEF SaleIInv
<1>. QED
  BY SaleInitIInv, SaleNextIInv, <1>1, PTL DEF SaleSpec

-----------------------------------------------------------------------------
(***************************************************************************)
(* Sales of any number at once: the numbers stay what they are said to be. *)
(* What is set is what has been read, and that was in the key.             *)
(***************************************************************************)
SaleTypes ==
    /\ SaleTypeOK
    /\ quantity \in [SaleNumbers -> 1 .. 2]
    /\ current \in [SaleNumbers -> 0 .. Stock]
    /\ \A s \in SaleNumbers :
          /\ sale[s] = "set" => quantity[s] <= current[s]
          /\ sale[s] = "release" => result[s] # "none"

LEMMA SaleTypesInit == SaleInit => SaleTypes
<1> SUFFICES ASSUME SaleInit PROVE SaleTypes
  OBVIOUS
<1>1. Stock \in Nat /\ Sales \in Nat
  BY SaleAssumption
<1>2. SaleTypeOK
  <2>1. stock = Stock /\ locked = FALSE /\ begun = 0 /\ sold = 0
    BY DEF SaleInit
  <2>2. /\ sale = [s \in 1 .. Sales |-> "waits"]
        /\ result = [s \in 1 .. Sales |-> "none"]
    BY DEF SaleInit
  <2>3. Stock \in 0 .. Stock /\ 0 \in 0 .. Sales /\ FALSE \in BOOLEAN
    BY <1>1
  <2> QED
    BY <2>1, <2>2, <2>3 DEF SaleTypeOK
<1> QED
  BY <1>1, <1>2 DEF SaleInit, SaleTypes, SaleNumbers

(* A sale that ends, by way of `finally` or at once, has a type. *)
LEMMA EndAsTypes ==
    ASSUME SaleTypes, NEW s \in SaleNumbers, NEW end \in Ends, EndAs(s, end)
    PROVE  /\ sale' \in [1 .. Sales ->
                 {"waits", "acquire", "get", "set", "release"} \cup Ends]
           /\ result' \in [1 .. Sales -> {"none"} \cup Ends]
           /\ \A t \in SaleNumbers :
                 /\ sale'[t] = "set" => sale[t] = "set"
                 /\ sale'[t] = "release" => result'[t] # "none"
  BY DEF SaleTypes, SaleTypeOK, SaleNumbers, EndAs, Ends

LEMMA SaleTypesSell ==
    ASSUME SaleTypes, NEW s \in SaleNumbers, Selling(s)
    PROVE  SaleTypes'
<1> USE SaleAssumption
<1>1. CASE Acquire(s)
  BY <1>1 DEF Acquire, SaleTypes, SaleTypeOK, SaleNumbers, Ends, chosen
<1>2. CASE GetStock(s)
  <2>1. CASE \E end \in Ends : EndAs(s, end) /\ UNCHANGED current
    BY <1>2, <2>1, EndAsTypes DEF GetStock, SaleTypes, SaleTypeOK, SaleNumbers, chosen
  <2>2. CASE /\ Level >= quantity[s]
             /\ current' = [current EXCEPT ![s] = Level]
             /\ sale' = [sale EXCEPT ![s] = "set"]
             /\ UNCHANGED result
    <3>1. Level \in 0 .. Stock /\ quantity[s] \in Nat
      BY DEF Level, SaleTypes, SaleTypeOK
    <3> QED
      BY <1>2, <2>2, <3>1 DEF GetStock, SaleTypes, SaleTypeOK, SaleNumbers, chosen
  <2> QED
    BY <1>2, <2>1, <2>2 DEF GetStock, Ends
<1>3. CASE SetStock(s)
  <2>1. current[s] - quantity[s] \in 0 .. Stock /\ quantity[s] \in Nat
    <3>1. current[s] \in 0 .. Stock /\ quantity[s] \in 1 .. 2 /\ quantity[s] <= current[s]
      BY <1>3 DEF SetStock, SaleTypes
    <3> QED
      BY <3>1, ConstantsAreNat
  <2>2. \E end \in Ends : EndAs(s, end)
    BY <1>3 DEF SetStock, Ends
  <2>3. stock' \in 0 .. Stock \cup {Gone} /\ sold' \in Nat
    BY <1>3, <2>1 DEF SetStock, SaleTypes, SaleTypeOK
  <2> QED
    BY <1>3, <2>2, <2>3, EndAsTypes DEF SetStock, SaleTypes, SaleTypeOK, SaleNumbers, chosen
<1>4. CASE Release(s)
  BY <1>4 DEF Release, SaleTypes, SaleTypeOK, SaleNumbers, Ends, chosen
<1> QED
  BY <1>1, <1>2, <1>3, <1>4 DEF Selling

LEMMA SaleTypesNext == SaleTypes /\ [SaleNext]_saleVars => SaleTypes'
<1> SUFFICES ASSUME SaleTypes, [SaleNext]_saleVars PROVE SaleTypes'
  OBVIOUS
<1>1. CASE BeginSale
  BY <1>1, SaleAssumption DEF BeginSale, SaleTypes, SaleTypeOK, SaleNumbers, chosen
<1>2. CASE KeyExpires
  BY <1>2 DEF KeyExpires, SaleTypes, SaleTypeOK, SaleNumbers, chosen
<1>3. CASE SaleOver \/ UNCHANGED saleVars
  BY <1>3 DEF SaleOver, saleVars, SaleTypes, SaleTypeOK
<1> QED
  BY <1>1, <1>2, <1>3, SaleTypesSell DEF SaleNext, SaleNumbers

-----------------------------------------------------------------------------
(***************************************************************************)
(* The Bloom filter, for any items and any shapes of requests.             *)
(***************************************************************************)
LEMMA BloomTypesKept == BloomTypeOK /\ [BloomNext]_bloomVars => BloomTypeOK'
<1> SUFFICES ASSUME BloomTypeOK, [BloomNext]_bloomVars PROVE BloomTypeOK'
  OBVIOUS
<1>1. \A item \in Members, shape \in Shapes :
         \A b \in Positions(item, shape) : b < shape.bit_size
  BY ShapesAssumption DEF Positions
<1>2. CASE \E item \in Members, shape \in Shapes :
              bloom_add(item, shape) \/ AddFails(item, shape)
  BY <1>1, <1>2 DEF bloom_add, AddFails, BloomTypeOK
<1> QED
  BY <1>2 DEF BloomNext, DeleteFilter, bloomVars, BloomTypeOK

(* bloom_exists never says that an item is certainly absent when it was added
   with the same parameters since the key was last deleted: whatever else is
   in the filter, added with whatever parameters. *)
THEOREM FoundOnceAdded == BloomSpec => []NoFalseNegative
<1>1. BloomInit => NoFalseNegative
  BY DEF BloomInit, NoFalseNegative
<1>2. NoFalseNegative /\ [BloomNext]_bloomVars => NoFalseNegative'
  <2> SUFFICES ASSUME NoFalseNegative, [BloomNext]_bloomVars,
                      NEW a \in added'
               PROVE  Found(a[1], a[2])'
    BY DEF NoFalseNegative
  <2>1. CASE UNCHANGED bloomVars
    BY <2>1 DEF bloomVars, NoFalseNegative, Found
  <2>2. CASE DeleteFilter
    BY <2>2 DEF DeleteFilter
  <2>3. ASSUME NEW item \in Members, NEW shape \in Shapes,
               bloom_add(item, shape) \/ AddFails(item, shape)
        PROVE  Found(a[1], a[2])'
    <3>1. bits \subseteq bits'
      BY <2>3 DEF bloom_add, AddFails
    <3>2. CASE a \in added
      BY <3>1, <3>2 DEF NoFalseNegative, Found
    <3>3. CASE a \notin added
      BY <2>3, <3>3 DEF bloom_add, AddFails, Found
    <3> QED
      BY <3>2, <3>3
  <2> QED
    BY <2>1, <2>2, <2>3 DEF BloomNext
<1> QED
  BY <1>1, <1>2, PTL DEF BloomSpec

-----------------------------------------------------------------------------
(* The instance that TLC checks moves one part at a time, as its specification
   says; so what is proved of the parts holds of it. *)
LEMMA PartsOfRedis ==
    Spec => /\ WorkSpec /\ LimiterSpec /\ BloomSpec /\ SaleSpec
<1>1. Init => WorkInit /\ LimiterInit /\ BloomInit /\ SaleInit
  BY DEF Init
<1>2. [Next]_vars =>
         /\ [WorkNext]_workVars /\ [LimiterNext]_limiterVars
         /\ [BloomNext]_bloomVars /\ [SaleNext]_saleVars
  BY DEF Next, vars, WorkStep, LimiterStep, FilterStep, SaleStep, ClockStopped, OthersStay
<1> QED
  BY <1>1, <1>2, PTL DEF Spec, WorkSpec, LimiterSpec, BloomSpec, SaleSpec

(* All that is kept in Redis by these routes and scripts has its type, with any
   number of requests and sales in progress. *)
THEOREM RedisTypes == Spec => []TypeOK
<1>1. SaleTypes => SaleTypeOK
  BY DEF SaleTypes
<1>2. SaleSpec => []SaleTypes
  BY SaleTypesInit, SaleTypesNext, PTL DEF SaleSpec
<1>3. BloomInit => BloomTypeOK
  BY DEF BloomInit, BloomTypeOK
<1>4. BloomSpec => []BloomTypeOK
  BY <1>3, BloomTypesKept, PTL DEF BloomSpec
<1>5. TypeOK <=> WorkTypeOK /\ LimiterTypeOK /\ BloomTypeOK /\ SaleTypeOK
  BY DEF TypeOK
<1> QED
  BY <1>1, <1>2, <1>4, <1>5, PartsOfRedis, TypesHold, LimiterTypes, PTL

=============================================================================
