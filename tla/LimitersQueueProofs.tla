------------------------ MODULE LimitersQueueProofs ------------------------
(***************************************************************************)
(* Proofs about the two parts an endpoint is put together from: I.         *)
(* Limiters, for every rate, compensation, window and burst; II.           *)
(* QueueImpl, for every set of tickets, bound and budget.                  *)
(***************************************************************************)
EXTENDS Limiters, QueueImpl, SharedLemmas

(* I. Limiters.  A step is a step of the algorithm limiter.New chose, so each
   invariant is one per algorithm. *)

-----------------------------------------------------------------------------
(* The parameters of the algorithms. *)

(* Max of two numbers. *)
LEMMA MaxOfTwo ==
    ASSUME NEW a \in Int, NEW b \in Int
    PROVE  Max({a, b}) \in {a, b} /\ Max({a, b}) >= a /\ Max({a, b}) >= b
  <1>1. \E x \in {a, b} : \A y \in {a, b} : x >= y
    <2>1. CASE a >= b
      BY <2>1
    <2>2. CASE ~ (a >= b)
      BY <2>2
    <2> QED
      BY <2>1, <2>2
  <1>2. Max({a, b}) \in {a, b} /\ \A y \in {a, b} : Max({a, b}) >= y
    BY <1>1 DEF Max
  <1> QED
    BY <1>2

(* Min of two numbers. *)
LEMMA MinOfTwo ==
    ASSUME NEW a \in Int, NEW b \in Int
    PROVE  Min({a, b}) = IF a <= b THEN a ELSE b
  <1>1. \E x \in {a, b} : \A y \in {a, b} : x <= y
    <2>1. CASE a <= b
      BY <2>1
    <2>2. CASE ~ (a <= b)
      BY <2>2
    <2> QED
      BY <2>1, <2>2
  <1>2. Min({a, b}) \in {a, b} /\ \A y \in {a, b} : Min({a, b}) <= y
    BY <1>1 DEF Min
  <1> QED
    BY <1>2

(* The compensated interval is positive, and not below the floor unless the
   configured interval is. *)
LEMMA IntervalPositive ==
    /\ Interval \in Nat \ {0}
    /\ MinInterval <= BaseInterval => MinInterval <= Interval
  <1>1. /\ MinInterval \in Nat \ {0} /\ BaseInterval \in Nat \ {0}
        /\ BaseInterval - Compensation \in Int
    BY IntervalAssumption, CompensationAssumption
  <1> DEFINE m == Max({MinInterval, BaseInterval - Compensation})
  <1>2. m \in {MinInterval, BaseInterval - Compensation} /\ m >= MinInterval
    BY <1>1, MaxOfTwo
  <1> HIDE DEF m
  <1>3. m \in Nat \ {0} /\ m >= MinInterval
    BY <1>1, <1>2
  <1>4. Interval = IF Compensation > 0 THEN m ELSE BaseInterval
    BY DEF Interval, m
  <1> QED
    BY <1>1, <1>3, <1>4

(* The three algorithms work with the interval limiter.New computed. *)
LEMMA SameInterval ==
    Strict!Interval = Interval /\ Sliding!Interval = Interval /\ Bucket!Interval = Interval
  BY DEF Strict!Interval, Sliding!Interval, Bucket!Interval, Interval,
         Strict!Max, Sliding!Max, Bucket!Max, Max

(* The window and its budget are positive. *)
LEMMA WindowPositive ==
    Sliding!WindowSize \in Nat \ {0} /\ Sliding!Allowed \in Nat \ {0}
  <1>1. Sliding!WindowSize \in Nat \ {0}
    BY WindowAssumption DEF Sliding!WindowSize
  <1> DEFINE d == Sliding!WindowSize \div Interval
  <1>2. d \in Int
    BY <1>1, IntervalPositive
  <1>3. Sliding!Allowed = Max({1, d})
    <2>1. Sliding!Allowed = Sliding!Max({1, d})
      BY SameInterval DEF Sliding!Allowed
    <2> HIDE DEF d
    <2>2. Sliding!Max({1, d}) = Max({1, d})
      BY DEF Sliding!Max, Max
    <2> QED
      BY <2>1, <2>2
  <1> HIDE DEF d
  <1>4. Max({1, d}) \in {1, d} /\ Max({1, d}) >= 1
    <2>1. 1 \in Int
      OBVIOUS
    <2> QED
      BY <1>2, <2>1, MaxOfTwo, Zenon
  <1> QED
    BY <1>1, <1>2, <1>3, <1>4

(* The bucket holds at least one token. *)
LEMMA BurstPositive ==
    /\ Bucket!BurstSize \in Nat \ {0}
    /\ Bucket!Full = Bucket!BurstSize * Interval
    /\ Bucket!Full \in Nat /\ Bucket!Full >= Interval
  <1>1. Bucket!BurstSize \in Nat \ {0}
    BY WindowAssumption DEF Bucket!BurstSize
  <1>2. Bucket!Full = Bucket!BurstSize * Interval
    BY SameInterval DEF Bucket!Full
  <1>3. ASSUME NEW b \in Nat \ {0}, NEW i \in Nat \ {0} PROVE b * i \in Nat /\ b * i >= i
    BY SMT
  <1> QED
    BY <1>1, <1>2, <1>3, IntervalPositive

-----------------------------------------------------------------------------
(* The inductive invariant. *)

LimiterTypeOK ==
    /\ algorithm \in {"strict", "sliding_window", "token_bucket"}
    /\ now \in 0 .. MaxTime
    /\ caller \in {"idle", "waiting", "error"}
    /\ since \in Nat /\ since <= now
    /\ grants \in Seq(0 .. MaxTime)
    /\ \A i \in 1 .. Len(grants) : grants[i] <= now
    /\ ctxDone \in BOOLEAN

(* The latest tick, at due - Interval, has fired after the last grant if it is
   still in the channel, and after the grant before that one in any case. *)
StrictInv ==
    LET latest == due - Interval
        g == Len(grants)
    IN  /\ due \in Int /\ ticked \in BOOLEAN /\ stopped \in BOOLEAN
        /\ latest <= now
        /\ stopped = FALSE => now <= due
        /\ stopped = TRUE => ctxDone = TRUE
        /\ (g >= 1 /\ ticked = TRUE) => grants[g] <= latest
        /\ g >= 2 => grants[g - 1] <= latest
        /\ (g >= 2 /\ ticked = TRUE) => grants[g - 1] + Interval <= latest
        /\ (caller = "waiting" /\ ticked = FALSE) => latest <= since

(* l.times is the recent part of the grants, entry by entry; while Wait runs
   nothing is granted. *)
SlidingInv ==
    LET lost == Len(grants) - Len(times)
    IN  /\ times \in Seq(0 .. MaxTime)
        /\ polled \in BOOLEAN
        /\ lost >= 0 /\ Len(times) <= Sliding!Allowed
        /\ \A i \in 1 .. Len(times) : times[i] = grants[lost + i]
        /\ \A i \in 1 .. lost : grants[i] < now - Sliding!WindowSize
        /\ caller = "waiting" => \A i \in 1 .. Len(grants) : grants[i] <= since
        /\ (caller = "waiting" /\ polled = TRUE) => now - since <= Sliding!WindowSize

Reserved(c) == IF c = "waiting" THEN Interval ELSE 0

(* The credit earned since any grant, less what the grants after it and the
   running Wait have cost. *)
BucketInv ==
    LET g == Len(grants)
    IN  /\ credit \in Int
        /\ credit <= Bucket!Full
        /\ \A i \in 1 .. g :
              credit <= Bucket!Full + (now - grants[i]) - (g - i) * Interval - Reserved(caller)
        /\ credit <= Bucket!Full + now - g * Interval - Reserved(caller)
        /\ (g - Bucket!BurstSize) * Interval <= now
        /\ caller # "waiting" => credit >= 0
        /\ caller = "waiting" => credit >= - Interval
        /\ caller = "waiting" => (credit >= 0 \/ credit >= now - since - Interval)

(* Between any two grants the earned time pays for all but a burst of those
   between them. *)
StretchInv ==
    \A j \in 1 .. Len(grants) : \A i \in 1 .. j :
        /\ grants[i] <= grants[j]
        /\ (j - i - Bucket!BurstSize) * Interval <= grants[j] - grants[i]

LimitersInv ==
    /\ LimiterTypeOK
    /\ algorithm = "strict" => StrictInv
    /\ algorithm = "sliding_window" => SlidingInv
    /\ algorithm = "token_bucket" => BucketInv /\ StretchInv

-----------------------------------------------------------------------------
(* The steps of the three algorithms, in the terms of Limiter. *)

tickerStays == UNCHANGED <<due, ticked, stopped>>

(* A step of the strict limiter: the ticker fires and stores its tick, time
   passes, or Wait is called, takes the stored tick, fails, is cancelled or meets
   Stop. *)
LEMMA StrictSteps ==
    ASSUME Strict!Next
    PROVE  \/ /\ due = now /\ ~stopped
              /\ ticked' = TRUE /\ due' = due + Interval
              /\ UNCHANGED <<limiterVars, stopped>>
           \/ (stopped \/ now < due) /\ Advance /\ tickerStays
           \/ Call /\ tickerStays
           \/ ticked /\ Return /\ ticked' = FALSE /\ UNCHANGED <<due, stopped>>
           \/ Fail /\ tickerStays
           \/ CancelContext /\ tickerStays
           \/ ctxDone /\ stopped' = TRUE /\ UNCHANGED <<limiterVars, due, ticked>>
  BY SameInterval
     DEF Strict!Next, Strict!Tick, Strict!Elapse, Strict!CallWait, Strict!Grant, Strict!FailWait,
         Strict!CancelCtx, Strict!Stop, Strict!Advance, Strict!Call, Strict!Return, Strict!Fail,
         Strict!CancelContext, Strict!limiterVars, Strict!tickerVars,
         Advance, Call, Return, Fail, CancelContext, limiterVars, tickerStays

(* A step of the sliding window: tryGrant first drops the k oldest times, then
   grants and stores the time, or polls again later. *)
LEMMA SlidingSteps ==
    ASSUME Sliding!Next
    PROVE  \/ Call /\ UNCHANGED <<times, polled>>
           \/ /\ caller = "waiting" /\ ~polled
              /\ \E k \in 0 .. Len(times) :
                    /\ Sliding!Stale(k)
                    /\ \/ /\ Len(SubSeq(times, k + 1, Len(times))) < Sliding!Allowed
                          /\ Return
                          /\ times' = Append(SubSeq(times, k + 1, Len(times)), now)
                          /\ UNCHANGED polled
                       \/ /\ ~ (Len(SubSeq(times, k + 1, Len(times))) < Sliding!Allowed)
                          /\ times' = SubSeq(times, k + 1, Len(times))
                          /\ polled' = TRUE
                          /\ UNCHANGED limiterVars
           \/ polled /\ Fail /\ polled' = FALSE /\ UNCHANGED times
           \/ CancelContext /\ UNCHANGED <<times, polled>>
           \/ Advance /\ polled' = FALSE /\ UNCHANGED times
  <1>1. CASE Sliding!TryGrant
    <2>1. caller = "waiting" /\ ~polled
      BY <1>1 DEF Sliding!TryGrant
    <2>2. PICK k \in 0 .. Len(times) :
            /\ Sliding!Stale(k)
            /\ IF Len(SubSeq(times, k + 1, Len(times))) < Sliding!Allowed
               THEN /\ Sliding!Return
                    /\ times' = Append(SubSeq(times, k + 1, Len(times)), now)
                    /\ UNCHANGED polled
               ELSE /\ times' = SubSeq(times, k + 1, Len(times))
                    /\ polled' = TRUE
                    /\ UNCHANGED Sliding!limiterVars
      BY <1>1 DEF Sliding!TryGrant
    <2>3. Sliding!Return => Return
      BY DEF Sliding!Return, Return
    <2>4. UNCHANGED Sliding!limiterVars => UNCHANGED limiterVars
      BY DEF Sliding!limiterVars, limiterVars
    <2> QED
      BY <2>1, <2>2, <2>3, <2>4
  <1>2. CASE Sliding!CallWait \/ Sliding!FailWait \/ Sliding!CancelCtx \/ Sliding!Elapse
    BY <1>2 DEF Sliding!CallWait, Sliding!FailWait, Sliding!CancelCtx, Sliding!Elapse,
         Sliding!Advance, Sliding!Call, Sliding!Fail, Sliding!CancelContext,
         Advance, Call, Fail, CancelContext
  <1> QED
    BY <1>1, <1>2 DEF Sliding!Next

(* A step of the token bucket: Wait reserves a token, grants once the
   reservation is due, or gives it back; time earns credit up to the full bucket. *)
LEMMA BucketSteps ==
    ASSUME Bucket!Next, credit \in Int
    PROVE  \/ Call /\ credit' = credit - Interval
           \/ credit >= 0 /\ Return /\ UNCHANGED credit
           \/ Fail /\ credit' = Min({Bucket!Full, credit + Interval})
           \/ CancelContext /\ UNCHANGED credit
           \/ Advance /\ credit' = Min({Bucket!Full, credit + 1})
  <1>1. CASE Bucket!CallWait \/ Bucket!Grant \/ Bucket!CancelCtx
    BY <1>1, SameInterval DEF Bucket!CallWait, Bucket!Grant, Bucket!CancelCtx,
         Bucket!Call, Bucket!Return, Bucket!CancelContext, Call, Return, CancelContext
  <1>2. CASE Bucket!FailWait
    <2>1. Fail /\ credit' = Bucket!Min({Bucket!Full, credit + Interval})
      BY <1>2, SameInterval DEF Bucket!FailWait, Bucket!Fail, Fail
    <2>2. Bucket!Min({Bucket!Full, credit + Interval}) = Min({Bucket!Full, credit + Interval})
      BY DEF Bucket!Min, Min
    <2> QED
      BY <2>1, <2>2
  <1>3. CASE Bucket!Elapse
    <2>1. Advance /\ credit' = Bucket!Min({Bucket!Full, credit + 1})
      BY <1>3 DEF Bucket!Elapse, Bucket!Advance, Advance
    <2>2. Bucket!Min({Bucket!Full, credit + 1}) = Min({Bucket!Full, credit + 1})
      BY DEF Bucket!Min, Min
    <2> QED
      BY <2>1, <2>2
  <1> QED
    BY <1>1, <1>2, <1>3 DEF Bucket!Next

(* What any step does to the state of Limiter. *)
CommonStep == Call \/ Return \/ Fail \/ CancelContext \/ Advance \/ UNCHANGED limiterVars

(* The algorithm stays and only its own limiter moves. *)
LEMMA AlgorithmSteps ==
    ASSUME LimitersInv, [Next]_vars
    PROVE  /\ CommonStep
           /\ algorithm' = algorithm
           /\ algorithm = "strict" => Strict!Next \/ UNCHANGED vars
           /\ algorithm = "sliding_window" => Sliding!Next \/ UNCHANGED vars
           /\ algorithm = "token_bucket" => Bucket!Next \/ UNCHANGED vars
  <1>1. /\ algorithm' = algorithm
        /\ algorithm = "strict" => Strict!Next \/ UNCHANGED vars
        /\ algorithm = "sliding_window" => Sliding!Next \/ UNCHANGED vars
        /\ algorithm = "token_bucket" => Bucket!Next \/ UNCHANGED vars
        /\ algorithm \in {"strict", "sliding_window", "token_bucket"}
    BY DEF Next, vars, LimitersInv, LimiterTypeOK
  <1>2. CASE UNCHANGED vars
    BY <1>1, <1>2 DEF vars, limiterVars, CommonStep
  <1>3. CASE algorithm = "strict" /\ Strict!Next
    BY <1>1, <1>3, StrictSteps DEF CommonStep
  <1>4. CASE algorithm = "sliding_window" /\ Sliding!Next
    BY <1>1, <1>4, SlidingSteps DEF CommonStep
  <1>5. CASE algorithm = "token_bucket" /\ Bucket!Next
    <2>1. credit \in Int
      BY <1>5 DEF LimitersInv, BucketInv
    <2> QED
      BY <1>1, <1>5, <2>1, BucketSteps DEF CommonStep
  <1> QED
    BY <1>1, <1>2, <1>3, <1>4, <1>5

(* What Wait returning does to the history of grants. *)
LEMMA ReturnGrants ==
    ASSUME LimiterTypeOK, Return
    PROVE  /\ Len(grants') = Len(grants) + 1 /\ Len(grants) \in Nat
           /\ grants'[Len(grants) + 1] = now
           /\ \A i \in 1 .. Len(grants) : grants'[i] = grants[i]
           /\ grants' \in Seq(0 .. MaxTime)
           /\ now' = now /\ since' = since /\ ctxDone' = ctxDone
           /\ caller = "waiting" /\ caller' = "idle"
  BY DEF LimiterTypeOK, Return

(* The grants lie in the past. *)
LEMMA GrantTimes ==
    ASSUME LimiterTypeOK
    PROVE  \A i \in 1 .. Len(grants) : grants[i] \in Nat /\ grants[i] \in Int /\ grants[i] <= now
  <1> SUFFICES ASSUME NEW i \in 1 .. Len(grants)
               PROVE  grants[i] \in Nat /\ grants[i] \in Int /\ grants[i] <= now
    OBVIOUS
  <1>1. grants \in Seq(0 .. MaxTime) /\ grants[i] <= now
    BY DEF LimiterTypeOK
  <1>2. grants[i] \in 0 .. MaxTime
    BY <1>1, ElementOfSeq, Zenon
  <1> QED
    BY <1>1, <1>2, MaxTimeAssumption

(* Types. *)
LEMMA LimiterTypeStep ==
    ASSUME LimitersInv, [Next]_vars
    PROVE  LimiterTypeOK'
  <1>1. LimiterTypeOK /\ CommonStep /\ algorithm' = algorithm
    BY AlgorithmSteps DEF LimitersInv
  <1>2. CASE Return
    <2>1. \A i \in 1 .. Len(grants') : grants'[i] <= now
      <3> SUFFICES ASSUME NEW i \in 1 .. Len(grants') PROVE grants'[i] <= now
        OBVIOUS
      <3>1. CASE i = Len(grants) + 1
        BY <1>1, <1>2, <3>1, ReturnGrants DEF LimiterTypeOK
      <3>2. CASE i \in 1 .. Len(grants)
        BY <1>1, <1>2, <3>2, ReturnGrants DEF LimiterTypeOK
      <3> QED
        BY <1>1, <1>2, <3>1, <3>2, ReturnGrants
    <2> QED
      BY <1>1, <1>2, <2>1, ReturnGrants DEF LimiterTypeOK
  <1>3. CASE Advance
    <2>1. now' \in 0 .. MaxTime /\ now' = now + 1 /\ now \in Nat
          /\ UNCHANGED <<caller, since, grants, ctxDone>>
      BY <1>1, <1>3, MaxTimeAssumption DEF LimiterTypeOK, Advance
    <2>2. \A i \in 1 .. Len(grants) : grants[i] \in Nat /\ grants[i] <= now
      BY <1>1, GrantTimes
    <2>3. \A i \in 1 .. Len(grants') : grants'[i] <= now'
      BY <2>1, <2>2
    <2> QED
      BY <1>1, <2>1, <2>3 DEF LimiterTypeOK
  <1>4. CASE Call
    <2>1. now \in Nat
      BY <1>1, MaxTimeAssumption DEF LimiterTypeOK
    <2> QED
      BY <1>1, <1>4, <2>1 DEF LimiterTypeOK, Call
  <1>5. CASE Fail
    BY <1>1, <1>5 DEF LimiterTypeOK, Fail
  <1>6. CASE CancelContext
    BY <1>1, <1>6 DEF LimiterTypeOK, CancelContext
  <1>7. CASE UNCHANGED limiterVars
    BY <1>1, <1>7 DEF LimiterTypeOK, limiterVars
  <1> QED
    BY <1>1, <1>2, <1>3, <1>4, <1>5, <1>6, <1>7 DEF CommonStep

(* strict *)
LEMMA StrictStep ==
    ASSUME LimitersInv, [Next]_vars, algorithm = "strict"
    PROVE  StrictInv'
  <1>1. /\ StrictInv /\ LimiterTypeOK /\ now \in Int /\ due \in Int /\ Interval \in Nat \ {0}
        /\ ticked \in BOOLEAN /\ stopped \in BOOLEAN /\ ctxDone \in BOOLEAN
        /\ Len(grants) \in Nat /\ since \in Int /\ since <= now
    BY IntervalPositive DEF LimitersInv, StrictInv, LimiterTypeOK
  <1>2. \A i \in 1 .. Len(grants) : grants[i] \in Int /\ grants[i] <= now
    BY <1>1, GrantTimes
  <1> DEFINE I == Interval
  <1>3. CASE UNCHANGED vars
    BY <1>1, <1>3 DEF vars, limiterVars, strictState, StrictInv, Interval
  <1>4. CASE /\ due = now /\ ~stopped
             /\ ticked' = TRUE /\ due' = due + Interval
             /\ UNCHANGED <<limiterVars, stopped>>
    <2>1. UNCHANGED <<now, caller, since, grants, ctxDone, stopped>>
      BY <1>4 DEF limiterVars
    <2>2. due' - Interval = due /\ due = now /\ stopped = FALSE
      BY <1>1, <1>4
    <2>3. Len(grants) >= 1 => grants[Len(grants)] <= due
      BY <1>1, <1>2, <2>2
    <2>4. Len(grants) >= 2 =>
            grants[Len(grants) - 1] <= due /\ grants[Len(grants) - 1] + Interval <= due
      BY <1>1, <1>2, <2>2 DEF StrictInv
    <2> QED
      BY <1>1, <1>4, <2>1, <2>2, <2>3, <2>4 DEF StrictInv
  <1>5. CASE (stopped \/ now < due) /\ Advance /\ tickerStays
    BY <1>1, <1>5 DEF Advance, tickerStays, StrictInv
  <1>6. CASE Call /\ tickerStays
    BY <1>1, <1>6 DEF Call, tickerStays, StrictInv
  <1>7. CASE ticked /\ Return /\ ticked' = FALSE /\ UNCHANGED <<due, stopped>>
    <2>1. /\ Len(grants') = Len(grants) + 1
          /\ \A i \in 1 .. Len(grants) : grants'[i] = grants[i]
          /\ now' = now /\ since' = since /\ ctxDone' = ctxDone /\ caller' = "idle"
      BY <1>1, <1>7, ReturnGrants
    <2>2. Len(grants') >= 2 => grants'[Len(grants') - 1] <= due - Interval
      <3> SUFFICES ASSUME Len(grants') >= 2 PROVE grants'[Len(grants') - 1] <= due - Interval
        OBVIOUS
      <3>1. Len(grants') - 1 = Len(grants) /\ Len(grants) >= 1
        BY <1>1, <2>1
      <3>2. grants'[Len(grants)] = grants[Len(grants)]
        BY <1>1, <2>1, <3>1
      <3> QED
        BY <1>1, <1>7, <3>1, <3>2 DEF StrictInv
    <2> QED
      BY <1>1, <1>7, <2>1, <2>2 DEF StrictInv
  <1>8. CASE Fail /\ tickerStays
    BY <1>1, <1>8 DEF Fail, tickerStays, StrictInv
  <1>9. CASE CancelContext /\ tickerStays
    BY <1>1, <1>9 DEF CancelContext, tickerStays, StrictInv
  <1>10. CASE ctxDone /\ stopped' = TRUE /\ UNCHANGED <<limiterVars, due, ticked>>
    BY <1>1, <1>10 DEF limiterVars, StrictInv
  <1> QED
    BY <1>3, <1>4, <1>5, <1>6, <1>7, <1>8, <1>9, <1>10, AlgorithmSteps, StrictSteps

(* sliding_window: forgetting the stale entries keeps the recent part recent. *)
LEMMA ForgetStale ==
    ASSUME LimiterTypeOK, SlidingInv, NEW k \in 0 .. Len(times), Sliding!Stale(k)
    PROVE  LET kept == SubSeq(times, k + 1, Len(times))
               lost == Len(grants) - Len(kept)
           IN  /\ kept \in Seq(0 .. MaxTime) /\ Len(kept) = Len(times) - k
               /\ Len(kept) \in Nat /\ lost \in Nat /\ Len(kept) <= Sliding!Allowed
               /\ \A i \in 1 .. Len(kept) : kept[i] = grants[lost + i]
               /\ \A i \in 1 .. lost : grants[i] < now - Sliding!WindowSize
               /\ Len(kept) > 0 => kept[1] >= now - Sliding!WindowSize
  <1> DEFINE kept == SubSeq(times, k + 1, Len(times))
             lost == Len(grants) - Len(times)
  <1>1. /\ times \in Seq(0 .. MaxTime) /\ Len(times) \in Nat /\ Len(grants) \in Nat
        /\ lost \in Nat /\ Len(times) <= Sliding!Allowed /\ Sliding!Allowed \in Nat
        /\ \A i \in 1 .. Len(times) : times[i] = grants[lost + i]
        /\ \A i \in 1 .. lost : grants[i] < now - Sliding!WindowSize
    BY WindowPositive DEF SlidingInv, LimiterTypeOK
  <1>2. kept \in Seq(0 .. MaxTime) /\ Len(kept) = Len(times) - k
        /\ \A i \in 1 .. Len(kept) : kept[i] = times[k + i]
    <2>1. k + 1 \in Int /\ Len(times) \in Int
          /\ \A i \in k + 1 .. Len(times) : i \in 1 .. Len(times)
      BY <1>1
    <2>2. \A i \in k + 1 .. Len(times) : times[i] \in 0 .. MaxTime
      BY <1>1, <2>1, ElementOfSeq, Zenon
    <2>3. /\ kept \in Seq(0 .. MaxTime)
          /\ Len(kept) = IF k + 1 <= Len(times) THEN Len(times) - (k + 1) + 1 ELSE 0
          /\ \A i \in 1 .. Len(times) - (k + 1) + 1 : kept[i] = times[(k + 1) + i - 1]
      BY <2>1, <2>2, SubSeqProperties
    <2>4. \A i \in Int : (k + 1) + i - 1 = k + i
      BY <1>1
    <2> HIDE DEF kept
    <2>5. Len(kept) = Len(times) - k
      BY <1>1, <2>3
    <2> QED
      BY <1>1, <2>3, <2>4, <2>5
  <1>3. /\ \A j \in 1 .. k : times[j] < now - Sliding!WindowSize
        /\ k < Len(times) => times[k + 1] >= now - Sliding!WindowSize
    BY DEF Sliding!Stale
  <1> HIDE DEF kept
  <1>4. Len(kept) \in Nat /\ Len(grants) - Len(kept) = lost + k /\ lost + k \in Nat
        /\ Len(kept) <= Sliding!Allowed
    BY <1>1, <1>2
  <1>5. ASSUME NEW i \in 1 .. Len(kept) PROVE kept[i] = grants[lost + k + i]
    <2>1. k + i \in 1 .. Len(times) /\ lost + (k + i) = lost + k + i
      BY <1>1, <1>2
    <2> QED
      BY <1>1, <1>2, <2>1
  <1>6. ASSUME NEW i \in 1 .. lost + k PROVE grants[i] < now - Sliding!WindowSize
    <2>1. CASE i \in 1 .. lost
      BY <1>1, <2>1
    <2>2. CASE ~ (i \in 1 .. lost)
      <3>1. i - lost \in 1 .. k /\ i - lost \in 1 .. Len(times) /\ lost + (i - lost) = i
        BY <1>1, <2>2
      <3>2. times[i - lost] = grants[i]
        BY <1>1, <3>1
      <3> QED
        BY <1>3, <3>1, <3>2
    <2> QED
      BY <2>1, <2>2
  <1>7. Len(kept) > 0 => kept[1] >= now - Sliding!WindowSize
    BY <1>1, <1>2, <1>3
  <1> HIDE DEF lost
  <1> QED
    BY <1>2, <1>4, <1>5, <1>6, <1>7 DEF kept

(* sliding_window *)
LEMMA SlidingStep ==
    ASSUME LimitersInv, [Next]_vars, algorithm = "sliding_window"
    PROVE  SlidingInv'
  <1> DEFINE W == Sliding!WindowSize
             lost == Len(grants) - Len(times)
  <1>1. /\ SlidingInv /\ LimiterTypeOK /\ now \in Nat /\ now <= MaxTime
        /\ W \in Nat \ {0} /\ Sliding!Allowed \in Nat \ {0}
        /\ Len(grants) \in Nat /\ since \in Nat /\ since <= now
        /\ times \in Seq(0 .. MaxTime) /\ Len(times) \in Nat /\ polled \in BOOLEAN
        /\ lost \in Nat
    BY WindowPositive, MaxTimeAssumption DEF LimitersInv, SlidingInv, LimiterTypeOK
  <1>2. \A i \in 1 .. Len(grants) : grants[i] \in Int /\ grants[i] <= now
    BY <1>1, GrantTimes
  <1>3. W' = W /\ Sliding!Allowed' = Sliding!Allowed
    BY DEF Sliding!WindowSize, Sliding!Allowed, Sliding!Max, Sliding!Interval
  <1>4. CASE UNCHANGED vars
    BY <1>1, <1>3, <1>4 DEF vars, limiterVars, slidingState, SlidingInv
  <1>5. CASE Call /\ UNCHANGED <<times, polled>>
    <2>1. UNCHANGED <<now, grants, times, polled>> /\ since' = now /\ caller = "idle"
      BY <1>5 DEF Call
    <2>2. now' - since' <= W
      BY <1>1, <2>1
    <2> QED
      BY <1>1, <1>2, <1>3, <2>1, <2>2 DEF SlidingInv
  <1>6. CASE (polled /\ Fail /\ polled' = FALSE /\ UNCHANGED times)
             \/ (CancelContext /\ UNCHANGED <<times, polled>>)
    BY <1>1, <1>3, <1>6 DEF Fail, CancelContext, SlidingInv
  <1>7. CASE Advance /\ polled' = FALSE /\ UNCHANGED times
    <2>1. now' = now + 1 /\ UNCHANGED <<caller, since, grants, times>> /\ polled' = FALSE
      BY <1>7 DEF Advance
    <2>2. lost' = lost
      BY <2>1
    <2>3. \A i \in 1 .. lost : grants[i] < now' - W
      <3> SUFFICES ASSUME NEW i \in 1 .. lost PROVE grants[i] < now' - W
        OBVIOUS
      <3>1. i \in 1 .. Len(grants) /\ grants[i] \in Int /\ grants[i] < now - W
        BY <1>1, <1>2 DEF SlidingInv
      <3> QED
        BY <1>1, <2>1, <3>1
    <2> QED
      BY <1>1, <1>3, <2>1, <2>2, <2>3 DEF SlidingInv
  <1>8. ASSUME caller = "waiting", NEW k \in 0 .. Len(times), Sliding!Stale(k),
               times' = SubSeq(times, k + 1, Len(times)),
               ~ (Len(SubSeq(times, k + 1, Len(times))) < Sliding!Allowed),
               polled' = TRUE, UNCHANGED limiterVars
        PROVE  SlidingInv'
    <2>1. UNCHANGED <<now, caller, since, grants>>
      BY <1>8 DEF limiterVars
    <2>2. /\ times' \in Seq(0 .. MaxTime)
          /\ Len(times') \in Nat /\ lost' \in Nat /\ Len(times') <= Sliding!Allowed
          /\ \A i \in 1 .. Len(times') : times'[i] = grants[lost' + i]
          /\ \A i \in 1 .. lost' : grants[i] < now - W
          /\ Len(times') > 0 => times'[1] >= now - W
      BY <1>1, <1>8, <2>1, ForgetStale
    <2>3. Len(times') > 0
      BY <1>1, <1>8, <2>2
    <2>4. now - since <= W
      <3>1. 1 \in 1 .. Len(times') /\ lost' + 1 \in 1 .. Len(grants)
        BY <1>1, <2>1, <2>2, <2>3
      <3>2. grants[lost' + 1] <= since /\ grants[lost' + 1] \in Int
        BY <1>1, <1>2, <1>8, <3>1 DEF SlidingInv
      <3>3. grants[lost' + 1] >= now - W
        BY <2>2, <2>3, <3>1
      <3> HIDE DEF W, lost
      <3> QED
        BY <1>1, <3>2, <3>3
    <2>5. \A i \in 1 .. Len(grants) : grants[i] <= since
      BY <1>1, <1>8 DEF SlidingInv
    <2>6. /\ \A i \in 1 .. Len(times') : times'[i] = grants'[lost' + i]
          /\ \A i \in 1 .. lost' : grants'[i] < now' - W'
          /\ \A i \in 1 .. Len(grants') : grants'[i] <= since'
          /\ now' - since' <= W'
      BY <1>3, <2>1, <2>2, <2>4, <2>5
    <2>7. polled' \in BOOLEAN /\ lost' >= 0 /\ Len(times') <= Sliding!Allowed'
      BY <1>3, <1>8, <2>2
    <2> QED
      BY <2>2, <2>6, <2>7 DEF SlidingInv
  <1>9. ASSUME NEW k \in 0 .. Len(times), Sliding!Stale(k), Return,
               Len(SubSeq(times, k + 1, Len(times))) < Sliding!Allowed,
               times' = Append(SubSeq(times, k + 1, Len(times)), now),
               UNCHANGED polled
        PROVE  SlidingInv'
    <2> DEFINE kept == SubSeq(times, k + 1, Len(times))
               gone == Len(grants) - Len(kept)
    <2>1. /\ kept \in Seq(0 .. MaxTime)
          /\ Len(kept) \in Nat /\ gone \in Nat
          /\ \A i \in 1 .. Len(kept) : kept[i] = grants[gone + i]
          /\ \A i \in 1 .. gone : grants[i] < now - W
      BY <1>1, <1>9, ForgetStale
    <2>2. /\ Len(grants') = Len(grants) + 1
          /\ grants'[Len(grants) + 1] = now
          /\ \A i \in 1 .. Len(grants) : grants'[i] = grants[i]
          /\ now' = now /\ since' = since /\ caller' = "idle"
      BY <1>1, <1>9, ReturnGrants
    <2>3. times' = Append(kept, now) /\ Len(kept) < Sliding!Allowed
      BY <1>9
    <2> HIDE DEF kept
    <2>4. /\ times' \in Seq(0 .. MaxTime) /\ Len(times') = Len(kept) + 1
          /\ \A i \in 1 .. Len(kept) : times'[i] = kept[i]
          /\ times'[Len(kept) + 1] = now
      BY <1>1, <2>1, <2>3
    <2>5. lost' = gone /\ Len(times') <= Sliding!Allowed
      BY <1>1, <2>1, <2>2, <2>3, <2>4
    <2>6. \A i \in 1 .. Len(times') : times'[i] = grants'[gone + i]
      <3> SUFFICES ASSUME NEW i \in 1 .. Len(times') PROVE times'[i] = grants'[gone + i]
        OBVIOUS
      <3>1. CASE i = Len(kept) + 1
        <4>1. gone + i = Len(grants) + 1
          BY <1>1, <2>1, <3>1
        <4> QED
          BY <2>2, <2>4, <3>1, <4>1
      <3>2. CASE i \in 1 .. Len(kept)
        <4>1. gone + i \in 1 .. Len(grants)
          BY <1>1, <2>1, <3>2
        <4> QED
          BY <2>1, <2>2, <2>4, <3>2, <4>1
      <3> QED
        BY <2>1, <2>4, <3>1, <3>2
    <2>7. \A i \in 1 .. gone : grants'[i] < now' - W
      <3> SUFFICES ASSUME NEW i \in 1 .. gone PROVE grants'[i] < now' - W
        OBVIOUS
      <3>1. i \in 1 .. Len(grants)
        BY <1>1, <2>1
      <3> QED
        BY <2>1, <2>2, <3>1
    <2> HIDE DEF gone
    <2>8. /\ \A i \in 1 .. Len(times') : times'[i] = grants'[lost' + i]
          /\ \A i \in 1 .. lost' : grants'[i] < now' - W'
          /\ caller' # "waiting"
      BY <1>3, <2>2, <2>5, <2>6, <2>7
    <2>9. polled' \in BOOLEAN /\ lost' >= 0 /\ Len(times') <= Sliding!Allowed'
      BY <1>1, <1>3, <1>9, <2>1, <2>5
    <2> QED
      BY <2>4, <2>8, <2>9 DEF SlidingInv
  <1> QED
    BY <1>4, <1>5, <1>6, <1>7, <1>8, <1>9, AlgorithmSteps, SlidingSteps

(* The arithmetic of a step that grants nothing: c is the credit, r what is
   reserved and t the time before it, d, s and u after it. *)
LEMMA Slack ==
    ASSUME NEW c \in Int, NEW d \in Int, NEW r \in Int, NEW s \in Int,
           NEW t \in Int, NEW u \in Int, NEW full \in Int, NEW x \in Int,
           (d + s) - u <= (c + r) - t,
           c <= full + (t - x) - r
    PROVE  d <= full + (u - x) - s
  OBVIOUS

(* token_bucket: a step that grants nothing earns no more than time passes, once
   what the running Wait has reserved is counted back. *)
LEMMA NoGrantStep ==
    ASSUME LimiterTypeOK, BucketInv, UNCHANGED grants, now' \in Nat, now <= now',
           credit' \in Int, credit' <= Bucket!Full,
           Reserved(caller) \in Nat, Reserved(caller') \in Nat,
           (credit' + Reserved(caller')) - now' <= (credit + Reserved(caller)) - now
    PROVE  LET g == Len(grants)
           IN  /\ \A i \in 1 .. g :
                     credit' <= Bucket!Full + (now' - grants[i]) - (g - i) * Interval - Reserved(caller')
               /\ credit' <= Bucket!Full + now' - g * Interval - Reserved(caller')
               /\ (g - Bucket!BurstSize) * Interval <= now'
  <1> DEFINE g == Len(grants)
  <1>1. /\ credit \in Int /\ g \in Nat /\ now \in Nat /\ Interval \in Nat
        /\ Bucket!Full \in Nat /\ Bucket!BurstSize \in Nat
    BY IntervalPositive, BurstPositive, MaxTimeAssumption DEF BucketInv, LimiterTypeOK
  <1>2. \A i \in 1 .. g : grants[i] \in Int
    BY GrantTimes
  <1>3. \A i \in 1 .. g : (g - i) * Interval \in Int
    BY <1>1
  <1>4. g * Interval \in Int /\ (g - Bucket!BurstSize) * Interval \in Int
    BY <1>1
  <1>5. \A i \in 1 .. g :
           credit <= Bucket!Full + (now - grants[i]) - (g - i) * Interval - Reserved(caller)
    BY DEF BucketInv
  <1>6. credit <= Bucket!Full + now - g * Interval - Reserved(caller)
        /\ (g - Bucket!BurstSize) * Interval <= now
    BY DEF BucketInv
  <1>7. ASSUME NEW x \in Int, credit <= Bucket!Full + (now - x) - Reserved(caller)
        PROVE  credit' <= Bucket!Full + (now' - x) - Reserved(caller')
    <2>1. /\ credit' \in Int /\ now' \in Int /\ Reserved(caller) \in Int /\ Reserved(caller') \in Int
          /\ now \in Int /\ Bucket!Full \in Int
      BY <1>1
    <2> QED
      BY <1>1, <1>7, <2>1, Slack
  <1> HIDE DEF g
  <1>8. ASSUME NEW i \in 1 .. g
        PROVE  credit' <= Bucket!Full + (now' - grants[i]) - (g - i) * Interval - Reserved(caller')
    <2> DEFINE m == (g - i) * Interval
               x == grants[i] + m
    <2>1. m \in Int /\ grants[i] \in Int
      BY <1>2, <1>3
    <2>2. credit <= Bucket!Full + (now - grants[i]) - m - Reserved(caller)
      BY <1>5
    <2> HIDE DEF m
    <2>3. x \in Int /\ credit <= Bucket!Full + (now - x) - Reserved(caller)
      BY <1>1, <2>1, <2>2
    <2>4. credit' <= Bucket!Full + (now' - x) - Reserved(caller')
      BY <1>7, <2>3
    <2>5. credit' <= Bucket!Full + (now' - grants[i]) - m - Reserved(caller')
      BY <1>1, <2>1, <2>4
    <2> QED
      BY <2>5 DEF m
  <1>9. credit' <= Bucket!Full + now' - g * Interval - Reserved(caller')
    <2> DEFINE x == g * Interval
    <2>1. x \in Int /\ credit <= Bucket!Full + now - x - Reserved(caller)
      BY <1>4, <1>6
    <2> HIDE DEF x
    <2>2. credit <= Bucket!Full + (now - x) - Reserved(caller)
      BY <1>1, <2>1
    <2>3. credit' <= Bucket!Full + (now' - x) - Reserved(caller')
      BY <1>7, <2>1, <2>2
    <2>4. credit' <= Bucket!Full + now' - x - Reserved(caller')
      BY <1>1, <2>1, <2>3
    <2> QED
      BY <2>4 DEF x
  <1>10. (g - Bucket!BurstSize) * Interval <= now'
    <2> DEFINE x == (g - Bucket!BurstSize) * Interval
    <2>1. x \in Int /\ x <= now
      BY <1>4, <1>6
    <2> HIDE DEF x
    <2>2. x <= now'
      BY <1>1, <2>1
    <2> QED
      BY <2>2 DEF x
  <1> QED
    BY <1>8, <1>9, <1>10 DEF g

(* token_bucket *)
LEMMA BucketStep ==
    ASSUME LimitersInv, [Next]_vars, algorithm = "token_bucket"
    PROVE  BucketInv'
  <1> DEFINE g == Len(grants)
             B == Bucket!BurstSize
             F == Bucket!Full
  <1>1. /\ BucketInv /\ LimiterTypeOK /\ credit \in Int /\ g \in Nat /\ now \in Nat
        /\ since \in Nat /\ since <= now
        /\ Interval \in Nat \ {0} /\ F \in Nat /\ F >= Interval /\ B \in Nat \ {0}
        /\ F = B * Interval
        /\ credit <= F
        /\ caller # "waiting" => credit >= 0
        /\ caller = "waiting" => credit >= - Interval
        /\ caller = "waiting" => (credit >= 0 \/ credit >= now - since - Interval)
        /\ caller \in {"idle", "waiting", "error"}
    BY IntervalPositive, BurstPositive, MaxTimeAssumption
       DEF LimitersInv, BucketInv, LimiterTypeOK
  <1>2. Interval' = Interval /\ B' = B /\ F' = F
    BY DEF Interval, Bucket!BurstSize, Bucket!Full, Bucket!Interval
  <1>3. /\ Reserved(caller) \in Nat /\ Reserved(caller') \in Nat
        /\ caller = "waiting" => Reserved(caller) = Interval
        /\ caller # "waiting" => Reserved(caller) = 0
        /\ caller' = "waiting" => Reserved(caller') = Interval
        /\ caller' # "waiting" => Reserved(caller') = 0
    BY <1>1, <1>2 DEF Reserved
  <1> HIDE DEF F, B
  <1>4. ASSUME UNCHANGED grants, now' \in Nat, now <= now', credit' \in Int, credit' <= F,
               (credit' + Reserved(caller')) - now' <= (credit + Reserved(caller)) - now,
               caller' # "waiting" => credit' >= 0,
               caller' = "waiting" => credit' >= - Interval,
               caller' = "waiting" => (credit' >= 0 \/ credit' >= now' - since' - Interval)
        PROVE  BucketInv'
    <2>1. /\ \A i \in 1 .. g :
                credit' <= F + (now' - grants[i]) - (g - i) * Interval - Reserved(caller')
          /\ credit' <= F + now' - g * Interval - Reserved(caller')
          /\ (g - B) * Interval <= now'
      BY <1>1, <1>3, <1>4, NoGrantStep DEF F, B
    <2>2. g' = g /\ grants' = grants
      BY <1>4
    <2>3. /\ \A i \in 1 .. g' :
                credit' <= F' + (now' - grants'[i]) - (g' - i) * Interval' - Reserved(caller')
          /\ credit' <= F' + now' - g' * Interval' - Reserved(caller')
          /\ (g' - B') * Interval' <= now'
      BY <1>2, <2>1, <2>2
    <2>4. credit' <= F' /\ caller' = "waiting" => credit' >= - Interval'
      BY <1>2, <1>4
    <2>5. /\ credit' <= F'
          /\ caller' = "waiting" => credit' >= - Interval'
          /\ caller' = "waiting" => (credit' >= 0 \/ credit' >= now' - since' - Interval')
      BY <1>2, <1>4
    <2> QED
      BY <1>4, <2>3, <2>5 DEF BucketInv, F, B
  <1>5. CASE UNCHANGED vars
    <2>1. UNCHANGED <<now, caller, since, grants, credit>>
      BY <1>5 DEF vars, limiterVars
    <2>2. Reserved(caller') = Reserved(caller)
      BY <1>2, <2>1 DEF Reserved
    <2> QED
      BY <1>1, <1>3, <1>4, <2>1, <2>2
  <1>6. CASE Call /\ credit' = credit - Interval
    <2>1. /\ UNCHANGED <<now, grants>> /\ since' = now
          /\ caller = "idle" /\ caller' = "waiting" /\ credit' = credit - Interval
      BY <1>6 DEF Call
    <2> QED
      BY <1>1, <1>3, <1>4, <2>1
  <1>7. CASE Fail /\ credit' = Min({Bucket!Full, credit + Interval})
    <2>1. UNCHANGED <<now, grants, since>> /\ caller = "waiting" /\ caller' = "error"
      BY <1>7 DEF Fail
    <2>2. credit' = IF F <= credit + Interval THEN F ELSE credit + Interval
      BY <1>1, <1>7, MinOfTwo DEF F
    <2> QED
      BY <1>1, <1>3, <1>4, <2>1, <2>2
  <1>8. CASE CancelContext /\ UNCHANGED credit
    <2>1. UNCHANGED <<now, caller, since, grants, credit>>
      BY <1>8 DEF CancelContext
    <2>2. Reserved(caller') = Reserved(caller)
      BY <1>2, <2>1 DEF Reserved
    <2> QED
      BY <1>1, <1>3, <1>4, <2>1, <2>2
  <1>9. CASE Advance /\ credit' = Min({Bucket!Full, credit + 1})
    <2>1. UNCHANGED <<caller, since, grants>> /\ now' = now + 1
      BY <1>9 DEF Advance
    <2>2. credit' = IF F <= credit + 1 THEN F ELSE credit + 1
      BY <1>1, <1>9, MinOfTwo DEF F
    <2>3. Reserved(caller') = Reserved(caller)
      BY <1>2, <2>1 DEF Reserved
    <2>4. credit' \in Int /\ credit' <= F /\ credit' <= credit + 1
          /\ (credit >= 0 => credit' >= 0) /\ (credit < 0 => credit' = credit + 1)
      BY <1>1, <2>2
    <2>5. (credit' + Reserved(caller')) - now' <= (credit + Reserved(caller)) - now
      BY <1>1, <1>3, <2>1, <2>3, <2>4
    <2>6. caller' = "waiting" => (credit' >= 0 \/ credit' >= now' - since' - Interval)
      BY <1>1, <2>1, <2>4
    <2>7. /\ caller' # "waiting" => credit' >= 0
          /\ caller' = "waiting" => credit' >= - Interval
      BY <1>1, <2>1, <2>4
    <2> QED
      BY <1>1, <1>4, <2>1, <2>4, <2>5, <2>6, <2>7
  <1>10. CASE credit >= 0 /\ Return /\ UNCHANGED credit
    <2>1. /\ g' = g + 1 /\ grants'[g + 1] = now
          /\ \A i \in 1 .. g : grants'[i] = grants[i]
          /\ now' = now /\ since' = since /\ caller = "waiting" /\ caller' = "idle"
          /\ credit' = credit /\ credit >= 0
      BY <1>1, <1>10, ReturnGrants
    <2>2. Reserved(caller) = Interval /\ Reserved(caller') = 0
      BY <1>3, <2>1
    <2>3. \A i \in 1 .. g : grants[i] \in Int
      BY <1>1, GrantTimes
    <2>4. ASSUME NEW a \in Int PROVE (a + 1) * Interval = a * Interval + Interval
      BY <1>1
    <2>5. \A i \in 1 .. g' :
             credit' <= F + (now' - grants'[i]) - (g' - i) * Interval - Reserved(caller')
      <3> SUFFICES ASSUME NEW i \in 1 .. g'
                   PROVE  credit' <= F + (now' - grants'[i]) - (g' - i) * Interval - Reserved(caller')
        OBVIOUS
      <3>1. CASE i = g + 1
        <4>1. (g' - i) * Interval = 0
          BY <1>1, <2>1, <3>1
        <4> QED
          BY <1>1, <2>1, <2>2, <3>1, <4>1
      <3>2. CASE i \in 1 .. g
        <4> DEFINE m == (g - i) * Interval
        <4>1. g - i \in Int /\ g' - i = (g - i) + 1
          BY <1>1, <2>1, <3>2
        <4>2. (g' - i) * Interval = m + Interval /\ m \in Int
          BY <1>1, <2>4, <4>1
        <4>3. credit <= F + (now - grants[i]) - m - Interval
          BY <1>1, <2>2, <3>2 DEF BucketInv, F
        <4> HIDE DEF m
        <4>4. credit <= F + (now - grants[i]) - (m + Interval) - 0
          BY <1>1, <2>3, <3>2, <4>2, <4>3
        <4> QED
          BY <2>1, <2>2, <3>2, <4>2, <4>4
      <3> QED
        BY <1>1, <2>1, <3>1, <3>2
    <2>6. credit' <= F + now' - g' * Interval - Reserved(caller')
      <3> DEFINE m == g * Interval
      <3>1. g' * Interval = m + Interval /\ m \in Int
        BY <1>1, <2>1, <2>4
      <3>2. credit <= F + now - m - Interval
        BY <1>1, <2>2 DEF BucketInv, F
      <3> HIDE DEF m
      <3>3. credit <= F + now - (m + Interval) - 0
        BY <1>1, <3>1, <3>2
      <3> QED
        BY <2>1, <2>2, <3>1, <3>3
    <2>7. (g' - B) * Interval <= now'
      <3>1. (g' - B) * Interval = g' * Interval - B * Interval
            /\ g' * Interval \in Int
        BY <1>1, <2>1
      <3> DEFINE m == g' * Interval
      <3>2. credit <= F + now - m - 0 /\ m \in Int
        BY <2>1, <2>2, <2>6, <3>1
      <3> HIDE DEF m
      <3>3. m - F <= now
        BY <1>1, <2>1, <3>2
      <3> QED
        BY <1>1, <2>1, <3>1, <3>3 DEF m
    <2>8. /\ \A i \in 1 .. g' :
                credit' <= F' + (now' - grants'[i]) - (g' - i) * Interval' - Reserved(caller')
          /\ credit' <= F' + now' - g' * Interval' - Reserved(caller')
          /\ (g' - B') * Interval' <= now'
      BY <1>2, <2>5, <2>6, <2>7
    <2>9. credit' <= F'
      BY <1>1, <1>2, <2>1
    <2> QED
      BY <1>1, <2>1, <2>8, <2>9 DEF BucketInv, F, B
  <1> QED
    BY <1>1, <1>5, <1>6, <1>7, <1>8, <1>9, <1>10, AlgorithmSteps, BucketSteps

(* What was earned at the longer interval pays at a shorter one. *)
LEMMA ShorterInterval ==
    ASSUME NEW k \in Int, NEW d \in Nat, NEW long \in Nat, NEW short \in Nat,
           short <= long, k * long <= d
    PROVE  k * short <= d
  <1>1. k * short \in Int /\ k * long \in Int
    OBVIOUS
  <1>2. CASE k >= 0
    <2>1. ASSUME NEW a \in Nat, NEW x \in Nat, NEW y \in Nat, x <= y
          PROVE  a * x <= a * y
      BY <2>1, SMT
    <2>2. k * short <= k * long
      BY <1>2, <2>1
    <2> QED
      BY <1>1, <2>2
  <1>3. CASE k < 0
    <2>1. ASSUME NEW a \in Int, NEW x \in Nat, a < 0 PROVE a * x <= 0
      BY <2>1, SMT
    <2>2. k * short <= 0
      BY <1>3, <2>1
    <2> QED
      BY <1>1, <2>2
  <1> QED
    BY <1>2, <1>3

(* A grant comes when the credit left by each earlier one has paid for those in
   between: all the others have been compared before. *)
LEMMA StretchStep ==
    ASSUME LimitersInv, [Next]_vars, algorithm = "token_bucket"
    PROVE  StretchInv'
  <1> DEFINE g == Len(grants)
             B == Bucket!BurstSize
  <1>1. /\ LimiterTypeOK /\ BucketInv /\ StretchInv
        /\ g \in Nat /\ now \in Nat /\ credit \in Int
        /\ Interval \in Nat \ {0} /\ B \in Nat \ {0}
        /\ Bucket!Full = B * Interval /\ Bucket!Full \in Nat
    BY IntervalPositive, BurstPositive, MaxTimeAssumption
       DEF LimitersInv, BucketInv, LimiterTypeOK
  <1>2. B' = B /\ Interval' = Interval
    BY DEF B, Bucket!BurstSize, Interval
  <1>3. CASE ~ Return
    <2>1. grants' = grants
      BY <1>3, AlgorithmSteps
         DEF CommonStep, Call, Fail, CancelContext, Advance, limiterVars
    <2> QED
      BY <1>1, <1>2, <2>1 DEF StretchInv
  <1>4. CASE Return
    <2>1. /\ g' = g + 1 /\ grants'[g + 1] = now
          /\ \A i \in 1 .. g : grants'[i] = grants[i]
          /\ caller = "waiting"
      BY <1>1, <1>4, ReturnGrants
    <2>2. credit >= 0
      <3>1. ~ (Call \/ Fail \/ CancelContext \/ Advance) /\ ~ UNCHANGED vars
        BY <1>1, <1>4, <2>1 DEF Call, Fail, CancelContext, Advance, vars, limiterVars
      <3> QED
        BY <1>1, <3>1, AlgorithmSteps, BucketSteps
    <2>3. Reserved(caller) = Interval
      BY <2>1 DEF Reserved
    <2>4. \A i \in 1 .. g : grants[i] \in Int /\ grants[i] <= now
      BY <1>1, GrantTimes
    <2>5. ASSUME NEW k \in Int
          PROVE  /\ (k + 1 - B) * Interval = k * Interval + Interval - B * Interval
                 /\ k * Interval \in Int
      BY <1>1
    <2>6. ASSUME NEW i \in 1 .. g, NEW j, j = g + 1
          PROVE  (j - i - B) * Interval <= now - grants[i]
      <3> DEFINE m == (g - i) * Interval
      <3>1. g - i \in Int /\ j - i - B = (g - i) + 1 - B
        BY <1>1, <2>6
      <3>2. (j - i - B) * Interval = m + Interval - Bucket!Full /\ m \in Int
        BY <1>1, <2>5, <3>1
      <3>3. credit <= Bucket!Full + (now - grants[i]) - m - Interval
        BY <1>1, <2>3, <2>6 DEF BucketInv
      <3> HIDE DEF m
      <3> QED
        BY <1>1, <2>2, <2>4, <2>6, <3>2, <3>3
    <2>7. (g + 1 - (g + 1) - B) * Interval <= 0
      <3>1. (g + 1 - (g + 1) - B) * Interval = 0 - Bucket!Full
        <4>1. g + 1 - (g + 1) - B = 0 - B /\ (0 - B) * Interval = 0 - B * Interval
          BY <1>1
        <4> QED
          BY <1>1, <4>1
      <3> QED
        BY <1>1, <3>1
    <2>8. ASSUME NEW j \in 1 .. g + 1, NEW i \in 1 .. j
          PROVE  /\ grants'[i] <= grants'[j]
                 /\ (j - i - B) * Interval <= grants'[j] - grants'[i]
      <3>1. CASE j \in 1 .. g
        <4>1. i \in 1 .. g /\ grants'[i] = grants[i] /\ grants'[j] = grants[j]
          BY <1>1, <2>1, <2>8, <3>1
        <4> QED
          BY <1>1, <2>8, <3>1, <4>1 DEF StretchInv
      <3>2. CASE j = g + 1 /\ i \in 1 .. g
        <4>1. grants'[j] = now /\ grants'[i] = grants[i] /\ grants[i] <= now
          BY <2>1, <2>4, <3>2
        <4> DEFINE p == (j - i - B) * Interval
        <4>2. p <= now - grants[i]
          BY <2>6, <3>2, Zenon
        <4> HIDE DEF p
        <4>3. grants'[i] <= grants'[j] /\ p <= grants'[j] - grants'[i]
          BY <4>1, <4>2
        <4> QED
          BY <4>3, Zenon DEF p
      <3>3. CASE j = g + 1 /\ i = g + 1
        <4> DEFINE p == (j - i - B) * Interval
        <4>1. grants'[j] = now /\ grants'[i] = now
          BY <2>1, <3>3
        <4>2. p <= 0 /\ p \in Int
          BY <1>1, <2>7, <3>3
        <4> HIDE DEF p
        <4>3. grants'[i] <= grants'[j] /\ p <= grants'[j] - grants'[i]
          BY <1>1, <4>1, <4>2
        <4> QED
          BY <4>3 DEF p
      <3> QED
        BY <1>1, <2>8, <3>1, <3>2, <3>3
    <2> QED
      BY <1>2, <2>1, <2>8 DEF StretchInv
  <1> QED
    BY <1>3, <1>4

-----------------------------------------------------------------------------
(* The theorems. *)

(* A limiter just created. *)
LEMMA LimitersInitInv == Init => LimitersInv
  <1> SUFFICES ASSUME Init PROVE LimitersInv
    OBVIOUS
  <1>1. /\ algorithm \in {"strict", "sliding_window", "token_bucket"}
        /\ now = 0 /\ caller = "idle" /\ since = 0 /\ grants = <<>> /\ ctxDone = FALSE
        /\ due = Interval /\ ticked = FALSE /\ stopped = FALSE
        /\ times = <<>> /\ polled = FALSE /\ credit = Bucket!Full
    BY SameInterval DEF Init, Strict!Init, Strict!LimiterInit, Sliding!Init, Bucket!Init
  <1>2. Len(grants) = 0 /\ grants \in Seq(0 .. MaxTime) /\ Len(times) = 0
        /\ times \in Seq(0 .. MaxTime) /\ 1 .. Len(grants) = {} /\ 1 .. Len(times) = {}
    BY <1>1
  <1>3. /\ algorithm \in {"strict", "sliding_window", "token_bucket"}
        /\ now = 0 /\ caller = "idle" /\ since = 0 /\ ctxDone = FALSE
        /\ due = Interval /\ ticked = FALSE /\ stopped = FALSE
        /\ polled = FALSE /\ credit = Bucket!Full
    BY <1>1
  <1>4. LimiterTypeOK
    <2>1. /\ caller \in {"idle", "waiting", "error"} /\ ctxDone \in BOOLEAN
          /\ now \in 0 .. MaxTime /\ since \in Nat /\ since <= now
      <3>1. 0 \in 0 .. MaxTime /\ 0 \in Nat /\ 0 <= 0
        BY MaxTimeAssumption
      <3> QED
        BY <1>3, <3>1
    <2>2. \A i \in 1 .. Len(grants) : grants[i] <= now
      BY <1>2
    <2> QED
      BY <1>2, <1>3, <2>1, <2>2, Zenon DEF LimiterTypeOK
  <1>5. StrictInv
    <2>1. due - Interval <= now /\ due \in Int /\ now <= due
      BY <1>3, IntervalPositive
    <2>2. ~ (Len(grants) >= 1) /\ ~ (Len(grants) >= 2)
      BY <1>2
    <2>3. caller # "waiting" /\ ticked \in BOOLEAN /\ stopped \in BOOLEAN /\ stopped # TRUE
      BY <1>3
    <2> QED
      BY <2>1, <2>2, <2>3, Zenon DEF StrictInv
  <1>6. SlidingInv
    <2>1. Len(grants) - Len(times) = 0 /\ \A i \in 1 .. 0 : FALSE
      BY <1>2
    <2>2. Len(grants) - Len(times) >= 0 /\ Len(times) <= Sliding!Allowed
      BY <1>2, WindowPositive
    <2> QED
      BY <1>2, <1>3, <2>1, <2>2 DEF SlidingInv
  <1>7. BucketInv
    <2>1. Reserved(caller) = 0 /\ 0 * Interval = 0
      BY <1>1, IntervalPositive DEF Reserved
    <2>2. (0 - Bucket!BurstSize) * Interval <= 0
      <3>1. ASSUME NEW b \in Nat, NEW i \in Nat PROVE (0 - b) * i <= 0
        <4>1. (0 - b) * i = 0 - b * i /\ b * i >= 0 /\ b * i \in Int
          BY SMT
        <4> QED
          BY <4>1
      <3> QED
        BY <3>1, BurstPositive, IntervalPositive
    <2> QED
      BY <1>2, <1>3, <2>1, <2>2, BurstPositive, IntervalPositive DEF BucketInv
  <1>8. StretchInv
    BY <1>2 DEF StretchInv
  <1> QED
    BY <1>4, <1>6, <1>7, <1>5, <1>8 DEF LimitersInv

(* LimitersInv is inductive. *)
LEMMA LimitersStepInv == LimitersInv /\ [Next]_vars => LimitersInv'
  BY LimiterTypeStep, StrictStep, SlidingStep, BucketStep, StretchStep, AlgorithmSteps
     DEF LimitersInv

(* No caller of Wait is kept beyond what its algorithm explains: the invariant
   bounds the wait by the next tick, the oldest entry of the window, and the
   credit that the reserved token lacks. *)
THEOREM WaitIsBounded == Spec => []WaitBounded
  <1>1. LimitersInv => WaitBounded
    <2> SUFFICES ASSUME LimitersInv PROVE WaitBounded
      OBVIOUS
    <2>1. LimiterTypeOK
      BY DEF LimitersInv
    <2>2. CASE algorithm = "strict"
      <3>1. StrictInv
        BY <2>2 DEF LimitersInv
      <3>2. now \in Int /\ since \in Int /\ Interval \in Nat \ {0} /\ due \in Int
            /\ ticked \in BOOLEAN /\ stopped \in BOOLEAN /\ ctxDone \in BOOLEAN
        BY <2>1, <3>1, IntervalPositive DEF LimiterTypeOK, StrictInv
      <3>3. ASSUME caller = "waiting", now - since > Interval, ctxDone = FALSE, ticked = FALSE
            PROVE  FALSE
        <4>1. due - Interval <= since /\ stopped = FALSE /\ now <= due
          BY <3>1, <3>2, <3>3 DEF StrictInv
        <4> QED
          BY <3>2, <3>3, <4>1
      <3>4. Strict!Waited = IF caller = "waiting" THEN now - since ELSE 0
        BY DEF Strict!Waited
      <3>5. Strict!Waited > Interval => caller = "waiting" /\ now - since > Interval
        BY <3>2, <3>4
      <3>6. Strict!WaitsAtMostAnInterval
        BY <3>2, <3>3, <3>5, SameInterval DEF Strict!WaitsAtMostAnInterval
      <3> QED
        BY <2>2, <3>6 DEF WaitBounded
    <2>3. CASE algorithm = "sliding_window"
      <3>1. SlidingInv
        BY <2>3 DEF LimitersInv
      <3>2. Sliding!WaitsAtMostAWindow
        BY <3>1 DEF SlidingInv, Sliding!WaitsAtMostAWindow, Sliding!Waited
      <3> QED
        BY <2>3, <3>2 DEF WaitBounded
    <2>4. CASE algorithm = "token_bucket"
      <3>1. BucketInv
        BY <2>4 DEF LimitersInv
      <3>2. now \in Int /\ since \in Int /\ Interval \in Nat \ {0} /\ credit \in Int
        BY <2>1, <3>1, IntervalPositive DEF LimiterTypeOK, BucketInv
      <3>3. Bucket!WaitsAtMostAToken
        BY <3>1, <3>2, SameInterval DEF BucketInv, Bucket!WaitsAtMostAToken, Bucket!Waited
      <3> QED
        BY <2>4, <3>3 DEF WaitBounded
    <2> QED
      BY <2>1, <2>2, <2>3, <2>4 DEF LimiterTypeOK
  <1> QED
    BY <1>1, LimitersInitInv, LimitersStepInv, PTL DEF Spec

(* tryGrant never forgets a grant that still counts, nor keeps more than the
   budget: l.times is exactly the recent part of the grants. *)
THEOREM RingIsRecent == Spec => []RingHoldsRecent
  <1>1. LimitersInv => RingHoldsRecent
    <2> SUFFICES ASSUME LimitersInv, algorithm = "sliding_window"
                 PROVE  Sliding!RingHoldsRecent
      BY DEF RingHoldsRecent
    <2> DEFINE lost == Len(grants) - Len(times)
               rest == SubSeq(grants, lost + 1, Len(grants))
    <2>1. SlidingInv /\ LimiterTypeOK
      BY DEF LimitersInv
    <2>2. /\ grants \in Seq(0 .. MaxTime) /\ times \in Seq(0 .. MaxTime)
          /\ Len(grants) \in Nat /\ Len(times) \in Nat /\ lost \in Nat
          /\ Len(times) <= Sliding!Allowed
          /\ \A i \in 1 .. Len(times) : times[i] = grants[lost + i]
          /\ \A i \in 1 .. lost : grants[i] < now - Sliding!WindowSize
          /\ \A i \in DOMAIN grants : grants[i] <= now
      BY <2>1 DEF SlidingInv, LimiterTypeOK
    <2>3. /\ rest \in Seq(0 .. MaxTime) /\ Len(rest) = Len(times)
          /\ \A i \in 1 .. Len(times) : rest[i] = grants[lost + i]
      <3>1. \A i \in lost + 1 .. Len(grants) : grants[i] \in 0 .. MaxTime
        <4>1. \A i \in lost + 1 .. Len(grants) : i \in 1 .. Len(grants)
          BY <2>2
        <4> HIDE DEF lost
        <4> QED
          BY <2>2, <4>1, ElementOfSeq, Zenon
      <3>2. /\ rest \in Seq(0 .. MaxTime)
            /\ Len(rest) = IF lost + 1 <= Len(grants) THEN Len(grants) - (lost + 1) + 1 ELSE 0
            /\ \A i \in 1 .. Len(grants) - (lost + 1) + 1 : rest[i] = grants[(lost + 1) + i - 1]
        BY <2>2, <3>1, SubSeqProperties
      <3>3. \A i \in Int : (lost + 1) + i - 1 = lost + i
        BY <2>2
      <3> HIDE DEF rest
      <3> QED
        BY <2>2, <3>2, <3>3
    <2> HIDE DEF rest
    <2>4. times = rest
      BY <2>2, <2>3, SeqEqual
    <2> QED
      BY <2>2, <2>4 DEF Sliding!RingHoldsRecent, rest
  <1> QED
    BY <1>1, LimitersInitInv, LimitersStepInv, PTL DEF Spec

(* Over no stretch of time does a token bucket grant more than a burst and one
   request per interval: not since the start, nor after any of its grants; and a
   latency compensation cannot lift that above one per MinInterval. *)
THEOREM BucketKeepsRate == Spec => []KeepsConfiguredRate
  <1>1. LimitersInv => KeepsConfiguredRate
    <2> SUFFICES ASSUME LimitersInv, algorithm = "token_bucket"
                 PROVE  Bucket!KeepsConfiguredRate
      BY DEF KeepsConfiguredRate
    <2> DEFINE B == Bucket!BurstSize
    <2>1. /\ LimiterTypeOK /\ BucketInv /\ StretchInv
          /\ B \in Nat /\ now \in Nat /\ Len(grants) \in Nat
          /\ grants \in Seq(0 .. MaxTime)
          /\ Interval \in Nat /\ MinInterval \in Nat
      BY IntervalPositive, BurstPositive, IntervalAssumption, MaxTimeAssumption
         DEF LimitersInv, LimiterTypeOK
    <2>2. DOMAIN grants = 1 .. Len(grants)
      BY <2>1
    <2>3. ASSUME NEW j \in 1 .. Len(grants), NEW i \in 1 .. j
          PROVE  /\ j - i - B \in Int /\ grants[j] - grants[i] \in Nat
                 /\ (j - i - B) * Interval <= grants[j] - grants[i]
      <3>1. i \in 1 .. Len(grants)
        BY <2>1, <2>3
      <3>2. grants[i] \in Nat /\ grants[j] \in Nat
        BY <2>1, <2>3, <3>1, GrantTimes
      <3>3. grants[i] <= grants[j] /\ (j - i - B) * Interval <= grants[j] - grants[i]
        BY <2>1, <2>3 DEF StretchInv
      <3> QED
        BY <2>1, <2>3, <3>1, <3>2, <3>3
    <2>4. Len(grants) - B \in Int /\ (Len(grants) - B) * Interval <= now
      BY <2>1 DEF BucketInv
    <2>5. Bucket!WithinRate(Interval)
      BY <2>2, <2>3, <2>4 DEF Bucket!WithinRate
    <2>6. ASSUME MinInterval <= Interval PROVE Bucket!WithinRate(MinInterval)
      <3>1. (Len(grants) - B) * MinInterval <= now
        BY <2>1, <2>4, <2>6, ShorterInterval
      <3>2. ASSUME NEW j \in 1 .. Len(grants), NEW i \in 1 .. j
            PROVE  (j - i - B) * MinInterval <= grants[j] - grants[i]
        BY <2>1, <2>3, <2>6, <3>2, ShorterInterval
      <3> QED
        BY <2>2, <3>1, <3>2 DEF Bucket!WithinRate
    <2> QED
      BY <2>5, <2>6, SameInterval, IntervalPositive DEF Bucket!KeepsConfiguredRate
  <1> QED
    BY <1>1, LimitersInitInv, LimitersStepInv, PTL DEF Spec

(* TokensAvailable never reports more than the bucket holds, nor a debt of more
   than one token. *)
THEOREM BucketIsBounded == Spec => []AvailableBounded
  <1>1. LimitersInv => AvailableBounded
    <2> SUFFICES ASSUME LimitersInv, algorithm = "token_bucket"
                 PROVE  Bucket!AvailableBounded
      BY DEF AvailableBounded
    <2>1. /\ credit \in Int /\ credit <= Bucket!BurstSize * Interval /\ credit >= - Interval
          /\ Interval \in Nat \ {0} /\ Bucket!BurstSize \in Nat \ {0}
      BY IntervalPositive, BurstPositive DEF LimitersInv, BucketInv
    <2>2. ASSUME NEW x \in Nat, NEW d \in Nat \ {0}, NEW k \in Nat, x <= k * d
          PROVE  x \div d \in 0 .. k
      <3> DEFINE q == x \div d
      <3>1. q \in Int /\ d * q <= x /\ x < d * q + d
        BY SMT
      <3> HIDE DEF q
      <3>2. q >= 0
        <4>1. ASSUME q <= -1 PROVE FALSE
          <5>1. d * q <= - d
            BY <3>1, <4>1, SMT
          <5>2. d * q \in Int
            BY <3>1
          <5> QED
            BY <3>1, <5>1, <5>2
        <4> QED
          BY <3>1, <4>1
      <3>3. q <= k
        <4>1. ASSUME q >= k + 1 PROVE FALSE
          <5>1. d * q >= k * d + d
            BY <3>1, <4>1, SMT
          <5>2. d * q \in Int /\ k * d \in Int
            BY <3>1
          <5> QED
            BY <2>2, <3>1, <5>1, <5>2
        <4> QED
          BY <3>1, <4>1
      <3>4. q \in 0 .. k
        BY <3>1, <3>2, <3>3
      <3> QED
        BY <3>4 DEF q
    <2>3. CASE credit >= 0
      <3>1. credit \div Interval \in 0 .. Bucket!BurstSize
        BY <2>1, <2>2, <2>3
      <3>2. Bucket!TokensAvailable = credit \div Interval
        BY <2>3, SameInterval DEF Bucket!TokensAvailable
      <3> QED
        BY <2>1, <3>1, <3>2 DEF Bucket!AvailableBounded
    <2>4. CASE credit < 0
      <3>1. - credit \in Nat /\ - credit <= 1 * Interval
        BY <2>1, <2>4
      <3>2. (- credit) \div Interval \in 0 .. 1
        BY <2>1, <2>2, <3>1
      <3>3. Bucket!TokensAvailable = - ((- credit) \div Interval)
        BY <2>1, <2>4, SameInterval DEF Bucket!TokensAvailable
      <3> QED
        BY <2>1, <3>2, <3>3 DEF Bucket!AvailableBounded
    <2> QED
      BY <2>1, <2>3, <2>4
  <1> QED
    BY <1>1, LimitersInitInv, LimitersStepInv, PTL DEF Spec

-----------------------------------------------------------------------------
(* The rate bound. *)

(* However close the calls of Wait come, the grant about to be given comes at
   least Spread after the one CloseGrants before it. *)
LEMMA GrantsAreSpread ==
    ASSUME LimitersInv, [Next]_vars, Return, Len(grants) >= CloseGrants
    PROVE  now - grants[Len(grants) + 1 - CloseGrants] >= Spread
  <1> DEFINE g == Len(grants)
  <1>1. /\ LimiterTypeOK /\ g \in Nat /\ now \in Nat /\ Interval \in Nat \ {0}
        /\ Len(grants') = g + 1
    BY ReturnGrants, IntervalPositive, MaxTimeAssumption DEF LimitersInv, LimiterTypeOK
  <1>2. grants' # grants
    BY <1>1
  <1>3. ~ UNCHANGED vars /\ ~ UNCHANGED limiterVars /\ ~ Call /\ ~ Fail
        /\ ~ CancelContext /\ ~ Advance
    BY <1>2 DEF vars, limiterVars, Call, Fail, CancelContext, Advance
  <1>4. \A i \in 1 .. g : grants[i] \in Int /\ grants[i] <= now
    BY <1>1, GrantTimes
  <1>5. CASE algorithm = "strict"
    <2>1. StrictInv /\ CloseGrants = 2 /\ Spread = Interval
      BY <1>5 DEF LimitersInv, CloseGrants, Spread
    <2>2. Strict!Next
      BY <1>3, <1>5, AlgorithmSteps
    <2>3. ticked
      BY <1>3, <2>2, StrictSteps
    <2>4. ticked = TRUE /\ due \in Int
      BY <2>1, <2>3 DEF StrictInv
    <2>5. g >= 2 /\ g + 1 - 2 = g - 1 /\ g - 1 \in 1 .. g
      BY <1>1, <2>1
    <2>6. grants[g - 1] + Interval <= due - Interval /\ due - Interval <= now
      BY <2>1, <2>4, <2>5 DEF StrictInv
    <2>7. now - grants[g - 1] >= Interval
      BY <1>1, <1>4, <2>4, <2>5, <2>6
    <2> QED
      BY <2>1, <2>5, <2>7
  <1>6. CASE algorithm = "sliding_window"
    <2> DEFINE W == Sliding!WindowSize
               A == Sliding!Allowed
    <2>1. SlidingInv /\ CloseGrants = A /\ Spread = W + 1 /\ A \in Nat \ {0} /\ W \in Nat \ {0}
      BY <1>6, WindowPositive DEF LimitersInv, CloseGrants, Spread
    <2>2. Sliding!Next
      BY <1>3, <1>6, AlgorithmSteps
    <2>3. PICK k \in 0 .. Len(times) :
            /\ Sliding!Stale(k)
            /\ Len(SubSeq(times, k + 1, Len(times))) < A
      BY <1>3, <2>2, SlidingSteps
    <2> DEFINE n == Len(SubSeq(times, k + 1, Len(times)))
    <2>4. /\ n \in Nat /\ n < A /\ g - n \in Nat
          /\ \A i \in 1 .. g - n : grants[i] < now - W
      BY <1>1, <2>1, <2>3, ForgetStale
    <2> HIDE DEF n, W, A
    <2>5. g + 1 - A \in 1 .. g - n /\ g + 1 - A \in 1 .. g
      BY <1>1, <2>1, <2>4
    <2>6. grants[g + 1 - A] < now - W /\ grants[g + 1 - A] \in Int
      BY <1>4, <2>4, <2>5
    <2>7. now - grants[g + 1 - A] >= W + 1
      BY <1>1, <2>1, <2>6
    <2> QED
      BY <2>1, <2>7
  <1>7. CASE algorithm = "token_bucket"
    <2> DEFINE B == Bucket!BurstSize
    <2>1. /\ BucketInv /\ CloseGrants = B + 1 /\ Spread = Interval /\ B \in Nat \ {0}
          /\ Bucket!Full = B * Interval /\ credit \in Int
      BY <1>7, BurstPositive DEF LimitersInv, CloseGrants, Spread, BucketInv
    <2>2. Bucket!Next
      BY <1>3, <1>7, AlgorithmSteps
    <2>3. credit >= 0
      BY <1>3, <2>1, <2>2, BucketSteps
    <2>4. caller = "waiting"
      BY DEF Return
    <2>5. \A i \in 1 .. g :
             credit <= Bucket!Full + (now - grants[i]) - (g - i) * Interval - Interval
      BY <2>1, <2>4 DEF BucketInv, Reserved
    <2> HIDE DEF B
    <2> DEFINE i == g + 1 - (B + 1)
    <2>6. i \in 1 .. g /\ g - i = B
      BY <1>1, <2>1
    <2> DEFINE m == B * Interval
    <2>7. credit <= m + (now - grants[i]) - m - Interval /\ m \in Int
      BY <1>1, <2>1, <2>5, <2>6
    <2>8. grants[i] \in Int
      BY <1>4, <2>6
    <2> HIDE DEF m, i
    <2>9. now - grants[i] >= Interval
      BY <1>1, <2>1, <2>3, <2>7, <2>8
    <2> QED
      BY <2>1, <2>9 DEF i
  <1> QED
    BY <1>1, <1>5, <1>6, <1>7 DEF LimiterTypeOK

(* "Limiter controls when rate-limited slots are made available": a ticker with one
   tick in store, a window of recent grants and a bucket of tokens all implement
   the same bound on the grants, whatever the rate, window and burst. *)
THEOREM LimitersKeepRate == Spec => RateSpec
  <1>1. Init => Rate!Init
    BY DEF Init, Strict!Init, Strict!LimiterInit, Rate!Init
  <1>2. LimitersInv /\ [Next]_vars => [Rate!Next]_<<CloseGrants, Spread, grants>>
    <2> SUFFICES ASSUME LimitersInv, [Next]_vars
                 PROVE  [Rate!Next]_<<CloseGrants, Spread, grants>>
      OBVIOUS
    <2>1. algorithm' = algorithm /\ CommonStep
      BY AlgorithmSteps
    <2>2. CloseGrants' = CloseGrants /\ Spread' = Spread
      BY <2>1 DEF CloseGrants, Spread, Sliding!Allowed, Sliding!WindowSize, Sliding!Interval,
                  Sliding!Max, Bucket!BurstSize, Interval, Max
    <2>3. CASE Return
      <3>1. LimiterTypeOK /\ now \in 0 .. MaxTime
        BY DEF LimitersInv, LimiterTypeOK
      <3>2. \A i \in DOMAIN grants : grants[i] <= now
        BY <3>1 DEF LimiterTypeOK
      <3>3. Len(grants) >= CloseGrants =>
               now - grants[Len(grants) + 1 - CloseGrants] >= Spread
        BY <2>3, GrantsAreSpread
      <3>4. grants' = Append(grants, now)
        BY <2>3 DEF Return
      <3>5. Rate!Grant(now)
        BY <2>2, <3>2, <3>3, <3>4 DEF Rate!Grant
      <3> QED
        BY <3>1, <3>5 DEF Rate!Next
    <2>4. CASE ~ Return
      <3>1. grants' = grants
        BY <2>1, <2>4 DEF CommonStep, Call, Fail, CancelContext, Advance, limiterVars
      <3> QED
        BY <2>2, <3>1
    <2> QED
      BY <2>3, <2>4
  <1> QED
    BY <1>1, <1>2, LimitersInitInv, LimitersStepInv, PTL DEF Spec, RateSpec, Rate!Spec

-----------------------------------------------------------------------------
(* II. QueueImpl.  The tickets of a queue are distinct and those of the priority
   queue form a heap; the loops are followed round by round. *)

-----------------------------------------------------------------------------
(* Loops. *)

(* The states of n rounds, from the state before the first. *)
Runs(d, round, x, n) == d = [k \in 0 .. n |-> IF k = 0 THEN x ELSE round[d[k - 1]]]

(* If the recursive function behind a loop exists, the loop ends in its last value. *)
LEMMA RoundsRun ==
    ASSUME NEW round, NEW x, NEW n \in Nat, \E d : Runs(d, round, x, n)
    PROVE  \E d : Runs(d, round, x, n) /\ Rounds(round, x, n) = d[n]
  BY DEF Rounds, Runs

(* A loop can be run for any number of rounds. *)
LEMMA RunExists ==
    ASSUME NEW round, NEW x, NEW n \in Nat
    PROVE  \E d : Runs(d, round, x, n)
  <1> SUFFICES ASSUME ~\E d : Runs(d, round, x, n) PROVE FALSE
    OBVIOUS
  <1> DEFINE T == {k \in Nat : ~\E d : Runs(d, round, x, k)}
  <1>1. T \subseteq Nat /\ T # {}
    OBVIOUS
  <1> HIDE DEF T
  <1>2. PICK m \in T : \A k \in T : m <= k
    BY <1>1, MinIsSmallest
  <1> USE DEF T
  <1>3. m \in Nat /\ ~\E d : Runs(d, round, x, m)
    BY <1>2
  <1>4. CASE m = 0
    <2> DEFINE d == [k \in 0 .. 0 |-> x]
    <2>1. d = [k \in 0 .. 0 |-> IF k = 0 THEN x ELSE round[d[k - 1]]]
      OBVIOUS
    <2> QED
      BY <1>3, <1>4, <2>1 DEF Runs
  <1>5. CASE m # 0
    <2>1. m - 1 \in Nat /\ m - 1 < m
      BY <1>3, <1>5
    <2>2. PICK e : Runs(e, round, x, m - 1)
      BY <1>2, <2>1
    <2> DEFINE d == [k \in 0 .. m |-> IF k = m THEN round[e[m - 1]] ELSE e[k]]
    <2>3. ASSUME NEW k \in 0 .. m
          PROVE  d[k] = IF k = 0 THEN x ELSE round[d[k - 1]]
      <3>1. CASE k = 0
        BY <1>3, <1>5, <2>1, <2>2, <3>1 DEF Runs
      <3>2. CASE k # 0
        <4>1. k - 1 \in 0 .. m - 1 /\ k - 1 \in 0 .. m /\ k - 1 # m /\ d[k - 1] = e[k - 1]
          BY <1>3, <3>2
        <4>2. CASE k = m
          BY <3>2, <4>1, <4>2
        <4>3. CASE k # m
          <5>1. k \in 0 .. m - 1
            BY <1>3, <4>3
          <5>2. e[k] = round[e[k - 1]]
            BY <2>2, <3>2, <5>1 DEF Runs
          <5> QED
            BY <3>2, <4>1, <4>3, <5>2
        <4> QED
          BY <4>2, <4>3
      <3> QED
        BY <3>1, <3>2
    <2>4. d = [k \in 0 .. m |-> d[k]]
      OBVIOUS
    <2> HIDE DEF d
    <2>5. d = [k \in 0 .. m |-> IF k = 0 THEN x ELSE round[d[k - 1]]]
      BY <2>3, <2>4
    <2> QED
      BY <1>3, <2>5, Zenon DEF Runs
  <1> QED
    BY <1>4, <1>5

(* What every round carries from P[k] into P[k + 1] holds after the loop: the way a
   loop is reasoned about here, P being the invariant at the start of round k + 1. *)
LEMMA RoundsKeep ==
    ASSUME NEW round, NEW x, NEW n \in Nat, NEW P, x \in P[0],
           \A k \in 0 .. n - 1 : \A y \in P[k] : round[y] \in P[k + 1]
    PROVE  Rounds(round, x, n) \in P[n]
  <1>1. PICK d : Runs(d, round, x, n) /\ Rounds(round, x, n) = d[n]
    BY RunExists, RoundsRun
  <1> SUFFICES ASSUME d[n] \notin P[n] PROVE FALSE
    BY <1>1
  <1> DEFINE T == {k \in 0 .. n : d[k] \notin P[k]}
  <1>2. T \subseteq Nat /\ T # {}
    OBVIOUS
  <1> HIDE DEF T
  <1>3. PICK m \in T : \A k \in T : m <= k
    BY <1>2, MinIsSmallest
  <1> USE DEF T
  <1>4. m \in 0 .. n /\ d[m] \notin P[m]
    BY <1>3
  <1>5. m # 0
    BY <1>1, <1>4 DEF Runs
  <1>6. m - 1 \in 0 .. n - 1 /\ m - 1 \in 0 .. n /\ m - 1 < m /\ (m - 1) + 1 = m
    BY <1>4, <1>5
  <1>7. d[m - 1] \in P[m - 1]
    BY <1>3, <1>6
  <1>8. d[m] = round[d[m - 1]]
    BY <1>1, <1>4, <1>5 DEF Runs
  <1> QED
    BY <1>4, <1>6, <1>7, <1>8

-----------------------------------------------------------------------------
(* The order of the heap. *)

(* The fields of the tickets; the time stamps are distinct. *)
FieldsOK ==
    /\ prio \in [Tickets -> Int] /\ cost \in [Tickets -> Int]
    /\ at = [t \in Tickets |-> t]

(* Ticket a leaves the heap before ticket b. *)
Lt(a, b) == Reference!Less(prio, at, a, b)

(* priorityHeap.Less is a strict total order. *)
LEMMA LtOrders ==
    ASSUME FieldsOK
    PROVE  /\ \A a \in Tickets : ~Lt(a, a)
           /\ \A a, b \in Tickets : a # b => Lt(a, b) \/ Lt(b, a)
           /\ \A a, b, c \in Tickets : Lt(a, b) /\ Lt(b, c) => Lt(a, c)
  <1>1. \A t \in Tickets : prio[t] \in Int /\ at[t] = t /\ t \in Int
    BY TicketsAssumption DEF FieldsOK
  <1> QED
    BY <1>1 DEF Lt, Reference!Less

(* Two tickets are not each before the other, and what is not after a third ticket is
   not after those behind it. *)
LEMMA LtChains ==
    ASSUME FieldsOK
    PROVE  /\ \A a, b \in Tickets : Lt(a, b) => ~Lt(b, a)
           /\ \A a, b, c \in Tickets : ~Lt(b, a) /\ ~Lt(c, b) => ~Lt(c, a)
           /\ \A a, b, c \in Tickets : Lt(a, b) /\ ~Lt(c, b) => ~Lt(c, a)
  BY LtOrders

(* The parent of k, and the children of i. *)
LEMMA Family ==
    /\ \A k \in Nat : k >= 2 => k \div 2 \in Nat /\ k \div 2 >= 1 /\ k \div 2 < k
    /\ \A i, k \in Nat : k \div 2 = i <=> (k = 2 * i \/ k = 2 * i + 1)
  OBVIOUS

-----------------------------------------------------------------------------
(* Swaps. *)

(* g holds the tickets of h in another order. *)
Reordered(h, g) ==
    /\ g \in Slices /\ Len(g) = Len(h) /\ Range(g) = Range(h)
    /\ IsInjective(h) => IsInjective(g)

(* Swap exchanges two tickets and nothing else. *)
LEMMA SwapReorders ==
    ASSUME NEW h \in Slices, NEW i \in DOMAIN h, NEW j \in DOMAIN h
    PROVE  /\ Reordered(h, Swap(h, i, j))
           /\ \A k \in DOMAIN h : /\ k = i => Swap(h, i, j)[k] = h[j]
                                  /\ k = j => Swap(h, i, j)[k] = h[i]
                                  /\ k # i /\ k # j => Swap(h, i, j)[k] = h[k]
  <1> DEFINE g == Swap(h, i, j)
  <1>1. /\ Len(h) \in Nat /\ DOMAIN h = 1 .. Len(h)
        /\ h \in [1 .. Len(h) -> Tickets]
    BY DEF Slices
  <1>2. g \in [1 .. Len(h) -> Tickets]
    BY <1>1 DEF Swap
  <1>3. g \in Slices /\ Len(g) = Len(h) /\ DOMAIN g = DOMAIN h
    BY <1>1, <1>2 DEF Slices
  <1>4. \A k \in DOMAIN h : g[k] = IF k = j THEN h[i] ELSE IF k = i THEN h[j] ELSE h[k]
    BY <1>1 DEF Swap
  <1> HIDE DEF g
  <1>5. Range(g) = Range(h)
    <2>1. \A k \in DOMAIN g : g[k] \in Range(h)
      BY <1>3, <1>4 DEF Range
    <2>2. \A k \in DOMAIN h : \E l \in DOMAIN g : g[l] = h[k]
      <3> SUFFICES ASSUME NEW k \in DOMAIN h PROVE \E l \in DOMAIN g : g[l] = h[k]
        OBVIOUS
      <3>1. CASE k = i
        BY <1>3, <1>4, <3>1
      <3>2. CASE k = j
        BY <1>3, <1>4, <3>2
      <3>3. CASE k # i /\ k # j
        BY <1>3, <1>4, <3>3
      <3> QED
        BY <3>1, <3>2, <3>3
    <2> QED
      BY <2>1, <2>2 DEF Range
  <1>6. IsInjective(h) => IsInjective(g)
    BY <1>3, <1>4 DEF IsInjective
  <1> QED
    BY <1>3, <1>4, <1>5, <1>6 DEF g, Reordered

(* Orders of orders. *)
LEMMA ReorderedTwice ==
    ASSUME NEW h \in Slices, NEW g \in Slices, NEW f \in Slices,
           Reordered(h, g), Reordered(g, f)
    PROVE  Reordered(h, f)
  BY DEF Reordered

-----------------------------------------------------------------------------
(* Sifting. *)

(* The first n tickets of h form a heap. *)
HeapOK(h, n) == \A k \in 2 .. n : ~Lt(h[k], h[k \div 2])

(* The first of a heap is the least. *)
LEMMA RootLeast ==
    ASSUME FieldsOK, NEW h \in Slices, HeapOK(h, Len(h))
    PROVE  \A k \in DOMAIN h : ~Lt(h[k], h[1])
  <1> SUFFICES ASSUME \E k \in DOMAIN h : Lt(h[k], h[1]) PROVE FALSE
    OBVIOUS
  <1> DEFINE T == {k \in DOMAIN h : Lt(h[k], h[1])}
  <1>1. Len(h) \in Nat /\ DOMAIN h = 1 .. Len(h) /\ \A k \in DOMAIN h : h[k] \in Tickets
    BY DEF Slices
  <1>2. T \subseteq Nat /\ T # {}
    BY <1>1
  <1> HIDE DEF T
  <1>3. PICK m \in T : \A k \in T : m <= k
    BY <1>2, MinIsSmallest
  <1> USE DEF T
  <1>4. m \in 1 .. Len(h) /\ Lt(h[m], h[1]) /\ 1 \in DOMAIN h
    BY <1>1, <1>3
  <1>5. m # 1
    BY <1>1, <1>4, LtOrders
  <1> DEFINE p == m \div 2
  <1>6. p \in Nat /\ p >= 1 /\ p < m
    BY <1>4, <1>5, Family
  <1> HIDE DEF p
  <1>7. p \in DOMAIN h /\ p \notin T
    BY <1>1, <1>3, <1>4, <1>6
  <1>8. ~Lt(h[p], h[1])
    BY <1>7
  <1>9. ~Lt(h[m], h[p])
    BY <1>4, <1>5 DEF HeapOK, p
  <1> QED
    BY <1>1, <1>4, <1>7, <1>8, <1>9, LtChains

-----------------------------------------------------------------------------
(* Sifting up. *)

(* Only the ticket at j may be before its parent, and not those below it. *)
RisesAt(h, j) ==
    /\ \A k \in 2 .. Len(h) : k # j => ~Lt(h[k], h[k \div 2])
    /\ \A k \in 2 .. Len(h) : k \div 2 = j /\ j > 1 => ~Lt(h[k], h[j \div 2])

(* A ticket that rises leaves that to its new place. *)
LEMMA RisesOn ==
    ASSUME FieldsOK, NEW h \in Slices, NEW j \in DOMAIN h, j # 1,
           RisesAt(h, j), Lt(h[j], h[j \div 2])
    PROVE  /\ j \div 2 \in DOMAIN h /\ j \div 2 < j
           /\ RisesAt(Swap(h, j, j \div 2), j \div 2)
  <1> DEFINE p == j \div 2
             g == Swap(h, j, p)
  <1>1. Len(h) \in Nat /\ DOMAIN h = 1 .. Len(h) /\ \A k \in DOMAIN h : h[k] \in Tickets
    BY DEF Slices
  <1>2. p \in Nat /\ p >= 1 /\ p < j
    BY <1>1, Family
  <1>3. p \in DOMAIN h
    BY <1>1, <1>2
  <1>4. Lt(h[j], h[p]) /\ RisesAt(h, j)
    OBVIOUS
  <1>5. /\ g[j] = h[p] /\ g[p] = h[j] /\ Len(g) = Len(h)
        /\ \A k \in DOMAIN h : k # j /\ k # p => g[k] = h[k]
    BY <1>3, SwapReorders DEF Reordered
  <1>6. j \div 2 = p
    OBVIOUS
  <1> HIDE DEF p, g
  <1>7. ASSUME NEW k \in 2 .. Len(h)
        PROVE  /\ k \in DOMAIN h /\ k \div 2 \in DOMAIN h /\ k \div 2 < k
               /\ k # j => ~Lt(h[k], h[k \div 2])
    BY <1>1, <1>4, Family DEF RisesAt
  <1>8. ASSUME NEW k \in 2 .. Len(h), k # p
        PROVE  ~Lt(g[k], g[k \div 2])
    <2>1. CASE k = j
      BY <1>1, <1>3, <1>4, <1>5, <1>6, <2>1, LtChains
    <2>2. CASE k # j /\ k \div 2 = j
      <3>1. ~Lt(h[k], h[p])
        BY <1>1, <1>2, <1>4, <1>6, <2>2 DEF RisesAt
      <3> QED
        BY <1>5, <1>7, <1>8, <2>2, <3>1
    <2>3. CASE k # j /\ k \div 2 = p
      <3>1. ~Lt(h[k], h[p])
        BY <1>7, <2>3
      <3>2. ~Lt(h[k], h[j])
        BY <1>1, <1>3, <1>4, <1>7, <3>1, LtOrders
      <3> QED
        BY <1>5, <1>7, <1>8, <2>3, <3>2
    <2>4. CASE k # j /\ k \div 2 # j /\ k \div 2 # p
      BY <1>5, <1>7, <1>8, <2>4
    <2> QED
      BY <2>1, <2>2, <2>3, <2>4
  <1>9. ASSUME NEW k \in 2 .. Len(h), k \div 2 = p, p > 1
        PROVE  ~Lt(g[k], g[p \div 2])
    <2> DEFINE q == p \div 2
    <2>1. q \in Nat /\ q >= 1 /\ q < p
      BY <1>2, <1>9, Family
    <2>2. p \in 2 .. Len(h) /\ p # j
      BY <1>1, <1>2, <1>3, <1>9
    <2>3. ~Lt(h[p], h[q])
      BY <1>7, <2>2
    <2> HIDE DEF q
    <2>4. q \in DOMAIN h /\ g[q] = h[q]
      BY <1>1, <1>2, <1>3, <1>5, <2>1
    <2>5. CASE k = j
      BY <1>5, <2>3, <2>4, <2>5 DEF q
    <2>6. CASE k # j
      <3>1. k # p /\ k \in DOMAIN h /\ ~Lt(h[k], h[p])
        BY <1>2, <1>7, <1>9, <2>6
      <3>2. ~Lt(h[k], h[q])
        BY <1>1, <1>3, <2>3, <2>4, <3>1, LtChains
      <3> QED
        BY <1>5, <2>4, <2>6, <3>1, <3>2 DEF q
    <2> QED
      BY <2>5, <2>6
  <1>10. RisesAt(g, p)
    BY <1>5, <1>8, <1>9 DEF RisesAt
  <1> QED
    BY <1>2, <1>3, <1>10 DEF g, p

(* up makes a heap of one whose last ticket may be misplaced. *)
LEMMA UpMakesHeap ==
    ASSUME FieldsOK, NEW h \in Slices, h # <<>>, RisesAt(h, Len(h))
    PROVE  LET g == Up(h, Len(h)) IN Reordered(h, g) /\ HeapOK(g, Len(h))
  <1> DEFINE n == Len(h)
             Stays(s) == s.j = 1 \/ ~Lt(s.h[s.j], s.h[s.j \div 2])
             P == [k \in 0 .. n |->
                     {s \in Sifting : /\ Reordered(h, s.h) /\ s.j \in 1 .. n
                                      /\ RisesAt(s.h, s.j)
                                      /\ Stays(s) \/ s.j + k <= n}]
             x == [h |-> h, j |-> n]
  <1>1. n \in Nat /\ n >= 1 /\ DOMAIN h = 1 .. n
    BY DEF Slices
  <1>2. x \in P[0]
    <2>1. x \in Sifting /\ x.h = h /\ x.j = n
      BY <1>1 DEF Sifting
    <2>2. Reordered(h, h)
      BY DEF Reordered
    <2> QED
      BY <1>1, <2>1, <2>2
  <1>3. ASSUME NEW k \in 0 .. n - 1, NEW s \in P[k]
        PROVE  UpRound[s] \in P[k + 1]
    <2>1. /\ s \in Sifting /\ Reordered(h, s.h) /\ s.j \in 1 .. n
          /\ RisesAt(s.h, s.j) /\ (Stays(s) \/ s.j + k <= n)
      BY <1>1
    <2>2. s.h \in Slices /\ Len(s.h) = n /\ DOMAIN s.h = 1 .. n
      BY <1>1, <2>1 DEF Reordered, Slices
    <2>3. CASE Stays(s)
      <3>1. UpRound[s] = s
        BY <2>1, <2>3 DEF UpRound, HeapLess, Lt
      <3> QED
        BY <1>1, <2>1, <2>3, <3>1
    <2>4. CASE ~Stays(s)
      <3> DEFINE p == s.j \div 2
                 g == Swap(s.h, s.j, p)
                 r == [h |-> g, j |-> p]
      <3>1. UpRound[s] = r
        BY <2>1, <2>4 DEF UpRound, HeapLess, Lt
      <3>2. p \in DOMAIN s.h /\ p < s.j /\ RisesAt(g, p)
        BY <2>1, <2>2, <2>4, RisesOn
      <3>3. Reordered(s.h, g)
        BY <2>1, <2>2, <3>2, SwapReorders
      <3>4. Reordered(h, g) /\ g \in Slices
        BY <2>1, <2>2, <3>3, ReorderedTwice DEF Reordered
      <3> HIDE DEF g, p
      <3>5. r \in Sifting /\ r.h = g /\ r.j = p
        BY <1>1, <2>2, <3>2, <3>4 DEF Sifting
      <3>6. p + (k + 1) <= n /\ p \in 1 .. n
        BY <1>1, <2>1, <2>2, <2>4, <3>2
      <3> QED
        BY <1>1, <3>1, <3>2, <3>4, <3>5, <3>6
    <2> QED
      BY <2>3, <2>4
  <1> HIDE DEF P, x
  <1>4. Rounds(UpRound, x, n) \in P[n]
    BY <1>1, <1>2, <1>3, RoundsKeep
  <1> DEFINE s == Rounds(UpRound, x, n)
  <1>5. Reordered(h, s.h) /\ s.j \in 1 .. n /\ RisesAt(s.h, s.j) /\ (Stays(s) \/ s.j + n <= n)
    BY <1>1, <1>4 DEF P
  <1>6. Len(s.h) = n /\ Up(h, n) = s.h
    BY <1>5 DEF Reordered, Up, x
  <1> HIDE DEF s
  <1>7. Stays(s)
    BY <1>1, <1>5
  <1>8. ASSUME NEW k \in 2 .. n PROVE ~Lt(s.h[k], s.h[k \div 2])
    <2>1. CASE k = s.j
      BY <1>1, <1>7, <2>1
    <2>2. CASE k # s.j
      BY <1>5, <1>6, <2>2 DEF RisesAt
    <2> QED
      BY <2>1, <2>2
  <1>9. HeapOK(s.h, n)
    BY <1>8 DEF HeapOK
  <1> QED
    BY <1>5, <1>6, <1>9

-----------------------------------------------------------------------------
(* Sifting down. *)

(* Among the first n, only the ticket at i may be behind its children, and its parent
   is not. *)
SinksAt(h, i, n) ==
    /\ \A k \in 2 .. n : k \div 2 # i => ~Lt(h[k], h[k \div 2])
    /\ \A k \in 2 .. n : k \div 2 = i /\ i > 1 => ~Lt(h[k], h[i \div 2])

(* The child of i that down compares it with. *)
Child(h, i, n) ==
    IF 2 * i + 1 <= n /\ Lt(h[2 * i + 1], h[2 * i]) THEN 2 * i + 1 ELSE 2 * i

(* It is a child, and no child is before it. *)
LEMMA ChildIsLeast ==
    ASSUME FieldsOK, NEW h \in Slices, NEW n \in 0 .. Len(h), NEW i \in 1 .. n, 2 * i <= n
    PROVE  /\ Child(h, i, n) \in 2 .. n /\ Child(h, i, n) > i /\ Child(h, i, n) \div 2 = i
           /\ \A k \in 2 .. n : k \div 2 = i => ~Lt(h[k], h[Child(h, i, n)])
  <1>1. Len(h) \in Nat /\ n \in Nat /\ n <= Len(h) /\ i \in Nat /\ i >= 1
        /\ \A k \in 1 .. Len(h) : h[k] \in Tickets
    BY DEF Slices
  <1> DEFINE c == Child(h, i, n)
  <1>2. (c = 2 * i \/ c = 2 * i + 1) /\ c <= n
    <2>1. CASE 2 * i + 1 <= n /\ Lt(h[2 * i + 1], h[2 * i])
      BY <1>1, <2>1 DEF Child
    <2>2. CASE ~(2 * i + 1 <= n /\ Lt(h[2 * i + 1], h[2 * i]))
      BY <1>1, <2>2 DEF Child
    <2> QED
      BY <2>1, <2>2
  <1> HIDE DEF c
  <1>3. c \in 2 .. n /\ c > i /\ c \div 2 = i
    <2>1. c \in Nat /\ c >= 2 /\ c > i
      BY <1>1, <1>2
    <2>2. c \div 2 = i
      BY <1>1, <1>2, <2>1, Family
    <2> QED
      BY <1>1, <1>2, <2>1, <2>2
  <1>4. ASSUME NEW k \in 2 .. n, k \div 2 = i PROVE ~Lt(h[k], h[c])
    <2>1. k = 2 * i \/ k = 2 * i + 1
      BY <1>1, <1>4, Family
    <2>2. h[k] \in Tickets /\ h[2 * i] \in Tickets
      BY <1>1
    <2>3. CASE k = 2 * i
      BY <1>1, <1>4, <2>2, <2>3, LtChains, LtOrders DEF c, Child
    <2>4. CASE k = 2 * i + 1
      BY <1>1, <1>4, <2>2, <2>4, LtOrders DEF c, Child
    <2> QED
      BY <2>1, <2>3, <2>4
  <1> QED
    BY <1>3, <1>4 DEF c

(* A ticket that sinks leaves that to its new place. *)
LEMMA SinksOn ==
    ASSUME FieldsOK, NEW h \in Slices, NEW n \in 0 .. Len(h), NEW i \in 1 .. n,
           SinksAt(h, i, n), 2 * i <= n, Lt(h[Child(h, i, n)], h[i])
    PROVE  SinksAt(Swap(h, i, Child(h, i, n)), Child(h, i, n), n)
  <1> DEFINE c == Child(h, i, n)
             g == Swap(h, i, c)
  <1>1. Len(h) \in Nat /\ DOMAIN h = 1 .. Len(h) /\ \A k \in DOMAIN h : h[k] \in Tickets
    BY DEF Slices
  <1>2. /\ c \in 2 .. n /\ c > i /\ c \div 2 = i
        /\ \A k \in 2 .. n : k \div 2 = i => ~Lt(h[k], h[c])
    BY ChildIsLeast
  <1>3. n \in Nat /\ i \in Nat /\ i \in DOMAIN h /\ c \in DOMAIN h /\ Lt(h[c], h[i])
    BY <1>1, <1>2
  <1>4. /\ g[i] = h[c] /\ g[c] = h[i]
        /\ \A k \in DOMAIN h : k # i /\ k # c => g[k] = h[k]
    BY <1>3, SwapReorders
  <1> HIDE DEF c, g
  <1>5. ASSUME NEW k \in 2 .. n
        PROVE  /\ k \in DOMAIN h /\ k \div 2 \in DOMAIN h /\ k \div 2 < k
               /\ k \div 2 # i => ~Lt(h[k], h[k \div 2])
    BY <1>1, <1>3, Family DEF SinksAt
  <1>6. ASSUME NEW k \in 2 .. n, k \div 2 # c
        PROVE  ~Lt(g[k], g[k \div 2])
    <2>1. CASE k = c
      BY <1>1, <1>2, <1>3, <1>4, <2>1, LtChains
    <2>2. CASE k # c /\ k \div 2 = i
      <3>1. ~Lt(h[k], h[c]) /\ k # i
        BY <1>2, <1>5, <2>2
      <3> QED
        BY <1>4, <1>5, <2>2, <3>1
    <2>3. CASE k = i
      <3>1. ~Lt(h[c], h[i \div 2])
        BY <1>1, <1>2, <1>3, <2>3 DEF SinksAt
      <3>2. i \div 2 # i /\ i \div 2 # c /\ i \div 2 \in DOMAIN h
        BY <1>2, <1>5, <1>6, <2>3
      <3> QED
        BY <1>4, <2>3, <3>1, <3>2
    <2>4. CASE k # c /\ k # i /\ k \div 2 # i
      BY <1>4, <1>5, <1>6, <2>4
    <2> QED
      BY <2>1, <2>2, <2>3, <2>4
  <1>7. ASSUME NEW k \in 2 .. n, k \div 2 = c
        PROVE  ~Lt(g[k], g[c \div 2])
    <2>1. k # c /\ k # i /\ c # i
      BY <1>2, <1>3, <1>5, <1>7
    <2>2. g[k] = h[k] /\ g[c \div 2] = h[c] /\ ~Lt(h[k], h[c])
      BY <1>2, <1>4, <1>5, <1>7, <2>1
    <2> QED
      BY <2>2
  <1>8. SinksAt(g, c, n)
    BY <1>6, <1>7 DEF SinksAt
  <1> QED
    BY <1>8 DEF g, c

(* What down stops at is a heap. *)
LEMMA SunkIsHeap ==
    ASSUME FieldsOK, NEW h \in Slices, NEW n \in 0 .. Len(h), NEW i \in Nat, i >= 1,
           SinksAt(h, i, n), 2 * i > n \/ ~Lt(h[Child(h, i, n)], h[i])
    PROVE  HeapOK(h, n)
  <1>1. Len(h) \in Nat /\ DOMAIN h = 1 .. Len(h) /\ \A k \in DOMAIN h : h[k] \in Tickets
    BY DEF Slices
  <1> SUFFICES ASSUME NEW k \in 2 .. n, k \div 2 = i PROVE ~Lt(h[k], h[i])
    BY DEF HeapOK, SinksAt
  <1>2. 2 * i <= n /\ i \in 1 .. n /\ k \in DOMAIN h /\ i \in DOMAIN h
    BY <1>1, Family
  <1>3. ~Lt(h[k], h[Child(h, i, n)]) /\ Child(h, i, n) \in 2 .. n
    BY <1>2, ChildIsLeast
  <1>4. Child(h, i, n) \in DOMAIN h
    BY <1>1, <1>3
  <1> QED
    BY <1>1, <1>2, <1>3, <1>4, LtChains

(* down makes a heap of the first n tickets if only the first may be misplaced, and
   does not touch the others. *)
LEMMA DownMakesHeap ==
    ASSUME FieldsOK, NEW h \in Slices, NEW n \in 0 .. Len(h), SinksAt(h, 1, n)
    PROVE  LET g == Down(h, 1, n)
           IN  /\ Reordered(h, g) /\ HeapOK(g, n)
               /\ \A k \in DOMAIN h : k > n => g[k] = h[k]
  <1> DEFINE Stays(s) == 2 * s.j > n \/ ~Lt(s.h[Child(s.h, s.j, n)], s.h[s.j])
             Rest(g) == \A k \in DOMAIN h : k > n => g[k] = h[k]
             P == [k \in 0 .. n |->
                     {s \in Sifting : /\ Reordered(h, s.h) /\ Rest(s.h) /\ s.j >= 1
                                      /\ SinksAt(s.h, s.j, n)
                                      /\ Stays(s) \/ s.j > k}]
             x == [h |-> h, j |-> 1]
  <1>1. n \in Nat /\ Len(h) \in Nat /\ n <= Len(h) /\ DOMAIN h = 1 .. Len(h)
    BY DEF Slices
  <1>2. x \in P[0]
    <2>1. x \in Sifting /\ x.h = h /\ x.j = 1
      BY <1>1 DEF Sifting
    <2>2. Reordered(h, h) /\ Rest(h)
      BY DEF Reordered
    <2> QED
      BY <1>1, <2>1, <2>2
  <1>3. ASSUME NEW k \in 0 .. n - 1, NEW s \in P[k]
        PROVE  DownRound(n)[s] \in P[k + 1]
    <2>1. /\ s \in Sifting /\ Reordered(h, s.h) /\ Rest(s.h) /\ s.j \in Nat /\ s.j >= 1
          /\ SinksAt(s.h, s.j, n) /\ (Stays(s) \/ s.j > k)
      BY <1>1 DEF Sifting
    <2>2. s.h \in Slices /\ Len(s.h) = Len(h) /\ DOMAIN s.h = DOMAIN h /\ n \in 0 .. Len(s.h)
      BY <1>1, <2>1 DEF Reordered, Slices
    <2> DEFINE c == Child(s.h, s.j, n)
               g == Swap(s.h, s.j, c)
               r == [h |-> g, j |-> c]
    <2>3. DownRound(n)[s] = IF Stays(s) THEN s ELSE r
      <3>1. 2 * s.j > n => c = 2 * s.j
        BY <1>1, <2>1 DEF Child
      <3>2. \A f, a, b : HeapLess(f, a, b) <=> Lt(f[a], f[b])
        BY DEF HeapLess, Lt
      <3> QED
        BY <2>1, <3>1, <3>2 DEF DownRound, Child
    <2>4. CASE Stays(s)
      BY <1>1, <2>1, <2>3, <2>4
    <2>5. CASE ~Stays(s)
      <3>1. 2 * s.j <= n /\ s.j \in 1 .. n /\ Lt(s.h[c], s.h[s.j])
        BY <1>1, <2>1, <2>5
      <3>2. c \in 2 .. n /\ c > s.j
        BY <2>2, <3>1, ChildIsLeast
      <3>3. SinksAt(g, c, n)
        BY <2>1, <2>2, <3>1, SinksOn
      <3> HIDE DEF c
      <3>4. s.j \in DOMAIN s.h /\ c \in DOMAIN s.h
        BY <1>1, <2>2, <3>1, <3>2
      <3>5. Reordered(s.h, g) /\ \A m \in DOMAIN s.h : m # s.j /\ m # c => g[m] = s.h[m]
        BY <2>2, <3>4, SwapReorders
      <3>6. Reordered(h, g) /\ g \in Slices
        BY <2>1, <2>2, <3>5, ReorderedTwice DEF Reordered
      <3>7. Rest(g)
        <4> SUFFICES ASSUME NEW m \in DOMAIN h, m > n PROVE g[m] = h[m]
          OBVIOUS
        <4>1. m # s.j /\ m # c
          BY <1>1, <3>1, <3>2
        <4> QED
          BY <2>1, <2>2, <3>5, <4>1
      <3> HIDE DEF g, Rest
      <3>8. r \in Sifting /\ r.h = g /\ r.j = c /\ c >= 1 /\ c > k + 1
        BY <1>1, <2>1, <2>5, <3>2, <3>6 DEF Sifting
      <3> QED
        BY <1>1, <2>3, <2>5, <3>3, <3>6, <3>7, <3>8
    <2> QED
      BY <2>4, <2>5
  <1> HIDE DEF P, x
  <1>4. Rounds(DownRound(n), x, n) \in P[n]
    BY <1>1, <1>2, <1>3, RoundsKeep
  <1> DEFINE s == Rounds(DownRound(n), x, n)
  <1>5. /\ Reordered(h, s.h) /\ Rest(s.h) /\ s.j \in Nat /\ s.j >= 1
        /\ SinksAt(s.h, s.j, n) /\ (Stays(s) \/ s.j > n)
    BY <1>1, <1>4 DEF P, Sifting
  <1>6. Down(h, 1, n) = s.h
    BY DEF Down, x
  <1> HIDE DEF s
  <1>7. s.h \in Slices /\ n \in 0 .. Len(s.h) /\ Stays(s)
    BY <1>1, <1>5 DEF Reordered
  <1>8. HeapOK(s.h, n)
    BY <1>5, <1>7, SunkIsHeap
  <1> QED
    BY <1>5, <1>6, <1>8

-----------------------------------------------------------------------------
(* heap.Push and heap.Pop. *)

(* Pushing adds one ticket to a heap. *)
LEMMA PushKeepsHeap ==
    ASSUME FieldsOK, NEW h \in Slices, HeapOK(h, Len(h)), NEW t \in Tickets
    PROVE  LET g == HeapPush(h, t)
           IN  /\ g \in Slices /\ Len(g) = Len(h) + 1 /\ HeapOK(g, Len(g))
               /\ Range(g) = Range(h) \cup {t}
               /\ IsInjective(h) /\ t \notin Range(h) => IsInjective(g)
  <1> DEFINE a == Append(h, t)
             g == Up(a, Len(a))
  <1>1. /\ a \in Slices /\ Len(a) = Len(h) + 1 /\ Range(a) = Range(h) \cup {t}
        /\ IsInjective(h) /\ t \notin Range(h) => IsInjective(a)
    BY AppendRange DEF Slices
  <1>2. Len(h) \in Nat /\ \A k \in 1 .. Len(h) : a[k] = h[k]
    BY AppendProperties DEF Slices
  <1>3. HeapPush(h, t) = g
    BY <1>1 DEF HeapPush
  <1> HIDE DEF a
  <1>4. RisesAt(a, Len(a))
    <2>1. ASSUME NEW k \in 2 .. Len(a), k # Len(a) PROVE ~Lt(a[k], a[k \div 2])
      <3>1. k \in 2 .. Len(h) /\ k \in 1 .. Len(h) /\ k \div 2 \in 1 .. Len(h)
        BY <1>1, <1>2, <2>1, Family
      <3> QED
        BY <1>2, <3>1 DEF HeapOK
    <2>2. ASSUME NEW k \in 2 .. Len(a) PROVE k \div 2 # Len(a)
      BY <1>1, <1>2, Family
    <2> QED
      BY <2>1, <2>2 DEF RisesAt
  <1>5. a # <<>>
    BY <1>1, <1>2
  <1>6. Reordered(a, g) /\ HeapOK(g, Len(a))
    BY <1>1, <1>4, <1>5, UpMakesHeap
  <1> HIDE DEF g
  <1> QED
    BY <1>1, <1>3, <1>6 DEF Reordered

(* A sequence without its last element. *)
LEMMA FrontRange ==
    ASSUME NEW S, NEW s \in Seq(S), s # <<>>, IsInjective(s)
    PROVE  LET f == SubSeq(s, 1, Len(s) - 1)
           IN  /\ f \in Seq(S) /\ Len(f) = Len(s) - 1 /\ \A k \in DOMAIN f : f[k] = s[k]
               /\ Range(f) = Range(s) \ {s[Len(s)]} /\ IsInjective(f)
  <1> DEFINE n == Len(s)
             f == SubSeq(s, 1, n - 1)
  <1>1. n \in Nat /\ n >= 1 /\ DOMAIN s = 1 .. n /\ n \in DOMAIN s
    OBVIOUS
  <1>2. f \in Seq(S) /\ Len(f) = n - 1 /\ \A k \in 1 .. n - 1 : f[k] = s[k]
    BY <1>1, SubSeqProperties
  <1>3. DOMAIN f = 1 .. n - 1
    BY <1>1, <1>2
  <1> HIDE DEF f, n
  <1>4. \A k \in DOMAIN s : k \in DOMAIN f <=> k # n
    BY <1>1, <1>3
  <1>5. DOMAIN f \subseteq DOMAIN s
    BY <1>1, <1>3
  <1>6. IsInjective(f)
    BY <1>2, <1>3, <1>5 DEF IsInjective
  <1>7. Range(f) = Range(s) \ {s[n]}
    <2>1. \A k \in DOMAIN f : f[k] = s[k] /\ k \in DOMAIN s /\ k # n
      BY <1>2, <1>3, <1>4, <1>5
    <2>2. \A k \in DOMAIN s : s[k] = s[n] => k = n
      BY <1>1 DEF IsInjective
    <2> QED
      BY <1>4, <2>1, <2>2 DEF Range
  <1> QED
    BY <1>2, <1>3, <1>6, <1>7 DEF f, n

(* Popping takes the least ticket out and leaves a heap. *)
LEMMA PopTakesLeast ==
    ASSUME FieldsOK, NEW h \in Slices, h # <<>>, HeapOK(h, Len(h)), IsInjective(h)
    PROVE  LET t == HeapPop(h)[1]
               g == HeapPop(h)[2]
           IN  /\ t = h[1] /\ t \in Range(h) /\ g \in Slices /\ Len(g) = Len(h) - 1
               /\ HeapOK(g, Len(g)) /\ IsInjective(g) /\ Range(g) = Range(h) \ {t}
               /\ \A u \in Range(g) : Lt(t, u)
  <1> DEFINE n == Len(h)
             a == Swap(h, 1, n)
             s == Down(a, 1, n - 1)
             g == SubSeq(s, 1, n - 1)
  <1>1. n \in Nat /\ n >= 1 /\ DOMAIN h = 1 .. n /\ 1 \in DOMAIN h /\ n \in DOMAIN h
    BY DEF Slices
  <1>2. HeapPop(h) = <<s[n], g>>
    BY DEF HeapPop
  <1>3. /\ Reordered(h, a) /\ a[n] = h[1]
        /\ \A k \in DOMAIN h : k # 1 /\ k # n => a[k] = h[k]
    BY <1>1, SwapReorders
  <1>4. a \in Slices /\ n - 1 \in 0 .. Len(a) /\ DOMAIN a = 1 .. n
    BY <1>1, <1>3 DEF Reordered, Slices
  <1> HIDE DEF a
  <1>5. SinksAt(a, 1, n - 1)
    <2>1. ASSUME NEW k \in 2 .. n - 1, k \div 2 # 1 PROVE ~Lt(a[k], a[k \div 2])
      <3> DEFINE p == k \div 2
      <3>1. p \in Nat /\ p >= 1 /\ p < k
        BY Family
      <3>2. p # 1
        BY <2>1
      <3> HIDE DEF p
      <3>3. k \in 1 .. n /\ k # 1 /\ k # n /\ p \in 1 .. n /\ p # n /\ k \in 2 .. n
        <4> HIDE DEF n
        <4> QED
          BY <1>1, <3>1
      <3>4. a[k] = h[k] /\ a[p] = h[p]
        BY <1>1, <1>3, <3>2, <3>3
      <3>5. ~Lt(h[k], h[p])
        BY <3>3 DEF HeapOK, p
      <3> QED
        BY <3>4, <3>5 DEF p
    <2> QED
      BY <2>1 DEF SinksAt
  <1>6. /\ Reordered(a, s) /\ HeapOK(s, n - 1)
        /\ \A k \in DOMAIN a : k > n - 1 => s[k] = a[k]
    BY <1>4, <1>5, DownMakesHeap
  <1> HIDE DEF s
  <1>7. s[n] = h[1]
    BY <1>1, <1>3, <1>4, <1>6
  <1>8. /\ s \in Slices /\ Len(s) = n /\ Range(s) = Range(h) /\ IsInjective(s) /\ s # <<>>
    BY <1>1, <1>3, <1>6 DEF Reordered, Slices
  <1>9. /\ g \in Slices /\ Len(g) = n - 1 /\ \A k \in DOMAIN g : g[k] = s[k]
        /\ Range(g) = Range(h) \ {h[1]} /\ IsInjective(g)
    BY <1>7, <1>8, FrontRange DEF Slices
  <1> HIDE DEF g
  <1>10. HeapOK(g, Len(g))
    <2> SUFFICES ASSUME NEW k \in 2 .. n - 1 PROVE ~Lt(g[k], g[k \div 2])
      BY <1>9 DEF HeapOK
    <2>1. k \in 1 .. n - 1 /\ k \div 2 \in 1 .. n - 1 /\ DOMAIN g = 1 .. n - 1
      BY <1>1, <1>9, Family DEF Slices
    <2> QED
      BY <1>6, <1>9, <2>1 DEF HeapOK
  <1>11. ASSUME NEW u \in Range(g) PROVE Lt(h[1], u)
    <2>1. PICK k \in DOMAIN h : u = h[k] /\ u # h[1]
      BY <1>9, <1>11 DEF Range
    <2>2. ~Lt(u, h[1]) /\ u \in Tickets /\ h[1] \in Tickets
      BY <1>1, <2>1, RootLeast DEF Slices
    <2> QED
      BY <2>1, <2>2, LtOrders
  <1>12. h[1] \in Range(h)
    BY <1>1 DEF Range
  <1> QED
    BY <1>2, <1>7, <1>9, <1>10, <1>11, <1>12

-----------------------------------------------------------------------------
(* The invariant, and the order in which PopWhere goes through the tickets. *)

(* The tickets of a queue are distinct, and those of the priority queue form a heap. *)
QueueInv ==
    /\ scheduler \in {"fifo", "lifo", "random", "priority"}
    /\ FieldsOK
    /\ items \in Slices /\ IsInjective(items)
    /\ scheduler = "priority" => HeapOK(items, Len(items))

(* Of the queue as the call finds it. *)
Sooner(u, t) == Earlier(items, u, t)

(* For two tickets of the queue. *)
LEMMA SoonerIs ==
    ASSUME QueueInv, NEW i \in DOMAIN items, NEW j \in DOMAIN items
    PROVE  /\ scheduler = "priority" => (Sooner(items[i], items[j]) <=> Lt(items[i], items[j]))
           /\ scheduler = "lifo" => (Sooner(items[i], items[j]) <=> i > j)
           /\ scheduler \in {"fifo", "random"} => (Sooner(items[i], items[j]) <=> i < j)
  <1>1. \A k, l \in DOMAIN items : items[k] = items[l] => k = l
    BY DEF QueueInv, IsInjective
  <1>2. Sooner(items[i], items[j]) <=> Reference!Precedes(items, prio, at, i, j)
    BY <1>1 DEF Sooner, Earlier
  <1>3. CASE scheduler = "priority"
    BY <1>2, <1>3 DEF Reference!Precedes, Lt
  <1>4. CASE scheduler = "lifo"
    BY <1>2, <1>4 DEF Reference!Precedes
  <1>5. CASE scheduler \in {"fifo", "random"}
    BY <1>2, <1>5 DEF Reference!Precedes
  <1> QED
    BY <1>3, <1>4, <1>5 DEF QueueInv

(* No ticket is sooner than itself, nor two each sooner than the other. *)
LEMMA SoonerOrders ==
    ASSUME QueueInv
    PROVE  /\ \A t \in Range(items) : ~Sooner(t, t)
           /\ \A t, u \in Range(items) : Sooner(t, u) => ~Sooner(u, t)
  <1>1. /\ DOMAIN items = 1 .. Len(items) /\ Len(items) \in Nat
        /\ \A i \in DOMAIN items : items[i] \in Tickets
    BY DEF QueueInv, Slices
  <1>2. FieldsOK /\ scheduler \in {"fifo", "lifo", "random", "priority"}
    BY DEF QueueInv
  <1>3. ASSUME NEW i \in DOMAIN items, NEW j \in DOMAIN items
        PROVE  /\ ~Sooner(items[i], items[i])
               /\ Sooner(items[i], items[j]) => ~Sooner(items[j], items[i])
    <2>1. CASE scheduler = "priority"
      BY <1>1, <1>2, <2>1, SoonerIs, LtOrders, LtChains
    <2>2. CASE scheduler = "lifo"
      BY <1>1, <2>2, SoonerIs
    <2>3. CASE scheduler \in {"fifo", "random"}
      BY <1>1, <2>3, SoonerIs
    <2> QED
      BY <1>2, <2>1, <2>2, <2>3
  <1> QED
    BY <1>3 DEF Range

(* Each ticket of s is sooner than those behind it. *)
Sorted(s) == \A i, j \in DOMAIN s : i < j => Sooner(s[i], s[j])

(* PopWhere has tested all tickets but those of T: `matched` are those that matched,
   `kept` the others, and `left` is what is left of the budget. *)
Scanned(T, matched, kept, left, budget) ==
    /\ matched \in Slices /\ IsInjective(matched)
    /\ kept \in Slices /\ IsInjective(kept)
    /\ left \in Int
    /\ Range(matched) \cap Range(kept) = {}
    /\ T \cap Range(matched) = {} /\ T \cap Range(kept) = {}
    /\ T \cup Range(matched) \cup Range(kept) = Range(items)
    /\ \A u \in Range(matched) \cup Range(kept), t \in T : Sooner(u, t)
    /\ left = budget - CostOf(Range(matched))
    /\ \A t \in Range(matched) \cup Range(kept) :
         t \in Range(matched) <=>
            cost[t] + CostOf({u \in Range(matched) : Sooner(u, t)}) <= budget
    /\ Sorted(matched) /\ Sorted(kept)

(* A ticket appended behind those that are sooner keeps a sequence sorted. *)
LEMMA SortedAppend ==
    ASSUME NEW s \in Slices, NEW t \in Tickets, Sorted(s), \A u \in Range(s) : Sooner(u, t)
    PROVE  Sorted(Append(s, t))
  <1>1. /\ Len(s) \in Nat /\ DOMAIN s = 1 .. Len(s) /\ DOMAIN Append(s, t) = 1 .. Len(s) + 1
        /\ \A i \in 1 .. Len(s) : Append(s, t)[i] = s[i]
        /\ Append(s, t)[Len(s) + 1] = t
    BY AppendProperties DEF Slices
  <1>2. ASSUME NEW i \in DOMAIN Append(s, t), NEW j \in DOMAIN Append(s, t), i < j
        PROVE  Sooner(Append(s, t)[i], Append(s, t)[j])
    <2>1. i \in DOMAIN s /\ s[i] \in Range(s)
      BY <1>1, <1>2 DEF Range
    <2>2. CASE j = Len(s) + 1
      BY <1>1, <2>1, <2>2
    <2>3. CASE j # Len(s) + 1
      <3>1. j \in DOMAIN s
        BY <1>1, <2>3
      <3> QED
        BY <1>1, <1>2, <2>1, <3>1 DEF Sorted
    <2> QED
      BY <2>2, <2>3
  <1> QED
    BY <1>2 DEF Sorted

(* The cost of no ticket, and of one more. *)
LEMMA CostAdds ==
    ASSUME FieldsOK, NEW S \in SUBSET Tickets, IsFiniteSet(S)
    PROVE  /\ CostOf({}) = 0 /\ CostOf(S) \in Int
           /\ \A t \in Tickets \ S : CostOf(S \cup {t}) = cost[t] + CostOf(S)
  <1>1. \A T : CostOf(T) = Total(cost, T)
    BY DEF CostOf, Total
  <1>2. \A t \in Tickets : cost[t] \in Int
    BY DEF FieldsOK
  <1>3. Total(cost, {}) = 0 /\ Total(cost, S) \in Int
    BY <1>2, TotalType
  <1>4. ASSUME NEW t \in Tickets \ S PROVE Total(cost, S \cup {t}) = cost[t] + Total(cost, S)
    <2> DEFINE U == S \cup {t}
    <2>1. IsFiniteSet(U)
      BY FS_AddElement
    <2>2. U \in SUBSET U /\ t \in U /\ \A y \in U : cost[y] \in Int
      BY <1>2
    <2>3. U \ {t} = S
      OBVIOUS
    <2> HIDE DEF U
    <2>4. Total(cost, U) = cost[t] + Total(cost, U \ {t})
      BY <2>1, <2>2, TotalTakes
    <2> QED
      BY <2>3, <2>4 DEF U
  <1> QED
    BY <1>1, <1>3, <1>4

(* A sequence has finitely many elements. *)
LEMMA RangeFinite ==
    ASSUME NEW s \in Slices
    PROVE  IsFiniteSet(Range(s)) /\ Range(s) \subseteq Tickets
  <1>1. DOMAIN s = 1 .. Len(s) /\ Len(s) \in Nat /\ s \in [1 .. Len(s) -> Tickets]
    BY DEF Slices
  <1>2. IsFiniteSet(1 .. Len(s))
    BY <1>1, FS_Interval
  <1>3. s \in Surjection(1 .. Len(s), Range(s))
    BY <1>1 DEF Surjection, Range
  <1> QED
    BY <1>1, <1>2, <1>3, FS_Surjection DEF Range

(* Before the first ticket is tested. *)
LEMMA ScanStarts ==
    ASSUME QueueInv, NEW budget \in Int
    PROVE  Scanned(Range(items), <<>>, <<>>, budget, budget)
  <1>1. <<>> \in Slices /\ Range(<<>>) = {} /\ IsInjective(<<>>)
    BY EmptySeq DEF Slices, Range, IsInjective
  <1>2. CostOf({}) = 0
    BY CostAdds, FS_EmptySet DEF QueueInv
  <1>3. Sorted(<<>>)
    BY DEF Sorted
  <1> QED
    BY <1>1, <1>2, <1>3, SMTT(30) DEF Scanned

(* One more ticket is tested, the next in serve order. *)
LEMMA ScanGoesOn ==
    ASSUME QueueInv, NEW T, NEW matched, NEW kept, NEW left, NEW budget \in Int,
           Scanned(T, matched, kept, left, budget),
           NEW t \in T, \A u \in T \ {t} : Sooner(t, u)
    PROVE  /\ cost[t] <= left =>
                Scanned(T \ {t}, Append(matched, t), kept, left - cost[t], budget)
           /\ ~(cost[t] <= left) =>
                Scanned(T \ {t}, matched, Append(kept, t), left, budget)
  <1> DEFINE M == Range(matched)
             K == Range(kept)
             U == T \ {t}
             Cost(S, u) == CostOf({v \in S : Sooner(v, u)})
  <1>1. /\ matched \in Slices /\ IsInjective(matched) /\ kept \in Slices /\ IsInjective(kept)
        /\ left \in Int /\ M \cap K = {} /\ T \cap M = {} /\ T \cap K = {}
        /\ T \cup M \cup K = Range(items)
        /\ \A u \in M \cup K, v \in T : Sooner(u, v)
        /\ left = budget - CostOf(M)
        /\ \A u \in M \cup K : u \in M <=> cost[u] + Cost(M, u) <= budget
        /\ Sorted(matched) /\ Sorted(kept)
    BY DEF Scanned
  <1>2. items \in Slices /\ FieldsOK
    BY DEF QueueInv
  <1>3. M \subseteq Tickets /\ IsFiniteSet(M) /\ t \in Tickets /\ t \in Range(items)
        /\ t \notin M /\ t \notin K
    BY <1>1, <1>2, RangeFinite
  <1>4. cost[t] \in Int /\ CostOf(M) \in Int /\ CostOf(M \cup {t}) = cost[t] + CostOf(M)
    BY <1>2, <1>3, CostAdds DEF FieldsOK
  <1>5. /\ Append(matched, t) \in Slices /\ Range(Append(matched, t)) = M \cup {t}
        /\ IsInjective(Append(matched, t))
        /\ Append(kept, t) \in Slices /\ Range(Append(kept, t)) = K \cup {t}
        /\ IsInjective(Append(kept, t))
    BY <1>1, <1>3, AppendRange DEF Slices
  <1>6. Sorted(Append(matched, t)) /\ Sorted(Append(kept, t))
    BY <1>1, <1>3, SortedAppend
  <1>7. /\ ~Sooner(t, t)
        /\ \A u \in M \cup K : ~Sooner(t, u)
        /\ \A u \in M : Sooner(u, t)
    BY <1>1, <1>3, SoonerOrders
  <1>8. Cost(M, t) = CostOf(M) /\ Cost(M \cup {t}, t) = CostOf(M)
    <2>1. {v \in M : Sooner(v, t)} = M /\ {v \in M \cup {t} : Sooner(v, t)} = M
      BY <1>7
    <2> QED
      BY <2>1
  <1>9. \A u \in M \cup K : Cost(M \cup {t}, u) = Cost(M, u)
    <2> SUFFICES ASSUME NEW u \in M \cup K PROVE Cost(M \cup {t}, u) = Cost(M, u)
      OBVIOUS
    <2>1. {v \in M \cup {t} : Sooner(v, u)} = {v \in M : Sooner(v, u)}
      BY <1>7
    <2> QED
      BY <2>1
  <1>10. /\ U \cap (M \cup {t}) = {} /\ U \cap (K \cup {t}) = {}
         /\ U \cup (M \cup {t}) \cup K = Range(items) /\ U \cup M \cup (K \cup {t}) = Range(items)
         /\ (M \cup {t}) \cap K = {} /\ M \cap (K \cup {t}) = {}
         /\ U \cap M = {} /\ U \cap K = {}
         /\ \A u \in M \cup K \cup {t}, v \in U : Sooner(u, v)
    BY <1>1, <1>3
  <1> HIDE DEF Cost, M, K, U
  <1>11. ASSUME cost[t] <= left
         PROVE  Scanned(U, Append(matched, t), kept, left - cost[t], budget)
    <2>1. left - cost[t] \in Int /\ left - cost[t] = budget - CostOf(M \cup {t})
      BY <1>1, <1>4
    <2>2. cost[t] + Cost(M \cup {t}, t) <= budget
      BY <1>1, <1>4, <1>8, <1>11
    <2>3. \A u \in (M \cup {t}) \cup K :
             u \in M \cup {t} <=> cost[u] + Cost(M \cup {t}, u) <= budget
      BY <1>1, <1>3, <1>9, <2>2
    <2> QED
      BY <1>1, <1>5, <1>6, <1>10, <2>1, <2>3 DEF Scanned, Cost, K
  <1>12. ASSUME ~(cost[t] <= left)
         PROVE  Scanned(U, matched, Append(kept, t), left, budget)
    <2>1. ~(cost[t] + Cost(M, t) <= budget)
      BY <1>1, <1>4, <1>8, <1>12
    <2>2. \A u \in M \cup (K \cup {t}) : u \in M <=> cost[u] + Cost(M, u) <= budget
      BY <1>1, <1>3, <2>1
    <2> QED
      BY <1>1, <1>5, <1>6, <1>10, <2>2 DEF Scanned, Cost, M
  <1> QED
    BY <1>11, <1>12 DEF U

-----------------------------------------------------------------------------
(* The three loops. *)

(* What a call of PopWhere must leave behind. *)
Popped(matched, rest, budget) ==
    \E kept, left :
        /\ Scanned({}, matched, kept, left, budget)
        /\ rest \in Slices /\ IsInjective(rest) /\ Range(rest) = Range(kept)
        /\ scheduler = "priority" => HeapOK(rest, Len(rest))
        /\ scheduler # "priority" =>
             \A i, j \in DOMAIN rest : i < j =>
                 \E k, l \in DOMAIN items : k < l /\ items[k] = rest[i] /\ items[l] = rest[j]

(* The tickets from place k + 1 on, and the first of them. *)
LEMMA FromPlace ==
    ASSUME QueueInv, NEW k \in 0 .. Len(items) - 1
    PROVE  LET T == {items[n] : n \in k + 1 .. Len(items)}
           IN  /\ items[k + 1] \in T /\ items[k + 1] \in Tickets
               /\ T \ {items[k + 1]} = {items[n] : n \in k + 2 .. Len(items)}
               /\ scheduler \in {"fifo", "random"} =>
                    \A u \in T \ {items[k + 1]} : Sooner(items[k + 1], u)
  <1> DEFINE N == Len(items)
             T == {items[n] : n \in k + 1 .. N}
  <1>1. N \in Nat /\ DOMAIN items = 1 .. N /\ \A n \in 1 .. N : items[n] \in Tickets
    BY DEF QueueInv, Slices
  <1>2. \A m, n \in 1 .. N : items[m] = items[n] => m = n
    BY <1>1 DEF QueueInv, IsInjective
  <1> HIDE DEF N
  <1>3. k + 1 \in 1 .. N /\ k + 1 \in k + 1 .. N
    BY <1>1 DEF N
  <1>4. \A n \in k + 1 .. N : n \in 1 .. N /\ (n # k + 1 <=> n \in k + 2 .. N)
    BY <1>1, <1>3
  <1>5. \A n \in k + 2 .. N : n \in k + 1 .. N /\ n # k + 1 /\ n > k + 1
    BY <1>1, <1>3
  <1>6. T \ {items[k + 1]} = {items[n] : n \in k + 2 .. N}
    BY <1>2, <1>3, <1>4, <1>5
  <1>7. ASSUME scheduler \in {"fifo", "random"}, NEW n \in k + 2 .. N
        PROVE  Sooner(items[k + 1], items[n])
    BY <1>1, <1>3, <1>4, <1>5, <1>7, SoonerIs
  <1> QED
    BY <1>1, <1>3, <1>6, <1>7 DEF N

(* The states of the loop of fifo.go. *)
Filtering == [a : Slices, i : Nat, k : Nat, left : Int, matched : Slices]

(* After k rounds: the tickets from place k + 1 on are untested and where they were,
   those that are kept have been moved to the front. *)
FilterOK(s, k, budget) ==
    /\ s \in Filtering
    /\ s.i = k + 1 /\ s.k \in 0 .. k /\ Len(s.a) = Len(items)
    /\ \A n \in k + 1 .. Len(items) : s.a[n] = items[n]
    /\ Scanned({items[n] : n \in k + 1 .. Len(items)},
               s.matched, SubSeq(s.a, 1, s.k), s.left, budget)

(* Overwriting the place behind the first k appends to them. *)
LEMMA Overwritten ==
    ASSUME NEW a \in Slices, NEW k \in Nat, k < Len(a), NEW t \in Tickets,
           NEW b \in Slices, Len(b) = Len(a),
           \A n \in 1 .. Len(a) : b[n] = IF n = k + 1 THEN t ELSE a[n]
    PROVE  SubSeq(b, 1, k + 1) = Append(SubSeq(a, 1, k), t)
  <1> DEFINE f == SubSeq(a, 1, k)
             g == SubSeq(b, 1, k + 1)
  <1>1. Len(a) \in Nat /\ k + 1 \in 1 .. Len(a)
    BY DEF Slices
  <1>2. f \in Slices /\ Len(f) = k /\ \A n \in 1 .. k : f[n] = a[n]
    BY <1>1, SubSeqProperties DEF Slices
  <1>3. g \in Slices /\ Len(g) = k + 1 /\ \A n \in 1 .. k + 1 : g[n] = b[n]
    BY <1>1, SubSeqProperties DEF Slices
  <1> HIDE DEF f, g
  <1>4. /\ Append(f, t) \in Slices /\ Len(Append(f, t)) = k + 1
        /\ \A n \in 1 .. k : Append(f, t)[n] = f[n]
        /\ Append(f, t)[k + 1] = t
    BY <1>2, AppendProperties DEF Slices
  <1>5. \A n \in 1 .. k + 1 : g[n] = Append(f, t)[n]
    BY <1>1, <1>2, <1>3, <1>4
  <1>6. g = Append(f, t)
    BY <1>3, <1>4, <1>5, SeqEqual DEF Slices
  <1> QED
    BY <1>6 DEF f, g

(* A round of the loop of fifo.go. *)
LEMMA FilterStep ==
    ASSUME QueueInv, scheduler \in {"fifo", "random"}, NEW budget \in Int,
           NEW k \in 0 .. Len(items) - 1, NEW s, FilterOK(s, k, budget)
    PROVE  FilterOK(FilterRound[s], k + 1, budget)
  <1> DEFINE N == Len(items)
             T == {items[n] : n \in k + 1 .. N}
             U == {items[n] : n \in k + 2 .. N}
             t == items[k + 1]
             front == SubSeq(s.a, 1, s.k)
             r == FilterRound[s]
  <1>1. /\ s \in Filtering /\ s.i = k + 1 /\ s.k \in 0 .. k /\ Len(s.a) = N
        /\ \A n \in k + 1 .. N : s.a[n] = items[n]
        /\ Scanned(T, s.matched, front, s.left, budget)
    BY DEF FilterOK
  <1>2. t \in T /\ t \in Tickets /\ T \ {t} = U /\ \A u \in T \ {t} : Sooner(t, u)
    BY FromPlace
  <1> HIDE DEF T, U, front, t
  <1>3. /\ cost[t] <= s.left => Scanned(U, Append(s.matched, t), front, s.left - cost[t], budget)
        /\ ~(cost[t] <= s.left) => Scanned(U, s.matched, Append(front, t), s.left, budget)
    BY <1>1, <1>2, ScanGoesOn
  <1>4. N \in Nat /\ k + 1 \in k + 1 .. N /\ s.a[s.i] = t /\ k + 2 = (k + 1) + 1
    BY <1>1 DEF QueueInv, Slices, t
  <1>5. /\ s.a \in Slices /\ s.matched \in Slices /\ s.left \in Int /\ cost[t] \in Int
        /\ s.k \in Nat /\ s.k < Len(s.a)
    BY <1>1, <1>2, <1>4 DEF Filtering, QueueInv, FieldsOK
  <1> HIDE DEF N
  <1>6. CASE cost[t] <= s.left
    <2>1. r = [a |-> s.a, i |-> k + 2, k |-> s.k, left |-> s.left - cost[t],
               matched |-> Append(s.matched, t)]
      <3>1. r = [s EXCEPT !.i = k + 2, !.left = s.left - cost[t],
                          !.matched = Append(s.matched, t)]
        BY <1>1, <1>4, <1>6 DEF FilterRound, Filtering
      <3> HIDE DEF r
      <3> QED
        BY <1>1, <3>1 DEF Filtering
    <2>2. Append(s.matched, t) \in Slices
      BY <1>2, <1>5 DEF Slices
    <2> HIDE DEF r
    <2>3. /\ r \in Filtering /\ r.i = k + 2 /\ r.left = s.left - cost[t]
          /\ r.matched = Append(s.matched, t) /\ r.a = s.a /\ r.k = s.k
      <3>1. k + 2 \in Nat /\ s.left - cost[t] \in Int
        BY <1>5
      <3> QED
        BY <1>5, <2>1, <2>2, <3>1 DEF Filtering
    <2>4. SubSeq(r.a, 1, r.k) = front
      BY <2>3 DEF front
    <2>5. Scanned(U, r.matched, SubSeq(r.a, 1, r.k), r.left, budget)
      BY <1>3, <1>6, <2>3, <2>4
    <2>6. r.i = (k + 1) + 1 /\ r.k \in 0 .. k + 1 /\ Len(r.a) = N
      BY <1>1, <1>4, <2>3
    <2>7. \A n \in k + 2 .. N : r.a[n] = items[n]
      BY <1>1, <1>4, <2>3
    <2> QED
      BY <1>4, <2>3, <2>5, <2>6, <2>7 DEF FilterOK, N, r, U
  <1>7. CASE ~(cost[t] <= s.left)
    <2> DEFINE b == [s.a EXCEPT ![s.k + 1] = t]
    <2>1. r = [a |-> b, i |-> k + 2, k |-> s.k + 1, left |-> s.left, matched |-> s.matched]
      <3>1. r = [s EXCEPT !.i = k + 2, !.a = b, !.k = s.k + 1]
        BY <1>1, <1>4, <1>7 DEF FilterRound, Filtering
      <3> HIDE DEF r, b
      <3> QED
        BY <1>1, <3>1 DEF Filtering
    <2>2. /\ b \in Slices /\ Len(b) = N
          /\ \A n \in 1 .. N : n # s.k + 1 => b[n] = s.a[n]
          /\ SubSeq(b, 1, s.k + 1) = Append(front, t)
      <3>1. /\ b \in Slices /\ Len(b) = Len(s.a)
            /\ \A n \in 1 .. Len(s.a) : n # s.k + 1 => b[n] = s.a[n]
            /\ SubSeq(b, 1, s.k + 1) = Append(SubSeq(s.a, 1, s.k), t)
        <4>1. PICK a, m : a = s.a /\ m = s.k
          OBVIOUS
        <4>2. /\ a \in Slices /\ m \in Nat /\ m < Len(a) /\ t \in Tickets
              /\ Len(a) \in Nat /\ a \in [1 .. Len(a) -> Tickets]
          BY <1>2, <1>5, <4>1 DEF Slices
        <4>3. m + 1 \in 1 .. Len(a)
          BY <4>2
        <4>4. b = [a EXCEPT ![m + 1] = t]
          BY <4>1
        <4> HIDE DEF b
        <4>5. /\ b \in [1 .. Len(a) -> Tickets]
              /\ \A n \in 1 .. Len(a) : b[n] = IF n = m + 1 THEN t ELSE a[n]
          BY ONLY <4>2, <4>3, <4>4
        <4>6. b \in Slices /\ Len(b) = Len(a)
          BY <4>2, <4>5 DEF Slices
        <4>7. SubSeq(b, 1, m + 1) = Append(SubSeq(a, 1, m), t)
          BY ONLY <4>2, <4>5, <4>6, Overwritten
        <4> QED
          BY <4>1, <4>5, <4>6, <4>7
      <3> HIDE DEF b
      <3> QED
        BY <1>1, <3>1 DEF front
    <2> HIDE DEF b, r
    <2>3. /\ r \in Filtering /\ r.i = k + 2 /\ r.left = s.left
          /\ r.matched = s.matched /\ r.a = b /\ r.k = s.k + 1
      <3>1. k + 2 \in Nat /\ s.k + 1 \in Nat
        BY <1>5
      <3> QED
        BY <1>5, <2>1, <2>2, <3>1 DEF Filtering
    <2>4. Scanned(U, r.matched, SubSeq(r.a, 1, r.k), r.left, budget)
      BY <1>3, <1>7, <2>2, <2>3
    <2>5. r.i = (k + 1) + 1 /\ r.k \in 0 .. k + 1 /\ Len(r.a) = N
      BY <1>1, <1>4, <2>2, <2>3
    <2>6. \A n \in k + 2 .. N : r.a[n] = items[n]
      <3> SUFFICES ASSUME NEW n \in k + 2 .. N PROVE b[n] = items[n]
        BY <2>3
      <3>1. n \in 1 .. N /\ n \in k + 1 .. N /\ n # s.k + 1
        BY <1>1, <1>4
      <3> QED
        BY <1>1, <2>2, <3>1
    <2> QED
      BY <1>4, <2>3, <2>4, <2>5, <2>6 DEF FilterOK, N, r, U
  <1> QED
    BY <1>6, <1>7

(* The loop of fifo.go. *)
LEMMA FilterWorks ==
    ASSUME QueueInv, scheduler \in {"fifo", "random"}, NEW budget \in Int
    PROVE  Popped(FilterInPlace(budget)[1], FilterInPlace(budget)[2], budget)
  <1> DEFINE N == Len(items)
             x == [a |-> items, i |-> 1, k |-> 0, left |-> budget, matched |-> <<>>]
             P == [k \in 0 .. N |-> {s \in Filtering : FilterOK(s, k, budget)}]
  <1>1. N \in Nat /\ items \in Slices /\ DOMAIN items = 1 .. N /\ <<>> \in Slices
    BY EmptySeq DEF QueueInv, Slices
  <1>2. x \in P[0]
    <2>1. /\ x \in Filtering /\ x.a = items /\ x.i = 1 /\ x.k = 0
          /\ x.left = budget /\ x.matched = <<>>
      BY <1>1 DEF Filtering
    <2>2. SubSeq(items, 1, 0) = <<>>
      BY <1>1, SubSeqEmpty
    <2>3. {items[n] : n \in 0 + 1 .. N} = Range(items)
      BY <1>1 DEF Range
    <2>4. Scanned({items[n] : n \in 0 + 1 .. N}, <<>>, SubSeq(items, 1, 0), budget, budget)
      BY <2>2, <2>3, ScanStarts
    <2> HIDE DEF x
    <2>5. FilterOK(x, 0, budget)
      BY <1>1, <2>1, <2>4 DEF FilterOK
    <2> QED
      BY <1>1, <2>1, <2>5
  <1>3. ASSUME NEW k \in 0 .. N - 1, NEW s \in P[k] PROVE FilterRound[s] \in P[k + 1]
    <2>1. FilterOK(s, k, budget)
      BY <1>1
    <2>2. FilterOK(FilterRound[s], k + 1, budget)
      BY <2>1, FilterStep
    <2>3. FilterRound[s] \in Filtering
      BY <2>2 DEF FilterOK
    <2> QED
      BY <1>1, <2>2, <2>3
  <1> HIDE DEF P
  <1>4. Rounds(FilterRound, x, N) \in P[N]
    BY <1>1, <1>2, <1>3, RoundsKeep
  <1> DEFINE s == Rounds(FilterRound, x, N)
             rest == SubSeq(s.a, 1, s.k)
  <1>5. FilterInPlace(budget) = <<s.matched, rest>>
    BY DEF FilterInPlace
  <1>6. FilterOK(s, N, budget)
    BY <1>1, <1>4 DEF P
  <1> HIDE DEF s
  <1>7. {items[n] : n \in N + 1 .. N} = {}
    BY <1>1
  <1>8. Scanned({}, s.matched, rest, s.left, budget)
    BY <1>6, <1>7 DEF FilterOK
  <1> HIDE DEF rest
  <1>9. rest \in Slices /\ IsInjective(rest) /\ Sorted(rest) /\ Range(rest) \subseteq Range(items)
    BY <1>8 DEF Scanned
  <1>10. ASSUME NEW i \in DOMAIN rest, NEW j \in DOMAIN rest, i < j
         PROVE  \E k, l \in DOMAIN items : k < l /\ items[k] = rest[i] /\ items[l] = rest[j]
    <2>1. Sooner(rest[i], rest[j]) /\ rest[i] \in Range(items) /\ rest[j] \in Range(items)
      BY <1>9, <1>10 DEF Sorted, Range
    <2>2. PICK k, l \in DOMAIN items : items[k] = rest[i] /\ items[l] = rest[j]
      BY <2>1 DEF Range
    <2>3. k < l
      BY <2>1, <2>2, SoonerIs
    <2> QED
      BY <2>2, <2>3
  <1>11. scheduler # "priority"
    OBVIOUS
  <1> QED
    BY <1>5, <1>8, <1>9, <1>10, <1>11 DEF Popped

(* The tickets up to place m, and the last of them. *)
LEMMA UpToPlace ==
    ASSUME QueueInv, NEW m \in 1 .. Len(items)
    PROVE  LET T == {items[n] : n \in 1 .. m}
           IN  /\ items[m] \in T /\ items[m] \in Tickets
               /\ T \ {items[m]} = {items[n] : n \in 1 .. m - 1}
               /\ scheduler = "lifo" => \A u \in T \ {items[m]} : Sooner(items[m], u)
  <1> DEFINE N == Len(items)
             T == {items[n] : n \in 1 .. m}
  <1>1. N \in Nat /\ DOMAIN items = 1 .. N /\ \A n \in 1 .. N : items[n] \in Tickets
    BY DEF QueueInv, Slices
  <1>2. \A l, n \in 1 .. N : items[l] = items[n] => l = n
    BY <1>1 DEF QueueInv, IsInjective
  <1> HIDE DEF N
  <1>3. m \in 1 .. N /\ m \in 1 .. m /\ m \in Nat
    BY <1>1 DEF N
  <1>4. \A n \in 1 .. m : n \in 1 .. N /\ (n # m <=> n \in 1 .. m - 1)
    BY <1>1, <1>3
  <1>5. \A n \in 1 .. m - 1 : n \in 1 .. m /\ n # m /\ n < m
    BY <1>1, <1>3
  <1>6. T \ {items[m]} = {items[n] : n \in 1 .. m - 1}
    BY <1>2, <1>3, <1>4, <1>5
  <1>7. ASSUME scheduler = "lifo", NEW n \in 1 .. m - 1 PROVE Sooner(items[m], items[n])
    BY <1>1, <1>3, <1>4, <1>5, <1>7, SoonerIs
  <1> QED
    BY <1>1, <1>3, <1>6, <1>7 DEF N

(* The states of the loop of lifo.go. *)
Backing == [i : Nat, remaining : Slices, left : Int, matched : Slices]

(* After k rounds the last k tickets have been tested. *)
BackwardsOK(s, k, budget) ==
    /\ s \in Backing
    /\ s.i = Len(items) - k
    /\ Scanned({items[n] : n \in 1 .. Len(items) - k}, s.matched, s.remaining, s.left, budget)

(* A round of the loop of lifo.go. *)
LEMMA BackwardsStep ==
    ASSUME QueueInv, scheduler = "lifo", NEW budget \in Int,
           NEW k \in 0 .. Len(items) - 1, NEW s, BackwardsOK(s, k, budget)
    PROVE  BackwardsOK(BackwardsRound[s], k + 1, budget)
  <1> DEFINE N == Len(items)
             m == N - k
             T == {items[n] : n \in 1 .. m}
             U == {items[n] : n \in 1 .. m - 1}
             t == items[m]
             r == BackwardsRound[s]
  <1>1. s \in Backing /\ s.i = m /\ Scanned(T, s.matched, s.remaining, s.left, budget)
    BY DEF BackwardsOK
  <1>2. N \in Nat /\ m \in 1 .. N /\ m - 1 = N - (k + 1) /\ m - 1 \in Nat /\ m \in Nat
    BY DEF QueueInv, Slices
  <1> HIDE DEF m
  <1>3. t \in T /\ t \in Tickets /\ T \ {t} = U /\ \A u \in T \ {t} : Sooner(t, u)
    BY <1>2, UpToPlace
  <1>4. items[s.i] = t
    BY <1>1
  <1> HIDE DEF T, t
  <1>5. /\ cost[t] <= s.left =>
             Scanned(T \ {t}, Append(s.matched, t), s.remaining, s.left - cost[t], budget)
        /\ ~(cost[t] <= s.left) =>
             Scanned(T \ {t}, s.matched, Append(s.remaining, t), s.left, budget)
    BY <1>1, <1>3, ScanGoesOn
  <1>6. /\ s.remaining \in Slices /\ s.matched \in Slices /\ s.left \in Int /\ cost[t] \in Int
        /\ s.left - cost[t] \in Int
    BY <1>1, <1>3 DEF Backing, QueueInv, FieldsOK
  <1>7. Append(s.matched, t) \in Slices /\ Append(s.remaining, t) \in Slices
    BY <1>3, <1>6 DEF Slices
  <1>8. CASE cost[t] <= s.left
    <2>1. r = [i |-> m - 1, remaining |-> s.remaining, left |-> s.left - cost[t],
               matched |-> Append(s.matched, t)]
      <3>1. r = [s EXCEPT !.i = m - 1, !.left = s.left - cost[t],
                          !.matched = Append(s.matched, t)]
        BY <1>1, <1>4, <1>8 DEF BackwardsRound, Backing
      <3> HIDE DEF r
      <3> QED
        BY <1>1, <3>1 DEF Backing
    <2> HIDE DEF r
    <2>2. /\ r \in Backing /\ r.i = m - 1 /\ r.left = s.left - cost[t]
          /\ r.matched = Append(s.matched, t) /\ r.remaining = s.remaining
      BY <1>2, <1>6, <1>7, <2>1 DEF Backing
    <2>3. Scanned(U, r.matched, r.remaining, r.left, budget)
      BY <1>3, <1>5, <1>8, <2>2
    <2> QED
      BY <1>2, <2>2, <2>3 DEF BackwardsOK, r
  <1>9. CASE ~(cost[t] <= s.left)
    <2>1. r = [i |-> m - 1, remaining |-> Append(s.remaining, t), left |-> s.left,
               matched |-> s.matched]
      <3>1. r = [s EXCEPT !.i = m - 1, !.remaining = Append(s.remaining, t)]
        BY <1>1, <1>4, <1>9 DEF BackwardsRound, Backing
      <3> HIDE DEF r
      <3> QED
        BY <1>1, <3>1 DEF Backing
    <2> HIDE DEF r
    <2>2. /\ r \in Backing /\ r.i = m - 1 /\ r.left = s.left
          /\ r.matched = s.matched /\ r.remaining = Append(s.remaining, t)
      BY <1>2, <1>6, <1>7, <2>1 DEF Backing
    <2>3. Scanned(U, r.matched, r.remaining, r.left, budget)
      BY <1>3, <1>5, <1>9, <2>2
    <2> QED
      BY <1>2, <2>2, <2>3 DEF BackwardsOK, r
  <1> QED
    BY <1>8, <1>9

(* Reversing a sequence. *)
LEMMA ReverseRange ==
    ASSUME NEW s \in Slices
    PROVE  /\ Reverse(s) \in Slices /\ Len(Reverse(s)) = Len(s)
           /\ \A i \in DOMAIN s : Reverse(s)[i] = s[Len(s) - i + 1]
           /\ Range(Reverse(s)) = Range(s)
           /\ IsInjective(s) => IsInjective(Reverse(s))
  <1> DEFINE n == Len(s)
             r == Reverse(s)
  <1>1. n \in Nat /\ DOMAIN s = 1 .. n /\ s \in [1 .. n -> Tickets]
    BY DEF Slices
  <1>2. \A i \in 1 .. n : n - i + 1 \in 1 .. n /\ n - (n - i + 1) + 1 = i
    BY <1>1
  <1>3. r = [i \in 1 .. n |-> s[n - i + 1]]
    BY <1>1 DEF Reverse
  <1> HIDE DEF n, r
  <1>4. r \in [1 .. n -> Tickets]
    BY <1>1, <1>2, <1>3
  <1>5. r \in Slices /\ Len(r) = n /\ DOMAIN r = 1 .. n
    BY <1>1, <1>4 DEF Slices
  <1>6. \A i \in 1 .. n : r[i] = s[n - i + 1]
    BY <1>3
  <1>7. Range(r) = Range(s)
    <2>1. \A i \in 1 .. n : r[i] \in Range(s)
      BY <1>1, <1>2, <1>6 DEF Range
    <2>2. \A i \in 1 .. n : s[i] \in Range(r)
      <3> SUFFICES ASSUME NEW i \in 1 .. n PROVE s[i] \in Range(r)
        OBVIOUS
      <3>1. n - i + 1 \in DOMAIN r /\ r[n - i + 1] = s[i]
        BY <1>2, <1>5, <1>6
      <3> QED
        BY <3>1 DEF Range
    <2> QED
      BY <1>1, <1>5, <2>1, <2>2 DEF Range
  <1>8. ASSUME IsInjective(s) PROVE IsInjective(r)
    <2> SUFFICES ASSUME NEW i \in 1 .. n, NEW j \in 1 .. n, r[i] = r[j] PROVE i = j
      BY <1>5 DEF IsInjective
    <2>1. n - i + 1 = n - j + 1
      BY <1>1, <1>2, <1>6, <1>8 DEF IsInjective
    <2> QED
      BY <1>1, <2>1
  <1> QED
    BY <1>1, <1>5, <1>6, <1>7, <1>8 DEF n, r

(* The loop of lifo.go, and its second reversal. *)
LEMMA BackwardsWorks ==
    ASSUME QueueInv, scheduler = "lifo", NEW budget \in Int
    PROVE  Popped(FilterBackwards(budget)[1], Reverse(FilterBackwards(budget)[2]), budget)
  <1> DEFINE N == Len(items)
             x == [i |-> N, remaining |-> <<>>, left |-> budget, matched |-> <<>>]
             P == [k \in 0 .. N |-> {s \in Backing : BackwardsOK(s, k, budget)}]
  <1>1. N \in Nat /\ items \in Slices /\ DOMAIN items = 1 .. N /\ <<>> \in Slices
    BY EmptySeq DEF QueueInv, Slices
  <1>2. x \in P[0]
    <2>1. /\ x \in Backing /\ x.remaining = <<>> /\ x.i = N
          /\ x.left = budget /\ x.matched = <<>>
      BY <1>1 DEF Backing
    <2>2. {items[n] : n \in 1 .. N - 0} = Range(items)
      BY <1>1 DEF Range
    <2>3. Scanned({items[n] : n \in 1 .. N - 0}, <<>>, <<>>, budget, budget)
      BY <2>2, ScanStarts
    <2> HIDE DEF x
    <2>4. BackwardsOK(x, 0, budget)
      BY <1>1, <2>1, <2>3 DEF BackwardsOK
    <2> QED
      BY <1>1, <2>1, <2>4
  <1>3. ASSUME NEW k \in 0 .. N - 1, NEW s \in P[k] PROVE BackwardsRound[s] \in P[k + 1]
    <2>1. BackwardsOK(s, k, budget)
      BY <1>1
    <2>2. BackwardsOK(BackwardsRound[s], k + 1, budget)
      BY <2>1, BackwardsStep
    <2>3. BackwardsRound[s] \in Backing
      BY <2>2 DEF BackwardsOK
    <2> QED
      BY <1>1, <2>2, <2>3
  <1> HIDE DEF P
  <1>4. Rounds(BackwardsRound, x, N) \in P[N]
    BY <1>1, <1>2, <1>3, RoundsKeep
  <1> DEFINE s == Rounds(BackwardsRound, x, N)
             rest == Reverse(s.remaining)
  <1>5. FilterBackwards(budget) = <<s.matched, s.remaining>>
    BY DEF FilterBackwards
  <1>6. BackwardsOK(s, N, budget)
    BY <1>1, <1>4 DEF P
  <1> HIDE DEF s
  <1>7. {items[n] : n \in 1 .. N - N} = {}
    BY <1>1
  <1>8. Scanned({}, s.matched, s.remaining, s.left, budget)
    BY <1>6, <1>7 DEF BackwardsOK
  <1>9. /\ s.remaining \in Slices /\ IsInjective(s.remaining) /\ Sorted(s.remaining)
        /\ Range(s.remaining) \subseteq Range(items)
    BY <1>8 DEF Scanned
  <1>10. /\ rest \in Slices /\ IsInjective(rest) /\ Range(rest) = Range(s.remaining)
         /\ Len(rest) = Len(s.remaining)
         /\ \A i \in DOMAIN s.remaining : rest[i] = s.remaining[Len(s.remaining) - i + 1]
    BY <1>9, ReverseRange
  <1> HIDE DEF rest
  <1>11. ASSUME NEW i \in DOMAIN rest, NEW j \in DOMAIN rest, i < j
         PROVE  \E k, l \in DOMAIN items : k < l /\ items[k] = rest[i] /\ items[l] = rest[j]
    <2> DEFINE L == Len(s.remaining)
    <2>1. /\ L \in Nat /\ DOMAIN rest = 1 .. L /\ DOMAIN s.remaining = 1 .. L
      BY <1>9, <1>10 DEF Slices
    <2> HIDE DEF L
    <2>2. /\ L - i + 1 \in DOMAIN s.remaining /\ L - j + 1 \in DOMAIN s.remaining
          /\ L - j + 1 < L - i + 1
      BY <1>11, <2>1
    <2>3. Sooner(rest[j], rest[i])
      BY <1>9, <1>10, <2>1, <2>2 DEF L, Sorted
    <2>4. rest[i] \in Range(items) /\ rest[j] \in Range(items)
      BY <1>9, <1>10 DEF Range
    <2>5. PICK k, l \in DOMAIN items : items[k] = rest[i] /\ items[l] = rest[j]
      BY <2>4 DEF Range
    <2>6. k < l
      BY <2>3, <2>5, SoonerIs
    <2> QED
      BY <2>5, <2>6
  <1>12. scheduler # "priority"
    OBVIOUS
  <1> QED
    BY <1>5, <1>8, <1>10, <1>11, <1>12 DEF Popped, rest

(* The states of the first loop of priority.go. *)
Draining == [h : Slices, keep : Slices, left : Int, matched : Slices]

(* After k rounds: the heap holds the tickets that are untested. *)
DrainOK(s, k, budget) ==
    /\ s \in Draining
    /\ Len(s.h) = Len(items) - k /\ HeapOK(s.h, Len(s.h)) /\ IsInjective(s.h)
    /\ Scanned(Range(s.h), s.matched, s.keep, s.left, budget)

(* A round of the first loop of priority.go. *)
LEMMA DrainStep ==
    ASSUME QueueInv, scheduler = "priority", NEW budget \in Int,
           NEW k \in 0 .. Len(items) - 1, NEW s, DrainOK(s, k, budget)
    PROVE  DrainOK(DrainRound[s], k + 1, budget)
  <1> DEFINE N == Len(items)
             t == HeapPop(s.h)[1]
             g == HeapPop(s.h)[2]
             r == DrainRound[s]
  <1>1. /\ s \in Draining /\ Len(s.h) = N - k /\ HeapOK(s.h, Len(s.h)) /\ IsInjective(s.h)
        /\ Scanned(Range(s.h), s.matched, s.keep, s.left, budget)
    BY DEF DrainOK
  <1>2. N \in Nat /\ N - k >= 1 /\ (N - k) - 1 = N - (k + 1) /\ FieldsOK
    BY DEF QueueInv, Slices
  <1> HIDE DEF N
  <1>3. /\ s.h \in Slices /\ s.keep \in Slices /\ s.matched \in Slices /\ s.left \in Int
        /\ s.h # <<>>
    <2>1. /\ s.h \in Slices /\ s.keep \in Slices /\ s.matched \in Slices /\ s.left \in Int
      BY <1>1 DEF Draining
    <2>2. Len(s.h) # 0
      BY <1>1, <1>2
    <2> QED
      BY <2>1, <2>2
  <1>4. /\ t \in Range(s.h) /\ g \in Slices /\ Len(g) = Len(s.h) - 1
        /\ HeapOK(g, Len(g)) /\ IsInjective(g) /\ Range(g) = Range(s.h) \ {t}
        /\ \A u \in Range(g) : Lt(t, u)
    BY <1>1, <1>2, <1>3, PopTakesLeast
  <1> HIDE DEF t, g
  <1>5. \A u \in Range(s.h) \ {t} : Sooner(t, u)
    <2> SUFFICES ASSUME NEW u \in Range(s.h) \ {t} PROVE Sooner(t, u)
      OBVIOUS
    <2>1. Lt(t, u) /\ t \in Range(items) /\ u \in Range(items)
      BY <1>1, <1>4 DEF Scanned
    <2>2. PICK i, j \in DOMAIN items : items[i] = t /\ items[j] = u
      BY <2>1 DEF Range
    <2> QED
      BY <2>1, <2>2, SoonerIs
  <1>6. /\ cost[t] <= s.left =>
             Scanned(Range(g), Append(s.matched, t), s.keep, s.left - cost[t], budget)
        /\ ~(cost[t] <= s.left) =>
             Scanned(Range(g), s.matched, Append(s.keep, t), s.left, budget)
    <2>1. /\ cost[t] <= s.left =>
               Scanned(Range(s.h) \ {t}, Append(s.matched, t), s.keep, s.left - cost[t], budget)
          /\ ~(cost[t] <= s.left) =>
               Scanned(Range(s.h) \ {t}, s.matched, Append(s.keep, t), s.left, budget)
      BY <1>1, <1>4, <1>5, ScanGoesOn
    <2> QED
      BY <1>4, <2>1
  <1>7. t \in Tickets /\ cost[t] \in Int /\ s.left - cost[t] \in Int
    BY <1>2, <1>3, <1>4, RangeFinite DEF FieldsOK
  <1>8. Append(s.matched, t) \in Slices /\ Append(s.keep, t) \in Slices
    BY <1>3, <1>7 DEF Slices
  <1>9. r = IF cost[t] <= s.left
            THEN [s EXCEPT !.h = g, !.left = s.left - cost[t], !.matched = Append(s.matched, t)]
            ELSE [s EXCEPT !.h = g, !.keep = Append(s.keep, t)]
    BY <1>1 DEF DrainRound, Draining, t, g
  <1> HIDE DEF r
  <1>10. r = IF cost[t] <= s.left
             THEN [h |-> g, keep |-> s.keep, left |-> s.left - cost[t],
                   matched |-> Append(s.matched, t)]
             ELSE [h |-> g, keep |-> Append(s.keep, t), left |-> s.left, matched |-> s.matched]
    <2>1. CASE cost[t] <= s.left
      <3>1. r = [s EXCEPT !.h = g, !.left = s.left - cost[t], !.matched = Append(s.matched, t)]
        BY <1>9, <2>1
      <3>2. r = [h |-> g, keep |-> s.keep, left |-> s.left - cost[t],
                 matched |-> Append(s.matched, t)]
        BY <1>1, <3>1 DEF Draining
      <3> QED
        BY <2>1, <3>2
    <2>2. CASE ~(cost[t] <= s.left)
      <3>1. r = [s EXCEPT !.h = g, !.keep = Append(s.keep, t)]
        BY <1>9, <2>2
      <3>2. r = [h |-> g, keep |-> Append(s.keep, t), left |-> s.left, matched |-> s.matched]
        BY <1>1, <3>1 DEF Draining
      <3> QED
        BY <2>2, <3>2
    <2> QED
      BY <2>1, <2>2
  <1>11. CASE cost[t] <= s.left
    <2>1. /\ r \in Draining /\ r.h = g /\ r.keep = s.keep /\ r.left = s.left - cost[t]
          /\ r.matched = Append(s.matched, t)
      BY <1>3, <1>4, <1>7, <1>8, <1>10, <1>11 DEF Draining
    <2> QED
      BY <1>1, <1>2, <1>4, <1>6, <1>11, <2>1 DEF DrainOK, N, r
  <1>12. CASE ~(cost[t] <= s.left)
    <2>1. /\ r \in Draining /\ r.h = g /\ r.keep = Append(s.keep, t) /\ r.left = s.left
          /\ r.matched = s.matched
      BY <1>3, <1>4, <1>7, <1>8, <1>10, <1>12 DEF Draining
    <2> QED
      BY <1>1, <1>2, <1>4, <1>6, <1>12, <2>1 DEF DrainOK, N, r
  <1> QED
    BY <1>11, <1>12

(* The first loop of priority.go empties the heap. *)
LEMMA DrainWorks ==
    ASSUME QueueInv, scheduler = "priority", NEW budget \in Int
    PROVE  LET s == Rounds(DrainRound,
                           [h |-> items, keep |-> <<>>, left |-> budget, matched |-> <<>>],
                           Len(items))
           IN  Scanned({}, s.matched, s.keep, s.left, budget)
  <1> DEFINE N == Len(items)
             x == [h |-> items, keep |-> <<>>, left |-> budget, matched |-> <<>>]
             P == [k \in 0 .. N |-> {s \in Draining : DrainOK(s, k, budget)}]
  <1>1. N \in Nat /\ items \in Slices /\ <<>> \in Slices /\ IsInjective(items) /\ HeapOK(items, N)
    BY EmptySeq DEF QueueInv, Slices
  <1>2. x \in P[0]
    <2>1. /\ x \in Draining /\ x.h = items /\ x.keep = <<>> /\ x.left = budget
          /\ x.matched = <<>>
      BY <1>1 DEF Draining
    <2>2. Scanned(Range(items), <<>>, <<>>, budget, budget)
      BY ScanStarts
    <2> HIDE DEF x
    <2>3. DrainOK(x, 0, budget)
      BY <1>1, <2>1, <2>2 DEF DrainOK
    <2> QED
      BY <1>1, <2>1, <2>3
  <1>3. ASSUME NEW k \in 0 .. N - 1, NEW s \in P[k] PROVE DrainRound[s] \in P[k + 1]
    <2>1. DrainOK(s, k, budget)
      BY <1>1
    <2>2. DrainOK(DrainRound[s], k + 1, budget)
      BY <2>1, DrainStep
    <2>3. DrainRound[s] \in Draining
      BY <2>2 DEF DrainOK
    <2> QED
      BY <1>1, <2>2, <2>3
  <1> HIDE DEF P
  <1>4. Rounds(DrainRound, x, N) \in P[N]
    BY <1>1, <1>2, <1>3, RoundsKeep
  <1> DEFINE s == Rounds(DrainRound, x, N)
  <1>5. DrainOK(s, N, budget)
    BY <1>1, <1>4 DEF P
  <1> HIDE DEF s
  <1>6. s.h \in Slices /\ Len(s.h) = 0
    BY <1>1, <1>5 DEF DrainOK, Draining
  <1>7. Range(s.h) = {}
    BY <1>6 DEF Slices, Range
  <1> QED
    BY <1>5, <1>7 DEF DrainOK, s

(* The states of the second loop of priority.go. *)
PuttingBack == [h : Slices, keep : Slices]

(* After k rounds: the first k tickets of `kept` are in the heap again. *)
PutBackOK(s, k, kept) ==
    /\ s \in PuttingBack
    /\ Len(s.keep) = Len(kept) - k /\ IsInjective(s.keep)
    /\ HeapOK(s.h, Len(s.h)) /\ IsInjective(s.h)
    /\ Range(s.h) \cap Range(s.keep) = {}
    /\ Range(s.h) \cup Range(s.keep) = Range(kept)

(* A round of the second loop of priority.go. *)
LEMMA PutBackStep ==
    ASSUME FieldsOK, NEW kept \in Slices,
           NEW k \in 0 .. Len(kept) - 1, NEW s, PutBackOK(s, k, kept)
    PROVE  PutBackOK(PushBackRound[s], k + 1, kept)
  <1> DEFINE N == Len(kept)
             t == Head(s.keep)
             g == HeapPush(s.h, t)
             e == Tail(s.keep)
             r == PushBackRound[s]
  <1>1. /\ s \in PuttingBack /\ s.h \in Slices /\ s.keep \in Slices
        /\ Len(s.keep) = N - k /\ IsInjective(s.keep)
        /\ HeapOK(s.h, Len(s.h)) /\ IsInjective(s.h)
        /\ Range(s.h) \cap Range(s.keep) = {} /\ Range(s.h) \cup Range(s.keep) = Range(kept)
    BY DEF PutBackOK, PuttingBack
  <1>2. N \in Nat /\ N - k >= 1 /\ (N - k) - 1 = N - (k + 1)
    BY DEF Slices
  <1>3. s.keep # <<>>
    BY <1>1, <1>2
  <1>4. /\ t \in Tickets /\ e \in Slices /\ Len(e) = Len(s.keep) - 1 /\ t \in Range(s.keep)
        /\ Range(e) = Range(s.keep) \ {t} /\ IsInjective(e)
    BY <1>1, <1>3, TailRange DEF Slices
  <1>5. r = [h |-> g, keep |-> e]
    BY <1>1 DEF PushBackRound, PuttingBack
  <1> HIDE DEF t, e
  <1>6. t \notin Range(s.h)
    BY <1>1, <1>4
  <1>7. /\ g \in Slices /\ HeapOK(g, Len(g)) /\ Range(g) = Range(s.h) \cup {t} /\ IsInjective(g)
    BY <1>1, <1>4, <1>6, PushKeepsHeap
  <1> HIDE DEF g, r
  <1>8. r \in PuttingBack /\ r.h = g /\ r.keep = e
    BY <1>4, <1>5, <1>7 DEF PuttingBack
  <1>9. Range(g) \cap Range(e) = {} /\ Range(g) \cup Range(e) = Range(kept)
    BY <1>1, <1>4, <1>7
  <1> QED
    BY <1>1, <1>2, <1>4, <1>7, <1>8, <1>9 DEF PutBackOK, r

(* The two loops of priority.go. *)
LEMMA DrainHeapWorks ==
    ASSUME QueueInv, scheduler = "priority", NEW budget \in Int
    PROVE  Popped(DrainHeap(budget)[1], DrainHeap(budget)[2], budget)
  <1> DEFINE s == Rounds(DrainRound,
                         [h |-> items, keep |-> <<>>, left |-> budget, matched |-> <<>>],
                         Len(items))
             kept == s.keep
             N == Len(kept)
             x == [h |-> <<>>, keep |-> kept]
             P == [k \in 0 .. N |-> {y \in PuttingBack : PutBackOK(y, k, kept)}]
             h == Rounds(PushBackRound, x, N).h
  <1>1. Scanned({}, s.matched, kept, s.left, budget)
    BY DrainWorks
  <1>2. DrainHeap(budget) = <<s.matched, h>>
    BY DEF DrainHeap
  <1> HIDE DEF s
  <1> HIDE DEF kept
  <1>3. kept \in Slices /\ IsInjective(kept) /\ FieldsOK
    BY <1>1 DEF Scanned, QueueInv
  <1>4. N \in Nat /\ <<>> \in Slices /\ Range(<<>>) = {} /\ IsInjective(<<>>) /\ Len(<<>>) = 0
    BY <1>3, EmptySeq DEF Slices, Range, IsInjective
  <1>5. x \in P[0]
    <2>1. x \in PuttingBack /\ x.h = <<>> /\ x.keep = kept
      BY <1>3, <1>4 DEF PuttingBack
    <2>2. HeapOK(<<>>, 0)
      BY DEF HeapOK
    <2> HIDE DEF x
    <2>3. PutBackOK(x, 0, kept)
      BY <1>3, <1>4, <2>1, <2>2 DEF PutBackOK
    <2> QED
      BY <1>4, <2>1, <2>3
  <1>6. ASSUME NEW k \in 0 .. N - 1, NEW y \in P[k] PROVE PushBackRound[y] \in P[k + 1]
    <2>1. PutBackOK(y, k, kept)
      BY <1>4
    <2>2. PutBackOK(PushBackRound[y], k + 1, kept)
      BY <1>3, <2>1, PutBackStep
    <2>3. PushBackRound[y] \in PuttingBack
      BY <2>2 DEF PutBackOK
    <2> QED
      BY <1>4, <2>2, <2>3
  <1> HIDE DEF P
  <1>7. Rounds(PushBackRound, x, N) \in P[N]
    BY <1>4, <1>5, <1>6, RoundsKeep
  <1> DEFINE z == Rounds(PushBackRound, x, N)
  <1>8. PutBackOK(z, N, kept)
    BY <1>4, <1>7 DEF P
  <1>9. h = z.h
    OBVIOUS
  <1> HIDE DEF z, h
  <1>10. z.h \in Slices /\ z.keep \in Slices /\ Len(z.keep) = 0
    BY <1>4, <1>8 DEF PutBackOK, PuttingBack
  <1>11. Range(z.keep) = {}
    BY <1>10 DEF Slices, Range
  <1>12. h \in Slices /\ HeapOK(h, Len(h)) /\ IsInjective(h) /\ Range(h) = Range(kept)
    BY <1>8, <1>9, <1>10, <1>11 DEF PutBackOK
  <1> QED
    BY <1>1, <1>2, <1>12 DEF Popped

(* What PopWhere returns and leaves behind. *)
LEMMA PopWhereWorks ==
    ASSUME QueueInv, NEW budget \in Int
    PROVE  Popped(PopWhere(budget)[1], PopWhere(budget)[2], budget)
  <1>1. CASE scheduler = "priority"
    BY <1>1, DrainHeapWorks DEF PopWhere
  <1>2. CASE scheduler = "lifo"
    BY <1>2, BackwardsWorks DEF PopWhere
  <1>3. CASE scheduler \in {"fifo", "random"}
    BY <1>3, FilterWorks DEF PopWhere
  <1> QED
    BY <1>1, <1>2, <1>3 DEF QueueInv

-----------------------------------------------------------------------------
(* The three calls. *)

(* What is known of the queue is known of what a call leaves in it. *)
LEMMA StaysQueue ==
    ASSUME QueueInv, UNCHANGED fixedVars, items' \in Slices, IsInjective(items'),
           scheduler = "priority" => HeapOK(items', Len(items'))
    PROVE  QueueInv'
  <1>1. scheduler' = scheduler /\ prio' = prio /\ at' = at /\ cost' = cost
    BY DEF fixedVars
  <1>2. FieldsOK'
    BY <1>1 DEF QueueInv, FieldsOK
  <1>3. scheduler = "priority" => HeapOK(items, Len(items))'
    BY <1>1 DEF HeapOK, Lt, Reference!Less
  <1>4. items' \in Slices' /\ IsInjective(items)'
    BY DEF Slices, IsInjective
  <1> QED
    BY <1>1, <1>2, <1>3, <1>4 DEF QueueInv

(* Pop takes one ticket out, the one to be served next. *)
LEMMA PopWorks ==
    ASSUME QueueInv, Pop
    PROVE  \E t \in Range(items) :
             /\ last' = [op |-> "pop", before |-> items, budget |-> 0, out |-> <<t>>]
             /\ \E i \in Reference!ServeNext(items, prio, at) : t = items[i]
             /\ items' \in Slices /\ IsInjective(items') /\ Range(items') = Range(items) \ {t}
             /\ scheduler = "priority" => HeapOK(items', Len(items'))
  <1>1. items \in Slices /\ IsInjective(items) /\ items # <<>> /\ FieldsOK
    BY DEF QueueInv, Pop
  <1>2. CASE scheduler = "priority"
    <2> DEFINE t == HeapPop(items)[1]
    <2>1. HeapOK(items, Len(items))
      BY <1>2 DEF QueueInv
    <2>2. /\ t = items[1] /\ t \in Range(items) /\ HeapPop(items)[2] \in Slices
          /\ HeapOK(HeapPop(items)[2], Len(HeapPop(items)[2]))
          /\ IsInjective(HeapPop(items)[2]) /\ Range(HeapPop(items)[2]) = Range(items) \ {t}
      BY <1>1, <2>1, PopTakesLeast
    <2>3. /\ items' = HeapPop(items)[2]
          /\ last' = [op |-> "pop", before |-> items, budget |-> 0, out |-> <<t>>]
      BY <1>2 DEF Pop, Called
    <2> HIDE DEF t
    <2>4. 1 \in Reference!ServeNext(items, prio, at)
      <3>1. 1 \in DOMAIN items
        BY <1>1 DEF Slices
      <3>2. \A k \in DOMAIN items : ~Lt(items[k], items[1])
        BY <1>1, <2>1, RootLeast
      <3> QED
        BY <1>2, <3>1, <3>2
        DEF Reference!ServeNext, Reference!First, Reference!Precedes, Lt
    <2> QED
      BY <2>2, <2>3, <2>4
  <1>3. CASE scheduler # "priority"
    <2>1. PICK i \in Reference!ServeNext(items, prio, at) :
            /\ items' = Reference!PopAt(items, i)
            /\ last' = [op |-> "pop", before |-> items, budget |-> 0, out |-> <<items[i]>>]
      BY <1>3 DEF Pop, Called
    <2>2. i \in DOMAIN items
      BY <2>1 DEF Reference!ServeNext, Reference!First
    <2>3. /\ Reference!PopAt(items, i) \in Slices /\ IsInjective(Reference!PopAt(items, i))
          /\ Range(Reference!PopAt(items, i)) = Range(items) \ {items[i]}
      <3>1. CASE scheduler = "random"
        <4> DEFINE h == SubSeq([items EXCEPT ![i] = items[Len(items)]], 1, Len(items) - 1)
        <4>1. Reference!PopAt(items, i) = h
          BY <3>1 DEF Reference!PopAt
        <4>2. /\ h \in Seq(Tickets) /\ IsInjective(h) /\ Range(h) = Range(items) \ {items[i]}
          BY <1>1, <2>2, SwapOutRange DEF Slices
        <4> HIDE DEF h
        <4> QED
          BY <4>1, <4>2 DEF Slices
      <3>2. CASE scheduler # "random"
        <4>1. Reference!PopAt(items, i) = RemoveAt(items, i)
          BY <3>2 DEF Reference!PopAt, Reference!RemoveAt, RemoveAt
        <4> QED
          BY <1>1, <2>2, <4>1, RemoveAtRange DEF Slices
      <3> QED
        BY <3>1, <3>2
    <2>4. items[i] \in Range(items)
      BY <2>2 DEF Range
    <2> QED
      BY <1>3, <2>1, <2>3, <2>4
  <1> QED
    BY <1>2, <1>3

(* Push adds the ticket or leaves the queue alone. *)
LEMMA PushWorks ==
    ASSUME QueueInv, NEW t \in Tickets, Push(t)
    PROVE  /\ items' \in Slices /\ IsInjective(items') /\ last'.op = "push"
           /\ scheduler = "priority" => HeapOK(items', Len(items'))
  <1>1. items \in Slices /\ IsInjective(items) /\ FieldsOK /\ t \notin Range(items)
    BY DEF QueueInv, Push
  <1>2. last'.op = "push"
    BY DEF Push, Called
  <1>3. CASE Reference!Full(items)
    BY <1>2, <1>3 DEF Push, QueueInv
  <1>4. CASE ~Reference!Full(items) /\ scheduler = "priority"
    <2>1. items' = HeapPush(items, t)
      BY <1>4 DEF Push
    <2>2. HeapOK(items, Len(items))
      BY <1>4 DEF QueueInv
    <2> QED
      BY <1>1, <1>2, <2>1, <2>2, PushKeepsHeap
  <1>5. CASE ~Reference!Full(items) /\ scheduler # "priority"
    <2>1. items' = Append(items, t)
      BY <1>5 DEF Push
    <2> QED
      BY <1>1, <1>2, <1>5, <2>1, AppendRange DEF Slices
  <1> QED
    BY <1>3, <1>4, <1>5

(* PopWhere, with what Popped says of it. *)
LEMMA PopWhereCalled ==
    ASSUME QueueInv, CallPopWhere
    PROVE  \E budget, out :
             /\ last' = [op |-> "popwhere", before |-> items, budget |-> budget, out |-> out]
             /\ Popped(out, items', budget) /\ budget \in Int /\ UNCHANGED fixedVars
  <1>1. PICK budget \in Budgets :
          /\ items' = PopWhere(budget)[2]
          /\ last' = [op |-> "popwhere", before |-> items, budget |-> budget,
                      out |-> PopWhere(budget)[1]]
          /\ UNCHANGED fixedVars
    BY DEF CallPopWhere, Called
  <1>2. budget \in Int
    BY FieldsAssumption
  <1>3. Popped(PopWhere(budget)[1], PopWhere(budget)[2], budget)
    BY <1>2, PopWhereWorks
  <1> QED
    BY <1>1, <1>2, <1>3

-----------------------------------------------------------------------------
(* The invariant. *)

(* A new queue is empty. *)
LEMMA QueueInvInit == QueueInit => QueueInv
  <1> SUFFICES ASSUME QueueInit PROVE QueueInv
    OBVIOUS
  <1>1. scheduler \in {"fifo", "lifo", "random", "priority"}
    BY SchedulersAssumption DEF QueueInit
  <1>2. FieldsOK
    <2>1. (IF scheduler = "priority" THEN Priorities ELSE {0}) \subseteq Int /\ Costs \subseteq Int
      BY FieldsAssumption
    <2> QED
      BY <2>1 DEF QueueInit, FieldsOK
  <1>3. items = <<>>
    BY DEF QueueInit
  <1>4. items \in Slices /\ IsInjective(items) /\ Len(items) = 0
    BY <1>3, EmptySeq DEF Slices, IsInjective
  <1>5. HeapOK(items, Len(items))
    BY <1>4 DEF HeapOK
  <1> QED
    BY <1>1, <1>2, <1>4, <1>5 DEF QueueInv

(* Each call keeps the invariant. *)
LEMMA QueueInvStep == QueueInv /\ [QueueNext]_queueVars => QueueInv'
  <1> SUFFICES ASSUME QueueInv, [QueueNext]_queueVars PROVE QueueInv'
    OBVIOUS
  <1>1. UNCHANGED fixedVars
    BY DEF queueVars, QueueNext, Push, Pop, CallPopWhere
  <1>2. ASSUME NEW t \in Tickets, Push(t) PROVE QueueInv'
    BY <1>1, <1>2, PushWorks, StaysQueue
  <1>3. ASSUME Pop PROVE QueueInv'
    BY <1>1, <1>3, PopWorks, StaysQueue
  <1>4. ASSUME CallPopWhere PROVE QueueInv'
    BY <1>1, <1>4, PopWhereCalled, StaysQueue DEF Popped
  <1>5. ASSUME UNCHANGED queueVars PROVE QueueInv'
    <2>1. items' = items
      BY <1>5 DEF queueVars
    <2> QED
      BY <1>1, <2>1, StaysQueue DEF QueueInv
  <1> QED
    BY <1>2, <1>3, <1>4, <1>5 DEF QueueNext

(* It always holds. *)
LEMMA QueueInvHolds == QueueSpec => []QueueInv
  BY QueueInvInit, QueueInvStep, PTL DEF QueueSpec

-----------------------------------------------------------------------------
(* The theorems. *)

(* Pop returns a ticket module Queue allows, for the priority queue the one of highest
   priority that is oldest: after any sequence of calls the array is still a heap. *)
THEOREM PopServes == QueueSpec => []PopServesFirst
  <1>1. QueueInit => PopServesFirst
    BY DEF QueueInit, NoCall, PopServesFirst
  <1>2. QueueInv /\ PopServesFirst /\ [QueueNext]_queueVars => PopServesFirst'
    <2> SUFFICES ASSUME QueueInv, PopServesFirst, [QueueNext]_queueVars
                 PROVE  PopServesFirst'
      OBVIOUS
    <2>1. scheduler' = scheduler /\ prio' = prio /\ at' = at
      BY DEF queueVars, fixedVars, QueueNext, Push, Pop, CallPopWhere
    <2>2. CASE Pop
      <3>1. PICK t \in Range(items) :
              /\ last' = [op |-> "pop", before |-> items, budget |-> 0, out |-> <<t>>]
              /\ \E i \in Reference!ServeNext(items, prio, at) : t = items[i]
        BY <2>2, PopWorks
      <3>2. PICK i \in Reference!ServeNext(items, prio, at) : t = items[i]
        BY <3>1
      <3>3. last'.before = items /\ last'.out = <<t>>
        BY <3>1
      <3> QED
        BY <2>1, <3>2, <3>3
        DEF PopServesFirst, Reference!ServeNext, Reference!First, Reference!Precedes,
            Reference!Less
    <2>3. ASSUME NEW t \in Tickets, Push(t) PROVE PopServesFirst'
      <3>1. last'.op = "push"
        BY <2>3, PushWorks
      <3> QED
        BY <3>1 DEF PopServesFirst
    <2>4. CASE CallPopWhere
      <3>1. last'.op = "popwhere"
        BY <2>4, PopWhereCalled
      <3> QED
        BY <3>1 DEF PopServesFirst
    <2>5. CASE UNCHANGED queueVars
      BY <2>5
      DEF queueVars, fixedVars, PopServesFirst, Reference!ServeNext, Reference!First,
          Reference!Precedes, Reference!Less
    <2> QED
      BY <2>2, <2>3, <2>4, <2>5 DEF QueueNext
  <1> QED
    BY <1>1, <1>2, QueueInvHolds, PTL DEF QueueSpec

(* Pop and PopWhere lose no ticket, duplicate none and reorder none, although the
   filters overwrite the slice they read and the heap is emptied and filled again. *)
THEOREM CallsKeepOrder == QueueSpec => []OrderKept
  <1>1. QueueInit => OrderKept
    BY DEF QueueInit, NoCall, OrderKept
  <1>2. QueueInv /\ OrderKept /\ [QueueNext]_queueVars => OrderKept'
    <2> SUFFICES ASSUME QueueInv, OrderKept, [QueueNext]_queueVars
                 PROVE  OrderKept'
      OBVIOUS
    <2>1. scheduler' = scheduler
      BY DEF queueVars, fixedVars, QueueNext, Push, Pop, CallPopWhere
    <2>2. items \in Slices /\ IsInjective(items)
      BY DEF QueueInv
    <2>3. CASE Pop
      <3>1. PICK t \in Range(items) :
              /\ last' = [op |-> "pop", before |-> items, budget |-> 0, out |-> <<t>>]
              /\ items' \in Slices /\ IsInjective(items') /\ Range(items') = Range(items) \ {t}
        BY <2>3, PopWorks
      <3>2. t \in Tickets
        BY <2>2, RangeFinite
      <3>3. <<t>> \in Seq(Tickets) /\ IsInjective(<<t>>) /\ Range(<<t>>) = {t}
        BY <3>2 DEF IsInjective, Range
      <3>4. IsInjective(items' \o <<t>>) /\ Range(items' \o <<t>>) = Range(items)
        <4>1. PICK r, u : r = items' /\ u = <<t>>
          OBVIOUS
        <4>2. /\ r \in Seq(Tickets) /\ IsInjective(r) /\ u \in Seq(Tickets) /\ IsInjective(u)
              /\ Range(r) \cap Range(u) = {} /\ Range(r) \cup Range(u) = Range(items)
          BY <3>1, <3>3, <4>1 DEF Slices
        <4>3. IsInjective(r \o u) /\ Range(r \o u) = Range(r) \cup Range(u)
          BY ONLY <4>2, ConcatRange
        <4> QED
          BY <4>1, <4>2, <4>3
      <3>5. last'.op = "pop" /\ last'.before = items /\ last'.out = <<t>>
        BY <3>1
      <3> QED
        BY <3>4, <3>5 DEF OrderKept, IsInjective, Range
    <2>4. ASSUME NEW t \in Tickets, Push(t) PROVE OrderKept'
      <3>1. last'.op = "push"
        BY <2>4, PushWorks
      <3> QED
        BY <3>1 DEF OrderKept
    <2>5. CASE CallPopWhere
      <3>1. PICK budget, out :
              /\ last' = [op |-> "popwhere", before |-> items, budget |-> budget, out |-> out]
              /\ Popped(out, items', budget)
        BY <2>5, PopWhereCalled
      <3>2. PICK kept, left :
              /\ Scanned({}, out, kept, left, budget)
              /\ items' \in Slices /\ IsInjective(items') /\ Range(items') = Range(kept)
              /\ scheduler # "priority" =>
                   \A i, j \in DOMAIN items' : i < j =>
                       \E k, l \in DOMAIN items :
                           k < l /\ items[k] = items'[i] /\ items[l] = items'[j]
        BY <3>1 DEF Popped
      <3>3. /\ out \in Slices /\ IsInjective(out) /\ Range(out) \cap Range(kept) = {}
            /\ Range(out) \cup Range(kept) = Range(items)
        BY <3>2 DEF Scanned
      <3>4. IsInjective(items' \o out) /\ Range(items' \o out) = Range(items)
        <4>1. PICK r : r = items'
          OBVIOUS
        <4>2. /\ r \in Seq(Tickets) /\ IsInjective(r) /\ out \in Seq(Tickets) /\ IsInjective(out)
              /\ Range(r) \cap Range(out) = {} /\ Range(r) \cup Range(out) = Range(items)
          BY <3>2, <3>3, <4>1 DEF Slices
        <4>3. IsInjective(r \o out) /\ Range(r \o out) = Range(r) \cup Range(out)
          BY ONLY <4>2, ConcatRange
        <4> QED
          BY <4>1, <4>2, <4>3
      <3>5. last'.op = "popwhere" /\ last'.before = items /\ last'.out = out
        BY <3>1
      <3>6. /\ IsInjective(items \o last.out)'
            /\ (Range(items \o last.out) = Range(last.before))'
        BY <3>4, <3>5
      <3>7. scheduler' # "priority" =>
              \A i, j \in DOMAIN items' : i < j =>
                  \E k, l \in DOMAIN last'.before :
                      k < l /\ last'.before[k] = items'[i] /\ last'.before[l] = items'[j]
        BY <2>1, <3>2, <3>5
      <3> QED
        BY <3>6, <3>7 DEF OrderKept
    <2>6. CASE UNCHANGED queueVars
      BY <2>6 DEF queueVars, fixedVars, OrderKept, IsInjective, Range
    <2> QED
      BY <2>3, <2>4, <2>5, <2>6 DEF QueueNext
  <1> QED
    BY <1>1, <1>2, QueueInvHolds, PTL DEF QueueSpec

(* PopWhereGreedy of a call that found s and returned out. *)
Greedy(s, out, budget) ==
    /\ \A t \in Range(s) :
         t \in Range(out) <=>
            cost[t] + Total(cost, {u \in Range(out) : Earlier(s, u, t)}) <= budget
    /\ \A i, j \in DOMAIN out : i < j => Earlier(s, out[i], out[j])

(* The model's sum is the one SharedLemmas unfolds. *)
LEMMA CostIsTotal == \A T : CostOf(T) = Total(cost, T)
  BY DEF CostOf, Total

(* The property is that of the last call of PopWhere. *)
LEMMA GreedyIs ==
    PopWhereGreedy <=>
        (last.op = "popwhere" => Greedy(last.before, last.out, last.budget))
  BY CostIsTotal DEF PopWhereGreedy, Greedy

(* PopWhere returns, in serve order, exactly the tickets that fit into what the
   matching tickets before them left over. *)
THEOREM PopWhereIsGreedy == QueueSpec => []PopWhereGreedy
  <1>1. QueueInit => PopWhereGreedy
    BY DEF QueueInit, NoCall, PopWhereGreedy
  <1>2. QueueInv /\ PopWhereGreedy /\ [QueueNext]_queueVars => PopWhereGreedy'
    <2> SUFFICES ASSUME QueueInv, PopWhereGreedy, [QueueNext]_queueVars
                 PROVE  PopWhereGreedy'
      OBVIOUS
    <2>1. scheduler' = scheduler /\ prio' = prio /\ at' = at /\ cost' = cost
      BY DEF queueVars, fixedVars, QueueNext, Push, Pop, CallPopWhere
    <2>2. (PopWhereGreedy <=>
              (last.op = "popwhere" => Greedy(last.before, last.out, last.budget)))'
      BY GreedyIs, PTL
    <2>3. CASE Pop
      <3>1. last'.op = "pop"
        BY <2>3, PopWorks
      <3> QED
        BY <2>2, <3>1
    <2>4. ASSUME NEW t \in Tickets, Push(t) PROVE PopWhereGreedy'
      <3>1. last'.op = "push"
        BY <2>4, PushWorks
      <3> QED
        BY <2>2, <3>1
    <2>5. CASE CallPopWhere
      <3>1. PICK budget, out :
              /\ last' = [op |-> "popwhere", before |-> items, budget |-> budget, out |-> out]
              /\ Popped(out, items', budget)
        BY <2>5, PopWhereCalled
      <3>2. PICK kept, left : Scanned({}, out, kept, left, budget)
        BY <3>1 DEF Popped
      <3>3. Greedy(items, out, budget)
        <4>1. /\ Range(out) \cup Range(kept) = Range(items)
              /\ \A t \in Range(out) \cup Range(kept) :
                   t \in Range(out) <=>
                      cost[t] + CostOf({u \in Range(out) : Sooner(u, t)}) <= budget
              /\ Sorted(out)
          BY <3>2 DEF Scanned
        <4> QED
          BY <4>1, CostIsTotal DEF Greedy, Sorted, Sooner
      <3>4. last'.before = items /\ last'.out = out /\ last'.budget = budget
        BY <3>1
      <3>5. Greedy(last.before, last.out, last.budget)'
        BY <2>1, <3>3, <3>4
        DEF Greedy, Earlier, Reference!Precedes, Reference!Less
      <3> QED
        BY <2>2, <3>5
    <2>6. CASE UNCHANGED queueVars
      <3>1. last' = last
        BY <2>6 DEF queueVars
      <3>2. last.op = "popwhere" => Greedy(last.before, last.out, last.budget)
        BY GreedyIs
      <3>3. Greedy(last.before, last.out, last.budget) =>
              Greedy(last.before, last.out, last.budget)'
        BY <2>1, <3>1 DEF Greedy, Earlier, Reference!Precedes, Reference!Less
      <3> QED
        BY <2>2, <3>1, <3>2, <3>3
    <2> QED
      BY <2>3, <2>4, <2>5, <2>6 DEF QueueNext
  <1> QED
    BY <1>1, <1>2, QueueInvHolds, PTL DEF QueueSpec
=============================================================================
