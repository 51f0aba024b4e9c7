---------------------------- MODULE SharedLemmas ----------------------------
(***************************************************************************)
(* Facts about sequences, finite sets of numbers and request paths that    *)
(* the proofs of several components need.                                  *)
(***************************************************************************)
EXTENDS RequestPaths, SequencesExt,
        FiniteSetTheorems, SequenceTheorems, WellFoundedInduction, TLAPS

-----------------------------------------------------------------------------
(* Sequences. *)

(* Appending an element adds it to those there are. *)
LEMMA AppendRange ==
    ASSUME NEW S, NEW s \in Seq(S), NEW e \in S
    PROVE  /\ Append(s, e) \in Seq(S)
           /\ Len(Append(s, e)) = Len(s) + 1
           /\ Range(Append(s, e)) = Range(s) \cup {e}
           /\ IsInjective(s) /\ e \notin Range(s) => IsInjective(Append(s, e))
  <1> DEFINE t == Append(s, e)
  <1>1. t \in Seq(S) /\ Len(t) = Len(s) + 1 /\ Len(s) \in Nat
    BY AppendProperties
  <1>2. DOMAIN t = 1 .. Len(s) + 1 /\ DOMAIN s = 1 .. Len(s)
    BY <1>1
  <1>3. \A i \in DOMAIN s : t[i] = s[i]
    BY AppendProperties, <1>2
  <1>4. t[Len(s) + 1] = e
    BY AppendProperties
  <1> HIDE DEF t
  <1>5. \A i \in DOMAIN t : i \in DOMAIN s \/ i = Len(s) + 1
    BY <1>1, <1>2
  <1>6. DOMAIN s \subseteq DOMAIN t /\ Len(s) + 1 \in DOMAIN t
    BY <1>1, <1>2
  <1>7. Range(t) = Range(s) \cup {e}
    BY <1>3, <1>4, <1>5, <1>6 DEF Range
  <1>8. ASSUME IsInjective(s), e \notin Range(s) PROVE IsInjective(t)
    BY <1>3, <1>4, <1>5, <1>8 DEF Range, IsInjective
  <1> QED
    BY <1>1, <1>7, <1>8 DEF t

(* The tail has all elements but the first. *)
LEMMA TailRange ==
    ASSUME NEW S, NEW s \in Seq(S), s # <<>>
    PROVE  /\ Head(s) \in S /\ Tail(s) \in Seq(S)
           /\ Len(Tail(s)) = Len(s) - 1
           /\ Head(s) \in Range(s)
           /\ Range(Tail(s)) \subseteq Range(s)
           /\ IsInjective(s) => /\ Range(Tail(s)) = Range(s) \ {Head(s)}
                                /\ IsInjective(Tail(s))
  <1> DEFINE t == Tail(s)
  <1>1. Head(s) \in S /\ t \in Seq(S) /\ Len(t) = Len(s) - 1 /\ Len(s) \in Nat /\ Len(s) >= 1
    BY HeadTailProperties
  <1>2. DOMAIN t = 1 .. Len(s) - 1 /\ DOMAIN s = 1 .. Len(s) /\ 1 \in DOMAIN s
    BY <1>1
  <1>3. Head(s) = s[1] /\ \A i \in DOMAIN t : t[i] = s[i + 1]
    BY <1>1, <1>2
  <1> HIDE DEF t
  <1>4. \A i \in DOMAIN t : i + 1 \in DOMAIN s /\ i + 1 # 1
    BY <1>1, <1>2
  <1>5. \A i \in DOMAIN s : i # 1 => i - 1 \in DOMAIN t /\ (i - 1) + 1 = i
    BY <1>1, <1>2
  <1>6. Head(s) \in Range(s) /\ Range(t) \subseteq Range(s)
    BY <1>2, <1>3, <1>4 DEF Range
  <1>7. ASSUME IsInjective(s) PROVE IsInjective(t)
    BY <1>1, <1>2, <1>3, <1>4, <1>7 DEF IsInjective
  <1>8. ASSUME IsInjective(s) PROVE Range(t) = Range(s) \ {Head(s)}
    <2>1. \A i \in DOMAIN s : i # 1 => s[i] \in Range(t)
      BY <1>3, <1>5 DEF Range
    <2>2. \A i \in DOMAIN t : t[i] # Head(s)
      BY <1>2, <1>3, <1>4, <1>8 DEF IsInjective
    <2> QED
      BY <1>3, <1>6, <2>1, <2>2 DEF Range
  <1> QED
    BY <1>1, <1>6, <1>7, <1>8 DEF t

(* What is left of a sequence without the element at index i. *)
LEMMA RemoveAtIndex ==
    ASSUME NEW S, NEW s \in Seq(S), NEW i \in DOMAIN s
    PROVE  /\ RemoveAt(s, i) \in Seq(S)
           /\ Len(RemoveAt(s, i)) = Len(s) - 1
           /\ DOMAIN RemoveAt(s, i) = 1 .. Len(s) - 1
           /\ \A k \in 1 .. Len(s) - 1 : RemoveAt(s, i)[k] = IF k < i THEN s[k] ELSE s[k + 1]
  <1> DEFINE n == Len(s)
             front == SubSeq(s, 1, i - 1)
             back == SubSeq(s, i + 1, n)
             t == front \o back
  <1>1. n \in Nat /\ i \in 1 .. n /\ DOMAIN s = 1 .. n
    OBVIOUS
  <1>2. front \in Seq(S) /\ Len(front) = i - 1
        /\ \A k \in 1 .. i - 1 : front[k] = s[k]
    BY <1>1
  <1>3. back \in Seq(S) /\ Len(back) = n - i
        /\ \A k \in 1 .. n - i : back[k] = s[i + k]
    BY <1>1
  <1>4. RemoveAt(s, i) = t
    BY DEF RemoveAt
  <1> HIDE DEF n, front, back
  <1>5. t \in Seq(S) /\ Len(t) = n - 1
        /\ \A k \in 1 .. n - 1 : t[k] = IF k <= i - 1 THEN front[k] ELSE back[k - (i - 1)]
    <2>1. /\ t \in Seq(S) /\ Len(t) = Len(front) + Len(back)
          /\ \A k \in 1 .. Len(front) + Len(back) :
                t[k] = IF k <= Len(front) THEN front[k] ELSE back[k - Len(front)]
      BY <1>2, <1>3, ConcatProperties, Zenon
    <2>2. Len(front) = i - 1 /\ Len(front) + Len(back) = n - 1
      BY <1>1, <1>2, <1>3
    <2> HIDE DEF t
    <2> QED
      BY <2>1, <2>2
  <1>6. DOMAIN t = 1 .. n - 1
    BY <1>1, <1>5
  <1> HIDE DEF t
  <1>7. ASSUME NEW k \in 1 .. n - 1 PROVE t[k] = IF k < i THEN s[k] ELSE s[k + 1]
    <2>1. CASE k < i
      BY <1>1, <1>2, <1>5, <1>6, <2>1
    <2>2. CASE ~(k < i)
      <3>1. k - (i - 1) \in 1 .. n - i /\ i + (k - (i - 1)) = k + 1
        BY <1>1, <1>6, <2>2
      <3>2. t[k] = back[k - (i - 1)]
        BY <1>1, <1>5, <1>6, <2>2
      <3> QED
        BY <1>3, <2>2, <3>1, <3>2
    <2> QED
      BY <2>1, <2>2
  <1> QED
    BY <1>4, <1>5, <1>6, <1>7 DEF n

(* Removing an index removes one element and keeps the others apart. *)
LEMMA RemoveAtRange ==
    ASSUME NEW S, NEW s \in Seq(S), NEW i \in DOMAIN s
    PROVE  /\ RemoveAt(s, i) \in Seq(S)
           /\ Len(RemoveAt(s, i)) = Len(s) - 1
           /\ Range(RemoveAt(s, i)) \subseteq Range(s)
           /\ IsInjective(s) => /\ Range(RemoveAt(s, i)) = Range(s) \ {s[i]}
                                /\ IsInjective(RemoveAt(s, i))
  <1> DEFINE n == Len(s)
             t == RemoveAt(s, i)
  <1>1. n \in Nat /\ i \in 1 .. n /\ DOMAIN s = 1 .. n
    OBVIOUS
  <1>2. t \in Seq(S) /\ Len(t) = n - 1 /\ DOMAIN t = 1 .. n - 1
        /\ \A k \in DOMAIN t : t[k] = IF k < i THEN s[k] ELSE s[k + 1]
    BY RemoveAtIndex
  <1> HIDE DEF n, t
  <1>3. \A k \in DOMAIN t : /\ k < i => k \in DOMAIN s
                            /\ ~(k < i) => k + 1 \in DOMAIN s /\ k + 1 # i
    BY <1>1, <1>2
  <1>4. \A k \in DOMAIN s : k # i => \E j \in DOMAIN t : t[j] = s[k]
    <2> SUFFICES ASSUME NEW k \in DOMAIN s, k # i PROVE \E j \in DOMAIN t : t[j] = s[k]
      OBVIOUS
    <2>1. CASE k < i
      BY <1>1, <1>2, <2>1
    <2>2. CASE k > i
      <3>1. k - 1 \in DOMAIN t /\ ~(k - 1 < i) /\ (k - 1) + 1 = k
        BY <1>1, <1>2, <2>2
      <3> QED
        BY <3>1, <1>2
    <2> QED
      BY <1>1, <2>1, <2>2
  <1>5. Range(t) \subseteq Range(s)
    BY <1>2, <1>3 DEF Range
  <1>6. ASSUME IsInjective(s) PROVE IsInjective(t)
    <2> SUFFICES ASSUME NEW a \in DOMAIN t, NEW b \in DOMAIN t, t[a] = t[b] PROVE a = b
      BY DEF IsInjective
    <2> DEFINE at(k) == IF k < i THEN k ELSE k + 1
    <2>1. at(a) \in DOMAIN s /\ at(b) \in DOMAIN s /\ s[at(a)] = s[at(b)]
      BY <1>2, <1>3
    <2>2. at(a) = at(b)
      BY <2>1, <1>6 DEF IsInjective
    <2> QED
      BY <2>2, <1>1, <1>2
  <1>7. ASSUME IsInjective(s) PROVE Range(t) = Range(s) \ {s[i]}
    <2>1. \A k \in DOMAIN t : t[k] # s[i]
      BY <1>1, <1>2, <1>3, <1>7 DEF IsInjective
    <2>2. \A k \in DOMAIN s : s[k] # s[i] => s[k] \in Range(t)
      BY <1>4 DEF Range
    <2> QED
      BY <1>5, <2>1, <2>2 DEF Range
  <1> QED
    BY <1>2, <1>5, <1>6, <1>7 DEF n, t

(* The random queue moves its last ticket into the hole: one ticket leaves, the
   others stay apart. *)
LEMMA SwapOutRange ==
    ASSUME NEW S, NEW s \in Seq(S), NEW i \in DOMAIN s
    PROVE  LET t == SubSeq([s EXCEPT ![i] = s[Len(s)]], 1, Len(s) - 1)
           IN  /\ t \in Seq(S)
               /\ Len(t) = Len(s) - 1
               /\ IsInjective(s) => Range(t) = Range(s) \ {s[i]} /\ IsInjective(t)
  <1> DEFINE n == Len(s)
             swapped == [s EXCEPT ![i] = s[n]]
             t == SubSeq(swapped, 1, n - 1)
  <1>1. n \in Nat /\ i \in 1 .. n /\ DOMAIN s = 1 .. n /\ n \in DOMAIN s
    OBVIOUS
  <1>2. swapped \in Seq(S) /\ Len(swapped) = n
    BY <1>1
  <1>3. \A k \in DOMAIN s : swapped[k] = IF k = i THEN s[n] ELSE s[k]
    BY <1>1
  <1> HIDE DEF swapped
  <1>4. t \in Seq(S) /\ Len(t) = n - 1 /\ \A k \in 1 .. n - 1 : t[k] = swapped[k]
    BY <1>1, <1>2
  <1>5. DOMAIN t = 1 .. n - 1
    BY <1>1, <1>4
  <1> HIDE DEF n, t
  <1>6. \A k \in DOMAIN t : k \in DOMAIN s /\ k # n /\ t[k] = IF k = i THEN s[n] ELSE s[k]
    BY <1>1, <1>3, <1>4, <1>5
  <1>7. \A k \in DOMAIN s : k # n => k \in DOMAIN t
    BY <1>1, <1>5
  <1>8. ASSUME IsInjective(s) PROVE IsInjective(t)
    BY <1>1, <1>6, <1>8 DEF IsInjective
  <1>9. ASSUME IsInjective(s) PROVE Range(t) = Range(s) \ {s[i]}
    <2>1. \A k \in DOMAIN t : t[k] \in Range(s) /\ t[k] # s[i]
      BY <1>1, <1>6, <1>9 DEF IsInjective, Range
    <2>2. \A k \in DOMAIN s : k # i => \E j \in DOMAIN t : t[j] = s[k]
      <3> SUFFICES ASSUME NEW k \in DOMAIN s, k # i PROVE \E j \in DOMAIN t : t[j] = s[k]
        OBVIOUS
      <3>1. CASE k = n
        BY <3>1, <1>6, <1>7
      <3>2. CASE k # n
        BY <3>2, <1>6, <1>7
      <3> QED
        BY <3>1, <3>2
    <2> QED
      BY <2>1, <2>2 DEF Range
  <1> QED
    BY <1>4, <1>8, <1>9 DEF n, t, swapped

(* Two sequences of distinct tickets, one behind the other. *)
LEMMA ConcatRange ==
    ASSUME NEW S, NEW s \in Seq(S), NEW u \in Seq(S), IsInjective(s), IsInjective(u),
           Range(s) \cap Range(u) = {}
    PROVE  IsInjective(s \o u) /\ Range(s \o u) = Range(s) \cup Range(u)
  <1> DEFINE m == Len(s)
             n == Len(u)
             c == s \o u
  <1>1. m \in Nat /\ n \in Nat /\ DOMAIN s = 1 .. m /\ DOMAIN u = 1 .. n
    OBVIOUS
  <1>2. /\ DOMAIN c = 1 .. m + n
        /\ \A k \in 1 .. m + n : c[k] = IF k <= m THEN s[k] ELSE u[k - m]
    <2>1. c \in Seq(S) /\ Len(c) = m + n
      OBVIOUS
    <2>2. \A k \in 1 .. m + n : c[k] = IF k <= m THEN s[k] ELSE u[k - m]
      OBVIOUS
    <2> QED
      BY <1>1, <2>1, <2>2
  <1> HIDE DEF m, n, c
  <1>3. \A k \in 1 .. m + n : k <= m => k \in DOMAIN s /\ c[k] = s[k]
    BY <1>1, <1>2
  <1>4. \A k \in 1 .. m + n : ~(k <= m) => k - m \in DOMAIN u /\ c[k] = u[k - m]
    BY <1>1, <1>2
  <1>5. Range(c) = Range(s) \cup Range(u)
    <2>1. Range(c) \subseteq Range(s) \cup Range(u)
      BY <1>2, <1>3, <1>4 DEF Range
    <2>2. \A k \in DOMAIN s : k \in DOMAIN c /\ c[k] = s[k]
      BY <1>1, <1>2
    <2>3. \A k \in DOMAIN u : k + m \in DOMAIN c /\ c[k + m] = u[k]
      BY <1>1, <1>2
    <2>4. Range(s) \subseteq Range(c)
      BY <2>2 DEF Range
    <2>5. Range(u) \subseteq Range(c)
      BY <2>3 DEF Range
    <2> QED
      BY <2>1, <2>4, <2>5
  <1>6. IsInjective(c)
    <2> SUFFICES ASSUME NEW j \in 1 .. m + n, NEW k \in 1 .. m + n, c[j] = c[k] PROVE j = k
      BY <1>2 DEF IsInjective
    <2>1. CASE j <= m /\ k <= m
      BY <1>3, <2>1 DEF IsInjective
    <2>2. CASE ~(j <= m) /\ ~(k <= m)
      <3>1. j - m = k - m
        BY <1>4, <2>2 DEF IsInjective
      <3> QED
        BY <1>1, <3>1
    <2>3. CASE j <= m /\ ~(k <= m)
      BY <1>3, <1>4, <2>3 DEF Range
    <2>4. CASE ~(j <= m) /\ k <= m
      BY <1>3, <1>4, <2>4 DEF Range
    <2> QED
      BY <2>1, <2>2, <2>3, <2>4
  <1> QED
    BY <1>5, <1>6 DEF c

(* Any stretch of a sequence holds elements of it only. *)
LEMMA SubSeqRange ==
    ASSUME NEW S, NEW s \in Seq(S), NEW k \in 0 .. Len(s)
    PROVE  /\ SubSeq(s, 1, k) \in Seq(S)
           /\ Range(SubSeq(s, 1, k)) \subseteq Range(s)
  <1> DEFINE t == SubSeq(s, 1, k)
  <1>1. t \in Seq(S) /\ Len(t) = k /\ \A i \in 1 .. k : t[i] = s[i]
    OBVIOUS
  <1>2. DOMAIN t = 1 .. k /\ DOMAIN s = 1 .. Len(s) /\ Len(s) \in Nat
    BY <1>1
  <1> HIDE DEF t
  <1>3. Range(t) \subseteq Range(s)
    BY <1>1, <1>2 DEF Range
  <1> QED
    BY <1>1, <1>3 DEF t

(* A sequence with an element inserted at place k. *)
LEMMA InsertAtIndex ==
    ASSUME NEW S, NEW s \in Seq(S), NEW k \in 1 .. Len(s) + 1, NEW e \in S
    PROVE  /\ InsertAt(s, k, e) \in Seq(S)
           /\ DOMAIN InsertAt(s, k, e) = 1 .. Len(s) + 1
           /\ InsertAt(s, k, e)[k] = e
           /\ \A i \in DOMAIN s : i < k => InsertAt(s, k, e)[i] = s[i]
           /\ \A i \in DOMAIN s : ~(i < k) => InsertAt(s, k, e)[i + 1] = s[i]
  <1> DEFINE n == Len(s)
             front == SubSeq(s, 1, k - 1)
             back == SubSeq(s, k, n)
             middle == front \o <<e>>
             t == middle \o back
  <1>1. n \in Nat /\ k \in Nat /\ k >= 1 /\ k <= n + 1 /\ DOMAIN s = 1 .. n
    OBVIOUS
  <1>2. front \in Seq(S) /\ Len(front) = k - 1 /\ \A i \in 1 .. k - 1 : front[i] = s[i]
    BY <1>1
  <1>3. back \in Seq(S) /\ Len(back) = n - k + 1 /\ \A i \in 1 .. n - k + 1 : back[i] = s[k + i - 1]
    BY <1>1
  <1>4. <<e>> \in Seq(S) /\ Len(<<e>>) = 1 /\ <<e>>[1] = e
    OBVIOUS
  <1>5. InsertAt(s, k, e) = t
    BY DEF InsertAt
  <1> HIDE DEF n, front, back
  <1>6. /\ middle \in Seq(S) /\ Len(middle) = k /\ middle[k] = e
        /\ \A i \in 1 .. k - 1 : middle[i] = front[i]
    <2>1. /\ middle \in Seq(S) /\ Len(middle) = Len(front) + Len(<<e>>)
          /\ \A i \in 1 .. Len(front) + Len(<<e>>) :
                middle[i] = IF i <= Len(front) THEN front[i] ELSE <<e>>[i - Len(front)]
      BY <1>2, <1>4, ConcatProperties, Zenon
    <2>2. Len(front) = k - 1 /\ Len(front) + Len(<<e>>) = k
      BY <1>1, <1>2, <1>4
    <2>3. k \in 1 .. k /\ ~(k <= k - 1) /\ k - (k - 1) = 1
      BY <1>1
    <2> HIDE DEF middle
    <2>4. \A i \in 1 .. k : middle[i] = IF i <= k - 1 THEN front[i] ELSE <<e>>[i - (k - 1)]
      BY <2>1, <2>2
    <2>5. middle[k] = e
      BY <1>4, <2>3, <2>4
    <2>6. \A i \in 1 .. k - 1 : i \in 1 .. k /\ i <= k - 1
      BY <1>1
    <2> QED
      BY <2>1, <2>2, <2>4, <2>5, <2>6
  <1> HIDE DEF middle
  <1>7. /\ t \in Seq(S) /\ Len(t) = n + 1
        /\ \A i \in 1 .. n + 1 : t[i] = IF i <= k THEN middle[i] ELSE back[i - k]
    <2>1. /\ t \in Seq(S) /\ Len(t) = Len(middle) + Len(back)
          /\ \A i \in 1 .. Len(middle) + Len(back) :
                t[i] = IF i <= Len(middle) THEN middle[i] ELSE back[i - Len(middle)]
      BY <1>3, <1>6, ConcatProperties, Zenon
    <2>2. Len(middle) = k /\ Len(middle) + Len(back) = n + 1
      BY <1>1, <1>3, <1>6
    <2> HIDE DEF t
    <2> QED
      BY <2>1, <2>2
  <1>8. DOMAIN t = 1 .. n + 1 /\ t[k] = e
    BY <1>1, <1>6, <1>7
  <1> HIDE DEF t
  <1>9. ASSUME NEW i \in DOMAIN s, i < k PROVE t[i] = s[i]
    BY <1>1, <1>2, <1>6, <1>7, <1>9
  <1>10. ASSUME NEW i \in DOMAIN s, ~(i < k) PROVE t[i + 1] = s[i]
    <2>1. i + 1 \in 1 .. n + 1 /\ ~(i + 1 <= k) /\ i + 1 - k \in 1 .. n - k + 1
          /\ k + (i + 1 - k) - 1 = i
      BY <1>1, <1>10
    <2> QED
      BY <1>3, <1>7, <2>1
  <1> QED
    BY <1>5, <1>7, <1>8, <1>9, <1>10 DEF n

-----------------------------------------------------------------------------
(* Numbers. *)

(* A bounded set of numbers has a largest one, and Max finds it. *)
LEMMA MaxIsLargest ==
    ASSUME NEW n \in Int, NEW T \in SUBSET (0 .. n), T # {}
    PROVE  Max(T) \in T /\ \A y \in T : Max(T) >= y
  <1> DEFINE U == {n - x : x \in T}
             R == OpToRel(<, Nat)
  <1>1. IsWellFoundedOn(R, Nat)
    BY NatLessThanWellFounded, Zenon
  <1>2. \A x \in T : x \in Int /\ n - x \in Nat
    OBVIOUS
  <1>3. U \subseteq Nat
    BY <1>2
  <1>4. U # {}
    OBVIOUS
  <1>5. \A y, u \in Nat : y < u => <<y, u>> \in R
    BY DEF OpToRel
  <1> HIDE DEF R
  <1>6. PICK u \in U : \A y \in U : ~ (<<y, u>> \in R)
    BY <1>1, <1>3, <1>4, WFMin
  <1>7. \A y \in U : y >= u
    <2> SUFFICES ASSUME NEW y \in U PROVE y >= u
      OBVIOUS
    <2>1. y \in Nat /\ u \in Nat
      BY <1>3
    <2>2. ~ (y < u)
      BY <1>5, <1>6, <2>1
    <2> QED
      BY <2>1, <2>2
  <1>8. \E x \in T : \A y \in T : x >= y
    <2>1. PICK x \in T : u = n - x
      OBVIOUS
    <2>2. \A y \in T : n - y >= n - x
      BY <1>7, <2>1
    <2>3. \A y \in T : x >= y
      BY <1>2, <2>2
    <2> QED
      BY <2>3
  <1> QED
    BY <1>8 DEF Max

(* A set of natural numbers has a smallest one, and Min finds it. *)
LEMMA MinIsSmallest ==
    ASSUME NEW T \in SUBSET Nat, T # {}
    PROVE  Min(T) \in T /\ \A y \in T : Min(T) <= y
  <1> DEFINE R == OpToRel(<, Nat)
  <1>1. IsWellFoundedOn(R, Nat)
    BY NatLessThanWellFounded, Zenon
  <1>2. \A y, u \in Nat : y < u => <<y, u>> \in R
    BY DEF OpToRel
  <1> HIDE DEF R
  <1>3. PICK u \in T : \A y \in T : ~ (<<y, u>> \in R)
    BY <1>1, WFMin
  <1>4. \A y \in T : u <= y
    <2> SUFFICES ASSUME NEW y \in T PROVE u <= y
      OBVIOUS
    <2>1. y \in Nat /\ u \in Nat /\ ~ (y < u)
      BY <1>2, <1>3
    <2> QED
      BY <2>1
  <1> QED
    BY <1>4 DEF Min

-----------------------------------------------------------------------------
(* Paths. *)

(* path.Dir of path.Dir: a prefix of a prefix is a prefix. *)
LEMMA PrefixOfPrefix ==
    ASSUME NEW S, NEW p \in Seq(S), NEW n \in 0 .. Len(p)
    PROVE  /\ SubSeq(p, 1, n) \in Seq(S) /\ Len(SubSeq(p, 1, n)) = n
           /\ \A m \in 0 .. n : SubSeq(SubSeq(p, 1, n), 1, m) = SubSeq(p, 1, m)
  <1>1. SubSeq(p, 1, n) \in Seq(S) /\ Len(SubSeq(p, 1, n)) = n
        /\ \A k \in 1 .. n : SubSeq(p, 1, n)[k] = p[k]
    OBVIOUS
  <1>2. ASSUME NEW m \in 0 .. n PROVE SubSeq(SubSeq(p, 1, n), 1, m) = SubSeq(p, 1, m)
    <2> DEFINE a == SubSeq(SubSeq(p, 1, n), 1, m)
               b == SubSeq(p, 1, m)
    <2>1. a \in Seq(S) /\ Len(a) = m /\ \A k \in 1 .. m : a[k] = SubSeq(p, 1, n)[k]
      BY <1>1
    <2>2. b \in Seq(S) /\ Len(b) = m /\ \A k \in 1 .. m : b[k] = p[k]
      OBVIOUS
    <2>3. \A k \in 1 .. m : a[k] = b[k]
      BY <1>1, <2>1, <2>2
    <2> HIDE DEF a, b
    <2>4. a = b
      BY <2>1, <2>2, <2>3, SeqEqual
    <2> QED
      BY <2>4 DEF a, b
  <1> QED
    BY <1>1, <1>2

(* NearestIn is the longest of the ancestors. *)
LEMMA NearestIsLongest ==
    ASSUME NEW S, NEW p \in Seq(S), NEW R, AncestorsIn(p, R) # {}
    PROVE  \E n \in AncestorsIn(p, R) :
             /\ n \in 0 .. Len(p) - 1
             /\ \A m \in AncestorsIn(p, R) : m <= n
             /\ NearestIn(p, R) = SubSeq(p, 1, n)
             /\ NearestIn(p, R) \in R
  <1> DEFINE T == AncestorsIn(p, R)
  <1>1. T \subseteq 0 .. (Len(p) - 1) /\ Len(p) - 1 \in Int
    BY DEF AncestorsIn
  <1>2. Max(T) \in T /\ \A y \in T : Max(T) >= y
    BY <1>1, MaxIsLargest
  <1>3. \A y \in T : y <= Max(T)
    BY <1>1, <1>2
  <1> QED
    BY <1>1, <1>2, <1>3 DEF AncestorsIn, NearestIn

(* Whoever lies below a path has its ancestors as ancestors. *)
LEMMA AncestorsInherited ==
    ASSUME NEW S, NEW p \in Seq(S), NEW n \in 0 .. Len(p) - 1, NEW R
    PROVE  AncestorsIn(SubSeq(p, 1, n), R) = {m \in AncestorsIn(p, R) : m < n}
  <1> DEFINE q == SubSeq(p, 1, n)
  <1>1. Len(p) \in Nat /\ n \in 0 .. Len(p)
    OBVIOUS
  <1>2. Len(q) = n /\ \A m \in 0 .. n : SubSeq(q, 1, m) = SubSeq(p, 1, m)
    BY <1>1, PrefixOfPrefix
  <1> HIDE DEF q
  <1>3. \A m \in 0 .. n - 1 : m \in AncestorsIn(q, R) <=> m \in AncestorsIn(p, R)
    <2> SUFFICES ASSUME NEW m \in 0 .. n - 1
                 PROVE  m \in AncestorsIn(q, R) <=> m \in AncestorsIn(p, R)
      OBVIOUS
    <2>1. m \in 0 .. n /\ m \in 0 .. (Len(p) - 1) /\ m \in 0 .. (Len(q) - 1)
      BY <1>1, <1>2
    <2>2. SubSeq(q, 1, m) = SubSeq(p, 1, m)
      BY <1>2, <2>1
    <2> QED
      BY <2>1, <2>2, Zenon DEF AncestorsIn
  <1>4. \A m \in AncestorsIn(q, R) : m \in 0 .. n - 1
    BY <1>2 DEF AncestorsIn
  <1>5. \A m \in AncestorsIn(p, R) : m < n => m \in 0 .. n - 1
    BY DEF AncestorsIn
  <1>6. \A m \in 0 .. n - 1 : m < n
    BY <1>1
  <1>7. AncestorsIn(q, R) = {m \in AncestorsIn(p, R) : m < n}
    BY <1>3, <1>4, <1>5, <1>6, Zenon
  <1> QED
    BY <1>7 DEF q

(* The nearest ancestor in a smaller set C: either the nearest one in R is in C,
   or the two paths have the same ancestors in C. *)
LEMMA NearestThroughChain ==
    ASSUME NEW S, NEW p \in Seq(S), NEW R, NEW C \in SUBSET R,
           AncestorsIn(p, R) # {}
    PROVE  LET parent == NearestIn(p, R)
           IN  /\ parent \in R
               /\ parent \in C => AncestorsIn(p, C) # {} /\ NearestIn(p, C) = parent
               /\ (parent \notin C /\ AncestorsIn(parent, C) # {}) =>
                     AncestorsIn(p, C) # {} /\ NearestIn(p, C) = NearestIn(parent, C)
  <1>1. PICK n \in AncestorsIn(p, R) :
             /\ n \in 0 .. Len(p) - 1
             /\ \A m \in AncestorsIn(p, R) : m <= n
             /\ NearestIn(p, R) = SubSeq(p, 1, n)
             /\ NearestIn(p, R) \in R
    BY NearestIsLongest
  <1> DEFINE parent == NearestIn(p, R)
  <1>2. Len(p) \in Nat /\ n \in Nat /\ n < Len(p)
    BY <1>1
  <1>3. \A m \in AncestorsIn(p, C) : m \in AncestorsIn(p, R) /\ m \in Nat /\ m <= n
    BY <1>1 DEF AncestorsIn
  <1>4. ASSUME parent \in C PROVE AncestorsIn(p, C) # {} /\ NearestIn(p, C) = parent
    <2>1. n \in AncestorsIn(p, C)
      BY <1>1, <1>4 DEF AncestorsIn
    <2>2. PICK k \in AncestorsIn(p, C) :
             /\ k \in 0 .. Len(p) - 1
             /\ \A m \in AncestorsIn(p, C) : m <= k
             /\ NearestIn(p, C) = SubSeq(p, 1, k)
      BY <2>1, NearestIsLongest
    <2>3. k <= n /\ n <= k /\ k \in Nat
      BY <1>3, <2>1, <2>2
    <2>4. k = n
      BY <1>2, <2>3
    <2> QED
      BY <1>1, <2>1, <2>2, <2>4
  <1>5. ASSUME parent \notin C, AncestorsIn(parent, C) # {}
        PROVE  AncestorsIn(p, C) # {} /\ NearestIn(p, C) = NearestIn(parent, C)
    <2>1. n \notin AncestorsIn(p, C)
      BY <1>1, <1>5 DEF AncestorsIn
    <2>2. \A m \in AncestorsIn(p, C) : m < n
      <3> SUFFICES ASSUME NEW m \in AncestorsIn(p, C) PROVE m < n
        OBVIOUS
      <3>1. m # n
        BY <2>1
      <3> QED
        BY <1>2, <1>3, <3>1
    <2>3. AncestorsIn(parent, C) = {m \in AncestorsIn(p, C) : m < n}
      BY <1>1, AncestorsInherited
    <2>4. AncestorsIn(parent, C) = AncestorsIn(p, C)
      BY <2>2, <2>3
    <2>5. AncestorsIn(p, C) # {}
      BY <1>5, <2>4
    <2>6. PICK k \in AncestorsIn(p, C) :
             /\ k = Max(AncestorsIn(p, C))
             /\ k \in 0 .. Len(p) - 1
      <3>1. AncestorsIn(p, C) \in SUBSET (0 .. (Len(p) - 1)) /\ Len(p) - 1 \in Int
        BY <1>2 DEF AncestorsIn
      <3>2. Max(AncestorsIn(p, C)) \in AncestorsIn(p, C)
        BY <2>5, <3>1, MaxIsLargest
      <3> QED
        BY <3>1, <3>2
    <2>7. NearestIn(p, C) = SubSeq(p, 1, k) /\ NearestIn(parent, C) = SubSeq(parent, 1, k)
      BY <2>4, <2>6 DEF NearestIn
    <2>8. k \in 0 .. n /\ n \in 0 .. Len(p)
      BY <1>2, <2>2, <2>6
    <2>9. SubSeq(parent, 1, k) = SubSeq(p, 1, k)
      BY <1>1, <2>8, PrefixOfPrefix
    <2> QED
      BY <2>5, <2>7, <2>9
  <1> QED
    BY <1>1, <1>4, <1>5
-----------------------------------------------------------------------------
(* Sums over finite sets. *)

(* Among some subsets of a finite set one has no other one within it. *)
LEMMA MinimalSet ==
    ASSUME NEW S, IsFiniteSet(S), NEW B \in SUBSET (SUBSET S), B # {}
    PROVE  \E T \in B : \A s \in SUBSET T : s # T => s \notin B
  <1> DEFINE N == {Cardinality(T) : T \in B}
             R == OpToRel(<, Nat)
  <1>1. IsWellFoundedOn(R, Nat)
    BY NatLessThanWellFounded, Zenon
  <1>2. \A T \in SUBSET S : IsFiniteSet(T) /\ Cardinality(T) \in Nat
    BY FS_Subset, FS_CardinalityType
  <1>3. N \subseteq Nat /\ N # {}
    BY <1>2
  <1>4. \A m, n \in Nat : m < n => <<m, n>> \in R
    BY DEF OpToRel
  <1> HIDE DEF R
  <1> HIDE DEF N
  <1>5. PICK n \in N : \A m \in N : ~ (<<m, n>> \in R)
    BY <1>1, <1>3, WFMin
  <1> USE DEF N
  <1>6. PICK T \in B : n = Cardinality(T)
    OBVIOUS
  <1>7. ASSUME NEW s \in SUBSET T, s # T PROVE s \notin B
    <2>1. IsFiniteSet(T) /\ Cardinality(T) \in Nat /\ Cardinality(s) \in Nat
      BY <1>2
    <2>2. Cardinality(s) <= Cardinality(T) /\ Cardinality(s) # Cardinality(T)
      BY <1>7, <2>1, FS_Subset
    <2>3. Cardinality(s) < Cardinality(T) /\ n \in Nat
      BY <1>6, <2>1, <2>2
    <2>4. Cardinality(s) \notin N
      BY <1>4, <1>5, <1>6, <2>1, <2>3
    <2> QED
      BY <2>4
  <1> QED
    BY <1>7

(* The sum of f over T. *)
Total(f, T) == MapThenSumSet(LAMBDA x : f[x], T)

(* One unfolding of the fold, at the element the library chooses. *)
Chosen(T) == CHOOSE x \in T : TRUE
Unfolds(f, T) ==
    Total(f, T) = IF T = {} THEN 0 ELSE f[Chosen(T)] + Total(f, T \ {Chosen(T)})

(* The recursive function behind the fold, as far as it exists. *)
FoldsTo(f, T, g) ==
    g = [s \in SUBSET T |-> IF s = {} THEN 0 ELSE f[Chosen(s)] + g[s \ {Chosen(s)}]]

(* If the recursive function exists, the fold is its value. *)
LEMMA FoldExists ==
    ASSUME NEW f, NEW T, \E g : FoldsTo(f, T, g)
    PROVE  \E g : FoldsTo(f, T, g) /\ Total(f, T) = g[T]
  BY DEF Total, FoldsTo, Chosen, MapThenSumSet, MapThenFoldSet

(* The fold unfolds: were T a smallest set for which it does not, the sums of the
   smaller ones would give the recursive function. *)
LEMMA TotalUnfolds ==
    ASSUME NEW S, IsFiniteSet(S), NEW f
    PROVE  \A T \in SUBSET S : Unfolds(f, T)
  <1> SUFFICES ASSUME \E T \in SUBSET S : ~Unfolds(f, T) PROVE FALSE
    OBVIOUS
  <1> DEFINE B == {T \in SUBSET S : ~Unfolds(f, T)}
  <1>1. B \in SUBSET (SUBSET S) /\ B # {}
    OBVIOUS
  <1> HIDE DEF B
  <1>2. PICK T \in B : \A s \in SUBSET T : s # T => s \notin B
    BY ONLY <1>1, IsFiniteSet(S), MinimalSet
  <1> USE DEF B
  <1>3. T \in SUBSET S /\ ~Unfolds(f, T) /\ \A s \in SUBSET T : s # T => Unfolds(f, s)
    BY <1>2
  <1> HIDE DEF B
  <1>4. \A s : s # {} => Chosen(s) \in s
    BY DEF Chosen
  <1> DEFINE Value(s) == IF s = {} THEN 0 ELSE f[Chosen(s)] + Total(f, s \ {Chosen(s)})
             h == [s \in SUBSET T |-> Value(s)]
  <1>5. \A s \in SUBSET T : s # {} => h[s \ {Chosen(s)}] = Total(f, s \ {Chosen(s)})
    <2> SUFFICES ASSUME NEW s \in SUBSET T, s # {}
                 PROVE  h[s \ {Chosen(s)}] = Total(f, s \ {Chosen(s)})
      OBVIOUS
    <2> DEFINE u == s \ {Chosen(s)}
    <2>1. u \in SUBSET T /\ u # T
      BY <1>4
    <2>2. Unfolds(f, u)
      BY <1>3, <2>1
    <2>3. h[u] = Value(u)
      BY <2>1
    <2> QED
      BY <2>2, <2>3 DEF Unfolds
  <1>6. h = [s \in SUBSET T |-> IF s = {} THEN 0 ELSE f[Chosen(s)] + h[s \ {Chosen(s)}]]
    <2>1. \A s \in SUBSET T : Value(s) = IF s = {} THEN 0 ELSE f[Chosen(s)] + h[s \ {Chosen(s)}]
      BY <1>5
    <2> HIDE DEF Value
    <2> QED
      BY <2>1, Zenon
  <1>7. FoldsTo(f, T, h)
    BY <1>6, Zenon DEF FoldsTo
  <1> HIDE DEF h
  <1>8. PICK g : FoldsTo(f, T, g) /\ Total(f, T) = g[T]
    BY <1>7, FoldExists
  <1>9. \A s \in SUBSET T : s # T => g[s] = Total(f, s)
    <2> SUFFICES ASSUME \E s \in SUBSET T : s # T /\ g[s] # Total(f, s) PROVE FALSE
      OBVIOUS
    <2> DEFINE D == {s \in SUBSET T : s # T /\ g[s] # Total(f, s)}
    <2>1. D \in SUBSET (SUBSET S) /\ D # {}
      BY <1>3
      <2> HIDE DEF D
  <2>2. PICK s \in D : \A u \in SUBSET s : u # s => u \notin D
      BY <2>1, MinimalSet
    <2> USE DEF D
    <2>3. s \in SUBSET T /\ s # T /\ g[s] # Total(f, s) /\ Unfolds(f, s)
      BY <1>3, <2>2
    <2>4. g[s] = IF s = {} THEN 0 ELSE f[Chosen(s)] + g[s \ {Chosen(s)}]
      BY <1>8, <2>3 DEF FoldsTo
    <2>5. s # {} => g[s \ {Chosen(s)}] = Total(f, s \ {Chosen(s)})
      BY <1>4, <2>2, <2>3
    <2> QED
      BY <2>3, <2>4, <2>5 DEF Unfolds
  <1>10. g[T] = IF T = {} THEN 0 ELSE f[Chosen(T)] + g[T \ {Chosen(T)}]
    BY <1>8 DEF FoldsTo
  <1>11. T # {} => g[T \ {Chosen(T)}] = Total(f, T \ {Chosen(T)})
    BY <1>4, <1>9
  <1> QED
    BY <1>3, <1>8, <1>10, <1>11 DEF Unfolds

(* A sum of integers is an integer; the empty sum is zero. *)
LEMMA TotalType ==
    ASSUME NEW S, IsFiniteSet(S), NEW f, \A x \in S : f[x] \in Int
    PROVE  Total(f, {}) = 0 /\ \A T \in SUBSET S : Total(f, T) \in Int
  <1>1. \A T \in SUBSET S : Unfolds(f, T)
    BY TotalUnfolds
  <1>2. Total(f, {}) = 0
    BY <1>1 DEF Unfolds
  <1> SUFFICES ASSUME \E T \in SUBSET S : Total(f, T) \notin Int PROVE FALSE
    BY <1>2
  <1> DEFINE B == {T \in SUBSET S : Total(f, T) \notin Int}
  <1>3. B \in SUBSET (SUBSET S) /\ B # {}
    OBVIOUS
  <1> HIDE DEF B
  <1>4. PICK T \in B : \A s \in SUBSET T : s # T => s \notin B
    BY ONLY <1>3, IsFiniteSet(S), MinimalSet
  <1> USE DEF B
  <1>5. T # {} /\ Total(f, T) \notin Int
    <2>1. 0 \in Int
      OBVIOUS
    <2> QED
      BY <1>2, <2>1
  <1>6. Chosen(T) \in T
    BY <1>5 DEF Chosen
  <1>7. Total(f, T \ {Chosen(T)}) \in Int /\ f[Chosen(T)] \in Int
    BY <1>4, <1>6
  <1> QED
    BY <1>1, <1>4, <1>5, <1>7 DEF Unfolds

(* Any element can be taken out of a sum first. *)
LEMMA TotalTakes ==
    ASSUME NEW S, IsFiniteSet(S), NEW f, \A y \in S : f[y] \in Int,
           NEW T \in SUBSET S, NEW x \in T
    PROVE  Total(f, T) = f[x] + Total(f, T \ {x})
  <1> SUFFICES ASSUME Total(f, T) # f[x] + Total(f, T \ {x}) PROVE FALSE
    OBVIOUS
  <1> DEFINE Takes(U) == \A y \in U : Total(f, U) = f[y] + Total(f, U \ {y})
             B == {U \in SUBSET S : ~Takes(U)}
  <1>1. B \in SUBSET (SUBSET S) /\ B # {}
    OBVIOUS
  <1> HIDE DEF B
  <1>2. PICK U \in B : \A s \in SUBSET U : s # U => s \notin B
    BY ONLY <1>1, IsFiniteSet(S), MinimalSet
  <1> USE DEF B
  <1>3. U \in SUBSET S /\ ~Takes(U) /\ \A s \in SUBSET U : s # U => Takes(s)
    BY <1>2
  <1>4. PICK y \in U : Total(f, U) # f[y] + Total(f, U \ {y})
    BY <1>3
  <1> DEFINE c == Chosen(U)
  <1>5. c \in U
    BY <1>4 DEF Chosen
  <1>6. Total(f, U) = f[c] + Total(f, U \ {c})
    BY <1>3, <1>4, TotalUnfolds DEF Unfolds
  <1> HIDE DEF c
  <1>7. c # y
    BY <1>4, <1>6
  <1>8. Total(f, U \ {c}) = f[y] + Total(f, (U \ {c}) \ {y})
    BY <1>3, <1>4, <1>5, <1>7
  <1>9. Total(f, U \ {y}) = f[c] + Total(f, (U \ {y}) \ {c})
    BY <1>3, <1>4, <1>5, <1>7
  <1>10. (U \ {y}) \ {c} = (U \ {c}) \ {y}
    OBVIOUS
  <1> DEFINE rest == Total(f, (U \ {c}) \ {y})
  <1>11. rest \in Int /\ f[c] \in Int /\ f[y] \in Int
    BY <1>3, <1>4, <1>5, TotalType
  <1> HIDE DEF rest
  <1>12. Total(f, U) = f[c] + (f[y] + rest) /\ Total(f, U \ {y}) = f[c] + rest
    BY <1>6, <1>8, <1>9, <1>10 DEF rest
  <1> QED
    BY <1>4, <1>11, <1>12

(* Sums of functions that agree are equal. *)
LEMMA TotalSame ==
    ASSUME NEW S, IsFiniteSet(S), NEW f, NEW g, \A x \in S : f[x] = g[x]
    PROVE  Total(f, S) = Total(g, S)
  <1> SUFFICES ASSUME Total(f, S) # Total(g, S) PROVE FALSE
    OBVIOUS
  <1> DEFINE B == {T \in SUBSET S : Total(f, T) # Total(g, T)}
  <1>1. B \in SUBSET (SUBSET S) /\ B # {}
    OBVIOUS
  <1> HIDE DEF B
  <1>2. PICK T \in B : \A s \in SUBSET T : s # T => s \notin B
    BY ONLY <1>1, IsFiniteSet(S), MinimalSet
  <1> USE DEF B
  <1>3. Unfolds(f, T) /\ Unfolds(g, T)
    BY <1>2, TotalUnfolds
  <1>4. T # {}
    BY <1>2, <1>3 DEF Unfolds
  <1>5. Chosen(T) \in T
    BY <1>4 DEF Chosen
  <1>6. Total(f, T \ {Chosen(T)}) = Total(g, T \ {Chosen(T)}) /\ f[Chosen(T)] = g[Chosen(T)]
    BY <1>2, <1>5
  <1> QED
    BY <1>2, <1>3, <1>4, <1>6 DEF Unfolds

(* A function that differs at one place only has a sum that differs by as much. *)
LEMMA TotalChanges ==
    ASSUME NEW S, IsFiniteSet(S), NEW f, NEW g, NEW x \in S,
           \A y \in S : f[y] \in Int /\ g[y] \in Int,
           \A y \in S : y # x => f[y] = g[y]
    PROVE  Total(g, S) = Total(f, S) + (g[x] - f[x])
  <1>1. IsFiniteSet(S \ {x})
    BY FS_RemoveElement
  <1>2. Total(f, S \ {x}) = Total(g, S \ {x})
    BY <1>1, TotalSame
  <1>3. Total(f, S) = f[x] + Total(f, S \ {x})
    BY TotalTakes
  <1>4. Total(g, S) = g[x] + Total(g, S \ {x})
    BY TotalTakes
  <1>5. Total(f, S \ {x}) \in Int /\ f[x] \in Int /\ g[x] \in Int
    BY TotalType
  <1> QED
    BY <1>2, <1>3, <1>4, <1>5

(* Zeros can be left out. *)
LEMMA TotalSkipsZeros ==
    ASSUME NEW S, IsFiniteSet(S), NEW f, \A x \in S : f[x] \in Int,
           NEW T \in SUBSET S, \A x \in S : x \notin T => f[x] = 0
    PROVE  Total(f, T) = Total(f, S)
  <1> SUFFICES ASSUME Total(f, T) # Total(f, S) PROVE FALSE
    OBVIOUS
  <1> DEFINE B == {U \in SUBSET S : T \subseteq U /\ Total(f, U) # Total(f, T)}
  <1>1. B \in SUBSET (SUBSET S) /\ B # {}
    OBVIOUS
  <1> HIDE DEF B
  <1>2. PICK U \in B : \A s \in SUBSET U : s # U => s \notin B
    BY ONLY <1>1, IsFiniteSet(S), MinimalSet
  <1> USE DEF B
  <1>3. PICK x \in U : x \notin T
    <2>1. T \subseteq U /\ U # T
      BY <1>2
    <2> QED
      BY <2>1, Zenon
  <1>4. Total(f, U \ {x}) = Total(f, T)
    BY <1>2, <1>3
  <1>5. Total(f, U) = f[x] + Total(f, U \ {x}) /\ Total(f, U \ {x}) \in Int /\ f[x] = 0
    BY <1>2, <1>3, TotalTakes, TotalType
  <1> QED
    BY <1>2, <1>4, <1>5
=============================================================================
