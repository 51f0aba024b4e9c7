------------------------- MODULE AttachMirrorProofs -------------------------
(***************************************************************************)
(* Theorems about what a terminal UI in another process sees, for every    *)
(* number of clients, buffer, queue, request, loss and key.  Part I is     *)
(* about Attach: what one client is sent and will be sent is an event      *)
(* stream.  Part II is about Mirror, a UI fed by such a stream: its rows   *)
(* show the settings of the server, keep their statistics, and drift from  *)
(* the queues by no more than what the UI was not told.                    *)
(***************************************************************************)
EXTENDS Attach, Mirror, SharedLemmas

(***************************************************************************)
(* Part I: the hub, the socket and the clients.                            *)
(***************************************************************************)

Messages == [type : {"config", "state", "event", "log", "nil"}, body : Nat]

(* The promised messages of s are collected one after the other in d. *)
Collects(d, s) ==
    /\ d \in [0 .. Len(s) -> Seq(Messages)]
    /\ d[0] = <<>>
    /\ \A n \in 1 .. Len(s) :
        d[n] = IF Promised(s[n]) THEN Append(d[n - 1], s[n]) ELSE d[n - 1]

(* There is only one way to collect them. *)
LEMMA CollectsOnce ==
    ASSUME NEW s \in Seq(Messages), NEW d, NEW e, Collects(d, s),
           e = [n \in 0 .. Len(s) |->
                  IF n = 0 THEN <<>>
                  ELSE IF Promised(s[n]) THEN Append(e[n - 1], s[n]) ELSE e[n - 1]]
    PROVE  e[Len(s)] = d[Len(s)]
  <1> DEFINE T == {n \in 0 .. Len(s) : e[n] # d[n]}
  <1>1. Len(s) \in Nat
    OBVIOUS
  <1>2. e[0] = <<>> /\ \A n \in 1 .. Len(s) :
            e[n] = IF Promised(s[n]) THEN Append(e[n - 1], s[n]) ELSE e[n - 1]
    <2>1. \A n \in 0 .. Len(s) : e[n] = IF n = 0 THEN <<>>
                  ELSE IF Promised(s[n]) THEN Append(e[n - 1], s[n]) ELSE e[n - 1]
      BY Zenon
    <2>2. 0 \in 0 .. Len(s) /\ \A n \in 1 .. Len(s) : n \in 0 .. Len(s) /\ n # 0
      BY <1>1
    <2> QED
      BY <2>1, <2>2, Zenon
  <1>3. SUFFICES ASSUME T # {} PROVE FALSE
    <2>1. Len(s) \in 0 .. Len(s)
      BY <1>1
    <2> QED
      BY <2>1, Zenon
  <1> DEFINE n == Min(T)
  <1>4. T \in SUBSET Nat
    OBVIOUS
  <1> HIDE DEF T
  <1>5. n \in T /\ \A y \in T : n <= y
    BY <1>3, <1>4, MinIsSmallest
  <1> HIDE DEF n
  <1>6. n \in 0 .. Len(s) /\ e[n] # d[n]
    BY <1>5 DEF T
  <1>7. n # 0
    BY <1>2, <1>6 DEF Collects
  <1>8. n \in 1 .. Len(s) /\ n - 1 \in 0 .. Len(s) /\ ~(n <= n - 1)
    BY <1>1, <1>6, <1>7
  <1>9. e[n - 1] = d[n - 1]
    BY <1>5, <1>8 DEF T
  <1> QED
    BY <1>2, <1>6, <1>8, <1>9 DEF Collects

(* Due is what a recursive function with its equation collects. *)
LEMMA DueUnfolds ==
    ASSUME NEW s, NEW e,
           e = [n \in 0 .. Len(s) |->
                  IF n = 0 THEN <<>>
                  ELSE IF Promised(s[n]) THEN Append(e[n - 1], s[n]) ELSE e[n - 1]]
    PROVE  \E f : /\ f = [n \in 0 .. Len(s) |->
                           IF n = 0 THEN <<>>
                           ELSE IF Promised(s[n]) THEN Append(f[n - 1], s[n]) ELSE f[n - 1]]
                  /\ Due(s) = f[Len(s)]
  BY DEF Due

(* Due is what is collected last. *)
LEMMA DueIsLast ==
    ASSUME NEW s \in Seq(Messages), NEW d, Collects(d, s)
    PROVE  Due(s) = d[Len(s)] /\ Due(s) \in Seq(Messages)
  <1>1. Len(s) \in Nat
    OBVIOUS
  <1>2. d = [n \in 0 .. Len(s) |->
               IF n = 0 THEN <<>>
               ELSE IF Promised(s[n]) THEN Append(d[n - 1], s[n]) ELSE d[n - 1]]
    <2>1. d = [n \in 0 .. Len(s) |-> d[n]]
      BY DEF Collects
    <2>2. ASSUME NEW n \in 0 .. Len(s)
          PROVE  d[n] = IF n = 0 THEN <<>>
                        ELSE IF Promised(s[n]) THEN Append(d[n - 1], s[n]) ELSE d[n - 1]
      <3>1. n = 0 \/ n \in 1 .. Len(s)
        BY <1>1
      <3> QED
        BY <3>1 DEF Collects
    <2> QED
      BY <2>1, <2>2, Zenon
  <1>3. Due(s) = d[Len(s)]
    BY <1>2, DueUnfolds, CollectsOnce
  <1> QED
    BY <1>1, <1>3 DEF Collects

(* Any messages can be collected: were some prefix the first that cannot, the one
   before it could be extended. *)
LEMMA CollectsExists ==
    ASSUME NEW s \in Seq(Messages)
    PROVE  \E d : Collects(d, s)
  <1> DEFINE Begun(k) == \E d : /\ d \in [0 .. k -> Seq(Messages)] /\ d[0] = <<>>
                                /\ \A n \in 1 .. k :
                                    d[n] = IF Promised(s[n]) THEN Append(d[n - 1], s[n])
                                           ELSE d[n - 1]
             T == {k \in 0 .. Len(s) : ~Begun(k)}
  <1>1. Len(s) \in Nat /\ \A n \in 1 .. Len(s) : s[n] \in Messages
    OBVIOUS
  <1>2. Begun(0)
    <2>1. LET d == [n \in 0 .. 0 |-> <<>>]
          IN  /\ d \in [0 .. 0 -> Seq(Messages)] /\ d[0] = <<>>
              /\ \A n \in 1 .. 0 :
                    d[n] = IF Promised(s[n]) THEN Append(d[n - 1], s[n]) ELSE d[n - 1]
      <3>1. <<>> \in Seq(Messages)
        BY EmptySeq
      <3> QED
        BY <3>1
    <2> QED
      BY <2>1
  <1>3. ASSUME NEW k \in 1 .. Len(s), Begun(k - 1) PROVE Begun(k)
    <2>1. PICK d : /\ d \in [0 .. k - 1 -> Seq(Messages)] /\ d[0] = <<>>
                   /\ \A n \in 1 .. k - 1 :
                        d[n] = IF Promised(s[n]) THEN Append(d[n - 1], s[n]) ELSE d[n - 1]
      BY <1>3
    <2> DEFINE v == IF Promised(s[k]) THEN Append(d[k - 1], s[k]) ELSE d[k - 1]
               e == [n \in 0 .. k |-> IF n = k THEN v ELSE d[n]]
    <2>2. k \in Nat /\ k >= 1
      BY <1>1
    <2>3. d[k - 1] \in Seq(Messages)
      BY <2>1, <2>2
    <2>4. v \in Seq(Messages)
      <3>1. Append(d[k - 1], s[k]) \in Seq(Messages)
        BY <1>1, <2>3, AppendProperties
      <3> QED
        BY <2>3, <3>1
    <2> HIDE DEF v
    <2>5. e \in [0 .. k -> Seq(Messages)]
      BY <2>1, <2>2, <2>4
    <2>6. e[0] = <<>>
      BY <2>1, <2>2
    <2>7. ASSUME NEW n \in 1 .. k
          PROVE  e[n] = IF Promised(s[n]) THEN Append(e[n - 1], s[n]) ELSE e[n - 1]
      <3>1. CASE n = k
        <4>1. e[n] = v /\ e[n - 1] = d[k - 1]
          BY <2>2, <3>1
        <4> QED
          BY <3>1, <4>1 DEF v
      <3>2. CASE n # k
        <4>1. n \in 1 .. k - 1 /\ e[n] = d[n] /\ e[n - 1] = d[n - 1]
          BY <2>2, <3>2
        <4> QED
          BY <2>1, <4>1
      <3> QED
        BY <3>1, <3>2
    <2> HIDE DEF e
    <2> QED
      BY <2>5, <2>6, <2>7
  <1> HIDE DEF Begun
  <1>4. T = {}
    <2> SUFFICES ASSUME T # {} PROVE FALSE
      OBVIOUS
    <2> DEFINE k == Min(T)
    <2>1. T \in SUBSET Nat
      BY <1>1
    <2> HIDE DEF T
    <2>2. k \in T /\ \A y \in T : k <= y
      BY <2>1, MinIsSmallest
    <2> HIDE DEF k
    <2>3. k \in 0 .. Len(s) /\ ~Begun(k)
      BY <2>2 DEF T
    <2>4. k # 0
      BY <1>2, <2>3
    <2>5. k \in 1 .. Len(s) /\ k - 1 \in 0 .. Len(s) /\ ~(k <= k - 1)
      BY <1>1, <2>3, <2>4
    <2>6. Begun(k - 1)
      BY <2>2, <2>5 DEF T
    <2> QED
      BY <1>3, <2>3, <2>5, <2>6
  <1>5. Begun(Len(s))
    BY <1>1, <1>4
  <1> QED
    BY <1>5 DEF Begun, Collects

(* Nothing is due of nothing, and of one message that message if it is promised. *)
LEMMA DueOfOne ==
    /\ Due(<<>>) = <<>>
    /\ \A m \in Messages : Due(<<m>>) = IF Promised(m) THEN <<m>> ELSE <<>>
  <1>1. <<>> \in Seq(Messages) /\ Len(<<>>) = 0
    BY EmptySeq
  <1>2. Due(<<>>) = <<>>
    <2>1. PICK d : Collects(d, <<>>)
      BY <1>1, CollectsExists
    <2> QED
      BY <1>1, <2>1, DueIsLast DEF Collects
  <1>3. ASSUME NEW m \in Messages PROVE Due(<<m>>) = IF Promised(m) THEN <<m>> ELSE <<>>
    <2>1. <<m>> \in Seq(Messages) /\ Len(<<m>>) = 1 /\ <<m>>[1] = m
      OBVIOUS
    <2>2. PICK d : Collects(d, <<m>>)
      BY <2>1, CollectsExists
    <2>3. Due(<<m>>) = d[1] /\ d[0] = <<>>
      BY <2>1, <2>2, DueIsLast DEF Collects
    <2>4. d[1] = IF Promised(m) THEN Append(d[0], m) ELSE d[0]
      <3>1. 1 \in 1 .. 1 /\ 1 - 1 = 0
        OBVIOUS
      <3> QED
        BY <2>1, <2>2, <3>1 DEF Collects
    <2>5. Append(<<>>, m) = <<m>>
      OBVIOUS
    <2> QED
      BY <2>3, <2>4, <2>5
  <1> QED
    BY <1>2, <1>3

(* What is due of s and then of t is due of the two together. *)
LEMMA DueOfBoth ==
    ASSUME NEW s \in Seq(Messages), NEW t \in Seq(Messages)
    PROVE  /\ Due(s) \in Seq(Messages) /\ Due(t) \in Seq(Messages)
           /\ Due(s \o t) = Due(s) \o Due(t)
  <1> DEFINE p == Len(s)
             q == Len(t)
             st == s \o t
  <1>1. PICK d : Collects(d, s)
    BY CollectsExists
  <1>2. PICK e : Collects(e, t)
    BY CollectsExists
  <1>3. Due(s) = d[p] /\ Due(t) = e[q] /\ Due(s) \in Seq(Messages) /\ Due(t) \in Seq(Messages)
    BY <1>1, <1>2, DueIsLast
  <1>4. p \in Nat /\ q \in Nat
    OBVIOUS
  <1>5. /\ st \in Seq(Messages) /\ Len(st) = p + q
        /\ \A n \in 1 .. p + q : st[n] = IF n <= p THEN s[n] ELSE t[n - p]
    BY ConcatProperties
  <1> DEFINE f == [n \in 0 .. p + q |-> IF n <= p THEN d[n] ELSE d[p] \o e[n - p]]
  <1>6. /\ d \in [0 .. p -> Seq(Messages)] /\ d[0] = <<>>
        /\ \A n \in 1 .. p : d[n] = IF Promised(s[n]) THEN Append(d[n - 1], s[n]) ELSE d[n - 1]
    BY <1>1 DEF Collects
  <1>7. /\ e \in [0 .. q -> Seq(Messages)] /\ e[0] = <<>>
        /\ \A n \in 1 .. q : e[n] = IF Promised(t[n]) THEN Append(e[n - 1], t[n]) ELSE e[n - 1]
    BY <1>2 DEF Collects
  <1>8. \A n \in 1 .. q : t[n] \in Messages
    OBVIOUS
  <1> HIDE DEF p, q, st
  <1>9. \A n \in 0 .. q : e[n] \in Seq(Messages) /\ d[p] \o e[n] \in Seq(Messages)
    BY <1>3, <1>7, ConcatProperties
  <1>10. f \in [0 .. p + q -> Seq(Messages)]
    <2>1. ASSUME NEW n \in 0 .. p + q
          PROVE  (IF n <= p THEN d[n] ELSE d[p] \o e[n - p]) \in Seq(Messages)
      <3>1. CASE n <= p
        <4>1. n \in 0 .. p
          BY <1>4, <3>1
        <4> QED
          BY <1>6, <3>1, <4>1
      <3>2. CASE ~(n <= p)
        <4>1. n - p \in 0 .. q
          BY <1>4, <3>2
        <4> QED
          BY <1>9, <3>2, <4>1
      <3> QED
        BY <3>1, <3>2
    <2> QED
      BY <2>1
  <1>11. f[0] = <<>>
    BY <1>4, <1>6
  <1>12. ASSUME NEW n \in 1 .. p + q
        PROVE  f[n] = IF Promised(st[n]) THEN Append(f[n - 1], st[n]) ELSE f[n - 1]
    <2>1. CASE n <= p
      <3>1. /\ n \in 1 .. p /\ n \in 0 .. p + q /\ n - 1 \in 0 .. p + q /\ n - 1 <= p
        BY <1>4, <2>1
      <3>2. st[n] = s[n]
        BY <1>5, <2>1
      <3> QED
        BY <1>6, <2>1, <3>1, <3>2
    <2>2. CASE ~(n <= p)
      <3>1. /\ n - p \in 1 .. q /\ n \in 0 .. p + q /\ n - 1 \in 0 .. p + q
            /\ (n - p) - 1 = (n - 1) - p /\ (n - p) - 1 \in 0 .. q
        BY <1>4, <2>2
      <3>2. st[n] = t[n - p] /\ t[n - p] \in Messages
        BY <1>5, <1>8, <2>2, <3>1
      <3>3. f[n] = d[p] \o e[n - p]
        BY <2>2, <3>1
      <3>4. f[n - 1] = d[p] \o e[(n - p) - 1]
        <4>1. CASE n - 1 <= p
          <5>1. n - 1 = p /\ (n - p) - 1 = 0
            BY <1>4, <2>2, <4>1
          <5>2. f[n - 1] = d[p] /\ e[(n - p) - 1] = <<>>
            BY <1>7, <3>1, <5>1
          <5> QED
            BY <1>3, <5>2, ConcatEmptySeq
        <4>2. CASE ~(n - 1 <= p)
          BY <3>1, <4>2
        <4> QED
          BY <4>1, <4>2
      <3> DEFINE a == d[p]
                 b == e[(n - p) - 1]
                 m == t[n - p]
      <3>5. a \in Seq(Messages) /\ b \in Seq(Messages) /\ m \in Messages
        BY <1>3, <1>9, <3>1, <3>2
      <3> HIDE DEF a, b, m
      <3>6. a \o Append(b, m) = Append(a \o b, m)
        <4>1. <<m>> \in Seq(Messages) /\ a \o b \in Seq(Messages)
          BY <3>5, ConcatProperties
        <4>2. Append(b, m) = b \o <<m>> /\ Append(a \o b, m) = (a \o b) \o <<m>>
          BY <3>5, <4>1, AppendIsConcat
        <4> QED
          BY <3>5, <4>1, <4>2, ConcatAssociative, SMTT(30)
      <3>7. e[n - p] = IF Promised(m) THEN Append(b, m) ELSE b
        BY <1>7, <3>1 DEF b, m
      <3>8. f[n] = a \o e[n - p] /\ f[n - 1] = a \o b /\ st[n] = m
        BY <3>2, <3>3, <3>4 DEF a, b, m
      <3> QED
        BY <3>6, <3>7, <3>8
    <2> QED
      BY <2>1, <2>2
  <1>13. f[p + q] = d[p] \o e[q]
    <2>1. CASE q = 0
      <3>1. f[p + q] = d[p] /\ e[q] = <<>>
        BY <1>4, <1>7, <2>1
      <3> QED
        BY <1>3, <3>1, ConcatEmptySeq
    <2>2. CASE q # 0
      <3>1. p + q \in 0 .. p + q /\ ~(p + q <= p) /\ (p + q) - p = q
        BY <1>4, <2>2
      <3> QED
        BY <3>1
    <2> QED
      BY <2>1, <2>2
  <1> HIDE DEF f
  <1>14. Collects(f, st)
    BY <1>5, <1>10, <1>11, <1>12 DEF Collects
  <1>15. Due(st) = f[p + q]
    BY <1>5, <1>14, DueIsLast
  <1> QED
    BY <1>3, <1>13, <1>15 DEF st

(* The two parts of a sequence that was put together. *)
LEMMA FrontAndBack ==
    ASSUME NEW S, NEW a \in Seq(S), NEW b \in Seq(S)
    PROVE  /\ SubSeq(a \o b, 1, Len(a)) = a
           /\ SubSeq(a \o b, Len(a) + 1, Len(a \o b)) = b
           /\ Len(a) \in 0 .. Len(a \o b)
  <1>1. Len(a) \in Nat /\ Len(b) \in Nat /\ Len(a \o b) = Len(a) + Len(b)
    BY ConcatProperties
  <1>2. SubSeq(a \o b, 1, Len(a)) = a
    <2>1. CASE Len(a) = 0
      <3>1. a = <<>> /\ Len(a) < 1
        BY <2>1
      <3>2. SubSeq(a \o b, 1, Len(a)) = <<>>
        BY <1>1, <3>1, SubSeqEmpty
      <3> QED
        BY <3>1, <3>2
    <2>2. CASE Len(a) # 0
      <3>1. 1 \in 1 .. Len(a) /\ Len(a) \in 1 .. Len(a)
        BY <1>1, <2>2
      <3>2. SubSeq(a \o b, 1, Len(a)) = SubSeq(a, 1, Len(a))
        BY <3>1, SubSeqOfConcat1, Zenon
      <3> QED
        BY <3>2, SubSeqFull
    <2> QED
      BY <2>1, <2>2
  <1>3. SubSeq(a \o b, Len(a) + 1, Len(a) + Len(b)) = b
    <2>1. CASE Len(b) = 0
      <3>1. b = <<>> /\ Len(a) + Len(b) < Len(a) + 1
        BY <1>1, <2>1
      <3>2. SubSeq(a \o b, Len(a) + 1, Len(a) + Len(b)) = <<>>
        BY <1>1, <3>1, SubSeqEmpty
      <3> QED
        BY <3>1, <3>2
    <2>2. CASE Len(b) # 0
      <3>1. /\ Len(a) + 1 \in Len(a) + 1 .. Len(a) + Len(b)
            /\ Len(a) + Len(b) \in Len(a) + 1 .. Len(a) + Len(b)
            /\ Len(a) + 1 - Len(a) = 1 /\ Len(a) + Len(b) - Len(a) = Len(b)
        BY <1>1, <2>2
      <3>2. SubSeq(a \o b, Len(a) + 1, Len(a) + Len(b)) = SubSeq(b, 1, Len(b))
        BY <3>1, SubSeqOfConcat2
      <3> QED
        BY <3>2, SubSeqFull
    <2> QED
      BY <2>1, <2>2
  <1> QED
    BY <1>1, <1>2, <1>3

(* A sequence is its first element and its tail. *)
LEMMA HeadAndTail ==
    ASSUME NEW S
    PROVE  /\ \A s \in Seq(S) : s # <<>> =>
                /\ Head(s) \in S /\ Tail(s) \in Seq(S)
                /\ s = <<Head(s)>> \o Tail(s)
           /\ \A m \in S, s \in Seq(S) :
                /\ <<m>> \in Seq(S)
                /\ <<m>> \o s \in Seq(S)
                /\ <<m>> \o s # <<>> /\ Tail(<<m>> \o s) = s
  <1>1. ASSUME NEW s \in Seq(S), s # <<>>
        PROVE  Head(s) \in S /\ Tail(s) \in Seq(S) /\ s = <<Head(s)>> \o Tail(s)
    <2>1. Len(s) \in Nat /\ Len(s) # 0
      BY <1>1
    <2>2. 1 \in 1 .. Len(s) /\ Len(s) \in 1 .. Len(s) /\ 1 + 1 = 2
      BY <2>1
    <2>3. SubSeq(s, 1, Len(s)) = <<s[1]>> \o SubSeq(s, 2, Len(s))
      BY <2>2, SubSeqRecursiveFirst
    <2>4. Head(s) = s[1] /\ Tail(s) = SubSeq(s, 2, Len(s)) /\ SubSeq(s, 1, Len(s)) = s
      BY <1>1, SubSeqFull, TailIsSubSeq
    <2>5. Head(s) \in S /\ Tail(s) \in Seq(S)
      BY <1>1, HeadTailProperties
    <2> QED
      BY <2>3, <2>4, <2>5
  <1>2. ASSUME NEW m \in S, NEW s \in Seq(S)
        PROVE  /\ <<m>> \in Seq(S) /\ <<m>> \o s \in Seq(S)
               /\ <<m>> \o s # <<>> /\ Tail(<<m>> \o s) = s
    <2>1. <<m>> \in Seq(S) /\ Len(<<m>>) = 1
      OBVIOUS
    <2>2. /\ <<m>> \o s \in Seq(S) /\ Len(<<m>> \o s) = 1 + Len(s)
          /\ SubSeq(<<m>> \o s, 1 + 1, Len(<<m>> \o s)) = s
      BY <2>1, ConcatProperties, FrontAndBack
    <2>3. <<m>> \o s # <<>>
      <3>1. Len(s) \in Nat /\ Len(<<>>) = 0
        OBVIOUS
      <3> QED
        BY <2>2, <3>1
    <2>4. Tail(<<m>> \o s) = SubSeq(<<m>> \o s, 2, Len(<<m>> \o s)) /\ 1 + 1 = 2
      BY <2>2, <2>3, TailIsSubSeq
    <2> QED
      BY <2>1, <2>2, <2>3, <2>4
  <1> QED
    BY <1>1, <1>2

(* Removing the element between two parts. *)
LEMMA RemoveBetween ==
    ASSUME NEW S, NEW a \in Seq(S), NEW m \in S, NEW b \in Seq(S)
    PROVE  /\ Len(a) + 1 \in DOMAIN (a \o (<<m>> \o b))
           /\ (a \o (<<m>> \o b))[Len(a) + 1] = m
           /\ RemoveAt(a \o (<<m>> \o b), Len(a) + 1) = a \o b
  <1> DEFINE mb == <<m>> \o b
             p == a \o mb
             am == a \o <<m>>
  <1>1. /\ <<m>> \in Seq(S) /\ Len(<<m>>) = 1 /\ <<m>>[1] = m
        /\ Len(a) \in Nat /\ Len(b) \in Nat
    OBVIOUS
  <1>2. /\ mb \in Seq(S) /\ Len(mb) = 1 + Len(b)
        /\ am \in Seq(S) /\ Len(am) = Len(a) + 1
    BY <1>1, ConcatProperties
  <1>3. mb[1] = m
    <2>1. \A i \in 1 .. Len(<<m>>) + Len(b) :
            mb[i] = IF i <= Len(<<m>>) THEN <<m>>[i] ELSE b[i - Len(<<m>>)]
      BY <1>1, ConcatProperties, Zenon
    <2> HIDE DEF mb
    <2> QED
      BY <1>1, <2>1
  <1>4. /\ p \in Seq(S) /\ Len(p) = Len(a) + Len(mb)
        /\ \A i \in 1 .. Len(a) + Len(mb) :
             p[i] = IF i <= Len(a) THEN a[i] ELSE mb[i - Len(a)]
    <2>1. mb \in Seq(S)
      BY <1>2
    <2> HIDE DEF mb
    <2> QED
      BY <2>1, ConcatProperties, Zenon
  <1>5. p = am \o b
    BY <1>1, ConcatAssociative
  <1>6. SubSeq(p, 1, Len(a)) = a
    BY <1>2, FrontAndBack
  <1>7. SubSeq(p, Len(am) + 1, Len(p)) = b
    BY <1>2, <1>5, FrontAndBack
  <1> HIDE DEF mb, p, am
  <1>8. /\ Len(a) + 1 \in 1 .. Len(p) /\ Len(a) + 1 - Len(a) = 1 /\ ~(Len(a) + 1 <= Len(a))
        /\ (Len(a) + 1) - 1 = Len(a) /\ DOMAIN p = 1 .. Len(p)
    BY <1>1, <1>2, <1>4
  <1>9. RemoveAt(p, Len(a) + 1) = a \o b
    BY <1>2, <1>6, <1>7, <1>8 DEF RemoveAt
  <1>10. p[Len(a) + 1] = m
    BY <1>3, <1>4, <1>8
  <1> QED
    BY <1>8, <1>9, <1>10 DEF p, mb

-----------------------------------------------------------------------------
(* What a change of the messages under way makes of those that are due. *)

(* When the next message is taken, the next due message is taken, or none. *)
LEMMA NextTaken ==
    ASSUME NEW m \in Messages, NEW s \in Seq(Messages), NEW r \in Seq(Messages)
    PROVE  IF Promised(m)
           THEN /\ Due(<<m>> \o s) \o r # <<>>
                /\ Due(s) \o r = Tail(Due(<<m>> \o s) \o r)
           ELSE Due(s) \o r = Due(<<m>> \o s) \o r
  <1> DEFINE x == <<m>>
             d == Due(s)
  <1>1. x \in Seq(Messages) /\ d \in Seq(Messages) /\ d \o r \in Seq(Messages)
    BY DueOfBoth, ConcatProperties
  <1>2. Due(x \o s) = Due(x) \o d
    BY <1>1, DueOfBoth
  <1>3. Due(x) = IF Promised(m) THEN x ELSE <<>>
    BY DueOfOne
  <1>4. x \o (d \o r) # <<>> /\ Tail(x \o (d \o r)) = d \o r
    BY <1>1, HeadAndTail
  <1> HIDE DEF x, d
  <1>5. (x \o d) \o r = x \o (d \o r)
    BY <1>1, ConcatAssociative
  <1>6. <<>> \o d = d
    BY <1>1, ConcatEmptySeq
  <1>7. CASE Promised(m)
    <2>1. Due(x \o s) \o r = x \o (d \o r)
      BY <1>2, <1>3, <1>5, <1>7
    <2> QED
      BY <1>4, <1>7, <2>1 DEF x, d
  <1>8. CASE ~Promised(m)
    <2>1. Due(x \o s) = d
      BY <1>2, <1>3, <1>6, <1>8
    <2> QED
      BY <1>8, <2>1 DEF x, d
  <1> QED
    BY <1>7, <1>8

(* When a message in the middle is dropped, a due message is removed, or none. *)
LEMMA MiddleDropped ==
    ASSUME NEW s \in Seq(Messages), NEW m \in Messages, NEW t \in Seq(Messages),
           NEW r \in Seq(Messages)
    PROVE  IF Promised(m)
           THEN \E i \in DOMAIN (Due(s \o (<<m>> \o t)) \o r) :
                    /\ (Due(s \o (<<m>> \o t)) \o r)[i] = m
                    /\ Due(s \o t) \o r = RemoveAt(Due(s \o (<<m>> \o t)) \o r, i)
           ELSE Due(s \o t) \o r = Due(s \o (<<m>> \o t)) \o r
  <1> DEFINE x == <<m>>
             xt == x \o t
             d == Due(s)
             e == Due(t)
             er == e \o r
             p == Due(s \o xt) \o r
             q == Due(s \o t) \o r
  <1>1. x \in Seq(Messages) /\ xt \in Seq(Messages)
    BY HeadAndTail
  <1>2. d \in Seq(Messages) /\ e \in Seq(Messages) /\ er \in Seq(Messages)
    BY DueOfBoth, ConcatProperties
  <1>3. Due(s \o xt) = d \o Due(xt) /\ Due(xt) = Due(x) \o e /\ Due(s \o t) = d \o e
    BY <1>1, DueOfBoth
  <1>4. Due(x) = IF Promised(m) THEN x ELSE <<>>
    BY DueOfOne
  <1>5. /\ Len(d) + 1 \in DOMAIN (d \o (x \o er))
        /\ (d \o (x \o er))[Len(d) + 1] = m
        /\ RemoveAt(d \o (x \o er), Len(d) + 1) = d \o er
    <2> HIDE DEF d, er
    <2> QED
      BY <1>2, RemoveBetween, ZenonT(30)
  <1>6. /\ (x \o e) \o r = x \o er /\ (d \o e) \o r = d \o er
        /\ x \o e \in Seq(Messages) /\ <<>> \o e = e
    <2> HIDE DEF d, x, e
    <2>1. (x \o e) \o r = x \o (e \o r)
      BY <1>1, <1>2, ConcatAssociative, SMTT(30)
    <2>2. \A u, v, y \in Seq(Messages) : (u \o v) \o y = u \o (v \o y)
      BY ConcatAssociative, SMTT(30)
    <2>3. d \in Seq(Messages)
      BY <1>2
    <2>4. e \in Seq(Messages)
      BY <1>2
    <2>5. (d \o e) \o r = d \o (e \o r)
      BY <2>2, <2>3, <2>4
    <2>6. x \o e \in Seq(Messages) /\ <<>> \o e = e
      BY <1>1, <1>2, ConcatProperties, ConcatEmptySeq
    <2> QED
      BY <2>1, <2>5, <2>6 DEF er
  <1>7. (d \o (x \o e)) \o r = d \o ((x \o e) \o r)
    <2> DEFINE xe == x \o e
    <2>1. xe \in Seq(Messages)
      BY <1>6
    <2> HIDE DEF d, xe
    <2>2. (d \o xe) \o r = d \o (xe \o r)
      BY <1>2, <2>1, ConcatAssociative, SMTT(30)
    <2> QED
      BY <2>2 DEF xe
  <1>8. CASE Promised(m)
    <2> HIDE DEF x, xt, d, e, er
    <2>1. p = d \o (x \o er)
      BY <1>3, <1>4, <1>6, <1>7, <1>8
    <2>2. q = d \o er
      BY <1>3, <1>6
    <2> HIDE DEF p, q
    <2>3. Len(d) + 1 \in DOMAIN p /\ p[Len(d) + 1] = m /\ q = RemoveAt(p, Len(d) + 1)
      BY <1>5, <2>1, <2>2
    <2>4. \E i \in DOMAIN p : p[i] = m /\ q = RemoveAt(p, i)
      BY <2>3
    <2> QED
      BY <1>8, <2>4 DEF p, q, x, xt
  <1>9. CASE ~Promised(m)
    <2> HIDE DEF x, d, e
    <2>1. Due(s \o xt) = Due(s \o t)
      BY <1>3, <1>4, <1>6, <1>9
    <2> QED
      BY <1>9, <2>1 DEF x
  <1> QED
    BY <1>8, <1>9

(* Messages that move on along a connection stay in the order they have. *)
LEMMA MovesKeepOrder ==
    ASSUME NEW x \in Seq(Messages), NEW y \in Seq(Messages), NEW z \in Seq(Messages)
    PROVE  /\ x \o (y \o z) \in Seq(Messages)
           /\ z # <<>> => x \o (<<>> \o z) = x \o (<<Head(z)>> \o Tail(z))
           /\ (x \o y) \o (<<>> \o z) = x \o (y \o z)
           /\ \A m \in Messages : x \o (y \o Append(z, m)) = Append(x \o (y \o z), m)
           /\ x # <<>> => /\ x \o (y \o z) = <<Head(x)>> \o (Tail(x) \o (y \o z))
                          /\ Tail(x) \o (y \o z) \in Seq(Messages)
           /\ x \o (<<>> \o <<>>) = x
  <1> DEFINE yz == y \o z
  <1>1. yz \in Seq(Messages) /\ x \o yz \in Seq(Messages)
    BY ConcatProperties
  <1>2. ASSUME z # <<>> PROVE <<>> \o z = <<Head(z)>> \o Tail(z)
    <2>1. z = <<Head(z)>> \o Tail(z)
      BY <1>2, HeadAndTail
    <2>2. <<>> \o z = z
      BY ConcatEmptySeq
    <2> QED
      BY <2>1, <2>2, Zenon
  <1>3. (x \o y) \o (<<>> \o z) = x \o (y \o z)
    <2>1. <<>> \o z = z
      BY ConcatEmptySeq
    <2>2. (x \o y) \o z = x \o (y \o z)
      BY ConcatAssociative
    <2> QED
      BY <2>1, <2>2
  <1>4. ASSUME NEW m \in Messages PROVE x \o (y \o Append(z, m)) = Append(x \o yz, m)
    <2> DEFINE l == <<m>>
    <2>1. l \in Seq(Messages)
      OBVIOUS
    <2>2. Append(z, m) = z \o l /\ Append(x \o yz, m) = (x \o yz) \o l
      BY <1>1, AppendIsConcat
    <2> HIDE DEF l
    <2>3. yz \o l = y \o (z \o l)
      BY <2>1, ConcatAssociative
    <2>4. (x \o yz) \o l = x \o (yz \o l)
      <3>1. yz \in Seq(Messages)
        BY <1>1
      <3> HIDE DEF yz
      <3> QED
        BY <2>1, <3>1, ConcatAssociative, SMTT(30)
    <2> QED
      BY <2>2, <2>3, <2>4
  <1>5. ASSUME x # <<>>
        PROVE  x \o yz = <<Head(x)>> \o (Tail(x) \o yz) /\ Tail(x) \o yz \in Seq(Messages)
    <2> DEFINE h == <<Head(x)>>
               t == Tail(x)
    <2>1. x = h \o t /\ h \in Seq(Messages) /\ t \in Seq(Messages)
      BY <1>5, HeadAndTail
    <2>2. yz \in Seq(Messages)
      BY <1>1
    <2> HIDE DEF h, t, yz
    <2>3. (h \o t) \o yz = h \o (t \o yz)
      BY <2>1, <2>2, ConcatAssociative, SMTT(30)
    <2>4. t \o yz \in Seq(Messages)
      BY <2>1, <2>2, ConcatProperties
    <2> QED
      BY <2>1, <2>3, <2>4 DEF h, t
  <1>6. x \o (<<>> \o <<>>) = x
    <2>1. <<>> \in Seq(Messages)
      BY EmptySeq
    <2>2. <<>> \o <<>> = <<>> /\ x \o <<>> = x
      BY <2>1, ConcatEmptySeq
    <2> QED
      BY <2>2
  <1> QED
    BY <1>1, <1>2, <1>3, <1>4, <1>5, <1>6

-----------------------------------------------------------------------------
(* The inductive invariant. *)

OfKind(k) == {m \in Messages : m.type = k}

(* A sink holds messages of its kind; without -interactive there is no fan-out. *)
SourcesOK ==
    /\ interactive \in BOOLEAN
    /\ produced \in [Kinds -> Nat]
    /\ DOMAIN sink = Kinds /\ DOMAIN hubIn = Kinds
    /\ \A k \in Kinds : sink[k] \in Seq(OfKind(k)) /\ hubIn[k] \in Seq(OfKind(k))
    /\ interactive = FALSE => \A k \in Kinds : hubIn[k] = <<>>

Channels == [Clients -> Seq(Messages)]

ChannelsOK ==
    /\ subs \subseteq Clients
    /\ sub \in Channels /\ writing \in Channels /\ wire \in Channels /\ stateCh \in Channels
    /\ received \in [Clients -> [Kinds -> Seq(Messages)]]
    /\ link \in [Clients -> {"none", "dialled", "accepted", "select", "encode", "closed"}]
    /\ client \in [Clients -> {"idle", "connecting", "waiting", "watching", "failed", "gone"}]
    /\ reader \in [Clients -> {"none", "reading", "ended"}]
    /\ stateSent \in [Clients -> BOOLEAN]

Early(c) == link[c] \in {"none", "dialled", "accepted"}

(* Until serveConn subscribes it, nothing is under way to c; while it is
   subscribed, serveConn runs; and afterwards nothing is added. *)
LinkOK(c) ==
    /\ client[c] = "idle" => link[c] = "none"
    /\ Early(c) => /\ c \notin subs
                   /\ sub[c] = <<>> /\ writing[c] = <<>> /\ wire[c] = <<>>
                   /\ stateCh[c] = <<>> /\ received[c]["event"] = <<>>
                   /\ client[c] \in {"idle", "connecting", "failed"}
    /\ link[c] \in {"select", "encode"} => c \in subs
    /\ link[c] = "select" => writing[c] = <<>>
    /\ link[c] = "closed" => c \notin subs /\ writing[c] = <<>> /\ sub[c] = <<>>

(* The snapshot, or nil in its place, is sent once, and before any event. *)
ReaderOK(c) ==
    /\ reader[c] = "reading" => client[c] \in {"waiting", "watching"}
    /\ client[c] \in {"idle", "connecting"} => stateSent[c] = FALSE
    /\ Len(stateCh[c]) <= 1
    /\ stateSent[c] = FALSE => stateCh[c] = <<>> /\ received[c]["event"] = <<>>
    /\ client[c] = "watching" => stateSent[c] = TRUE /\ stateCh[c] = <<>>

(* What serveConn has still to pass to the process of c. *)
Ahead(c) == wire[c] \o (writing[c] \o sub[c])

(* A configuration can only be the next line, a snapshot only the next or the one
   after the configuration. *)
InOrder(s) ==
    \A i \in DOMAIN s :
        /\ s[i].type = "config" => i = 1
        /\ s[i].type = "state" => \A j \in 1 .. i - 1 : s[j].type = "config"

Without(type, s) == \A i \in DOMAIN s : s[i].type # type

LinesOK(c) ==
    /\ InOrder(Ahead(c))
    /\ client[c] \in {"waiting", "watching"} => Without("config", Ahead(c))
    /\ stateSent[c] = TRUE => Without("state", Ahead(c))

ClientOK(c) == LinkOK(c) /\ ReaderOK(c) /\ (~Gone(c) => LinesOK(c))

AttachInv == SourcesOK /\ ChannelsOK /\ \A c \in Clients : ClientOK(c)

-----------------------------------------------------------------------------
(* A line that is read leaves the others in order. *)
LEMMA OrderOfTail ==
    ASSUME NEW m \in Messages, NEW s \in Seq(Messages), InOrder(<<m>> \o s)
    PROVE  /\ InOrder(s) /\ Without("config", s)
           /\ m.type # "config" => Without("state", s)
           /\ \A type : Without(type, <<m>> \o s) => m.type # type /\ Without(type, s)
  <1> DEFINE ms == <<m>> \o s
  <1>1. /\ ms \in Seq(Messages) /\ Len(ms) = Len(s) + 1 /\ ms[1] = m /\ Len(s) \in Nat
        /\ \A i \in 1 .. Len(s) : ms[i + 1] = s[i]
    <2>1. <<m>> \in Seq(Messages) /\ Len(<<m>>) = 1 /\ <<m>>[1] = m /\ Len(s) \in Nat
      OBVIOUS
    <2>2. /\ ms \in Seq(Messages) /\ Len(ms) = Len(<<m>>) + Len(s)
          /\ \A i \in 1 .. Len(<<m>>) + Len(s) :
               ms[i] = IF i <= Len(<<m>>) THEN <<m>>[i] ELSE s[i - Len(<<m>>)]
      BY <2>1, ConcatProperties, Zenon
    <2> HIDE DEF ms
    <2>3. ASSUME NEW i \in 1 .. Len(s) PROVE ms[i + 1] = s[i]
      <3>1. i + 1 \in 1 .. 1 + Len(s) /\ ~(i + 1 <= 1) /\ (i + 1) - 1 = i
        BY <2>1
      <3> QED
        BY <2>1, <2>2, <3>1
    <2> QED
      BY <2>1, <2>2, <2>3
  <1>2. InOrder(ms)
    OBVIOUS
  <1> HIDE DEF ms
  <1>3. DOMAIN s = 1 .. Len(s) /\ DOMAIN ms = 1 .. Len(s) + 1
    BY <1>1
  <1>4. \A i \in DOMAIN s : i + 1 \in DOMAIN ms /\ i + 1 # 1 /\ 1 \in 1 .. (i + 1) - 1
    BY <1>1, <1>3
  <1>5. Without("config", s)
    BY <1>1, <1>2, <1>3, <1>4 DEF InOrder, Without
  <1>6. m.type # "config" => Without("state", s)
    BY <1>1, <1>2, <1>3, <1>4 DEF InOrder, Without
  <1>7. \A type : Without(type, ms) => m.type # type /\ Without(type, s)
    <2>1. 1 \in DOMAIN ms
      BY <1>1, <1>3
    <2> QED
      BY <1>1, <1>3, <1>4, <2>1 DEF Without
  <1>8. InOrder(s)
    <2> SUFFICES ASSUME NEW i \in DOMAIN s, s[i].type = "state", NEW j \in 1 .. i - 1
                 PROVE  FALSE
      BY <1>5 DEF InOrder, Without
    <2>1. /\ i \in 1 .. Len(s) /\ 1 \in 1 .. Len(s)
          /\ 1 + 1 \in DOMAIN ms /\ 1 + 1 \in 1 .. (i + 1) - 1
      BY <1>1, <1>3
    <2>2. ms[i + 1].type = "state" /\ i + 1 \in DOMAIN ms
      BY <1>1, <1>4, <2>1
    <2>3. ms[1 + 1].type = "config"
      BY <1>2, <2>1, <2>2 DEF InOrder
    <2>4. 1 + 1 = 1
      BY <1>2, <2>1, <2>3 DEF InOrder
    <2> QED
      BY <2>4
  <1> QED
    BY <1>5, <1>6, <1>7, <1>8 DEF ms

(* An event or a log line that is added comes last, and what is lost at the end
   leaves the others in order. *)
LEMMA OrderOfMore ==
    ASSUME NEW s \in Seq(Messages)
    PROVE  /\ \A m \in Messages : m.type \in Kinds /\ InOrder(s) => InOrder(Append(s, m))
           /\ \A m \in Messages : \A type :
                m.type # type /\ Without(type, s) => Without(type, Append(s, m))
           /\ \A t \in Seq(Messages) :
                /\ InOrder(s \o t) => InOrder(s)
                /\ \A type : Without(type, s \o t) => Without(type, s)
  <1>1. Len(s) \in Nat /\ DOMAIN s = 1 .. Len(s)
    OBVIOUS
  <1>2. ASSUME NEW m \in Messages
        PROVE  /\ m.type \in Kinds /\ InOrder(s) => InOrder(Append(s, m))
               /\ \A type : m.type # type /\ Without(type, s) => Without(type, Append(s, m))
    <2> DEFINE sm == Append(s, m)
    <2>1. /\ sm \in Seq(Messages) /\ Len(sm) = Len(s) + 1 /\ sm[Len(s) + 1] = m
          /\ \A i \in 1 .. Len(s) : sm[i] = s[i]
      BY AppendProperties
    <2> HIDE DEF sm
    <2>2. \A i \in DOMAIN sm : i \in DOMAIN s \/ i = Len(s) + 1
      BY <1>1, <2>1
    <2>3. \A i \in DOMAIN s : sm[i] = s[i] /\ \A j \in 1 .. i - 1 : sm[j] = s[j]
      BY <1>1, <2>1
    <2>4. ASSUME m.type \in Kinds, InOrder(s) PROVE InOrder(sm)
      <3>1. m.type # "config" /\ m.type # "state"
        BY <2>4 DEF Kinds
      <3> QED
        BY <2>1, <2>2, <2>3, <2>4, <3>1 DEF InOrder
    <2>5. \A type : m.type # type /\ Without(type, s) => Without(type, sm)
      BY <2>1, <2>2, <2>3 DEF Without
    <2> QED
      BY <2>4, <2>5 DEF sm
  <1>3. ASSUME NEW t \in Seq(Messages)
        PROVE  /\ InOrder(s \o t) => InOrder(s)
               /\ \A type : Without(type, s \o t) => Without(type, s)
    <2> DEFINE st == s \o t
    <2>1. /\ st \in Seq(Messages) /\ Len(st) = Len(s) + Len(t) /\ Len(t) \in Nat
          /\ \A i \in 1 .. Len(s) + Len(t) : st[i] = IF i <= Len(s) THEN s[i] ELSE t[i - Len(s)]
      BY ConcatProperties
    <2> HIDE DEF st
    <2>2. \A i \in DOMAIN s : i \in DOMAIN st /\ st[i] = s[i] /\ \A j \in 1 .. i - 1 : st[j] = s[j]
      BY <1>1, <2>1
    <2>3. InOrder(st) => InOrder(s)
      BY <2>2 DEF InOrder
    <2>4. \A type : Without(type, st) => Without(type, s)
      BY <2>2 DEF Without
    <2> QED
      BY <2>3, <2>4 DEF st
  <1> QED
    BY <1>2, <1>3

(* The invariant holds when main starts the hub, before any client. *)
LEMMA AttachInit == Init => AttachInv
  <1> SUFFICES ASSUME Init PROVE AttachInv
    OBVIOUS
  <1>1. <<>> \in Seq(Messages) /\ Len(<<>>) = 0 /\ \A k \in Kinds : <<>> \in Seq(OfKind(k))
    BY EmptySeq
  <1>2. SourcesOK
    BY <1>1 DEF Init, HubInit, SourcesOK
  <1>3. ChannelsOK
    BY <1>1 DEF Init, HubInit, ChannelsOK, Channels
  <1>4. ASSUME NEW c \in Clients PROVE ClientOK(c)
    <2>1. LinkOK(c) /\ ReaderOK(c) /\ stateSent[c] = FALSE /\ client[c] = "idle"
      BY <1>1, <1>4 DEF Init, HubInit, LinkOK, ReaderOK, Early, Kinds
    <2>2. Ahead(c) = <<>>
      <3>1. Ahead(c) = <<>> \o (<<>> \o <<>>)
        BY <1>4 DEF Init, HubInit, Ahead
      <3> QED
        BY <1>1, <3>1, MovesKeepOrder
    <2> QED
      BY <2>1, <2>2 DEF ClientOK, LinesOK, InOrder
  <1> QED
    BY <1>2, <1>3, <1>4 DEF AttachInv

(* What a step does not touch stays right. *)
LEMMA ClientKept ==
    ASSUME NEW c \in Clients, ClientOK(c),
           c \in subs' <=> c \in subs, sub'[c] = sub[c],
           link'[c] = link[c], writing'[c] = writing[c], wire'[c] = wire[c],
           client'[c] = client[c], reader'[c] = reader[c], stateSent'[c] = stateSent[c],
           stateCh'[c] = stateCh[c], received'[c]["event"] = received[c]["event"]
    PROVE  ClientOK(c)'
  BY DEF ClientOK, LinkOK, ReaderOK, LinesOK, Early, Gone, Ahead

(* A message of one kind is a message, and a full channel drops it. *)
LEMMA KindsTyped ==
    ASSUME NEW k \in Kinds
    PROVE  /\ \A s \in Seq(OfKind(k)) :
                /\ s \in Seq(Messages)
                /\ s # <<>> => /\ Head(s) \in Messages /\ Head(s).type = k
                               /\ Head(s) \in OfKind(k) /\ Tail(s) \in Seq(OfKind(k))
           /\ \A n \in Nat : Msg(k, n) \in OfKind(k)
           /\ \A s \in Seq(OfKind(k)), m \in OfKind(k) : \A cap : Sent(s, m, cap) \in Seq(OfKind(k))
           /\ \A s \in Seq(Messages), m \in Messages : \A cap : Sent(s, m, cap) \in Seq(Messages)
  <1>1. ASSUME NEW s \in Seq(OfKind(k))
        PROVE  /\ s \in Seq(Messages)
               /\ s # <<>> => /\ Head(s) \in Messages /\ Head(s).type = k
                              /\ Head(s) \in OfKind(k) /\ Tail(s) \in Seq(OfKind(k))
    <2>1. s \in Seq(Messages)
      BY DEF OfKind
    <2>2. ASSUME s # <<>> PROVE Head(s) \in OfKind(k) /\ Tail(s) \in Seq(OfKind(k))
      BY <2>2, HeadTailProperties
    <2> QED
      BY <2>1, <2>2 DEF OfKind
  <1>2. ASSUME NEW n \in Nat PROVE Msg(k, n) \in OfKind(k)
    BY DEF Msg, OfKind, Messages, Kinds
  <1>3. ASSUME NEW s \in Seq(OfKind(k)), NEW m \in OfKind(k), NEW cap
        PROVE  Sent(s, m, cap) \in Seq(OfKind(k))
    BY AppendProperties DEF Sent
  <1>4. ASSUME NEW s \in Seq(Messages), NEW m \in Messages, NEW cap
        PROVE  Sent(s, m, cap) \in Seq(Messages)
    BY AppendProperties DEF Sent
  <1> QED
    BY <1>1, <1>2, <1>3, <1>4

(* The sources stay of one kind each. *)
LEMMA HubSources ==
    ASSUME AttachInv, HubStep
    PROVE  SourcesOK'
  <1> USE DEF AttachInv
  <1>1. ASSUME NEW k \in Kinds, Produce(k) PROVE SourcesOK'
    <2>1. Msg(k, produced[k] + 1) \in OfKind(k) /\ produced[k] + 1 \in Nat
      BY KindsTyped DEF SourcesOK
    <2>2. Sent(sink[k], Msg(k, produced[k] + 1), SinkCap) \in Seq(OfKind(k))
      BY <2>1, KindsTyped DEF SourcesOK
    <2> HIDE DEF AttachInv
    <2>3. SourcesOK
      BY DEF AttachInv
    <2> QED
      BY <1>1, <2>1, <2>2, <2>3 DEF SourcesOK, Produce
  <1>2. ASSUME NEW k \in Kinds, FanForward(k) PROVE SourcesOK'
    <2>1. /\ Tail(sink[k]) \in Seq(OfKind(k))
          /\ Sent(hubIn[k], Head(sink[k]), FanCap) \in Seq(OfKind(k))
      BY <1>2, KindsTyped DEF SourcesOK, FanForward
    <2>2. SourcesOK
      BY DEF AttachInv
    <2> QED
      BY <1>2, <2>1, <2>2 DEF SourcesOK, FanForward
  <1>3. ASSUME NEW k \in Kinds, Broadcast(k) PROVE SourcesOK'
    <2>1. SourcesOK
      BY DEF AttachInv
    <2>2. Source(k) # <<>> => Tail(Source(k)) \in Seq(OfKind(k))
      BY <2>1, KindsTyped DEF SourcesOK, Source
    <2> QED
      BY <1>3, <2>1, <2>2 DEF SourcesOK, Broadcast, Source
  <1>4. ASSUME UNCHANGED <<interactive, produced, sink, hubIn>> PROVE SourcesOK'
    BY <1>4 DEF SourcesOK
  <1> QED
    BY <1>1, <1>2, <1>3, <1>4 DEF HubStep, Fan, Run, RunEnd, CancelContext, sourceVars

(* The message that is broadcast reaches the channels of those subscribed. *)
LEMMA BroadcastKeeps ==
    ASSUME AttachInv, NEW k \in Kinds, Broadcast(k), UNCHANGED <<serveVars, linkVars, clientVars>>
    PROVE  ChannelsOK' /\ \A c \in Clients : ClientOK(c)'
  <1> DEFINE m == Head(Source(k))
  <1>1. m \in Messages /\ m.type = k
    BY KindsTyped DEF AttachInv, SourcesOK, Source, Broadcast
  <1> HIDE DEF m
  <1>2. sub' = [c \in Clients |-> IF c \in subs THEN Sent(sub[c], m, SubCap) ELSE sub[c]]
    BY DEF Broadcast, m
  <1>3. UNCHANGED <<subs, link, writing, wire, client, reader, stateSent, stateCh, received>>
    BY DEF Broadcast, linkVars, clientVars
  <1>4. ChannelsOK
    BY DEF AttachInv
  <1>5. ChannelsOK'
    <2>1. \A c \in Clients : Sent(sub[c], m, SubCap) \in Seq(Messages)
      BY <1>1, <1>4, KindsTyped DEF ChannelsOK, Channels
    <2> QED
      BY <1>2, <1>3, <1>4, <2>1 DEF ChannelsOK, Channels
  <1>6. ASSUME NEW c \in Clients PROVE ClientOK(c)'
    <2>1. ClientOK(c)
      BY DEF AttachInv
    <2>2. CASE c \in subs /\ sub'[c] = Append(sub[c], m)
      <3>1. /\ wire[c] \in Seq(Messages) /\ writing[c] \in Seq(Messages) /\ sub[c] \in Seq(Messages)
        BY <1>4 DEF ChannelsOK, Channels
      <3>2. Ahead(c) \in Seq(Messages) /\ Ahead(c)' = Append(Ahead(c), m)
        <4>1. /\ Ahead(c) \in Seq(Messages)
              /\ wire[c] \o (writing[c] \o Append(sub[c], m)) = Append(Ahead(c), m)
          <5> DEFINE x == wire[c]
                     y == writing[c]
                     z == sub[c]
          <5>1. x \in Seq(Messages) /\ y \in Seq(Messages) /\ z \in Seq(Messages)
            BY <3>1
          <5> HIDE DEF x, y, z
          <5>2. x \o (y \o z) \in Seq(Messages)
            BY <5>1, MovesKeepOrder
          <5>3. \A n \in Messages : x \o (y \o Append(z, n)) = Append(x \o (y \o z), n)
            BY <5>1, MovesKeepOrder, SMTT(30)
          <5> QED
            BY <1>1, <5>2, <5>3 DEF x, y, z, Ahead
        <4>2. Ahead(c)' = wire[c] \o (writing[c] \o Append(sub[c], m))
          BY <1>3, <2>2 DEF Ahead
        <4> QED
          BY <4>1, <4>2
      <3>3. /\ InOrder(Ahead(c)) => InOrder(Append(Ahead(c), m))
            /\ \A type \in {"config", "state"} :
                 Without(type, Ahead(c)) => Without(type, Append(Ahead(c), m))
        BY <1>1, <3>2, OrderOfMore DEF Kinds
      <3>4. LinesOK(c) => LinesOK(c)'
        BY <1>3, <3>2, <3>3 DEF LinesOK
      <3>5. LinkOK(c)' /\ ReaderOK(c)' /\ (Gone(c)' <=> Gone(c))
        BY <1>3, <2>1, <2>2 DEF ClientOK, LinkOK, ReaderOK, Gone, Early
      <3> QED
        BY <2>1, <3>4, <3>5 DEF ClientOK
    <2>3. CASE sub'[c] = sub[c]
      BY <1>3, <2>1, <2>3, ClientKept
    <2> QED
      BY <1>2, <2>2, <2>3 DEF Sent
  <1> QED
    BY <1>5, <1>6

(* Broadcast and the fan-out of Run keep the invariant: they add to the channels of
   the subscribers only what comes after what is there. *)
LEMMA HubKeeps ==
    ASSUME AttachInv, HubStep, UNCHANGED <<serveVars, linkVars, clientVars>>
    PROVE  AttachInv'
  <1>1. SourcesOK'
    BY HubSources
  <1>2. CASE \E k \in Kinds : Broadcast(k)
    BY <1>1, <1>2, BroadcastKeeps DEF AttachInv
  <1>3. CASE UNCHANGED subVars
    <2>1. UNCHANGED <<subs, sub, link, writing, wire, client, reader, stateSent, stateCh, received>>
      BY <1>3 DEF subVars, linkVars, clientVars
    <2>2. ChannelsOK'
      BY <2>1 DEF AttachInv, ChannelsOK
    <2>3. \A c \in Clients : ClientOK(c)'
      BY <2>1, ClientKept DEF AttachInv
    <2> QED
      BY <1>1, <2>2, <2>3 DEF AttachInv
  <1> QED
    BY <1>2, <1>3 DEF HubStep, Fan, Run, Produce, FanForward, RunEnd, CancelContext

(* Serve and its acceptance of connections. *)
LEMMA ServeKeeps ==
    ASSUME AttachInv, CloseListener \/ AcceptFails \/ ServeReturn \/ \E c \in Clients : Accept(c)
    PROVE  AttachInv'
  <1>1. UNCHANGED <<interactive, produced, sink, hubIn, subs, sub, writing, wire,
                    client, reader, stateSent, stateCh, received>>
    BY DEF CloseListener, AcceptFails, ServeReturn, Accept, hubVars, sourceVars, subVars,
           linkVars, clientVars
  <1>2. SourcesOK'
    BY <1>1 DEF AttachInv, SourcesOK
  <1>3. CASE UNCHANGED link
    <2>1. ChannelsOK'
      BY <1>1, <1>3 DEF AttachInv, ChannelsOK
    <2>2. \A c \in Clients : ClientOK(c)'
      BY <1>1, <1>3, ClientKept DEF AttachInv
    <2> QED
      BY <1>2, <2>1, <2>2 DEF AttachInv
  <1>4. ASSUME NEW c \in Clients, Accept(c) PROVE AttachInv'
    <2>1. link[c] = "dialled" /\ link' = [link EXCEPT ![c] = "accepted"]
      BY <1>4 DEF Accept
    <2>2. ChannelsOK'
      BY <1>1, <2>1 DEF AttachInv, ChannelsOK
    <2>3. ASSUME NEW d \in Clients PROVE ClientOK(d)'
      <3>1. /\ ClientOK(d)
            /\ link \in [Clients ->
                            {"none", "dialled", "accepted", "select", "encode", "closed"}]
        BY DEF AttachInv, ChannelsOK
      <3>2. CASE d # c
        BY <1>1, <2>1, <3>1, <3>2, ClientKept
      <3>3. CASE d = c
        BY <1>1, <2>1, <3>1, <3>3 DEF ClientOK, LinkOK, ReaderOK, LinesOK, Early, Gone, Ahead
      <3> QED
        BY <3>2, <3>3
    <2> QED
      BY <1>2, <2>2, <2>3 DEF AttachInv
  <1> QED
    BY <1>3, <1>4 DEF CloseListener, AcceptFails, ServeReturn, linkVars

(* serveConn subscribes its client, and closes the connection. *)
LEMMA SubscriptionKeeps ==
    ASSUME AttachInv, NEW c \in Clients,
           ConnSubscribe(c) \/ ConnDone(c) \/ (link[c] = "encode" /\ Gone(c) /\ ConnClose(c))
    PROVE  AttachInv'
  <1>1. SourcesOK /\ ChannelsOK /\ \A d \in Clients : ClientOK(d)
    BY DEF AttachInv
  <1>2. UNCHANGED <<interactive, produced, sink, hubIn, wire, client, reader, stateSent,
                    stateCh, received>>
    BY DEF ConnSubscribe, ConnDone, ConnClose, sourceVars, clientVars
  <1>3. SourcesOK'
    BY <1>1, <1>2 DEF SourcesOK
  <1>4. CASE ConnSubscribe(c)
    <2> DEFINE first == <<Msg("config", 0), Msg("state", produced["event"])>>
    <2>1. /\ link[c] = "accepted" /\ link' = [link EXCEPT ![c] = "select"]
          /\ subs' = subs \cup {c} /\ sub' = [sub EXCEPT ![c] = first]
          /\ writing' = writing
      BY <1>4 DEF ConnSubscribe, Subscribe
    <2>2. first \in Seq(Messages) /\ InOrder(first)
      <3>1. Msg("config", 0) \in Messages /\ Msg("state", produced["event"]) \in Messages
        BY <1>1 DEF Msg, Messages, SourcesOK, Kinds
      <3>2. Len(first) = 2 /\ first[1].type = "config" /\ first[2].type = "state"
        BY DEF Msg
      <3>3. DOMAIN first = {1, 2} /\ \A j \in 1 .. 2 - 1 : j = 1
        BY <3>2
      <3>4. InOrder(first)
        BY <3>2, <3>3 DEF InOrder
      <3> QED
        BY <3>1, <3>4
    <2> HIDE DEF first
    <2>3. ChannelsOK'
      BY <1>1, <1>2, <2>1, <2>2 DEF ChannelsOK, Channels
    <2>4. ASSUME NEW d \in Clients PROVE ClientOK(d)'
      <3>1. CASE d # c
        BY <1>1, <1>2, <2>1, <3>1, ClientKept DEF ChannelsOK, Channels
      <3>2. CASE d = c
        <4>1. /\ link'[c] = "select" /\ c \in subs' /\ sub'[c] = first
              /\ writing'[c] = <<>> /\ wire'[c] = <<>> /\ stateCh'[c] = <<>>
              /\ received'[c]["event"] = <<>> /\ client'[c] \in {"connecting", "failed"}
          BY <1>1, <1>2, <2>1 DEF ChannelsOK, Channels, ClientOK, LinkOK, Early
        <4>2. LinkOK(c)' /\ ReaderOK(c)'
          BY <1>1, <1>2, <4>1 DEF LinkOK, ReaderOK, ClientOK, Early
        <4>3. Ahead(c)' = first
          <5>1. Ahead(c)' = <<>> \o (<<>> \o first)
            BY <4>1 DEF Ahead
          <5> QED
            BY <2>2, <5>1, EmptySeq, ConcatEmptySeq
        <4>4. LinesOK(c)' \/ Gone(c)'
          BY <1>1, <1>2, <2>2, <4>1, <4>3 DEF LinesOK, ClientOK, ReaderOK, Gone, InOrder
        <4> QED
          BY <3>2, <4>2, <4>4 DEF ClientOK
      <3> QED
        BY <3>1, <3>2
    <2> QED
      BY <1>3, <2>3, <2>4 DEF AttachInv
  <1>5. CASE link[c] \in {"select", "encode"} /\ ConnClose(c)
    <2>1. /\ link' = [link EXCEPT ![c] = "closed"]
          /\ subs' = subs \ {c} /\ sub' = [sub EXCEPT ![c] = <<>>]
          /\ writing' = [writing EXCEPT ![c] = <<>>]
      BY <1>5 DEF ConnClose, Unsubscribe
    <2>2. ChannelsOK'
      BY <1>1, <1>2, <2>1 DEF ChannelsOK, Channels
    <2>3. ASSUME NEW d \in Clients PROVE ClientOK(d)'
      <3>1. CASE d # c
        BY <1>1, <1>2, <2>1, <3>1, ClientKept DEF ChannelsOK, Channels
      <3>2. CASE d = c
        <4>1. /\ link'[c] = "closed" /\ c \notin subs'
              /\ sub'[c] = <<>> /\ writing'[c] = <<>> /\ wire'[c] = wire[c]
          BY <1>1, <1>2, <2>1 DEF ChannelsOK, Channels
        <4>2. LinkOK(c)' /\ ReaderOK(c)'
          BY <1>1, <1>2, <1>5, <4>1 DEF LinkOK, ReaderOK, ClientOK, Early
        <4>3. LinesOK(c) => LinesOK(c)'
          <5>1. /\ wire[c] \in Seq(Messages) /\ writing[c] \in Seq(Messages)
                /\ sub[c] \in Seq(Messages)
            BY <1>1 DEF ChannelsOK, Channels
          <5>2. writing[c] \o sub[c] \in Seq(Messages)
            BY <5>1, ConcatProperties
          <5>3. Ahead(c)' = wire[c]
            <6>1. Ahead(c)' = wire[c] \o (<<>> \o <<>>)
              BY <4>1 DEF Ahead
            <6> QED
              BY <5>1, <6>1, MovesKeepOrder
          <5>4. /\ InOrder(Ahead(c)) => InOrder(wire[c])
                /\ \A type : Without(type, Ahead(c)) => Without(type, wire[c])
            BY <5>1, <5>2, OrderOfMore DEF Ahead
          <5> QED
            BY <1>2, <5>3, <5>4 DEF LinesOK
        <4> QED
          BY <1>1, <1>2, <3>2, <4>2, <4>3 DEF ClientOK, Gone
      <3> QED
        BY <3>1, <3>2
    <2> QED
      BY <1>3, <2>2, <2>3 DEF AttachInv
  <1> QED
    BY <1>4, <1>5 DEF ConnDone

(* serveConn passes a message on, from the channel to the wire. *)
LEMMA PassingKeeps ==
    ASSUME AttachInv, NEW c \in Clients,
           ConnReceive(c) \/ (Encode(c) /\ ~Gone(c))
    PROVE  AttachInv' /\ Ahead(c)' = Ahead(c)
  <1>1. SourcesOK /\ ChannelsOK /\ \A d \in Clients : ClientOK(d)
    BY DEF AttachInv
  <1>2. UNCHANGED <<interactive, produced, sink, hubIn, subs, client, reader, stateSent,
                    stateCh, received>>
    BY DEF ConnReceive, Encode, hubVars, sourceVars, subVars, clientVars
  <1>3. SourcesOK'
    BY <1>1, <1>2 DEF SourcesOK
  <1>4. wire[c] \in Seq(Messages) /\ writing[c] \in Seq(Messages) /\ sub[c] \in Seq(Messages)
    BY <1>1 DEF ChannelsOK, Channels
  <1> DEFINE x == wire[c]
             y == writing[c]
             z == sub[c]
  <1>5. /\ z # <<>> => x \o (<<>> \o z) = x \o (<<Head(z)>> \o Tail(z))
        /\ (x \o y) \o (<<>> \o z) = x \o (y \o z)
    <2>1. x \in Seq(Messages) /\ y \in Seq(Messages) /\ z \in Seq(Messages)
      BY <1>4
    <2> HIDE DEF x, y, z
    <2> QED
      BY <2>1, MovesKeepOrder, SMTT(30)
  <1>6. /\ link[c] \in {"select", "encode"}
        /\ \E l \in {"select", "encode"} : link' = [link EXCEPT ![c] = l]
        /\ \E s \in Seq(Messages) : sub' = [sub EXCEPT ![c] = s]
        /\ \E s \in Seq(Messages) : wire' = [wire EXCEPT ![c] = s]
        /\ \E s \in Seq(Messages) : writing' = [writing EXCEPT ![c] = s]
        /\ link'[c] = "select" => writing'[c] = <<>>
        /\ Ahead(c)' = Ahead(c)
    <2>1. /\ sub = [sub EXCEPT ![c] = z] /\ wire = [wire EXCEPT ![c] = x]
          /\ writing \in Channels /\ sub \in Channels /\ wire \in Channels
          /\ link \in [Clients -> {"none", "dialled", "accepted", "select", "encode", "closed"}]
      BY <1>1 DEF ChannelsOK, Channels
    <2>2. CASE ConnReceive(c)
      <3>1. /\ link[c] = "select" /\ z # <<>> /\ wire' = wire
            /\ link' = [link EXCEPT ![c] = "encode"]
            /\ writing' = [writing EXCEPT ![c] = <<Head(z)>>]
            /\ sub' = [sub EXCEPT ![c] = Tail(z)]
        BY <2>2 DEF ConnReceive, linkVars, hubVars
      <3>2. y = <<>>
        BY <1>1, <3>1 DEF ClientOK, LinkOK
      <3>3. <<Head(z)>> \in Seq(Messages) /\ Tail(z) \in Seq(Messages)
        BY <1>4, <3>1, HeadAndTail
      <3>4. x \o (<<Head(z)>> \o Tail(z)) = x \o (<<>> \o z)
        BY <1>5, <3>1
      <3>5. Ahead(c)' = x \o (<<Head(z)>> \o Tail(z))
        BY <2>1, <3>1 DEF Ahead, Channels
      <3>6. Ahead(c)' = Ahead(c)
        BY <3>2, <3>4, <3>5 DEF Ahead
      <3>7. link'[c] = "encode"
        BY <2>1, <3>1
      <3> QED
        BY <1>4, <2>1, <3>1, <3>3, <3>6, <3>7
    <2>3. CASE Encode(c) /\ ~Gone(c)
      <3>1. /\ link[c] = "encode" /\ sub' = sub
            /\ link' = [link EXCEPT ![c] = "select"]
            /\ writing' = [writing EXCEPT ![c] = <<>>]
            /\ wire' = [wire EXCEPT ![c] = x \o y]
        BY <2>3 DEF Encode, hubVars, subVars
      <3>2. x \o y \in Seq(Messages) /\ <<>> \in Seq(Messages)
        BY <1>4, ConcatProperties, EmptySeq
      <3>3. (x \o y) \o (<<>> \o z) = x \o (y \o z)
        BY <1>5
      <3>4. Ahead(c)' = (x \o y) \o (<<>> \o z)
        BY <2>1, <3>1 DEF Ahead, Channels
      <3>5. Ahead(c)' = Ahead(c)
        BY <3>3, <3>4 DEF Ahead
      <3>6. link'[c] = "select" /\ writing'[c] = <<>>
        BY <2>1, <3>1 DEF Channels
      <3> QED
        BY <1>4, <2>1, <3>1, <3>2, <3>5, <3>6
    <2> QED
      BY <2>2, <2>3
  <1> HIDE DEF x, y, z
  <1>7. ChannelsOK'
    BY <1>1, <1>2, <1>6 DEF ChannelsOK, Channels
  <1>8. ASSUME NEW d \in Clients PROVE ClientOK(d)'
    <2>1. CASE d # c
      BY <1>1, <1>2, <1>6, <2>1, ClientKept DEF ChannelsOK, Channels
    <2>2. CASE d = c
      <3>1. link'[c] \in {"select", "encode"}
        BY <1>1, <1>6 DEF ChannelsOK
      <3>2. LinkOK(c)' /\ ReaderOK(c)'
        BY <1>1, <1>2, <1>6, <3>1 DEF LinkOK, ReaderOK, ClientOK, Early
      <3>3. LinesOK(c) => LinesOK(c)'
        BY <1>2, <1>6 DEF LinesOK
      <3> QED
        BY <1>1, <1>2, <2>2, <3>2, <3>3 DEF ClientOK, Gone
    <2> QED
      BY <2>1, <2>2
  <1> QED
    BY <1>3, <1>6, <1>7, <1>8 DEF AttachInv

(* The process of c connects, and ends. *)
LEMMA ComingAndGoingKeeps ==
    ASSUME AttachInv, NEW c \in Clients,
           Dial(c) \/ (client[c] = "watching" /\ Leave(c))
    PROVE  AttachInv'
  <1>1. SourcesOK /\ ChannelsOK /\ \A d \in Clients : ClientOK(d)
    BY DEF AttachInv
  <1>2. UNCHANGED <<interactive, produced, sink, hubIn, subs, sub, writing, stateSent>>
    BY DEF Dial, Leave, hubVars, sourceVars, subVars
  <1>3. SourcesOK'
    BY <1>1, <1>2 DEF SourcesOK
  <1>4. CASE Dial(c)
    <2>1. /\ client[c] = "idle" /\ UNCHANGED <<wire, reader, stateCh, received>>
          /\ client' = [client EXCEPT ![c] = IF listening THEN "connecting" ELSE "failed"]
          /\ link' = [link EXCEPT ![c] = IF listening THEN "dialled" ELSE link[c]]
      BY <1>4 DEF Dial
    <2>2. ChannelsOK'
      BY <1>1, <1>2, <2>1 DEF ChannelsOK
    <2>3. ASSUME NEW d \in Clients PROVE ClientOK(d)'
      <3>1. CASE d # c
        BY <1>1, <1>2, <2>1, <3>1, ClientKept DEF ChannelsOK
      <3>2. CASE d = c
        <4>1. link[c] = "none"
          BY <1>1, <2>1 DEF ClientOK, LinkOK
        <4>2. link'[c] \in {"none", "dialled"} /\ client'[c] \in {"connecting", "failed"}
          BY <1>1, <2>1, <4>1 DEF ChannelsOK
        <4>3. LinkOK(c)' /\ ReaderOK(c)' /\ stateSent[c] = FALSE
          BY <1>1, <1>2, <2>1, <4>1, <4>2 DEF LinkOK, ReaderOK, ClientOK, Early
        <4>4. LinesOK(c)'
          BY <1>1, <1>2, <2>1, <4>2, <4>3 DEF LinesOK, ClientOK, Gone, Ahead
        <4> QED
          BY <3>2, <4>3, <4>4 DEF ClientOK
      <3> QED
        BY <3>1, <3>2
    <2> QED
      BY <1>3, <2>2, <2>3 DEF AttachInv
  <1>5. CASE client[c] = "watching" /\ Leave(c)
    <2>1. /\ link' = link
          /\ client' = [client EXCEPT ![c] = "gone"]
          /\ wire' = [wire EXCEPT ![c] = <<>>]
          /\ stateCh' = [stateCh EXCEPT ![c] = <<>>]
          /\ received' = [received EXCEPT ![c] = [k \in Kinds |-> <<>>]]
          /\ reader' = [reader EXCEPT ![c] = "ended"]
      BY <1>5 DEF Leave
    <2>2. [k \in Kinds |-> <<>>] \in [Kinds -> Seq(Messages)] /\ Len(<<>>) = 0
      BY EmptySeq
    <2>3. ChannelsOK'
      BY <1>1, <1>2, <2>1, <2>2 DEF ChannelsOK, Channels
    <2>4. ASSUME NEW d \in Clients PROVE ClientOK(d)'
      <3>1. CASE d # c
        BY <1>1, <1>2, <2>1, <3>1, ClientKept DEF ChannelsOK, Channels
      <3>2. CASE d = c
        <4>1. /\ client'[c] = "gone" /\ reader'[c] = "ended" /\ stateCh'[c] = <<>>
              /\ received'[c]["event"] = <<>> /\ wire'[c] = <<>>
          BY <1>1, <2>1 DEF ChannelsOK, Channels, Kinds
        <4>2. ~Early(c)
          BY <1>1, <1>5 DEF ClientOK, LinkOK
        <4>3. LinkOK(c)' /\ ReaderOK(c)'
          BY <1>1, <1>2, <2>1, <2>2, <4>1, <4>2 DEF LinkOK, ReaderOK, ClientOK, Early
        <4> QED
          BY <3>2, <4>1, <4>3 DEF ClientOK, Gone
      <3> QED
        BY <3>1, <3>2
    <2> QED
      BY <1>3, <2>3, <2>4 DEF AttachInv
  <1> QED
    BY <1>4, <1>5

(* What the process of c reads next, and what is then ahead. *)
LEMMA LineTaken ==
    ASSUME ChannelsOK, NEW c \in Clients, wire[c] # <<>>
    PROVE  /\ Head(wire[c]) \in Messages /\ Tail(wire[c]) \in Seq(Messages)
           /\ Tail(wire[c]) \o (writing[c] \o sub[c]) \in Seq(Messages)
           /\ Ahead(c) = <<Head(wire[c])>> \o (Tail(wire[c]) \o (writing[c] \o sub[c]))
  <1> DEFINE x == wire[c]
             y == writing[c]
             z == sub[c]
  <1>1. x \in Seq(Messages) /\ y \in Seq(Messages) /\ z \in Seq(Messages) /\ x # <<>>
    BY DEF ChannelsOK, Channels
  <1>2. Ahead(c) = x \o (y \o z)
    BY DEF Ahead
  <1> HIDE DEF x, y, z
  <1>3. Head(x) \in Messages /\ Tail(x) \in Seq(Messages)
    BY <1>1, HeadTailProperties
  <1>4. /\ x \o (y \o z) = <<Head(x)>> \o (Tail(x) \o (y \o z))
        /\ Tail(x) \o (y \o z) \in Seq(Messages)
    BY <1>1, MovesKeepOrder
  <1> QED
    BY <1>2, <1>3, <1>4 DEF x, y, z

(* A line that is read leaves the lines ahead as they must be. *)
LEMMA LinesAfter ==
    ASSUME ChannelsOK, NEW c \in Clients, wire[c] # <<>>, LinesOK(c),
           wire' = [wire EXCEPT ![c] = Tail(@)], UNCHANGED <<writing, sub>>
    PROVE  /\ InOrder(Ahead(c))' /\ Without("config", Ahead(c))'
           /\ Head(wire[c]).type # "config" => Without("state", Ahead(c))'
           /\ stateSent[c] = TRUE => /\ Head(wire[c]).type # "state"
                                     /\ Without("state", Ahead(c))'
           /\ client[c] \in {"waiting", "watching"} => Head(wire[c]).type # "config"
  <1> DEFINE m == Head(wire[c])
             s == Tail(wire[c]) \o (writing[c] \o sub[c])
  <1>1. m \in Messages /\ s \in Seq(Messages) /\ Ahead(c) = <<m>> \o s
    BY LineTaken
  <1>2. Ahead(c)' = s
    BY DEF Ahead, ChannelsOK, Channels
  <1>3. /\ InOrder(<<m>> \o s)
        /\ client[c] \in {"waiting", "watching"} => Without("config", <<m>> \o s)
        /\ stateSent[c] = TRUE => Without("state", <<m>> \o s)
    BY <1>1 DEF LinesOK
  <1> HIDE DEF m, s
  <1>4. /\ InOrder(s) /\ Without("config", s)
        /\ m.type # "config" => Without("state", s)
        /\ \A type : Without(type, <<m>> \o s) => m.type # type /\ Without(type, s)
    BY <1>1, <1>3, OrderOfTail
  <1> QED
    BY <1>2, <1>3, <1>4 DEF m

(* Reading the first line, which must be the configuration, keeps the invariant. *)
LEMMA FirstLineKeeps ==
    ASSUME AttachInv, NEW c \in Clients, FirstLine(c)
    PROVE  AttachInv'
  <1>1. SourcesOK /\ ChannelsOK /\ \A d \in Clients : ClientOK(d)
    BY DEF AttachInv
  <1>2. UNCHANGED <<interactive, produced, sink, hubIn, subs, sub, link, writing, stateSent,
                    stateCh, received>>
    BY DEF FirstLine, hubVars, sourceVars, subVars
  <1>3. SourcesOK'
    BY <1>1, <1>2 DEF SourcesOK
  <1>4. /\ client[c] = "connecting"
        /\ \/ /\ wire[c] # <<>> /\ wire' = [wire EXCEPT ![c] = Tail(@)]
              /\ client' = [client EXCEPT ![c] = "waiting"]
              /\ reader' = [reader EXCEPT ![c] = "reading"]
           \/ /\ \/ wire[c] # <<>> /\ wire' = [wire EXCEPT ![c] = Tail(@)]
                 \/ wire' = wire
              /\ client' = [client EXCEPT ![c] = "failed"] /\ reader' = reader
    BY DEF FirstLine
  <1>5. wire[c] # <<>> => Tail(wire[c]) \in Seq(Messages) /\ ~Early(c)
    BY <1>1, LineTaken DEF ClientOK, LinkOK
  <1>6. ChannelsOK'
    BY <1>1, <1>2, <1>4, <1>5 DEF ChannelsOK, Channels
  <1>7. ASSUME NEW d \in Clients PROVE ClientOK(d)'
    <2>1. CASE d # c
      BY <1>1, <1>2, <1>4, <2>1, ClientKept DEF ChannelsOK, Channels
    <2>2. CASE d = c
      <3>1. stateSent[c] = FALSE /\ LinesOK(c)
        BY <1>1, <1>4 DEF ClientOK, ReaderOK, Gone
      <3>2. LinkOK(c)' /\ ReaderOK(c)'
        BY <1>1, <1>2, <1>4, <1>5, <3>1 DEF LinkOK, ReaderOK, ClientOK, Early, ChannelsOK
      <3>3. LinesOK(c)' \/ Gone(c)'
        <4>1. CASE wire[c] # <<>> /\ wire' = [wire EXCEPT ![c] = Tail(@)]
          BY <1>1, <1>2, <3>1, <4>1, LinesAfter DEF LinesOK
        <4>2. CASE client' = [client EXCEPT ![c] = "failed"]
          BY <1>1, <4>2 DEF Gone, ChannelsOK
        <4> QED
          BY <1>4, <4>1, <4>2
      <3> QED
        BY <2>2, <3>2, <3>3 DEF ClientOK
    <2> QED
      BY <2>1, <2>2
  <1> QED
    BY <1>3, <1>6, <1>7 DEF AttachInv

(* The reader sends the snapshot, or nil. *)
LEMMA StateSent ==
    ASSUME ChannelsOK, NEW c \in Clients, ReaderOK(c), NEW m \in Messages, SendState(c, m)
    PROVE  /\ stateSent' = [stateSent EXCEPT ![c] = TRUE]
           /\ stateCh' = [stateCh EXCEPT ![c] = IF stateSent[c] THEN stateCh[c] ELSE <<m>>]
           /\ stateSent[c] = FALSE => stateCh[c] = <<>>
           /\ stateSent' \in [Clients -> BOOLEAN] /\ stateCh' \in Channels
           /\ Len(stateCh'[c]) <= 1
           /\ stateSent'[c] = TRUE
           /\ stateSent[c] = TRUE => stateCh'[c] = stateCh[c]
  <1>1. stateSent[c] = FALSE => stateCh[c] = <<>>
    BY DEF ReaderOK
  <1>2. Append(<<>>, m) = <<m>> /\ Len(<<m>>) = 1 /\ <<m>> \in Seq(Messages)
    OBVIOUS
  <1>3. /\ stateCh \in Channels /\ stateSent \in [Clients -> BOOLEAN]
        /\ stateSent[c] \in BOOLEAN /\ Len(stateCh[c]) <= 1
    BY DEF ChannelsOK, ReaderOK
  <1>4. stateCh' = [stateCh EXCEPT ![c] = IF stateSent[c] THEN stateCh[c] ELSE <<m>>]
    <2>1. stateCh' = [stateCh EXCEPT
                         ![c] = IF stateSent[c] THEN stateCh[c] ELSE Append(stateCh[c], m)]
      BY DEF SendState
    <2>2. CASE stateSent[c]
      BY <2>1, <2>2
    <2>3. CASE ~stateSent[c]
      BY <1>1, <1>2, <1>3, <2>1, <2>3
    <2> QED
      BY <2>2, <2>3
  <1>5. stateSent' = [stateSent EXCEPT ![c] = TRUE]
    BY DEF SendState
  <1>6. /\ stateCh' \in Channels /\ Len(stateCh'[c]) <= 1
        /\ stateSent[c] = TRUE => stateCh'[c] = stateCh[c]
    BY <1>2, <1>3, <1>4 DEF Channels
  <1> QED
    BY <1>1, <1>3, <1>4, <1>5, <1>6

(* The reader goroutine, one line at a time, keeps the invariant. *)
LEMMA ReadLineKeeps ==
    ASSUME AttachInv, NEW c \in Clients, ReadLine(c)
    PROVE  AttachInv'
  <1> DEFINE m == Head(wire[c])
  <1>1. SourcesOK /\ ChannelsOK /\ ClientOK(c) /\ \A d \in Clients : ClientOK(d)
    BY DEF AttachInv
  <1>2. UNCHANGED <<interactive, produced, sink, hubIn, subs, sub, link, writing, client, reader>>
    BY DEF ReadLine, hubVars, sourceVars, subVars
  <1>3. SourcesOK'
    BY <1>1, <1>2 DEF SourcesOK
  <1>4. /\ reader[c] = "reading" /\ ~Gone(c) /\ wire[c] # <<>>
        /\ wire' = [wire EXCEPT ![c] = Tail(@)]
    BY DEF ReadLine
  <1>5. /\ m \in Messages /\ Tail(wire[c]) \in Seq(Messages)
        /\ client[c] \in {"waiting", "watching"} /\ ~Early(c) /\ LinesOK(c)
    BY <1>1, <1>4, LineTaken DEF ClientOK, LinkOK, ReaderOK
  <1>6. /\ InOrder(Ahead(c))' /\ Without("config", Ahead(c))'
        /\ m.type # "config" /\ Without("state", Ahead(c))'
    BY <1>1, <1>2, <1>4, <1>5, LinesAfter
  <1>7. Msg("nil", 0) \in Messages
    BY DEF Msg, Messages
  <1>8. /\ stateSent' \in [Clients -> BOOLEAN] /\ stateCh' \in Channels
        /\ received' \in [Clients -> [Kinds -> Seq(Messages)]]
        /\ \A d \in Clients \ {c} : /\ stateSent'[d] = stateSent[d] /\ stateCh'[d] = stateCh[d]
                                    /\ received'[d] = received[d]
        /\ ReaderOK(c)'
    <2>1. CASE m.type = "state"
      <3>1. SendState(c, m) /\ received' = received
        BY <2>1 DEF ReadLine, Kinds
      <3>2. /\ stateSent' = [stateSent EXCEPT ![c] = TRUE]
            /\ stateCh' = [stateCh EXCEPT ![c] = IF stateSent[c] THEN stateCh[c] ELSE <<m>>]
            /\ stateSent' \in [Clients -> BOOLEAN] /\ stateCh' \in Channels
            /\ Len(stateCh'[c]) <= 1 /\ stateSent'[c] = TRUE
            /\ stateSent[c] = TRUE => stateCh'[c] = stateCh[c]
        BY <1>1, <1>5, <3>1, StateSent DEF ClientOK
      <3>3. ReaderOK(c)'
        BY <1>1, <1>2, <1>5, <3>2 DEF ReaderOK, ClientOK
      <3> QED
        BY <1>1, <3>1, <3>2, <3>3 DEF ChannelsOK, Channels
    <2>2. CASE m.type \in Kinds
      <3>1. /\ SendState(c, Msg("nil", 0))
            /\ received' = [received EXCEPT ![c][m.type] = Sent(@, m, ClientCap)]
        BY <2>2 DEF ReadLine, Kinds
      <3>2. /\ stateSent' = [stateSent EXCEPT ![c] = TRUE]
            /\ stateCh' = [stateCh EXCEPT ![c] =
                             IF stateSent[c] THEN stateCh[c] ELSE <<Msg("nil", 0)>>]
            /\ stateSent' \in [Clients -> BOOLEAN] /\ stateCh' \in Channels
            /\ Len(stateCh'[c]) <= 1 /\ stateSent'[c] = TRUE
            /\ stateSent[c] = TRUE => stateCh'[c] = stateCh[c]
        BY <1>1, <1>7, <3>1, StateSent DEF ClientOK
      <3>3. ReaderOK(c)'
        BY <1>1, <1>2, <1>5, <3>2 DEF ReaderOK, ClientOK
      <3>4. Sent(received[c][m.type], m, ClientCap) \in Seq(Messages)
        BY <1>1, <1>5, <2>2, KindsTyped DEF ChannelsOK
      <3> HIDE DEF m
      <3>5. received' \in [Clients -> [Kinds -> Seq(Messages)]]
        BY <1>1, <2>2, <3>1, <3>4 DEF ChannelsOK
      <3> QED
        BY <1>1, <3>1, <3>2, <3>3, <3>5 DEF ChannelsOK, Channels
    <2>3. CASE m.type # "state" /\ m.type \notin Kinds
      <3>1. UNCHANGED <<stateSent, stateCh, received>>
        BY <2>3 DEF ReadLine, Kinds
      <3>2. ReaderOK(c)'
        BY <1>1, <1>2, <3>1 DEF ReaderOK, ClientOK
      <3> QED
        BY <1>1, <3>1, <3>2 DEF ChannelsOK
    <2> QED
      BY <2>1, <2>2, <2>3
  <1> HIDE DEF m
  <1>9. ChannelsOK'
    BY <1>1, <1>2, <1>4, <1>5, <1>8 DEF ChannelsOK, Channels
  <1>10. ASSUME NEW d \in Clients PROVE ClientOK(d)'
    <2>1. CASE d # c
      BY <1>1, <1>2, <1>4, <1>8, <2>1, ClientKept DEF ChannelsOK, Channels
    <2>2. CASE d = c
      <3>1. LinkOK(c)'
        BY <1>1, <1>2, <1>5 DEF LinkOK, ClientOK, Early
      <3>2. LinesOK(c)'
        BY <1>6 DEF LinesOK
      <3> QED
        BY <1>8, <2>2, <3>1, <3>2 DEF ClientOK
    <2> QED
      BY <2>1, <2>2
  <1> QED
    BY <1>3, <1>9, <1>10 DEF AttachInv

(* The reader reaches the end, or the user is shown something. *)
LEMMA TakingKeeps ==
    ASSUME AttachInv, NEW c \in Clients,
           ReadEnd(c) \/ TakeState(c) \/ \E k \in Kinds : Watch(c, k)
    PROVE  AttachInv'
  <1>1. SourcesOK /\ ChannelsOK /\ ClientOK(c) /\ \A d \in Clients : ClientOK(d)
    BY DEF AttachInv
  <1>2. UNCHANGED <<interactive, produced, sink, hubIn, subs, sub, link, writing, wire>>
    BY DEF ReadEnd, TakeState, Watch, hubVars, sourceVars, subVars, linkVars
  <1>3. SourcesOK'
    BY <1>1, <1>2 DEF SourcesOK
  <1>4. ~Gone(c) /\ ~Early(c) /\ LinesOK(c)
    BY <1>1 DEF ReadEnd, TakeState, Watch, ClientOK, LinkOK, ReaderOK, Gone
  <1>5. SUFFICES /\ client' \in [Clients -> {"idle", "connecting", "waiting", "watching",
                                              "failed", "gone"}]
                 /\ reader' \in [Clients -> {"none", "reading", "ended"}]
                 /\ stateSent' \in [Clients -> BOOLEAN] /\ stateCh' \in Channels
                 /\ received' \in [Clients -> [Kinds -> Seq(Messages)]]
                 /\ \A d \in Clients \ {c} :
                      /\ client'[d] = client[d] /\ reader'[d] = reader[d]
                      /\ stateSent'[d] = stateSent[d] /\ stateCh'[d] = stateCh[d]
                      /\ received'[d] = received[d]
                 /\ ReaderOK(c)'
                 /\ client'[c] \in {client[c], "watching"}
                 /\ client'[c] = "watching" => client[c] \in {"waiting", "watching"}
                 /\ stateSent'[c] = stateSent[c] \/ Ahead(c) = <<>>
    <2>1. ChannelsOK'
      BY <1>1, <1>2, <1>5 DEF ChannelsOK
    <2>2. ASSUME NEW d \in Clients PROVE ClientOK(d)'
      <3>1. CASE d # c
        BY <1>1, <1>2, <1>5, <3>1, ClientKept
      <3>2. CASE d = c
        <4>1. LinkOK(c)'
          BY <1>1, <1>2, <1>4, <1>5 DEF LinkOK, ClientOK, Early
        <4>2. Ahead(c)' = Ahead(c)
          BY <1>2 DEF Ahead
        <4>3. Ahead(c) = <<>> => Without("state", Ahead(c))
          BY DEF Without
        <4>4. LinesOK(c)'
          BY <1>4, <1>5, <4>2, <4>3 DEF LinesOK
        <4> QED
          BY <1>5, <3>2, <4>1, <4>4 DEF ClientOK
      <3> QED
        BY <3>1, <3>2
    <2> QED
      BY <1>3, <2>1, <2>2 DEF AttachInv
  <1>6. CASE ReadEnd(c)
    <2>1. /\ reader[c] = "reading" /\ AtEOF(c) /\ SendState(c, Msg("nil", 0))
          /\ reader' = [reader EXCEPT ![c] = "ended"] /\ UNCHANGED <<client, received>>
      BY <1>6 DEF ReadEnd
    <2>2. Msg("nil", 0) \in Messages
      BY DEF Msg, Messages
    <2>3. /\ stateSent' = [stateSent EXCEPT ![c] = TRUE]
          /\ stateCh' = [stateCh EXCEPT ![c] =
                           IF stateSent[c] THEN stateCh[c] ELSE <<Msg("nil", 0)>>]
          /\ stateSent' \in [Clients -> BOOLEAN] /\ stateCh' \in Channels
          /\ Len(stateCh'[c]) <= 1 /\ stateSent'[c] = TRUE
          /\ stateSent[c] = TRUE => stateCh'[c] = stateCh[c]
      BY <1>1, <2>1, <2>2, StateSent DEF ClientOK
    <2>4. ReaderOK(c)' /\ client[c] \in {"waiting", "watching"}
      BY <1>1, <2>1, <2>3 DEF ReaderOK, ClientOK, ChannelsOK
    <2>5. Ahead(c) = <<>>
      <3>1. wire[c] = <<>> /\ link[c] = "closed"
        BY <1>4, <2>1 DEF AtEOF, Early
      <3>2. Ahead(c) = <<>> \o (<<>> \o <<>>)
        BY <1>1, <3>1 DEF Ahead, ClientOK, LinkOK
      <3> QED
        BY <3>2, EmptySeq, MovesKeepOrder
    <2> QED
      BY <1>1, <2>1, <2>3, <2>4, <2>5 DEF ChannelsOK, Channels
  <1>7. CASE TakeState(c)
    <2>1. /\ client[c] = "waiting" /\ stateCh[c] # <<>>
          /\ stateCh' = [stateCh EXCEPT ![c] = Tail(@)]
          /\ client' = [client EXCEPT ![c] = "watching"]
          /\ UNCHANGED <<reader, stateSent, received>>
      BY <1>7 DEF TakeState
    <2>2. stateCh[c] \in Seq(Messages) /\ Len(stateCh[c]) <= 1 /\ stateSent[c] = TRUE
      BY <1>1, <2>1 DEF ChannelsOK, Channels, ClientOK, ReaderOK
    <2>3. Tail(stateCh[c]) \in Seq(Messages) /\ Tail(stateCh[c]) = <<>> /\ Len(<<>>) = 0
      BY <2>1, <2>2
    <2>4. stateCh'[c] = <<>> /\ client'[c] = "watching"
      BY <1>1, <2>1, <2>3 DEF ChannelsOK, Channels
    <2>5. ReaderOK(c)'
      BY <1>1, <2>1, <2>2, <2>3, <2>4 DEF ReaderOK, ClientOK
    <2> QED
      BY <1>1, <2>1, <2>2, <2>3, <2>4, <2>5 DEF ChannelsOK, Channels
  <1>8. ASSUME NEW k \in Kinds, Watch(c, k)
        PROVE  /\ received' \in [Clients -> [Kinds -> Seq(Messages)]]
               /\ \A d \in Clients \ {c} : received'[d] = received[d]
               /\ UNCHANGED <<client, reader, stateSent, stateCh>> /\ ReaderOK(c)'
    <2>1. /\ client[c] = "watching" /\ received[c][k] # <<>>
          /\ received' = [received EXCEPT ![c][k] = Tail(@)]
          /\ UNCHANGED <<client, reader, stateSent, stateCh>>
      BY <1>8 DEF Watch
    <2>2. received[c][k] \in Seq(Messages) /\ Tail(received[c][k]) \in Seq(Messages)
      BY <1>1, <2>1 DEF ChannelsOK
    <2>3. ReaderOK(c)'
      BY <1>1, <2>1 DEF ReaderOK, ClientOK
    <2> QED
      BY <1>1, <2>1, <2>2, <2>3 DEF ChannelsOK
  <1> QED
    BY <1>1, <1>6, <1>7, <1>8 DEF ChannelsOK

(* AttachInv is inductive. *)
LEMMA AttachStep ==
    ASSUME AttachInv, [Next]_vars
    PROVE  AttachInv'
  <1>1. CASE Next
    <2>1. ASSUME NEW c \in Clients, ConnStep(c) PROVE AttachInv'
      BY <2>1, SubscriptionKeeps, PassingKeeps DEF ConnStep, Encode
    <2>2. ASSUME NEW c \in Clients, ClientStep(c) \/ Dial(c) \/ Quit(c) PROVE AttachInv'
      BY <2>2, ComingAndGoingKeeps, FirstLineKeeps, ReadLineKeeps, TakingKeeps
         DEF ClientStep, Disconnected, Quit
    <2> QED
      BY <1>1, <2>1, <2>2, HubKeeps, ServeKeeps DEF Next
  <1>2. CASE UNCHANGED vars
    <2>1. UNCHANGED <<interactive, produced, sink, hubIn, subs, sub, link, writing, wire,
                      client, reader, stateSent, stateCh, received>>
      BY <1>2 DEF vars, hubVars, sourceVars, subVars, linkVars, clientVars
    <2>2. SourcesOK' /\ ChannelsOK'
      BY <2>1 DEF AttachInv, SourcesOK, ChannelsOK
    <2>3. \A c \in Clients : ClientOK(c)'
      BY <2>1, ClientKept DEF AttachInv
    <2> QED
      BY <2>2, <2>3 DEF AttachInv
  <1> QED
    BY <1>1, <1>2

(* What the process of c holds for its user, and with it what is ahead. *)
Held(c) == stateCh[c] \o received[c]["event"]
Own(c) == Held(c) \o Ahead(c)

(* What can still come to c from the hub. *)
Rest(c) == IF Closed(c) THEN <<>> ELSE Upstream

(* The pipe of a client that is not gone, in two parts. *)
InParts ==
    /\ Upstream \in Seq(Messages)
    /\ \A c \in Clients :
        /\ Held(c) \in Seq(Messages) /\ Ahead(c) \in Seq(Messages) /\ Own(c) \in Seq(Messages)
        /\ Due(Own(c)) \in Seq(Messages) /\ Rest(c) \in Seq(Messages)
        /\ Pipe(c) = IF Gone(c) THEN <<>> ELSE Due(Own(c)) \o Rest(c)
        /\ Pipe(c) \in Seq(Messages)

(* The pipe of a client is made of what its own connection holds and of what the
   server still has for everyone. *)
LEMMA PipeInParts == AttachInv => InParts
  <1> SUFFICES ASSUME AttachInv PROVE InParts
    OBVIOUS
  <1>1. Upstream \in Seq(Messages)
    <2>1. hubIn["event"] \in Seq(Messages) /\ sink["event"] \in Seq(Messages)
      BY KindsTyped DEF AttachInv, SourcesOK, Kinds
    <2> QED
      BY <2>1, ConcatProperties DEF Upstream
  <1>2. ASSUME NEW c \in Clients
        PROVE  /\ Held(c) \in Seq(Messages) /\ Ahead(c) \in Seq(Messages)
               /\ Own(c) \in Seq(Messages)
               /\ Due(Own(c)) \in Seq(Messages) /\ Rest(c) \in Seq(Messages)
               /\ Pipe(c) = IF Gone(c) THEN <<>> ELSE Due(Own(c)) \o Rest(c)
               /\ Pipe(c) \in Seq(Messages)
    <2> DEFINE a == stateCh[c]
               b == received[c]["event"]
               x == wire[c]
               y == writing[c]
               z == sub[c]
    <2>1. /\ a \in Seq(Messages) /\ b \in Seq(Messages)
          /\ x \in Seq(Messages) /\ y \in Seq(Messages) /\ z \in Seq(Messages)
      BY DEF AttachInv, ChannelsOK, Channels, Kinds
    <2>2. Held(c) = a \o b /\ Ahead(c) = x \o (y \o z)
      BY DEF Held, Ahead
    <2>3. Pipe(c) = IF Gone(c) THEN <<>>
                   ELSE IF Closed(c) THEN Due((((a \o b) \o x) \o y) \o z)
                   ELSE Due((((a \o b) \o x) \o y) \o z) \o Upstream
      BY DEF Pipe
    <2>4. Rest(c) = IF Closed(c) THEN <<>> ELSE Upstream
      BY DEF Rest
    <2> HIDE DEF a, b, x, y, z
    <2> DEFINE h == a \o b
    <2>6. h \in Seq(Messages) /\ y \o z \in Seq(Messages) /\ x \o (y \o z) \in Seq(Messages)
      BY <2>1, ConcatProperties
    <2>7. ((h \o x) \o y) \o z = h \o (x \o (y \o z))
      <3>1. h \in Seq(Messages) /\ x \in Seq(Messages) /\ y \in Seq(Messages) /\ z \in Seq(Messages)
        BY <2>1, <2>6
      <3> HIDE DEF h
      <3>2. h \o x \in Seq(Messages) /\ y \o z \in Seq(Messages)
        BY <3>1, ConcatProperties
      <3>3. ((h \o x) \o y) \o z = (h \o x) \o (y \o z)
        BY <3>1, <3>2, ConcatAssociative, SMTT(30)
      <3>4. \A u \in Seq(Messages) : (h \o x) \o u = h \o (x \o u)
        BY <3>1, ConcatAssociative, SMTT(30)
      <3>5. (h \o x) \o (y \o z) = h \o (x \o (y \o z))
        BY <3>2, <3>4
      <3> QED
        BY <3>3, <3>5
    <2>8. Own(c) = ((h \o x) \o y) \o z
      BY <2>2, <2>7 DEF Own
    <2>9. Own(c) \in Seq(Messages)
      BY <2>2, <2>6, ConcatProperties DEF Own
    <2>10. Due(Own(c)) \in Seq(Messages)
      BY <2>9, DueOfBoth
    <2>11. Rest(c) \in Seq(Messages)
      BY <1>1, <2>4, EmptySeq
    <2>12. Pipe(c) = IF Gone(c) THEN <<>> ELSE Due(Own(c)) \o Rest(c)
      <3>1. Due(Own(c)) \o <<>> = Due(Own(c))
        BY <2>10, ConcatEmptySeq
      <3>2. Pipe(c) = IF Gone(c) THEN <<>>
                     ELSE IF Closed(c) THEN Due(Own(c))
                     ELSE Due(Own(c)) \o Upstream
        BY <2>3, <2>8
      <3> QED
        BY <2>4, <3>1, <3>2
    <2>13. Pipe(c) \in Seq(Messages)
      BY <2>10, <2>11, <2>12, EmptySeq, ConcatProperties
    <2> QED
      BY <2>2, <2>6, <2>9, <2>10, <2>11, <2>12, <2>13
  <1> QED
    BY <1>1, <1>2 DEF InParts

(* Either nothing happens to the stream of the watched client, or a step of it. *)
Streams == Stream!StreamNext \/ UNCHANGED Stream!streamVars

(* Which changes of the pipe and the phase are steps of the stream. *)
LEMMA StreamsWhen ==
    ASSUME produced'["event"] = produced["event"]
    PROVE  /\ PhaseOf(Watched)' = PhaseOf(Watched) =>
                /\ Pipe(Watched)' = Pipe(Watched) => Streams
                /\ \A i \in DOMAIN Pipe(Watched) :
                    /\ Pipe(Watched)[i].type = "event"
                    /\ Pipe(Watched)' = RemoveAt(Pipe(Watched), i)
                    => Streams
                /\ /\ PhaseOf(Watched) # "before" /\ Pipe(Watched) # <<>>
                   /\ Pipe(Watched)' = Tail(Pipe(Watched))
                   => Streams
           /\ PhaseOf(Watched)' = "cut" =>
                \A k \in 0 .. Len(Pipe(Watched)) :
                    Pipe(Watched)' = SubSeq(Pipe(Watched), 1, k) => Streams
  <1> DEFINE p == Pipe(Watched)
             f == PhaseOf(Watched)
  <1>1. ASSUME f' = f, p' = p PROVE Streams
    BY <1>1 DEF Streams, Stream!streamVars
  <1>2. ASSUME f' = f, NEW i \in DOMAIN p, p[i].type = "event", p' = RemoveAt(p, i)
        PROVE  Streams
    <2> HIDE DEF p, f
    <2>1. Stream!RemoveAt(p, i) = RemoveAt(p, i)
      BY DEF Stream!RemoveAt, RemoveAt
    <2> USE DEF p, f
    <2>2. Stream!Lose
      BY <1>2, <2>1 DEF Stream!Lose
    <2> QED
      BY <2>2 DEF Streams, Stream!StreamNext
  <1>3. ASSUME f' = f, f # "before", p # <<>>, p' = Tail(p) PROVE Streams
    BY <1>3 DEF Streams, Stream!StreamNext, Stream!Deliver
  <1>4. ASSUME f' = "cut", NEW k \in 0 .. Len(p), p' = SubSeq(p, 1, k) PROVE Streams
    BY <1>4 DEF Streams, Stream!StreamNext, Stream!Cut
  <1> QED
    BY <1>1, <1>2, <1>3, <1>4

(* A step that leaves alone what belongs to the watched client. *)
LEMMA StreamUntouched ==
    ASSUME produced'["event"] = produced["event"], Upstream' = Upstream,
           sub'[Watched] = sub[Watched], link'[Watched] = link[Watched],
           writing'[Watched] = writing[Watched], wire'[Watched] = wire[Watched],
           client'[Watched] = client[Watched], stateCh'[Watched] = stateCh[Watched],
           received'[Watched]["event"] = received[Watched]["event"],
           serve' = serve
    PROVE  Streams
  <1>1. (Gone(Watched)' <=> Gone(Watched)) /\ (Closed(Watched)' <=> Closed(Watched))
    BY DEF Gone, Closed
  <1>2. PhaseOf(Watched)' = PhaseOf(Watched)
    BY <1>1 DEF PhaseOf
  <1>3. Pipe(Watched)' = Pipe(Watched)
    BY <1>1 DEF Pipe
  <1> QED
    BY <1>2, <1>3, StreamsWhen

(* Once the process of the watched client has ended, its stream is cut and empty. *)
LEMMA StreamAfterEnd ==
    ASSUME Gone(Watched), Gone(Watched)',
           produced'["event"] \in {produced["event"], produced["event"] + 1}
    PROVE  Streams
  <1>1. /\ Pipe(Watched) = <<>> /\ Pipe(Watched)' = <<>>
        /\ PhaseOf(Watched) = "cut" /\ PhaseOf(Watched)' = "cut"
    BY DEF Pipe, PhaseOf
  <1>2. CASE produced'["event"] = produced["event"]
    BY <1>1, <1>2, StreamsWhen
  <1>3. CASE produced'["event"] = produced["event"] + 1
    <2>1. Stream!Emit(produced["event"] + 1)
      BY <1>1, <1>3 DEF Stream!Emit
    <2> QED
      BY <2>1 DEF Streams, Stream!StreamNext
  <1> QED
    BY <1>2, <1>3

(* The stream of a client that is just ending is cut. *)
LEMMA StreamAtEnd ==
    ASSUME Gone(Watched)', produced'["event"] = produced["event"], AttachInv
    PROVE  Streams
  <1>1. Pipe(Watched)' = <<>> /\ PhaseOf(Watched)' = "cut"
    BY DEF Pipe, PhaseOf
  <1>2. Pipe(Watched) \in Seq(Messages)
    BY PipeInParts, WatchedAssumption DEF InParts
  <1>3. Len(Pipe(Watched)) \in Nat
    BY <1>2
  <1>4. 0 \in 0 .. Len(Pipe(Watched)) /\ SubSeq(Pipe(Watched), 1, 0) = <<>>
    BY <1>3, SubSeqEmpty
  <1> QED
    BY <1>1, <1>4, StreamsWhen

(* Concatenation is associative, stated for the messages of this module. *)
LEMMA Regrouped ==
    \A s, t, u \in Seq(Messages) : (s \o t) \o u = s \o (t \o u)
  BY ConcatAssociative

(* An event that is lost before the hub. *)
LEMMA StreamLosesUpstream ==
    ASSUME AttachInv, AttachInv', UNCHANGED <<linkVars, clientVars, serveVars>>,
           produced'["event"] = produced["event"], sub'[Watched] = sub[Watched],
           NEW a \in Seq(Messages), NEW m \in Messages, NEW b \in Seq(Messages),
           m.type = "event", Upstream = a \o (<<m>> \o b), Upstream' = a \o b
    PROVE  Streams
  <1> DEFINE w == Watched
             d == Due(Own(w))
             x == <<m>> \o b
  <1>1. UNCHANGED <<link, writing, wire, client, reader, stateSent, stateCh, received, serve>>
    BY DEF linkVars, clientVars, serveVars
  <1>2. /\ Gone(w)' <=> Gone(w)
        /\ Closed(w)' <=> Closed(w)
        /\ PhaseOf(w)' = PhaseOf(w)
    BY <1>1 DEF Gone, Closed, PhaseOf
  <1>3. CASE Gone(w) \/ Closed(w)
    <2>1. Pipe(w)' = Pipe(w)
      BY <1>1, <1>2, <1>3 DEF Pipe
    <2> QED
      BY <1>2, <2>1, StreamsWhen
  <1>4. CASE ~Gone(w) /\ ~Closed(w)
    <2>1. Own(w)' = Own(w)
      BY <1>1 DEF Own, Held, Ahead
    <2>2. d \in Seq(Messages) /\ x \in Seq(Messages) /\ d \o a \in Seq(Messages)
      BY PipeInParts, WatchedAssumption, HeadAndTail, ConcatProperties DEF InParts
    <2>3. Pipe(w) = d \o (a \o x)
      BY <1>4, PipeInParts, WatchedAssumption DEF InParts, Rest
    <2>4. Pipe(w)' = d \o (a \o b)
      <3>1. InParts'
        BY PipeInParts, PTL
      <3>2. Pipe(w)' = Due(Own(w))' \o Upstream'
        BY <1>2, <1>4, <3>1, WatchedAssumption DEF InParts, Rest
      <3> QED
        BY <2>1, <3>2
    <2>5. Pipe(w) = (d \o a) \o x /\ Pipe(w)' = (d \o a) \o b
      <3> HIDE DEF d, x
      <3> QED
        BY <2>2, <2>3, <2>4, Regrouped, ZenonT(30)
    <2> DEFINE i == Len(d \o a) + 1
               p == (d \o a) \o x
    <2>6. i \in DOMAIN p /\ p[i] = m /\ RemoveAt(p, i) = (d \o a) \o b
      <3> DEFINE da == d \o a
      <3>1. da \in Seq(Messages)
        BY <2>2
      <3> HIDE DEF da, d
      <3>2. /\ Len(da) + 1 \in DOMAIN (da \o (<<m>> \o b))
            /\ (da \o (<<m>> \o b))[Len(da) + 1] = m
            /\ RemoveAt(da \o (<<m>> \o b), Len(da) + 1) = da \o b
        BY <3>1, RemoveBetween, ZenonT(30)
      <3> QED
        BY <3>2 DEF da
    <2> HIDE DEF d, x, i
    <2>7. i \in DOMAIN Pipe(w) /\ Pipe(w)[i].type = "event" /\ Pipe(w)' = RemoveAt(Pipe(w), i)
      BY <2>5, <2>6
    <2> QED
      BY <1>2, <2>7, StreamsWhen
  <1> QED
    BY <1>3, <1>4

(* An event happens. *)
LEMMA StreamEmits ==
    ASSUME AttachInv, AttachInv', UNCHANGED <<linkVars, clientVars, serveVars>>,
           Produce("event"), ~Gone(Watched)
    PROVE  Streams
  <1> DEFINE w == Watched
             d == Due(Own(w))
             m == Msg("event", produced["event"] + 1)
  <1>1. /\ UNCHANGED <<link, writing, wire, client, stateCh, received, serve, sub, hubIn>>
        /\ produced' = [produced EXCEPT !["event"] = @ + 1]
        /\ sink' = [sink EXCEPT !["event"] = Sent(@, m, SinkCap)]
    BY DEF linkVars, clientVars, serveVars, Produce, subVars
  <1>2. /\ ~Gone(w) /\ ~Gone(w)' /\ (Closed(w)' <=> Closed(w))
        /\ PhaseOf(w)' = PhaseOf(w) /\ Own(w)' = Own(w)
        /\ ~Closed(w) => PhaseOf(w) # "cut"
    BY <1>1 DEF Gone, Closed, PhaseOf, Own, Held, Ahead
  <1>3. /\ produced'["event"] = produced["event"] + 1
        /\ sink'["event"] = sink["event"] \/ sink'["event"] = Append(sink["event"], m)
    <2>1. produced \in [Kinds -> Nat] /\ DOMAIN sink = Kinds /\ "event" \in Kinds
      BY DEF AttachInv, SourcesOK, Kinds
    <2>2. /\ sink'["event"] = Sent(sink["event"], m, SinkCap)
          /\ produced'["event"] = produced["event"] + 1
      <3> HIDE DEF m
      <3> QED
        BY <1>1, <2>1, Zenon
    <2> QED
      BY <2>2 DEF Sent
  <1>4. m \in Messages /\ m = Stream!EventMsg(produced["event"] + 1)
    BY DEF AttachInv, SourcesOK, Messages, Msg, Stream!EventMsg, Kinds
  <1>5. /\ d \in Seq(Messages) /\ Upstream \in Seq(Messages) /\ d \o Upstream \in Seq(Messages)
        /\ Pipe(w) = d \o Rest(w)
    BY <1>2, PipeInParts, WatchedAssumption, ConcatProperties DEF InParts
  <1>6. Pipe(w)' = d \o Rest(w)'
    <2>1. InParts'
      BY PipeInParts, PTL
    <2>2. Pipe(w)' = Due(Own(w))' \o Rest(w)'
      BY <1>2, <2>1, WatchedAssumption DEF InParts
    <2> QED
      BY <1>2, <2>2
  <1> HIDE DEF m, d
  <1>7. CASE Closed(w) \/ sink'["event"] = sink["event"]
    <2>1. Pipe(w)' = Pipe(w)
      BY <1>1, <1>2, <1>5, <1>6, <1>7 DEF Rest, Upstream
    <2>2. Stream!Emit(produced["event"] + 1)
      BY <1>2, <1>3, <2>1 DEF Stream!Emit
    <2> QED
      BY <2>2 DEF Streams, Stream!StreamNext
  <1>8. CASE ~Closed(w) /\ sink'["event"] = Append(sink["event"], m)
    <2> DEFINE h == hubIn["event"]
               s == sink["event"]
    <2>1. h \in Seq(Messages) /\ s \in Seq(Messages) /\ d \in Seq(Messages)
      BY <1>5, KindsTyped DEF AttachInv, SourcesOK, Kinds
    <2>2. Upstream' = h \o Append(s, m) /\ Upstream = h \o s
      BY <1>1, <1>8 DEF Upstream
    <2>3. Pipe(w)' = d \o (h \o Append(s, m)) /\ Pipe(w) = d \o (h \o s)
      BY <1>2, <1>5, <1>6, <1>8, <2>2 DEF Rest
    <2> HIDE DEF h, s
    <2>4. \A n \in Messages : d \o (h \o Append(s, n)) = Append(d \o (h \o s), n)
      BY <2>1, MovesKeepOrder, SMTT(30)
    <2>5. Pipe(w)' = Append(Pipe(w), m)
      BY <1>4, <2>3, <2>4
    <2>6. Stream!Emit(produced["event"] + 1)
      BY <1>2, <1>3, <1>4, <1>8, <2>5 DEF Stream!Emit
    <2> QED
      BY <2>6 DEF Streams, Stream!StreamNext
  <1> QED
    BY <1>3, <1>7, <1>8

(* The fan-out passes an event on, or loses it. *)
LEMMA StreamFans ==
    ASSUME AttachInv, AttachInv', UNCHANGED <<linkVars, clientVars, serveVars>>,
           FanForward("event")
    PROVE  Streams
  <1> DEFINE h == hubIn["event"]
             s == sink["event"]
             m == Head(s)
             t == Tail(s)
  <1>1. /\ UNCHANGED <<link, writing, wire, client, stateCh, received, serve, sub, produced>>
        /\ s # <<>> /\ sink' = [sink EXCEPT !["event"] = Tail(@)]
        /\ hubIn' = [hubIn EXCEPT !["event"] = Sent(@, Head(sink["event"]), FanCap)]
    BY DEF linkVars, clientVars, serveVars, FanForward, subVars
  <1>2. /\ h \in Seq(Messages) /\ s \in Seq(Messages) /\ m \in Messages /\ m.type = "event"
        /\ "event" \in DOMAIN sink /\ "event" \in DOMAIN hubIn
    BY <1>1, KindsTyped DEF AttachInv, SourcesOK, Kinds
  <1>3. sink'["event"] = t /\ (hubIn'["event"] = h \/ hubIn'["event"] = Append(h, m))
    BY <1>1, <1>2 DEF Sent
  <1>4. s = <<m>> \o t /\ t \in Seq(Messages) /\ <<m>> \in Seq(Messages)
    BY <1>1, <1>2, HeadAndTail
  <1>5. Upstream = h \o s /\ Upstream' = hubIn'["event"] \o sink'["event"]
    BY DEF Upstream
  <1> HIDE DEF h, s, m, t
  <1>6. CASE hubIn'["event"] = h
    <2>1. Upstream = h \o (<<m>> \o t) /\ Upstream' = h \o t
      BY <1>3, <1>4, <1>5, <1>6
    <2> QED
      BY <1>1, <1>2, <1>4, <2>1, StreamLosesUpstream
  <1>7. CASE hubIn'["event"] = Append(h, m)
    <2>1. Append(h, m) = h \o <<m>>
      BY <1>2, AppendIsConcat
    <2>2. (h \o <<m>>) \o t = h \o (<<m>> \o t)
      BY <1>2, <1>4, Regrouped
    <2>3. Upstream' = Upstream
      BY <1>3, <1>4, <1>5, <1>7, <2>1, <2>2
    <2> QED
      BY <1>1, <2>3, StreamUntouched
  <1> QED
    BY <1>3, <1>6, <1>7

(* The hub broadcasts: what a subscriber's channel takes moves on, or is not due. *)
LEMMA StreamBroadcasts ==
    ASSUME AttachInv, AttachInv', UNCHANGED <<linkVars, clientVars, serveVars>>,
           NEW k \in Kinds, Broadcast(k), ~Gone(Watched)
    PROVE  Streams
  <1> DEFINE w == Watched
             d == Due(Own(w))
             m == Head(Source(k))
  <1>1. /\ UNCHANGED <<link, writing, wire, client, stateCh, received, serve, produced,
                       interactive>>
        /\ Source(k) # <<>>
        /\ sub'[w] = IF w \in subs THEN Sent(sub[w], m, SubCap) ELSE sub[w]
        /\ IF interactive
           THEN hubIn' = [hubIn EXCEPT ![k] = Tail(@)] /\ UNCHANGED sink
           ELSE sink' = [sink EXCEPT ![k] = Tail(@)] /\ UNCHANGED hubIn
    BY WatchedAssumption DEF linkVars, clientVars, serveVars, Broadcast
  <1>2. m \in Messages /\ m.type = k /\ <<m>> \in Seq(Messages)
    BY <1>1, KindsTyped DEF AttachInv, SourcesOK, Source
  <1>3. k = "log" => Upstream' = Upstream
    BY <1>1 DEF Upstream, AttachInv, SourcesOK, Kinds
  <1>4. k = "event" => \E u \in Seq(Messages) : Upstream = <<m>> \o u /\ Upstream' = u
    <2> SUFFICES ASSUME k = "event"
                 PROVE  \E u \in Seq(Messages) : Upstream = <<m>> \o u /\ Upstream' = u
      OBVIOUS
    <2> DEFINE h == hubIn["event"]
               s == sink["event"]
    <2>1. /\ h \in Seq(Messages) /\ s \in Seq(Messages)
          /\ interactive \in BOOLEAN /\ (interactive = FALSE => h = <<>>)
          /\ "event" \in DOMAIN sink /\ "event" \in DOMAIN hubIn
      BY KindsTyped DEF AttachInv, SourcesOK, Kinds
    <2>2. CASE interactive = TRUE
      <3>1. h # <<>> /\ m = Head(h) /\ Upstream = h \o s /\ Upstream' = Tail(h) \o s
        BY <1>1, <2>1, <2>2 DEF Source, Upstream
      <3>2. h = <<m>> \o Tail(h) /\ Tail(h) \in Seq(Messages)
        BY <2>1, <3>1, HeadAndTail
      <3> DEFINE t == Tail(h)
      <3> HIDE DEF h, s, t, m
      <3>3. (<<m>> \o t) \o s = <<m>> \o (t \o s) /\ t \o s \in Seq(Messages)
        <4>1. t \in Seq(Messages) /\ s \in Seq(Messages)
          BY <2>1, <3>2 DEF t
        <4> QED
          BY <1>2, <4>1, Regrouped, ConcatProperties
      <3>4. Upstream = <<m>> \o (t \o s) /\ Upstream' = t \o s
        BY <3>1, <3>2, <3>3 DEF t
      <3> QED
        BY <3>3, <3>4
    <2>3. CASE interactive = FALSE
      <3>1. s # <<>> /\ m = Head(s) /\ Upstream = <<>> \o s /\ Upstream' = <<>> \o Tail(s)
        BY <1>1, <2>1, <2>3 DEF Source, Upstream
      <3>2. s = <<m>> \o Tail(s) /\ Tail(s) \in Seq(Messages)
        BY <2>1, <3>1, HeadAndTail
      <3>3. <<>> \o s = s /\ <<>> \o Tail(s) = Tail(s)
        BY <2>1, <3>2, ConcatEmptySeq
      <3> HIDE DEF s, m
      <3>4. Upstream = <<m>> \o Tail(s) /\ Upstream' = Tail(s)
        BY <3>1, <3>2, <3>3
      <3> QED
        BY <3>2, <3>4
    <2> QED
      BY <2>1, <2>2, <2>3
  <1> HIDE DEF m
  <1>5. CASE sub'[w] = sub[w]
    <2>1. CASE k = "log"
      BY <1>1, <1>3, <1>5, <2>1, StreamUntouched
    <2>2. CASE k = "event"
      <3>1. PICK u \in Seq(Messages) : Upstream = <<m>> \o u /\ Upstream' = u
        BY <1>4, <2>2
      <3>2. <<m>> \o u \in Seq(Messages) /\ <<>> \in Seq(Messages)
        BY <3>1, <1>2, HeadAndTail, EmptySeq
      <3>3. <<>> \o (<<m>> \o u) = <<m>> \o u /\ <<>> \o u = u
        BY <3>2, ConcatEmptySeq
      <3> QED
        BY <1>1, <1>2, <1>5, <2>2, <3>1, <3>2, <3>3, StreamLosesUpstream
    <2> QED
      BY <2>1, <2>2 DEF Kinds
  <1>6. CASE w \in subs /\ sub'[w] = Append(sub[w], m)
    <2>1. /\ ~Gone(w) /\ ~Gone(w)' /\ ~Closed(w) /\ ~Closed(w)'
          /\ PhaseOf(w)' = PhaseOf(w) /\ Held(w)' = Held(w)
      <3>1. ~Closed(w)
        BY <1>6, WatchedAssumption DEF AttachInv, ClientOK, LinkOK, Early, Closed
      <3> QED
        BY <1>1, <3>1 DEF Gone, Closed, PhaseOf, Held
    <2>2. /\ Held(w) \in Seq(Messages) /\ Ahead(w) \in Seq(Messages) /\ Own(w) \in Seq(Messages)
          /\ d \in Seq(Messages) /\ Upstream \in Seq(Messages)
          /\ Pipe(w) = d \o Upstream
      BY <2>1, PipeInParts, WatchedAssumption DEF InParts, Rest
    <2>3. Own(w)' = Own(w) \o <<m>>
      <3> DEFINE x == wire[w]
                 y == writing[w]
                 z == sub[w]
                 l == <<m>>
      <3>1. Ahead(w) = x \o (y \o z) /\ Ahead(w)' = x \o (y \o Append(z, m))
        BY <1>1, <1>6 DEF Ahead
      <3>2. x \o (y \o Append(z, m)) = Append(x \o (y \o z), m)
        <4>1. x \in Seq(Messages) /\ y \in Seq(Messages) /\ z \in Seq(Messages)
          BY WatchedAssumption DEF AttachInv, ChannelsOK, Channels
        <4> HIDE DEF x, y, z
        <4>2. \A n \in Messages : x \o (y \o Append(z, n)) = Append(x \o (y \o z), n)
          BY <4>1, MovesKeepOrder, SMTT(30)
        <4> QED
          BY <1>2, <4>2
      <3>3. Ahead(w)' = Append(Ahead(w), m)
        BY <3>1, <3>2
      <3>4. Append(Ahead(w), m) = Ahead(w) \o l
        BY <1>2, <2>2, AppendIsConcat
      <3>5. Held(w) \o (Ahead(w) \o l) = (Held(w) \o Ahead(w)) \o l
        <4>1. l \in Seq(Messages) /\ Held(w) \in Seq(Messages) /\ Ahead(w) \in Seq(Messages)
          BY <1>2, <2>2
        <4> HIDE DEF l
        <4> QED
          BY <4>1, Regrouped
      <3> QED
        BY <2>1, <3>3, <3>4, <3>5 DEF Own
    <2>4. Due(Own(w) \o <<m>>) = d \o Due(<<m>>)
      BY <1>2, <2>2, DueOfBoth
    <2>5. Pipe(w)' = (d \o Due(<<m>>)) \o Upstream'
      <3>1. InParts'
        BY PipeInParts, PTL
      <3>2. Pipe(w)' = Due(Own(w))' \o Upstream'
        BY <2>1, <3>1, WatchedAssumption DEF InParts, Rest
      <3> QED
        BY <2>3, <2>4, <3>2
    <2>6. Pipe(w)' = Pipe(w)
      <3>1. CASE k = "log"
        <4>1. Due(<<m>>) = <<>>
          BY <1>2, <3>1, DueOfOne DEF Promised
        <4>2. d \o <<>> = d
          BY <2>2, ConcatEmptySeq
        <4> QED
          BY <1>3, <2>2, <2>5, <3>1, <4>1, <4>2
      <3>2. CASE k = "event"
        <4>1. PICK u \in Seq(Messages) : Upstream = <<m>> \o u /\ Upstream' = u
          BY <1>4, <3>2
        <4>2. Due(<<m>>) = <<m>>
          BY <1>2, <3>2, DueOfOne DEF Promised
        <4> DEFINE l == <<m>>
        <4>3. d \in Seq(Messages) /\ l \in Seq(Messages)
          BY <1>2, <2>2
        <4> HIDE DEF l, d
        <4>4. (d \o l) \o u = d \o (l \o u)
          BY <4>3, Regrouped
        <4> QED
          BY <2>2, <2>5, <4>1, <4>2, <4>4 DEF l
      <3> QED
        BY <3>1, <3>2 DEF Kinds
    <2> QED
      BY <1>1, <2>1, <2>6, StreamsWhen
  <1> QED
    BY <1>1, <1>5, <1>6 DEF Sent

(* Serve: a client that has dialled will not be accepted once Accept has failed. *)
LEMMA StreamServes ==
    ASSUME AttachInv, AttachInv',
           CloseListener \/ AcceptFails \/ ServeReturn \/ \E c \in Clients : Accept(c),
           ~Gone(Watched)
    PROVE  Streams
  <1> DEFINE w == Watched
             d == Due(Own(w))
  <1>1. UNCHANGED <<hubVars, writing, wire, clientVars>>
    BY DEF CloseListener, AcceptFails, ServeReturn, Accept, linkVars
  <1>2. /\ UNCHANGED <<produced, hubIn, sink, sub, writing, wire, client, stateCh, received>>
        /\ ~Gone(w)' /\ Upstream' = Upstream /\ Own(w)' = Own(w)
    BY <1>1 DEF hubVars, sourceVars, subVars, clientVars, Gone, Upstream, Own, Held, Ahead
  <1>3. d \in Seq(Messages) /\ Rest(w) \in Seq(Messages) /\ Pipe(w) = d \o Rest(w)
    BY PipeInParts, WatchedAssumption DEF InParts
  <1>4. Pipe(w)' = d \o Rest(w)'
    <2>1. InParts'
      BY PipeInParts, PTL
    <2>2. Pipe(w)' = Due(Own(w))' \o Rest(w)'
      BY <1>2, <2>1, WatchedAssumption DEF InParts
    <2> QED
      BY <1>2, <2>2
  <1> HIDE DEF d
  <1>5. CASE AcceptFails /\ link[w] = "dialled"
    <2>1. PhaseOf(w)' = "cut" /\ Rest(w)' = <<>>
      BY <1>5 DEF AcceptFails, PhaseOf, Closed, Rest, linkVars
    <2>2. Pipe(w)' = d
      BY <1>3, <1>4, <2>1, ConcatEmptySeq
    <2>3. Len(d) \in 0 .. Len(d \o Rest(w)) /\ SubSeq(d \o Rest(w), 1, Len(d)) = d
      BY <1>3, FrontAndBack
    <2> QED
      BY <1>2, <1>3, <2>1, <2>2, <2>3, StreamsWhen
  <1>6. CASE ~(AcceptFails /\ link[w] = "dialled")
    <2>1. (Closed(w)' <=> Closed(w)) /\ PhaseOf(w)' = PhaseOf(w)
      <3>1. CASE CloseListener
        BY <1>2, <3>1 DEF CloseListener, Closed, PhaseOf, Gone, linkVars
      <3>2. CASE AcceptFails /\ link[w] # "dialled"
        BY <1>2, <3>2 DEF AcceptFails, Closed, PhaseOf, Gone, linkVars
      <3>3. CASE ServeReturn
        BY <1>2, <3>3 DEF ServeReturn, Closed, PhaseOf, Gone, linkVars
      <3>4. ASSUME NEW c \in Clients, Accept(c)
            PROVE  (Closed(w)' <=> Closed(w)) /\ PhaseOf(w)' = PhaseOf(w)
        <4>1. /\ serve = "accept" /\ serve' = serve
              /\ link[c] = "dialled" /\ link' = [link EXCEPT ![c] = "accepted"]
              /\ w \in DOMAIN link
          BY <3>4, WatchedAssumption DEF Accept, serveVars, AttachInv, ChannelsOK
        <4>2. CASE c = w
          BY <1>2, <4>1, <4>2 DEF Closed, PhaseOf, Gone
        <4>3. CASE c # w
          BY <1>2, <4>1, <4>3 DEF Closed, PhaseOf, Gone
        <4> QED
          BY <4>2, <4>3
      <3> QED
        BY <1>6, <3>1, <3>2, <3>3, <3>4
    <2>2. Pipe(w)' = Pipe(w)
      BY <1>2, <1>3, <1>4, <2>1 DEF Rest
    <2> QED
      BY <1>2, <2>1, <2>2, StreamsWhen
  <1> QED
    BY <1>5, <1>6

(* serveConn subscribes the watched client: configuration and snapshot are all
   that is under way to it. *)
LEMMA StreamStarts ==
    ASSUME AttachInv, AttachInv', ConnSubscribe(Watched), ~Gone(Watched)
    PROVE  Streams
  <1> DEFINE w == Watched
             first == <<Msg("config", 0), Msg("state", produced["event"])>>
  <1>1. /\ UNCHANGED <<produced, hubIn, sink, serve, client, wire, writing, stateCh, received>>
        /\ link[w] = "accepted" /\ link'[w] = "select" /\ sub'[w] = first
    BY WatchedAssumption DEF ConnSubscribe, Subscribe, sourceVars, serveVars, clientVars,
       AttachInv, ChannelsOK, Channels
  <1>2. /\ sub[w] = <<>> /\ writing[w] = <<>> /\ wire[w] = <<>> /\ stateCh[w] = <<>>
        /\ received[w]["event"] = <<>>
    BY <1>1, WatchedAssumption DEF AttachInv, ClientOK, LinkOK, Early
  <1>3. /\ ~Gone(w)' /\ ~Closed(w) /\ ~Closed(w)' /\ Upstream' = Upstream
        /\ PhaseOf(w) = "before" /\ PhaseOf(w)' = "on"
    BY <1>1 DEF Gone, Closed, PhaseOf, Upstream
  <1>4. Own(w) = <<>> /\ Own(w)' = first /\ first \in Seq(Messages)
    <2>1. Msg("config", 0) \in Messages /\ Msg("state", produced["event"]) \in Messages
      BY DEF Msg, Messages, AttachInv, SourcesOK, Kinds
    <2>2. first \in Seq(Messages) /\ <<>> \in Seq(Messages)
      BY <2>1, EmptySeq
    <2> HIDE DEF first
    <2>3. Own(w) = (<<>> \o <<>>) \o (<<>> \o (<<>> \o <<>>))
      BY <1>2 DEF Own, Held, Ahead
    <2>4. Own(w)' = (<<>> \o <<>>) \o (<<>> \o (<<>> \o first))
      BY <1>1, <1>2 DEF Own, Held, Ahead
    <2>5. <<>> \o <<>> = <<>> /\ <<>> \o first = first
      BY <2>2, ConcatEmptySeq
    <2> QED
      BY <2>2, <2>3, <2>4, <2>5
  <1>5. Due(first) = <<Stream!ConfigMsg, Stream!StateMsg(produced["event"])>>
    <2> DEFINE a == Msg("config", 0)
               b == Msg("state", produced["event"])
    <2>1. a \in Messages /\ b \in Messages /\ Promised(a) /\ Promised(b)
      BY DEF Msg, Messages, AttachInv, SourcesOK, Kinds, Promised
    <2>2. a = Stream!ConfigMsg /\ b = Stream!StateMsg(produced["event"])
      BY DEF Msg, Stream!ConfigMsg, Stream!StateMsg
    <2> HIDE DEF a, b
    <2>3. <<a>> \in Seq(Messages) /\ <<b>> \in Seq(Messages) /\ <<a, b>> = <<a>> \o <<b>>
      <3>1. <<a>> \in Seq(Messages) /\ <<b>> \in Seq(Messages)
        BY <2>1
      <3>2. <<a, b>> = Append(<<a>>, b)
        OBVIOUS
      <3>3. Append(<<a>>, b) = <<a>> \o <<b>>
        BY <2>1, <3>1, AppendIsConcat
      <3> QED
        BY <3>1, <3>2, <3>3
    <2>4. Due(<<a, b>>) = Due(<<a>>) \o Due(<<b>>)
      BY <2>3, DueOfBoth
    <2>5. Due(<<a>>) = <<a>> /\ Due(<<b>>) = <<b>>
      BY <2>1, DueOfOne
    <2>6. Due(<<a, b>>) = <<a, b>>
      BY <2>3, <2>4, <2>5
    <2> QED
      BY <2>2, <2>6 DEF a, b
  <1>6. Pipe(w) = Upstream /\ Upstream \in Seq(Messages)
    <2>1. Pipe(w) = Due(<<>>) \o Upstream /\ Upstream \in Seq(Messages)
      BY <1>3, <1>4, PipeInParts, WatchedAssumption DEF InParts, Rest
    <2> QED
      BY <2>1, DueOfOne, ConcatEmptySeq
  <1>7. Pipe(w)' = Due(first) \o Upstream
    <2>1. InParts'
      BY PipeInParts, PTL
    <2>2. Pipe(w)' = Due(Own(w))' \o Upstream'
      BY <1>3, <2>1, WatchedAssumption DEF InParts, Rest
    <2> QED
      BY <1>3, <1>4, <2>2
  <1> HIDE DEF first
  <1>8. Stream!Start(produced["event"])
    BY <1>1, <1>3, <1>5, <1>6, <1>7 DEF Stream!Start
  <1> QED
    BY <1>8 DEF Streams, Stream!StreamNext

(* serveConn closes the connection: what was written can still be read. *)
LEMMA StreamCloses ==
    ASSUME AttachInv, AttachInv', ConnDone(Watched), ~Gone(Watched)
    PROVE  Streams
  <1> DEFINE w == Watched
             s == Held(w) \o wire[w]
             t == writing[w] \o sub[w]
  <1>1. /\ UNCHANGED <<produced, client, wire, stateCh, received>>
        /\ link'[w] = "closed" /\ sub'[w] = <<>> /\ writing'[w] = <<>>
    BY WatchedAssumption DEF ConnDone, ConnClose, Unsubscribe, sourceVars, clientVars,
       AttachInv, ChannelsOK, Channels
  <1>2. PhaseOf(w)' = "cut" /\ Rest(w)' = <<>> /\ ~Gone(w)' /\ Held(w)' = Held(w)
    BY <1>1 DEF PhaseOf, Closed, Rest, Gone, Held
  <1>3. /\ Held(w) \in Seq(Messages) /\ wire[w] \in Seq(Messages)
        /\ writing[w] \in Seq(Messages) /\ sub[w] \in Seq(Messages) /\ Rest(w) \in Seq(Messages)
        /\ Pipe(w) = Due(Own(w)) \o Rest(w)
    BY PipeInParts, WatchedAssumption DEF InParts, AttachInv, ChannelsOK, Channels
  <1>4. s \in Seq(Messages) /\ t \in Seq(Messages)
    BY <1>3, ConcatProperties
  <1>5. Own(w) = s \o t
    <2> DEFINE h == Held(w)
               x == wire[w]
    <2>1. h \in Seq(Messages) /\ x \in Seq(Messages) /\ t \in Seq(Messages)
      BY <1>3, <1>4
    <2>2. Own(w) = h \o (x \o t)
      BY DEF Own, Ahead
    <2> HIDE DEF h, x, t
    <2>3. (h \o x) \o t = h \o (x \o t)
      BY <2>1, Regrouped
    <2> QED
      BY <2>2, <2>3 DEF h, x
  <1>6. Own(w)' = s
    <2>1. Own(w)' = Held(w) \o (wire[w] \o (<<>> \o <<>>))
      BY <1>1, <1>2 DEF Own, Ahead
    <2>2. wire[w] \o (<<>> \o <<>>) = wire[w]
      BY <1>3, MovesKeepOrder
    <2> QED
      BY <2>1, <2>2
  <1> HIDE DEF s, t
  <1>7. Due(s \o t) = Due(s) \o Due(t) /\ Due(s) \in Seq(Messages) /\ Due(t) \in Seq(Messages)
    BY <1>4, DueOfBoth
  <1>8. Pipe(w)' = Due(s)
    <2>1. InParts'
      BY PipeInParts, PTL
    <2>2. Pipe(w)' = Due(Own(w))' \o Rest(w)'
      BY <1>2, <2>1, WatchedAssumption DEF InParts
    <2>3. Pipe(w)' = Due(s) \o <<>>
      BY <1>2, <1>6, <2>2
    <2> QED
      BY <1>7, <2>3, ConcatEmptySeq
  <1>9. Pipe(w) = Due(s) \o (Due(t) \o Rest(w)) /\ Due(t) \o Rest(w) \in Seq(Messages)
    <2> DEFINE d == Due(s)
               e == Due(t)
               r == Rest(w)
    <2>1. d \in Seq(Messages) /\ e \in Seq(Messages) /\ r \in Seq(Messages)
      BY <1>3, <1>7
    <2>2. Pipe(w) = (d \o e) \o r
      BY <1>3, <1>5, <1>7
    <2> HIDE DEF d, e, r
    <2>3. (d \o e) \o r = d \o (e \o r) /\ e \o r \in Seq(Messages)
      BY <2>1, Regrouped, ConcatProperties
    <2> QED
      BY <2>2, <2>3 DEF d, e, r
  <1> DEFINE d == Due(s)
             b == Due(t) \o Rest(w)
  <1>10. d \in Seq(Messages) /\ b \in Seq(Messages) /\ Pipe(w) = d \o b /\ Pipe(w)' = d
    BY <1>7, <1>8, <1>9
  <1> HIDE DEF d, b
  <1>11. Len(d) \in 0 .. Len(d \o b) /\ SubSeq(d \o b, 1, Len(d)) = d
    BY <1>10, FrontAndBack
  <1>12. Len(d) \in 0 .. Len(Pipe(w)) /\ Pipe(w)' = SubSeq(Pipe(w), 1, Len(d))
    BY <1>10, <1>11
  <1> QED
    BY <1>1, <1>2, <1>12, StreamsWhen

(* serveConn passes a message on: it stays under way. *)
LEMMA StreamPasses ==
    ASSUME AttachInv, ConnReceive(Watched) \/ Encode(Watched), ~Gone(Watched)
    PROVE  Streams
  <1> DEFINE w == Watched
  <1>1. /\ UNCHANGED <<produced, hubIn, sink, serve, client, stateCh, received>>
        /\ link[w] \in {"select", "encode"} /\ link'[w] \in {"select", "encode"}
    BY WatchedAssumption DEF ConnReceive, Encode, hubVars, sourceVars, serveVars, clientVars,
       AttachInv, ChannelsOK
  <1>2. AttachInv' /\ Ahead(w)' = Ahead(w)
    BY WatchedAssumption, PassingKeeps
  <1>3. /\ ~Gone(w) /\ ~Gone(w)' /\ ~Closed(w) /\ ~Closed(w)' /\ Upstream' = Upstream
        /\ PhaseOf(w)' = PhaseOf(w) /\ Own(w)' = Own(w)
    BY <1>1, <1>2 DEF Gone, Closed, PhaseOf, Upstream, Own, Held
  <1>4. InParts /\ InParts'
    BY <1>2, PipeInParts, PTL
  <1>5. Pipe(w) = Due(Own(w)) \o Upstream /\ Pipe(w)' = Due(Own(w))' \o Upstream'
    BY <1>3, <1>4, WatchedAssumption DEF InParts, Rest
  <1> QED
    BY <1>1, <1>3, <1>5, StreamsWhen

(* A step of the watched process, which goes on: what is under way to it changes at
   its end only. *)
LEMMA PipeOfReader ==
    ASSUME AttachInv, AttachInv', UNCHANGED <<hubVars, serveVars, link>>,
           ~Gone(Watched), ~Gone(Watched)'
    PROVE  /\ produced' = produced /\ PhaseOf(Watched)' = PhaseOf(Watched)
           /\ Rest(Watched) \in Seq(Messages)
           /\ Pipe(Watched) = Due(Own(Watched)) \o Rest(Watched)
           /\ Pipe(Watched)' = Due(Own(Watched)') \o Rest(Watched)
  <1>1. /\ UNCHANGED <<produced, hubIn, sink, serve, link>>
        /\ Upstream' = Upstream
    BY DEF hubVars, sourceVars, serveVars, Upstream
  <1>2. /\ PhaseOf(Watched)' = PhaseOf(Watched) /\ Rest(Watched)' = Rest(Watched)
    BY <1>1 DEF Closed, PhaseOf, Rest
  <1>3. InParts /\ InParts'
    BY PipeInParts, PTL
  <1>4. /\ Rest(Watched) \in Seq(Messages)
        /\ Pipe(Watched) = Due(Own(Watched)) \o Rest(Watched)
    BY <1>3, WatchedAssumption DEF InParts
  <1>5. Pipe(Watched)' = Due(Own(Watched))' \o Rest(Watched)'
    BY <1>3, WatchedAssumption DEF InParts
  <1> QED
    BY <1>1, <1>2, <1>4, <1>5

(* The next message under way to the user is taken. *)
LEMMA StreamDelivers ==
    ASSUME AttachInv, AttachInv', UNCHANGED <<hubVars, serveVars, link>>,
           ~Gone(Watched), ~Gone(Watched)', ~Early(Watched),
           NEW m \in Messages, NEW s \in Seq(Messages),
           Own(Watched) = <<m>> \o s, Own(Watched)' = s
    PROVE  Streams
  <1> DEFINE r == Rest(Watched)
  <1>1. /\ produced' = produced /\ PhaseOf(Watched)' = PhaseOf(Watched)
        /\ r \in Seq(Messages)
        /\ Pipe(Watched) = Due(<<m>> \o s) \o r /\ Pipe(Watched)' = Due(s) \o r
    BY PipeOfReader
  <1>2. PhaseOf(Watched) # "before"
    BY DEF PhaseOf, Early
  <1> HIDE DEF r
  <1>3. IF Promised(m)
        THEN /\ Due(<<m>> \o s) \o r # <<>>
             /\ Due(s) \o r = Tail(Due(<<m>> \o s) \o r)
        ELSE Due(s) \o r = Due(<<m>> \o s) \o r
    BY <1>1, NextTaken
  <1>4. CASE Promised(m)
    BY <1>1, <1>2, <1>3, <1>4, StreamsWhen
  <1>5. CASE ~Promised(m)
    <2>1. Pipe(Watched)' = Pipe(Watched)
      BY <1>1, <1>3, <1>5
    <2> QED
      BY <1>1, <2>1, StreamsWhen
  <1> QED
    BY <1>4, <1>5

(* The user is shown the snapshot, or an event, or a log line. *)
LEMMA StreamShows ==
    ASSUME AttachInv, AttachInv',
           TakeState(Watched) \/ \E k \in Kinds : Watch(Watched, k)
    PROVE  Streams
  <1> DEFINE w == Watched
             a == stateCh[w]
             b == received[w]["event"]
             g == Ahead(w)
  <1>1. /\ a \in Seq(Messages) /\ b \in Seq(Messages) /\ g \in Seq(Messages)
        /\ client[w] \in {"waiting", "watching"} /\ ~Gone(w) /\ ~Early(w)
        /\ w \in DOMAIN client /\ w \in DOMAIN stateCh /\ w \in DOMAIN received
        /\ "event" \in DOMAIN received[w]
    <2>1. client[w] \in {"waiting", "watching"}
      BY DEF TakeState, Watch
    <2>2. ~Gone(w) /\ ~Early(w)
      BY <2>1, WatchedAssumption DEF AttachInv, ClientOK, LinkOK, Gone
    <2>3. /\ w \in DOMAIN client /\ w \in DOMAIN stateCh /\ w \in DOMAIN received
          /\ "event" \in DOMAIN received[w]
          /\ a \in Seq(Messages) /\ b \in Seq(Messages)
      BY WatchedAssumption DEF AttachInv, ChannelsOK, Channels, Kinds
    <2>4. g \in Seq(Messages)
      BY PipeInParts, WatchedAssumption DEF InParts
    <2> QED
      BY <2>1, <2>2, <2>3, <2>4
  <1>2. UNCHANGED <<hubVars, serveVars, link, wire, writing, sub, produced>>
    BY DEF TakeState, Watch, linkVars, hubVars, subVars, sourceVars
  <1>3. g' = g
    BY <1>2 DEF Ahead
  <1>4. Own(w) = (a \o b) \o g /\ (a \o b) \o g = a \o (b \o g) /\ b \o g \in Seq(Messages)
    <2>1. Own(w) = (a \o b) \o g
      BY DEF Own, Held
    <2>2. a \in Seq(Messages) /\ b \in Seq(Messages) /\ g \in Seq(Messages)
      BY <1>1
    <2> HIDE DEF a, b, g
    <2> QED
      BY <2>1, <2>2, Regrouped, ConcatProperties
  <1>5. CASE TakeState(w)
    <2>1. a # <<>> /\ a' = Tail(a) /\ b' = b /\ ~Gone(w)'
      BY <1>1, <1>5 DEF TakeState, Gone
    <2> DEFINE m == Head(a)
               t == Tail(a)
    <2>2. a = <<m>> \o t /\ m \in Messages /\ t \in Seq(Messages)
      BY <1>1, <2>1, HeadAndTail
    <2>3. Own(w)' = (t \o b) \o g
      BY <1>3, <2>1 DEF Own, Held
    <2>4. b \in Seq(Messages) /\ g \in Seq(Messages) /\ <<m>> \in Seq(Messages)
      BY <1>1, <2>2
    <2> HIDE DEF a, b, g, m, t
    <2> DEFINE bg == b \o g
               l == <<m>>
    <2>5. (t \o b) \o g = t \o bg /\ bg \in Seq(Messages)
      BY <2>2, <2>4, Regrouped, ConcatProperties
    <2>6. (l \o t) \o bg = l \o (t \o bg) /\ t \o bg \in Seq(Messages)
      <3>1. l \in Seq(Messages) /\ t \in Seq(Messages) /\ bg \in Seq(Messages)
        BY <2>2, <2>4, <2>5
      <3> HIDE DEF l, bg
      <3> QED
        BY <3>1, Regrouped, ConcatProperties
    <2>7. Own(w) = <<m>> \o (t \o bg) /\ Own(w)' = t \o bg
      BY <1>4, <2>2, <2>3, <2>5, <2>6
    <2> HIDE DEF bg
    <2> QED
      BY <1>1, <1>2, <2>1, <2>2, <2>6, <2>7, StreamDelivers
  <1>6. ASSUME NEW k \in Kinds, Watch(w, k) PROVE Streams
    <2>1. /\ client[w] = "watching" /\ received[w][k] # <<>>
          /\ received' = [received EXCEPT ![w][k] = Tail(@)]
          /\ UNCHANGED <<client, stateCh>>
      BY <1>6 DEF Watch
    <2>2. CASE k = "log"
      <3>1. b' = b
        BY <1>1, <2>1, <2>2
      <3>2. UNCHANGED <<serve, link, client, stateCh>> /\ Upstream' = Upstream
        BY <1>2, <2>1 DEF serveVars, Upstream, hubVars, sourceVars
      <3> QED
        BY <1>2, <3>1, <3>2, StreamUntouched
    <2>3. CASE k = "event"
      <3>1. a = <<>> /\ a' = <<>> /\ b # <<>> /\ b' = Tail(b) /\ ~Gone(w)'
        BY <1>1, <2>1, <2>3, WatchedAssumption DEF AttachInv, ClientOK, ReaderOK, Gone
      <3> DEFINE m == Head(b)
                 t == Tail(b)
                 l == <<m>>
      <3>2. b = l \o t /\ m \in Messages /\ t \in Seq(Messages) /\ l \in Seq(Messages)
        BY <1>1, <3>1, HeadAndTail
      <3>3. Own(w)' = (<<>> \o t) \o g
        BY <1>3, <3>1 DEF Own, Held
      <3>4. g \in Seq(Messages) /\ <<>> \in Seq(Messages)
        BY <1>1, EmptySeq
      <3>5. <<>> \o (b \o g) = b \o g /\ <<>> \o t = t
        BY <1>4, <3>2, ConcatEmptySeq
      <3> HIDE DEF a, b, g, m, t, l
      <3>6. (l \o t) \o g = l \o (t \o g) /\ t \o g \in Seq(Messages)
        BY <3>2, <3>4, Regrouped, ConcatProperties
      <3>7. Own(w) = <<m>> \o (t \o g) /\ Own(w)' = t \o g
        BY <1>4, <3>1, <3>2, <3>3, <3>5, <3>6 DEF l
      <3> QED
        BY <1>1, <1>2, <3>1, <3>2, <3>6, <3>7, StreamDelivers
    <2> QED
      BY <2>2, <2>3 DEF Kinds
  <1> QED
    BY <1>5, <1>6

(* The process of the watched client dials, or ends, or reads its first line. *)
LEMMA StreamDials ==
    ASSUME AttachInv, AttachInv', Dial(Watched)
    PROVE  Streams
  <1> DEFINE w == Watched
  <1>1. /\ UNCHANGED <<hubVars, produced, hubIn, sink, sub, serve, writing, wire, stateCh,
                       received>>
        /\ client[w] = "idle"
        /\ client'[w] = IF listening THEN "connecting" ELSE "failed"
        /\ link'[w] = IF listening THEN "dialled" ELSE link[w]
    BY WatchedAssumption DEF Dial, hubVars, sourceVars, subVars, serveVars, AttachInv, ChannelsOK
  <1>2. CASE ~listening
    <2>1. Gone(w)'
      BY <1>1, <1>2 DEF Gone
    <2> QED
      BY <1>1, <2>1, StreamAtEnd
  <1>3. CASE listening
    <2>1. /\ link[w] = "none" /\ sub[w] = <<>> /\ writing[w] = <<>> /\ wire[w] = <<>>
          /\ stateCh[w] = <<>> /\ received[w]["event"] = <<>>
      BY <1>1, WatchedAssumption DEF AttachInv, ClientOK, LinkOK, Early
    <2>2. /\ ~Gone(w) /\ ~Gone(w)' /\ ~Closed(w) /\ (Closed(w)' <=> serve # "accept")
          /\ Own(w)' = Own(w) /\ Upstream' = Upstream
      BY <1>1, <1>3, <2>1 DEF Gone, Closed, Own, Held, Ahead, Upstream
    <2>3. Own(w) = <<>> /\ Due(Own(w)) = <<>>
      <3>1. Own(w) = (<<>> \o <<>>) \o (<<>> \o (<<>> \o <<>>))
        BY <2>1 DEF Own, Held, Ahead
      <3>2. <<>> \o <<>> = <<>>
        BY EmptySeq, ConcatEmptySeq
      <3> QED
        BY <3>1, <3>2, DueOfOne
    <2>4. InParts /\ InParts'
      BY PipeInParts, PTL
    <2>5. /\ Pipe(w) = Due(Own(w)) \o Rest(w) /\ Pipe(w)' = Due(Own(w))' \o Rest(w)'
          /\ Pipe(w) \in Seq(Messages)
      BY <2>2, <2>4, WatchedAssumption DEF InParts
    <2>6. CASE serve = "accept"
      <3>1. PhaseOf(w)' = PhaseOf(w) /\ Rest(w)' = Rest(w)
        BY <1>1, <1>3, <2>1, <2>2, <2>6 DEF PhaseOf, Rest
      <3>2. Pipe(w)' = Pipe(w)
        BY <2>2, <2>5, <3>1
      <3> QED
        BY <1>1, <3>1, <3>2, StreamsWhen
    <2>7. CASE serve # "accept"
      <3>1. PhaseOf(w)' = "cut" /\ Rest(w)' = <<>>
        BY <2>2, <2>7 DEF PhaseOf, Rest
      <3>2. Pipe(w)' = <<>>
        <4>1. <<>> \o <<>> = <<>>
          BY EmptySeq, ConcatEmptySeq
        <4> QED
          BY <2>2, <2>3, <2>5, <3>1, <4>1
      <3>3. 0 \in 0 .. Len(Pipe(w)) /\ SubSeq(Pipe(w), 1, 0) = <<>>
        <4>1. Len(Pipe(w)) \in Nat
          BY <2>5
        <4> QED
          BY <4>1, SubSeqEmpty
      <3> QED
        BY <1>1, <3>1, <3>2, <3>3, StreamsWhen
    <2> QED
      BY <2>6, <2>7
  <1> QED
    BY <1>2, <1>3

(* Reading the first line takes the configuration from the pipe. *)
LEMMA StreamFirstLine ==
    ASSUME AttachInv, AttachInv', FirstLine(Watched)
    PROVE  Streams
  <1> DEFINE w == Watched
             m == Head(wire[w])
             s == Tail(wire[w]) \o (writing[w] \o sub[w])
  <1>1. UNCHANGED <<hubVars, serveVars, link, writing, sub, produced, stateCh, received>>
    BY DEF FirstLine, hubVars, subVars, sourceVars
  <1>2. CASE Gone(w)'
    BY <1>1, <1>2, StreamAtEnd
  <1>3. CASE ~Gone(w)'
    <2>1. /\ client[w] = "connecting" /\ wire[w] # <<>>
          /\ wire' = [wire EXCEPT ![w] = Tail(@)]
      BY <1>3, WatchedAssumption DEF FirstLine, Gone, AttachInv, ChannelsOK
    <2>2. /\ ~Gone(w) /\ ~Early(w) /\ stateCh[w] = <<>> /\ received[w]["event"] = <<>>
      BY <2>1, WatchedAssumption DEF Gone, AttachInv, ClientOK, LinkOK, ReaderOK
    <2>3. /\ m \in Messages /\ s \in Seq(Messages)
          /\ Ahead(w) = <<m>> \o s /\ Ahead(w) \in Seq(Messages)
      BY <2>1, LineTaken, PipeInParts, WatchedAssumption DEF AttachInv, InParts
    <2>4. Ahead(w)' = s
      BY <1>1, <2>1, WatchedAssumption DEF Ahead, AttachInv, ChannelsOK, Channels
    <2> HIDE DEF m, s
    <2>5. Own(w) = (<<>> \o <<>>) \o Ahead(w) /\ Own(w)' = (<<>> \o <<>>) \o Ahead(w)'
      BY <1>1, <2>2 DEF Own, Held
    <2>6. <<>> \o <<>> = <<>> /\ <<>> \o Ahead(w) = Ahead(w) /\ <<>> \o s = s
      BY <2>3, EmptySeq, ConcatEmptySeq
    <2>7. Own(w) = <<m>> \o s /\ Own(w)' = s
      BY <2>3, <2>4, <2>5, <2>6
    <2> QED
      BY <1>1, <1>3, <2>2, <2>3, <2>7, StreamDelivers
  <1> QED
    BY <1>2, <1>3

(* The nil that stands for a snapshot is not due. *)
LEMMA NilNotDue ==
    ASSUME ChannelsOK, NEW c \in Clients, ReaderOK(c), SendState(c, Msg("nil", 0)),
           NEW s \in Seq(Messages)
    PROVE  Due(stateCh'[c] \o s) = Due(stateCh[c] \o s) /\ stateCh'[c] \in Seq(Messages)
  <1> DEFINE n == Msg("nil", 0)
             l == <<n>>
  <1>1. n \in Messages /\ ~Promised(n)
    BY DEF Msg, Messages, Promised
  <1>2. /\ stateCh' = [stateCh EXCEPT ![c] = IF stateSent[c] THEN stateCh[c] ELSE l]
        /\ stateSent[c] = FALSE => stateCh[c] = <<>>
        /\ stateCh' \in Channels
    BY <1>1, StateSent
  <1>3. l \in Seq(Messages) /\ Due(l) = <<>>
    BY <1>1, DueOfOne
  <1>4. stateCh \in Channels /\ stateSent[c] \in BOOLEAN
    BY DEF ChannelsOK
  <1> HIDE DEF n, l
  <1>5. stateCh'[c] \in Seq(Messages) /\ stateCh[c] \in Seq(Messages)
    BY <1>2, <1>4 DEF Channels
  <1>6. CASE stateSent[c] = TRUE
    BY <1>2, <1>4, <1>5, <1>6 DEF Channels
  <1>7. CASE stateSent[c] = FALSE
    <2>1. stateCh[c] = <<>> /\ stateCh'[c] = l
      BY <1>2, <1>4, <1>7 DEF Channels
    <2>2. Due(l \o s) = Due(l) \o Due(s) /\ Due(s) \in Seq(Messages)
      BY <1>3, DueOfBoth
    <2>3. <<>> \o Due(s) = Due(s) /\ <<>> \o s = s
      BY <2>2, ConcatEmptySeq
    <2> QED
      BY <1>3, <1>5, <2>1, <2>2, <2>3
  <1> QED
    BY <1>4, <1>6, <1>7

(* The reader reaches the end of its lines. *)
LEMMA StreamReadsEnd ==
    ASSUME AttachInv, AttachInv', ReadEnd(Watched)
    PROVE  Streams
  <1> DEFINE w == Watched
             b == received[w]["event"]
             g == Ahead(w)
  <1>1. /\ UNCHANGED <<hubVars, serveVars, link, writing, wire, sub, client, received>>
        /\ ~Gone(w) /\ ~Gone(w)' /\ SendState(w, Msg("nil", 0))
    BY DEF ReadEnd, linkVars, hubVars, subVars, Gone
  <1>2. /\ b \in Seq(Messages) /\ g \in Seq(Messages) /\ stateCh[w] \in Seq(Messages)
        /\ ChannelsOK /\ ReaderOK(w)
    BY PipeInParts, WatchedAssumption, ZenonT(30)
    DEF InParts, AttachInv, ChannelsOK, Channels, ClientOK, Kinds
  <1>3. b \o g \in Seq(Messages)
    BY <1>2, ConcatProperties
  <1>4. /\ Due(stateCh'[w] \o (b \o g)) = Due(stateCh[w] \o (b \o g))
        /\ stateCh'[w] \in Seq(Messages)
    BY <1>1, <1>2, <1>3, WatchedAssumption, NilNotDue
  <1>5. Own(w) = (stateCh[w] \o b) \o g /\ Own(w)' = (stateCh'[w] \o b) \o g
    BY <1>1 DEF Own, Held, Ahead
  <1> HIDE DEF b, g
  <1>6. Own(w) = stateCh[w] \o (b \o g) /\ Own(w)' = stateCh'[w] \o (b \o g)
    BY <1>2, <1>4, <1>5, Regrouped
  <1>7. Pipe(w)' = Pipe(w) /\ PhaseOf(w)' = PhaseOf(w) /\ produced' = produced
    BY <1>1, <1>4, <1>6, PipeOfReader
  <1> QED
    BY <1>7, StreamsWhen

(* The reader reads a line. *)
LEMMA StreamReads ==
    ASSUME AttachInv, AttachInv', ReadLine(Watched)
    PROVE  Streams
  <1> DEFINE w == Watched
             a == stateCh[w]
             b == received[w]["event"]
             m == Head(wire[w])
             s == Tail(wire[w]) \o (writing[w] \o sub[w])
             aa == stateCh'[w]
             bb == received'[w]["event"]
             h == a \o b
  <1>1. /\ UNCHANGED <<hubVars, serveVars, link, writing, sub, client>>
        /\ reader[w] = "reading" /\ ~Gone(w) /\ ~Gone(w)' /\ wire[w] # <<>>
        /\ wire' = [wire EXCEPT ![w] = Tail(@)]
    BY DEF ReadLine, hubVars, subVars, Gone
  <1>2. /\ SourcesOK /\ ChannelsOK /\ ReaderOK(w) /\ LinesOK(w)
        /\ client[w] \in {"waiting", "watching"}
    BY <1>1, WatchedAssumption DEF AttachInv, ClientOK, ReaderOK
  <1>3. /\ m \in Messages /\ s \in Seq(Messages) /\ Ahead(w) = <<m>> \o s
        /\ <<m>> \o s \in Seq(Messages)
    BY <1>1, <1>2, LineTaken, PipeInParts, WatchedAssumption DEF InParts
  <1>4. Ahead(w)' = s
    BY <1>1, <1>2, WatchedAssumption DEF Ahead, ChannelsOK, Channels
  <1>5. /\ m.type # "config"
        /\ stateSent[w] = TRUE => m.type # "state"
    BY <1>1, <1>2, WatchedAssumption, LinesAfter
  <1>6. /\ a \in Seq(Messages) /\ b \in Seq(Messages)
        /\ stateSent[w] \in BOOLEAN
        /\ stateSent[w] = FALSE => a = <<>> /\ b = <<>>
    BY <1>2, WatchedAssumption DEF ChannelsOK, Channels, Kinds, ReaderOK
  <1>7. aa \in Seq(Messages) /\ bb \in Seq(Messages)
    BY WatchedAssumption DEF AttachInv, ChannelsOK, Channels, Kinds
  <1>8. Own(w) = (a \o b) \o (<<m>> \o s) /\ Own(w)' = (aa \o bb) \o s
    BY <1>3, <1>4 DEF Own, Held
  <1>9. (m.type \in Kinds \/ m.type = "nil") /\ aa # a => SendState(w, Msg("nil", 0))
    BY DEF ReadLine, Kinds
  <1>10. \A t \in Seq(Messages) : m.type # "state" => Due(aa \o t) = Due(a \o t)
    <2> SUFFICES ASSUME NEW t \in Seq(Messages), m.type # "state" PROVE Due(aa \o t) = Due(a \o t)
      OBVIOUS
    <2>1. m.type \in Kinds \/ m.type = "nil"
      BY <1>3, <1>5 DEF Messages, Kinds
    <2>2. CASE aa = a
      BY <2>2
    <2>3. CASE aa # a
      BY <1>2, <1>9, <2>1, <2>3, WatchedAssumption, NilNotDue
    <2> QED
      BY <2>2, <2>3
  <1>11. /\ m.type = "event" => bb = b \/ bb = Append(b, m)
         /\ m.type # "event" => bb = b
    <2>1. w \in DOMAIN received /\ "event" \in DOMAIN received[w]
      BY <1>2, WatchedAssumption DEF ChannelsOK, Kinds
    <2>2. /\ m.type \in Kinds =>
                received' = [received EXCEPT ![w][m.type] = Sent(received[w][m.type], m, ClientCap)]
          /\ m.type \notin Kinds => received' = received
      BY DEF ReadLine, Kinds
    <2> HIDE DEF m
    <2>3. CASE m.type = "event"
      BY <2>1, <2>2, <2>3 DEF Kinds, Sent
    <2>4. CASE m.type = "log"
      BY <2>1, <2>2, <2>4 DEF Kinds
    <2>5. CASE m.type \notin Kinds
      BY <2>2, <2>5 DEF Kinds
    <2> QED
      BY <2>3, <2>4, <2>5 DEF Kinds
  <1>12. m.type = "state" => aa = <<m>> /\ a = <<>> /\ b = <<>> /\ stateSent[w] = FALSE
    <2> SUFFICES ASSUME m.type = "state"
                 PROVE  aa = <<m>> /\ a = <<>> /\ b = <<>> /\ stateSent[w] = FALSE
      OBVIOUS
    <2>1. SendState(w, m)
      BY DEF ReadLine, Kinds
    <2>2. stateSent[w] = FALSE /\ a = <<>> /\ b = <<>>
      BY <1>5, <1>6
    <2>3. stateCh' = [stateCh EXCEPT ![w] = IF stateSent[w] THEN stateCh[w] ELSE <<m>>]
      BY <1>2, <1>3, <2>1, WatchedAssumption, StateSent
    <2>4. w \in DOMAIN stateCh
      BY <1>2, WatchedAssumption DEF ChannelsOK, Channels
    <2> HIDE DEF m
    <2> QED
      BY <2>2, <2>3, <2>4
  <1>13. <<m>> \in Seq(Messages) /\ h \in Seq(Messages)
    BY <1>3, <1>6, ConcatProperties
  <1>14. produced' = produced /\ PhaseOf(w)' = PhaseOf(w) /\ Rest(w) \in Seq(Messages)
         /\ Pipe(w) = Due(Own(w)) \o Rest(w) /\ Pipe(w)' = Due(Own(w)') \o Rest(w)
    BY <1>1, PipeOfReader
  <1> HIDE DEF a, b, m, s, aa, bb
  <1>15. CASE m.type = "state"
    <2> DEFINE l == <<m>>
    <2>1. Own(w) = (<<>> \o <<>>) \o (l \o s) /\ Own(w)' = (l \o <<>>) \o s
      BY <1>8, <1>11, <1>12, <1>15
    <2>2. l \in Seq(Messages)
      BY <1>13
    <2> HIDE DEF l
    <2>3. <<>> \o <<>> = <<>> /\ l \o <<>> = l /\ <<>> \o (l \o s) = l \o s
      BY <1>3, <2>2, EmptySeq, ConcatEmptySeq, ConcatProperties
    <2>4. Own(w)' = Own(w)
      BY <2>1, <2>3
    <2> QED
      BY <1>14, <2>4, StreamsWhen
  <1>16. CASE m.type = "event" /\ bb = Append(b, m)
    <2> DEFINE l == <<m>>
    <2>1. bb = b \o l
      BY <1>3, <1>6, <1>16, AppendIsConcat
    <2>2. l \in Seq(Messages)
      BY <1>13
    <2> HIDE DEF l
    <2>3. b \o l \in Seq(Messages) /\ l \o s \in Seq(Messages) /\ b \o (l \o s) \in Seq(Messages)
      BY <1>3, <1>6, <2>2, ConcatProperties
    <2>4. (aa \o bb) \o s = aa \o (bb \o s)
      BY <1>3, <1>7, Regrouped
    <2>5. bb \o s = b \o (l \o s)
      BY <1>3, <1>6, <2>1, <2>2, Regrouped, SMTT(30)
    <2>6. (a \o b) \o (l \o s) = a \o (b \o (l \o s))
      BY <1>6, <2>3, Regrouped
    <2>7. Due(aa \o (b \o (l \o s))) = Due(a \o (b \o (l \o s)))
      BY <1>10, <1>16, <2>3
    <2>8. Due(Own(w)') = Due(Own(w))
      BY <1>8, <2>4, <2>5, <2>6, <2>7 DEF l
    <2> QED
      BY <1>14, <2>8, StreamsWhen
  <1>17. CASE m.type # "state" /\ bb = b
    <2>1. /\ (aa \o b) \o s = aa \o (b \o s) /\ (a \o b) \o s = a \o (b \o s)
          /\ b \o s \in Seq(Messages)
      <3>1. /\ aa \in Seq(Messages) /\ a \in Seq(Messages)
            /\ b \in Seq(Messages) /\ s \in Seq(Messages)
        BY <1>3, <1>6, <1>7
      <3>2. b \o s \in Seq(Messages)
        BY <3>1, ConcatProperties
      <3>3. \A t \in Seq(Messages) : (t \o b) \o s = t \o (b \o s)
        BY <3>1, Regrouped, SMTT(30)
      <3> QED
        BY <3>1, <3>2, <3>3, Zenon
    <2>2. Due(Own(w)') = Due(h \o s)
      BY <1>8, <1>10, <1>17, <2>1
    <2>3. Own(w) = h \o (<<m>> \o s)
      BY <1>8
    <2> DEFINE r == Rest(w)
               p == Due(h \o (<<m>> \o s)) \o r
               q == Due(h \o s) \o r
    <2>4. IF Promised(m) THEN \E i \in DOMAIN p : p[i] = m /\ q = RemoveAt(p, i) ELSE q = p
      <3>1. h \in Seq(Messages) /\ r \in Seq(Messages)
        BY <1>13, <1>14
      <3> HIDE DEF h, r
      <3> QED
        BY <1>3, <3>1, MiddleDropped, ZenonT(30)
    <2>5. Pipe(w) = p /\ Pipe(w)' = q
      BY <1>14, <2>2, <2>3
    <2>6. Promised(m) => m.type = "event"
      BY <1>5, <1>17 DEF Promised
    <2> HIDE DEF p, q
    <2>7. CASE Promised(m)
      BY <1>14, <2>4, <2>5, <2>6, <2>7, StreamsWhen
    <2>8. CASE ~Promised(m)
      BY <1>14, <2>4, <2>5, <2>8, StreamsWhen
    <2> QED
      BY <2>7, <2>8
  <1> QED
    BY <1>11, <1>15, <1>16, <1>17

-----------------------------------------------------------------------------

(* A step of another client's process, or of serveConn for it. *)
LEMMA StreamOfOthers ==
    ASSUME AttachInv, NEW c \in Clients, c # Watched,
           ConnStep(c) \/ ClientStep(c) \/ Dial(c) \/ Quit(c)
    PROVE  Streams
  <1>1. ChannelsOK /\ Watched \in Clients
    BY WatchedAssumption DEF AttachInv
  <1>2. UNCHANGED <<produced, hubIn, sink, serve>>
    BY DEF ConnStep, ConnSubscribe, ConnDone, ConnClose, ConnReceive, Encode,
           ClientStep, FirstLine, ReadLine, ReadEnd, TakeState, Watch, Disconnected, Leave,
           Dial, Quit, hubVars, sourceVars, serveVars
  <1>3. /\ sub'[Watched] = sub[Watched] /\ link'[Watched] = link[Watched]
        /\ writing'[Watched] = writing[Watched] /\ wire'[Watched] = wire[Watched]
        /\ client'[Watched] = client[Watched] /\ stateCh'[Watched] = stateCh[Watched]
        /\ received'[Watched]["event"] = received[Watched]["event"]
    <2>1. CASE ConnStep(c)
      BY <1>1, <2>1 DEF ConnStep, ConnSubscribe, ConnDone, ConnClose, ConnReceive, Encode,
         Subscribe, Unsubscribe, hubVars, subVars, clientVars, ChannelsOK, Channels
    <2>2. CASE Dial(c) \/ FirstLine(c) \/ TakeState(c) \/ \E k \in Kinds : Watch(c, k)
      BY <1>1, <2>2 DEF Dial, FirstLine, TakeState, Watch, hubVars, subVars, linkVars,
         ChannelsOK, Channels
    <2>3. CASE ReadLine(c) \/ ReadEnd(c)
      BY <1>1, <2>3 DEF ReadLine, ReadEnd, SendState, hubVars, subVars, linkVars,
         ChannelsOK, Channels
    <2>4. CASE Leave(c)
      BY <1>1, <2>4 DEF Leave, hubVars, subVars, ChannelsOK, Channels
    <2> QED
      BY <2>1, <2>2, <2>3, <2>4 DEF ClientStep, Disconnected, Quit
  <1> QED
    BY <1>2, <1>3, StreamUntouched DEF Upstream

(* Whatever happens is a step of the watched client's stream, or none. *)
LEMMA StreamStep ==
    ASSUME AttachInv, AttachInv', [Next]_vars
    PROVE  Streams
  <1> DEFINE w == Watched
  <1>1. CASE UNCHANGED vars
    <2>1. UNCHANGED <<produced, hubIn, sink, sub, serve, link, writing, wire, client, stateCh,
                      received>>
      BY <1>1 DEF vars, hubVars, sourceVars, subVars, serveVars, linkVars, clientVars
    <2> QED
      BY <2>1, StreamUntouched DEF Upstream
  <1>2. CASE HubStep /\ UNCHANGED <<serveVars, linkVars, clientVars>>
    <2>1. UNCHANGED <<link, writing, wire, client, stateCh, received, serve>>
      BY <1>2 DEF serveVars, linkVars, clientVars
    <2>2. CASE Gone(w)
      <3>1. Gone(w)'
        BY <2>1, <2>2 DEF Gone
      <3>2. produced'["event"] \in {produced["event"], produced["event"] + 1}
        BY <1>2 DEF HubStep, Fan, Run, Produce, FanForward, Broadcast, RunEnd, CancelContext,
           sourceVars, AttachInv, SourcesOK, Kinds
      <3> QED
        BY <2>2, <3>1, <3>2, StreamAfterEnd
    <2>3. CASE ~Gone(w)
      <3>1. CASE RunEnd \/ CancelContext
        BY <2>1, <3>1, StreamUntouched DEF RunEnd, CancelContext, sourceVars, subVars, Upstream
      <3>2. CASE Produce("log") \/ FanForward("log")
        <4>1. /\ produced'["event"] = produced["event"] /\ Upstream' = Upstream /\ sub' = sub
          BY <3>2 DEF Produce, FanForward, subVars, Upstream, AttachInv, SourcesOK, Kinds
        <4> QED
          BY <2>1, <4>1, StreamUntouched
      <3>3. CASE Produce("event") \/ FanForward("event") \/ \E k \in Kinds : Broadcast(k)
        BY <1>2, <2>3, <3>3, StreamEmits, StreamFans, StreamBroadcasts
      <3> QED
        BY <1>2, <3>1, <3>2, <3>3 DEF HubStep, Fan, Run, Kinds
    <2> QED
      BY <2>2, <2>3
  <1>3. CASE CloseListener \/ AcceptFails \/ ServeReturn \/ \E c \in Clients : Accept(c)
    <2>1. UNCHANGED <<produced, client>>
      BY <1>3 DEF CloseListener, AcceptFails, ServeReturn, Accept, hubVars, sourceVars, clientVars
    <2>2. CASE Gone(w)
      BY <2>1, <2>2, StreamAfterEnd DEF Gone
    <2> QED
      BY <1>3, <2>2, StreamServes
  <1>4. CASE ConnStep(w)
    <2>1. CASE Gone(w)
      <3>1. UNCHANGED <<produced, client>>
        BY <1>4 DEF ConnStep, ConnSubscribe, ConnDone, ConnClose, ConnReceive, Encode,
           hubVars, sourceVars, clientVars
      <3> QED
        BY <2>1, <3>1, StreamAfterEnd DEF Gone
    <2>2. CASE ~Gone(w)
      BY <1>4, <2>2, StreamStarts, StreamCloses, StreamPasses DEF ConnStep
    <2> QED
      BY <2>1, <2>2
  <1>5. CASE ClientStep(w) \/ Dial(w) \/ Quit(w)
    <2>1. ASSUME Leave(w) PROVE Streams
      <3>1. Gone(w)' /\ UNCHANGED produced
        BY <2>1, WatchedAssumption DEF Leave, Gone, hubVars, sourceVars, AttachInv, ChannelsOK
      <3> QED
        BY <3>1, StreamAtEnd
    <2> QED
      BY <1>5, <2>1, StreamDials, StreamFirstLine, StreamReads, StreamReadsEnd, StreamShows
         DEF ClientStep, Disconnected, Quit
  <1>6. ASSUME NEW c \in Clients, c # w, ConnStep(c) \/ ClientStep(c) \/ Dial(c) \/ Quit(c)
        PROVE  Streams
    BY <1>6, StreamOfOthers
  <1> QED
    BY <1>1, <1>2, <1>3, <1>4, <1>5, <1>6, WatchedAssumption DEF Next

(* Attach implements EventStream: whatever the buffers, the other clients, the
   fan-out and the moment of its subscription (Hub.Subscribe, serveConn and
   ConnectAddr), a client sees configuration, snapshot and events in order. *)
THEOREM AttachStreams == Spec => StreamKept
  <1>1. ASSUME Init PROVE Stream!StreamInit
    <2> DEFINE w == Watched
    <2>1. /\ produced["event"] = 0 /\ Upstream = <<>> \o <<>>
          /\ ~Gone(w) /\ ~Closed(w) /\ PhaseOf(w) = "before"
          /\ Own(w) = (<<>> \o <<>>) \o (<<>> \o (<<>> \o <<>>))
      BY <1>1, WatchedAssumption
         DEF Init, HubInit, Upstream, Gone, Closed, PhaseOf, Own, Held, Ahead, Kinds
    <2>2. <<>> \o <<>> = <<>>
      BY EmptySeq, ConcatEmptySeq
    <2>3. Pipe(w) = Due(Own(w)) \o Upstream
      BY <1>1, <2>1, AttachInit, PipeInParts, WatchedAssumption DEF InParts, Rest
    <2>4. Pipe(w) = <<>>
      BY <2>1, <2>2, <2>3, DueOfOne
    <2> QED
      BY <2>1, <2>4 DEF Stream!StreamInit
  <1>2. ASSUME AttachInv, AttachInv', [Next]_vars
        PROVE  [Stream!StreamNext]_(Stream!streamVars)
    BY <1>2, StreamStep DEF Streams
  <1> QED
    BY <1>1, <1>2, AttachInit, AttachStep, PTL DEF Spec, StreamKept, Stream!StreamSpec

(***************************************************************************)
(* Part II: the mirror.                                                    *)
(***************************************************************************)

Paths == Range(Order)

-----------------------------------------------------------------------------
(* The order of the paths, and the snapshot sorted by it. *)

(* There are finitely many paths, each a sequence of segments. *)
LEMMA PathsFinite ==
    IsFiniteSet(Paths) /\ \A p \in Paths : p \in Seq(STRING)
  <1>1. /\ Len(Order) \in Nat /\ Order \in [1 .. Len(Order) -> Seq(STRING)]
        /\ DOMAIN Order = 1 .. Len(Order)
    BY OrderAssumption, LenProperties
  <1>2. IsFiniteSet(1 .. Len(Order))
    BY <1>1, FS_Interval
  <1>3. Order \in Surjection(1 .. Len(Order), Paths)
    BY <1>1 DEF Surjection, Paths, Range
  <1>4. IsFiniteSet(Paths)
    BY <1>2, <1>3, FS_Surjection
  <1> QED
    BY <1>1, <1>4 DEF Paths, Range

(* Before is a strict total order. *)
LEMMA BeforeOrders ==
    /\ \A p \in Paths : ~Before(p, p)
    /\ \A p, q \in Paths : p # q => Before(p, q) \/ Before(q, p)
    /\ \A p, q, r \in Paths : Before(p, q) /\ Before(q, r) => Before(p, r)
  <1>1. DOMAIN Order = 1 .. Len(Order) /\ Len(Order) \in Nat
    BY OrderAssumption
  <1>2. \A i, j \in DOMAIN Order : Order[i] = Order[j] => i = j
    BY OrderAssumption DEF IsInjective
  <1>3. \A p \in Paths : ~Before(p, p)
    BY <1>1, <1>2 DEF Before, Paths, Range
  <1>4. \A p, q \in Paths : p # q => Before(p, q) \/ Before(q, p)
    <2> SUFFICES ASSUME NEW i \in DOMAIN Order, NEW j \in DOMAIN Order, Order[i] # Order[j]
                 PROVE  Before(Order[i], Order[j]) \/ Before(Order[j], Order[i])
      BY DEF Paths, Range
    <2>1. i < j \/ j < i
      BY <1>1
    <2> QED
      BY <2>1 DEF Before
  <1>5. ASSUME NEW p \in Paths, NEW q \in Paths, NEW r \in Paths, Before(p, q), Before(q, r)
        PROVE  Before(p, r)
    <2>1. PICK i, j \in DOMAIN Order : i < j /\ Order[i] = p /\ Order[j] = q
      BY <1>5 DEF Before
    <2>2. PICK k, l \in DOMAIN Order : k < l /\ Order[k] = q /\ Order[l] = r
      BY <1>5 DEF Before
    <2>3. j = k
      BY <1>2, <2>1, <2>2
    <2>4. i < l
      BY <1>1, <2>1, <2>2, <2>3
    <2> QED
      BY <2>1, <2>2, <2>4 DEF Before
  <1> QED
    BY <1>3, <1>4, <1>5

(* How many paths of known come before p. *)
Rank(p, known) == Cardinality({q \in known : Before(q, p)})

(* Two paths have different ranks, all below the number of paths. *)
LEMMA RanksDiffer ==
    ASSUME NEW known \in SUBSET Paths
    PROVE  /\ IsFiniteSet(known) /\ Cardinality(known) \in Nat
           /\ \A p \in known : Rank(p, known) \in 0 .. Cardinality(known) - 1
           /\ \A p, q \in known : Rank(p, known) = Rank(q, known) => p = q
  <1> DEFINE lower(p) == {q \in known : Before(q, p)}
  <1>1. IsFiniteSet(known) /\ Cardinality(known) \in Nat
    BY PathsFinite, FS_Subset, FS_CardinalityType
  <1>2. ASSUME NEW p
        PROVE  IsFiniteSet(lower(p)) /\ Cardinality(lower(p)) \in Nat
    BY <1>1, FS_Subset, FS_CardinalityType
  <1>3. ASSUME NEW p \in known
        PROVE  Cardinality(lower(p)) < Cardinality(known)
    <2>1. lower(p) \in SUBSET known /\ p \notin lower(p)
      BY BeforeOrders
    <2>2. Cardinality(lower(p)) <= Cardinality(known) /\ Cardinality(lower(p)) # Cardinality(known)
      BY <1>1, <2>1, FS_Subset
    <2> HIDE DEF lower
    <2> QED
      BY <1>1, <1>2, <2>2
  <1>4. ASSUME NEW p \in known, NEW q \in known, Before(p, q)
        PROVE  Cardinality(lower(p)) < Cardinality(lower(q))
    <2>1. \A r \in lower(p) : r \in lower(q)
      <3> SUFFICES ASSUME NEW r \in known, Before(r, p) PROVE Before(r, q)
        OBVIOUS
      <3> QED
        BY <1>4, BeforeOrders
    <2>2. p \in lower(q) /\ p \notin lower(p)
      BY <1>4, BeforeOrders
    <2> HIDE DEF lower
    <2>3. lower(p) \in SUBSET lower(q) /\ lower(p) # lower(q)
      BY <2>1, <2>2
    <2>4. Cardinality(lower(p)) <= Cardinality(lower(q))
          /\ Cardinality(lower(p)) # Cardinality(lower(q))
      BY <1>2, <2>3, FS_Subset
    <2> QED
      BY <1>2, <2>4
  <1>5. ASSUME NEW p \in known, NEW q \in known, Rank(p, known) = Rank(q, known)
        PROVE  p = q
    <2>1. Cardinality(lower(p)) = Cardinality(lower(q)) /\ Cardinality(lower(p)) \in Nat
      BY <1>2, <1>5 DEF Rank
    <2> HIDE DEF lower
    <2>2. ~Before(p, q) /\ ~Before(q, p)
      BY <1>4, <2>1
    <2> QED
      BY <2>2, BeforeOrders
  <1>6. \A p \in known : Rank(p, known) \in 0 .. Cardinality(known) - 1
    <2> SUFFICES ASSUME NEW p \in known PROVE Rank(p, known) \in 0 .. Cardinality(known) - 1
      OBVIOUS
    <2>1. Rank(p, known) = Cardinality(lower(p))
      BY DEF Rank
    <2> HIDE DEF lower
    <2> QED
      BY <1>1, <1>2, <1>3, <2>1
  <1> QED
    BY <1>1, <1>5, <1>6

(* The snapshot lists every known path once. *)
LEMMA SnapshotListsAll ==
    ASSUME NEW known \in SUBSET Paths
    PROVE  /\ DOMAIN Snapshot(known) = 1 .. Cardinality(known) /\ Cardinality(known) \in Nat
           /\ \A n \in DOMAIN Snapshot(known) : Snapshot(known)[n] \in known
           /\ \A p \in known : \E n \in DOMAIN Snapshot(known) : Snapshot(known)[n] = p
           /\ \A m, n \in DOMAIN Snapshot(known) :
                 Snapshot(known)[m] = Snapshot(known)[n] => m = n
  <1> DEFINE N == Cardinality(known)
             place == [p \in known |-> Rank(p, known) + 1]
             s == Snapshot(known)
  <1>1. /\ IsFiniteSet(known) /\ N \in Nat
        /\ \A p \in known : Rank(p, known) \in 0 .. N - 1
        /\ \A p, q \in known : Rank(p, known) = Rank(q, known) => p = q
    BY RanksDiffer
  <1>2. place \in Injection(known, 1 .. N)
    <2>1. \A p \in known : Rank(p, known) + 1 \in 1 .. N
      BY <1>1
    <2>2. \A p, q \in known : Rank(p, known) + 1 = Rank(q, known) + 1 => p = q
      BY <1>1
    <2> QED
      BY <2>1, <2>2 DEF Injection, IsInjective
  <1>3. IsFiniteSet(1 .. N) /\ Cardinality(1 .. N) = N
    BY <1>1, FS_Interval
  <1>4. place \in Surjection(known, 1 .. N)
    <2> HIDE DEF place
    <2> QED
      BY <1>2, <1>3, FS_Injection
  <1>5. ASSUME NEW n \in 1 .. N PROVE \E p \in known : Rank(p, known) = n - 1
    <2>1. PICK p \in known : place[p] = n
      BY <1>4 DEF Surjection
    <2> QED
      BY <1>1, <2>1
  <1>6. DOMAIN s = 1 .. N
        /\ \A n \in 1 .. N : s[n] = CHOOSE p \in known : Rank(p, known) = n - 1
    BY DEF Snapshot, Rank
  <1> HIDE DEF s, N, place
  <1>7. \A n \in 1 .. N : s[n] \in known /\ Rank(s[n], known) = n - 1
    BY <1>5, <1>6
  <1>8. \A m, n \in 1 .. N : s[m] = s[n] => m = n
    BY <1>1, <1>7
  <1>9. ASSUME NEW p \in known PROVE \E n \in 1 .. N : s[n] = p
    <2> DEFINE n == Rank(p, known) + 1
    <2>1. n \in 1 .. N /\ n - 1 = Rank(p, known)
      BY <1>1
    <2>2. Rank(s[n], known) = Rank(p, known)
      BY <1>7, <2>1
    <2> QED
      BY <1>1, <1>7, <2>1, <2>2
  <1> QED
    BY <1>1, <1>6, <1>7, <1>8, <1>9 DEF s, N

-----------------------------------------------------------------------------
(* Rows. *)

Rows == [path : Paths, origin : Configured, dots : Nat, served : Nat, rejected : Nat]

(* The configured path whose settings the server gives p. *)
Origin(p) == IF p \in Configured THEN p ELSE NearestIn(p, Configured)

(* One row per path, each with the settings of the server. *)
Faithful(rs) ==
    /\ rs \in Seq(Rows)
    /\ \A i, j \in DOMAIN rs : rs[i].path = rs[j].path => i = j
    /\ \A i \in DOMAIN rs : rs[i].origin = Origin(rs[i].path)

(* Every row of rs whose path is not p is a row of rt, too. *)
KeepsOthers(rs, rt, p) ==
    \A i \in DOMAIN rs : rs[i].path # p => \E j \in DOMAIN rt : rt[j] = rs[i]

(* The dots shown for p. *)
DotsIn(rs, p) == IF p \in KnownPaths(rs) THEN rs[IndexForPath(rs, p)].dots ELSE 0

(* The configured paths are paths, and the root is one of them. *)
LEMMA ConfiguredPaths ==
    /\ Configured \subseteq Paths /\ Root \in Configured
    /\ ConfigRows \in Seq(Configured) /\ DOMAIN ConfigRows = 1 .. Len(ConfigRows)
    /\ Len(ConfigRows) \in Nat
  <1>1. ConfigRows \in Seq(Paths) /\ Root \in Configured
    BY RowsAssumption DEF Paths, Configured
  <1>2. /\ Len(ConfigRows) \in Nat /\ ConfigRows \in [1 .. Len(ConfigRows) -> Paths]
        /\ DOMAIN ConfigRows = 1 .. Len(ConfigRows)
    BY <1>1, LenProperties
  <1>3. ConfigRows \in [1 .. Len(ConfigRows) -> Configured]
    BY <1>2 DEF Configured, Range
  <1>4. ConfigRows \in Seq(Configured)
    BY <1>2, <1>3, SeqDef
  <1> QED
    BY <1>1, <1>2, <1>3, <1>4 DEF Configured, Range

(* Every path but the root has an ancestor among any paths that hold the root. *)
LEMMA RootIsAncestor ==
    ASSUME NEW p \in Paths, p # Root, NEW R, Root \in R
    PROVE  AncestorsIn(p, R) # {}
  <1>1. p \in Seq(STRING)
    BY PathsFinite
  <1>2. Len(p) \in Nat /\ Len(p) # 0
    BY <1>1, EmptySeq, LenProperties DEF Root
  <1>3. SubSeq(p, 1, 0) = <<>>
    BY SubSeqEmpty
  <1>4. 0 \in 0 .. Len(p) - 1
    BY <1>2
  <1>5. 0 \in AncestorsIn(p, R)
    BY <1>3, <1>4, Zenon DEF AncestorsIn, Root
  <1> QED
    BY <1>5

(* Every path has an origin. *)
LEMMA OriginConfigured ==
    ASSUME NEW p \in Paths
    PROVE  Origin(p) \in Configured
  <1>1. CASE p \in Configured
    BY <1>1 DEF Origin
  <1>2. CASE p \notin Configured
    <2>1. AncestorsIn(p, Configured) # {} /\ p \in Seq(STRING)
      BY <1>2, ConfiguredPaths, RootIsAncestor, PathsFinite
    <2>2. NearestIn(p, Configured) \in Configured
      BY <2>1, NearestIsLongest
    <2> QED
      BY <1>2, <2>2 DEF Origin
  <1> QED
    BY <1>1, <1>2

(* The origin of the nearest ancestor known is the origin, whatever dynamic paths
   are known besides. *)
LEMMA OriginOfParent ==
    ASSUME NEW p \in Paths, NEW R \in SUBSET Paths, Configured \subseteq R, p \notin R
    PROVE  /\ AncestorsIn(p, R) # {} /\ NearestIn(p, R) \in R
           /\ Origin(NearestIn(p, R)) = Origin(p)
  <1>1. p # Root /\ Root \in R /\ p \notin Configured /\ p \in Seq(STRING)
    BY ConfiguredPaths, PathsFinite
  <1>2. AncestorsIn(p, R) # {}
    BY <1>1, RootIsAncestor
  <1> DEFINE parent == NearestIn(p, R)
  <1>3. /\ parent \in R
        /\ parent \in Configured => NearestIn(p, Configured) = parent
        /\ (parent \notin Configured /\ AncestorsIn(parent, Configured) # {}) =>
              NearestIn(p, Configured) = NearestIn(parent, Configured)
    BY <1>1, <1>2, NearestThroughChain
  <1> HIDE DEF parent
  <1>4. parent \notin Configured => AncestorsIn(parent, Configured) # {}
    BY <1>3, ConfiguredPaths, RootIsAncestor
  <1> QED
    BY <1>1, <1>2, <1>3, <1>4 DEF Origin, parent

(* indexForPath finds the row of a path. *)
LEMMA IndexOfRow ==
    ASSUME NEW rs, Faithful(rs), NEW i \in DOMAIN rs
    PROVE  rs[i].path \in KnownPaths(rs) /\ IndexForPath(rs, rs[i].path) = i
  <1>1. {j \in DOMAIN rs : rs[j].path = rs[i].path} = {i}
    BY DEF Faithful
  <1>2. i \in Int
    BY DEF Faithful
  <1>3. Min({i}) = i
    BY <1>2 DEF Min
  <1>4. rs[i].path \in KnownPaths(rs)
    BY DEF KnownPaths
  <1> QED
    BY <1>1, <1>3, <1>4 DEF IndexForPath

(* The index of a known path is a row of that path. *)
LEMMA RowOfPath ==
    ASSUME NEW rs, Faithful(rs), NEW p \in KnownPaths(rs)
    PROVE  IndexForPath(rs, p) \in DOMAIN rs /\ rs[IndexForPath(rs, p)].path = p
  <1>1. PICK i \in DOMAIN rs : rs[i].path = p
    BY DEF KnownPaths
  <1> QED
    BY <1>1, IndexOfRow

(* The dots of a path are those of its row, and none without a row. *)
LEMMA DotsOfRow ==
    ASSUME NEW rs, Faithful(rs)
    PROVE  /\ \A i \in DOMAIN rs : DotsIn(rs, rs[i].path) = rs[i].dots
           /\ \A p : p \notin KnownPaths(rs) => DotsIn(rs, p) = 0
           /\ \A p : DotsIn(rs, p) \in Nat
  <1>1. \A i \in DOMAIN rs : DotsIn(rs, rs[i].path) = rs[i].dots /\ rs[i].dots \in Nat
    <2>1. \A i \in DOMAIN rs : rs[i] \in Rows
      BY DEF Faithful
    <2> QED
      BY <2>1, IndexOfRow DEF DotsIn, Rows
  <1>2. \A p : p \notin KnownPaths(rs) => DotsIn(rs, p) = 0
    BY DEF DotsIn
  <1>3. \A p : p \in KnownPaths(rs) => \E i \in DOMAIN rs : rs[i].path = p
    BY DEF KnownPaths
  <1> QED
    BY <1>1, <1>2, <1>3

(* The dots of a path stay if its row does, and a row it is given has none. *)
LEMMA SameDots ==
    ASSUME NEW rs, Faithful(rs), NEW rt, Faithful(rt), NEW p,
           \A i \in DOMAIN rs : rs[i].path = p =>
               \E j \in DOMAIN rt : rt[j].path = p /\ rt[j].dots = rs[i].dots,
           p \notin KnownPaths(rs) => \A j \in DOMAIN rt : rt[j].path = p => rt[j].dots = 0
    PROVE  DotsIn(rt, p) = DotsIn(rs, p)
  <1>1. CASE p \in KnownPaths(rs)
    <2>1. PICK i \in DOMAIN rs : rs[i].path = p
      BY <1>1 DEF KnownPaths
    <2>2. PICK j \in DOMAIN rt : rt[j].path = p /\ rt[j].dots = rs[i].dots
      BY <2>1
    <2> QED
      BY <2>1, <2>2, DotsOfRow
  <1>2. CASE p \notin KnownPaths(rs)
    <2>1. CASE p \in KnownPaths(rt)
      <3>1. PICK j \in DOMAIN rt : rt[j].path = p
        BY <2>1 DEF KnownPaths
      <3> QED
        BY <1>2, <3>1, DotsOfRow
    <2>2. CASE p \notin KnownPaths(rt)
      BY <1>2, <2>2, DotsOfRow
    <2> QED
      BY <2>1, <2>2
  <1> QED
    BY <1>1, <1>2

(* The dots a new row for p gets from snapshot s. *)
Seed(p, s) == IF p \in Configured \cap DOMAIN s THEN s[p] ELSE 0

(* The rows of the configuration have one row per path if it names each once. *)
LEMMA FirstRows ==
    ASSUME IsInjective(ConfigRows), NEW snapshot,
           \A p \in DOMAIN snapshot : snapshot[p] \in Nat
    PROVE  /\ Faithful(NewModel(snapshot)) /\ KnownPaths(NewModel(snapshot)) = Configured
           /\ \A p : DotsIn(NewModel(snapshot), p) = Seed(p, snapshot)
  <1> DEFINE rs == NewModel(snapshot)
             depth(p) == IF p \in DOMAIN snapshot THEN snapshot[p] ELSE 0
  <1>1. DOMAIN rs = 1 .. Len(ConfigRows) /\ DOMAIN ConfigRows = 1 .. Len(ConfigRows)
        /\ Len(ConfigRows) \in Nat
    BY ConfiguredPaths DEF NewModel
  <1>2. ASSUME NEW i \in DOMAIN rs
        PROVE  /\ rs[i] = [path |-> ConfigRows[i], origin |-> ConfigRows[i],
                           dots |-> depth(ConfigRows[i]), served |-> 0, rejected |-> 0]
               /\ ConfigRows[i] \in Configured /\ ConfigRows[i] \in Paths
               /\ depth(ConfigRows[i]) \in Nat
    BY <1>1, ConfiguredPaths DEF NewModel, NewRow, Configured, Range
  <1> HIDE DEF rs, depth
  <1>3. \A i \in DOMAIN rs : rs[i] \in Rows
    BY <1>2 DEF Rows
  <1>4. rs \in Seq(Rows)
    <2>1. rs = [i \in 1 .. Len(ConfigRows) |-> rs[i]]
      BY <1>1 DEF rs, NewModel
    <2> QED
      BY <1>1, <1>3, <2>1, SeqDef
  <1>5. \A i, j \in DOMAIN rs : rs[i].path = rs[j].path => i = j
    BY <1>1, <1>2 DEF IsInjective
  <1>6. \A i \in DOMAIN rs : rs[i].origin = Origin(rs[i].path)
    BY <1>2 DEF Origin
  <1>7. KnownPaths(rs) = Configured
    BY <1>1, <1>2 DEF KnownPaths, Configured, Range
  <1>8. Faithful(rs)
    BY <1>4, <1>5, <1>6 DEF Faithful
  <1>9. ASSUME NEW p PROVE DotsIn(rs, p) = Seed(p, snapshot)
    <2>1. CASE p \in Configured
      <3>1. PICK i \in DOMAIN rs : rs[i].path = p
        BY <1>7, <2>1 DEF KnownPaths
      <3>2. rs[i].path = ConfigRows[i] /\ rs[i].dots = depth(ConfigRows[i])
        BY <1>2
      <3>3. DotsIn(rs, p) = depth(p)
        BY <1>8, <3>1, <3>2, DotsOfRow
      <3> QED
        BY <2>1, <3>3 DEF depth, Seed
    <2>2. CASE p \notin Configured
      BY <1>7, <1>8, <2>2, DotsOfRow DEF Seed
    <2> QED
      BY <2>1, <2>2
  <1> QED
    BY <1>7, <1>8, <1>9 DEF rs

(* addDynamicEndpoint adds one row, with the settings of the server, and changes
   no other. *)
LEMMA AddsRow ==
    ASSUME NEW rs, Faithful(rs), Configured \subseteq KnownPaths(rs),
           NEW p \in Paths, p \notin KnownPaths(rs)
    PROVE  /\ Faithful(AddDynamicEndpoint(rs, p))
           /\ KnownPaths(AddDynamicEndpoint(rs, p)) = KnownPaths(rs) \cup {p}
           /\ \A i \in DOMAIN rs : \E j \in DOMAIN AddDynamicEndpoint(rs, p) :
                 AddDynamicEndpoint(rs, p)[j] = rs[i]
           /\ DotsIn(AddDynamicEndpoint(rs, p), p) = 0
  <1> DEFINE larger == {i \in DOMAIN rs : Before(p, rs[i].path)}
             k == Min(larger \cup {Len(rs) + 1})
             row == NewRow(p, Inherited(rs, p))
             rt == AddDynamicEndpoint(rs, p)
  <1>1. rs \in Seq(Rows) /\ DOMAIN rs = 1 .. Len(rs) /\ Len(rs) \in Nat
    BY DEF Faithful
  <1>2. rt = InsertAt(rs, k, row)
    BY DEF AddDynamicEndpoint
  <1>3. k \in 1 .. Len(rs) + 1
    <2>1. larger \cup {Len(rs) + 1} \in SUBSET Nat /\ larger \cup {Len(rs) + 1} # {}
          /\ larger \cup {Len(rs) + 1} \subseteq 1 .. Len(rs) + 1
      BY <1>1
    <2> HIDE DEF larger
    <2>2. k \in larger \cup {Len(rs) + 1}
      BY <2>1, MinIsSmallest
    <2> QED
      BY <2>1, <2>2
  <1>4. KnownPaths(rs) \subseteq Paths
    <2>1. \A i \in DOMAIN rs : rs[i] \in Rows
      BY <1>1
    <2> QED
      BY <2>1 DEF KnownPaths, Rows
  <1>5. Inherited(rs, p) = Origin(p)
    <2>1. /\ AncestorsIn(p, KnownPaths(rs)) # {}
          /\ NearestIn(p, KnownPaths(rs)) \in KnownPaths(rs)
          /\ Origin(NearestIn(p, KnownPaths(rs))) = Origin(p)
      BY <1>4, OriginOfParent
    <2>2. LET i == IndexForPath(rs, NearestIn(p, KnownPaths(rs)))
          IN  i \in DOMAIN rs /\ rs[i].path = NearestIn(p, KnownPaths(rs))
      BY <2>1, RowOfPath
    <2>3. \A i \in DOMAIN rs : rs[i].origin = Origin(rs[i].path)
      BY DEF Faithful
    <2> QED
      BY <2>1, <2>2, <2>3 DEF Inherited
  <1>6. row \in Rows /\ row.path = p /\ row.origin = Origin(p) /\ row.dots = 0
    BY <1>5, OriginConfigured DEF NewRow, Rows
  <1> HIDE DEF larger, k, row, rt
  <1>7. /\ rt \in Seq(Rows) /\ DOMAIN rt = 1 .. Len(rs) + 1
        /\ rt[k] = row
        /\ \A i \in DOMAIN rs : i < k => rt[i] = rs[i]
        /\ \A i \in DOMAIN rs : ~(i < k) => rt[i + 1] = rs[i]
    <2> DEFINE new == InsertAt(rs, k, row)
    <2>1. rs \in Seq(Rows) /\ k \in 1 .. Len(rs) + 1 /\ row \in Rows
      BY <1>1, <1>3, <1>6
    <2>2. /\ new \in Seq(Rows) /\ DOMAIN new = 1 .. Len(rs) + 1
          /\ new[k] = row
          /\ \A i \in DOMAIN rs : i < k => new[i] = rs[i]
          /\ \A i \in DOMAIN rs : ~(i < k) => new[i + 1] = rs[i]
      BY ONLY <2>1, InsertAtIndex
    <2> QED
      BY <1>2, <2>2
  <1> DEFINE at(i) == IF i < k THEN i ELSE i + 1
             from(j) == IF j < k THEN j ELSE j - 1
  <1>8. \A i \in DOMAIN rs : at(i) \in DOMAIN rt /\ rt[at(i)] = rs[i]
    BY <1>1, <1>3, <1>7
  <1>9. \A j \in DOMAIN rt : j # k => from(j) \in DOMAIN rs /\ at(from(j)) = j
    BY <1>1, <1>3, <1>7
  <1> HIDE DEF at, from
  <1>10. \A j \in DOMAIN rt : j # k => rt[j] = rs[from(j)] /\ from(j) \in DOMAIN rs
    BY <1>8, <1>9
  <1>11. \A i \in DOMAIN rs : rs[i].path # p
    BY DEF KnownPaths
  <1>12. ASSUME NEW i \in DOMAIN rt, NEW j \in DOMAIN rt, rt[i].path = rt[j].path
         PROVE  i = j
    <2>1. CASE i = k \/ j = k
      BY <1>6, <1>7, <1>10, <1>11, <1>12, <2>1
    <2>2. CASE i # k /\ j # k
      <3>1. from(i) = from(j)
        BY <1>10, <1>12, <2>2 DEF Faithful
      <3> QED
        BY <1>9, <2>2, <3>1
    <2> QED
      BY <2>1, <2>2
  <1>13. \A j \in DOMAIN rt : rt[j].origin = Origin(rt[j].path)
    BY <1>6, <1>7, <1>10 DEF Faithful
  <1>14. KnownPaths(rt) = KnownPaths(rs) \cup {p}
    <2>1. k \in DOMAIN rt
      BY <1>3, <1>7
    <2>2. \A j \in DOMAIN rt : rt[j].path \in KnownPaths(rs) \cup {p}
      BY <1>6, <1>7, <1>10 DEF KnownPaths
    <2>3. \A i \in DOMAIN rs : rs[i].path \in KnownPaths(rt)
      BY <1>8 DEF KnownPaths
    <2>4. p \in KnownPaths(rt)
      BY <1>6, <1>7, <2>1 DEF KnownPaths
    <2> QED
      BY <2>2, <2>3, <2>4 DEF KnownPaths
  <1>15. Faithful(rt)
    BY <1>7, <1>12, <1>13 DEF Faithful
  <1>16. DotsIn(rt, p) = 0
    <2>1. k \in DOMAIN rt
      BY <1>3, <1>7
    <2> QED
      BY <1>6, <1>7, <1>15, <2>1, DotsOfRow
  <1> QED
    BY <1>8, <1>14, <1>15, <1>16 DEF rt

-----------------------------------------------------------------------------
(* What events, ticks and resets do to the rows. *)

EventKinds == {"queued", "served", "rejected"}
EventsOf(paths) == [kind : EventKinds, path : paths]

(* The larger of two numbers. *)
LEMMA MaxOfTwo ==
    ASSUME NEW a \in Int, NEW b \in Int
    PROVE  Max({a, b}) = IF a >= b THEN a ELSE b
  <1>1. \E x \in {a, b} : \A y \in {a, b} : x >= y
    OBVIOUS
  <1>2. Max({a, b}) \in {a, b} /\ \A y \in {a, b} : Max({a, b}) >= y
    BY <1>1 DEF Max
  <1> QED
    BY <1>2

(* What an event of a kind makes of x dots. *)
Shown(kind, x) ==
    IF kind = "queued" THEN x + 1 ELSE IF kind = "served" THEN Max({0, x - 1}) ELSE x

(* Counting an event changes neither path nor origin, and the dots never fall
   below zero. *)
LEMMA CountedIsRow ==
    ASSUME NEW row \in Rows, NEW kind \in EventKinds
    PROVE  /\ Counted(row, kind) \in Rows
           /\ Counted(row, kind).path = row.path /\ Counted(row, kind).origin = row.origin
           /\ Counted(row, kind).dots = Shown(kind, row.dots)
  <1>1. row.dots \in Nat /\ row.served \in Nat /\ row.rejected \in Nat
    BY DEF Rows
  <1>2. Max({0, row.dots - 1}) \in Nat
    BY <1>1, MaxOfTwo
  <1>3. CASE kind = "queued"
    <2>1. Counted(row, kind) = [row EXCEPT !.dots = @ + 1]
      BY <1>3 DEF Counted
    <2> QED
      BY <1>1, <1>3, <2>1 DEF Rows, Shown
  <1>4. CASE kind = "served"
    <2> DEFINE dots == Max({0, row.dots - 1})
               served == row.served + 1
    <2>1. Counted(row, kind) = [row EXCEPT !.dots = dots, !.served = served]
      BY <1>4 DEF Counted, Rows
    <2>2. dots \in Nat /\ served \in Nat /\ dots = Shown(kind, row.dots)
      BY <1>1, <1>2, <1>4 DEF Shown
    <2> HIDE DEF dots, served
    <2> QED
      BY <2>1, <2>2 DEF Rows
  <1>5. CASE kind = "rejected"
    <2>1. Counted(row, kind) = [row EXCEPT !.rejected = @ + 1]
      BY <1>5 DEF Counted
    <2> QED
      BY <1>1, <1>5, <2>1 DEF Rows, Shown
  <1> QED
    BY <1>3, <1>4, <1>5 DEF EventKinds

(* Changing the counters of one row keeps the rows faithful. *)
LEMMA ChangesRow ==
    ASSUME NEW rs, Faithful(rs), NEW i \in DOMAIN rs, NEW row \in Rows,
           row.path = rs[i].path, row.origin = rs[i].origin
    PROVE  /\ Faithful([rs EXCEPT ![i] = row])
           /\ KnownPaths([rs EXCEPT ![i] = row]) = KnownPaths(rs)
           /\ KeepsOthers(rs, [rs EXCEPT ![i] = row], rs[i].path)
  <1> DEFINE rt == [rs EXCEPT ![i] = row]
  <1>1. /\ rs \in Seq(Rows) /\ DOMAIN rs = 1 .. Len(rs)
        /\ \A j, k \in DOMAIN rs : rs[j].path = rs[k].path => j = k
        /\ \A j \in DOMAIN rs : rs[j].origin = Origin(rs[j].path)
    BY DEF Faithful
  <1>2. rt \in Seq(Rows) /\ DOMAIN rt = DOMAIN rs
    BY <1>1
  <1>3. \A j \in DOMAIN rs : rt[j] = IF j = i THEN row ELSE rs[j]
    BY <1>1
  <1> HIDE DEF rt
  <1>4. \A j \in DOMAIN rs : rt[j].path = rs[j].path /\ rt[j].origin = rs[j].origin
    BY <1>3
  <1>5. Faithful(rt)
    BY <1>1, <1>2, <1>4 DEF Faithful
  <1>6. KnownPaths(rt) = KnownPaths(rs)
    BY <1>2, <1>4 DEF KnownPaths
  <1>7. KeepsOthers(rs, rt, rs[i].path)
    BY <1>2, <1>3 DEF KeepsOthers
  <1> QED
    BY <1>5, <1>6, <1>7 DEF rt

(* An event changes the row of its path, which it adds if there is none. *)
LEMMA EventCounts ==
    ASSUME NEW rs, Faithful(rs), Configured \subseteq KnownPaths(rs), NEW ev \in EventsOf(Paths)
    PROVE  /\ Faithful(HandleServerEvent(rs, ev))
           /\ KnownPaths(HandleServerEvent(rs, ev)) = KnownPaths(rs) \cup {ev.path}
           /\ KeepsOthers(rs, HandleServerEvent(rs, ev), ev.path)
           /\ \A p : DotsIn(HandleServerEvent(rs, ev), p) =
                      IF p = ev.path THEN Shown(ev.kind, DotsIn(rs, p)) ELSE DotsIn(rs, p)
  <1> DEFINE known == IF ev.path \in KnownPaths(rs) THEN rs ELSE AddDynamicEndpoint(rs, ev.path)
             i == IndexForPath(known, ev.path)
             row == Counted(known[i], ev.kind)
  <1>1. ev.path \in Paths /\ ev.kind \in EventKinds
    BY DEF EventsOf
  <1>2. /\ Faithful(known) /\ KnownPaths(known) = KnownPaths(rs) \cup {ev.path}
        /\ \A j \in DOMAIN rs : \E k \in DOMAIN known : known[k] = rs[j]
        /\ DotsIn(known, ev.path) = DotsIn(rs, ev.path)
    <2>1. CASE ev.path \in KnownPaths(rs)
      <3>1. known = rs
        BY <2>1
      <3> QED
        BY <2>1, <3>1
    <2>2. CASE ev.path \notin KnownPaths(rs)
      <3>1. known = AddDynamicEndpoint(rs, ev.path)
        BY <2>2
      <3> QED
        BY <1>1, <2>2, <3>1, AddsRow, DotsOfRow
    <2> QED
      BY <2>1, <2>2
  <1> HIDE DEF known
  <1>3. HandleServerEvent(rs, ev) = [known EXCEPT ![i] = row]
    BY DEF HandleServerEvent, known
  <1>4. i \in DOMAIN known /\ known[i].path = ev.path
    BY <1>2, RowOfPath
  <1> HIDE DEF i
  <1>5. known[i] \in Rows
    BY <1>2, <1>4 DEF Faithful
  <1>6. /\ row \in Rows /\ row.path = ev.path /\ row.path = known[i].path
        /\ row.origin = known[i].origin /\ row.dots = Shown(ev.kind, known[i].dots)
    BY <1>1, <1>4, <1>5, CountedIsRow
  <1> HIDE DEF row
  <1>7. /\ Faithful([known EXCEPT ![i] = row])
        /\ KnownPaths([known EXCEPT ![i] = row]) = KnownPaths(known)
        /\ KeepsOthers(known, [known EXCEPT ![i] = row], ev.path)
    BY <1>2, <1>4, <1>6, ChangesRow
  <1>8. KeepsOthers(rs, HandleServerEvent(rs, ev), ev.path)
    <2> DEFINE rt == [known EXCEPT ![i] = row]
    <2> SUFFICES ASSUME NEW j \in DOMAIN rs, rs[j].path # ev.path
                 PROVE  \E l \in DOMAIN rt : rt[l] = rs[j]
      BY <1>3 DEF KeepsOthers
    <2>1. PICK k \in DOMAIN known : known[k] = rs[j]
      BY <1>2
    <2> HIDE DEF rt
    <2> QED
      BY <1>7, <2>1 DEF KeepsOthers, rt
  <1>9. ASSUME NEW p
        PROVE  DotsIn([known EXCEPT ![i] = row], p) =
                   IF p = ev.path THEN Shown(ev.kind, DotsIn(rs, p)) ELSE DotsIn(rs, p)
    <2> DEFINE rt == [known EXCEPT ![i] = row]
    <2>0. Faithful(rt) /\ KnownPaths(rt) = KnownPaths(rs) \cup {ev.path}
      BY <1>2, <1>7
    <2>1. CASE p = ev.path
      <3>1. DotsIn(known, p) = known[i].dots
        BY <1>2, <1>4, <2>1, DotsOfRow
      <3>2. i \in DOMAIN rt /\ rt[i] = row
        BY <1>4
      <3> HIDE DEF rt
      <3>3. DotsIn(rt, p) = row.dots
        BY <1>6, <2>0, <2>1, <3>2, DotsOfRow
      <3> QED
        BY <1>2, <1>6, <2>1, <3>1, <3>3 DEF rt
    <2>2. CASE p # ev.path
      <3>1. ASSUME NEW j \in DOMAIN rs, rs[j].path = p
            PROVE  \E k \in DOMAIN rt : rt[k].path = p /\ rt[k].dots = rs[j].dots
        BY <1>3, <1>8, <2>2, <3>1 DEF KeepsOthers
      <3>2. p \notin KnownPaths(rs) => p \notin KnownPaths(rt)
        BY <2>0, <2>2
      <3>3. p \notin KnownPaths(rt) => \A j \in DOMAIN rt : rt[j].path # p
        BY DEF KnownPaths
      <3> HIDE DEF rt
      <3>4. DotsIn(rt, p) = DotsIn(rs, p)
        BY <2>0, <3>1, <3>2, <3>3, SameDots
      <3> QED
        BY <2>2, <3>4 DEF rt
    <2> QED
      BY <2>1, <2>2
  <1> QED
    BY <1>2, <1>3, <1>7, <1>8, <1>9

(* A tick lists the paths of the registry and keeps every row the UI had. *)
LEMMA TickKeepsRows ==
    ASSUME NEW rs, Faithful(rs), NEW known \in SUBSET Paths,
           KnownPaths(rs) \subseteq known
    PROVE  /\ Faithful(Sync(rs, known)) /\ KnownPaths(Sync(rs, known)) = known
           /\ \A i \in DOMAIN rs : \E j \in DOMAIN Sync(rs, known) : Sync(rs, known)[j] = rs[i]
           /\ \A p : DotsIn(Sync(rs, known), p) = DotsIn(rs, p)
  <1> DEFINE paths == Snapshot(known)
             N == Cardinality(known)
             row(p) == IF p \in KnownPaths(rs)
                       THEN [rs[IndexForPath(rs, p)] EXCEPT !.origin = Origin(p)]
                       ELSE NewRow(p, Origin(p))
             rt == Sync(rs, known)
  <1>1. /\ DOMAIN paths = 1 .. N /\ N \in Nat
        /\ \A n \in DOMAIN paths : paths[n] \in known
        /\ \A p \in known : \E n \in DOMAIN paths : paths[n] = p
        /\ \A m, n \in DOMAIN paths : paths[m] = paths[n] => m = n
    BY SnapshotListsAll
  <1>2. rt = [n \in DOMAIN paths |-> row(paths[n])]
    BY DEF Sync, Origin
  <1>3. ASSUME NEW p \in known
        PROVE  /\ row(p) \in Rows /\ row(p).path = p /\ row(p).origin = Origin(p)
               /\ \A i \in DOMAIN rs : rs[i].path = p => row(p) = rs[i]
               /\ p \notin KnownPaths(rs) => row(p).dots = 0
    <2>1. Origin(p) \in Configured /\ p \in Paths
      BY OriginConfigured
    <2>2. CASE p \in KnownPaths(rs)
      <3> DEFINE k == IndexForPath(rs, p)
      <3>1. k \in DOMAIN rs /\ rs[k].path = p
        BY <2>2, RowOfPath
      <3> HIDE DEF k
      <3>2. rs[k] \in Rows /\ rs[k].origin = Origin(p)
            /\ \A i \in DOMAIN rs : rs[i].path = p => i = k
        BY <3>1 DEF Faithful
      <3>3. row(p) = [rs[k] EXCEPT !.origin = Origin(p)]
        BY <2>2 DEF k
      <3>4. row(p) = rs[k]
        BY <3>2, <3>3 DEF Rows
      <3> HIDE DEF row
      <3> QED
        BY <2>2, <3>1, <3>2, <3>4
    <2>3. CASE p \notin KnownPaths(rs)
      <3>1. row(p) = NewRow(p, Origin(p))
        BY <2>3
      <3>2. \A i \in DOMAIN rs : rs[i].path # p
        BY <2>3 DEF KnownPaths
      <3> HIDE DEF row
      <3> QED
        BY <2>1, <3>1, <3>2 DEF NewRow, Rows
    <2> QED
      BY <2>2, <2>3
  <1> HIDE DEF row, rt, paths, N
  <1>4. DOMAIN rt = 1 .. N /\ \A n \in 1 .. N : rt[n] = row(paths[n])
    BY <1>1, <1>2
  <1>5. rt \in Seq(Rows)
    <2>1. \A n \in 1 .. N : row(paths[n]) \in Rows
      BY <1>1, <1>3
    <2>2. rt \in [1 .. N -> Rows]
      BY <1>1, <1>2, <2>1
    <2> QED
      BY <1>1, <2>2, SeqDef
  <1>6. \A n \in 1 .. N : rt[n].path = paths[n] /\ rt[n].origin = Origin(paths[n])
    BY <1>1, <1>3, <1>4
  <1>7. Faithful(rt)
    BY <1>1, <1>4, <1>5, <1>6 DEF Faithful
  <1>8. KnownPaths(rt) = known
    BY <1>1, <1>4, <1>6 DEF KnownPaths
  <1>9. ASSUME NEW i \in DOMAIN rs PROVE \E j \in DOMAIN rt : rt[j] = rs[i]
    <2>1. rs[i].path \in known
      BY DEF KnownPaths
    <2>2. PICK j \in 1 .. N : paths[j] = rs[i].path
      BY <1>1, <2>1
    <2>3. rt[j] = rs[i]
      BY <1>3, <1>4, <2>1, <2>2
    <2> QED
      BY <1>4, <2>3
  <1>10. ASSUME NEW p PROVE DotsIn(rt, p) = DotsIn(rs, p)
    <2>1. ASSUME NEW i \in DOMAIN rs, rs[i].path = p
          PROVE  \E j \in DOMAIN rt : rt[j].path = p /\ rt[j].dots = rs[i].dots
      <3>1. PICK j \in DOMAIN rt : rt[j] = rs[i]
        BY <1>9
      <3> QED
        BY <2>1, <3>1
    <2>2. ASSUME p \notin KnownPaths(rs), NEW j \in DOMAIN rt, rt[j].path = p
          PROVE  rt[j].dots = 0
      <3>1. j \in 1 .. N /\ paths[j] = p /\ p \in known /\ rt[j] = row(p)
        BY <1>1, <1>4, <1>6, <2>2
      <3> QED
        BY <1>3, <2>2, <3>1
    <2> QED
      BY <1>7, <2>1, <2>2, SameDots
  <1> QED
    BY <1>7, <1>8, <1>9, <1>10 DEF rt

-----------------------------------------------------------------------------
(* The inductive invariant. *)

Stages == {"new", "pushed", "waiting", "over"}
Snapshots == UNION {[P -> Nat] : P \in SUBSET Paths}

(* What may be under way to the UI, with events of the given paths. *)
StreamMessages(paths) ==
    {ConfigMsg} \cup {StateMsg(s) : s \in Snapshots} \cup {EventMsg(e) : e \in EventsOf(paths)}

MirrorTypeOK ==
    /\ asked \in [Requests -> Paths]
    /\ stage \in [Requests -> Stages]
    /\ queued \subseteq Requests
    /\ ui \in {"off", "on", "quit"}

(* Every event is about a path the registry knows. *)
PipeOK == pipe \in Seq(StreamMessages(Registered))

(* The UI has a row for every configured path, and none the registry has not. *)
RowsOK ==
    \/ ui = "off" /\ rows = <<>>
    \/ /\ ui # "off"
       /\ Faithful(rows)
       /\ Configured \subseteq KnownPaths(rows)
       /\ KnownPaths(rows) \subseteq Registered

MirrorInv == MirrorTypeOK /\ PipeOK /\ RowsOK

(* The registry forgets no path. *)
LEMMA RegistryGrows ==
    ASSUME MirrorTypeOK, MirrorTypeOK', asked' = asked,
           \A r \in Requests : stage[r] # "new" => stage'[r] # "new"
    PROVE  /\ Registered \subseteq Registered' /\ Configured \subseteq Registered
           /\ Registered \subseteq Paths /\ Registered' \subseteq Paths
           /\ Seq(StreamMessages(Registered)) \subseteq Seq(StreamMessages(Registered'))
  <1>1. Registered \subseteq Registered' /\ Configured \subseteq Registered
    BY DEF Registered
  <1>2. Registered \subseteq Paths /\ Registered' \subseteq Paths
    BY ConfiguredPaths DEF Registered, MirrorTypeOK
  <1>3. StreamMessages(Registered) \subseteq StreamMessages(Registered')
    <2>1. EventsOf(Registered) \subseteq EventsOf(Registered')
      BY <1>1 DEF EventsOf
    <2> QED
      BY <2>1 DEF StreamMessages
  <1>4. Seq(StreamMessages(Registered)) \subseteq Seq(StreamMessages(Registered'))
    BY <1>3, SeqMonotonic
  <1> QED
    BY <1>1, <1>2, <1>4

(* The snapshot of the server is one. *)
LEMMA DepthsAreSnapshot ==
    ASSUME MirrorTypeOK
    PROVE  [p \in Registered |-> Depth(p)] \in Snapshots
  <1>1. ASSUME NEW p PROVE Depth(p) \in Nat
    <2>1. queued \cap At(p) \in SUBSET Requests
      BY DEF MirrorTypeOK
    <2>2. IsFiniteSet(queued \cap At(p))
      BY <2>1, RequestsAssumption, FS_Subset
    <2> QED
      BY <2>2, FS_CardinalityType DEF Depth
  <1>2. Registered \in SUBSET Paths
    BY ConfiguredPaths DEF Registered, MirrorTypeOK
  <1>3. [p \in Registered |-> Depth(p)] \in [Registered -> Nat]
    BY <1>1
  <1> QED
    BY <1>2, <1>3 DEF Snapshots

(* The requests of a step: none goes back to being new. *)
LEMMA StageStep ==
    ASSUME MirrorTypeOK, NEW r \in Requests, NEW s \in Stages \ {"new"}, Became(r, s)
    PROVE  stage' \in [Requests -> Stages]
           /\ \A q \in Requests : stage[q] # "new" => stage'[q] # "new"
  BY DEF MirrorTypeOK, Became, Stages

(* The shape of every step: types are kept, and no request becomes new again. *)
LEMMA MirrorTypeStep ==
    ASSUME MirrorTypeOK, MirrorNext
    PROVE  /\ MirrorTypeOK' /\ asked' = asked
           /\ \A r \in Requests : stage[r] # "new" => stage'[r] # "new"
  <1>1. ASSUME NEW r \in Requests,
               Push(r) \/ Announce(r) \/ Pop(r) \/ Serve(r) \/ Depart(r) \/ Reject(r)
        PROVE  /\ MirrorTypeOK' /\ asked' = asked
               /\ \A q \in Requests : stage[q] # "new" => stage'[q] # "new"
    <2>1. asked' = asked /\ ui' = ui
      BY <1>1 DEF Push, Announce, Pop, Serve, Depart, Reject, EmitEvent, fixedVars, uiVars
    <2>2. queued' \subseteq Requests
      BY <1>1 DEF Push, Announce, Pop, Serve, Depart, Reject, MirrorTypeOK
    <2>3. stage' \in [Requests -> Stages]
          /\ \A q \in Requests : stage[q] # "new" => stage'[q] # "new"
      <3>1. CASE Pop(r)
        BY <3>1 DEF Pop, MirrorTypeOK
      <3>2. CASE Push(r) \/ Announce(r) \/ Serve(r) \/ Depart(r) \/ Reject(r)
        <4>1. \E s \in Stages \ {"new"} : Became(r, s)
          BY <3>2 DEF Push, Announce, Serve, Depart, Reject, Stages
        <4> QED
          BY <4>1, StageStep
      <3> QED
        BY <1>1, <3>1, <3>2
    <2> QED
      BY <2>1, <2>2, <2>3 DEF MirrorTypeOK
  <1>2. CASE StreamLoses \/ SubscribeUi \/ Disconnect
    BY <1>2 DEF StreamLoses, SubscribeUi, Disconnect, uiVars, fixedVars, serverVars, MirrorTypeOK
  <1>3. CASE UiStep
    <2>1. UNCHANGED <<asked, stage, queued>>
      BY <1>3 DEF UiStep, TakeConfig, TakeSnapshot, StartLocal, TakeEvent, Tick, Press,
           StreamEnded, fixedVars, serverVars
    <2>2. ui' \in {ui, "on", "quit"}
      BY <1>3 DEF UiStep, TakeConfig, TakeSnapshot, StartLocal, TakeEvent, Tick, Press,
           StreamEnded, uiVars, StartUi, OnEvent, OnTick, Key, KeyMove, KeyReset, KeyPause,
           QuitUi
    <2> QED
      BY <2>1, <2>2 DEF MirrorTypeOK
  <1> QED
    BY <1>1, <1>2, <1>3 DEF MirrorNext, ServerStep

-----------------------------------------------------------------------------
(* The stream. *)

(* An event that is emitted joins the stream or is lost. *)
LEMMA EmitKeepsPipe ==
    ASSUME NEW S, pipe \in Seq(S), NEW e, EventMsg(e) \in S, Emit(e)
    PROVE  pipe' \in Seq(S)
  <1>1. pipe' = pipe \/ pipe' = Append(pipe, EventMsg(e))
    BY DEF Emit
  <1> QED
    BY <1>1, AppendProperties

(* Every step keeps the stream one of configuration, snapshot and events of paths
   the registry knows. *)
LEMMA PipeStep ==
    ASSUME MirrorInv, MirrorNext
    PROVE  PipeOK'
  <1> DEFINE S == StreamMessages(Registered)
             T == StreamMessages(Registered')
  <1>1. /\ MirrorTypeOK' /\ asked' = asked
        /\ \A r \in Requests : stage[r] # "new" => stage'[r] # "new"
    BY MirrorTypeStep DEF MirrorInv
  <1>2. pipe \in Seq(S) /\ Seq(S) \subseteq Seq(T)
    BY <1>1, RegistryGrows DEF MirrorInv, PipeOK
  <1>3. SUFFICES pipe' \in Seq(T)
    BY DEF PipeOK, StreamMessages, EventsOf, ConfigMsg, StateMsg, EventMsg, Snapshots
  <1>4. ASSUME NEW r \in Requests, NEW kind \in EventKinds, EmitEvent(r, kind), stage'[r] # "new"
        PROVE  pipe' \in Seq(T)
    <2> DEFINE ev == [kind |-> kind, path |-> asked[r]]
    <2>1. asked[r] \in Registered'
      BY <1>1, <1>4 DEF Registered
    <2>2. ev \in EventsOf(Registered')
      BY <2>1 DEF EventsOf
    <2>3. EventMsg(ev) \in T
      BY <2>2 DEF StreamMessages
    <2>4. Emit(ev)
      BY <1>4 DEF EmitEvent
    <2> HIDE DEF S, T, ev
    <2> QED
      BY <1>2, <2>3, <2>4, EmitKeepsPipe
  <1>5. CASE ServerStep
    <2>1. PICK r \in Requests :
             Push(r) \/ Announce(r) \/ Pop(r) \/ Serve(r) \/ Depart(r) \/ Reject(r)
      BY <1>5 DEF ServerStep
    <2>2. CASE Push(r) \/ Pop(r) \/ Depart(r)
      BY <1>2, <2>2 DEF Push, Pop, Depart, streamVars
    <2>3. CASE Announce(r) \/ Serve(r) \/ Reject(r)
      <3>1. PICK s \in Stages \ {"new"} : Became(r, s)
        BY <2>3 DEF Announce, Serve, Reject, Stages
      <3>2. stage'[r] # "new"
        <4>1. MirrorTypeOK
          BY DEF MirrorInv
        <4>2. stage' = [stage EXCEPT ![r] = s] /\ stage \in [Requests -> Stages]
          BY <3>1, <4>1 DEF Became, MirrorTypeOK
        <4> QED
          BY <3>1, <4>2
      <3>3. \E kind \in EventKinds : EmitEvent(r, kind)
        BY <2>3 DEF Announce, Serve, Reject, EventKinds
      <3> QED
        BY <1>4, <3>2, <3>3
    <2> QED
      BY <2>1, <2>2, <2>3
  <1> HIDE DEF S, T
  <1>6. CASE StreamLoses
    <2>1. PICK i \in DOMAIN pipe : pipe' = RemoveAt(pipe, i)
      BY <1>6 DEF StreamLoses
    <2> QED
      BY <1>2, <2>1, RemoveAtIndex
  <1>7. CASE SubscribeUi
    <2> DEFINE first == <<ConfigMsg, StateMsg([p \in Registered |-> Depth(p)])>>
    <2>1. pipe' = first \o pipe
      BY <1>7 DEF SubscribeUi, Start
    <2>2. ConfigMsg \in T /\ StateMsg([p \in Registered |-> Depth(p)]) \in T
      <3>1. [p \in Registered |-> Depth(p)] \in Snapshots
        BY DepthsAreSnapshot DEF MirrorInv
      <3> QED
        BY <3>1 DEF T, StreamMessages
    <2>3. first \in Seq(T)
      BY <2>2
    <2> HIDE DEF first
    <2> QED
      BY <1>2, <2>1, <2>3, ConcatProperties
  <1>8. CASE Disconnect
    <2>1. PICK k \in 0 .. Len(pipe) : pipe' = SubSeq(pipe, 1, k)
      BY <1>8 DEF Disconnect, Cut
    <2> QED
      BY <1>2, <2>1, SubSeqRange
  <1>9. CASE UiStep
    <2>1. UNCHANGED pipe \/ (pipe # <<>> /\ pipe' = Tail(pipe))
      BY <1>9 DEF UiStep, TakeConfig, TakeSnapshot, StartLocal, TakeEvent, Tick, Press,
           StreamEnded, streamVars, Deliver
    <2> QED
      BY <1>2, <2>1, HeadTailProperties
  <1> QED
    BY <1>5, <1>6, <1>7, <1>8, <1>9 DEF MirrorNext

-----------------------------------------------------------------------------
(* The rows. *)

(* The first message under way, when there is one. *)
LEMMA FirstMessage ==
    ASSUME PipeOK, pipe # <<>>
    PROVE  /\ Head(pipe).type = "event" => Head(pipe).body \in EventsOf(Registered)
           /\ Head(pipe).type = "state" => Head(pipe).body \in Snapshots
  <1>1. Head(pipe) \in StreamMessages(Registered)
    BY HeadTailProperties DEF PipeOK
  <1>2. CASE Head(pipe) = ConfigMsg
    BY <1>2 DEF ConfigMsg
  <1>3. CASE \E s \in Snapshots : Head(pipe) = StateMsg(s)
    BY <1>3 DEF StateMsg
  <1>4. CASE \E e \in EventsOf(Registered) : Head(pipe) = EventMsg(e)
    BY <1>4 DEF EventMsg
  <1> QED
    BY <1>1, <1>2, <1>3, <1>4 DEF StreamMessages

(* An event for the UI, and what it does. *)
LEMMA TakeEventRows ==
    ASSUME MirrorInv, MirrorNext, TakeEvent
    PROVE  /\ ui = "on" /\ ui' = "on" /\ Faithful(rows') /\ Faithful(rows)
           /\ \/ rows' = rows
              \/ /\ KnownPaths(rows') = KnownPaths(rows) \cup {Head(pipe).body.path}
                 /\ KeepsOthers(rows, rows', Head(pipe).body.path)
                 /\ pipe # <<>> /\ pipe' = Tail(pipe)
                 /\ Head(pipe).body.path \in Registered
  <1> DEFINE ev == Head(pipe).body
  <1>1. /\ pipe # <<>> /\ Head(pipe).type = "event" /\ pipe' = Tail(pipe)
        /\ ui = "on" /\ ui' = ui
        /\ rows' = IF paused THEN rows ELSE HandleServerEvent(rows, ev)
    BY DEF TakeEvent, Deliver, OnEvent
  <1>2. Faithful(rows) /\ Configured \subseteq KnownPaths(rows)
    BY <1>1 DEF MirrorInv, RowsOK
  <1>3. ev \in EventsOf(Registered)
    BY <1>1, FirstMessage DEF MirrorInv
  <1>4. Registered \subseteq Paths
    BY ConfiguredPaths DEF Registered, MirrorInv, MirrorTypeOK
  <1> HIDE DEF ev
  <1>5. ev \in EventsOf(Paths) /\ ev.path \in Registered
    BY <1>3, <1>4 DEF EventsOf
  <1>6. CASE paused
    BY <1>1, <1>2, <1>6
  <1>7. CASE ~paused
    <2>1. rows' = HandleServerEvent(rows, ev)
      BY <1>1, <1>7
    <2>2. /\ Faithful(rows') /\ KnownPaths(rows') = KnownPaths(rows) \cup {ev.path}
          /\ KeepsOthers(rows, rows', ev.path)
      BY <1>2, <1>5, <2>1, EventCounts
    <2> QED
      BY <1>1, <1>2, <1>5, <2>2 DEF ev
  <1> QED
    BY <1>6, <1>7

(* A reset, and what it does. *)
LEMMA ResetRows ==
    ASSUME Faithful(rows), KeyReset
    PROVE  /\ Faithful(rows') /\ KnownPaths(rows') = KnownPaths(rows)
           /\ \A p : DotsIn(rows', p) = DotsIn(rows, p)
           /\ \/ rows' = rows
              \/ /\ selected \in DOMAIN rows
                 /\ DOMAIN rows' = DOMAIN rows
                 /\ rows'[selected] = [rows[selected] EXCEPT !.served = 0, !.rejected = 0]
                 /\ KeepsOthers(rows, rows', rows[selected].path)
  <1> DEFINE row == [rows[selected] EXCEPT !.served = 0, !.rejected = 0]
  <1>1. rows \in Seq(Rows)
    BY DEF Faithful
  <1>2. CASE selected \notin DOMAIN rows
    <2>1. rows' = rows
      BY <1>1, <1>2 DEF KeyReset
    <2> QED
      BY <2>1
  <1>3. CASE selected \in DOMAIN rows
    <2>1. rows[selected] \in Rows
      BY <1>1, <1>3
    <2>2. /\ row \in Rows /\ row.path = rows[selected].path
          /\ row.origin = rows[selected].origin /\ row.dots = rows[selected].dots
      BY <2>1 DEF Rows
    <2>3. rows' = [rows EXCEPT ![selected] = row]
      BY <1>1, <1>3, <2>1 DEF KeyReset, Rows
    <2>4. DOMAIN rows' = DOMAIN rows /\ rows'[selected] = row
      BY <1>1, <1>3, <2>3
    <2> HIDE DEF row
    <2>5. /\ Faithful(rows') /\ KnownPaths(rows') = KnownPaths(rows)
          /\ KeepsOthers(rows, rows', rows[selected].path)
      BY <1>3, <2>2, <2>3, ChangesRow
    <2>6. ASSUME NEW p PROVE DotsIn(rows', p) = DotsIn(rows, p)
      <3>1. ASSUME NEW i \in DOMAIN rows, rows[i].path = p
            PROVE  \E j \in DOMAIN rows' : rows'[j].path = p /\ rows'[j].dots = rows[i].dots
        <4>1. CASE p = rows[selected].path
          <5>1. i = selected
            BY <1>3, <3>1, <4>1 DEF Faithful
          <5> QED
            BY <1>3, <2>2, <2>4, <3>1, <5>1
        <4>2. CASE p # rows[selected].path
          BY <2>5, <3>1, <4>2 DEF KeepsOthers
        <4> QED
          BY <4>1, <4>2
      <3>2. p \notin KnownPaths(rows) => \A j \in DOMAIN rows' : rows'[j].path # p
        BY <2>5 DEF KnownPaths
      <3> QED
        BY <2>5, <3>1, <3>2, SameDots
    <2> QED
      BY <1>3, <2>4, <2>5, <2>6 DEF row
  <1> QED
    BY <1>2, <1>3

(* A tick, and what it does. *)
LEMMA TickRows ==
    ASSUME MirrorInv, Tick
    PROVE  /\ ui = "on" /\ ui' = "on" /\ Faithful(rows) /\ Faithful(rows')
           /\ KnownPaths(rows) \subseteq Registered /\ KnownPaths(rows') = Registered
           /\ \A i \in DOMAIN rows : \E j \in DOMAIN rows' : rows'[j] = rows[i]
           /\ \A p : DotsIn(rows', p) = DotsIn(rows, p)
  <1>1. ui = "on" /\ ui' = ui /\ rows' = Sync(rows, Registered)
    BY DEF Tick, OnTick
  <1>2. Faithful(rows) /\ KnownPaths(rows) \subseteq Registered
    BY <1>1 DEF MirrorInv, RowsOK
  <1>3. Registered \in SUBSET Paths
    BY ConfiguredPaths DEF Registered, MirrorInv, MirrorTypeOK
  <1> QED
    BY <1>1, <1>2, <1>3, TickKeepsRows

(* Every step but the start of the UI keeps its rows faithful and known to the
   registry. *)
LEMMA RowsStep ==
    ASSUME IsInjective(ConfigRows), MirrorInv, MirrorNext
    PROVE  RowsOK'
  <1>1. /\ MirrorTypeOK' /\ asked' = asked
        /\ \A r \in Requests : stage[r] # "new" => stage'[r] # "new"
    BY MirrorTypeStep DEF MirrorInv
  <1>2. Registered \subseteq Registered' /\ Configured \subseteq Registered
    BY <1>1, RegistryGrows DEF MirrorInv
  <1>3. ASSUME ui' # "off", Faithful(rows'), Configured \subseteq KnownPaths(rows'),
               KnownPaths(rows') \subseteq Registered
        PROVE  RowsOK'
    <2>1. KnownPaths(rows') \subseteq Registered'
      BY <1>2, <1>3
    <2> QED
      BY <1>3, <2>1 DEF RowsOK, KnownPaths, Faithful
  <1>4. RowsOK
    BY DEF MirrorInv
  <1>5. ASSUME rows' = rows, ui' = ui \/ (ui = "on" /\ ui' = "quit")
        PROVE  RowsOK'
    <2>1. CASE ui = "off"
      <3>1. rows = <<>> /\ ui' = "off"
        BY <1>4, <1>5, <2>1 DEF RowsOK
      <3> QED
        BY <1>5, <3>1 DEF RowsOK
    <2>2. CASE ui # "off"
      <3>1. /\ Faithful(rows') /\ Configured \subseteq KnownPaths(rows')
            /\ KnownPaths(rows') \subseteq Registered
        BY <1>4, <1>5, <2>2 DEF RowsOK
      <3> QED
        BY <1>3, <1>5, <2>2, <3>1
    <2> QED
      BY <2>1, <2>2
  <1>6. CASE ServerStep \/ StreamLoses \/ SubscribeUi \/ Disconnect \/ TakeConfig
    <2>1. UNCHANGED <<ui, rows>>
      BY <1>6 DEF ServerStep, Push, Announce, Pop, Serve, Depart, Reject, EmitEvent,
           StreamLoses, SubscribeUi, Disconnect, TakeConfig, uiVars
    <2> QED
      BY <1>5, <2>1
  <1>7. CASE TakeSnapshot \/ StartLocal
    <2>1. PICK snapshot : /\ StartUi(snapshot)
                          /\ \A p \in DOMAIN snapshot : snapshot[p] \in Nat
      <3>1. CASE TakeSnapshot
        <4>1. StartUi(Head(pipe).body) /\ Head(pipe).body \in Snapshots
          BY <3>1, FirstMessage DEF TakeSnapshot, MirrorInv
        <4> QED
          BY <4>1 DEF Snapshots
      <3>2. CASE StartLocal
        BY <3>2 DEF StartLocal
      <3> QED
        BY <1>7, <3>1, <3>2
    <2>2. Faithful(rows') /\ KnownPaths(rows') = Configured /\ ui' = "on"
      BY <2>1, FirstRows DEF StartUi
    <2> QED
      BY <1>2, <1>3, <2>2
  <1>8. CASE TakeEvent
    <2>1. /\ ui = "on" /\ ui' = "on" /\ Faithful(rows')
          /\ \/ rows' = rows
             \/ KnownPaths(rows') = KnownPaths(rows) \cup {Head(pipe).body.path}
                /\ Head(pipe).body.path \in Registered
      BY <1>8, TakeEventRows
    <2>2. Configured \subseteq KnownPaths(rows) /\ KnownPaths(rows) \subseteq Registered
      BY <1>4, <2>1 DEF RowsOK
    <2>3. Configured \subseteq KnownPaths(rows') /\ KnownPaths(rows') \subseteq Registered
      BY <2>1, <2>2
    <2> QED
      BY <1>3, <2>1, <2>3
  <1>9. CASE Tick
    <2>1. ui' = "on" /\ Faithful(rows') /\ KnownPaths(rows') = Registered
      BY <1>9, TickRows
    <2> QED
      BY <1>2, <1>3, <2>1
  <1>10. CASE Press \/ StreamEnded
    <2>1. \/ rows' = rows /\ (ui' = ui \/ (ui = "on" /\ ui' = "quit"))
          \/ KeyReset
      BY <1>10 DEF Press, StreamEnded, Key, KeyMove, KeyPause, QuitUi
    <2>2. CASE KeyReset
      <3>1. ui = "on" /\ ui' = "on"
        BY <2>2 DEF KeyReset
      <3>2. Faithful(rows) /\ Configured \subseteq KnownPaths(rows)
            /\ KnownPaths(rows) \subseteq Registered
        BY <1>4, <3>1 DEF RowsOK
      <3>3. Faithful(rows') /\ KnownPaths(rows') = KnownPaths(rows)
        BY <2>2, <3>2, ResetRows
      <3> QED
        BY <1>3, <3>1, <3>2, <3>3
    <2> QED
      BY <1>5, <2>1, <2>2
  <1> QED
    BY <1>6, <1>7, <1>8, <1>9, <1>10 DEF MirrorNext, UiStep

(* The invariant holds at the start. *)
LEMMA MirrorInitInv ==
    MirrorInit => MirrorInv
  <1> SUFFICES ASSUME MirrorInit PROVE MirrorInv
    OBVIOUS
  <1>1. MirrorTypeOK
    BY RequestsAssumption DEF MirrorInit, UiInit, MirrorTypeOK, Paths, Stages
  <1>2. PipeOK
    BY EmptySeq DEF MirrorInit, PipeOK
  <1>3. RowsOK
    BY DEF MirrorInit, UiInit, RowsOK
  <1> QED
    BY <1>1, <1>2, <1>3 DEF MirrorInv

(* Every step keeps the invariant. *)
LEMMA MirrorStepInv ==
    ASSUME IsInjective(ConfigRows)
    PROVE  MirrorInv /\ [MirrorNext]_mirrorVars => MirrorInv'
  <1>1. ASSUME MirrorInv, MirrorNext PROVE MirrorInv'
    <2>1. MirrorTypeOK'
      BY <1>1, MirrorTypeStep DEF MirrorInv
    <2>2. PipeOK'
      BY <1>1, PipeStep
    <2>3. RowsOK'
      BY <1>1, RowsStep
    <2> QED
      BY <2>1, <2>2, <2>3 DEF MirrorInv
  <1>2. ASSUME MirrorInv, UNCHANGED mirrorVars PROVE MirrorInv'
    <2>1. UNCHANGED <<asked, stage, queued, ui, rows, pipe>>
      BY <1>2 DEF mirrorVars, uiVars, streamVars, fixedVars, serverVars
    <2>2. Registered' = Registered
      BY <2>1 DEF Registered
    <2>3. MirrorTypeOK /\ PipeOK /\ RowsOK
      BY <1>2 DEF MirrorInv
    <2>4. MirrorTypeOK'
      BY <2>1, <2>3 DEF MirrorTypeOK
    <2>5. PipeOK'
      BY <2>1, <2>2, <2>3 DEF PipeOK, StreamMessages, EventsOf, ConfigMsg, StateMsg, EventMsg
    <2>6. RowsOK'
      BY <2>1, <2>2, <2>3 DEF RowsOK, Faithful, KnownPaths
    <2> QED
      BY <2>4, <2>5, <2>6 DEF MirrorInv
  <1> QED
    BY <1>1, <1>2

-----------------------------------------------------------------------------
(* The theorems. *)

(* If the configuration names each path once, a path has one row, which shows the
   settings the server gave it, though the UI makes its rows from events and never
   hears of the dynamic endpoints between a path and its configured ancestor. *)
THEOREM SettingsShown ==
    ASSUME IsInjective(ConfigRows)
    PROVE  MirrorSpec => []ShownSettings
  <1>1. MirrorInv => ShownSettings
    <2> SUFFICES ASSUME MirrorInv PROVE ShownSettings
      OBVIOUS
    <2>1. CASE rows = <<>>
      BY <2>1 DEF ShownSettings
    <2>2. CASE Faithful(rows)
      BY <2>2 DEF ShownSettings, Faithful, Origin
    <2> QED
      BY <2>1, <2>2 DEF MirrorInv, RowsOK
  <1> QED
    BY <1>1, MirrorInitInv, MirrorStepInv, PTL DEF MirrorSpec

(* A row that is still there is found under its path, unchanged. *)
LEMMA SameRow ==
    ASSUME NEW rs, NEW rt, Faithful(rs), Faithful(rt),
           NEW i \in DOMAIN rs, NEW j \in DOMAIN rt, rt[j] = rs[i]
    PROVE  LET p == rs[i].path
               old == rs[IndexForPath(rs, p)]
               new == rt[IndexForPath(rt, p)]
           IN  p \in KnownPaths(rt) /\ [new EXCEPT !.origin = old.origin] = old
  <1>1. IndexForPath(rs, rs[i].path) = i
    BY IndexOfRow
  <1>2. rs[i].path \in KnownPaths(rt) /\ IndexForPath(rt, rs[i].path) = j
    BY IndexOfRow
  <1>3. rs[i] \in Rows
    BY DEF Faithful
  <1>4. [rs[i] EXCEPT !.origin = rs[i].origin] = rs[i]
    BY <1>3 DEF Rows
  <1> QED
    BY <1>1, <1>2, <1>4

(* What StatsFollowPath says of one path. *)
Follows(p) ==
    /\ p \in KnownPaths(rows')
    /\ LET old == rows[IndexForPath(rows, p)]
           new == rows'[IndexForPath(rows', p)]
       IN  \/ [new EXCEPT !.origin = old.origin] = old
           \/ pipe' # pipe /\ Head(pipe).body.path = p
           \/ /\ pipe' = pipe /\ rows[selected].path = p
              /\ new = [old EXCEPT !.served = 0, !.rejected = 0]

(* If every row is still there, every path keeps its statistics. *)
LEMMA AllFollow ==
    ASSUME Faithful(rows), Faithful(rows'),
           \A i \in DOMAIN rows : \E j \in DOMAIN rows' : rows'[j] = rows[i]
    PROVE  \A p \in KnownPaths(rows) : Follows(p)
  <1> SUFFICES ASSUME NEW p \in KnownPaths(rows) PROVE Follows(p)
    OBVIOUS
  <1>1. PICK i \in DOMAIN rows : rows[i].path = p
    BY DEF KnownPaths
  <1>2. PICK j \in DOMAIN rows' : rows'[j] = rows[i]
    BY <1>1
  <1>3. LET old == rows[IndexForPath(rows, p)]
            new == rows'[IndexForPath(rows', p)]
        IN  p \in KnownPaths(rows') /\ [new EXCEPT !.origin = old.origin] = old
    BY <1>1, <1>2, SameRow
  <1> QED
    BY <1>3 DEF Follows

(* Every step of the system keeps the statistics with their paths. *)
LEMMA StepFollows ==
    ASSUME IsInjective(ConfigRows), MirrorInv, MirrorNext, ui = "on"
    PROVE  \A p \in KnownPaths(rows) : Follows(p)
  <1>1. Faithful(rows)
    BY DEF MirrorInv, RowsOK
  <1>2. CASE rows' = rows
    <2>1. Faithful(rows')
      BY <1>1, <1>2 DEF Faithful
    <2>2. \A i \in DOMAIN rows : \E j \in DOMAIN rows' : rows'[j] = rows[i]
      BY <1>2
    <2> QED
      BY <1>1, <2>1, <2>2, AllFollow
  <1>3. CASE rows' # rows
    <2>1. TakeEvent \/ Tick \/ (Press /\ KeyReset)
      BY <1>3 DEF MirrorNext, ServerStep, Push, Announce, Pop, Serve, Depart, Reject,
           EmitEvent, StreamLoses, SubscribeUi, Disconnect, UiStep, TakeConfig, TakeSnapshot,
           StartLocal, StartUi, Press, Key, KeyMove, KeyPause, QuitUi, StreamEnded, uiVars
    <2>2. CASE Tick
      <3>1. Faithful(rows') /\ \A i \in DOMAIN rows : \E j \in DOMAIN rows' : rows'[j] = rows[i]
        BY <2>2, TickRows
      <3> QED
        BY <1>1, <3>1, AllFollow
    <2>3. CASE TakeEvent
      <3> DEFINE q == Head(pipe).body.path
      <3>1. /\ Faithful(rows')
            /\ KnownPaths(rows') = KnownPaths(rows) \cup {q}
            /\ KeepsOthers(rows, rows', q) /\ pipe # <<>> /\ pipe' = Tail(pipe)
        BY <1>3, <2>3, TakeEventRows
      <3>2. pipe' # pipe
        <4>1. Len(Tail(pipe)) = Len(pipe) - 1 /\ Len(pipe) \in Nat
          BY <3>1, HeadTailProperties DEF MirrorInv, PipeOK
        <4>2. Len(Tail(pipe)) # Len(pipe)
          BY <4>1
        <4>3. Tail(pipe) # pipe
          BY <4>2, Zenon
        <4> QED
          BY <3>1, <4>3, Zenon
      <3> SUFFICES ASSUME NEW p \in KnownPaths(rows) PROVE Follows(p)
        OBVIOUS
      <3>3. CASE p = q
        BY <3>1, <3>2, <3>3 DEF Follows
      <3>4. CASE p # q
        <4>1. PICK i \in DOMAIN rows : rows[i].path = p
          BY DEF KnownPaths
        <4>2. PICK j \in DOMAIN rows' : rows'[j] = rows[i]
          BY <3>1, <3>4, <4>1 DEF KeepsOthers
        <4>3. LET old == rows[IndexForPath(rows, p)]
                  new == rows'[IndexForPath(rows', p)]
              IN  p \in KnownPaths(rows') /\ [new EXCEPT !.origin = old.origin] = old
          BY <1>1, <3>1, <4>1, <4>2, SameRow
        <4> QED
          BY <4>3 DEF Follows
      <3> QED
        BY <3>3, <3>4
    <2>4. CASE Press /\ KeyReset
      <3>1. /\ Faithful(rows') /\ KnownPaths(rows') = KnownPaths(rows)
            /\ selected \in DOMAIN rows /\ DOMAIN rows' = DOMAIN rows
            /\ rows'[selected] = [rows[selected] EXCEPT !.served = 0, !.rejected = 0]
            /\ KeepsOthers(rows, rows', rows[selected].path)
        BY <1>1, <1>3, <2>4, ResetRows
      <3>2. pipe' = pipe
        BY <2>4 DEF Press, streamVars
      <3> SUFFICES ASSUME NEW p \in KnownPaths(rows) PROVE Follows(p)
        OBVIOUS
      <3>3. CASE p = rows[selected].path
        <4>1. rows[selected] \in Rows
          BY <1>1, <3>1 DEF Faithful
        <4>2. rows'[selected].path = p
          BY <3>1, <3>3, <4>1 DEF Rows
        <4>3. IndexForPath(rows, p) = selected
          BY <1>1, <3>1, <3>3, IndexOfRow
        <4>4. IndexForPath(rows', p) = selected /\ p \in KnownPaths(rows')
          BY <3>1, <4>2, IndexOfRow
        <4> QED
          BY <3>1, <3>2, <3>3, <4>3, <4>4 DEF Follows
      <3>4. CASE p # rows[selected].path
        <4>1. PICK i \in DOMAIN rows : rows[i].path = p
          BY DEF KnownPaths
        <4>2. PICK j \in DOMAIN rows' : rows'[j] = rows[i]
          BY <3>1, <3>4, <4>1 DEF KeepsOthers
        <4>3. LET old == rows[IndexForPath(rows, p)]
                  new == rows'[IndexForPath(rows', p)]
              IN  p \in KnownPaths(rows') /\ [new EXCEPT !.origin = old.origin] = old
          BY <1>1, <3>1, <4>1, <4>2, SameRow
        <4> QED
          BY <4>3 DEF Follows
      <3> QED
        BY <3>3, <3>4
    <2> QED
      BY <2>1, <2>2, <2>3, <2>4
  <1> QED
    BY <1>2, <1>3

(* If the configuration names each path once, the statistics of a path stay with it
   through events, insertions, ticks and moves of the selection; only an event of
   that path or a reset of its row changes them. *)
THEOREM StatsStayWithPath ==
    ASSUME IsInjective(ConfigRows)
    PROVE  MirrorSpec => StatsFollowPath
  <1>1. MirrorInv /\ [MirrorNext]_mirrorVars =>
          [ui = "on" => \A p \in KnownPaths(rows) : Follows(p)]_mirrorVars
    BY StepFollows
  <1>2. MirrorSpec => [][ui = "on" => \A p \in KnownPaths(rows) : Follows(p)]_mirrorVars
    BY <1>1, MirrorInitInv, MirrorStepInv, PTL DEF MirrorSpec
  <1> QED
    BY <1>2 DEF StatsFollowPath, Follows

-----------------------------------------------------------------------------
(* Where the dots of a path will stand when everything under way has arrived. *)

(* What message m makes of x dots of p. *)
After(p, m, x) ==
    IF m.type = "event" THEN (IF m.body.path = p THEN Shown(m.body.kind, x) ELSE x)
    ELSE IF m.type = "state" THEN Seed(p, m.body) ELSE x

(* g[i] is what the first i messages of s make of x dots of p; Ends names the last. *)
Course(g, p, x, s) ==
    /\ g \in [0 .. Len(s) -> Nat]
    /\ g[0] = x
    /\ \A i \in 1 .. Len(s) : g[i] = After(p, s[i], g[i - 1])

Ends(p, x, s, e) == \E g : Course(g, p, x, s) /\ g[Len(s)] = e

Apart(x, y) == IF x >= y THEN x - y ELSE y - x

AnyMessage == StreamMessages(Paths)

(* What a message may be. *)
LEMMA MessageKinds ==
    ASSUME NEW m \in AnyMessage
    PROVE  /\ m.type = "event" => m.body \in EventsOf(Paths)
           /\ m.type = "state" => m.body \in Snapshots
  <1>1. CASE m = ConfigMsg
    BY <1>1 DEF ConfigMsg
  <1>2. CASE \E s \in Snapshots : m = StateMsg(s)
    BY <1>2 DEF StateMsg
  <1>3. CASE \E e \in EventsOf(Paths) : m = EventMsg(e)
    BY <1>3 DEF EventMsg, EventsOf
  <1> QED
    BY <1>1, <1>2, <1>3 DEF AnyMessage, StreamMessages

(* A snapshot seeds a number of dots. *)
LEMMA SeedType ==
    ASSUME NEW p, NEW s \in Snapshots
    PROVE  Seed(p, s) \in Nat
  <1>1. PICK P \in SUBSET Paths : s \in [P -> Nat]
    BY DEF Snapshots
  <1> QED
    BY <1>1 DEF Seed

(* Counting an event changes the dots by at most one, and brings two numbers of
   dots no further apart. *)
LEMMA ShownSteps ==
    ASSUME NEW kind, NEW x \in Nat
    PROVE  /\ Shown(kind, x) \in Nat /\ Apart(Shown(kind, x), x) <= 1
           /\ \A y \in Nat : Apart(Shown(kind, x), Shown(kind, y)) <= Apart(x, y)
  <1>1. ASSUME NEW z \in Nat
        PROVE  Shown(kind, z) = IF kind = "queued" THEN z + 1
                                ELSE IF kind = "served" THEN (IF z = 0 THEN 0 ELSE z - 1)
                                ELSE z
    <2>1. Max({0, z - 1}) = IF 0 >= z - 1 THEN 0 ELSE z - 1
      BY MaxOfTwo
    <2> QED
      BY <2>1 DEF Shown
  <1>2. CASE kind = "queued"
    BY <1>1, <1>2 DEF Apart
  <1>3. CASE kind = "served"
    BY <1>1, <1>3 DEF Apart
  <1>4. CASE kind # "queued" /\ kind # "served"
    BY <1>1, <1>4 DEF Apart
  <1> QED
    BY <1>2, <1>3, <1>4

(* So does any message, and only a snapshot or an event of p changes the dots of p. *)
LEMMA AfterSteps ==
    ASSUME NEW p, NEW m \in AnyMessage, NEW x \in Nat
    PROVE  /\ After(p, m, x) \in Nat
           /\ \A y \in Nat : Apart(After(p, m, x), After(p, m, y)) <= Apart(x, y)
           /\ m.type = "event" => Apart(After(p, m, x), x) <= 1
           /\ m.type = "event" /\ m.body.path # p => After(p, m, x) = x
  <1>1. CASE m.type = "event" /\ m.body.path = p
    <2>1. \A z : After(p, m, z) = Shown(m.body.kind, z)
      BY <1>1 DEF After
    <2> QED
      BY <1>1, <2>1, ShownSteps
  <1>2. CASE m.type = "event" /\ m.body.path # p
    <2>1. \A z : After(p, m, z) = z
      BY <1>2 DEF After
    <2> QED
      BY <1>2, <2>1 DEF Apart
  <1>3. CASE m.type = "state"
    <2>1. \A z : After(p, m, z) = Seed(p, m.body)
      BY <1>3 DEF After
    <2>2. Seed(p, m.body) \in Nat
      BY <1>3, MessageKinds, SeedType
    <2>3. m.type # "event"
      BY <1>3
    <2> HIDE DEF Seed
    <2> QED
      BY <2>1, <2>2, <2>3 DEF Apart
  <1>4. CASE m.type # "event" /\ m.type # "state"
    <2>1. \A z : After(p, m, z) = z
      BY <1>4 DEF After
    <2> QED
      BY <1>4, <2>1 DEF Apart
  <1> QED
    BY <1>1, <1>2, <1>3, <1>4

(* A sequence of numbers none of which exceeds the one before ends no higher than
   it began. *)
LEMMA NeverGrows ==
    ASSUME NEW n \in Nat, NEW f \in [0 .. n -> Int],
           \A k \in 1 .. n : f[k] <= f[k - 1]
    PROVE  \A k \in 0 .. n : f[k] <= f[0]
  <1> DEFINE T == {k \in 0 .. n : ~(f[k] <= f[0])}
  <1> SUFFICES ASSUME T # {} PROVE FALSE
    OBVIOUS
  <1>1. T \in SUBSET Nat
    OBVIOUS
  <1> DEFINE k == Min(T)
  <1> HIDE DEF T
  <1>2. k \in T /\ \A y \in T : k <= y
    BY <1>1, MinIsSmallest
  <1> HIDE DEF k
  <1>3. k \in 0 .. n /\ ~(f[k] <= f[0])
    BY <1>2 DEF T
  <1>4. k # 0
    BY <1>3
  <1>5. k - 1 \in 0 .. n /\ k \in 1 .. n
    BY <1>3, <1>4
  <1>6. k - 1 \notin T
    BY <1>2, <1>5
  <1>7. f[k - 1] <= f[0]
    BY <1>5, <1>6 DEF T
  <1>8. f[k] <= f[k - 1] /\ f[k] \in Int /\ f[k - 1] \in Int /\ f[0] \in Int
    BY <1>5
  <1> QED
    BY <1>3, <1>7, <1>8

(* Any messages lead somewhere. *)
LEMMA EndsExists ==
    ASSUME NEW p, NEW x \in Nat, NEW s \in Seq(AnyMessage)
    PROVE  \E e \in Nat : Ends(p, x, s, e)
  <1> DEFINE n == Len(s)
             Begun(k) == \E g : /\ g \in [0 .. k -> Nat] /\ g[0] = x
                                /\ \A i \in 1 .. k : g[i] = After(p, s[i], g[i - 1])
             T == {k \in 0 .. n : ~Begun(k)}
  <1>1. n \in Nat /\ \A i \in 1 .. n : s[i] \in AnyMessage
    OBVIOUS
  <1>2. Begun(0)
    <2>1. LET g == [i \in 0 .. 0 |-> x]
          IN  g \in [0 .. 0 -> Nat] /\ g[0] = x /\ \A i \in 1 .. 0 : g[i] = After(p, s[i], g[i - 1])
      OBVIOUS
    <2> QED
      BY <2>1
  <1>3. ASSUME NEW k \in 1 .. n, Begun(k - 1) PROVE Begun(k)
    <2>1. PICK g : /\ g \in [0 .. k - 1 -> Nat] /\ g[0] = x
                   /\ \A i \in 1 .. k - 1 : g[i] = After(p, s[i], g[i - 1])
      BY <1>3
    <2> DEFINE v == After(p, s[k], g[k - 1])
               h == [i \in 0 .. k |-> IF i = k THEN v ELSE g[i]]
    <2>2. k \in Nat /\ k >= 1 /\ n \in Nat
      BY <1>1
    <2>3. g[k - 1] \in Nat
      BY <2>1, <2>2
    <2>4. v \in Nat
      BY <1>1, <2>3, AfterSteps
    <2>5. h \in [0 .. k -> Nat]
      BY <2>1, <2>2, <2>4
    <2>6. h[0] = x
      BY <2>1, <2>2
    <2>7. ASSUME NEW i \in 1 .. k PROVE h[i] = After(p, s[i], h[i - 1])
      <3>1. CASE i = k
        <4>1. h[i] = v /\ h[i - 1] = g[k - 1]
          BY <2>2, <3>1
        <4> QED
          BY <3>1, <4>1
      <3>2. CASE i # k
        <4>1. i \in 1 .. k - 1 /\ h[i] = g[i] /\ h[i - 1] = g[i - 1]
          BY <2>2, <3>2
        <4> QED
          BY <2>1, <4>1
      <3> QED
        BY <3>1, <3>2
    <2> HIDE DEF h
    <2> QED
      BY <2>5, <2>6, <2>7
  <1> HIDE DEF Begun
  <1>4. T = {}
    <2> SUFFICES ASSUME T # {} PROVE FALSE
      OBVIOUS
    <2> DEFINE k == Min(T)
    <2>1. T \in SUBSET Nat
      BY <1>1
    <2> HIDE DEF T
    <2>2. k \in T /\ \A y \in T : k <= y
      BY <2>1, MinIsSmallest
    <2> HIDE DEF k
    <2>3. k \in 0 .. n /\ ~Begun(k)
      BY <2>2 DEF T
    <2>4. k # 0
      BY <1>2, <2>3
    <2>5. k \in 1 .. n /\ k - 1 \in 0 .. n /\ k - 1 < k
      BY <1>1, <2>3, <2>4
    <2>6. k - 1 \notin T
      BY <2>2, <2>5
    <2>7. Begun(k - 1)
      BY <2>5, <2>6 DEF T
    <2> QED
      BY <1>3, <2>3, <2>5, <2>7
  <1>5. Begun(n)
    BY <1>1, <1>4
  <1>6. PICK g : /\ g \in [0 .. n -> Nat] /\ g[0] = x
                 /\ \A i \in 1 .. n : g[i] = After(p, s[i], g[i - 1])
    BY <1>5 DEF Begun
  <1>7. Course(g, p, x, s) /\ g[n] \in Nat
    BY <1>1, <1>6 DEF Course
  <1> QED
    BY <1>7 DEF Ends

(* Nothing under way changes nothing. *)
LEMMA EndsEmpty ==
    ASSUME NEW p, NEW x \in Nat, NEW e
    PROVE  Ends(p, x, <<>>, e) <=> e = x
  <1>1. Ends(p, x, <<>>, e) => e = x
    BY DEF Ends, Course
  <1>2. ASSUME e = x PROVE Ends(p, x, <<>>, e)
    <2>1. Course([i \in 0 .. 0 |-> x], p, x, <<>>)
      BY DEF Course
    <2> QED
      BY <1>2, <2>1 DEF Ends
  <1> QED
    BY <1>1, <1>2

(* One more message. *)
LEMMA EndsAppend ==
    ASSUME NEW p, NEW x \in Nat, NEW s \in Seq(AnyMessage), NEW m \in AnyMessage,
           NEW e \in Nat, Ends(p, x, s, e)
    PROVE  Ends(p, x, Append(s, m), After(p, m, e))
  <1> DEFINE n == Len(s)
             t == Append(s, m)
             v == After(p, m, e)
  <1>1. PICK g : /\ g \in [0 .. n -> Nat] /\ g[0] = x /\ g[n] = e
                 /\ \A i \in 1 .. n : g[i] = After(p, s[i], g[i - 1])
    BY DEF Ends, Course
  <1>2. /\ n \in Nat /\ Len(t) = n + 1 /\ t[n + 1] = m
        /\ \A i \in 1 .. n : t[i] = s[i]
    BY AppendProperties
  <1>3. v \in Nat
    BY AfterSteps
  <1> DEFINE h == [i \in 0 .. n + 1 |-> IF i = n + 1 THEN v ELSE g[i]]
  <1>4. h \in [0 .. n + 1 -> Nat]
    BY <1>1, <1>2, <1>3
  <1>5. h[0] = x /\ h[n + 1] = v
    BY <1>1, <1>2
  <1>6. ASSUME NEW i \in 1 .. n + 1 PROVE h[i] = After(p, t[i], h[i - 1])
    <2>1. CASE i = n + 1
      <3>1. h[i] = v /\ h[i - 1] = e /\ t[i] = m
        BY <1>1, <1>2, <2>1
      <3> QED
        BY <3>1
    <2>2. CASE i # n + 1
      <3>1. i \in 1 .. n /\ h[i] = g[i] /\ h[i - 1] = g[i - 1]
        BY <1>2, <2>2
      <3> QED
        BY <1>1, <1>2, <3>1
    <2> QED
      BY <2>1, <2>2
  <1> HIDE DEF h, t, v
  <1>7. Course(h, p, x, t) /\ h[Len(t)] = v
    BY <1>2, <1>4, <1>5, <1>6 DEF Course
  <1> QED
    BY <1>7 DEF Ends, t, v

(* One message less: the first has arrived. *)
LEMMA EndsTail ==
    ASSUME NEW p, NEW x \in Nat, NEW s \in Seq(AnyMessage), s # <<>>,
           NEW e, Ends(p, x, s, e)
    PROVE  Ends(p, After(p, Head(s), x), Tail(s), e)
  <1> DEFINE n == Len(s)
             t == Tail(s)
             h(g) == [i \in 0 .. n - 1 |-> g[i + 1]]
  <1>1. PICK g : /\ g \in [0 .. n -> Nat] /\ g[0] = x /\ g[n] = e
                 /\ \A i \in 1 .. n : g[i] = After(p, s[i], g[i - 1])
    BY DEF Ends, Course
  <1>2. /\ n \in Nat /\ n >= 1 /\ Len(t) = n - 1 /\ s[1] = Head(s)
        /\ \A i \in 1 .. n - 1 : t[i] = s[i + 1]
    <2>1. n \in Nat /\ n # 0
      BY EmptySeq
    <2> QED
      BY <2>1, HeadTailProperties
  <1>3. h(g) \in [0 .. n - 1 -> Nat]
    BY <1>1, <1>2
  <1>4. h(g)[0] = After(p, Head(s), x) /\ h(g)[n - 1] = e
    <2>1. h(g)[0] = g[1] /\ h(g)[n - 1] = g[n]
      BY <1>2
    <2>2. g[1] = After(p, s[1], g[0])
      <3>1. 1 \in 1 .. n /\ g[1 - 1] = g[0]
        BY <1>2
      <3> QED
        BY <1>1, <3>1
    <2> QED
      BY <1>1, <1>2, <2>1, <2>2
  <1>5. ASSUME NEW i \in 1 .. n - 1 PROVE h(g)[i] = After(p, t[i], h(g)[i - 1])
    <2>1. i + 1 \in 1 .. n /\ (i + 1) - 1 = i /\ h(g)[i] = g[i + 1] /\ h(g)[i - 1] = g[i]
      BY <1>2
    <2>2. g[i + 1] = After(p, s[i + 1], g[(i + 1) - 1])
      BY <1>1, <2>1
    <2> QED
      BY <1>2, <2>1, <2>2
  <1> HIDE DEF h, t
  <1>6. Course(h(g), p, After(p, Head(s), x), t) /\ h(g)[Len(t)] = e
    BY <1>2, <1>3, <1>4, <1>5 DEF Course
  <1> QED
    BY <1>6 DEF Ends, t

(* The same messages bring two numbers of dots no further apart. *)
LEMMA EndsClose ==
    ASSUME NEW p, NEW x \in Nat, NEW y \in Nat, NEW s \in Seq(AnyMessage),
           NEW e \in Nat, NEW d \in Nat, Ends(p, x, s, e), Ends(p, y, s, d)
    PROVE  Apart(e, d) <= Apart(x, y)
  <1> DEFINE n == Len(s)
  <1>1. PICK g : /\ g \in [0 .. n -> Nat] /\ g[0] = x /\ g[n] = e
                 /\ \A i \in 1 .. n : g[i] = After(p, s[i], g[i - 1])
    BY DEF Ends, Course
  <1>2. PICK h : /\ h \in [0 .. n -> Nat] /\ h[0] = y /\ h[n] = d
                 /\ \A i \in 1 .. n : h[i] = After(p, s[i], h[i - 1])
    BY DEF Ends, Course
  <1>3. n \in Nat /\ \A i \in 1 .. n : s[i] \in AnyMessage
    OBVIOUS
  <1> DEFINE f == [k \in 0 .. n |-> Apart(g[k], h[k])]
  <1>4. f \in [0 .. n -> Int]
    BY <1>1, <1>2 DEF Apart
  <1>5. ASSUME NEW k \in 1 .. n PROVE f[k] <= f[k - 1]
    <2>1. k \in 0 .. n /\ k - 1 \in 0 .. n
      BY <1>3
    <2>2. /\ g[k] = After(p, s[k], g[k - 1]) /\ h[k] = After(p, s[k], h[k - 1])
          /\ g[k - 1] \in Nat /\ h[k - 1] \in Nat
      BY <1>1, <1>2, <2>1
    <2>3. Apart(g[k], h[k]) <= Apart(g[k - 1], h[k - 1])
      BY <1>3, <2>2, AfterSteps
    <2> QED
      BY <2>1, <2>3
  <1> HIDE DEF f
  <1>6. f[n] <= f[0]
    <2>1. \A k \in 0 .. n : f[k] <= f[0]
      BY <1>3, <1>4, <1>5, NeverGrows
    <2> QED
      BY <1>3, <2>1
  <1> QED
    BY <1>1, <1>2, <1>3, <1>6 DEF f

(* Places of a sequence of n elements and of the same one without its place   *)
(* i: what is at i + k in the first is at (i - 1) + k in the second.           *)
LEMMA ShiftedPlace ==
  ASSUME NEW n \in Int, NEW i \in Int, NEW k \in Int, 1 <= i, i <= n, 1 <= k, k <= n - i
  PROVE  /\ k \in 0 .. n - i /\ k - 1 \in 0 .. n - i /\ i + k \in 1 .. n
         /\ (i - 1) + k \in 1 .. n - 1 /\ ~((i - 1) + k < i)
         /\ ((i - 1) + k) + 1 = i + k /\ ((i - 1) + k) - 1 = (i - 1) + (k - 1)
         /\ (i + k) - 1 = i + (k - 1)
<1>1. k \in 0 .. n - i /\ k - 1 \in 0 .. n - i
  OBVIOUS
<1>2. i + k \in 1 .. n
  OBVIOUS
<1>3. (i - 1) + k \in 1 .. n - 1 /\ ~((i - 1) + k < i)
  OBVIOUS
<1>4. ((i - 1) + k) + 1 = i + k /\ ((i - 1) + k) - 1 = (i - 1) + (k - 1)
  OBVIOUS
<1>5. (i + k) - 1 = i + (k - 1)
  OBVIOUS
<1> QED
  BY <1>1, <1>2, <1>3, <1>4, <1>5

(* A lost event moves the end by one, and only that of its own path. *)
LEMMA EndsWithout ==
    ASSUME NEW p, NEW x \in Nat, NEW s \in Seq(AnyMessage),
           NEW i \in DOMAIN s, s[i].type = "event",
           NEW e \in Nat, NEW d \in Nat, Ends(p, x, s, e), Ends(p, x, RemoveAt(s, i), d)
    PROVE  Apart(d, e) <= IF s[i].body.path = p THEN 1 ELSE 0
  <1> DEFINE n == Len(s)
             t == RemoveAt(s, i)
             one == IF s[i].body.path = p THEN 1 ELSE 0
  <1>1. /\ n \in Nat /\ i \in 1 .. n /\ Len(t) = n - 1
        /\ \A k \in 1 .. n - 1 : t[k] = IF k < i THEN s[k] ELSE s[k + 1]
        /\ \A k \in 1 .. n : s[k] \in AnyMessage
    BY RemoveAtIndex
  <1>2. PICK g : /\ g \in [0 .. n -> Nat] /\ g[0] = x /\ g[n] = e
                 /\ \A k \in 1 .. n : g[k] = After(p, s[k], g[k - 1])
    BY DEF Ends, Course
  <1>3. PICK h : /\ h \in [0 .. n - 1 -> Nat] /\ h[0] = x /\ h[n - 1] = d
                 /\ \A k \in 1 .. n - 1 : h[k] = After(p, t[k], h[k - 1])
    BY <1>1 DEF Ends, Course
  <1> HIDE DEF t
  <1>4. h[i - 1] = g[i - 1] /\ g[i - 1] \in Nat
    <2> DEFINE f == [k \in 0 .. i - 1 |-> Apart(h[k], g[k])]
    <2>1. \A k \in 0 .. i - 1 : k \in 0 .. n /\ k \in 0 .. n - 1
      BY <1>1
    <2>2. \A k \in 0 .. i - 1 : g[k] \in Nat /\ h[k] \in Nat
      BY <1>2, <1>3, <2>1
    <2>3. f \in [0 .. i - 1 -> Int]
      BY <2>2 DEF Apart
    <2>4. ASSUME NEW k \in 1 .. i - 1 PROVE f[k] <= f[k - 1]
      <3>1. k \in 0 .. i - 1 /\ k - 1 \in 0 .. i - 1 /\ k \in 1 .. n /\ k \in 1 .. n - 1 /\ k < i
        BY <1>1
      <3>2. t[k] = s[k] /\ s[k] \in AnyMessage
        BY <1>1, <3>1
      <3>3. g[k] = After(p, s[k], g[k - 1]) /\ h[k] = After(p, s[k], h[k - 1])
        BY <1>2, <1>3, <3>1, <3>2
      <3>4. Apart(h[k], g[k]) <= Apart(h[k - 1], g[k - 1])
        BY <2>2, <3>1, <3>2, <3>3, AfterSteps
      <3> QED
        BY <3>1, <3>4
    <2>5. i - 1 \in Nat /\ i - 1 \in 0 .. i - 1 /\ 0 \in 0 .. i - 1
      BY <1>1
    <2> HIDE DEF f
    <2>6. f[i - 1] <= f[0]
      BY <2>3, <2>4, <2>5, NeverGrows
    <2>7. f[0] = 0 /\ f[i - 1] = Apart(h[i - 1], g[i - 1])
      BY <1>2, <1>3, <2>5 DEF f, Apart
    <2> QED
      BY <2>2, <2>5, <2>6, <2>7 DEF Apart
  <1>5. Apart(h[i - 1], g[i]) <= one
    <2>1. g[i] = After(p, s[i], g[i - 1]) /\ s[i] \in AnyMessage
      BY <1>1, <1>2
    <2>2. CASE s[i].body.path = p
      <3>1. Apart(After(p, s[i], g[i - 1]), g[i - 1]) <= 1 /\ After(p, s[i], g[i - 1]) \in Nat
        BY <1>4, <2>1, AfterSteps
      <3> QED
        BY <1>4, <2>1, <2>2, <3>1 DEF Apart
    <2>3. CASE s[i].body.path # p
      <3>1. After(p, s[i], g[i - 1]) = g[i - 1]
        BY <1>4, <2>1, <2>3, AfterSteps
      <3> QED
        BY <1>4, <2>1, <2>3, <3>1 DEF Apart
    <2> QED
      BY <2>2, <2>3
  <1> DEFINE f == [k \in 0 .. n - i |-> Apart(h[(i - 1) + k], g[i + k])]
  <1>6. \A k \in 0 .. n - i : h[(i - 1) + k] \in Nat /\ g[i + k] \in Nat
    <2>1. \A k \in 0 .. n - i : (i - 1) + k \in 0 .. n - 1 /\ i + k \in 0 .. n
      BY <1>1
    <2> QED
      BY <1>2, <1>3, <2>1
  <1>7. f \in [0 .. n - i -> Int]
    BY <1>6, SMTT(30) DEF Apart
  <1>8. ASSUME NEW k \in 1 .. n - i PROVE f[k] <= f[k - 1]
    <2>1. /\ k \in 0 .. n - i /\ k - 1 \in 0 .. n - i /\ i + k \in 1 .. n
          /\ (i - 1) + k \in 1 .. n - 1 /\ ~((i - 1) + k < i)
          /\ ((i - 1) + k) + 1 = i + k /\ ((i - 1) + k) - 1 = (i - 1) + (k - 1)
          /\ (i + k) - 1 = i + (k - 1)
      <3>1. i \in Int /\ k \in Int /\ n \in Int /\ 1 <= i /\ i <= n /\ 1 <= k /\ k <= n - i
        BY <1>1
      <3> QED
        BY <3>1, ShiftedPlace
    <2> DEFINE a == (i - 1) + k
               b == i + k
    <2>2. t[a] = s[b] /\ s[b] \in AnyMessage
      BY <1>1, <2>1
    <2>3. g[b] = After(p, s[b], g[b - 1])
      BY <1>2, <2>1
    <2>4. h[a] = After(p, t[a], h[a - 1])
      BY <1>3, <2>1
    <2>5. h[a - 1] \in Nat /\ g[b - 1] \in Nat
      BY <1>6, <2>1
    <2> HIDE DEF a, b
    <2>6. Apart(h[a], g[b]) <= Apart(h[a - 1], g[b - 1])
      BY <2>2, <2>3, <2>4, <2>5, AfterSteps
    <2>7. f[k] = Apart(h[a], g[b]) /\ f[k - 1] = Apart(h[a - 1], g[b - 1])
      BY <2>1 DEF a, b
    <2> QED
      BY <2>6, <2>7
  <1>9. n - i \in Nat /\ 0 \in 0 .. n - i /\ n - i \in 0 .. n - i
    BY <1>1
  <1>10. f[0] = Apart(h[i - 1], g[i]) /\ f[n - i] = Apart(d, e)
    <2>1. (i - 1) + 0 = i - 1 /\ i + 0 = i /\ (i - 1) + (n - i) = n - 1 /\ i + (n - i) = n
      BY <1>1
    <2> QED
      BY <1>2, <1>3, <1>9, <2>1
  <1> HIDE DEF f
  <1>11. f[n - i] <= f[0]
    BY <1>7, <1>8, <1>9, NeverGrows
  <1>12. one \in Nat /\ Apart(d, e) \in Int
    BY DEF Apart
  <1>13. f[0] \in Int /\ f[n - i] \in Int
    BY <1>7, <1>9
  <1> HIDE DEF one
  <1>14. Apart(d, e) <= one
    BY <1>5, <1>10, <1>11, <1>12, <1>13
  <1> QED
    BY <1>14 DEF one

(* Events move the dots of p by at most their number. *)
LEMMA EndsWithin ==
    ASSUME NEW p, NEW x \in Nat, NEW s \in Seq(AnyMessage),
           \A i \in DOMAIN s : s[i].type = "event", NEW e \in Nat, Ends(p, x, s, e)
    PROVE  Apart(e, x) <= Cardinality({i \in DOMAIN s : s[i].body.path = p})
  <1> DEFINE n == Len(s)
             of(k) == {i \in 1 .. k : s[i].body.path = p}
  <1>1. n \in Nat /\ DOMAIN s = 1 .. n /\ \A k \in 1 .. n : s[k] \in AnyMessage
    OBVIOUS
  <1>2. PICK g : /\ g \in [0 .. n -> Nat] /\ g[0] = x /\ g[n] = e
                 /\ \A k \in 1 .. n : g[k] = After(p, s[k], g[k - 1])
    BY DEF Ends, Course
  <1>3. ASSUME NEW k \in 0 .. n
        PROVE  IsFiniteSet(of(k)) /\ Cardinality(of(k)) \in Nat
    <2>1. IsFiniteSet(1 .. k)
      BY FS_Interval
    <2> QED
      BY <2>1, FS_Subset, FS_CardinalityType
  <1>4. ASSUME NEW k \in 1 .. n
        PROVE  /\ s[k].body.path = p => Cardinality(of(k)) = Cardinality(of(k - 1)) + 1
               /\ s[k].body.path # p => Cardinality(of(k)) = Cardinality(of(k - 1))
    <2>1. k - 1 \in 0 .. n /\ k \notin 1 .. k - 1 /\ 1 .. k = (1 .. k - 1) \cup {k}
      BY <1>1
    <2>2. IsFiniteSet(of(k - 1)) /\ k \notin of(k - 1)
      BY <1>3, <2>1
    <2>3. ASSUME s[k].body.path = p PROVE Cardinality(of(k)) = Cardinality(of(k - 1)) + 1
      <3>1. of(k) = of(k - 1) \cup {k}
        BY <2>1, <2>3
      <3> HIDE DEF of
      <3> QED
        BY <2>2, <3>1, FS_AddElement
    <2>4. ASSUME s[k].body.path # p PROVE Cardinality(of(k)) = Cardinality(of(k - 1))
      <3>1. of(k) = of(k - 1)
        BY <2>1, <2>4
      <3> QED
        BY <3>1
    <2> QED
      BY <2>3, <2>4
  <1>5. Cardinality(of(0)) = 0
    <2>1. of(0) = {}
      OBVIOUS
    <2> QED
      BY <2>1, FS_EmptySet
  <1> DEFINE c(k) == Cardinality(of(k))
  <1>6. \A k \in 0 .. n : c(k) \in Nat
    BY <1>3
  <1>7. \A k \in 1 .. n : /\ s[k].body.path = p => c(k) = c(k - 1) + 1
                          /\ s[k].body.path # p => c(k) = c(k - 1)
    BY <1>4
  <1>8. c(0) = 0
    BY <1>5
  <1> HIDE DEF c
  <1> DEFINE f == [k \in 0 .. n |-> Apart(g[k], x) - c(k)]
  <1>9. f \in [0 .. n -> Int]
    BY <1>2, <1>6 DEF Apart
  <1>10. ASSUME NEW k \in 1 .. n PROVE f[k] <= f[k - 1]
    <2>1. k \in 0 .. n /\ k - 1 \in 0 .. n /\ s[k].type = "event" /\ s[k] \in AnyMessage
      BY <1>1
    <2>2. g[k] = After(p, s[k], g[k - 1]) /\ g[k - 1] \in Nat /\ g[k] \in Nat
      BY <1>2, <2>1
    <2>3. Apart(g[k], g[k - 1]) <= 1 /\ (s[k].body.path # p => g[k] = g[k - 1])
      BY <2>1, <2>2, AfterSteps
    <2>4. /\ s[k].body.path = p => Apart(g[k], x) <= Apart(g[k - 1], x) + 1
          /\ s[k].body.path # p => Apart(g[k], x) = Apart(g[k - 1], x)
      BY <2>2, <2>3, SMTT(30) DEF Apart
    <2>5. c(k) \in Nat /\ c(k - 1) \in Nat
      BY <1>6, <2>1
    <2>6. Apart(g[k], x) \in Int /\ Apart(g[k - 1], x) \in Int
      BY <2>2, SMTT(30) DEF Apart
    <2>7. Apart(g[k], x) - c(k) <= Apart(g[k - 1], x) - c(k - 1)
      BY <1>7, <2>4, <2>5, <2>6, SMTT(30)
    <2> QED
      BY <2>1, <2>7
  <1>11. f[0] = 0 /\ f[n] = Apart(e, x) - c(n)
    BY <1>1, <1>2, <1>8 DEF Apart
  <1> HIDE DEF f
  <1>12. f[n] <= f[0]
    <2>1. \A k \in 0 .. n : f[k] <= f[0]
      BY <1>1, <1>9, <1>10, NeverGrows
    <2> QED
      BY <1>1, <2>1
  <1>13. Apart(e, x) <= c(n)
    BY <1>1, <1>6, <1>11, <1>12 DEF Apart
  <1> QED
    BY <1>1, <1>13 DEF c

(* Configuration and snapshot before everything else: the snapshot seeds the dots. *)
LEMMA EndsSeeded ==
    ASSUME NEW p, NEW x \in Nat, NEW s \in Seq(AnyMessage), NEW shot \in Snapshots,
           NEW e, Ends(p, Seed(p, shot), s, e)
    PROVE  Ends(p, x, <<ConfigMsg, StateMsg(shot)>> \o s, e)
  <1> DEFINE n == Len(s)
             first == <<ConfigMsg, StateMsg(shot)>>
             t == first \o s
  <1>1. PICK g : /\ g \in [0 .. n -> Nat] /\ g[0] = Seed(p, shot) /\ g[n] = e
                 /\ \A i \in 1 .. n : g[i] = After(p, s[i], g[i - 1])
    BY DEF Ends, Course
  <1>2. /\ n \in Nat /\ Len(t) = n + 2 /\ t[1] = ConfigMsg /\ t[2] = StateMsg(shot)
        /\ \A i \in 1 .. n : t[i + 2] = s[i]
    <2>1. first \in Seq(AnyMessage)
      BY DEF AnyMessage, StreamMessages
    <2>2. Len(first) = 2 /\ first[1] = ConfigMsg /\ first[2] = StateMsg(shot)
      OBVIOUS
    <2> HIDE DEF first
    <2>3. /\ Len(t) = Len(first) + Len(s)
          /\ \A i \in 1 .. Len(first) + Len(s) :
               t[i] = IF i <= Len(first) THEN first[i] ELSE s[i - Len(first)]
      BY <2>1, ConcatProperties, Zenon
    <2> HIDE DEF t
    <2>4. n \in Nat
      OBVIOUS
    <2>5. Len(t) = n + 2 /\ t[1] = first[1] /\ t[2] = first[2]
      BY <2>2, <2>3, <2>4
    <2>6. ASSUME NEW i \in 1 .. n PROVE t[i + 2] = s[i]
      <3>1. i + 2 \in 1 .. Len(first) + Len(s) /\ ~(i + 2 <= Len(first)) /\ i + 2 - Len(first) = i
        BY <2>2, <2>4
      <3> QED
        BY <2>3, <3>1
    <2> QED
      BY <2>2, <2>4, <2>5, <2>6
  <1> DEFINE h == [i \in 0 .. n + 2 |-> IF i < 2 THEN x ELSE g[i - 2]]
  <1>3. h \in [0 .. n + 2 -> Nat]
    <2>1. \A i \in 0 .. n + 2 : ~(i < 2) => i - 2 \in 0 .. n
      BY <1>2
    <2>2. \A i \in 0 .. n + 2 : ~(i < 2) => g[i - 2] \in Nat
      BY <1>1, <2>1
    <2> QED
      BY <2>2
  <1>4. h[0] = x /\ h[n + 2] = e
    BY <1>1, <1>2
  <1>5. ASSUME NEW i \in 1 .. n + 2 PROVE h[i] = After(p, t[i], h[i - 1])
    <2>1. CASE i = 1
      <3>1. h[i] = x /\ h[i - 1] = x
        BY <1>2, <2>1
      <3>2. After(p, ConfigMsg, x) = x
        BY DEF After, ConfigMsg
      <3> QED
        BY <1>2, <2>1, <3>1, <3>2
    <2>2. CASE i = 2
      <3>1. h[i] = g[0]
        BY <1>2, <2>2
      <3>2. After(p, StateMsg(shot), h[i - 1]) = Seed(p, shot)
        BY DEF After, StateMsg
      <3> QED
        BY <1>1, <1>2, <2>2, <3>1, <3>2
    <2>3. CASE i # 1 /\ i # 2
      <3>1. /\ i - 2 \in 1 .. n /\ (i - 2) + 2 = i
            /\ h[i] = g[i - 2] /\ h[i - 1] = g[(i - 2) - 1]
        BY <1>2, <2>3
      <3>2. g[i - 2] = After(p, s[i - 2], g[(i - 2) - 1])
        BY <1>1, <3>1
      <3>3. t[i] = s[i - 2]
        BY <1>2, <3>1
      <3> QED
        BY <3>1, <3>2, <3>3
    <2> QED
      BY <2>1, <2>2, <2>3
  <1> HIDE DEF h, t
  <1>6. Course(h, p, x, t) /\ h[Len(t)] = e
    BY <1>2, <1>3, <1>4, <1>5 DEF Course
  <1> QED
    BY <1>6 DEF Ends, t, first

-----------------------------------------------------------------------------
(* The drift of the display. *)

(* The requests whose next event will take a dot away, and those for which a dot
   would be right: the tickets of clients that left stay in the queue. *)
Waiting(p) == {r \in At(p) : stage[r] = "waiting"}
Owed(p) == Waiting(p) \cup {r \in At(p) : stage[r] = "over" /\ r \in queued}

(* e dots of p are wrong by no more than the faults of p. *)
Within(p, e) ==
    /\ e - Cardinality(Waiting(p)) <= faults[p]
    /\ Cardinality(Owed(p)) - e <= faults[p]

(* When everything under way has arrived, the dots of p are within its faults. *)
Drifts(p) == \E e \in Nat : Ends(p, DotsOf(p), pipe, e) /\ Within(p, e)

DriftInv ==
    /\ MirrorInv
    /\ faults \in [Paths -> Nat]
    /\ phase \in {"before", "on", "cut"}
    /\ \A r \in Requests : stage[r] = "new" => r \notin queued
    /\ phase = "before" => \A i \in DOMAIN pipe : pipe[i].type = "event"
    /\ phase = "on" => \A p \in Paths : Drifts(p)

(* DotsOf is DotsIn of the rows, in both states of a step. *)
LEMMA DotsShown ==
    /\ \A p : DotsOf(p) = DotsIn(rows, p)
    /\ \A p : DotsOf(p)' = DotsIn(rows', p)
  BY DEF DotsOf, DotsIn, KnownPaths, IndexForPath

(* Sets of requests can be counted. *)
LEMMA RequestsCount ==
    ASSUME NEW A \in SUBSET Requests, NEW B \in SUBSET Requests
    PROVE  /\ Cardinality(A) \in Nat
           /\ A \subseteq B => Cardinality(A) <= Cardinality(B)
           /\ \A r \in Requests \ A : Cardinality(A \cup {r}) = Cardinality(A) + 1
           /\ \A r \in A : Cardinality(A \ {r}) = Cardinality(A) - 1 /\ Cardinality(A) >= 1
           /\ \A C \in SUBSET Requests :
                A \subseteq B \cup C => Cardinality(A) <= Cardinality(B) + Cardinality(C)
  <1>1. IsFiniteSet(A) /\ IsFiniteSet(B)
    BY RequestsAssumption, FS_Subset
  <1>2. Cardinality(A) \in Nat
    BY <1>1, FS_CardinalityType
  <1>3. A \subseteq B => Cardinality(A) <= Cardinality(B)
    BY <1>1, FS_Subset
  <1>4. \A r \in Requests \ A : Cardinality(A \cup {r}) = Cardinality(A) + 1
    BY <1>1, FS_AddElement
  <1>5. ASSUME NEW r \in A PROVE Cardinality(A \ {r}) = Cardinality(A) - 1 /\ Cardinality(A) >= 1
    <2>1. Cardinality(A \ {r}) = Cardinality(A) - 1
      BY <1>1, FS_RemoveElement
    <2>2. Cardinality(A) # 0
      BY <1>1, FS_EmptySet
    <2> QED
      BY <1>2, <2>1, <2>2
  <1>6. ASSUME NEW C \in SUBSET Requests, A \subseteq B \cup C
        PROVE  Cardinality(A) <= Cardinality(B) + Cardinality(C)
    <2>1. IsFiniteSet(C)
      BY RequestsAssumption, FS_Subset
    <2>2. /\ IsFiniteSet(B \cup C) /\ Cardinality(B \cap C) \in Nat
          /\ Cardinality(B \cup C) = Cardinality(B) + Cardinality(C) - Cardinality(B \cap C)
      <3>1. IsFiniteSet(B \cap C)
        BY <1>1, FS_Subset
      <3> QED
        BY <1>1, <2>1, <3>1, FS_Union, FS_CardinalityType
    <2>3. Cardinality(A) <= Cardinality(B \cup C)
      BY <1>6, <2>2, FS_Subset
    <2>4. Cardinality(B) \in Nat /\ Cardinality(C) \in Nat
      BY <1>1, <2>1, FS_CardinalityType
    <2> QED
      BY <1>2, <2>2, <2>3, <2>4
  <1> QED
    BY <1>2, <1>3, <1>4, <1>5, <1>6

(* Where the messages under way come from. *)
LEMMA PipeOfPaths ==
    ASSUME MirrorInv
    PROVE  pipe \in Seq(AnyMessage) /\ Registered \in SUBSET Paths
  <1>1. Registered \in SUBSET Paths
    BY ConfiguredPaths DEF Registered, MirrorInv, MirrorTypeOK
  <1>2. EventsOf(Registered) \subseteq EventsOf(Paths)
    BY <1>1 DEF EventsOf
  <1>3. StreamMessages(Registered) \subseteq AnyMessage
    BY <1>2 DEF StreamMessages, AnyMessage
  <1>4. pipe \in Seq(AnyMessage)
    BY <1>3, SeqMonotonic DEF MirrorInv, PipeOK
  <1> QED
    BY <1>1, <1>4

(* The dots the UI shows, whether it runs or not. *)
LEMMA DotsType ==
    ASSUME MirrorInv
    PROVE  \A p : DotsOf(p) \in Nat
  <1>1. CASE ui = "off"
    <2>1. rows = <<>>
      BY <1>1 DEF MirrorInv, RowsOK
    <2>2. KnownPaths(rows) = {}
      BY <2>1 DEF KnownPaths
    <2> QED
      BY <2>2 DEF DotsOf
  <1>2. CASE ui # "off"
    BY <1>2, DotsOfRow, DotsShown DEF MirrorInv, RowsOK
  <1> QED
    BY <1>1, <1>2

-----------------------------------------------------------------------------
(* The stream and the dots. *)

(* An event of r joins the stream, or a full buffer swallows it. *)
LEMMA EmitMoves ==
    ASSUME MirrorInv, NEW p \in Paths, NEW r \in Requests, NEW kind \in EventKinds,
           EmitEvent(r, kind), phase = "on", faults \in [Paths -> Nat],
           NEW e \in Nat, Ends(p, DotsOf(p), pipe, e)
    PROVE  /\ faults' \in [Paths -> Nat]
           /\ \/ Ends(p, DotsOf(p)', pipe', e) /\ asked[r] # p /\ faults'[p] = faults[p]
              \/ Ends(p, DotsOf(p)', pipe', e) /\ asked[r] = p /\ faults'[p] = faults[p] + 1
              \/ /\ asked[r] = p /\ faults'[p] = faults[p]
                 /\ Ends(p, DotsOf(p)', pipe', Shown(kind, e)) /\ Shown(kind, e) \in Nat
  <1> DEFINE ev == [kind |-> kind, path |-> asked[r]]
  <1>1. /\ Emit(ev)
        /\ faults' = [faults EXCEPT ![asked[r]] = @ + (IF pipe' = pipe THEN 1 ELSE 0)]
        /\ rows' = rows
    BY DEF EmitEvent, Blame, uiVars
  <1>2. asked[r] \in Paths /\ ev \in EventsOf(Paths)
    BY DEF MirrorInv, MirrorTypeOK, EventsOf
  <1>3. faults' \in [Paths -> Nat]
        /\ faults'[p] = faults[p] + (IF pipe' = pipe /\ asked[r] = p THEN 1 ELSE 0)
    BY <1>1, <1>2
  <1>4. DotsOf(p)' = DotsOf(p)
    BY <1>1, DotsShown
  <1>5. pipe' = pipe \/ pipe' = Append(pipe, EventMsg(ev))
    BY <1>1 DEF Emit
  <1>6. CASE pipe' = pipe
    BY <1>3, <1>4, <1>6
  <1>7. CASE pipe' # pipe
    <2>1. pipe \in Seq(AnyMessage) /\ EventMsg(ev) \in AnyMessage
      BY <1>2, PipeOfPaths DEF AnyMessage, StreamMessages
    <2>2. Ends(p, DotsOf(p)', pipe', After(p, EventMsg(ev), e))
      BY <1>4, <1>5, <1>7, <2>1, DotsType, EndsAppend
    <2>3. After(p, EventMsg(ev), e) = IF asked[r] = p THEN Shown(kind, e) ELSE e
      BY DEF After, EventMsg
    <2>4. Shown(kind, e) \in Nat
      BY ShownSteps
    <2> QED
      BY <1>3, <1>7, <2>2, <2>3, <2>4
  <1> QED
    BY <1>6, <1>7

-----------------------------------------------------------------------------
(* The requests and the faults. *)

(* Where the requests of p stand. *)
LEMMA StandingCounts ==
    ASSUME MirrorTypeOK, NEW p
    PROVE  /\ Waiting(p) \in SUBSET Requests /\ Owed(p) \in SUBSET Requests
           /\ Cardinality(Waiting(p)) \in Nat /\ Cardinality(Owed(p)) \in Nat
  <1>1. Waiting(p) \in SUBSET Requests /\ Owed(p) \in SUBSET Requests
    BY DEF Waiting, Owed, At
  <1> QED
    BY <1>1, RequestsCount

(* What the step of a request does to the numbers that bound the drift of p. *)
LEMMA RequestMoves ==
    ASSUME DriftInv, NEW p \in Paths, NEW r \in Requests, asked' = asked
    PROVE  LET w == Cardinality(Waiting(p))
               o == Cardinality(Owed(p))
               w1 == Cardinality(Waiting(p)')
               o1 == Cardinality(Owed(p)')
           IN  /\ Push(r) \/ Reject(r) => w1 = w /\ o1 = o
               /\ Pop(r) => w1 = w /\ o1 <= o /\ o1 \in Nat
               /\ Announce(r) => IF asked[r] = p THEN w1 = w + 1 /\ o1 = o + 1
                                 ELSE w1 = w /\ o1 = o
               /\ Serve(r) => IF asked[r] = p THEN w1 = w - 1 /\ o1 = o - 1 /\ w >= 1
                              ELSE w1 = w /\ o1 = o
               /\ Depart(r) => IF asked[r] = p THEN w1 = w - 1 /\ o1 <= o /\ o1 \in Nat
                               ELSE w1 = w /\ o1 = o
  <1>1. /\ stage \in [Requests -> Stages] /\ MirrorTypeOK
        /\ \A q \in Requests : stage[q] = "new" => q \notin queued
        /\ At(p)' = At(p) /\ At(p) \in SUBSET Requests
        /\ r \in At(p) <=> asked[r] = p
    BY DEF DriftInv, MirrorInv, MirrorTypeOK, At
  <1>2. /\ Waiting(p) \in SUBSET Requests /\ Owed(p) \in SUBSET Requests
        /\ Waiting(p) = {q \in At(p) : stage[q] = "waiting"}
        /\ Owed(p) = {q \in At(p) : stage[q] = "waiting" \/ (stage[q] = "over" /\ q \in queued)}
        /\ Waiting(p)' = {q \in At(p) : stage'[q] = "waiting"}
        /\ Owed(p)' = {q \in At(p) : stage'[q] = "waiting" \/ (stage'[q] = "over" /\ q \in queued')}
    BY <1>1, StandingCounts DEF Waiting, Owed
  <1>3. CASE Push(r) \/ Reject(r)
    <2>1. Waiting(p)' = Waiting(p) /\ Owed(p)' = Owed(p)
      BY <1>1, <1>2, <1>3 DEF Push, Reject, Became
    <2>2. ~Pop(r) /\ ~Announce(r) /\ ~Serve(r) /\ ~Depart(r)
      BY <1>1, <1>3 DEF Push, Reject, Pop, Announce, Serve, Depart
    <2> QED
      BY <2>1, <2>2
  <1>4. CASE Pop(r)
    <2>1. Waiting(p)' = Waiting(p) /\ Owed(p)' \subseteq Owed(p)
      BY <1>1, <1>2, <1>4 DEF Pop
    <2>2. Cardinality(Owed(p)') <= Cardinality(Owed(p)) /\ Cardinality(Owed(p)') \in Nat
      BY <1>2, <2>1, RequestsCount
    <2>3. stage' = stage /\ queued' # queued
      BY <1>4 DEF Pop
    <2>4. ~Push(r) /\ ~Reject(r) /\ ~Announce(r) /\ ~Serve(r) /\ ~Depart(r)
      BY <1>1, <2>3 DEF Push, Reject, Announce, Serve, Depart, Became
    <2> QED
      BY <2>1, <2>2, <2>4
  <1>5. CASE Announce(r)
    <2>0. ~Push(r) /\ ~Reject(r) /\ ~Pop(r) /\ ~Serve(r) /\ ~Depart(r)
      BY <1>1, <1>5 DEF Push, Reject, Pop, Announce, Serve, Depart, Became
    <2>1. CASE asked[r] = p
      <3>1. /\ Waiting(p)' = Waiting(p) \cup {r} /\ r \notin Waiting(p)
            /\ Owed(p)' = Owed(p) \cup {r} /\ r \notin Owed(p)
        BY <1>1, <1>2, <1>5, <2>1 DEF Announce, Became
      <3>2. Cardinality(Waiting(p)') = Cardinality(Waiting(p)) + 1
        BY <1>2, <3>1, RequestsCount
      <3>3. Cardinality(Owed(p)') = Cardinality(Owed(p)) + 1
        BY <1>2, <3>1, RequestsCount
      <3> QED
        BY <2>0, <2>1, <3>2, <3>3
    <2>2. CASE asked[r] # p
      <3>1. Waiting(p)' = Waiting(p) /\ Owed(p)' = Owed(p)
        BY <1>1, <1>2, <1>5, <2>2 DEF Announce, Became
      <3> QED
        BY <2>0, <2>2, <3>1
    <2> QED
      BY <2>1, <2>2
  <1>6. CASE Serve(r)
    <2>0. ~Push(r) /\ ~Reject(r) /\ ~Pop(r) /\ ~Announce(r)
      BY <1>1, <1>6 DEF Push, Reject, Pop, Announce, Serve
    <2>1. CASE asked[r] = p
      <3>1. /\ Waiting(p)' = Waiting(p) \ {r} /\ r \in Waiting(p)
            /\ Owed(p)' = Owed(p) \ {r} /\ r \in Owed(p)
        BY <1>1, <1>2, <1>6, <2>1 DEF Serve, Became
      <3>2. Cardinality(Owed(p)) \in Nat
        BY <1>2, RequestsCount
      <3>3. Cardinality(Owed(p)') = Cardinality(Owed(p)) - 1
        BY <1>2, <3>1, RequestsCount
      <3>4. Cardinality(Owed(p)') <= Cardinality(Owed(p)) /\ Cardinality(Owed(p)') \in Nat
        <4>1. Owed(p)' \in SUBSET Requests
          BY <1>2, <3>1
        <4> QED
          BY <3>2, <3>3, <4>1, RequestsCount
      <3> QED
        BY <1>2, <2>0, <2>1, <3>1, <3>3, <3>4, RequestsCount
    <2>2. CASE asked[r] # p
      <3>1. Waiting(p)' = Waiting(p) /\ Owed(p)' = Owed(p)
        BY <1>1, <1>2, <1>6, <2>2 DEF Serve, Became
      <3> QED
        BY <2>0, <2>2, <3>1
    <2> QED
      BY <2>1, <2>2
  <1>7. CASE Depart(r)
    <2>0. ~Push(r) /\ ~Reject(r) /\ ~Pop(r) /\ ~Announce(r)
      BY <1>1, <1>7 DEF Push, Reject, Pop, Announce, Depart, Became, serverVars
    <2>1. CASE asked[r] = p
      <3>1. /\ Waiting(p)' = Waiting(p) \ {r} /\ r \in Waiting(p)
            /\ Owed(p)' \subseteq Owed(p)
        BY <1>1, <1>2, <1>7, <2>1 DEF Depart, Became
      <3>2. r \notin queued => Owed(p)' = Owed(p) \ {r} /\ r \in Owed(p)
        BY <1>1, <1>2, <1>7, <2>1 DEF Depart, Became
      <3>3. Cardinality(Owed(p)') <= Cardinality(Owed(p)) /\ Cardinality(Owed(p)') \in Nat
        BY <1>2, <3>1, RequestsCount
      <3>4. Serve(r) => Cardinality(Owed(p)') = Cardinality(Owed(p)) - 1
        BY <1>2, <3>2, RequestsCount DEF Serve
      <3>5. /\ Cardinality(Waiting(p)') = Cardinality(Waiting(p)) - 1
            /\ Cardinality(Waiting(p)) >= 1
        BY <1>2, <3>1, RequestsCount
      <3> QED
        BY <2>0, <2>1, <3>3, <3>4, <3>5
    <2>2. CASE asked[r] # p
      <3>1. Waiting(p)' = Waiting(p) /\ Owed(p)' = Owed(p)
        BY <1>1, <1>2, <1>7, <2>2 DEF Depart, Became
      <3> QED
        BY <2>0, <2>2, <3>1
    <2> QED
      BY <2>1, <2>2
  <1> QED
    BY <1>3, <1>4, <1>5, <1>6, <1>7

(* A step of a request keeps p within its faults: what the step does to the numbers
   is what its event does to the dots, unless it is lost or there is none. *)
LEMMA ServerDrift ==
    ASSUME DriftInv, MirrorTypeOK', asked' = asked, NEW p \in Paths, phase = "on", ServerStep
    PROVE  Drifts(p)' /\ faults' \in [Paths -> Nat]
  <1>0. /\ MirrorInv /\ faults \in [Paths -> Nat] /\ Drifts(p) /\ MirrorTypeOK
        /\ faults[p] \in Nat
    BY DEF DriftInv, MirrorInv
  <1>1. PICK e \in Nat : Ends(p, DotsOf(p), pipe, e) /\ Within(p, e)
    BY <1>0 DEF Drifts
  <1>2. PICK r \in Requests :
            Push(r) \/ Announce(r) \/ Pop(r) \/ Serve(r) \/ Depart(r) \/ Reject(r)
    BY DEF ServerStep
  <1> DEFINE w == Cardinality(Waiting(p))
             o == Cardinality(Owed(p))
             w1 == Cardinality(Waiting(p)')
             o1 == Cardinality(Owed(p)')
  <1>3. w \in Nat /\ o \in Nat /\ w1 \in Nat /\ o1 \in Nat
    <2>1. w \in Nat /\ o \in Nat
      BY <1>0, StandingCounts
    <2>2. Waiting(p)' \in SUBSET Requests /\ Owed(p)' \in SUBSET Requests
      BY DEF Waiting, Owed, At
    <2>3. w1 \in Nat /\ o1 \in Nat
      BY <2>2, RequestsCount
    <2> QED
      BY <2>1, <2>3
  <1>4. e - w <= faults[p] /\ o - e <= faults[p]
    BY <1>1 DEF Within
  <1>5. ASSUME NEW d \in Nat, Ends(p, DotsOf(p)', pipe', d),
               d - w1 <= faults'[p], o1 - d <= faults'[p]
        PROVE  Drifts(p)'
    <2>1. Within(p, d)'
      BY <1>5 DEF Within
    <2> QED
      BY <1>5, <2>1 DEF Drifts
  <1>6. /\ Push(r) \/ Reject(r) => w1 = w /\ o1 = o
        /\ Pop(r) => w1 = w /\ o1 <= o
        /\ Announce(r) => /\ asked[r] = p => w1 = w + 1 /\ o1 = o + 1
                          /\ asked[r] # p => w1 = w /\ o1 = o
        /\ Serve(r) => /\ asked[r] = p => w1 = w - 1 /\ o1 = o - 1 /\ w >= 1
                       /\ asked[r] # p => w1 = w /\ o1 = o
        /\ Depart(r) => /\ asked[r] = p => w1 = w - 1 /\ o1 <= o
                        /\ asked[r] # p => w1 = w /\ o1 = o
    BY RequestMoves
  <1> HIDE DEF w, o, w1, o1
  <1>7. CASE Push(r) \/ Pop(r) \/ Depart(r)
    <2>1. rows' = rows /\ pipe' = pipe
      BY <1>7 DEF Push, Pop, Depart, uiVars, streamVars
    <2>2. Ends(p, DotsOf(p)', pipe', e)
      BY <1>1, <2>1, DotsShown
    <2>3. CASE Push(r) \/ Pop(r)
      <3>1. faults' = faults
        BY <2>3 DEF Push, Pop
      <3>2. e - w1 <= faults'[p] /\ o1 - e <= faults'[p]
        BY <1>0, <1>3, <1>4, <1>6, <2>3, <3>1
      <3> QED
        BY <1>0, <1>5, <2>2, <3>1, <3>2
    <2>4. CASE Depart(r)
      <3>1. faults' = [faults EXCEPT ![asked[r]] = @ + 1] /\ asked[r] \in Paths
        BY <1>0, <2>4 DEF Depart, Blame, MirrorTypeOK
      <3>2. /\ faults' \in [Paths -> Nat]
            /\ faults'[p] = IF asked[r] = p THEN faults[p] + 1 ELSE faults[p]
        BY <1>0, <3>1
      <3>3. e - w1 <= faults'[p] /\ o1 - e <= faults'[p]
        BY <1>0, <1>3, <1>4, <1>6, <2>4, <3>2
      <3> QED
        BY <1>5, <2>2, <3>2, <3>3
    <2> QED
      BY <1>7, <2>3, <2>4
  <1>8. ASSUME NEW kind \in EventKinds, EmitEvent(r, kind)
        PROVE  /\ faults' \in [Paths -> Nat]
               /\ \/ Ends(p, DotsOf(p)', pipe', e) /\ asked[r] # p /\ faults'[p] = faults[p]
                  \/ Ends(p, DotsOf(p)', pipe', e) /\ asked[r] = p /\ faults'[p] = faults[p] + 1
                  \/ /\ asked[r] = p /\ faults'[p] = faults[p]
                     /\ Ends(p, DotsOf(p)', pipe', Shown(kind, e)) /\ Shown(kind, e) \in Nat
    BY <1>0, <1>1, <1>8, EmitMoves
  <1>9. CASE Announce(r)
    <2>1. EmitEvent(r, "queued") /\ "queued" \in EventKinds
      BY <1>9 DEF Announce, EventKinds
    <2>2. Shown("queued", e) = e + 1
      BY DEF Shown
    <2>3. \E d \in {e, e + 1} : /\ Ends(p, DotsOf(p)', pipe', d)
                                /\ d - w1 <= faults'[p] /\ o1 - d <= faults'[p]
      BY <1>0, <1>3, <1>4, <1>6, <1>8, <1>9, <2>1, <2>2
    <2> QED
      BY <1>5, <1>8, <2>1, <2>3
  <1>10. CASE Serve(r)
    <2>1. EmitEvent(r, "served") /\ "served" \in EventKinds
      BY <1>10 DEF Serve, EventKinds
    <2>2. Shown("served", e) = IF e = 0 THEN 0 ELSE e - 1
      <3>1. Max({0, e - 1}) = IF 0 >= e - 1 THEN 0 ELSE e - 1
        BY MaxOfTwo
      <3> QED
        BY <3>1 DEF Shown
    <2>3. \E d \in Nat : /\ Ends(p, DotsOf(p)', pipe', d)
                         /\ d - w1 <= faults'[p] /\ o1 - d <= faults'[p]
      BY <1>0, <1>3, <1>4, <1>6, <1>8, <1>10, <2>1, <2>2
    <2> QED
      BY <1>5, <1>8, <2>1, <2>3
  <1>11. CASE Reject(r)
    <2>1. EmitEvent(r, "rejected") /\ "rejected" \in EventKinds
      BY <1>11 DEF Reject, EventKinds
    <2>2. Shown("rejected", e) = e
      BY DEF Shown
    <2>3. Ends(p, DotsOf(p)', pipe', e) /\ e - w1 <= faults'[p] /\ o1 - e <= faults'[p]
      BY <1>0, <1>3, <1>4, <1>6, <1>8, <1>11, <2>1, <2>2
    <2> QED
      BY <1>5, <1>8, <2>1, <2>3
  <1> QED
    BY <1>2, <1>7, <1>9, <1>10, <1>11

(* Waiting and Owed stay with the requests. *)
LEMMA SameRequests ==
    ASSUME UNCHANGED <<asked, stage, queued>>
    PROVE  \A p : Waiting(p)' = Waiting(p) /\ Owed(p)' = Owed(p)
  BY DEF Waiting, Owed, At

(* When no request moves and no fault is forgiven, p drifts no further if the end
   of its dots moves by no more than its faults grow. *)
LEMMA EndMoves ==
    ASSUME DriftInv, NEW p \in Paths, UNCHANGED <<asked, stage, queued>>,
           faults' \in [Paths -> Nat],
           NEW e \in Nat, Within(p, e),
           NEW d \in Nat, Ends(p, DotsOf(p)', pipe', d),
           Apart(d, e) <= faults'[p] - faults[p]
    PROVE  Drifts(p)'
  <1>1. Waiting(p)' = Waiting(p) /\ Owed(p)' = Owed(p)
    BY SameRequests
  <1>2. faults[p] \in Nat /\ faults'[p] \in Nat
    BY DEF DriftInv
  <1>3. Cardinality(Waiting(p)) \in Nat /\ Cardinality(Owed(p)) \in Nat
    BY StandingCounts DEF DriftInv, MirrorInv
  <1>4. e - Cardinality(Waiting(p)) <= faults[p] /\ Cardinality(Owed(p)) - e <= faults[p]
    BY DEF Within
  <1>5. d - Cardinality(Waiting(p)) <= faults'[p] /\ Cardinality(Owed(p)) - d <= faults'[p]
    BY <1>2, <1>3, <1>4 DEF Apart
  <1>6. Within(p, d)'
    BY <1>1, <1>5 DEF Within
  <1> QED
    BY <1>6 DEF Drifts

(* An event lost on the way is a fault of its path. *)
LEMMA LossDrift ==
    ASSUME DriftInv, NEW p \in Paths, phase = "on", StreamLoses
    PROVE  Drifts(p)' /\ faults' \in [Paths -> Nat]
  <1>0. /\ MirrorInv /\ faults \in [Paths -> Nat] /\ Drifts(p) /\ MirrorTypeOK
        /\ faults[p] \in Nat /\ DotsOf(p) \in Nat
    BY DotsType DEF DriftInv, MirrorInv
  <1>1. PICK e \in Nat : Ends(p, DotsOf(p), pipe, e) /\ Within(p, e)
    BY <1>0 DEF Drifts
  <1>2. UNCHANGED <<rows, asked, stage, queued>>
    BY DEF StreamLoses, uiVars, fixedVars, serverVars
  <1>3. PICK i \in DOMAIN pipe :
          /\ pipe[i].type = "event" /\ pipe' = RemoveAt(pipe, i)
          /\ faults' = [faults EXCEPT ![pipe[i].body.path] = @ + 1]
    BY DEF StreamLoses, Blame
  <1>4. pipe \in Seq(AnyMessage) /\ pipe' \in Seq(AnyMessage)
    BY <1>0, <1>3, PipeOfPaths, RemoveAtIndex
  <1>5. PICK d \in Nat : Ends(p, DotsOf(p), pipe', d)
    BY <1>0, <1>4, EndsExists
  <1>6. Apart(d, e) <= IF pipe[i].body.path = p THEN 1 ELSE 0
    BY <1>0, <1>1, <1>3, <1>4, <1>5, EndsWithout
  <1>7. /\ faults' \in [Paths -> Nat]
        /\ faults'[p] = faults[p] + (IF pipe[i].body.path = p THEN 1 ELSE 0)
    <2> DEFINE q == pipe[i].body.path
    <2>1. faults' = [faults EXCEPT ![q] = @ + 1] /\ q \in Paths
      <3>1. pipe[i] \in AnyMessage
        BY <1>4
      <3> QED
        BY <1>3, <3>1, MessageKinds DEF EventsOf
    <2> HIDE DEF q
    <2>2. faults' \in [Paths -> Nat] /\ faults'[p] = faults[p] + (IF q = p THEN 1 ELSE 0)
      BY <1>0, <2>1
    <2> QED
      BY <2>2 DEF q
  <1>8. Apart(d, e) <= faults'[p] - faults[p]
    BY <1>0, <1>6, <1>7
  <1>9. Ends(p, DotsOf(p)', pipe', d)
    BY <1>2, <1>5, DotsShown
  <1> QED
    BY <1>1, <1>2, <1>7, <1>8, <1>9, EndMoves

(* The snapshot is wrong about a path by no more than what straddles it. *)
LEMMA SnapshotDrift ==
    ASSUME DriftInv, NEW p \in Paths, SubscribeUi
    PROVE  Drifts(p)' /\ faults'[p] \in Nat
  <1>0. /\ MirrorInv /\ faults \in [Paths -> Nat] /\ MirrorTypeOK /\ DotsOf(p) \in Nat
        /\ phase = "before" /\ \A i \in DOMAIN pipe : pipe[i].type = "event"
    BY DotsType DEF DriftInv, MirrorInv, SubscribeUi, Start
  <1> DEFINE shot == [q \in Registered |-> Depth(q)]
             underway == {i \in DOMAIN pipe : pipe[i].body.path = p}
             between == {r \in At(p) :
                           \/ stage[r] = "pushed"
                           \/ stage[r] = "waiting" /\ r \notin queued
                           \/ stage[r] = "over" /\ r \in queued}
             here == queued \cap At(p)
             seed == Seed(p, shot)
             n == Cardinality(underway)
             b == Cardinality(between)
             c == Cardinality(here)
             w == Cardinality(Waiting(p))
             o == Cardinality(Owed(p))
  <1>1. pipe' = <<ConfigMsg, StateMsg(shot)>> \o pipe /\ UNCHANGED <<rows, asked, stage, queued>>
    BY DEF SubscribeUi, Start, uiVars, fixedVars, serverVars
  <1>2. pipe \in Seq(AnyMessage) /\ shot \in Snapshots
    BY <1>0, PipeOfPaths, DepthsAreSnapshot
  <1>3. seed \in Nat /\ seed = IF p \in Configured THEN c ELSE 0
    <2>1. Seed(p, shot) \in Nat
      BY <1>2, SeedType
    <2>2. Configured \subseteq Registered
      BY DEF Registered
    <2>3. p \in Configured => seed = Depth(p)
      BY <2>2 DEF Seed
    <2>4. p \notin Configured => seed = 0
      BY DEF Seed
    <2> QED
      BY <2>1, <2>3, <2>4 DEF Depth
  <1>4. /\ between \in SUBSET Requests /\ here \in SUBSET Requests
        /\ Waiting(p) \in SUBSET Requests /\ Owed(p) \in SUBSET Requests
        /\ here \subseteq Waiting(p) \cup between
        /\ Owed(p) \subseteq here \cup between
    <2>1. stage \in [Requests -> Stages] /\ \A r \in Requests : stage[r] = "new" => r \notin queued
      BY <1>0 DEF DriftInv, MirrorTypeOK
    <2>2. \A r \in Requests : stage[r] \in {"new", "pushed", "waiting", "over"}
      BY <2>1 DEF Stages
    <2> QED
      BY <2>1, <2>2 DEF Waiting, Owed, At
  <1> HIDE DEF between, here
  <1>5. b \in Nat /\ c \in Nat /\ w \in Nat /\ o \in Nat /\ c <= w + b /\ o <= c + b
    BY <1>4, RequestsCount
  <1>6. n \in Nat
    <2>1. DOMAIN pipe = 1 .. Len(pipe) /\ Len(pipe) \in Nat
      BY <1>2
    <2>2. IsFiniteSet(underway)
      <3>1. IsFiniteSet(1 .. Len(pipe))
        BY <2>1, FS_Interval
      <3>2. underway \subseteq 1 .. Len(pipe)
        BY <2>1
      <3> QED
        BY <3>1, <3>2, FS_Subset
    <2> QED
      BY <2>2, FS_CardinalityType
  <1>7. faults'[p] = n + b + (IF p \in Configured THEN 0 ELSE c)
    <2>1. faults'[p] = Straddling(p)
      BY <1>0 DEF SubscribeUi
    <2> QED
      BY <2>1 DEF Straddling, Depth, between, here
  <1> HIDE DEF underway, n, b, c, w, o, shot, seed
  <1>8. PICK e \in Nat : Ends(p, seed, pipe, e)
    BY <1>2, <1>3, EndsExists
  <1>9. Apart(e, seed) <= n
    BY <1>0, <1>2, <1>3, <1>8, EndsWithin DEF n, underway
  <1>10. Ends(p, DotsOf(p)', pipe', e)
    <2>1. DotsOf(p)' = DotsOf(p)
      BY <1>1, DotsShown
    <2> QED
      BY <1>0, <1>1, <1>2, <1>8, <2>1, EndsSeeded DEF seed
  <1>11. e - w <= faults'[p] /\ o - e <= faults'[p] /\ faults'[p] \in Nat
    <2>1. CASE p \in Configured
      BY <1>3, <1>5, <1>6, <1>7, <1>9, <2>1 DEF Apart
    <2>2. CASE p \notin Configured
      BY <1>3, <1>5, <1>6, <1>7, <1>9, <2>2 DEF Apart
    <2> QED
      BY <2>1, <2>2
  <1>12. Within(p, e)'
    <2>1. Waiting(p)' = Waiting(p) /\ Owed(p)' = Owed(p)
      BY <1>1, SameRequests
    <2> QED
      BY <1>11, <2>1 DEF Within, w, o
  <1> QED
    BY <1>10, <1>11, <1>12 DEF Drifts

(* The UI takes what arrives: the end of the dots stays, but for an event thrown
   away during a pause. *)
LEMMA UiDrift ==
    ASSUME IsInjective(ConfigRows), DriftInv, MirrorNext, NEW p \in Paths, phase = "on", UiStep
    PROVE  Drifts(p)' /\ faults' \in [Paths -> Nat]
  <1>0. /\ MirrorInv /\ faults \in [Paths -> Nat] /\ Drifts(p) /\ MirrorTypeOK
        /\ faults[p] \in Nat /\ DotsOf(p) \in Nat /\ RowsOK
    BY DotsType DEF DriftInv, MirrorInv
  <1>1. PICK e \in Nat : Ends(p, DotsOf(p), pipe, e) /\ Within(p, e)
    BY <1>0 DEF Drifts
  <1>2. UNCHANGED <<asked, stage, queued>>
    BY DEF UiStep, TakeConfig, TakeSnapshot, StartLocal, TakeEvent, Tick, Press,
         StreamEnded, fixedVars, serverVars
  <1>3. pipe \in Seq(AnyMessage)
    BY <1>0, PipeOfPaths
  <1>4. ASSUME faults' = faults, Ends(p, DotsOf(p)', pipe', e)
        PROVE  Drifts(p)' /\ faults' \in [Paths -> Nat]
    <2>1. Apart(e, e) <= faults'[p] - faults[p]
      BY <1>0, <1>4 DEF Apart
    <2> QED
      BY <1>0, <1>1, <1>2, <1>4, <2>1, EndMoves
  <1>5. ASSUME pipe # <<>>, pipe' = Tail(pipe), DotsOf(p)' = After(p, Head(pipe), DotsOf(p))
        PROVE  Ends(p, DotsOf(p)', pipe', e)
    BY <1>0, <1>1, <1>3, <1>5, EndsTail
  <1>6. CASE TakeConfig
    <2>1. /\ pipe # <<>> /\ Head(pipe).type = "config" /\ pipe' = Tail(pipe)
          /\ faults' = faults /\ rows' = rows
      BY <1>6 DEF TakeConfig, Deliver, uiVars
    <2>2. DotsOf(p)' = After(p, Head(pipe), DotsOf(p))
      BY <2>1, DotsShown DEF After
    <2> QED
      BY <1>4, <1>5, <2>1, <2>2
  <1>7. CASE TakeSnapshot \/ StartLocal
    <2>0. rows = <<>> /\ DotsOf(p) = 0
      <3>1. ui = "off"
        BY <1>7 DEF TakeSnapshot, StartLocal, StartUi
      <3>2. rows = <<>>
        BY <1>0, <3>1 DEF RowsOK
      <3>3. KnownPaths(rows) = {}
        BY <3>2 DEF KnownPaths
      <3> QED
        BY <3>2, <3>3 DEF DotsOf
    <2>1. CASE TakeSnapshot
      <3> DEFINE shot == Head(pipe).body
      <3>1. /\ pipe # <<>> /\ Head(pipe).type = "state" /\ pipe' = Tail(pipe)
            /\ faults' = faults /\ rows' = NewModel(shot)
        BY <2>1 DEF TakeSnapshot, Deliver, StartUi
      <3>2. shot \in Snapshots
        BY <1>0, <3>1, FirstMessage DEF MirrorInv
      <3> HIDE DEF shot
      <3>3. \A q \in DOMAIN shot : shot[q] \in Nat
        BY <3>2 DEF Snapshots
      <3>4. DotsIn(rows', p) = Seed(p, shot)
        BY <3>1, <3>3, FirstRows
      <3>5. DotsOf(p)' = After(p, Head(pipe), DotsOf(p))
        BY <3>1, <3>4, DotsShown DEF After, shot
      <3> QED
        BY <1>4, <1>5, <3>1, <3>5
    <2>2. CASE StartLocal
      <3> DEFINE shot == [q \in {} |-> 0]
      <3>1. pipe' = pipe /\ faults' = faults /\ rows' = NewModel(shot)
        BY <2>2 DEF StartLocal, StartUi, streamVars
      <3>2. DotsIn(rows', p) = Seed(p, shot)
        BY <3>1, FirstRows
      <3>3. Seed(p, shot) = 0
        BY DEF Seed
      <3>4. DotsOf(p)' = DotsOf(p)
        BY <2>0, <3>2, <3>3, DotsShown
      <3> QED
        BY <1>1, <1>4, <3>1, <3>4
    <2> QED
      BY <1>7, <2>1, <2>2
  <1>8. CASE TakeEvent
    <2> DEFINE ev == Head(pipe).body
    <2>1. /\ pipe # <<>> /\ Head(pipe).type = "event" /\ pipe' = Tail(pipe) /\ ui = "on"
          /\ rows' = IF paused THEN rows ELSE HandleServerEvent(rows, ev)
          /\ faults' = [faults EXCEPT ![ev.path] = @ + (IF paused THEN 1 ELSE 0)]
      BY <1>8 DEF TakeEvent, Deliver, OnEvent, Blame
    <2>2. Faithful(rows) /\ Configured \subseteq KnownPaths(rows)
      BY <1>0, <2>1 DEF RowsOK
    <2>3. ev \in EventsOf(Paths) /\ ev.path \in Paths /\ Head(pipe) \in AnyMessage
      <3>1. ev \in EventsOf(Registered)
        BY <1>0, <2>1, FirstMessage DEF MirrorInv
      <3>2. Registered \subseteq Paths
        BY <1>0, PipeOfPaths
      <3>3. Head(pipe) \in AnyMessage
        BY <1>3, <2>1, HeadTailProperties
      <3> QED
        BY <3>1, <3>2, <3>3 DEF EventsOf
    <2>4. After(p, Head(pipe), DotsOf(p)) =
              IF ev.path = p THEN Shown(ev.kind, DotsOf(p)) ELSE DotsOf(p)
      BY <2>1 DEF After
    <2> HIDE DEF ev
    <2>5. CASE ~paused
      <3>1. DotsOf(p)' = After(p, Head(pipe), DotsOf(p))
        <4>1. DotsIn(rows', p) = IF p = ev.path THEN Shown(ev.kind, DotsIn(rows, p))
                                 ELSE DotsIn(rows, p)
          BY <2>1, <2>2, <2>3, <2>5, EventCounts
        <4> QED
          BY <2>4, <4>1, DotsShown
      <3>2. faults' = faults
        BY <1>0, <2>1, <2>3, <2>5
      <3> QED
        BY <1>4, <1>5, <2>1, <3>1, <3>2
    <2>6. CASE paused
      <3>1. DotsOf(p)' = DotsOf(p)
        BY <2>1, <2>6, DotsShown
      <3>2. /\ faults' \in [Paths -> Nat]
            /\ faults'[p] = faults[p] + (IF ev.path = p THEN 1 ELSE 0)
        BY <1>0, <2>1, <2>3, <2>6
      <3> DEFINE x == After(p, Head(pipe), DotsOf(p))
      <3>3. x \in Nat /\ Apart(DotsOf(p), x) <= (IF ev.path = p THEN 1 ELSE 0)
        <4>1. /\ x \in Nat /\ Apart(x, DotsOf(p)) <= 1
              /\ ev.path # p => x = DotsOf(p)
          BY <1>0, <2>1, <2>3, AfterSteps DEF ev
        <4> HIDE DEF x
        <4> QED
          BY <1>0, <4>1 DEF Apart
      <3> HIDE DEF x
      <3>4. pipe' \in Seq(AnyMessage)
        BY <1>3, <2>1, HeadTailProperties
      <3>5. Ends(p, x, pipe', e)
        BY <1>0, <1>1, <1>3, <2>1, EndsTail DEF x
      <3>6. PICK d \in Nat : Ends(p, DotsOf(p), pipe', d)
        BY <1>0, <3>4, EndsExists
      <3>7. Apart(d, e) <= Apart(DotsOf(p), x)
        BY <1>0, <3>3, <3>4, <3>5, <3>6, EndsClose
      <3>8. Apart(d, e) <= faults'[p] - faults[p]
        <4>1. Apart(d, e) \in Int /\ Apart(DotsOf(p), x) \in Int
          BY <1>0, <3>3 DEF Apart
        <4> QED
          BY <1>0, <3>2, <3>3, <3>7, <4>1
      <3>9. Ends(p, DotsOf(p)', pipe', d)
        BY <3>1, <3>6
      <3> QED
        BY <1>1, <1>2, <3>2, <3>8, <3>9, EndMoves
    <2> QED
      BY <2>5, <2>6
  <1>9. CASE Tick \/ Press \/ StreamEnded
    <2>1. pipe' = pipe /\ faults' = faults
      BY <1>9 DEF Tick, Press, StreamEnded, streamVars
    <2>2. DotsIn(rows', p) = DotsIn(rows, p)
      <3>1. CASE Tick
        BY <1>0, <3>1, TickRows
      <3>2. CASE (Press \/ StreamEnded) /\ rows' = rows
        BY <3>2
      <3>3. CASE (Press \/ StreamEnded) /\ rows' # rows
        <4>1. KeyReset
          BY <3>3 DEF Press, StreamEnded, Key, KeyMove, KeyPause, QuitUi
        <4>2. Faithful(rows)
          BY <1>0, <4>1 DEF KeyReset, RowsOK
        <4> QED
          BY <4>1, <4>2, ResetRows
      <3> QED
        BY <1>9, <3>1, <3>2, <3>3
    <2>3. Ends(p, DotsOf(p)', pipe', e)
      BY <1>1, <2>1, <2>2, DotsShown
    <2> QED
      BY <1>4, <2>1, <2>3
  <1> QED
    BY <1>6, <1>7, <1>8, <1>9 DEF UiStep

(* Blaming a path keeps the faults numbers. *)
LEMMA BlameType ==
    ASSUME faults \in [Paths -> Nat], NEW q, NEW n \in Nat, Blame(q, n)
    PROVE  faults' \in [Paths -> Nat]
  <1>1. faults' = [faults EXCEPT ![q] = @ + n]
    BY DEF Blame
  <1>2. CASE q \in Paths
    BY <1>1, <1>2
  <1>3. CASE q \notin Paths
    <2>1. faults' = [p \in Paths |-> IF p = q THEN faults[q] + n ELSE faults[p]]
      BY <1>1
    <2>2. \A p \in Paths : faults'[p] = faults[p]
      BY <1>3, <2>1
    <2> QED
      BY <2>1, <2>2
  <1> QED
    BY <1>2, <1>3

(* The UI starts with nothing, and nothing has happened. *)
LEMMA DriftInit ==
    MirrorInit => DriftInv
  <1> SUFFICES ASSUME MirrorInit PROVE DriftInv
    OBVIOUS
  <1>1. MirrorInv
    BY MirrorInitInv
  <1>2. /\ faults \in [Paths -> Nat] /\ \A p \in Paths : faults[p] = 0
        /\ phase \in {"before", "on", "cut"} /\ queued = {} /\ pipe = <<>> /\ rows = <<>>
        /\ \A r \in Requests : stage[r] = "new"
    BY DEF MirrorInit, UiInit, Paths
  <1>3. ASSUME NEW p \in Paths PROVE Drifts(p)
    <2>1. KnownPaths(rows) = {} /\ DotsOf(p) = 0
      BY <1>2 DEF KnownPaths, DotsOf
    <2>2. Ends(p, DotsOf(p), pipe, 0)
      BY <1>2, <2>1, EndsEmpty
    <2>3. Waiting(p) = {} /\ Owed(p) = {}
      BY <1>2 DEF Waiting, Owed, At
    <2>4. Within(p, 0)
      BY <1>2, <2>3, FS_EmptySet DEF Within
    <2> QED
      BY <2>2, <2>4 DEF Drifts
  <1> QED
    BY <1>1, <1>2, <1>3 DEF DriftInv

(* Before the snapshot there are only events under way. *)
LEMMA EventsFirst ==
    ASSUME DriftInv, MirrorNext, phase' = "before"
    PROVE  phase = "before" /\ \A i \in DOMAIN pipe' : pipe'[i].type = "event"
  <1>1. phase = "before" /\ \A i \in DOMAIN pipe : pipe[i].type = "event"
    <2>1. phase = "before"
      BY DEF MirrorNext, ServerStep, Push, Announce, Pop, Serve, Depart, Reject, EmitEvent,
           Emit, StreamLoses, Lose, SubscribeUi, Start, Disconnect, Cut, UiStep, TakeConfig,
           TakeSnapshot, StartLocal, TakeEvent, Tick, Press, StreamEnded, Deliver, streamVars
    <2> QED
      BY <2>1 DEF DriftInv
  <1>2. pipe \in Seq(AnyMessage)
    BY PipeOfPaths DEF DriftInv
  <1>3. CASE pipe' = pipe
    BY <1>1, <1>3
  <1>4. ASSUME NEW e, pipe' = Append(pipe, EventMsg(e))
        PROVE  \A i \in DOMAIN pipe' : pipe'[i].type = "event"
    <2>1. DOMAIN Append(pipe, EventMsg(e)) = 1 .. Len(pipe) + 1
          /\ \A i \in 1 .. Len(pipe) + 1 :
               Append(pipe, EventMsg(e))[i] = IF i = Len(pipe) + 1 THEN EventMsg(e) ELSE pipe[i]
      BY <1>2
    <2>2. DOMAIN pipe = 1 .. Len(pipe) /\ Len(pipe) \in Nat /\ EventMsg(e).type = "event"
      BY <1>2 DEF EventMsg
    <2>3. \A i \in 1 .. Len(pipe) + 1 : i # Len(pipe) + 1 => i \in DOMAIN pipe
      BY <2>2
    <2> QED
      BY <1>1, <1>4, <2>1, <2>2, <2>3
  <1>5. CASE StreamLoses
    <2>1. PICK i \in DOMAIN pipe : pipe' = RemoveAt(pipe, i)
      BY <1>5 DEF StreamLoses
    <2>2. /\ DOMAIN pipe' = 1 .. Len(pipe) - 1
          /\ \A k \in 1 .. Len(pipe) - 1 : pipe'[k] = IF k < i THEN pipe[k] ELSE pipe[k + 1]
      BY <1>2, <2>1, RemoveAtIndex
    <2>3. \A k \in 1 .. Len(pipe) - 1 : k \in DOMAIN pipe /\ k + 1 \in DOMAIN pipe
      BY <1>2
    <2> QED
      BY <1>1, <2>2, <2>3
  <1>6. \/ pipe' = pipe \/ (\E e : pipe' = Append(pipe, EventMsg(e))) \/ StreamLoses
    <2>1. CASE ServerStep
      BY <2>1 DEF ServerStep, Push, Announce, Pop, Serve, Depart, Reject, EmitEvent, Emit,
           streamVars
    <2>2. CASE SubscribeUi \/ Disconnect
      BY <1>1, <2>2 DEF SubscribeUi, Start, Disconnect
    <2>3. CASE UiStep
      BY <1>1, <2>3 DEF UiStep, TakeConfig, TakeSnapshot, StartLocal, TakeEvent, Tick, Press,
           StreamEnded, Deliver, streamVars
    <2> QED
      BY <2>1, <2>2, <2>3 DEF MirrorNext
  <1> QED
    BY <1>1, <1>3, <1>4, <1>5, <1>6

(* Every step keeps every path within its faults. *)
LEMMA DriftStep ==
    ASSUME IsInjective(ConfigRows), DriftInv, MirrorNext
    PROVE  DriftInv'
  <1>0. /\ MirrorInv /\ faults \in [Paths -> Nat] /\ phase \in {"before", "on", "cut"}
        /\ MirrorTypeOK /\ \A r \in Requests : stage[r] = "new" => r \notin queued
    BY DEF DriftInv, MirrorInv
  <1>1. MirrorInv'
    BY <1>0, MirrorStepInv
  <1>2. /\ MirrorTypeOK' /\ asked' = asked
        /\ \A r \in Requests : stage[r] # "new" => stage'[r] # "new"
    BY <1>0, MirrorTypeStep
  <1>3. \A r \in Requests : stage'[r] = "new" => r \notin queued'
    <2>1. queued' \subseteq queued \/ \E r \in Requests : Push(r)
      BY DEF MirrorNext, ServerStep, Push, Announce, Pop, Serve, Depart, Reject,
           StreamLoses, SubscribeUi, Disconnect, UiStep, TakeConfig, TakeSnapshot, StartLocal,
           TakeEvent, Tick, Press, StreamEnded, serverVars
    <2>2. CASE queued' \subseteq queued
      BY <1>0, <1>2, <2>2
    <2>3. CASE \E r \in Requests : Push(r)
      <3>1. PICK r \in Requests : Push(r)
        BY <2>3
      <3>2. queued' = queued \cup {r} /\ stage' = [stage EXCEPT ![r] = "pushed"]
        BY <3>1 DEF Push, Became
      <3>3. stage'[r] = "pushed"
        BY <1>0, <3>2 DEF MirrorTypeOK
      <3> QED
        BY <1>0, <1>2, <3>2, <3>3
    <2> QED
      BY <2>1, <2>2, <2>3
  <1>4. phase' \in {"before", "on", "cut"} /\ (phase' = "on" => phase = "on" \/ SubscribeUi)
        /\ (SubscribeUi => phase' = "on")
    BY <1>0 DEF MirrorNext, ServerStep, Push, Announce, Pop, Serve, Depart, Reject, EmitEvent,
         Emit, StreamLoses, Lose, SubscribeUi, Start, Disconnect, Cut, UiStep, TakeConfig,
         TakeSnapshot, StartLocal, TakeEvent, Tick, Press, StreamEnded, Deliver, streamVars
  <1>5. ASSUME NEW q, NEW n \in Nat, Blame(q, n)
        PROVE  faults' \in [Paths -> Nat]
    BY <1>0, <1>5, BlameType
  <1>6. faults' \in [Paths -> Nat]
    <2>1. CASE ServerStep
      <3>1. PICK r \in Requests :
               Push(r) \/ Announce(r) \/ Pop(r) \/ Serve(r) \/ Depart(r) \/ Reject(r)
        BY <2>1 DEF ServerStep
      <3>2. CASE Push(r) \/ Pop(r)
        BY <1>0, <3>2 DEF Push, Pop
      <3>3. CASE Depart(r)
        BY <1>5, <3>3 DEF Depart
      <3>4. CASE Announce(r) \/ Serve(r) \/ Reject(r)
        <4>1. \E n \in {0, 1} : Blame(asked[r], n)
          BY <3>4 DEF Announce, Serve, Reject, EmitEvent
        <4> QED
          BY <1>5, <4>1
      <3> QED
        BY <3>1, <3>2, <3>3, <3>4
    <2>2. CASE StreamLoses
      <3>1. \E q : \E n \in {0, 1} : Blame(q, n)
        BY <2>2 DEF StreamLoses
      <3> QED
        BY <1>5, <3>1
    <2>3. CASE SubscribeUi
      <3>1. faults' = [p \in Paths |-> Straddling(p)]
        BY <1>0, <2>3 DEF SubscribeUi
      <3>2. \A p \in Paths : faults'[p] \in Nat
        BY <2>3, SnapshotDrift
      <3> QED
        BY <3>1, <3>2
    <2>4. CASE Disconnect
      BY <1>0, <2>4 DEF Disconnect
    <2>5. CASE UiStep
      <3>1. faults' = faults \/ \E q : \E n \in {0, 1} : Blame(q, n)
        BY <2>5 DEF UiStep, TakeConfig, TakeSnapshot, StartLocal, TakeEvent, Tick, Press,
             StreamEnded
      <3> QED
        BY <1>0, <1>5, <3>1
    <2> QED
      BY <2>1, <2>2, <2>3, <2>4, <2>5 DEF MirrorNext
  <1>7. ASSUME phase' = "on", NEW p \in Paths PROVE Drifts(p)'
    <2>1. CASE SubscribeUi
      BY <2>1, SnapshotDrift
    <2>2. CASE ~SubscribeUi
      <3>1. phase = "on"
        BY <1>4, <1>7, <2>2
      <3>2. ~Disconnect
        BY <1>7 DEF Disconnect, Cut
      <3> QED
        BY <1>2, <2>2, <3>1, <3>2, ServerDrift, LossDrift, UiDrift DEF MirrorNext
    <2> QED
      BY <2>1, <2>2
  <1>8. phase' = "before" => \A i \in DOMAIN pipe' : pipe'[i].type = "event"
    BY EventsFirst
  <1> QED
    BY <1>1, <1>3, <1>4, <1>6, <1>7, <1>8 DEF DriftInv

(* So does a step of something else. *)
LEMMA DriftStutter ==
    ASSUME IsInjective(ConfigRows), DriftInv, UNCHANGED mirrorVars
    PROVE  DriftInv'
  <1>1. UNCHANGED <<asked, stage, queued, rows, pipe, phase, faults>>
    BY DEF mirrorVars, uiVars, streamVars, fixedVars, serverVars
  <1>2. MirrorInv'
    BY MirrorStepInv DEF DriftInv
  <1>3. ASSUME phase = "on", NEW p \in Paths PROVE Drifts(p)'
    <2>1. PICK e \in Nat : Ends(p, DotsOf(p), pipe, e) /\ Within(p, e)
      BY <1>3 DEF DriftInv, Drifts
    <2>2. DotsOf(p)' = DotsOf(p)
      BY <1>1, DotsShown
    <2>3. Ends(p, DotsOf(p)', pipe', e)
      BY <1>1, <2>1, <2>2
    <2>4. Within(p, e)'
      BY <1>1, <2>1, SameRequests DEF Within
    <2> QED
      BY <2>3, <2>4 DEF Drifts
  <1> QED
    BY <1>1, <1>2, <1>3 DEF DriftInv

(* "one entry per currently queued request", as far as it is true: if the
   configuration names each path once, then whatever is lost, thrown away or
   subscribed to at whatever moment, a display that has caught up is off by no more
   than what it was not told. *)
THEOREM DriftStaysBounded ==
    ASSUME IsInjective(ConfigRows)
    PROVE  MirrorSpec => []DriftBounded
  <1>1. DriftInv => DriftBounded
    <2> SUFFICES ASSUME DriftInv, Quiet, NEW p \in Registered
                 PROVE  Depth(p) - DotsOf(p) \in (0 - faults[p]) .. faults[p]
      BY DEF DriftBounded
    <2>1. /\ MirrorInv /\ MirrorTypeOK /\ phase = "on" /\ pipe = <<>>
          /\ \A r \in Requests :
               stage[r] # "pushed" /\ (stage[r] = "waiting" => r \in queued)
      BY DEF DriftInv, MirrorInv, Quiet
    <2>2. p \in Paths /\ DotsOf(p) \in Nat
      BY <2>1, PipeOfPaths, DotsType
    <2>3. faults[p] \in Nat /\ Drifts(p)
      BY <2>1, <2>2 DEF DriftInv
    <2>4. Within(p, DotsOf(p))
      BY <2>1, <2>2, <2>3, EndsEmpty DEF Drifts
    <2>5. queued \cap At(p) = Owed(p)
      <3>1. \A r \in Requests : stage[r] \in {"new", "pushed", "waiting", "over"}
            /\ (stage[r] = "new" => r \notin queued)
        BY <2>1 DEF DriftInv, MirrorTypeOK, Stages
      <3> QED
        BY <2>1, <3>1 DEF Owed, Waiting, At
    <2>6. /\ Cardinality(Waiting(p)) \in Nat /\ Cardinality(Owed(p)) \in Nat
          /\ Cardinality(Waiting(p)) <= Cardinality(Owed(p))
      <3>1. /\ Waiting(p) \in SUBSET Requests /\ Owed(p) \in SUBSET Requests
            /\ Waiting(p) \subseteq Owed(p)
        BY <2>1, StandingCounts DEF Owed
      <3> QED
        BY <3>1, RequestsCount
    <2>7. /\ Depth(p) = Cardinality(Owed(p))
          /\ DotsOf(p) - Cardinality(Waiting(p)) <= faults[p]
          /\ Cardinality(Owed(p)) - DotsOf(p) <= faults[p]
      BY <2>4, <2>5 DEF Within, Depth
    <2> QED
      BY <2>2, <2>3, <2>6, <2>7
  <1>2. DriftInv /\ [MirrorNext]_mirrorVars => DriftInv'
    BY DriftStep, DriftStutter
  <1> QED
    BY <1>1, <1>2, DriftInit, PTL DEF MirrorSpec
=============================================================================
