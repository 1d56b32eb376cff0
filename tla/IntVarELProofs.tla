--------------------------- MODULE IntVarELProofs ---------------------------
(* Proofs about module IntVarEL: a call enqueues what it should, in an order *)
(* in which every explanation is in time, and leaves domain and literals     *)
(* saying the same.                                                          *)
EXTENDS IntVarEL, SequenceTheorems, NaturalFacts

BoundsRight == lit_min \in Int /\ lit_max \in Int /\ lit_min <= lit_max /\ MaxLevel \in Nat

-----------------------------------------------------------------------------
(* Literals, by kind and value.                                              *)

LEMMA LitShape ==
  ASSUME NEW v \in Int, NEW w \in Int
  PROVE  /\ (GE(v) = GE(w) <=> v = w) /\ (LE(v) = LE(w) <=> v = w)
         /\ (EQ(v) = EQ(w) <=> v = w) /\ (NE(v) = NE(w) <=> v = w)
         /\ GE(v) # LE(w) /\ GE(v) # EQ(w) /\ GE(v) # NE(w)
         /\ LE(v) # EQ(w) /\ LE(v) # NE(w) /\ EQ(v) # NE(w)
  BY DEF GE, LE, EQ, NE

LEMMA LitNeg ==
  ASSUME NEW v \in Int
  PROVE  /\ neg(GE(v)) = LE(v - 1) /\ neg(LE(v)) = GE(v + 1)
         /\ neg(EQ(v)) = NE(v) /\ neg(NE(v)) = EQ(v)
  <1>1. ASSUME NEW a, NEW b PROVE neg(<<a, b, TRUE>>) = <<a, b, FALSE>> /\ neg(<<a, b, FALSE>>) = <<a, b, TRUE>>
    BY Zenon DEF neg
  <1>2. (v - 1) + 1 = v
    OBVIOUS
  <1> QED
    BY <1>1, <1>2 DEF GE, LE, EQ, NE

LEMMA LitSays ==
  ASSUME NEW v \in Int, NEW d \in Int
  PROVE  /\ Says(GE(v), d) <=> d >= v
         /\ Says(LE(v), d) <=> d <= v
         /\ Says(EQ(v), d) <=> d = v
         /\ Says(NE(v), d) <=> d # v
  <1>1. ASSUME NEW w \in Int PROVE (Says(<<"ge", w, TRUE>>, d) <=> d >= w) /\ (Says(<<"ge", w, FALSE>>, d) <=> ~ (d >= w))
    <2>1. (Says(<<"ge", w, TRUE>>, d) <=> ((d >= w) = TRUE)) /\ (Says(<<"ge", w, FALSE>>, d) <=> ((d >= w) = FALSE))
      BY Zenon DEF Says
    <2>2. (d >= w) \in BOOLEAN
      OBVIOUS
    <2> QED
      BY <2>1, <2>2, Zenon
  <1>2. ASSUME NEW w PROVE (Says(<<"eq", w, TRUE>>, d) <=> d = w) /\ (Says(<<"eq", w, FALSE>>, d) <=> d # w)
    BY Zenon DEF Says
  <1>3. d <= v <=> ~ (d >= v + 1)
    OBVIOUS
  <1>4. Says(GE(v), d) <=> d >= v
    BY <1>1, Zenon DEF GE
  <1>5. Says(LE(v), d) <=> ~ (d >= v + 1)
    <2>1. v + 1 \in Int
      OBVIOUS
    <2> QED
      BY <1>1, <2>1, Zenon DEF LE
  <1>6. (Says(EQ(v), d) <=> d = v) /\ (Says(NE(v), d) <=> d # v)
    BY <1>2, Zenon DEF EQ, NE
  <1> QED
    BY <1>3, <1>4, <1>5, <1>6

LEMMA LitType ==
  ASSUME BoundsRight
  PROVE  /\ \A v \in lit_min .. lit_max + 1 : GE(v) \in Lit /\ v \in Int
         /\ \A v \in lit_min - 1 .. lit_max : LE(v) \in Lit /\ v \in Int
         /\ \A v \in Value : EQ(v) \in Lit /\ NE(v) \in Lit /\ v \in Int
         /\ \A l \in Lit : \/ \E v \in lit_min .. lit_max + 1 : l = GE(v)
                           \/ \E v \in lit_min - 1 .. lit_max : l = LE(v)
                           \/ \E v \in Value : l = EQ(v) \/ l = NE(v)
         /\ \A b \in BOOLEAN : Constant(b) \notin Lit
  <1>1. \A b \in BOOLEAN : Constant(b) \notin Lit
    BY DEF Lit, BoundLits, ValueLits, Constant, GE, LE, EQ, NE
  <1> QED
    BY <1>1 DEF BoundsRight, Lit, BoundLits, ValueLits, Value

(* The literals of the kinds for the values in a, b, c and d. *)
Of(a, b, c, d) == {GE(v) : v \in a} \cup {LE(v) : v \in b} \cup {NE(v) : v \in c} \cup {EQ(v) : v \in d}

LEMMA OfMember ==
  ASSUME NEW a \in SUBSET Int, NEW b \in SUBSET Int, NEW c \in SUBSET Int, NEW d \in SUBSET Int, NEW v \in Int
  PROVE  /\ GE(v) \in Of(a, b, c, d) <=> v \in a
         /\ LE(v) \in Of(a, b, c, d) <=> v \in b
         /\ NE(v) \in Of(a, b, c, d) <=> v \in c
         /\ EQ(v) \in Of(a, b, c, d) <=> v \in d
  <1>1. \A w \in a \cup b \cup c \cup d : w \in Int
    OBVIOUS
  <1> QED
    BY <1>1, LitShape DEF Of

-----------------------------------------------------------------------------
(* What may be enqueued when the literals A are true, and sequences of it    *)
(* after which those of B are.                                               *)

Entry == [lit : Lit, reason : Clause]
Lits(s) == {s[i].lit : i \in DOMAIN s}
Before(A, s, i) == A \cup {s[j].lit : j \in 1 .. i - 1}

Explains(r, l, A) ==
  r # {} /\ r # Given => /\ \A q \in r : neg(q) \in A
                         /\ \A d \in Value : \E q \in r \cup {l} : Says(q, d)
May(e, A) == e.lit \notin A /\ neg(e.lit) \notin A /\ Explains(e.reason, e.lit, A)

Enqueues(A, s, B) ==
  /\ s \in Seq(Entry) /\ B = A \cup Lits(s)
  /\ \A i \in DOMAIN s : May(s[i], Before(A, s, i))

LEMMA EnqueueNone ==
  ASSUME NEW A
  PROVE  Enqueues(A, <<>>, A)
  BY DEF Enqueues, Lits

LEMMA EnqueueOne ==
  ASSUME NEW A, NEW e \in Entry, May(e, A)
  PROVE  Enqueues(A, <<e>>, A \cup {e.lit})
  <1>1. <<e>> \in Seq(Entry) /\ DOMAIN <<e>> = {1} /\ <<e>>[1] = e
    OBVIOUS
  <1>2. Lits(<<e>>) = {e.lit}
    BY <1>1 DEF Lits
  <1>3. Before(A, <<e>>, 1) = A
    BY DEF Before
  <1> QED
    BY <1>1, <1>2, <1>3 DEF Enqueues

LEMMA EnqueueThen ==
  ASSUME NEW A, NEW B, NEW C, NEW s, NEW t, Enqueues(A, s, B), Enqueues(B, t, C)
  PROVE  Enqueues(A, s \o t, C)
  <1> DEFINE u == s \o t
  <1>1. /\ s \in Seq(Entry) /\ t \in Seq(Entry) /\ u \in Seq(Entry)
        /\ Len(s) \in Nat /\ Len(t) \in Nat /\ Len(u) = Len(s) + Len(t)
        /\ DOMAIN s = 1 .. Len(s) /\ DOMAIN t = 1 .. Len(t) /\ DOMAIN u = 1 .. Len(u)
        /\ \A i \in 1 .. Len(s) : u[i] = s[i]
        /\ \A i \in 1 .. Len(t) : u[Len(s) + i] = t[i]
    BY DEF Enqueues
  <1> DEFINE m == Len(s)
             n == Len(t)
  <1> HIDE DEF u, m, n
  <1>2. /\ m \in Nat /\ n \in Nat /\ DOMAIN s = 1 .. m /\ DOMAIN t = 1 .. n /\ DOMAIN u = 1 .. m + n
        /\ \A i \in 1 .. m : u[i] = s[i]
        /\ \A i \in 1 .. n : u[m + i] = t[i]
    BY <1>1 DEF m, n
  <1>3. \A i \in 1 .. m + n : i \in 1 .. m \/ (i - m \in 1 .. n /\ m + (i - m) = i)
    BY <1>2
  <1>4. \A i \in 1 .. n : m + i \in 1 .. m + n
    BY <1>2
  <1>5. \A i \in 1 .. m : i \in 1 .. m + n
    BY <1>2
  <1>6. Lits(u) = Lits(s) \cup Lits(t)
    <2>1. ASSUME NEW l \in Lits(u) PROVE l \in Lits(s) \cup Lits(t)
      <3>1. PICK i \in 1 .. m + n : l = u[i].lit
        BY <1>2 DEF Lits
      <3>2. CASE i \in 1 .. m
        BY <3>1, <3>2, <1>2 DEF Lits
      <3>3. CASE i - m \in 1 .. n /\ m + (i - m) = i
        BY <3>1, <3>3, <1>2 DEF Lits
      <3> QED
        BY <3>2, <3>3, <1>3
    <2>2. ASSUME NEW l \in Lits(s) PROVE l \in Lits(u)
      BY <1>2, <1>5 DEF Lits
    <2>3. ASSUME NEW l \in Lits(t) PROVE l \in Lits(u)
      <3>1. PICK i \in 1 .. n : l = t[i].lit
        BY <1>2 DEF Lits
      <3>2. m + i \in 1 .. m + n /\ u[m + i] = t[i]
        BY <1>2, <1>4
      <3> QED
        BY <3>1, <3>2, <1>2 DEF Lits
    <2> QED
      BY <2>1, <2>2, <2>3
  <1>7. ASSUME NEW i \in 1 .. m + n PROVE May(u[i], Before(A, u, i))
    <2>1. CASE i \in 1 .. m
      <3>1. \A j \in 1 .. i - 1 : j \in 1 .. m
        BY <2>1, <1>2
      <3>2. Before(A, u, i) = Before(A, s, i)
        BY <3>1, <1>2 DEF Before
      <3> QED
        BY <3>2, <2>1, <1>2 DEF Enqueues
    <2>2. CASE i - m \in 1 .. n /\ m + (i - m) = i
      <3>1. \A j \in 1 .. i - 1 : j \in 1 .. m \/ (j - m \in 1 .. (i - m) - 1 /\ j - m \in 1 .. n /\ m + (j - m) = j)
        BY <2>2, <1>2
      <3>2. \A j \in 1 .. (i - m) - 1 : m + j \in 1 .. i - 1 /\ j \in 1 .. n
        BY <2>2, <1>2
      <3>3. \A j \in 1 .. m : j \in 1 .. i - 1
        BY <2>2, <1>2
      <3>4. Before(A, u, i) = Before(B, t, i - m)
        <4>1. ASSUME NEW l \in Before(A, u, i) PROVE l \in Before(B, t, i - m)
          <5>1. CASE l \in A
            BY <5>1 DEF Before, Enqueues
          <5>2. ASSUME NEW j \in 1 .. i - 1, l = u[j].lit PROVE l \in Before(B, t, i - m)
            <6>1. CASE j \in 1 .. m
              BY <6>1, <5>2, <1>2 DEF Before, Enqueues, Lits
            <6>2. CASE j - m \in 1 .. (i - m) - 1 /\ j - m \in 1 .. n /\ m + (j - m) = j
              BY <6>2, <5>2, <1>2 DEF Before
            <6> QED
              BY <6>1, <6>2, <3>1
          <5> QED
            BY <5>1, <5>2 DEF Before
        <4>2. ASSUME NEW l \in Before(B, t, i - m) PROVE l \in Before(A, u, i)
          <5>1. CASE l \in A
            BY <5>1 DEF Before
          <5>2. CASE l \in Lits(s)
            <6>1. PICK j \in 1 .. m : l = s[j].lit
              BY <5>2, <1>2 DEF Lits
            <6> QED
              BY <6>1, <3>3, <1>2 DEF Before
          <5>3. ASSUME NEW j \in 1 .. (i - m) - 1, l = t[j].lit PROVE l \in Before(A, u, i)
            <6>1. m + j \in 1 .. i - 1 /\ u[m + j] = t[j]
              BY <3>2, <1>2
            <6> QED
              BY <6>1, <5>3 DEF Before
          <5>4. l \in A \/ l \in Lits(s) \/ \E j \in 1 .. (i - m) - 1 : l = t[j].lit
            BY DEF Before, Enqueues
          <5> QED
            BY <5>1, <5>2, <5>3, <5>4
        <4> QED
          BY <4>1, <4>2
      <3>5. u[i] = t[i - m]
        BY <2>2, <1>2
      <3> QED
        BY <3>4, <3>5, <2>2, <1>2 DEF Enqueues
    <2> QED
      BY <2>1, <2>2, <1>3
  <1>8. u \in Seq(Entry) /\ C = A \cup Lits(u)
    BY <1>1, <1>6 DEF Enqueues
  <1>9. Enqueues(A, u, C)
    BY <1>7, <1>8, <1>2 DEF Enqueues
  <1> QED
    BY <1>9 DEF u

-----------------------------------------------------------------------------
(* A concatenation of sequences, through the recursion that defines it.      *)

LEMMA FlattenShape ==
  ASSUME NEW X, NEW ss \in Seq(Seq(X)), Len(ss) > 0
  PROVE  \E f \in [1 .. Len(ss) -> Seq(X)] :
           /\ f[1] = ss[1] /\ FlattenSeq(ss) = f[Len(ss)]
           /\ \A i \in 2 .. Len(ss) : f[i] = f[i - 1] \o ss[i]
  <1> DEFINE n == Len(ss)
             Rec(f, k) == f = [i \in 1 .. k |-> IF i = 1 THEN ss[i] ELSE f[i - 1] \o ss[i]]
             Begun(k) == \E f \in [1 .. k -> Seq(X)] : Rec(f, k)
             T == {k \in Nat : k <= n => Begun(k)}
  <1>1. n \in Nat /\ n > 0 /\ (\A i \in 1 .. n : ss[i] \in Seq(X))
    OBVIOUS
  <1> HIDE DEF n, Begun
  <1>2. 0 \in T
    <2>1. 1 .. 0 = {}
      OBVIOUS
    <2>2. PICK f : f = [i \in 1 .. 0 |-> <<>>]
      OBVIOUS
    <2>3. f \in [1 .. 0 -> Seq(X)] /\ Rec(f, 0)
      BY <2>1, <2>2
    <2>4. Begun(0)
      BY <2>3 DEF Begun
    <2> QED
      BY <2>4
  <1>3. ASSUME NEW k \in Nat, k \in T PROVE k + 1 \in T
    <2> SUFFICES ASSUME k + 1 <= n PROVE Begun(k + 1)
      OBVIOUS
    <2>0. Begun(k)
      BY <1>1, <1>3
    <2>1. PICK f \in [1 .. k -> Seq(X)] : Rec(f, k)
      BY <2>0 DEF Begun
    <2> DEFINE last == IF k = 0 THEN ss[1] ELSE f[k] \o ss[k + 1]
               g == [i \in 1 .. k + 1 |-> IF i = k + 1 THEN last ELSE f[i]]
    <2>2. last \in Seq(X)
      <3>1. k + 1 \in 1 .. n /\ (k # 0 => k \in 1 .. k)
        BY <1>1
      <3> QED
        BY <3>1, <1>1
    <2>3. g \in [1 .. k + 1 -> Seq(X)]
      BY <2>2
    <2>4. ASSUME NEW i \in 1 .. k + 1 PROVE g[i] = IF i = 1 THEN ss[i] ELSE g[i - 1] \o ss[i]
      <3>1. CASE i = k + 1
        <4>1. k # 0 => i - 1 = k /\ k \in 1 .. k + 1 /\ k # k + 1
          BY <3>1
        <4> QED
          BY <3>1, <4>1
      <3>2. CASE i # k + 1
        <4>1. i \in 1 .. k /\ (i # 1 => i - 1 \in 1 .. k + 1 /\ i - 1 # k + 1)
          BY <3>2
        <4>2. f[i] = IF i = 1 THEN ss[i] ELSE f[i - 1] \o ss[i]
          BY <4>1, <2>1
        <4> QED
          BY <3>2, <4>1, <4>2
      <3> QED
        BY <3>1, <3>2
    <2>5. Rec(g, k + 1)
      BY <2>4
    <2> QED
      BY <2>3, <2>5 DEF Begun
  <1>4. n \in T
    <2> HIDE DEF T
    <2> QED
      BY <1>1, <1>2, <1>3, Induction
  <1>5. \E f : Rec(f, n)
    <2>1. Begun(n)
      BY <1>1, <1>4
    <2> QED
      BY <2>1 DEF Begun
  <1> DEFINE f == CHOOSE f : Rec(f, n)
  <1>6. Rec(f, n)
    BY <1>5
  <1>7. FlattenSeq(ss) = f[n]
    BY <1>1 DEF FlattenSeq, n
  <1> HIDE DEF f
  <1>8. \A i \in 1 .. n : f[i] = IF i = 1 THEN ss[i] ELSE f[i - 1] \o ss[i]
    BY <1>6
  <1>9. f \in [1 .. n -> Seq(X)]
    <2> DEFINE U == {k \in Nat : k \in 1 .. n => f[k] \in Seq(X)}
    <2>1. 0 \in U
      OBVIOUS
    <2>2. ASSUME NEW k \in Nat, k \in U PROVE k + 1 \in U
      <3> SUFFICES ASSUME k + 1 \in 1 .. n PROVE f[k + 1] \in Seq(X)
        OBVIOUS
      <3>1. (k + 1 # 1 => k \in 1 .. n) /\ (k + 1) - 1 = k
        BY <1>1
      <3>2. f[k + 1] = IF k + 1 = 1 THEN ss[k + 1] ELSE f[(k + 1) - 1] \o ss[k + 1]
        BY <1>8
      <3>3. k + 1 # 1 => f[k] \in Seq(X)
        BY <3>1, <2>2
      <3> QED
        BY <3>1, <3>2, <3>3, <1>1
    <2>3. \A k \in Nat : k \in U
      <3> HIDE DEF U
      <3> QED
        BY <2>1, <2>2, Induction
    <2>4. \A k \in 1 .. n : f[k] \in Seq(X)
      BY <2>3, <1>1
    <2> QED
      BY <2>4, <1>6
  <1>10. f[1] = ss[1] /\ \A i \in 2 .. n : f[i] = f[i - 1] \o ss[i]
    <2>1. 1 \in 1 .. n /\ \A i \in 2 .. n : i \in 1 .. n /\ i # 1
      BY <1>1
    <2> QED
      BY <2>1, <1>8
  <1> QED
    BY <1>7, <1>9, <1>10 DEF n

(* Sequences that can be enqueued one after the other can be together. *)
LEMMA EnqueueAll ==
  ASSUME NEW ss \in Seq(Seq(Entry)), NEW A,
         \A k \in 1 .. Len(ss) : Enqueues(A[k - 1], ss[k], A[k])
  PROVE  Enqueues(A[0], FlattenSeq(ss), A[Len(ss)])
  <1> DEFINE n == Len(ss)
  <1>1. n \in Nat
    OBVIOUS
  <1>2. CASE n = 0
    <2>1. FlattenSeq(ss) = <<>>
      BY <1>2 DEF FlattenSeq
    <2> QED
      BY <1>2, <2>1, EnqueueNone
  <1>3. CASE n > 0
    <2>1. PICK f \in [1 .. n -> Seq(Entry)] :
            /\ f[1] = ss[1] /\ FlattenSeq(ss) = f[n]
            /\ \A i \in 2 .. n : f[i] = f[i - 1] \o ss[i]
      BY <1>3, FlattenShape
    <2> DEFINE T == {k \in Nat : k \in 1 .. n => Enqueues(A[0], f[k], A[k])}
    <2>2. \A k \in 1 .. n : Enqueues(A[k - 1], ss[k], A[k])
      OBVIOUS
    <2> HIDE DEF n
    <2>3. 0 \in T
      OBVIOUS
    <2>4. ASSUME NEW k \in Nat, k \in T PROVE k + 1 \in T
      <3> SUFFICES ASSUME k + 1 \in 1 .. n PROVE Enqueues(A[0], f[k + 1], A[k + 1])
        OBVIOUS
      <3>1. Enqueues(A[k], ss[k + 1], A[k + 1])
        <4>1. (k + 1) - 1 = k
          OBVIOUS
        <4> QED
          BY <4>1, <2>2
      <3>2. CASE k = 0
        BY <3>1, <3>2, <2>1
      <3>3. CASE k # 0
        <4>1. k \in 1 .. n /\ k + 1 \in 2 .. n /\ (k + 1) - 1 = k
          BY <3>3, <1>1
        <4>2. Enqueues(A[0], f[k], A[k])
          BY <4>1, <2>4
        <4>3. f[k + 1] = f[k] \o ss[k + 1]
          BY <4>1, <2>1
        <4> QED
          BY <4>2, <4>3, <3>1, EnqueueThen
      <3> QED
        BY <3>2, <3>3
    <2>5. n \in T
      <3> HIDE DEF T
      <3> QED
        BY <1>1, <2>3, <2>4, Induction
    <2>6. n \in 1 .. n
      BY <1>1, <1>3
    <2>7. Enqueues(A[0], f[n], A[n])
      BY <2>5, <2>6
    <2> QED
      BY <2>7, <2>1 DEF n
  <1> QED
    BY <1>1, <1>2, <1>3

-----------------------------------------------------------------------------
(* The pieces that a call is made of.                                        *)

(* One more literal. *)
LEMMA MayGE ==
  ASSUME BoundsRight, NEW a \in SUBSET Int, NEW b \in SUBSET Int, NEW c \in SUBSET Int, NEW d \in SUBSET Int,
         NEW v \in lit_min .. lit_max + 1, NEW r \in Clause, v \notin a, v - 1 \notin b,
         Explains(r, GE(v), Of(a, b, c, d))
  PROVE  /\ entry(GE(v), r) \in Entry /\ entry(GE(v), r).lit = GE(v)
         /\ May(entry(GE(v), r), Of(a, b, c, d))
  <1>1. v \in Int /\ v - 1 \in Int /\ GE(v) \in Lit
    BY LitType DEF BoundsRight
  <1>2. entry(GE(v), r) \in Entry /\ entry(GE(v), r).lit = GE(v) /\ entry(GE(v), r).reason = r
    BY <1>1 DEF entry, Entry
  <1>3. GE(v) \notin Of(a, b, c, d) /\ neg(GE(v)) \notin Of(a, b, c, d)
    BY <1>1, OfMember, LitNeg
  <1>4. May(entry(GE(v), r), Of(a, b, c, d))
    BY <1>2, <1>3 DEF May
  <1> QED
    BY <1>2, <1>4

LEMMA AddGE ==
  ASSUME BoundsRight, NEW a \in SUBSET Int, NEW b \in SUBSET Int, NEW c \in SUBSET Int, NEW d \in SUBSET Int,
         NEW v \in lit_min .. lit_max + 1, NEW r \in Clause, v \notin a, v - 1 \notin b,
         Explains(r, GE(v), Of(a, b, c, d))
  PROVE  Enqueues(Of(a, b, c, d), <<entry(GE(v), r)>>, Of(a \cup {v}, b, c, d))
  <1>1. /\ entry(GE(v), r) \in Entry /\ entry(GE(v), r).lit = GE(v)
        /\ May(entry(GE(v), r), Of(a, b, c, d))
    BY MayGE
  <1>2. Enqueues(Of(a, b, c, d), <<entry(GE(v), r)>>, Of(a, b, c, d) \cup {entry(GE(v), r).lit})
    BY <1>1, EnqueueOne
  <1>3. Of(a, b, c, d) \cup {GE(v)} = Of(a \cup {v}, b, c, d)
    BY DEF Of
  <1> QED
    BY <1>1, <1>2, <1>3

LEMMA MayLE ==
  ASSUME BoundsRight, NEW a \in SUBSET Int, NEW b \in SUBSET Int, NEW c \in SUBSET Int, NEW d \in SUBSET Int,
         NEW v \in lit_min - 1 .. lit_max, NEW r \in Clause, v \notin b, v + 1 \notin a,
         Explains(r, LE(v), Of(a, b, c, d))
  PROVE  /\ entry(LE(v), r) \in Entry /\ entry(LE(v), r).lit = LE(v)
         /\ May(entry(LE(v), r), Of(a, b, c, d))
  <1>1. v \in Int /\ v + 1 \in Int /\ LE(v) \in Lit
    BY LitType DEF BoundsRight
  <1>2. entry(LE(v), r) \in Entry /\ entry(LE(v), r).lit = LE(v) /\ entry(LE(v), r).reason = r
    BY <1>1 DEF entry, Entry
  <1>3. LE(v) \notin Of(a, b, c, d) /\ neg(LE(v)) \notin Of(a, b, c, d)
    BY <1>1, OfMember, LitNeg
  <1>4. May(entry(LE(v), r), Of(a, b, c, d))
    BY <1>2, <1>3 DEF May
  <1> QED
    BY <1>2, <1>4

LEMMA AddLE ==
  ASSUME BoundsRight, NEW a \in SUBSET Int, NEW b \in SUBSET Int, NEW c \in SUBSET Int, NEW d \in SUBSET Int,
         NEW v \in lit_min - 1 .. lit_max, NEW r \in Clause, v \notin b, v + 1 \notin a,
         Explains(r, LE(v), Of(a, b, c, d))
  PROVE  Enqueues(Of(a, b, c, d), <<entry(LE(v), r)>>, Of(a, b \cup {v}, c, d))
  <1>1. /\ entry(LE(v), r) \in Entry /\ entry(LE(v), r).lit = LE(v)
        /\ May(entry(LE(v), r), Of(a, b, c, d))
    BY MayLE
  <1>2. Enqueues(Of(a, b, c, d), <<entry(LE(v), r)>>, Of(a, b, c, d) \cup {entry(LE(v), r).lit})
    BY <1>1, EnqueueOne
  <1>3. Of(a, b, c, d) \cup {LE(v)} = Of(a, b \cup {v}, c, d)
    BY DEF Of
  <1> QED
    BY <1>1, <1>2, <1>3

LEMMA AddNE ==
  ASSUME BoundsRight, NEW a \in SUBSET Int, NEW b \in SUBSET Int, NEW c \in SUBSET Int, NEW d \in SUBSET Int,
         NEW v \in Value, NEW r \in Clause, v \notin c, v \notin d,
         Explains(r, NE(v), Of(a, b, c, d))
  PROVE  Enqueues(Of(a, b, c, d), <<entry(NE(v), r)>>, Of(a, b, c \cup {v}, d))
  <1>1. v \in Int /\ NE(v) \in Lit
    BY LitType
  <1>2. entry(NE(v), r) \in Entry /\ entry(NE(v), r).lit = NE(v) /\ entry(NE(v), r).reason = r
    BY <1>1 DEF entry, Entry
  <1>3. NE(v) \notin Of(a, b, c, d) /\ neg(NE(v)) \notin Of(a, b, c, d)
    BY <1>1, OfMember, LitNeg
  <1>4. May(entry(NE(v), r), Of(a, b, c, d))
    BY <1>2, <1>3 DEF May
  <1>5. Enqueues(Of(a, b, c, d), <<entry(NE(v), r)>>, Of(a, b, c, d) \cup {entry(NE(v), r).lit})
    BY <1>2, <1>4, EnqueueOne
  <1>6. Of(a, b, c, d) \cup {NE(v)} = Of(a, b, c \cup {v}, d)
    BY DEF Of
  <1> QED
    BY <1>2, <1>5, <1>6

LEMMA AddEQ ==
  ASSUME BoundsRight, NEW a \in SUBSET Int, NEW b \in SUBSET Int, NEW c \in SUBSET Int, NEW d \in SUBSET Int,
         NEW v \in Value, NEW r \in Clause, v \notin c, v \notin d,
         Explains(r, EQ(v), Of(a, b, c, d))
  PROVE  Enqueues(Of(a, b, c, d), <<entry(EQ(v), r)>>, Of(a, b, c, d \cup {v}))
  <1>1. v \in Int /\ EQ(v) \in Lit
    BY LitType
  <1>2. entry(EQ(v), r) \in Entry /\ entry(EQ(v), r).lit = EQ(v) /\ entry(EQ(v), r).reason = r
    BY <1>1 DEF entry, Entry
  <1>3. EQ(v) \notin Of(a, b, c, d) /\ neg(EQ(v)) \notin Of(a, b, c, d)
    BY <1>1, OfMember, LitNeg
  <1>4. May(entry(EQ(v), r), Of(a, b, c, d))
    BY <1>2, <1>3 DEF May
  <1>5. Enqueues(Of(a, b, c, d), <<entry(EQ(v), r)>>, Of(a, b, c, d) \cup {entry(EQ(v), r).lit})
    BY <1>2, <1>4, EnqueueOne
  <1>6. Of(a, b, c, d) \cup {EQ(v)} = Of(a, b, c, d \cup {v})
    BY DEF Of
  <1> QED
    BY <1>2, <1>5, <1>6

(* What [x >= v] implies. *)
LEMMA ByGE ==
  ASSUME BoundsRight, NEW a \in SUBSET Int, NEW b \in SUBSET Int, NEW c \in SUBSET Int, NEW d \in SUBSET Int,
         NEW v \in Value, v \in a, NEW i \in Value, i < v
  PROVE  /\ {neg(GE(v))} \in Clause
         /\ Explains({neg(GE(v))}, GE(i), Of(a, b, c, d))
         /\ Explains({neg(GE(v))}, NE(i), Of(a, b, c, d))
  <1>1. v \in Int /\ i \in Int /\ v - 1 \in Int /\ v - 1 \in lit_min - 1 .. lit_max /\ (v - 1) + 1 = v
    BY DEF Value, BoundsRight
  <1>2. neg(GE(v)) = LE(v - 1) /\ neg(neg(GE(v))) = GE(v)
    BY <1>1, LitNeg
  <1>3. LE(v - 1) \in Lit /\ GE(v) \in Of(a, b, c, d)
    BY <1>1, LitType, OfMember
  <1>4. ASSUME NEW e \in Value
        PROVE  /\ \E q \in {neg(GE(v))} \cup {GE(i)} : Says(q, e)
               /\ \E q \in {neg(GE(v))} \cup {NE(i)} : Says(q, e)
    <2>1. e \in Int
      BY DEF Value, BoundsRight
    <2>2. /\ Says(LE(v - 1), e) <=> e <= v - 1
          /\ Says(GE(i), e) <=> e >= i
          /\ Says(NE(i), e) <=> e # i
      BY <1>1, <2>1, LitSays
    <2>3. (e <= v - 1 \/ e >= i) /\ (e <= v - 1 \/ e # i)
      BY <1>1, <2>1
    <2> QED
      BY <1>2, <2>2, <2>3
  <1> QED
    BY <1>2, <1>3, <1>4 DEF Clause, Explains

(* What goes with one value that a bound passes. *)
LEMMA PassedGE ==
  ASSUME BoundsRight, NEW a \in SUBSET Int, NEW b \in SUBSET Int, NEW c \in SUBSET Int, NEW d \in SUBSET Int,
         NEW v \in Value, v \in a, NEW i \in Value, i < v,
         i \notin a, i - 1 \notin b, i \notin d, i \in c <=> i \notin vals
  PROVE  Enqueues(Of(a, b, c, d), passed(GE(i), i, GE(v)), Of(a \cup {i}, b, c \cup {i}, d))
  <1>1. i \in Int /\ i \in lit_min .. lit_max + 1
    BY DEF Value, BoundsRight
  <1>2. /\ {neg(GE(v))} \in Clause
        /\ Explains({neg(GE(v))}, GE(i), Of(a, b, c, d))
        /\ Explains({neg(GE(v))}, NE(i), Of(a \cup {i}, b, c, d))
    BY <1>1, ByGE
  <1>3. Enqueues(Of(a, b, c, d), <<entry(GE(i), {neg(GE(v))})>>, Of(a \cup {i}, b, c, d))
    BY <1>1, <1>2, AddGE
  <1>4. CASE i \in vals
    <2>1. Enqueues(Of(a \cup {i}, b, c, d), <<entry(NE(i), {neg(GE(v))})>>, Of(a \cup {i}, b, c \cup {i}, d))
      BY <1>1, <1>2, <1>4, AddNE
    <2> QED
      BY <1>3, <1>4, <2>1, EnqueueThen DEF passed
  <1>5. CASE i \notin vals
    <2>1. c \cup {i} = c
      BY <1>5
    <2>2. passed(GE(i), i, GE(v)) = <<entry(GE(i), {neg(GE(v))})>>
      BY <1>5 DEF passed
    <2> QED
      BY <1>3, <2>1, <2>2
  <1> QED
    BY <1>4, <1>5

LEMMA AppendLast ==
  ASSUME NEW X, NEW s \in Seq(X), NEW e
  PROVE  Append(s, e) = s \o <<e>>
  OBVIOUS

LEMMA ChannelMin ==
  ASSUME BoundsRight, vals \subseteq Value, min \in vals, NEW v \in Value, min < v,
         NEW b \in SUBSET Int, NEW c \in SUBSET Int, NEW d \in SUBSET {v},
         \A i \in b : i >= v, \A i \in min .. v - 1 : i \in c <=> i \notin vals
  PROVE  Enqueues(Of((lit_min .. min) \cup {v}, b, c, d), channelMin(v), Of(lit_min .. v, b, c \cup (min .. v - 1), d))
  <1> DEFINE n == v - 1 - min
             low == (lit_min .. min) \cup {v}
             piece(k) == passed(GE(v - k), v - k, GE(v))
             ss == [k \in 1 .. n |-> piece(k)]
             A == [k \in 0 .. n |-> Of(low \cup (v - k .. v - 1), b, c \cup (v - k .. v - 1), d)]
  <1>1. /\ lit_min \in Int /\ lit_max \in Int /\ min \in Int /\ v \in Int /\ min \in Value
        /\ lit_min <= min /\ v <= lit_max /\ n \in Nat /\ v - 1 - n = min
    BY DEF BoundsRight, Value
  <1>2. ASSUME NEW k \in 1 .. n PROVE Enqueues(A[k - 1], ss[k], A[k])
    <2> DEFINE i == v - k
               a0 == low \cup (i + 1 .. v - 1)
               c0 == c \cup (i + 1 .. v - 1)
    <2>1. /\ i \in Int /\ i \in Value /\ i < v /\ i > min /\ i \in min .. v - 1
          /\ k - 1 \in 0 .. n /\ k \in 0 .. n /\ v - (k - 1) = i + 1
      BY <1>1 DEF Value
    <2> HIDE DEF i
    <2>2. i \notin a0 /\ v \in a0 /\ (i - 1 \notin b) /\ i \notin d /\ (i \in c0 <=> i \notin vals)
      BY <2>1, <1>1
    <2>3. a0 \cup {i} = low \cup (i .. v - 1) /\ c0 \cup {i} = c \cup (i .. v - 1)
      <3>1. (i + 1 .. v - 1) \cup {i} = i .. v - 1
        BY <2>1, <1>1
      <3> QED
        BY <3>1
    <2>4. a0 \in SUBSET Int /\ c0 \in SUBSET Int /\ d \in SUBSET Int
      <3>1. \A e \in d : e \in Int
        BY <1>1
      <3>2. low \in SUBSET Int /\ i + 1 .. v - 1 \in SUBSET Int
        BY <1>1, <2>1
      <3> HIDE DEF low
      <3> QED
        BY <3>1, <3>2
    <2>5. Enqueues(Of(a0, b, c0, d), passed(GE(i), i, GE(v)), Of(a0 \cup {i}, b, c0 \cup {i}, d))
      <3> HIDE DEF a0, c0
      <3> QED
        BY <2>1, <2>2, <2>4, PassedGE
    <2>6. A[k - 1] = Of(a0, b, c0, d)
      BY <2>1
    <2>7. A[k] = Of(low \cup (i .. v - 1), b, c \cup (i .. v - 1), d)
      BY <2>1 DEF i
    <2>8. ss[k] = passed(GE(i), i, GE(v))
      BY DEF i
    <2> QED
      BY <2>3, <2>5, <2>6, <2>7, <2>8
  <1>3. ss \in Seq(Seq(Entry)) /\ Len(ss) = n
    <2>1. \A k \in 1 .. n : ss[k] \in Seq(Entry)
      BY <1>2 DEF Enqueues
    <2> HIDE DEF n
    <2>2. DOMAIN ss = 1 .. n
      OBVIOUS
    <2>3. ss \in [1 .. n -> Seq(Entry)]
      <3> HIDE DEF piece
      <3> QED
        BY <2>1
    <2>4. n \in Nat
      BY <1>1
    <2> HIDE DEF ss
    <2> QED
      BY <2>2, <2>3, <2>4
  <1>4. Enqueues(A[0], FlattenSeq(ss), A[n])
    <2> HIDE DEF ss, A, n
    <2> QED
      BY <1>2, <1>3, EnqueueAll
  <1>5. A[0] = Of(low, b, c, d)
    <2>1. v - 0 .. v - 1 = {} /\ 0 \in 0 .. n
      BY <1>1
    <2> QED
      BY <2>1
  <1>6. A[n] = Of(lit_min .. v, b, c \cup (min + 1 .. v - 1), d)
    <2>1. n \in 0 .. n /\ v - n = min + 1
      BY <1>1
    <2>2. low \cup (min + 1 .. v - 1) = lit_min .. v
      BY <1>1
    <2> QED
      BY <2>1, <2>2
  <1> DEFINE c1 == c \cup (min + 1 .. v - 1)
  <1>7. Enqueues(Of(lit_min .. v, b, c1, d), <<entry(NE(min), {neg(GE(v))})>>, Of(lit_min .. v, b, c1 \cup {min}, d))
    <2>1. min \notin c1 /\ min \notin d /\ c1 \in SUBSET Int /\ d \in SUBSET Int /\ lit_min .. v \in SUBSET Int /\ v \in lit_min .. v
      BY <1>1
    <2> HIDE DEF c1
    <2>2. {neg(GE(v))} \in Clause /\ Explains({neg(GE(v))}, NE(min), Of(lit_min .. v, b, c1, d))
      BY <2>1, <1>1, ByGE
    <2> QED
      BY <2>1, <2>2, <1>1, AddNE
  <1>8. c1 \cup {min} = c \cup (min .. v - 1)
    BY <1>1
  <1>9. channelMin(v) = FlattenSeq(ss) \o <<entry(NE(min), {neg(GE(v))})>>
    <2>1. FlattenSeq(ss) \in Seq(Entry)
      BY <1>4 DEF Enqueues
    <2>2. channelMin(v) = Append(FlattenSeq(ss), entry(NE(min), {neg(GE(v))}))
      BY DEF channelMin
    <2> QED
      BY <2>1, <2>2, AppendLast
  <1> QED
    <2> HIDE DEF ss, A, n, low, c1
    <2>1. Enqueues(Of(low, b, c, d), FlattenSeq(ss), Of(lit_min .. v, b, c1, d))
      BY <1>4, <1>5, <1>6 DEF c1
    <2>2. Enqueues(Of(low, b, c, d), FlattenSeq(ss) \o <<entry(NE(min), {neg(GE(v))})>>, Of(lit_min .. v, b, c1 \cup {min}, d))
      BY <2>1, <1>7, EnqueueThen
    <2> QED
      BY <2>2, <1>8, <1>9 DEF low

(* What [x <= v] implies. *)
LEMMA ByLE ==
  ASSUME BoundsRight, NEW a \in SUBSET Int, NEW b \in SUBSET Int, NEW c \in SUBSET Int, NEW d \in SUBSET Int,
         NEW v \in Value, v \in b, NEW i \in Value, i > v
  PROVE  /\ {neg(LE(v))} \in Clause
         /\ Explains({neg(LE(v))}, LE(i), Of(a, b, c, d))
         /\ Explains({neg(LE(v))}, NE(i), Of(a, b, c, d))
  <1>1. v \in Int /\ i \in Int /\ v + 1 \in Int /\ v + 1 \in lit_min .. lit_max + 1 /\ (v + 1) - 1 = v
    BY DEF Value, BoundsRight
  <1>2. neg(LE(v)) = GE(v + 1) /\ neg(neg(LE(v))) = LE(v)
    BY <1>1, LitNeg
  <1>3. GE(v + 1) \in Lit /\ LE(v) \in Of(a, b, c, d)
    BY <1>1, LitType, OfMember
  <1>4. ASSUME NEW e \in Value
        PROVE  /\ \E q \in {neg(LE(v))} \cup {LE(i)} : Says(q, e)
               /\ \E q \in {neg(LE(v))} \cup {NE(i)} : Says(q, e)
    <2>1. e \in Int
      BY DEF Value, BoundsRight
    <2>2. /\ Says(GE(v + 1), e) <=> e >= v + 1
          /\ Says(LE(i), e) <=> e <= i
          /\ Says(NE(i), e) <=> e # i
      BY <1>1, <2>1, LitSays
    <2>3. (e >= v + 1 \/ e <= i) /\ (e >= v + 1 \/ e # i)
      BY <1>1, <2>1
    <2> QED
      BY <1>2, <2>2, <2>3
  <1> QED
    BY <1>2, <1>3, <1>4 DEF Clause, Explains

LEMMA PassedLE ==
  ASSUME BoundsRight, NEW a \in SUBSET Int, NEW b \in SUBSET Int, NEW c \in SUBSET Int, NEW d \in SUBSET Int,
         NEW v \in Value, v \in b, NEW i \in Value, i > v,
         i \notin b, i + 1 \notin a, i \notin d, i \in c <=> i \notin vals
  PROVE  Enqueues(Of(a, b, c, d), passed(LE(i), i, LE(v)), Of(a, b \cup {i}, c \cup {i}, d))
  <1>1. i \in Int /\ i \in lit_min - 1 .. lit_max
    BY DEF Value, BoundsRight
  <1>2. /\ {neg(LE(v))} \in Clause
        /\ Explains({neg(LE(v))}, LE(i), Of(a, b, c, d))
        /\ Explains({neg(LE(v))}, NE(i), Of(a, b \cup {i}, c, d))
    BY <1>1, ByLE
  <1>3. Enqueues(Of(a, b, c, d), <<entry(LE(i), {neg(LE(v))})>>, Of(a, b \cup {i}, c, d))
    BY <1>1, <1>2, AddLE
  <1>4. CASE i \in vals
    <2>1. Enqueues(Of(a, b \cup {i}, c, d), <<entry(NE(i), {neg(LE(v))})>>, Of(a, b \cup {i}, c \cup {i}, d))
      BY <1>1, <1>2, <1>4, AddNE
    <2> QED
      BY <1>3, <1>4, <2>1, EnqueueThen DEF passed
  <1>5. CASE i \notin vals
    <2>1. c \cup {i} = c
      BY <1>5
    <2>2. passed(LE(i), i, LE(v)) = <<entry(LE(i), {neg(LE(v))})>>
      BY <1>5 DEF passed
    <2> QED
      BY <1>3, <2>1, <2>2
  <1> QED
    BY <1>4, <1>5

LEMMA ChannelMax ==
  ASSUME BoundsRight, vals \subseteq Value, max \in vals, NEW v \in Value, v < max,
         NEW a \in SUBSET Int, NEW c \in SUBSET Int, NEW d \in SUBSET {v},
         \A i \in a : i <= v, \A i \in v + 1 .. max : i \in c <=> i \notin vals
  PROVE  Enqueues(Of(a, (max .. lit_max) \cup {v}, c, d), channelMax(v), Of(a, v .. lit_max, c \cup (v + 1 .. max), d))
  <1> DEFINE n == max - v - 1
             high == (max .. lit_max) \cup {v}
             piece(k) == passed(LE(v + k), v + k, LE(v))
             ss == [k \in 1 .. n |-> piece(k)]
             A == [k \in 0 .. n |-> Of(a, high \cup (v + 1 .. v + k), c \cup (v + 1 .. v + k), d)]
  <1>1. /\ lit_min \in Int /\ lit_max \in Int /\ max \in Int /\ v \in Int /\ max \in Value
        /\ lit_min <= v /\ max <= lit_max /\ n \in Nat /\ v + 1 + n = max
    BY DEF BoundsRight, Value
  <1>2. ASSUME NEW k \in 1 .. n PROVE Enqueues(A[k - 1], ss[k], A[k])
    <2> DEFINE i == v + k
               b0 == high \cup (v + 1 .. i - 1)
               c0 == c \cup (v + 1 .. i - 1)
    <2>1. /\ i \in Int /\ i \in Value /\ i > v /\ i < max /\ i \in v + 1 .. max
          /\ k - 1 \in 0 .. n /\ k \in 0 .. n /\ v + (k - 1) = i - 1
      BY <1>1 DEF Value
    <2> HIDE DEF i
    <2>2. i \notin b0 /\ v \in b0 /\ (i + 1 \notin a) /\ i \notin d /\ (i \in c0 <=> i \notin vals)
      BY <2>1, <1>1
    <2>3. b0 \cup {i} = high \cup (v + 1 .. i) /\ c0 \cup {i} = c \cup (v + 1 .. i)
      <3>1. (v + 1 .. i - 1) \cup {i} = v + 1 .. i
        BY <2>1, <1>1
      <3> QED
        BY <3>1
    <2>4. b0 \in SUBSET Int /\ c0 \in SUBSET Int /\ d \in SUBSET Int
      <3>1. \A e \in d : e \in Int
        BY <1>1
      <3>2. high \in SUBSET Int /\ v + 1 .. i - 1 \in SUBSET Int
        BY <1>1, <2>1
      <3> HIDE DEF high
      <3> QED
        BY <3>1, <3>2
    <2>5. Enqueues(Of(a, b0, c0, d), passed(LE(i), i, LE(v)), Of(a, b0 \cup {i}, c0 \cup {i}, d))
      <3> HIDE DEF b0, c0
      <3> QED
        BY <2>1, <2>2, <2>4, PassedLE
    <2>6. A[k - 1] = Of(a, b0, c0, d)
      BY <2>1
    <2>7. A[k] = Of(a, high \cup (v + 1 .. i), c \cup (v + 1 .. i), d)
      BY <2>1 DEF i
    <2>8. ss[k] = passed(LE(i), i, LE(v))
      BY DEF i
    <2> QED
      BY <2>3, <2>5, <2>6, <2>7, <2>8
  <1>3. ss \in Seq(Seq(Entry)) /\ Len(ss) = n
    <2>1. \A k \in 1 .. n : ss[k] \in Seq(Entry)
      BY <1>2 DEF Enqueues
    <2> HIDE DEF n
    <2>2. DOMAIN ss = 1 .. n
      OBVIOUS
    <2>3. ss \in [1 .. n -> Seq(Entry)]
      <3> HIDE DEF piece
      <3> QED
        BY <2>1
    <2>4. n \in Nat
      BY <1>1
    <2> HIDE DEF ss
    <2> QED
      BY <2>2, <2>3, <2>4
  <1>4. Enqueues(A[0], FlattenSeq(ss), A[n])
    <2> HIDE DEF ss, A, n
    <2> QED
      BY <1>2, <1>3, EnqueueAll
  <1>5. A[0] = Of(a, high, c, d)
    <2>1. v + 1 .. v + 0 = {} /\ 0 \in 0 .. n
      BY <1>1
    <2> QED
      BY <2>1
  <1>6. A[n] = Of(a, v .. lit_max, c \cup (v + 1 .. max - 1), d)
    <2>1. n \in 0 .. n /\ v + n = max - 1
      BY <1>1
    <2>2. high \cup (v + 1 .. max - 1) = v .. lit_max
      BY <1>1
    <2> QED
      BY <2>1, <2>2
  <1> DEFINE c1 == c \cup (v + 1 .. max - 1)
  <1>7. Enqueues(Of(a, v .. lit_max, c1, d), <<entry(NE(max), {neg(LE(v))})>>, Of(a, v .. lit_max, c1 \cup {max}, d))
    <2>1. max \notin c1 /\ max \notin d /\ c1 \in SUBSET Int /\ d \in SUBSET Int /\ v .. lit_max \in SUBSET Int /\ v \in v .. lit_max
      BY <1>1
    <2> HIDE DEF c1
    <2>2. {neg(LE(v))} \in Clause /\ Explains({neg(LE(v))}, NE(max), Of(a, v .. lit_max, c1, d))
      BY <2>1, <1>1, ByLE
    <2> QED
      BY <2>1, <2>2, <1>1, AddNE
  <1>8. c1 \cup {max} = c \cup (v + 1 .. max)
    BY <1>1
  <1>9. channelMax(v) = FlattenSeq(ss) \o <<entry(NE(max), {neg(LE(v))})>>
    <2>1. FlattenSeq(ss) \in Seq(Entry)
      BY <1>4 DEF Enqueues
    <2>2. channelMax(v) = Append(FlattenSeq(ss), entry(NE(max), {neg(LE(v))}))
      BY DEF channelMax
    <2> QED
      BY <2>1, <2>2, AppendLast
  <1> QED
    <2> HIDE DEF ss, A, n, high, c1
    <2>1. Enqueues(Of(a, high, c, d), FlattenSeq(ss), Of(a, v .. lit_max, c1, d))
      BY <1>4, <1>5, <1>6 DEF c1
    <2>2. Enqueues(Of(a, high, c, d), FlattenSeq(ss) \o <<entry(NE(max), {neg(LE(v))})>>, Of(a, v .. lit_max, c1 \cup {max}, d))
      BY <2>1, <1>7, EnqueueThen
    <2> QED
      BY <2>2, <1>8, <1>9 DEF high

LEMMA NextIn ==
  ASSUME NEW S \in SUBSET Int, NEW v \in Int, \E d \in S : d >= v
  PROVE  /\ nextIn(S, v) \in S /\ nextIn(S, v) >= v /\ nextIn(S, v) \in Int
         /\ \A e \in S : e >= v => nextIn(S, v) <= e
  <1> DEFINE T == {k \in Nat : v + k \in S}
  <1>1. T # {}
    <2>1. PICK d \in S : d >= v
      OBVIOUS
    <2>2. d - v \in Nat /\ v + (d - v) = d
      BY <2>1
    <2> QED
      BY <2>1, <2>2
  <1>2. PICK k \in T : \A j \in T : k <= j
    <2> HIDE DEF T
    <2>1. T \in SUBSET Nat
      BY DEF T
    <2> QED
      BY <1>1, <2>1, Least
  <1>3. \A e \in S : e >= v => v + k <= e
    <2>1. ASSUME NEW e \in S, e >= v PROVE v + k <= e
      <3>1. e - v \in Nat /\ v + (e - v) = e
        BY <2>1
      <3>2. e - v \in T
        BY <3>1
      <3>3. k <= e - v /\ k \in Nat
        BY <3>2, <1>2
      <3> QED
        BY <3>1, <3>3
    <2> QED
      BY <2>1
  <1>4. v + k \in S /\ v + k >= v
    BY <1>2
  <1>5. \E d \in S : d >= v /\ \A e \in S : e >= v => d <= e
    BY <1>3, <1>4
  <1>6. nextIn(S, v) \in S /\ nextIn(S, v) >= v /\ \A e \in S : e >= v => nextIn(S, v) <= e
    BY <1>5 DEF nextIn
  <1> QED
    BY <1>6

LEMMA UpdateMin ==
  ASSUME BoundsRight, NEW S \in SUBSET Value, NEW lo \in Value, NEW hi \in Int, hi = nextIn(S, lo), hi >= lo, hi <= lit_max,
         NEW b \in SUBSET Int, NEW c \in SUBSET Int, NEW d \in SUBSET Int,
         \A i \in b : i >= hi, \A i \in lo .. hi - 1 : i \in c
  PROVE  Enqueues(Of(lit_min .. lo, b, c, d), updateMin(S, lo), Of(lit_min .. hi, b, c, d))
  <1> DEFINE n == hi - lo
             e(k) == entry(GE(lo + k), {LE(lo + k - 2), EQ(lo + k - 1)})
             s == [k \in 1 .. n |-> e(k)]
             A == Of(lit_min .. lo, b, c, d)
  <1>1. /\ lit_min \in Int /\ lit_max \in Int /\ lo \in Int /\ lit_min <= lo /\ n \in Nat /\ lo + n = hi
    BY DEF BoundsRight, Value
  <1>2. updateMin(S, lo) = s
    BY DEF updateMin
  <1>3. ASSUME NEW k \in 1 .. n
        PROVE  /\ e(k) \in Entry /\ e(k).lit = GE(lo + k)
               /\ May(e(k), Of(lit_min .. lo + k - 1, b, c, d))
    <2> DEFINE v == lo + k
               r == {LE(v - 2), EQ(v - 1)}
               a == lit_min .. lo + k - 1
    <2>1. /\ v \in Int /\ v - 1 \in Int /\ v - 2 \in Int /\ lo + k - 2 = v - 2 /\ lo + k - 1 = v - 1 /\ (v - 2) + 1 = v - 1
          /\ v \in lit_min .. lit_max + 1 /\ v - 2 \in lit_min - 1 .. lit_max /\ v - 1 \in Value
          /\ v - 1 \in lo .. hi - 1 /\ v - 1 \in lit_min .. v - 1 /\ v \notin lit_min .. v - 1 /\ v - 1 < hi
      BY <1>1 DEF Value
    <2> HIDE DEF v
    <2>2. a = lit_min .. v - 1 /\ a \in SUBSET Int
      BY <2>1, <1>1
    <2> HIDE DEF a
    <2>3. r \in Clause
      BY <2>1, LitType DEF Clause
    <2>4. Explains(r, GE(v), Of(a, b, c, d))
      <3>1. neg(LE(v - 2)) = GE(v - 1) /\ neg(EQ(v - 1)) = NE(v - 1)
        BY <2>1, LitNeg
      <3>0. v - 1 \in Int /\ v - 1 \in a /\ v - 1 \in c
        BY <2>1, <2>2
      <3>2. GE(v - 1) \in Of(a, b, c, d) /\ NE(v - 1) \in Of(a, b, c, d)
        BY <2>2, <3>0, OfMember
      <3>3. ASSUME NEW i \in Value PROVE \E q \in r \cup {GE(v)} : Says(q, i)
        <4>1. i \in Int
          BY DEF Value, BoundsRight
        <4>2. (Says(LE(v - 2), i) <=> i <= v - 2) /\ (Says(EQ(v - 1), i) <=> i = v - 1) /\ (Says(GE(v), i) <=> i >= v)
          BY <4>1, <2>1, LitSays
        <4>3. i <= v - 2 \/ i = v - 1 \/ i >= v
          BY <4>1, <2>1
        <4> QED
          BY <4>2, <4>3
      <3> QED
        BY <3>1, <3>2, <3>3 DEF Explains
    <2>5. v \notin a /\ v - 1 \notin b
      BY <2>1, <2>2
    <2>6. entry(GE(v), r) \in Entry /\ entry(GE(v), r).lit = GE(v) /\ May(entry(GE(v), r), Of(a, b, c, d))
      <3>1. v \in lit_min .. lit_max + 1 /\ a \in SUBSET Int
        BY <2>1, <2>2
      <3> HIDE DEF r
      <3> QED
        BY <3>1, <2>3, <2>4, <2>5, MayGE
    <2>7. e(k) = entry(GE(v), r)
      BY <2>1 DEF v
    <2> QED
      BY <2>6, <2>7 DEF a, v
  <1>4. s \in Seq(Entry) /\ DOMAIN s = 1 .. n
    <2>1. \A k \in 1 .. n : e(k) \in Entry
      BY <1>3
    <2> HIDE DEF e, n
    <2>2. s \in [1 .. n -> Entry]
      BY <2>1
    <2> HIDE DEF s
    <2> QED
      BY <1>1, <2>2
  <1>5. ASSUME NEW k \in 1 .. n + 1 PROVE A \cup {s[j].lit : j \in 1 .. k - 1} = Of(lit_min .. lo + k - 1, b, c, d)
    <2>1. \A j \in 1 .. k - 1 : j \in 1 .. n
      BY <1>1
    <2>2. {s[j].lit : j \in 1 .. k - 1} = {GE(lo + j) : j \in 1 .. k - 1}
      <3>1. \A j \in 1 .. k - 1 : s[j].lit = GE(lo + j)
        BY <2>1, <1>3
      <3> HIDE DEF s
      <3> QED
        BY <3>1
    <2>3. {GE(lo + j) : j \in 1 .. k - 1} = {GE(v) : v \in lo + 1 .. lo + k - 1}
      <3>1. \A v \in lo + 1 .. lo + k - 1 : v - lo \in 1 .. k - 1 /\ lo + (v - lo) = v
        BY <1>1
      <3>2. \A j \in 1 .. k - 1 : lo + j \in lo + 1 .. lo + k - 1
        BY <1>1
      <3> QED
        BY <3>1, <3>2
    <2>4. (lit_min .. lo) \cup (lo + 1 .. lo + k - 1) = lit_min .. lo + k - 1
      BY <1>1
    <2> HIDE DEF s
    <2>5. A \cup {GE(v) : v \in lo + 1 .. lo + k - 1} = Of((lit_min .. lo) \cup (lo + 1 .. lo + k - 1), b, c, d)
      BY DEF Of
    <2> QED
      BY <2>2, <2>3, <2>4, <2>5
  <1>6. ASSUME NEW k \in 1 .. n PROVE May(s[k], Before(A, s, k))
    <2>1. k \in 1 .. n + 1
      BY <1>1
    <2>2. Before(A, s, k) = Of(lit_min .. lo + k - 1, b, c, d)
      BY <2>1, <1>5 DEF Before
    <2>3. s[k] = e(k)
      OBVIOUS
    <2> HIDE DEF s, A, e
    <2> QED
      BY <2>2, <2>3, <1>3
  <1>7. A \cup Lits(s) = Of(lit_min .. hi, b, c, d)
    <2>1. n + 1 \in 1 .. n + 1 /\ (n + 1) - 1 = n /\ lo + (n + 1) - 1 = hi
      BY <1>1
    <2> HIDE DEF s, A, n
    <2>2. A \cup {s[j].lit : j \in 1 .. n} = Of(lit_min .. hi, b, c, d)
      BY <2>1, <1>5
    <2> QED
      BY <2>2, <1>4 DEF Lits
  <1> HIDE DEF s, A, n
  <1>8. Enqueues(A, s, Of(lit_min .. hi, b, c, d))
    BY <1>4, <1>6, <1>7 DEF Enqueues
  <1> QED
    BY <1>8, <1>2 DEF A

LEMMA PrevIn ==
  ASSUME NEW S \in SUBSET Int, NEW v \in Int, \E d \in S : d <= v
  PROVE  /\ prevIn(S, v) \in S /\ prevIn(S, v) <= v /\ prevIn(S, v) \in Int
         /\ \A e \in S : e <= v => prevIn(S, v) >= e
  <1> DEFINE T == {k \in Nat : v - k \in S}
  <1>1. T # {}
    <2>1. PICK d \in S : d <= v
      OBVIOUS
    <2>2. v - d \in Nat /\ v - (v - d) = d
      BY <2>1
    <2> QED
      BY <2>1, <2>2
  <1>2. PICK k \in T : \A j \in T : k <= j
    <2> HIDE DEF T
    <2>1. T \in SUBSET Nat
      BY DEF T
    <2> QED
      BY <1>1, <2>1, Least
  <1>3. \A e \in S : e <= v => v - k >= e
    <2>1. ASSUME NEW e \in S, e <= v PROVE v - k >= e
      <3>1. v - e \in Nat /\ v - (v - e) = e
        BY <2>1
      <3>2. v - e \in T
        BY <3>1
      <3>3. k <= v - e /\ k \in Nat
        BY <3>2, <1>2
      <3> QED
        BY <3>1, <3>3
    <2> QED
      BY <2>1
  <1>4. v - k \in S /\ v - k <= v
    BY <1>2
  <1>5. \E d \in S : d <= v /\ \A e \in S : e <= v => d >= e
    BY <1>3, <1>4
  <1>6. prevIn(S, v) \in S /\ prevIn(S, v) <= v /\ \A e \in S : e <= v => prevIn(S, v) >= e
    BY <1>5 DEF prevIn
  <1> QED
    BY <1>6

LEMMA UpdateMax ==
  ASSUME BoundsRight, NEW S \in SUBSET Value, NEW hi \in Value, NEW lo \in Int, lo = prevIn(S, hi), lo <= hi, lo >= lit_min,
         NEW a \in SUBSET Int, NEW c \in SUBSET Int, NEW d \in SUBSET Int,
         \A i \in a : i <= lo, \A i \in lo + 1 .. hi : i \in c
  PROVE  Enqueues(Of(a, hi .. lit_max, c, d), updateMax(S, hi), Of(a, lo .. lit_max, c, d))
  <1> DEFINE n == hi - lo
             e(k) == entry(LE(hi - k), {GE(hi - k + 2), EQ(hi - k + 1)})
             s == [k \in 1 .. n |-> e(k)]
             A == Of(a, hi .. lit_max, c, d)
  <1>1. /\ lit_min \in Int /\ lit_max \in Int /\ hi \in Int /\ hi <= lit_max /\ n \in Nat /\ hi - n = lo
    BY DEF BoundsRight, Value
  <1>2. updateMax(S, hi) = s
    BY DEF updateMax
  <1>3. ASSUME NEW k \in 1 .. n
        PROVE  /\ e(k) \in Entry /\ e(k).lit = LE(hi - k)
               /\ May(e(k), Of(a, hi - k + 1 .. lit_max, c, d))
    <2> DEFINE v == hi - k
               r == {GE(v + 2), EQ(v + 1)}
               b == hi - k + 1 .. lit_max
    <2>1. /\ v \in Int /\ v + 1 \in Int /\ v + 2 \in Int /\ hi - k + 2 = v + 2 /\ hi - k + 1 = v + 1 /\ (v + 2) - 1 = v + 1
          /\ v \in lit_min - 1 .. lit_max /\ v + 2 \in lit_min .. lit_max + 1 /\ v + 1 \in Value
          /\ v + 1 \in lo + 1 .. hi /\ v + 1 \in v + 1 .. lit_max /\ v \notin v + 1 .. lit_max /\ v + 1 > lo
      BY <1>1 DEF Value
    <2> HIDE DEF v
    <2>2. b = v + 1 .. lit_max /\ b \in SUBSET Int
      <3>1. b = v + 1 .. lit_max
        BY <2>1
      <3> HIDE DEF b
      <3> QED
        BY <3>1, <2>1, <1>1
    <2> HIDE DEF b
    <2>3. r \in Clause
      BY <2>1, LitType DEF Clause
    <2>4. Explains(r, LE(v), Of(a, b, c, d))
      <3>1. neg(GE(v + 2)) = LE(v + 1) /\ neg(EQ(v + 1)) = NE(v + 1)
        BY <2>1, LitNeg
      <3>0. v + 1 \in Int /\ v + 1 \in b /\ v + 1 \in c
        BY <2>1, <2>2
      <3>2. LE(v + 1) \in Of(a, b, c, d) /\ NE(v + 1) \in Of(a, b, c, d)
        <4> DEFINE w == v + 1
        <4> HIDE DEF w
        <4>1. w \in Int /\ w \in b /\ w \in c
          BY <3>0 DEF w
        <4>2. LE(w) \in Of(a, b, c, d)
          BY <4>1 DEF Of
        <4>3. NE(w) \in Of(a, b, c, d)
          BY <4>1 DEF Of
        <4> QED
          BY <4>2, <4>3 DEF w
      <3>3. ASSUME NEW i \in Value PROVE \E q \in r \cup {LE(v)} : Says(q, i)
        <4>1. i \in Int
          BY DEF Value, BoundsRight
        <4>2. (Says(GE(v + 2), i) <=> i >= v + 2) /\ (Says(EQ(v + 1), i) <=> i = v + 1) /\ (Says(LE(v), i) <=> i <= v)
          BY <4>1, <2>1, LitSays
        <4>3. i >= v + 2 \/ i = v + 1 \/ i <= v
          BY <4>1, <2>1
        <4> QED
          BY <4>2, <4>3
      <3> QED
        BY <3>1, <3>2, <3>3 DEF Explains
    <2>5. v \notin b /\ v + 1 \notin a
      BY <2>1, <2>2
    <2>6. entry(LE(v), r) \in Entry /\ entry(LE(v), r).lit = LE(v) /\ May(entry(LE(v), r), Of(a, b, c, d))
      <3>1. v \in lit_min - 1 .. lit_max /\ b \in SUBSET Int
        BY <2>1, <2>2
      <3> HIDE DEF r
      <3> QED
        BY <3>1, <2>3, <2>4, <2>5, MayLE
    <2>7. e(k) = entry(LE(v), r)
      BY <2>1 DEF v
    <2> QED
      BY <2>6, <2>7 DEF b, v
  <1>4. s \in Seq(Entry) /\ DOMAIN s = 1 .. n
    <2>1. \A k \in 1 .. n : e(k) \in Entry
      BY <1>3
    <2> HIDE DEF e, n
    <2>2. s \in [1 .. n -> Entry]
      BY <2>1
    <2> HIDE DEF s
    <2> QED
      BY <1>1, <2>2
  <1>5. ASSUME NEW k \in 1 .. n + 1 PROVE A \cup {s[j].lit : j \in 1 .. k - 1} = Of(a, hi - k + 1 .. lit_max, c, d)
    <2>1. \A j \in 1 .. k - 1 : j \in 1 .. n
      BY <1>1
    <2>2. {s[j].lit : j \in 1 .. k - 1} = {LE(hi - j) : j \in 1 .. k - 1}
      <3>1. \A j \in 1 .. k - 1 : s[j].lit = LE(hi - j)
        BY <2>1, <1>3
      <3> HIDE DEF s
      <3> QED
        BY <3>1
    <2>3. {LE(hi - j) : j \in 1 .. k - 1} = {LE(v) : v \in hi - k + 1 .. hi - 1}
      <3>1. \A v \in hi - k + 1 .. hi - 1 : hi - v \in 1 .. k - 1 /\ hi - (hi - v) = v
        BY <1>1
      <3>2. \A j \in 1 .. k - 1 : hi - j \in hi - k + 1 .. hi - 1
        BY <1>1
      <3> QED
        BY <3>1, <3>2
    <2>4. (hi - k + 1 .. hi - 1) \cup (hi .. lit_max) = hi - k + 1 .. lit_max
      BY <1>1
    <2> HIDE DEF s
    <2>5. A \cup {LE(v) : v \in hi - k + 1 .. hi - 1} = Of(a, (hi - k + 1 .. hi - 1) \cup (hi .. lit_max), c, d)
      BY DEF Of
    <2> QED
      BY <2>2, <2>3, <2>4, <2>5
  <1>6. ASSUME NEW k \in 1 .. n PROVE May(s[k], Before(A, s, k))
    <2>1. k \in 1 .. n + 1
      BY <1>1
    <2>2. Before(A, s, k) = Of(a, hi - k + 1 .. lit_max, c, d)
      BY <2>1, <1>5 DEF Before
    <2>3. s[k] = e(k)
      OBVIOUS
    <2> HIDE DEF s, A, e
    <2> QED
      BY <2>2, <2>3, <1>3
  <1>7. A \cup Lits(s) = Of(a, lo .. lit_max, c, d)
    <2>1. n + 1 \in 1 .. n + 1 /\ (n + 1) - 1 = n /\ hi - (n + 1) + 1 = lo
      BY <1>1
    <2> HIDE DEF s, A, n
    <2>2. A \cup {s[j].lit : j \in 1 .. n} = Of(a, lo .. lit_max, c, d)
      BY <2>1, <1>5
    <2> QED
      BY <2>2, <1>4 DEF Lits
  <1> HIDE DEF s, A, n
  <1>8. Enqueues(A, s, Of(a, lo .. lit_max, c, d))
    BY <1>4, <1>6, <1>7 DEF Enqueues
  <1> QED
    BY <1>8, <1>2 DEF A


(* Both bounds on one value. *)
LEMMA UpdateFixed ==
  ASSUME BoundsRight, NEW lo \in Value, NEW hi \in Value, lo <= hi,
         NEW a \in SUBSET Int, NEW b \in SUBSET Int, NEW c \in SUBSET Int, lo \in a, hi \in b, lo \notin c
  PROVE  Enqueues(Of(a, b, c, {}), updateFixed(lo, hi), Of(a, b, c, {lo} \cap {hi}))
  <1>1. CASE lo = hi
    <2> DEFINE r == {LE(lo - 1), GE(lo + 1)}
    <2>1. /\ lo \in Int /\ lo - 1 \in Int /\ lo + 1 \in Int /\ (lo - 1) + 1 = lo /\ (lo + 1) - 1 = lo
          /\ lo - 1 \in lit_min - 1 .. lit_max /\ lo + 1 \in lit_min .. lit_max + 1
      BY DEF Value, BoundsRight
    <2>2. r \in Clause
      BY <2>1, LitType DEF Clause
    <2>3. neg(LE(lo - 1)) = GE(lo) /\ neg(GE(lo + 1)) = LE(lo)
      BY <2>1, LitNeg
    <2>4. GE(lo) \in Of(a, b, c, {}) /\ LE(lo) \in Of(a, b, c, {})
      BY <2>1, <1>1, OfMember
    <2>5. ASSUME NEW i \in Value PROVE \E q \in r \cup {EQ(lo)} : Says(q, i)
      <3>1. i \in Int
        BY DEF Value, BoundsRight
      <3>2. (Says(LE(lo - 1), i) <=> i <= lo - 1) /\ (Says(GE(lo + 1), i) <=> i >= lo + 1) /\ (Says(EQ(lo), i) <=> i = lo)
        BY <3>1, <2>1, LitSays
      <3>3. i <= lo - 1 \/ i >= lo + 1 \/ i = lo
        BY <3>1, <2>1
      <3> QED
        BY <3>2, <3>3
    <2>6. Explains(r, EQ(lo), Of(a, b, c, {}))
      BY <2>3, <2>4, <2>5 DEF Explains
    <2>7. updateFixed(lo, hi) = <<entry(EQ(lo), r)>> /\ {lo} \cap {hi} = {} \cup {lo}
      BY <1>1 DEF updateFixed
    <2> HIDE DEF r
    <2> QED
      BY <2>2, <2>6, <2>7, AddEQ
  <1>2. CASE lo # hi
    <2>1. updateFixed(lo, hi) = <<>> /\ {lo} \cap {hi} = {}
      BY <1>2 DEF updateFixed
    <2> QED
      BY <2>1, EnqueueNone
  <1> QED
    BY <1>1, <1>2

-----------------------------------------------------------------------------
(* The literals that say the same as the values of S from lo to hi.          *)

Truths(lo, hi, S) == Of(lit_min .. lo, hi .. lit_max, Value \ (S \cap lo .. hi), {lo} \cap {hi})
DomRight(lo, hi, S) == S \in SUBSET Value /\ lo \in S /\ hi \in S /\ lo <= hi

LEMMA TruthsShape ==
  ASSUME BoundsRight, NEW lo, NEW hi, NEW S, DomRight(lo, hi, S)
  PROVE  /\ lo \in Int /\ hi \in Int /\ lo \in Value /\ hi \in Value
         /\ lit_min .. lo \in SUBSET Int /\ hi .. lit_max \in SUBSET Int
         /\ Value \ (S \cap lo .. hi) \in SUBSET Int /\ {lo} \cap {hi} \in SUBSET Int
         /\ S \cap lo .. hi \in SUBSET Int /\ lo \in S \cap lo .. hi /\ hi \in S \cap lo .. hi
  <1>1. lo \in Int /\ hi \in Int /\ lo \in Value /\ hi \in Value /\ lo \in lo .. hi /\ hi \in lo .. hi
    BY DEF DomRight, BoundsRight, Value
  <1>2. \A i \in Value : i \in Int
    BY DEF BoundsRight, Value
  <1> QED
    BY <1>1, <1>2 DEF DomRight, BoundsRight

LEMMA TruthsSay ==
  ASSUME BoundsRight, NEW lo, NEW hi, NEW S, DomRight(lo, hi, S), NEW l \in Lit
  PROVE  l \in Truths(lo, hi, S) <=> \A d \in S \cap lo .. hi : Says(l, d)
  <1> DEFINE D == S \cap lo .. hi
  <1>1. /\ lo \in Int /\ hi \in Int /\ D \in SUBSET Int /\ lo \in D /\ hi \in D
        /\ \A d \in D : lo <= d /\ d <= hi
    BY TruthsShape
  <1>2. ASSUME NEW v \in Int
        PROVE  /\ GE(v) \in Truths(lo, hi, S) <=> v \in lit_min .. lo
               /\ LE(v) \in Truths(lo, hi, S) <=> v \in hi .. lit_max
               /\ NE(v) \in Truths(lo, hi, S) <=> v \in Value \ D
               /\ EQ(v) \in Truths(lo, hi, S) <=> v = lo /\ v = hi
    <2> DEFINE a == lit_min .. lo
               b == hi .. lit_max
               c == Value \ D
               e == {lo} \cap {hi}
    <2>1. a \in SUBSET Int /\ b \in SUBSET Int /\ c \in SUBSET Int /\ e \in SUBSET Int
      BY TruthsShape
    <2>2. Truths(lo, hi, S) = Of(a, b, c, e)
      BY DEF Truths
    <2>3. v \in e <=> v = lo /\ v = hi
      OBVIOUS
    <2> HIDE DEF a, b, c, e
    <2>4. /\ GE(v) \in Of(a, b, c, e) <=> v \in a
          /\ LE(v) \in Of(a, b, c, e) <=> v \in b
          /\ NE(v) \in Of(a, b, c, e) <=> v \in c
          /\ EQ(v) \in Of(a, b, c, e) <=> v \in e
      BY <2>1, OfMember
    <2> QED
      BY <2>2, <2>3, <2>4 DEF a, b, c
  <1> HIDE DEF D
  <1>3. ASSUME NEW v \in lit_min .. lit_max + 1, l = GE(v)
        PROVE  l \in Truths(lo, hi, S) <=> \A d \in D : Says(l, d)
    <2>1. v \in Int /\ lit_min <= v
      BY DEF BoundsRight
    <2>2. \A d \in D : Says(l, d) <=> d >= v
      BY <1>1, <2>1, <1>3, LitSays
    <2>3. v \in lit_min .. lo <=> \A d \in D : d >= v
      BY <1>1, <2>1 DEF BoundsRight
    <2> QED
      BY <1>2, <1>3, <2>1, <2>2, <2>3
  <1>4. ASSUME NEW v \in lit_min - 1 .. lit_max, l = LE(v)
        PROVE  l \in Truths(lo, hi, S) <=> \A d \in D : Says(l, d)
    <2>1. v \in Int /\ v <= lit_max
      BY DEF BoundsRight
    <2>2. \A d \in D : Says(l, d) <=> d <= v
      BY <1>1, <2>1, <1>4, LitSays
    <2>3. v \in hi .. lit_max <=> \A d \in D : d <= v
      BY <1>1, <2>1 DEF BoundsRight
    <2> QED
      BY <1>2, <1>4, <2>1, <2>2, <2>3
  <1>5. ASSUME NEW v \in Value, l = NE(v)
        PROVE  l \in Truths(lo, hi, S) <=> \A d \in D : Says(l, d)
    <2>1. v \in Int
      BY DEF BoundsRight, Value
    <2>2. \A d \in D : Says(l, d) <=> d # v
      BY <1>1, <2>1, <1>5, LitSays
    <2> QED
      BY <1>2, <1>5, <2>1, <2>2
  <1>6. ASSUME NEW v \in Value, l = EQ(v)
        PROVE  l \in Truths(lo, hi, S) <=> \A d \in D : Says(l, d)
    <2>1. v \in Int
      BY DEF BoundsRight, Value
    <2>2. \A d \in D : Says(l, d) <=> d = v
      BY <1>1, <2>1, <1>6, LitSays
    <2>3. v = lo /\ v = hi <=> \A d \in D : d = v
      BY <1>1, <2>1
    <2> QED
      BY <1>2, <1>6, <2>1, <2>2, <2>3
  <1>7. l \in Truths(lo, hi, S) <=> \A d \in D : Says(l, d)
    BY <1>3, <1>4, <1>5, <1>6, LitType
  <1> QED
    BY <1>7 DEF D

-----------------------------------------------------------------------------
(* The domain operations: what they enqueue leads from the literals of the   *)
(* old domain to those of the new one.                                       *)

Enqueued(lo, hi, S) ==
  /\ DomRight(lo, hi, S) /\ min' = lo /\ max' = hi /\ vals' = S
  /\ \E s : Enqueues(Truths(min, max, vals), s, Truths(lo, hi, S)) /\ trail' = trail \o s

LEMMA RaiseMin ==
  ASSUME BoundsRight, DomRight(min, max, vals), trail \in Seq(Entry), NEW v \in Int, min < v, v <= max, raiseMin(v)
  PROVE  /\ Enqueued(nextIn(vals, v), max, vals)
         /\ nextIn(vals, v) >= v /\ \A d \in vals : d >= v => nextIn(vals, v) <= d
  <1> DEFINE lo == nextIn(vals, v)
             b == max .. lit_max
             c == Value \ (vals \cap min .. max)
             c1 == c \cup (min .. v - 1)
             s1 == <<entry(GE(v), Given)>>
             s2 == channelMin(v)
             s3 == updateMin(vals, v)
             s4 == updateFixed(lo, max)
  <1>1. /\ min \in Int /\ max \in Int /\ min \in Value /\ max \in Value /\ vals \in SUBSET Int /\ vals \in SUBSET Value
        /\ min \in vals /\ max \in vals /\ min <= max
        /\ lit_min <= min /\ max <= lit_max /\ lit_min \in Int /\ lit_max \in Int /\ v \in Value
    BY DEF DomRight, BoundsRight, Value
  <1>2. lo \in vals /\ lo >= v /\ lo \in Int /\ lo <= max /\ lo \in Value /\ \A e \in vals : e >= v => lo <= e
    BY <1>1, NextIn
  <1> HIDE DEF lo
  <1>3. b \in SUBSET Int /\ c \in SUBSET Int /\ c1 \in SUBSET Int
    BY <1>1
  <1>4. Enqueues(Of(lit_min .. min, b, c, {}), s1, Of((lit_min .. min) \cup {v}, b, c, {}))
    <2>1. v \in lit_min .. lit_max + 1 /\ v \notin lit_min .. min /\ v - 1 \notin b /\ lit_min .. min \in SUBSET Int /\ {} \in SUBSET Int
      BY <1>1
    <2>2. Given \in Clause /\ Explains(Given, GE(v), Of(lit_min .. min, b, c, {}))
      BY DEF Clause, Given, Explains
    <2> HIDE DEF b, c
    <2> QED
      BY <1>3, <2>1, <2>2, AddGE DEF b, c
  <1>5. Enqueues(Of((lit_min .. min) \cup {v}, b, c, {}), s2, Of(lit_min .. v, b, c1, {}))
    <2>1. /\ \A i \in b : i >= v
          /\ \A i \in min .. v - 1 : i \in c <=> i \notin vals
          /\ {} \in SUBSET {v}
      BY <1>1 DEF Value
    <2> HIDE DEF b, c
    <2> QED
      BY <1>1, <1>3, <2>1, ChannelMin
  <1>6. Enqueues(Of(lit_min .. v, b, c1, {}), s3, Of(lit_min .. lo, b, c1, {}))
    <2>1. \A i \in b : i >= lo
      BY <1>1, <1>2
    <2>2. \A i \in v .. lo - 1 : i \in c1
      BY <1>1, <1>2 DEF Value
    <2>3. lo = nextIn(vals, v) /\ lo <= lit_max /\ {} \in SUBSET Int
      BY <1>1, <1>2 DEF lo
    <2> HIDE DEF b, c1
    <2> QED
      BY <1>1, <1>2, <1>3, <2>1, <2>2, <2>3, UpdateMin
  <1>7. Enqueues(Of(lit_min .. lo, b, c1, {}), s4, Of(lit_min .. lo, b, c1, {lo} \cap {max}))
    <2>1. lo \in lit_min .. lo /\ max \in b /\ lo \notin c1 /\ lit_min .. lo \in SUBSET Int
      BY <1>1, <1>2
    <2> HIDE DEF b, c1
    <2> QED
      BY <1>1, <1>2, <1>3, <2>1, UpdateFixed
  <1>8. Truths(min, max, vals) = Of(lit_min .. min, b, c, {})
    BY <1>1 DEF Truths
  <1>9. Truths(lo, max, vals) = Of(lit_min .. lo, b, c1, {lo} \cap {max})
    <2>1. c1 = Value \ (vals \cap lo .. max)
      BY <1>1, <1>2 DEF Value
    <2> QED
      BY <2>1 DEF Truths
  <1>10. Enqueues(Truths(min, max, vals), s1 \o s2 \o s3 \o s4, Truths(lo, max, vals))
    <2> HIDE DEF b, c, c1, s1, s2, s3, s4
    <2>1. Enqueues(Truths(min, max, vals), s1 \o s2, Of(lit_min .. v, b, c1, {}))
      BY <1>4, <1>5, <1>8, EnqueueThen
    <2>2. Enqueues(Truths(min, max, vals), s1 \o s2 \o s3, Of(lit_min .. lo, b, c1, {}))
      BY <2>1, <1>6, EnqueueThen
    <2> QED
      BY <2>2, <1>7, <1>9, EnqueueThen
  <1>11. trail' = trail \o (s1 \o s2 \o s3 \o s4) /\ min' = lo /\ max' = max /\ vals' = vals
    BY DEF raiseMin, tell, lo
  <1>12. DomRight(lo, max, vals)
    BY <1>1, <1>2 DEF DomRight
  <1> HIDE DEF s1, s2, s3, s4
  <1>13. Enqueued(lo, max, vals)
    BY <1>10, <1>11, <1>12 DEF Enqueued
  <1> QED
    BY <1>2, <1>13 DEF lo

LEMMA LowerMax ==
  ASSUME BoundsRight, DomRight(min, max, vals), trail \in Seq(Entry), NEW v \in Int, v < max, min <= v, lowerMax(v)
  PROVE  /\ Enqueued(min, prevIn(vals, v), vals)
         /\ prevIn(vals, v) <= v /\ \A d \in vals : d <= v => prevIn(vals, v) >= d
  <1> DEFINE hi == prevIn(vals, v)
             a == lit_min .. min
             c == Value \ (vals \cap min .. max)
             c1 == c \cup (v + 1 .. max)
             s1 == <<entry(LE(v), Given)>>
             s2 == channelMax(v)
             s3 == updateMax(vals, v)
             s4 == updateFixed(min, hi)
  <1>1. /\ min \in Int /\ max \in Int /\ min \in Value /\ max \in Value /\ vals \in SUBSET Int /\ vals \in SUBSET Value
        /\ min \in vals /\ max \in vals /\ min <= max
        /\ lit_min <= min /\ max <= lit_max /\ lit_min \in Int /\ lit_max \in Int /\ v \in Value
    BY DEF DomRight, BoundsRight, Value
  <1>2. hi \in vals /\ hi <= v /\ hi \in Int /\ min <= hi /\ hi \in Value /\ \A e \in vals : e <= v => hi >= e
    BY <1>1, PrevIn
  <1> HIDE DEF hi
  <1>3. a \in SUBSET Int /\ c \in SUBSET Int /\ c1 \in SUBSET Int
    BY <1>1
  <1>4. Enqueues(Of(a, max .. lit_max, c, {}), s1, Of(a, (max .. lit_max) \cup {v}, c, {}))
    <2>1. v \in lit_min - 1 .. lit_max /\ v \notin max .. lit_max /\ v + 1 \notin a /\ max .. lit_max \in SUBSET Int /\ {} \in SUBSET Int
      BY <1>1
    <2>2. Given \in Clause /\ Explains(Given, LE(v), Of(a, max .. lit_max, c, {}))
      BY DEF Clause, Given, Explains
    <2> HIDE DEF a, c
    <2> QED
      BY <1>3, <2>1, <2>2, AddLE DEF a, c
  <1>5. Enqueues(Of(a, (max .. lit_max) \cup {v}, c, {}), s2, Of(a, v .. lit_max, c1, {}))
    <2>1. /\ \A i \in a : i <= v
          /\ \A i \in v + 1 .. max : i \in c <=> i \notin vals
          /\ {} \in SUBSET {v}
      BY <1>1 DEF Value
    <2> HIDE DEF a, c
    <2> QED
      BY <1>1, <1>3, <2>1, ChannelMax
  <1>6. Enqueues(Of(a, v .. lit_max, c1, {}), s3, Of(a, hi .. lit_max, c1, {}))
    <2>1. \A i \in a : i <= hi
      BY <1>1, <1>2
    <2>2. \A i \in hi + 1 .. v : i \in c1
      BY <1>1, <1>2 DEF Value
    <2>3. hi = prevIn(vals, v) /\ hi >= lit_min /\ {} \in SUBSET Int
      BY <1>1, <1>2 DEF hi
    <2> HIDE DEF a, c1
    <2> QED
      BY <1>1, <1>2, <1>3, <2>1, <2>2, <2>3, UpdateMax
  <1>7. Enqueues(Of(a, hi .. lit_max, c1, {}), s4, Of(a, hi .. lit_max, c1, {min} \cap {hi}))
    <2>1. hi \in hi .. lit_max /\ min \in a /\ min \notin c1 /\ hi .. lit_max \in SUBSET Int
      BY <1>1, <1>2
    <2> HIDE DEF a, c1
    <2> QED
      BY <1>1, <1>2, <1>3, <2>1, UpdateFixed
  <1>8. Truths(min, max, vals) = Of(a, max .. lit_max, c, {})
    BY <1>1 DEF Truths
  <1>9. Truths(min, hi, vals) = Of(a, hi .. lit_max, c1, {min} \cap {hi})
    <2>1. c1 = Value \ (vals \cap min .. hi)
      BY <1>1, <1>2 DEF Value
    <2> QED
      BY <2>1 DEF Truths
  <1>10. Enqueues(Truths(min, max, vals), s1 \o s2 \o s3 \o s4, Truths(min, hi, vals))
    <2> HIDE DEF a, c, c1, s1, s2, s3, s4
    <2>1. Enqueues(Truths(min, max, vals), s1 \o s2, Of(a, v .. lit_max, c1, {}))
      BY <1>4, <1>5, <1>8, EnqueueThen
    <2>2. Enqueues(Truths(min, max, vals), s1 \o s2 \o s3, Of(a, hi .. lit_max, c1, {}))
      BY <2>1, <1>6, EnqueueThen
    <2> QED
      BY <2>2, <1>7, <1>9, EnqueueThen
  <1>11. trail' = trail \o (s1 \o s2 \o s3 \o s4) /\ min' = min /\ max' = hi /\ vals' = vals
    BY DEF lowerMax, tell, hi
  <1>12. DomRight(min, hi, vals)
    BY <1>1, <1>2 DEF DomRight
  <1> HIDE DEF s1, s2, s3, s4
  <1>13. Enqueued(min, hi, vals)
    BY <1>10, <1>11, <1>12 DEF Enqueued
  <1> QED
    BY <1>2, <1>13 DEF hi


LEMMA FixValue ==
  ASSUME BoundsRight, DomRight(min, max, vals), trail \in Seq(Entry), NEW v \in vals, min <= v, v <= max, min # max, fix(v)
  PROVE  Enqueued(v, v, vals)
  <1> DEFINE a == lit_min .. min
             b == max .. lit_max
             c == Value \ (vals \cap min .. max)
             a1 == lit_min .. v
             c1 == c \cup (min .. v - 1)
             b1 == v .. lit_max
             c2 == c1 \cup (v + 1 .. max)
             s1 == <<entry(EQ(v), Given)>>
             up == IF min < v THEN <<entry(GE(v), {NE(v)})>> \o channelMin(v) ELSE <<>>
             down == IF max > v THEN <<entry(LE(v), {NE(v)})>> \o channelMax(v) ELSE <<>>
  <1>1. /\ min \in Int /\ max \in Int /\ min \in Value /\ max \in Value /\ vals \in SUBSET Int /\ vals \in SUBSET Value
        /\ min \in vals /\ max \in vals /\ min <= max /\ v \in Int /\ v \in Value
        /\ lit_min <= min /\ max <= lit_max /\ lit_min \in Int /\ lit_max \in Int
        /\ v \in lit_min .. lit_max + 1 /\ v \in lit_min - 1 .. lit_max /\ (v - 1) + 1 = v /\ (v + 1) - 1 = v
    BY DEF DomRight, BoundsRight, Value
  <1>2. /\ a \in SUBSET Int /\ b \in SUBSET Int /\ c \in SUBSET Int /\ a1 \in SUBSET Int /\ c1 \in SUBSET Int
        /\ b1 \in SUBSET Int /\ c2 \in SUBSET Int /\ {v} \in SUBSET Int /\ {} \in SUBSET Int
    BY <1>1
  <1>3. Enqueues(Of(a, b, c, {}), s1, Of(a, b, c, {v}))
    <2>1. v \notin c /\ {} \cup {v} = {v} /\ v \notin {}
      BY <1>1
    <2>2. Given \in Clause /\ Explains(Given, EQ(v), Of(a, b, c, {}))
      BY DEF Clause, Given, Explains
    <2> HIDE DEF a, b, c
    <2>3. Enqueues(Of(a, b, c, {}), s1, Of(a, b, c, {} \cup {v}))
      BY <1>1, <1>2, <2>1, <2>2, AddEQ
    <2> QED
      BY <2>1, <2>3
  <1>4. ASSUME NEW x \in SUBSET Int, NEW y \in SUBSET Int, NEW z \in SUBSET Int
        PROVE  /\ {NE(v)} \in Clause
               /\ Explains({NE(v)}, GE(v), Of(x, y, z, {v})) /\ Explains({NE(v)}, LE(v), Of(x, y, z, {v}))
    <2>1. NE(v) \in Lit /\ neg(NE(v)) = EQ(v)
      BY <1>1, LitType, LitNeg
    <2>2. EQ(v) \in Of(x, y, z, {v})
      BY DEF Of
    <2>3. ASSUME NEW i \in Value
          PROVE  (\E q \in {NE(v)} \cup {GE(v)} : Says(q, i)) /\ (\E q \in {NE(v)} \cup {LE(v)} : Says(q, i))
      <3>1. i \in Int
        BY DEF Value, BoundsRight
      <3>2. (Says(NE(v), i) <=> i # v) /\ (Says(GE(v), i) <=> i >= v) /\ (Says(LE(v), i) <=> i <= v)
        BY <3>1, <1>1, LitSays
      <3>3. (i # v \/ i >= v) /\ (i # v \/ i <= v)
        BY <3>1, <1>1
      <3> QED
        BY <3>2, <3>3
    <2> QED
      BY <2>1, <2>2, <2>3 DEF Clause, Explains
  <1>5. Enqueues(Of(a, b, c, {v}), up, Of(a1, b, c1, {v}))
    <2>1. CASE min < v
      <3>1. v \notin a /\ v - 1 \notin b
        BY <1>1, <2>1
      <3>2. Enqueues(Of(a, b, c, {v}), <<entry(GE(v), {NE(v)})>>, Of(a \cup {v}, b, c, {v}))
        <4> HIDE DEF a, b, c
        <4>1. {NE(v)} \in Clause /\ Explains({NE(v)}, GE(v), Of(a, b, c, {v}))
          BY <1>2, <1>4
        <4> QED
          BY <1>1, <1>2, <3>1, <4>1, AddGE
      <3>3. /\ \A i \in b : i >= v
            /\ \A i \in min .. v - 1 : i \in c <=> i \notin vals
            /\ {v} \in SUBSET {v}
        BY <1>1, <2>1 DEF Value
      <3>4. Enqueues(Of(a \cup {v}, b, c, {v}), channelMin(v), Of(a1, b, c1, {v}))
        <4> HIDE DEF b, c
        <4> QED
          BY <1>1, <1>2, <2>1, <3>3, ChannelMin
      <3>5. up = <<entry(GE(v), {NE(v)})>> \o channelMin(v)
        BY <2>1
      <3> HIDE DEF a, b, c, a1, c1, up
      <3> QED
        BY <3>2, <3>4, <3>5, EnqueueThen
    <2>2. CASE ~ (min < v)
      <3>1. min = v /\ up = <<>>
        BY <1>1, <2>2
      <3>2. a1 = a /\ c1 = c
        BY <1>1, <3>1
      <3> HIDE DEF a, b, c, a1, c1, up
      <3> QED
        BY <3>1, <3>2, EnqueueNone
    <2> QED
      BY <2>1, <2>2
  <1>6. Enqueues(Of(a1, b, c1, {v}), down, Of(a1, b1, c2, {v}))
    <2>1. CASE max > v
      <3>1. v \notin b /\ v + 1 \notin a1
        BY <1>1, <2>1
      <3>2. Enqueues(Of(a1, b, c1, {v}), <<entry(LE(v), {NE(v)})>>, Of(a1, b \cup {v}, c1, {v}))
        <4> HIDE DEF a1, b, c1
        <4>1. {NE(v)} \in Clause /\ Explains({NE(v)}, LE(v), Of(a1, b, c1, {v}))
          BY <1>2, <1>4
        <4> QED
          BY <1>1, <1>2, <3>1, <4>1, AddLE
      <3>3. /\ \A i \in a1 : i <= v
            /\ \A i \in v + 1 .. max : i \in c1 <=> i \notin vals
            /\ {v} \in SUBSET {v} /\ v < max
        BY <1>1, <2>1 DEF Value
      <3>4. Enqueues(Of(a1, b \cup {v}, c1, {v}), channelMax(v), Of(a1, b1, c2, {v}))
        <4> HIDE DEF a1, c1
        <4> QED
          BY <1>1, <1>2, <3>3, ChannelMax
      <3>5. down = <<entry(LE(v), {NE(v)})>> \o channelMax(v)
        BY <2>1
      <3> HIDE DEF a1, b, c1, b1, c2, down
      <3> QED
        BY <3>2, <3>4, <3>5, EnqueueThen
    <2>2. CASE ~ (max > v)
      <3>1. max = v /\ down = <<>>
        BY <1>1, <2>2
      <3>2. b1 = b /\ c2 = c1
        BY <1>1, <3>1
      <3> HIDE DEF a1, b, c1, b1, c2, down
      <3> QED
        BY <3>1, <3>2, EnqueueNone
    <2> QED
      BY <2>1, <2>2
  <1>7. Truths(min, max, vals) = Of(a, b, c, {})
    <2>1. {min} \cap {max} = {}
      OBVIOUS
    <2> QED
      BY <2>1 DEF Truths
  <1>8. Truths(v, v, vals) = Of(a1, b1, c2, {v})
    <2>1. c2 = Value \ (vals \cap v .. v)
      BY <1>1 DEF Value
    <2> QED
      BY <2>1 DEF Truths
  <1>9. trail' = trail \o (s1 \o up \o down) /\ min' = v /\ max' = v /\ vals' = vals
    BY DEF fix, tell
  <1>10. DomRight(v, v, vals)
    BY <1>1 DEF DomRight
  <1> HIDE DEF a, b, c, a1, c1, b1, c2, s1, up, down
  <1>11. Enqueues(Truths(min, max, vals), s1 \o up \o down, Truths(v, v, vals))
    <2>1. Enqueues(Of(a, b, c, {}), s1 \o up, Of(a1, b, c1, {v}))
      BY <1>3, <1>5, EnqueueThen
    <2> QED
      BY <2>1, <1>6, <1>7, <1>8, EnqueueThen
  <1> QED
    BY <1>9, <1>10, <1>11 DEF Enqueued

LEMMA RemoveValue ==
  ASSUME BoundsRight, DomRight(min, max, vals), trail \in Seq(Entry), NEW v \in vals, min <= v, v <= max, min # max,
         remove(v)
  PROVE  LET S == vals \ {v}
             lo == nextIn(S, min)
             hi == prevIn(S, max)
         IN /\ Enqueued(lo, hi, S) /\ lo >= min /\ hi <= max
            /\ \A d \in S : (d >= min => lo <= d) /\ (d <= max => hi >= d)
  <1> DEFINE S == vals \ {v}
             lo == nextIn(S, min)
             hi == prevIn(S, max)
             a == lit_min .. min
             b == max .. lit_max
             c == Value \ (vals \cap min .. max)
             c1 == c \cup {v}
             a1 == lit_min .. lo
             b1 == hi .. lit_max
             s1 == <<entry(NE(v), Given)>>
             s2 == updateMin(S, min)
             s3 == updateMax(S, max)
             s4 == updateFixed(lo, hi)
  <1>1. /\ min \in Int /\ max \in Int /\ min \in Value /\ max \in Value /\ vals \in SUBSET Int /\ vals \in SUBSET Value
        /\ min \in vals /\ max \in vals /\ min < max /\ v \in Int /\ v \in Value
        /\ lit_min <= min /\ max <= lit_max /\ lit_min \in Int /\ lit_max \in Int
    BY DEF DomRight, BoundsRight, Value
  <1>2. S \in SUBSET Int /\ S \in SUBSET Value /\ (\E d \in S : d >= min /\ d <= max)
    <2>1. min # v \/ max # v
      BY <1>1
    <2> QED
      BY <1>1, <2>1
  <1>3. lo \in S /\ lo >= min /\ lo \in Int /\ (\A e \in S : e >= min => lo <= e)
    BY <1>1, <1>2, NextIn
  <1>4. hi \in S /\ hi <= max /\ hi \in Int /\ (\A e \in S : e <= max => hi >= e)
    BY <1>1, <1>2, PrevIn
  <1> HIDE DEF lo, hi
  <1>6. lo <= hi /\ lo \in Value /\ hi \in Value /\ lo <= lit_max /\ hi >= lit_min
    BY <1>1, <1>2, <1>3, <1>4
  <1>7. a \in SUBSET Int /\ b \in SUBSET Int /\ c \in SUBSET Int /\ c1 \in SUBSET Int /\ a1 \in SUBSET Int /\ b1 \in SUBSET Int /\ {} \in SUBSET Int
    BY <1>1, <1>3, <1>4
  <1>8. Enqueues(Of(a, b, c, {}), s1, Of(a, b, c1, {}))
    <2>1. v \notin c /\ v \notin {}
      BY <1>1
    <2>2. Given \in Clause /\ Explains(Given, NE(v), Of(a, b, c, {}))
      BY DEF Clause, Given, Explains
    <2> HIDE DEF a, b, c
    <2> QED
      BY <1>1, <1>7, <2>1, <2>2, AddNE
  <1>9. Enqueues(Of(a, b, c1, {}), s2, Of(a1, b, c1, {}))
    <2>1. (\A i \in b : i >= lo) /\ \A i \in min .. lo - 1 : i \in c1
      BY <1>1, <1>2, <1>3, <1>4, <1>6 DEF Value
    <2> HIDE DEF b, c1
    <2> QED
      BY <1>1, <1>2, <1>3, <1>6, <1>7, <2>1, UpdateMin DEF lo
  <1>10. Enqueues(Of(a1, b, c1, {}), s3, Of(a1, b1, c1, {}))
    <2>1. (\A i \in a1 : i <= hi) /\ \A i \in hi + 1 .. max : i \in c1
      BY <1>1, <1>2, <1>3, <1>4, <1>6 DEF Value
    <2> HIDE DEF a1, c1
    <2> QED
      BY <1>1, <1>2, <1>4, <1>6, <1>7, <2>1, UpdateMax DEF hi
  <1>11. Enqueues(Of(a1, b1, c1, {}), s4, Of(a1, b1, c1, {lo} \cap {hi}))
    <2>1. lo \in a1 /\ hi \in b1 /\ lo \notin c1
      BY <1>1, <1>3, <1>4, <1>6
    <2> HIDE DEF a1, b1, c1
    <2> QED
      BY <1>6, <1>7, <2>1, UpdateFixed
  <1>12. Truths(min, max, vals) = Of(a, b, c, {})
    <2>1. {min} \cap {max} = {}
      OBVIOUS
    <2> QED
      BY <2>1 DEF Truths
  <1>13. Truths(lo, hi, S) = Of(a1, b1, c1, {lo} \cap {hi})
    <2>1. c1 = Value \ (S \cap lo .. hi)
      BY <1>1, <1>2, <1>3, <1>4 DEF Value
    <2> QED
      BY <2>1 DEF Truths
  <1>14. trail' = trail \o (s1 \o s2 \o s3 \o s4) /\ min' = lo /\ max' = hi /\ vals' = S
    BY DEF remove, tell, lo, hi
  <1>15. DomRight(lo, hi, S)
    BY <1>2, <1>3, <1>4, <1>6 DEF DomRight
  <1> HIDE DEF a, b, c, a1, c1, b1, s1, s2, s3, s4
  <1>16. Enqueues(Truths(min, max, vals), s1 \o s2 \o s3 \o s4, Truths(lo, hi, S))
    <2>1. Enqueues(Of(a, b, c, {}), s1 \o s2, Of(a1, b, c1, {}))
      BY <1>8, <1>9, EnqueueThen
    <2>2. Enqueues(Of(a, b, c, {}), s1 \o s2 \o s3, Of(a1, b1, c1, {}))
      BY <2>1, <1>10, EnqueueThen
    <2>3. Enqueues(Of(a, b, c, {}), s1 \o s2 \o s3 \o s4, Of(a1, b1, c1, {lo} \cap {hi}))
      BY <2>2, <1>11, EnqueueThen
    <2> QED
      BY <2>3, <1>12, <1>13
  <1>17. Enqueued(lo, hi, S)
    BY <1>14, <1>15, <1>16 DEF Enqueued
  <1>18. lo >= min /\ hi <= max
    BY <1>3, <1>4
  <1>19. \A d \in S : (d >= min => lo <= d) /\ (d <= max => hi >= d)
    BY <1>3, <1>4
  <1> QED
    BY <1>17, <1>18, <1>19 DEF lo, hi

-----------------------------------------------------------------------------
(* Beginnings of sequences.                                                  *)

LEMMA PrefixLonger ==
  ASSUME NEW X, NEW s \in Seq(X), NEW t \in Seq(X), NEW n \in 0 .. Len(s)
  PROVE  SubSeq(s \o t, 1, n) = SubSeq(s, 1, n)
  <1>1. CASE n = 0
    <2>1. SubSeq(s \o t, 1, 0) = <<>> /\ SubSeq(s, 1, 0) = <<>>
      BY SubSeqEmpty
    <2> QED
      BY <1>1, <2>1
  <1>2. CASE n # 0
    <2>1. n \in 1 .. Len(s) /\ 1 \in 1 .. Len(s)
      BY <1>2
    <2> QED
      BY <2>1, SubSeqOfConcat1
  <1> QED
    BY <1>1, <1>2

LEMMA PrefixOfPrefix ==
  ASSUME NEW X, NEW s \in Seq(X), NEW n \in 0 .. Len(s), NEW m \in 0 .. n
  PROVE  SubSeq(SubSeq(s, 1, n), 1, m) = SubSeq(s, 1, m)
  <1>1. CASE m = 0
    <2>1. SubSeq(SubSeq(s, 1, n), 1, 0) = <<>> /\ SubSeq(s, 1, 0) = <<>>
      BY SubSeqEmpty
    <2> QED
      BY <1>1, <2>1
  <1>2. CASE m # 0
    <2>1. /\ n \in 1 .. Len(s) /\ 1 \in 1 .. Len(s) /\ 1 \in 1 .. n - 1 + 1 /\ m \in 1 .. n - 1 + 1
          /\ 1 + 1 - 1 = 1 /\ 1 + m - 1 = m
      BY <1>2
    <2>2. SubSeq(SubSeq(s, 1, n), 1, m) = SubSeq(s, 1 + 1 - 1, 1 + m - 1)
      BY <2>1, SubSeqOfSubSeq
    <2> QED
      BY <2>1, <2>2
  <1> QED
    BY <1>1, <1>2

LEMMA PrefixType ==
  ASSUME NEW X, NEW s \in Seq(X), NEW n \in 0 .. Len(s)
  PROVE  /\ SubSeq(s, 1, n) \in Seq(X) /\ Len(SubSeq(s, 1, n)) = n
         /\ \A i \in 1 .. n : SubSeq(s, 1, n)[i] = s[i]
  <1>1. \A i \in 1 .. n : s[i] \in X
    OBVIOUS
  <1> QED
    BY <1>1, SubSeqProperties

-----------------------------------------------------------------------------
(* The inductive invariant.                                                  *)

(* The trail t was enqueued from nothing and says the domain. *)
Agreed(t, lo, hi, S) == Enqueues({}, t, Truths(lo, hi, S)) /\ DomRight(lo, hi, S)

Level(t, p) == p.len \in 0 .. Len(t) /\ Agreed(SubSeq(t, 1, p.len), p.min, p.max, p.vals)

(* What every open level started from is still the beginning of the trail. *)
PastRight(t, P) ==
  /\ P \in Seq([min : Value, max : Value, vals : SUBSET Value, len : Nat])
  /\ \A k \in DOMAIN P : Level(t, P[k])
  /\ \A j, k \in DOMAIN P : j <= k => P[j].len <= P[k].len

Events == {"C", "L", "U", "F"}

ELInv ==
  /\ Agreed(trail, min, max, vals) /\ PastRight(trail, past)
  /\ confl \in Clause /\ changes \in SUBSET Events /\ in_queue \in BOOLEAN /\ Len(past) <= MaxLevel

LEMMA TrailType ==
  ASSUME ELInv
  PROVE  trail \in Seq(Entry) /\ DomRight(min, max, vals)
  BY DEF ELInv, Agreed, Enqueues

(* The levels stay right when the trail grows. *)
LEMMA PastLonger ==
  ASSUME NEW t \in Seq(Entry), NEW s \in Seq(Entry), NEW P, PastRight(t, P)
  PROVE  PastRight(t \o s, P)
  <1>1. \A k \in DOMAIN P : Level(t \o s, P[k])
    <2> SUFFICES ASSUME NEW k \in DOMAIN P PROVE Level(t \o s, P[k])
      OBVIOUS
    <2>1. P[k].len \in 0 .. Len(t) /\ Agreed(SubSeq(t, 1, P[k].len), P[k].min, P[k].max, P[k].vals)
      BY DEF PastRight, Level
    <2>2. SubSeq(t \o s, 1, P[k].len) = SubSeq(t, 1, P[k].len)
      BY <2>1, PrefixLonger
    <2>3. P[k].len \in 0 .. Len(t \o s)
      BY <2>1
    <2> QED
      BY <2>1, <2>2, <2>3 DEF Level
  <1> QED
    BY <1>1 DEF PastRight

LEMMA AgreedLonger ==
  ASSUME Agreed(trail, min, max, vals), NEW lo, NEW hi, NEW S, Enqueued(lo, hi, S)
  PROVE  \E s \in Seq(Entry) : trail' = trail \o s /\ Agreed(trail \o s, lo, hi, S)
  <1>1. PICK s : Enqueues(Truths(min, max, vals), s, Truths(lo, hi, S)) /\ trail' = trail \o s
    BY DEF Enqueued
  <1>2. s \in Seq(Entry)
    BY <1>1 DEF Enqueues
  <1>3. Enqueues({}, trail \o s, Truths(lo, hi, S))
    BY <1>1, EnqueueThen DEF Agreed
  <1> QED
    BY <1>1, <1>2, <1>3 DEF Agreed, Enqueued

-----------------------------------------------------------------------------
(* What a call that succeeds does.                                           *)

From(v) == {d \in Value : d >= v}
Upto(v) == {d \in Value : d <= v}

(* The bounds that moved and a fixed variable are told. *)
Told ==
  /\ changes' \in SUBSET Events /\ "C" \in changes' /\ in_queue' = TRUE
  /\ min' # min => "L" \in changes'
  /\ max' # max => "U" \in changes'
  /\ min' = max' => "F" \in changes'

(* The domain is cut down to A, the literals follow, it is told. *)
Cut(A) ==
  /\ Enqueued(min', max', vals')
  /\ vals' \cap min' .. max' = dom \cap A
  /\ Told /\ UNCHANGED confl

LEMMA RaiseMinCuts ==
  ASSUME BoundsRight, ELInv, NEW v \in Int, min < v, v <= max, raiseMin(v)
  PROVE  Cut(From(v)) /\ vals' = vals
  <1>1. trail \in Seq(Entry) /\ DomRight(min, max, vals) /\ changes \in SUBSET Events
    BY TrailType DEF ELInv
  <1>2. /\ min \in Int /\ max \in Int /\ max \in Value /\ vals \in SUBSET Int /\ vals \in SUBSET Value /\ max \in vals
    BY <1>1 DEF DomRight, BoundsRight, Value
  <1> DEFINE lo == nextIn(vals, v)
  <1>3. Enqueued(lo, max, vals) /\ lo >= v /\ \A d \in vals : d >= v => lo <= d
    BY <1>1, RaiseMin
  <1>4. prevIn(vals, max) = max /\ lo \in Int
    BY <1>2, PrevIn, NextIn
  <1>5. /\ changes' = changes \cup events(v, max, vals, {"C", "L"}) /\ in_queue' = TRUE
        /\ confl' = confl /\ min' = lo /\ max' = max /\ vals' = vals
    BY DEF raiseMin, tell
  <1>6. Told
    BY <1>1, <1>4, <1>5 DEF Told, events, Events
  <1> HIDE DEF lo
  <1>7. vals \cap lo .. max = dom \cap From(v)
    BY <1>2, <1>3, <1>4 DEF dom, From, Value
  <1> QED
    BY <1>3, <1>5, <1>6, <1>7 DEF Cut

LEMMA LowerMaxCuts ==
  ASSUME BoundsRight, ELInv, NEW v \in Int, v < max, min <= v, lowerMax(v)
  PROVE  Cut(Upto(v)) /\ vals' = vals
  <1>1. trail \in Seq(Entry) /\ DomRight(min, max, vals) /\ changes \in SUBSET Events
    BY TrailType DEF ELInv
  <1>2. /\ min \in Int /\ max \in Int /\ min \in Value /\ vals \in SUBSET Int /\ vals \in SUBSET Value /\ min \in vals
    BY <1>1 DEF DomRight, BoundsRight, Value
  <1> DEFINE hi == prevIn(vals, v)
  <1>3. Enqueued(min, hi, vals) /\ hi <= v /\ \A d \in vals : d <= v => hi >= d
    BY <1>1, LowerMax
  <1>4. nextIn(vals, min) = min /\ hi \in Int
    BY <1>2, PrevIn, NextIn
  <1>5. /\ changes' = changes \cup events(min, v, vals, {"C", "U"}) /\ in_queue' = TRUE
        /\ confl' = confl /\ min' = min /\ max' = hi /\ vals' = vals
    BY DEF lowerMax, tell
  <1>6. Told
    BY <1>1, <1>4, <1>5 DEF Told, events, Events
  <1> HIDE DEF hi
  <1>7. vals \cap min .. hi = dom \cap Upto(v)
    BY <1>2, <1>3, <1>4 DEF dom, Upto, Value
  <1> QED
    BY <1>3, <1>5, <1>6, <1>7 DEF Cut

LEMMA FixCuts ==
  ASSUME BoundsRight, ELInv, NEW v \in vals, min <= v, v <= max, min # max, fix(v)
  PROVE  Cut({v}) /\ vals' = vals
  <1>1. trail \in Seq(Entry) /\ DomRight(min, max, vals) /\ changes \in SUBSET Events
    BY TrailType DEF ELInv
  <1>2. /\ min \in Int /\ max \in Int /\ v \in Int /\ vals \in SUBSET Int
    BY <1>1 DEF DomRight, BoundsRight, Value
  <1>3. Enqueued(v, v, vals)
    BY <1>1, FixValue
  <1>4. /\ changes' = changes \cup ({"C", "F"} \cup (IF min < v THEN {"L"} ELSE {}) \cup (IF max > v THEN {"U"} ELSE {}))
        /\ in_queue' = TRUE /\ confl' = confl /\ min' = v /\ max' = v /\ vals' = vals
    BY DEF fix, tell
  <1>5. Told
    BY <1>1, <1>2, <1>4 DEF Told, Events
  <1>6. vals \cap v .. v = dom \cap {v}
    BY <1>2 DEF dom
  <1> QED
    BY <1>3, <1>4, <1>5, <1>6 DEF Cut

LEMMA RemoveCuts ==
  ASSUME BoundsRight, ELInv, NEW v \in vals, min <= v, v <= max, min # max, remove(v)
  PROVE  Cut(Value \ {v}) /\ vals' = vals \ {v}
  <1>1. trail \in Seq(Entry) /\ DomRight(min, max, vals) /\ changes \in SUBSET Events
    BY TrailType DEF ELInv
  <1>2. /\ min \in Int /\ max \in Int /\ v \in Int /\ vals \in SUBSET Int /\ vals \in SUBSET Value /\ min \in vals /\ max \in vals
        /\ min <= max
    BY <1>1 DEF DomRight, BoundsRight, Value
  <1> DEFINE S == vals \ {v}
             lo == nextIn(S, min)
             hi == prevIn(S, max)
  <1>3. /\ Enqueued(lo, hi, S) /\ lo >= min /\ hi <= max
        /\ \A d \in S : (d >= min => lo <= d) /\ (d <= max => hi >= d)
    BY <1>1, RemoveValue
  <1>4. /\ changes' = changes \cup events(min, max, S, {"C"})
        /\ in_queue' = TRUE /\ confl' = confl /\ min' = lo /\ max' = hi /\ vals' = S
    BY DEF remove, tell
  <1>5. lo \in Int /\ hi \in Int
    BY <1>2, <1>3 DEF Enqueued, DomRight
  <1>6. Told
    <2>1. (lo # min => lo > min) /\ (hi # max => hi < max)
      BY <1>2, <1>3, <1>5
    <2> QED
      BY <1>1, <1>4, <2>1 DEF Told, Events, events
  <1> HIDE DEF lo, hi
  <1>7. S \cap lo .. hi = dom \cap (Value \ {v})
    BY <1>2, <1>3, <1>5 DEF dom
  <1> QED
    BY <1>3, <1>4, <1>6, <1>7 DEF Cut

-----------------------------------------------------------------------------
(* The actions.                                                              *)

LEMMA BoundFacts ==
  ASSUME BoundsRight, ELInv
  PROVE  /\ min \in Int /\ max \in Int /\ min \in Value /\ max \in Value /\ min <= max
         /\ vals \in SUBSET Int /\ vals \in SUBSET Value /\ min \in dom /\ max \in dom /\ dom \in SUBSET Int
         /\ lit_min \in Int /\ lit_max \in Int /\ lit_min <= lit_max /\ lit_min <= min /\ max <= lit_max
  <1>1. DomRight(min, max, vals)
    BY TrailType
  <1> QED
    BY <1>1 DEF DomRight, BoundsRight, Value, dom

(* The trail holds the literals that all values left satisfy. *)
LEMMA TrueLits ==
  ASSUME BoundsRight, ELInv, NEW l \in Lit
  PROVE  isTrue(l) <=> \A d \in dom : Says(l, d)
  <1>1. Enqueues({}, trail, Truths(min, max, vals)) /\ DomRight(min, max, vals)
    BY DEF ELInv, Agreed
  <1>2. Truths(min, max, vals) = assigns
    BY <1>1 DEF Enqueues, Lits, assigns
  <1>3. l \in Truths(min, max, vals) <=> \A d \in vals \cap min .. max : Says(l, d)
    BY <1>1, TruthsSay
  <1> QED
    BY <1>2, <1>3 DEF isTrue, dom

LEMMA OpenLits ==
  ASSUME BoundsRight, ELInv, NEW v \in Int
  PROVE  /\ GE(v) \in Lit /\ isUndef(GE(v)) => min < v /\ v <= max
         /\ LE(v) \in Lit /\ isUndef(LE(v)) => min <= v /\ v < max
         /\ EQ(v) \in Lit /\ isUndef(EQ(v)) => v \in dom /\ min # max
         /\ NE(v) \in Lit /\ isUndef(NE(v)) => v \in dom /\ min # max
  <1>1. /\ min \in Int /\ max \in Int /\ min \in dom /\ max \in dom /\ dom \in SUBSET Int /\ lit_min \in Int /\ lit_max \in Int
        /\ min \in Value /\ max \in Value /\ \A d \in dom : min <= d /\ d <= max
    BY BoundFacts DEF dom
  <1>2. ASSUME GE(v) \in Lit, isUndef(GE(v)) PROVE min < v /\ v <= max
    <2>1. v \in lit_min .. lit_max + 1
      BY <1>1, <1>2, LitType, LitShape
    <2>2. v - 1 \in lit_min - 1 .. lit_max /\ v - 1 \in Int
      BY <2>1, <1>1
    <2>3. LE(v - 1) \in Lit /\ ~ isTrue(GE(v)) /\ ~ isTrue(LE(v - 1))
      BY <2>2, <1>2, LitType, LitNeg DEF isUndef, isFalse, isTrue
    <2>4. PICK d \in dom : ~ Says(GE(v), d)
      BY <2>3, <1>2, TrueLits
    <2>5. PICK e \in dom : ~ Says(LE(v - 1), e)
      BY <2>3, TrueLits
    <2>6. ~ (d >= v) /\ ~ (e <= v - 1) /\ d \in Int /\ e \in Int
      BY <2>2, <2>4, <2>5, <1>1, LitSays
    <2> QED
      BY <2>6, <1>1
  <1>3. ASSUME LE(v) \in Lit, isUndef(LE(v)) PROVE min <= v /\ v < max
    <2>1. v \in lit_min - 1 .. lit_max
      BY <1>1, <1>3, LitType, LitShape
    <2>2. v + 1 \in lit_min .. lit_max + 1 /\ v + 1 \in Int
      BY <2>1, <1>1
    <2>3. GE(v + 1) \in Lit /\ ~ isTrue(LE(v)) /\ ~ isTrue(GE(v + 1))
      BY <2>2, <1>3, LitType, LitNeg DEF isUndef, isFalse, isTrue
    <2>4. PICK d \in dom : ~ Says(LE(v), d)
      BY <2>3, <1>3, TrueLits
    <2>5. PICK e \in dom : ~ Says(GE(v + 1), e)
      BY <2>3, TrueLits
    <2>6. ~ (d <= v) /\ ~ (e >= v + 1) /\ d \in Int /\ e \in Int
      BY <2>2, <2>4, <2>5, <1>1, LitSays
    <2> QED
      BY <2>6, <1>1
  <1>4. ASSUME v \in Value, ~ isTrue(EQ(v)), ~ isTrue(NE(v)) PROVE v \in dom /\ min # max
    <2>1. EQ(v) \in Lit /\ NE(v) \in Lit
      BY <1>4, LitType
    <2>2. PICK d \in dom : ~ Says(EQ(v), d)
      BY <2>1, <1>4, TrueLits
    <2>3. PICK e \in dom : ~ Says(NE(v), e)
      BY <2>1, <1>4, TrueLits
    <2>4. d # v /\ e = v /\ d \in Int /\ e \in Int
      BY <2>2, <2>3, <1>1, LitSays
    <2> QED
      BY <2>4, <1>1
  <1>5. ASSUME EQ(v) \in Lit \/ NE(v) \in Lit PROVE v \in Value
    BY <1>1, <1>5, LitType, LitShape
  <1>6. (isUndef(EQ(v)) \/ isUndef(NE(v))) => ~ isTrue(EQ(v)) /\ ~ isTrue(NE(v))
    BY LitNeg DEF isUndef, isFalse, isTrue
  <1> QED
    BY <1>2, <1>3, <1>4, <1>5, <1>6

LEMMA CutKeeps ==
  ASSUME BoundsRight, ELInv, NEW A, Cut(A), UNCHANGED past
  PROVE  ELInv'
  <1>1. PICK s \in Seq(Entry) : trail' = trail \o s /\ Agreed(trail \o s, min', max', vals')
    BY AgreedLonger DEF Cut, ELInv
  <1>2. trail \in Seq(Entry)
    BY TrailType
  <1>3. PastRight(trail \o s, past)
    BY <1>2, PastLonger DEF ELInv
  <1> QED
    BY <1>1, <1>3 DEF ELInv, Cut, Told

(* A call that fails leaves all but confl. *)
Fails ==
  /\ confl = {} /\ confl' \in Clause /\ confl' # {}
  /\ UNCHANGED <<min, max, vals, trail, changes, in_queue, past>>

LEMMA FailFails ==
  ASSUME NEW l \in Lit \cup {Constant(b) : b \in BOOLEAN}, confl = {}, fail(l), UNCHANGED past
  PROVE  Fails
  BY DEF fail, Fails, Given, Clause

LEMMA FailsKeeps ==
  ASSUME ELInv, Fails
  PROVE  ELInv'
  BY DEF ELInv, Fails

LEMMA LitGot ==
  ASSUME BoundsRight, NEW v \in Int, NEW rel \in {"GE", "LE", "EQ", "NE"}
  PROVE  getLit(v, rel) \in Lit \cup {Constant(b) : b \in BOOLEAN}
  <1>1. CASE v < lit_min \/ v > lit_max
    <2>1. \E b \in BOOLEAN : getLit(v, rel) = Constant(b)
      <3>1. CASE v < lit_min
        <4>1. getLit(v, rel) = Constant(rel \in {"NE", "GE"})
          <5>1. v \notin Value /\ ~ (v > lit_max)
            BY <3>1 DEF BoundsRight, Value
          <5> QED
            BY <3>1, <5>1, Zenon DEF getLit
        <4>2. (rel \in {"NE", "GE"}) \in BOOLEAN
          OBVIOUS
        <4> QED
          BY <4>1, <4>2, Zenon
      <3>2. CASE v > lit_max /\ ~ (v < lit_min)
        <4>1. getLit(v, rel) = Constant(rel \in {"NE", "LE"})
          <5>1. v \notin Value
            BY <3>2 DEF BoundsRight, Value
          <5> QED
            BY <3>2, <5>1, Zenon DEF getLit
        <4>2. (rel \in {"NE", "LE"}) \in BOOLEAN
          OBVIOUS
        <4> QED
          BY <4>1, <4>2, Zenon
      <3> QED
        BY <1>1, <3>1, <3>2, Zenon
    <2> QED
      BY <2>1, Zenon
  <1>2. CASE v \in Value
    <2>1. /\ ~ (v < lit_min) /\ ~ (v > lit_max) /\ GE(v) \in Lit /\ LE(v) \in Lit /\ EQ(v) \in Lit /\ NE(v) \in Lit
      BY <1>2, LitType DEF Value, BoundsRight
    <2> QED
      BY <1>2, <2>1 DEF getLit
  <1> QED
    BY <1>1, <1>2 DEF Value, BoundsRight

LEMMA SetMinStep ==
  ASSUME BoundsRight, ELInv, NEW v \in Int, setMin(v)
  PROVE  /\ confl = {} /\ UNCHANGED past
         /\ Fails \/ (v \in Value /\ Cut(From(v)) /\ vals' = vals)
  <1>1. confl = {} /\ v > min /\ UNCHANGED past
    BY DEF setMin
  <1>2. CASE v > max
    <2>1. fail(getLit(v, "GE")) /\ getLit(v, "GE") \in Lit \cup {Constant(b) : b \in BOOLEAN}
      BY <1>2, LitGot DEF setMin
    <2> QED
      BY <1>1, <2>1, FailFails
  <1>3. CASE ~ (v > max)
    <2>1. raiseMin(v) /\ min < v /\ v <= max /\ v \in Value
      BY <1>1, <1>3, BoundFacts DEF setMin, Value
    <2> QED
      BY <1>1, <2>1, RaiseMinCuts
  <1> QED
    BY <1>2, <1>3

LEMMA SetMaxStep ==
  ASSUME BoundsRight, ELInv, NEW v \in Int, setMax(v)
  PROVE  /\ confl = {} /\ UNCHANGED past
         /\ Fails \/ (v \in Value /\ Cut(Upto(v)) /\ vals' = vals)
  <1>1. confl = {} /\ v < max /\ UNCHANGED past
    BY DEF setMax
  <1>2. CASE v < min
    <2>1. fail(getLit(v, "LE")) /\ getLit(v, "LE") \in Lit \cup {Constant(b) : b \in BOOLEAN}
      BY <1>2, LitGot DEF setMax
    <2> QED
      BY <1>1, <2>1, FailFails
  <1>3. CASE ~ (v < min)
    <2>1. lowerMax(v) /\ min <= v /\ v < max /\ v \in Value
      BY <1>1, <1>3, BoundFacts DEF setMax, Value
    <2> QED
      BY <1>1, <2>1, LowerMaxCuts
  <1> QED
    BY <1>2, <1>3

LEMMA SetValStep ==
  ASSUME BoundsRight, ELInv, NEW v \in Int, setVal(v)
  PROVE  /\ confl = {} /\ UNCHANGED past
         /\ Fails \/ (v \in Value /\ Cut({v}) /\ vals' = vals)
  <1>1. confl = {} /\ (v # min \/ v # max) /\ UNCHANGED past
    BY DEF setVal
  <1>2. CASE v \notin dom
    <2>1. fail(getLit(v, "EQ")) /\ getLit(v, "EQ") \in Lit \cup {Constant(b) : b \in BOOLEAN}
      BY <1>2, LitGot DEF setVal
    <2> QED
      BY <1>1, <2>1, FailFails
  <1>3. CASE v \in dom
    <2>1. fix(v) /\ v \in vals /\ min <= v /\ v <= max /\ v \in Value /\ min # max
      BY <1>1, <1>3, BoundFacts DEF setVal, dom
    <2> QED
      BY <1>1, <2>1, FixCuts
  <1> QED
    BY <1>2, <1>3

LEMMA RemValStep ==
  ASSUME BoundsRight, ELInv, NEW v \in Int, remVal(v)
  PROVE  /\ confl = {} /\ UNCHANGED past
         /\ Fails \/ (v \in Value /\ Cut(Value \ {v}) /\ vals' = vals \ {v})
  <1>1. confl = {} /\ v \in dom /\ UNCHANGED past
    BY DEF remVal
  <1>2. CASE min = max
    <2>1. fail(getLit(v, "NE")) /\ getLit(v, "NE") \in Lit \cup {Constant(b) : b \in BOOLEAN}
      BY <1>2, LitGot DEF remVal
    <2> QED
      BY <1>1, <2>1, FailFails
  <1>3. CASE min # max
    <2>1. remove(v) /\ v \in vals /\ min <= v /\ v <= max /\ v \in Value
      BY <1>1, <1>3, BoundFacts DEF remVal, dom
    <2> QED
      BY <1>1, <1>3, <2>1, RemoveCuts
  <1> QED
    BY <1>2, <1>3

LEMMA ChannelStep ==
  ASSUME BoundsRight, ELInv, NEW l \in Lit, channel(l)
  PROVE  /\ confl = {} /\ UNCHANGED past
         /\ \E v \in Value : \/ (Cut(From(v)) \/ Cut(Upto(v)) \/ Cut({v})) /\ vals' = vals /\ \A w \in Value : l # NE(w)
                             \/ Cut(Value \ {v}) /\ vals' = vals \ {v} /\ l = NE(v)
  <1>1. confl = {} /\ isUndef(l) /\ UNCHANGED past
    BY DEF channel
  <1>2. /\ min \in Int /\ max \in Int /\ min \in Value /\ max \in Value /\ lit_min \in Int /\ lit_max \in Int
        /\ \A d \in dom : d \in Value /\ d \in vals /\ min <= d /\ d <= max
    BY BoundFacts DEF dom
  <1>3. PICK v \in lit_min - 1 .. lit_max + 1 : \/ l = GE(v) /\ raiseMin(v)
                                                \/ l = LE(v) /\ lowerMax(v)
                                                \/ l = EQ(v) /\ fix(v)
                                                \/ l = NE(v) /\ remove(v)
    BY DEF channel
  <1>4. v \in Int
    BY <1>2, <1>3
  <1>5. CASE l = GE(v) /\ raiseMin(v)
    <2>1. min < v /\ v <= max
      BY <1>1, <1>4, <1>5, OpenLits
    <2>2. v \in Value /\ \A w \in Value : w \in Int /\ l # NE(w)
      BY <1>2, <1>4, <1>5, <2>1, LitShape DEF Value
    <2> QED
      BY <1>1, <1>4, <1>5, <2>1, <2>2, RaiseMinCuts
  <1>6. CASE l = LE(v) /\ lowerMax(v)
    <2>1. min <= v /\ v < max
      BY <1>1, <1>4, <1>6, OpenLits
    <2>2. v \in Value /\ \A w \in Value : w \in Int /\ l # NE(w)
      BY <1>2, <1>4, <1>6, <2>1, LitShape DEF Value
    <2> QED
      BY <1>1, <1>4, <1>6, <2>1, <2>2, LowerMaxCuts
  <1>7. CASE l = EQ(v) /\ fix(v)
    <2>1. v \in dom /\ min # max
      BY <1>1, <1>4, <1>7, OpenLits
    <2>2. \A w \in Value : w \in Int /\ l # NE(w)
      BY <1>2, <1>4, <1>7, LitShape DEF Value
    <2> QED
      BY <1>1, <1>2, <1>7, <2>1, <2>2, FixCuts
  <1>8. CASE l = NE(v) /\ remove(v)
    <2>1. v \in dom /\ min # max
      BY <1>1, <1>4, <1>8, OpenLits
    <2> QED
      BY <1>1, <1>2, <1>8, <2>1, RemoveCuts
  <1> QED
    BY <1>3, <1>5, <1>6, <1>7, <1>8

LEMMA WakeKeeps ==
  ASSUME ELInv, wakePropagators
  PROVE  ELInv'
  BY DEF ELInv, wakePropagators

LEMMA LevelKeeps ==
  ASSUME BoundsRight, ELInv, newDecisionLevel
  PROVE  ELInv'
  <1> DEFINE p == [min |-> min, max |-> max, vals |-> vals, len |-> Len(trail)]
             R == [min : Value, max : Value, vals : SUBSET Value, len : Nat]
  <1>1. /\ past' = Append(past, p) /\ UNCHANGED <<min, max, vals, trail, confl, changes, in_queue>>
        /\ Len(past) < MaxLevel
    BY DEF newDecisionLevel
  <1>2. past \in Seq(R) /\ (\A k \in DOMAIN past : Level(trail, past[k]))
        /\ \A j, k \in DOMAIN past : j <= k => past[j].len <= past[k].len
    BY DEF ELInv, PastRight
  <1>3. trail \in Seq(Entry) /\ Len(trail) \in Nat
    BY TrailType
  <1>4. p \in R
    BY <1>3, BoundFacts
  <1>5. Level(trail, p)
    <2>1. SubSeq(trail, 1, Len(trail)) = trail
      BY <1>3, SubSeqFull
    <2>2. p.len = Len(trail) /\ p.min = min /\ p.max = max /\ p.vals = vals
      OBVIOUS
    <2>3. Agreed(trail, min, max, vals) /\ Len(trail) \in 0 .. Len(trail)
      BY <1>3 DEF ELInv
    <2> HIDE DEF p
    <2> QED
      BY <2>1, <2>2, <2>3 DEF Level
  <1>6. p.len = Len(trail) /\ \A k \in DOMAIN past : past[k].len <= p.len
    <2>1. \A k \in DOMAIN past : past[k].len \in 0 .. Len(trail)
      BY <1>2 DEF Level
    <2> QED
      BY <1>3, <2>1
  <1> HIDE DEF p, R
  <1>7. /\ Append(past, p) \in Seq(R) /\ DOMAIN Append(past, p) = DOMAIN past \cup {Len(past) + 1}
        /\ Append(past, p)[Len(past) + 1] = p /\ \A k \in DOMAIN past : Append(past, p)[k] = past[k] /\ k \in 1 .. Len(past)
        /\ Len(past) \in Nat /\ Len(Append(past, p)) = Len(past) + 1
    BY <1>2, <1>4
  <1>8. PastRight(trail, Append(past, p))
    <2>1. \A k \in DOMAIN Append(past, p) : Level(trail, Append(past, p)[k])
      BY <1>2, <1>5, <1>7
    <2>2. ASSUME NEW j \in DOMAIN Append(past, p), NEW k \in DOMAIN Append(past, p), j <= k
          PROVE  Append(past, p)[j].len <= Append(past, p)[k].len
      <3>1. CASE k \in DOMAIN past
        <4>1. j \in DOMAIN past
          BY <1>7, <2>2, <3>1
        <4> QED
          BY <1>2, <1>7, <2>2, <3>1, <4>1
      <3>2. CASE k = Len(past) + 1
        <4>1. CASE j \in DOMAIN past
          BY <1>6, <1>7, <3>2, <4>1
        <4>2. CASE j = Len(past) + 1
          BY <1>3, <1>6, <1>7, <3>2, <4>2
        <4> QED
          BY <1>7, <4>1, <4>2
      <3> QED
        BY <1>7, <3>1, <3>2
    <2> QED
      BY <1>7, <2>1, <2>2 DEF PastRight, R
  <1>9. Len(past') <= MaxLevel
    BY <1>1, <1>7 DEF BoundsRight
  <1> QED
    BY <1>1, <1>8, <1>9 DEF ELInv

LEMMA BackKeeps ==
  ASSUME BoundsRight, ELInv, NEW l \in 0 .. Len(past) - 1, btToLevel(l)
  PROVE  ELInv'
  <1> DEFINE then == past[l + 1]
             R == [min : Value, max : Value, vals : SUBSET Value, len : Nat]
  <1>1. /\ min' = then.min /\ max' = then.max /\ vals' = then.vals /\ trail' = SubSeq(trail, 1, then.len)
        /\ past' = SubSeq(past, 1, l) /\ confl' = {} /\ changes' \in SUBSET Events /\ in_queue' \in BOOLEAN
    BY DEF btToLevel, ELInv
  <1>2. past \in Seq(R) /\ (\A k \in DOMAIN past : Level(trail, past[k]))
        /\ \A j, k \in DOMAIN past : j <= k => past[j].len <= past[k].len
    BY DEF ELInv, PastRight
  <1>3. trail \in Seq(Entry) /\ Len(trail) \in Nat /\ Len(past) \in Nat /\ Len(past) <= MaxLevel /\ l \in 0 .. Len(past)
    BY <1>2, TrailType DEF ELInv
  <1>4. l + 1 \in DOMAIN past /\ l + 1 \in 1 .. Len(past)
    BY <1>2
  <1>5. then.len \in 0 .. Len(trail) /\ Agreed(trail', min', max', vals')
    BY <1>1, <1>2, <1>4 DEF Level
  <1> HIDE DEF R
  <1>6. past' \in Seq(R) /\ Len(past') = l /\ DOMAIN past' = 1 .. l /\ \A k \in 1 .. l : past'[k] = past[k] /\ k \in DOMAIN past /\ k <= l + 1
    <2>1. past' \in Seq(R) /\ Len(past') = l /\ \A k \in 1 .. l : past'[k] = past[k]
      BY <1>1, <1>2, <1>3, PrefixType
    <2> QED
      BY <1>2, <2>1
  <1>7. Len(trail') = then.len
    BY <1>1, <1>3, <1>5, PrefixType
  <1>8. \A k \in DOMAIN past' : Level(trail', past'[k])
    <2> SUFFICES ASSUME NEW k \in 1 .. l PROVE Level(trail', past[k])
      BY <1>6
    <2>1. past[k].len <= then.len /\ Level(trail, past[k])
      BY <1>2, <1>4, <1>6
    <2>2. past[k].len \in 0 .. then.len
      BY <1>5, <2>1 DEF Level
    <2>3. SubSeq(trail', 1, past[k].len) = SubSeq(trail, 1, past[k].len)
      BY <1>1, <1>3, <1>5, <2>2, PrefixOfPrefix
    <2> QED
      BY <1>7, <2>1, <2>2, <2>3 DEF Level
  <1>9. \A j, k \in DOMAIN past' : j <= k => past'[j].len <= past'[k].len
    BY <1>2, <1>6
  <1>10. PastRight(trail', past')
    BY <1>6, <1>8, <1>9 DEF PastRight, R
  <1>11. Len(past') <= MaxLevel
    BY <1>3, <1>6 DEF BoundsRight
  <1>12. confl' \in Clause
    BY <1>1 DEF Clause
  <1> QED
    BY <1>1, <1>5, <1>10, <1>11, <1>12 DEF ELInv

-----------------------------------------------------------------------------
(* Init: the literals of the holes, of the single value, and of the bounds.   *)

LEMMA Holes ==
  ASSUME BoundsRight, NEW D \in SUBSET Value, NEW n, n = lit_max - lit_min + 1,
         NEW f, f = [k \in 1 .. n |-> IF lit_min + k - 1 \in D THEN <<>> ELSE <<entry(NE(lit_min + k - 1), {})>>]
  PROVE  Enqueues({}, FlattenSeq(f), Of({}, {}, Value \ D, {}))
  <1> DEFINE c(k) == (lit_min .. lit_min + k - 1) \ D
             A == [k \in 0 .. n |-> Of({}, {}, c(k), {})]
  <1>1. n \in Nat /\ lit_min \in Int /\ lit_max \in Int
    BY DEF BoundsRight
  <1>2. ASSUME NEW k \in 1 .. n
        PROVE  f[k] \in Seq(Entry) /\ Enqueues(Of({}, {}, c(k - 1), {}), f[k], Of({}, {}, c(k), {}))
    <2> DEFINE v == lit_min + k - 1
               c1 == c(k - 1)
    <2>1. v \in Value /\ v \notin c1 /\ v \notin {} /\ {} \in SUBSET Int /\ c1 \in SUBSET Int
      BY <1>1 DEF Value
    <2>2. CASE v \in D
      <3>1. c(k) = c1 /\ f[k] = <<>>
        BY <1>1, <2>2
      <3> HIDE DEF c
      <3>2. f[k] \in Seq(Entry)
        BY <3>1
      <3> QED
        BY <3>1, <3>2, EnqueueNone
    <2>3. CASE v \notin D
      <3>1. c(k) = c1 \cup {v} /\ f[k] = <<entry(NE(v), {})>>
        BY <1>1, <2>3
      <3>2. {} \in Clause /\ Explains({}, NE(v), Of({}, {}, c1, {}))
        BY DEF Clause, Explains
      <3> HIDE DEF c, c1, v
      <3>3. Enqueues(Of({}, {}, c1, {}), <<entry(NE(v), {})>>, Of({}, {}, c1 \cup {v}, {}))
        BY <2>1, <3>2, AddNE
      <3> QED
        BY <3>1, <3>3 DEF Enqueues, c1
    <2> QED
      BY <2>2, <2>3
  <1>3. f \in Seq(Seq(Entry)) /\ Len(f) = n
    <2>1. DOMAIN f = 1 .. n /\ \A k \in 1 .. n : f[k] \in Seq(Entry)
      BY <1>2
    <2>2. f \in [1 .. n -> Seq(Entry)]
      <3>1. f = [k \in 1 .. n |-> f[k]]
        BY Zenon
      <3> QED
        BY <2>1, <3>1
    <2>3. f \in Seq(Seq(Entry))
      <3>1. ASSUME NEW X, NEW g \in [1 .. n -> X] PROVE g \in Seq(X)
        BY <1>1, SeqDef, Zenon
      <3> QED
        BY <2>2, <3>1, Zenon
    <2>4. DOMAIN f = 1 .. Len(f) /\ Len(f) \in Nat
      BY <2>3, LenProperties
    <2> QED
      BY <1>1, <2>1, <2>3, <2>4
  <1>4. \A k \in 1 .. Len(f) : Enqueues(A[k - 1], f[k], A[k])
    <2> SUFFICES ASSUME NEW k \in 1 .. n PROVE Enqueues(A[k - 1], f[k], A[k])
      BY <1>3
    <2>1. k - 1 \in 0 .. n /\ k \in 0 .. n
      BY <1>1
    <2>2. A[k - 1] = Of({}, {}, c(k - 1), {}) /\ A[k] = Of({}, {}, c(k), {})
      BY <2>1
    <2> QED
      BY <1>2, <2>2
  <1>5. c(0) = {} /\ c(n) = Value \ D
    BY <1>1 DEF Value
  <1>6. A[0] = Of({}, {}, c(0), {}) /\ A[n] = Of({}, {}, c(n), {})
    BY <1>1
  <1>7. Of({}, {}, {}, {}) = {}
    BY DEF Of
  <1> HIDE DEF A, c
  <1>8. Enqueues(A[0], FlattenSeq(f), A[n])
    BY <1>3, <1>4, EnqueueAll
  <1> QED
    BY <1>5, <1>6, <1>7, <1>8

LEMMA InitRight ==
  ASSUME BoundsRight, Init
  PROVE  ELInv
  <1>1. PICK D \in SUBSET Value :
          /\ {lit_min, lit_max} \subseteq D
          /\ min = lit_min /\ max = lit_max /\ vals = D
          /\ LET hole(v) == IF v \in D THEN <<>> ELSE <<entry(NE(v), {})>>
             IN trail = FlattenSeq([k \in 1 .. lit_max - lit_min + 1 |-> hole(lit_min + k - 1)])
                        \o (IF lit_min = lit_max THEN <<entry(EQ(lit_min), {})>> ELSE <<>>)
                        \o <<entry(GE(lit_min), {}), entry(LE(lit_max), {})>>
          /\ confl = {} /\ past = <<>> /\ in_queue = TRUE
          /\ changes = {"C", "L", "U"} \cup IF lit_min = lit_max THEN {"F"} ELSE {}
    BY Zenon DEF Init
  <1> DEFINE f == [k \in 1 .. lit_max - lit_min + 1 |-> IF lit_min + k - 1 \in D THEN <<>> ELSE <<entry(NE(lit_min + k - 1), {})>>]
             s1 == FlattenSeq(f)
             s2 == IF lit_min = lit_max THEN <<entry(EQ(lit_min), {})>> ELSE <<>>
             s3 == <<entry(GE(lit_min), {})>>
             s4 == <<entry(LE(lit_max), {})>>
             c == Value \ D
             d == {lit_min} \cap {lit_max}
  <1>2. /\ lit_min \in Int /\ lit_max \in Int /\ lit_min <= lit_max /\ lit_min \in Value /\ lit_max \in Value
        /\ c \in SUBSET Int /\ {} \in SUBSET Int /\ d \in SUBSET Int
        /\ {lit_min} \in SUBSET Int /\ {lit_max} \in SUBSET Int
    BY DEF BoundsRight, Value
  <1>3. {} \in Clause /\ \A q, A : Explains({}, q, A)
    BY DEF Clause, Explains
  <1>4. Enqueues({}, s1, Of({}, {}, c, {}))
    BY Holes
  <1>5. Enqueues(Of({}, {}, c, {}), s2, Of({}, {}, c, d))
    <2>1. CASE lit_min = lit_max
      <3>1. s2 = <<entry(EQ(lit_min), {})>> /\ d = {} \cup {lit_min} /\ lit_min \notin c /\ lit_min \notin {}
        BY <1>1, <2>1
      <3> HIDE DEF s2, c, d
      <3> QED
        BY <1>2, <1>3, <3>1, AddEQ
    <2>2. CASE lit_min # lit_max
      <3>1. s2 = <<>> /\ d = {}
        BY <2>2
      <3> HIDE DEF s2, c, d
      <3> QED
        BY <3>1, EnqueueNone
    <2> QED
      BY <2>1, <2>2
  <1>6. Enqueues(Of({}, {}, c, d), s3, Of({lit_min}, {}, c, d))
    <2>1. {} \cup {lit_min} = {lit_min} /\ lit_min \in lit_min .. lit_max + 1 /\ lit_min \notin {} /\ lit_min - 1 \notin {}
      BY <1>2
    <2> HIDE DEF c, d
    <2>2. Enqueues(Of({}, {}, c, d), s3, Of({} \cup {lit_min}, {}, c, d))
      BY <1>2, <1>3, <2>1, AddGE
    <2> QED
      BY <2>1, <2>2
  <1>7. Enqueues(Of({lit_min}, {}, c, d), s4, Of({lit_min}, {lit_max}, c, d))
    <2>1. {} \cup {lit_max} = {lit_max} /\ lit_max \in lit_min - 1 .. lit_max /\ lit_max \notin {} /\ lit_max + 1 \notin {lit_min}
      BY <1>2
    <2> HIDE DEF c, d
    <2>2. Enqueues(Of({lit_min}, {}, c, d), s4, Of({lit_min}, {} \cup {lit_max}, c, d))
      BY <1>2, <1>3, <2>1, AddLE
    <2> QED
      BY <2>1, <2>2
  <1>8. s3 \o s4 = <<entry(GE(lit_min), {}), entry(LE(lit_max), {})>>
    <2>1. ASSUME NEW e1, NEW e2 PROVE <<e1>> \o <<e2>> = <<e1, e2>>
      <3>1. <<e1>> \in Seq({e1, e2}) /\ <<e2>> \in Seq({e1, e2}) /\ <<e1, e2>> \in Seq({e1, e2})
        OBVIOUS
      <3>2. Len(<<e1>> \o <<e2>>) = 2 /\ (<<e1>> \o <<e2>>)[1] = e1 /\ (<<e1>> \o <<e2>>)[2] = e2
        BY <3>1
      <3>3. <<e1>> \o <<e2>> \in Seq({e1, e2}) /\ Len(<<e1, e2>>) = 2 /\ <<e1, e2>>[1] = e1 /\ <<e1, e2>>[2] = e2
        BY <3>1
      <3>4. \A i \in 1 .. 2 : i = 1 \/ i = 2
        OBVIOUS
      <3> QED
        BY <3>1, <3>2, <3>3, <3>4, SeqEqual
    <2> QED
      BY <2>1, Zenon
  <1>9. trail = s1 \o s2 \o <<entry(GE(lit_min), {}), entry(LE(lit_max), {})>>
    BY <1>1
  <1>10. Of({lit_min}, {lit_max}, c, d) = Truths(min, max, vals)
    <2>1. lit_min .. lit_min = {lit_min} /\ lit_max .. lit_max = {lit_max}
      BY <1>2
    <2>2. D \cap lit_min .. lit_max = D
      BY Zenon DEF Value
    <2> QED
      BY <1>1, <2>1, <2>2 DEF Truths
  <1>11. DomRight(min, max, vals)
    BY <1>1, <1>2 DEF DomRight
  <1> HIDE DEF s1, s2, s3, s4, c, d
  <1>12. Enqueues({}, trail, Truths(min, max, vals))
    <2>1. Enqueues({}, s1 \o s2, Of({}, {}, c, d))
      BY <1>4, <1>5, EnqueueThen
    <2>2. Enqueues(Of({}, {}, c, d), s3 \o s4, Of({lit_min}, {lit_max}, c, d))
      BY <1>6, <1>7, EnqueueThen
    <2>3. Enqueues({}, (s1 \o s2) \o (s3 \o s4), Of({lit_min}, {lit_max}, c, d))
      BY <2>1, <2>2, EnqueueThen
    <2> QED
      BY <2>3, <1>8, <1>9, <1>10
  <1>13. PastRight(trail, past)
    BY <1>1 DEF PastRight
  <1>14. confl \in Clause /\ changes \in SUBSET Events /\ in_queue \in BOOLEAN /\ Len(past) <= MaxLevel
    BY <1>1, <1>3 DEF Events, BoundsRight
  <1> QED
    BY <1>11, <1>12, <1>13, <1>14 DEF ELInv, Agreed

LEMMA ELNext ==
  ASSUME BoundsRight, ELInv, [Next]_vars
  PROVE  ELInv'
  <1>1. ASSUME NEW v \in lit_min - 1 .. lit_max + 1, setMin(v) \/ setMax(v) \/ setVal(v) \/ remVal(v)
        PROVE  ELInv'
    <2>1. v \in Int
      BY DEF BoundsRight
    <2> QED
      BY <1>1, <2>1, SetMinStep, SetMaxStep, SetValStep, RemValStep, CutKeeps, FailsKeeps
  <1>2. ASSUME NEW l \in Lit, channel(l) PROVE ELInv'
    BY <1>2, ChannelStep, CutKeeps
  <1>3. ASSUME UNCHANGED vars PROVE ELInv'
    BY <1>3 DEF vars, ELInv
  <1>4. ASSUME unsatisfiable PROVE ELInv'
    BY <1>3, <1>4 DEF unsatisfiable
  <1> QED
    BY <1>1, <1>2, <1>3, <1>4, WakeKeeps, LevelKeeps, BackKeeps DEF Next

(* What the invariant says. *)
LEMMA LiteralsFollow ==
  ASSUME BoundsRight, ELInv
  PROVE  LiteralsAgree
  <1>1. trail \in Seq(Entry) /\ DomRight(min, max, vals)
    BY TrailType
  <1>2. TypeOK
    <2>1. \A i \in DOMAIN trail : trail[i].lit \in Lit /\ trail[i].reason \in Clause
      <3>1. \A e \in Entry : e.lit \in Lit /\ e.reason \in Clause
        BY DEF Entry
      <3>2. \A i \in DOMAIN trail : trail[i] \in Entry
        BY <1>1
      <3> QED
        BY <3>1, <3>2
    <2> QED
      BY <1>1, <2>1 DEF TypeOK, DomRight, ELInv, Events
  <1> QED
    BY <1>2, TrueLits DEF LiteralsAgree

LEMMA EnqueuedInOrder ==
  ASSUME BoundsRight, ELInv
  PROVE  EnqueuedRightly
  <1>1. \A i \in DOMAIN trail : May(trail[i], Before({}, trail, i))
    BY DEF ELInv, Agreed, Enqueues
  <1> QED
    BY <1>1 DEF EnqueuedRightly, May, Before, Explains

-----------------------------------------------------------------------------
(* What a variable that is built from this one needs.                        *)

LEMMA NegLit ==
  ASSUME BoundsRight, NEW l \in Lit
  PROVE  neg(l) \in Lit /\ \A d \in Int : Says(neg(l), d) <=> ~ Says(l, d)
  <1>1. lit_min \in Int /\ lit_max \in Int
    BY DEF BoundsRight
  <1>2. ASSUME NEW v \in lit_min .. lit_max + 1, l = GE(v) PROVE neg(l) \in Lit /\ \A d \in Int : Says(neg(l), d) <=> ~ Says(l, d)
    <2>1. v \in Int /\ v - 1 \in Int /\ v - 1 \in lit_min - 1 .. lit_max
      BY <1>1
    <2>2. neg(l) = LE(v - 1) /\ LE(v - 1) \in Lit
      BY <1>2, <2>1, LitNeg, LitType
    <2>3. \A d \in Int : (Says(LE(v - 1), d) <=> d <= v - 1) /\ (Says(GE(v), d) <=> d >= v)
      BY <2>1, LitSays
    <2> QED
      BY <1>2, <2>1, <2>2, <2>3
  <1>3. ASSUME NEW v \in lit_min - 1 .. lit_max, l = LE(v) PROVE neg(l) \in Lit /\ \A d \in Int : Says(neg(l), d) <=> ~ Says(l, d)
    <2>1. v \in Int /\ v + 1 \in Int /\ v + 1 \in lit_min .. lit_max + 1
      BY <1>1
    <2>2. neg(l) = GE(v + 1) /\ GE(v + 1) \in Lit
      BY <1>3, <2>1, LitNeg, LitType
    <2>3. \A d \in Int : (Says(GE(v + 1), d) <=> d >= v + 1) /\ (Says(LE(v), d) <=> d <= v)
      BY <2>1, LitSays
    <2> QED
      BY <1>3, <2>1, <2>2, <2>3
  <1>4. ASSUME NEW v \in Value, l = EQ(v) \/ l = NE(v) PROVE neg(l) \in Lit /\ \A d \in Int : Says(neg(l), d) <=> ~ Says(l, d)
    <2>1. v \in Int /\ EQ(v) \in Lit /\ NE(v) \in Lit
      BY LitType
    <2>2. neg(EQ(v)) = NE(v) /\ neg(NE(v)) = EQ(v)
      BY <2>1, LitNeg
    <2>3. \A d \in Int : (Says(EQ(v), d) <=> d = v) /\ (Says(NE(v), d) <=> d # v)
      BY <2>1, LitSays
    <2> QED
      BY <1>4, <2>1, <2>2, <2>3
  <1> QED
    BY <1>2, <1>3, <1>4, LitType

(* A literal is false when no value left satisfies it. *)
LEMMA FalseLits ==
  ASSUME BoundsRight, ELInv, NEW l \in Lit
  PROVE  isFalse(l) <=> \A d \in dom : ~ Says(l, d)
  <1>1. neg(l) \in Lit /\ \A d \in dom : Says(neg(l), d) <=> ~ Says(l, d)
    BY NegLit, BoundFacts
  <1>2. isTrue(neg(l)) <=> \A d \in dom : Says(neg(l), d)
    BY <1>1, TrueLits
  <1> QED
    BY <1>1, <1>2 DEF isFalse, isTrue

(* The constants are not on the trail. *)
LEMMA ConstantsOff ==
  ASSUME BoundsRight, ELInv, NEW b \in BOOLEAN
  PROVE  ~ isTrue(Constant(b)) /\ ~ isFalse(Constant(b)) /\ \A l \in Lit : l # Constant(TRUE) /\ l # Constant(FALSE)
  <1>1. assigns \subseteq Lit
    <2>1. \A e \in Entry : e.lit \in Lit
      BY DEF Entry
    <2> QED
      BY <2>1, TrailType DEF assigns
  <1>2. Constant(b) \notin Lit /\ Constant(TRUE) \notin Lit /\ Constant(FALSE) \notin Lit
    BY LitType
  <1>3. neg(Constant(b)) = Constant(TRUE) \/ neg(Constant(b)) = Constant(FALSE)
    <2>1. neg(Constant(TRUE)) = Constant(FALSE) /\ neg(Constant(FALSE)) = Constant(TRUE)
      BY Zenon DEF neg, Constant
    <2> QED
      BY <2>1, Zenon
  <1> QED
    BY <1>1, <1>2, <1>3 DEF isTrue, isFalse

LEMMA GotLit ==
  ASSUME BoundsRight, NEW v \in Int
  PROVE  /\ v < lit_min => /\ getLit(v, "GE") = Constant(TRUE) /\ getLit(v, "NE") = Constant(TRUE)
                           /\ getLit(v, "LE") = Constant(FALSE) /\ getLit(v, "EQ") = Constant(FALSE)
         /\ v > lit_max => /\ getLit(v, "LE") = Constant(TRUE) /\ getLit(v, "NE") = Constant(TRUE)
                           /\ getLit(v, "GE") = Constant(FALSE) /\ getLit(v, "EQ") = Constant(FALSE)
         /\ v \in Value => /\ getLit(v, "GE") = GE(v) /\ getLit(v, "LE") = LE(v)
                           /\ getLit(v, "EQ") = EQ(v) /\ getLit(v, "NE") = NE(v)
  <1>1. ASSUME v < lit_min, NEW rel PROVE getLit(v, rel) = Constant(rel \in {"NE", "GE"})
    <2>1. v \notin Value /\ ~ (v > lit_max)
      BY <1>1 DEF BoundsRight, Value
    <2> QED
      BY <1>1, <2>1, Zenon DEF getLit
  <1>2. ASSUME v > lit_max, NEW rel PROVE getLit(v, rel) = Constant(rel \in {"NE", "LE"})
    <2>1. v \notin Value /\ ~ (v < lit_min)
      BY <1>2 DEF BoundsRight, Value
    <2> QED
      BY <1>2, <2>1, Zenon DEF getLit
  <1>3. ASSUME v \in Value
        PROVE  getLit(v, "GE") = GE(v) /\ getLit(v, "LE") = LE(v) /\ getLit(v, "EQ") = EQ(v) /\ getLit(v, "NE") = NE(v)
    <2>1. ~ (v < lit_min) /\ ~ (v > lit_max)
      BY <1>3 DEF BoundsRight, Value
    <2> QED
      BY <1>3, <2>1 DEF getLit
  <1>4. /\ ("GE" \in {"NE", "GE"}) = TRUE /\ ("NE" \in {"NE", "GE"}) = TRUE
        /\ ("LE" \in {"NE", "GE"}) = FALSE /\ ("EQ" \in {"NE", "GE"}) = FALSE
        /\ ("LE" \in {"NE", "LE"}) = TRUE /\ ("NE" \in {"NE", "LE"}) = TRUE
        /\ ("GE" \in {"NE", "LE"}) = FALSE /\ ("EQ" \in {"NE", "LE"}) = FALSE
    OBVIOUS
  <1> QED
    BY <1>1, <1>2, <1>3, <1>4, Zenon

(* Every step, by what it does to the domain. *)
Cuts == confl = {} /\ UNCHANGED past /\ \E v \in Value : Cut(From(v)) \/ Cut(Upto(v)) \/ Cut({v}) \/ Cut(Value \ {v})
Rests == UNCHANGED <<min, max, vals, confl, past>>
Opens ==
  /\ confl = {} /\ UNCHANGED <<min, max, vals, confl>>
  /\ past' = Append(past, [min |-> min, max |-> max, vals |-> vals, len |-> Len(trail)])
Returns(l) ==
  /\ min' = past[l + 1].min /\ max' = past[l + 1].max /\ vals' = past[l + 1].vals
  /\ past' = SubSeq(past, 1, l) /\ confl' = {}

LEMMA Moves ==
  ASSUME BoundsRight, ELInv, Next
  PROVE  Fails \/ Cuts \/ Rests \/ Opens \/ \E l \in 0 .. Len(past) - 1 : Returns(l)
  <1>1. ASSUME NEW v \in lit_min - 1 .. lit_max + 1, setMin(v) \/ setMax(v) \/ setVal(v) \/ remVal(v)
        PROVE  Fails \/ Cuts
    <2>1. v \in Int
      BY DEF BoundsRight
    <2> QED
      BY <1>1, <2>1, SetMinStep, SetMaxStep, SetValStep, RemValStep DEF Cuts
  <1>2. ASSUME NEW l \in Lit, channel(l) PROVE Cuts
    BY <1>2, ChannelStep DEF Cuts
  <1>3. ASSUME wakePropagators \/ unsatisfiable PROVE Rests
    BY <1>3 DEF wakePropagators, unsatisfiable, vars, Rests
  <1>4. ASSUME newDecisionLevel PROVE Opens
    BY <1>4 DEF newDecisionLevel, Opens
  <1>5. ASSUME NEW l \in 0 .. Len(past) - 1, btToLevel(l) PROVE Returns(l)
    BY <1>5 DEF btToLevel, Returns
  <1> QED
    BY <1>1, <1>2, <1>3, <1>4, <1>5 DEF Next

=============================================================================
