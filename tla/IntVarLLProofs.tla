--------------------------- MODULE IntVarLLProofs ---------------------------
(* Proofs about module IntVarLL: the list stays sorted and the places in it  *)
(* mark the bounds, whatever was asked for; a call enqueues what it should,   *)
(* in an order in which every explanation is in time.                         *)
EXTENDS IntVarLL, FiniteSetTheorems, SequenceTheorems, NaturalFacts

BoundsRight == min0 \in Int /\ max0 \in Int /\ min0 <= max0 /\ MaxLevel \in Nat

-----------------------------------------------------------------------------
(* Walks: recursive functions that go down a rank.                           *)

LEMMA Descend ==
  ASSUME NEW N, NEW rank \in [N -> Nat], NEW S,
         \A n \in N : (\A m \in N : rank[m] < rank[n] => m \in S) => n \in S
  PROVE  N \subseteq S
  <1> DEFINE R == {rank[n] : n \in N \ S}
  <1> SUFFICES ASSUME N \ S # {} PROVE FALSE
    OBVIOUS
  <1>1. R # {} /\ R \in SUBSET Nat
    OBVIOUS
  <1>2. PICK r \in R : \A q \in R : r <= q
    <2> HIDE DEF R
    <2> QED
      BY <1>1, Least
  <1>3. PICK n \in N \ S : rank[n] = r
    BY <1>2
  <1>4. \A m \in N : rank[m] < rank[n] => m \in S
    <2> SUFFICES ASSUME NEW m \in N, rank[m] < rank[n], m \notin S PROVE FALSE
      OBVIOUS
    <2>1. rank[m] \in R
      OBVIOUS
    <2>2. rank[n] <= rank[m] /\ rank[m] \in Nat /\ rank[n] \in Nat
      BY <1>2, <1>3, <2>1
    <2> QED
      BY <2>2
  <1> QED
    BY <1>3, <1>4

(* A walk that puts together what it finds. *)
Walk(f, N, Go, piece, next) == f = [n \in N |-> IF n \in Go THEN piece[n] \o f[next[n]] ELSE <<>>]

LEMMA WalkExists ==
  ASSUME NEW N, NEW rank \in [N -> Nat], NEW b \in Nat, \A n \in N : rank[n] <= b,
         NEW Go \in SUBSET N, NEW piece, NEW next, \A n \in Go : next[n] \in N /\ rank[next[n]] < rank[n]
  PROVE  \E f : Walk(f, N, Go, piece, next)
  <1> DEFINE Rec(f, k) == f = [n \in N |-> IF rank[n] < k THEN IF n \in Go THEN piece[n] \o f[next[n]] ELSE <<>> ELSE <<>>]
             Begun(k) == \E f : Rec(f, k)
             T == {k \in Nat : Begun(k)}
  <1> HIDE DEF Begun
  <1>1. 0 \in T
    <2> DEFINE f == [n \in N |-> <<>>]
    <2>1. \A n \in N : ~ (rank[n] < 0)
      OBVIOUS
    <2>2. Rec(f, 0)
      BY <2>1
    <2>3. Begun(0)
      BY <2>2 DEF Begun
    <2> QED
      BY <2>3
  <1>2. ASSUME NEW k \in Nat, k \in T PROVE k + 1 \in T
    <2>1. Begun(k)
      BY <1>2
    <2>2. PICK f : Rec(f, k)
      BY <2>1 DEF Begun
    <2>3. \A n \in N : f[n] = IF rank[n] < k THEN IF n \in Go THEN piece[n] \o f[next[n]] ELSE <<>> ELSE <<>>
      BY <2>2
    <2> DEFINE g == [n \in N |-> IF rank[n] < k + 1 THEN IF n \in Go THEN piece[n] \o f[next[n]] ELSE <<>> ELSE <<>>]
    <2>4. \A n \in N : rank[n] < k => g[n] = f[n]
      <3>1. \A n \in N : rank[n] < k => rank[n] < k + 1
        OBVIOUS
      <3> QED
        BY <2>3, <3>1
    <2>5. \A n \in N : rank[n] < k + 1 /\ n \in Go => g[next[n]] = f[next[n]]
      <3>1. \A n \in N : rank[n] < k + 1 /\ n \in Go => rank[next[n]] < k /\ next[n] \in N
        OBVIOUS
      <3> HIDE DEF g
      <3> QED
        BY <2>4, <3>1
    <2>6. Rec(g, k + 1)
      <3>1. \A n \in N : (IF rank[n] < k + 1 THEN IF n \in Go THEN piece[n] \o f[next[n]] ELSE <<>> ELSE <<>>)
                         = (IF rank[n] < k + 1 THEN IF n \in Go THEN piece[n] \o g[next[n]] ELSE <<>> ELSE <<>>)
        <4> HIDE DEF g
        <4> QED
          BY <2>5
      <3>2. g = [n \in N |-> IF rank[n] < k + 1 THEN IF n \in Go THEN piece[n] \o f[next[n]] ELSE <<>> ELSE <<>>]
        OBVIOUS
      <3> HIDE DEF g
      <3> QED
        BY <3>1, <3>2
    <2> HIDE DEF g
    <2>7. Begun(k + 1)
      BY <2>6 DEF Begun
    <2> QED
      BY <2>7
  <1>3. \A k \in Nat : k \in T
    <2> HIDE DEF T
    <2> QED
      BY <1>1, <1>2, Induction
  <1>4. Begun(b + 1)
    BY <1>3
  <1>5. PICK f : Rec(f, b + 1)
    BY <1>4 DEF Begun
  <1>6. \A n \in N : rank[n] < b + 1
    OBVIOUS
  <1>7. Walk(f, N, Go, piece, next)
    BY <1>5, <1>6 DEF Walk
  <1> QED
    BY <1>7

-----------------------------------------------------------------------------
(* The list.                                                                 *)

NodeType == [val : Int, prev : Int, next : Int]

(* Node n leads to the next value that has a node. *)
Linked(ld, n) ==
  /\ ld[n].next \in DOMAIN ld /\ ld[n].val < ld[ld[n].next].val /\ ld[ld[n].next].prev = n
  /\ \A m \in DOMAIN ld : ld[m].val <= ld[n].val \/ ld[m].val >= ld[ld[n].next].val
Backed(ld, n) == ld[n].prev \in DOMAIN ld \ {2} /\ ld[ld[n].prev].next = n

ListRight(ld) ==
  /\ ld \in Seq(NodeType) /\ Len(ld) >= 2 /\ ld[1].val = min0 - 1 /\ ld[2].val = max0
  /\ \A n \in DOMAIN ld : ld[n].val \in min0 - 1 .. max0
  /\ \A n \in DOMAIN ld \ {2} : Linked(ld, n)
  /\ \A n \in DOMAIN ld \ {1} : Backed(ld, n)
  /\ \A m, n \in DOMAIN ld : ld[m].val = ld[n].val => m = n

LEMMA ListFacts ==
  ASSUME BoundsRight, NEW ld, ListRight(ld)
  PROVE  /\ Len(ld) \in Nat /\ DOMAIN ld = 1 .. Len(ld) /\ 1 \in DOMAIN ld /\ 2 \in DOMAIN ld
         /\ \A n \in DOMAIN ld : ld[n].val \in Int /\ ld[n].val >= min0 - 1 /\ ld[n].val <= max0 /\ n \in Nat /\ n > 0
         /\ \A n \in DOMAIN ld : ld[n] \in NodeType
  <1>1. Len(ld) \in Nat /\ DOMAIN ld = 1 .. Len(ld) /\ \A n \in DOMAIN ld : ld[n] \in NodeType
    BY DEF ListRight
  <1> QED
    BY <1>1 DEF ListRight, BoundsRight

(* The list with a node of w more, before node ni. *)
Longer(ld, ni, w) ==
  [Append(ld, [val |-> w, prev |-> ld[ni].prev, next |-> ni]) EXCEPT ![ni].prev = Len(ld) + 1, ![ld[ni].prev].next = Len(ld) + 1]

(* What it looks like: new is ld with the node mi more. *)
Lengthened(ld, ni, w, new, mi, before) ==
  /\ new \in Seq(NodeType) /\ Len(new) = mi /\ DOMAIN new = DOMAIN ld \cup {mi} /\ mi \notin DOMAIN ld
  /\ before \in DOMAIN ld \ {2} /\ before # ni
  /\ new[mi] = [val |-> w, prev |-> before, next |-> ni]
  /\ \A k \in DOMAIN ld : /\ new[k].val = ld[k].val
                          /\ new[k].prev = IF k = ni THEN mi ELSE ld[k].prev
                          /\ new[k].next = IF k = before THEN mi ELSE ld[k].next

LEMMA LongerShape ==
  ASSUME BoundsRight, NEW ld, ListRight(ld), NEW ni \in DOMAIN ld \ {1}, NEW w \in Int,
         NEW mi, mi = Len(ld) + 1, NEW before, before = ld[ni].prev
  PROVE  Lengthened(ld, ni, w, Longer(ld, ni, w), mi, before)
  <1> DEFINE node == [val |-> w, prev |-> before, next |-> ni]
             more == Append(ld, node)
             one == [more EXCEPT ![ni] = [more[ni] EXCEPT !.prev = mi]]
             two == [one EXCEPT ![before] = [one[before] EXCEPT !.next = mi]]
  <1>1. /\ Len(ld) \in Nat /\ DOMAIN ld = 1 .. Len(ld) /\ ld \in Seq(NodeType)
        /\ \A n \in DOMAIN ld : ld[n] \in NodeType /\ ld[n].val \in Int /\ n \in Nat
    BY ListFacts DEF ListRight
  <1>2. before \in DOMAIN ld \ {2} /\ ld[before].next = ni /\ Linked(ld, before)
    BY DEF ListRight, Backed
  <1>3. before # ni
    BY <1>1, <1>2 DEF Linked
  <1>4. node \in NodeType /\ mi \in Int /\ mi \notin DOMAIN ld
    BY <1>1, <1>2 DEF NodeType
  <1>5. Longer(ld, ni, w) = two
    BY Zenon DEF Longer
  <1> HIDE DEF node
  <1>6. /\ more \in Seq(NodeType) /\ Len(more) = mi /\ more[mi] = node /\ DOMAIN more = 1 .. mi
        /\ \A k \in DOMAIN ld : more[k] = ld[k]
    BY <1>1, <1>4
  <1> HIDE DEF more
  <1>7. mi \in Nat /\ mi = Len(ld) + 1 /\ ni \in 1 .. mi /\ before \in 1 .. mi /\ DOMAIN ld = 1 .. mi - 1
    BY <1>1, <1>2
  <1>8. \A r \in NodeType : /\ [r EXCEPT !.prev = mi] \in NodeType /\ [r EXCEPT !.next = mi] \in NodeType
                            /\ [r EXCEPT !.prev = mi].val = r.val /\ [r EXCEPT !.prev = mi].prev = mi /\ [r EXCEPT !.prev = mi].next = r.next
                            /\ [r EXCEPT !.next = mi].val = r.val /\ [r EXCEPT !.next = mi].next = mi /\ [r EXCEPT !.next = mi].prev = r.prev
    BY <1>7 DEF NodeType
  <1>9. more[ni] \in NodeType
    BY <1>6, <1>7
  <1>10. one \in Seq(NodeType) /\ Len(one) = mi /\ \A k \in 1 .. mi : one[k] = IF k = ni THEN [more[ni] EXCEPT !.prev = mi] ELSE more[k]
    <2>1. [more[ni] EXCEPT !.prev = mi] \in NodeType
      BY <1>8, <1>9
    <2> QED
      BY <1>6, <1>7, <2>1, ExceptSeq
  <1> HIDE DEF one
  <1>11. one[before] \in NodeType
    BY <1>7, <1>10
  <1>12. two \in Seq(NodeType) /\ Len(two) = mi /\ \A k \in 1 .. mi : two[k] = IF k = before THEN [one[before] EXCEPT !.next = mi] ELSE one[k]
    <2>1. [one[before] EXCEPT !.next = mi] \in NodeType
      BY <1>8, <1>11
    <2> QED
      BY <1>7, <1>10, <2>1, ExceptSeq
  <1> HIDE DEF two
  <1>13. DOMAIN two = DOMAIN ld \cup {mi}
    BY <1>7, <1>12
  <1>14. two[mi] = node
    <2>1. mi # before /\ mi # ni /\ mi \in 1 .. mi
      BY <1>2, <1>4, <1>7
    <2> QED
      BY <2>1, <1>6, <1>10, <1>12
  <1>15. ASSUME NEW k \in DOMAIN ld
         PROVE  /\ two[k].val = ld[k].val
                /\ two[k].prev = IF k = ni THEN mi ELSE ld[k].prev
                /\ two[k].next = IF k = before THEN mi ELSE ld[k].next
    <2>1. k \in 1 .. mi /\ ld[k] \in NodeType /\ more[k] = ld[k] /\ more[ni] = ld[ni] /\ ld[ni] \in NodeType
      BY <1>1, <1>6, <1>7
    <2>2. CASE k = before
      <3>1. one[k] = ld[k]
        BY <1>3, <1>10, <2>1, <2>2
      <3>2. two[k] = [ld[k] EXCEPT !.next = mi]
        BY <1>12, <2>1, <2>2, <3>1
      <3> QED
        BY <1>3, <1>8, <2>1, <2>2, <3>2
    <2>3. CASE k = ni
      <3>1. two[k] = [ld[k] EXCEPT !.prev = mi]
        BY <1>3, <1>10, <1>12, <2>1, <2>3
      <3> QED
        BY <1>3, <1>8, <2>1, <2>3, <3>1
    <2>4. CASE k # before /\ k # ni
      BY <1>10, <1>12, <2>1, <2>4
    <2> QED
      BY <2>2, <2>3, <2>4
  <1> QED
    BY <1>2, <1>3, <1>4, <1>5, <1>12, <1>13, <1>14, <1>15 DEF node, Lengthened

-----------------------------------------------------------------------------
(* Literals, and what they say when the list is ld.                          *)

Wide == Int \X BOOLEAN
LitOf(ld) == ({0} \cup DOMAIN ld) \X BOOLEAN
Claims(ld, l, d) == IF l[1] > 0 THEN (d > ld[l[1]].val) = l[2] ELSE l[2]

LEMMA LitShape ==
  ASSUME NEW m, NEW n
  PROVE  /\ (ge(m) = ge(n) <=> m = n) /\ (le(m) = le(n) <=> m = n) /\ ge(m) # le(n)
         /\ (ge(m) = valLit <=> m = 0) /\ le(m) # valLit
         /\ neg(ge(m)) = le(m) /\ neg(le(m)) = ge(m) /\ neg(valLit) = le(0)
  <1>1. neg(<<m, TRUE>>) = <<m, FALSE>> /\ neg(<<m, FALSE>>) = <<m, TRUE>> /\ neg(<<0, TRUE>>) = <<0, FALSE>>
    BY Zenon DEF neg
  <1>2. ge(m) # le(n) /\ le(m) # valLit
    BY DEF ge, le, valLit
  <1> QED
    BY <1>1, <1>2 DEF ge, le, valLit

LEMMA LitType ==
  ASSUME NEW ld, NEW n \in DOMAIN ld, DOMAIN ld \subseteq Int
  PROVE  /\ ge(n) \in LitOf(ld) /\ le(n) \in LitOf(ld) /\ valLit \in LitOf(ld)
         /\ ge(n) \in Wide /\ le(n) \in Wide /\ valLit \in Wide /\ Constant(FALSE) \in Wide
  <1>1. n \in Int /\ 0 \in Int /\ -1 \in Int /\ n \in {0} \cup DOMAIN ld
    OBVIOUS
  <1>2. ge(n) \in LitOf(ld) /\ le(n) \in LitOf(ld) /\ valLit \in LitOf(ld)
    BY <1>1, Zenon DEF ge, le, valLit, LitOf
  <1>3. ge(n) \in Wide /\ le(n) \in Wide /\ valLit \in Wide /\ Constant(FALSE) \in Wide
    BY <1>1, Zenon DEF ge, le, valLit, Constant, Wide
  <1> QED
    BY <1>2, <1>3

LEMMA LitClaims ==
  ASSUME NEW ld, NEW n \in Int, n > 0, NEW d
  PROVE  /\ Claims(ld, ge(n), d) <=> d > ld[n].val
         /\ Claims(ld, le(n), d) <=> ~ (d > ld[n].val)
  <1>1. (d > ld[n].val) \in BOOLEAN
    OBVIOUS
  <1>2. /\ Claims(ld, <<n, TRUE>>, d) <=> ((d > ld[n].val) = TRUE)
        /\ Claims(ld, <<n, FALSE>>, d) <=> ((d > ld[n].val) = FALSE)
    BY Zenon DEF Claims
  <1> QED
    BY <1>1, <1>2, Zenon DEF ge, le

-----------------------------------------------------------------------------
(* What may be enqueued when the literals A are true, and sequences of it    *)
(* after which those of B are.                                               *)

Entry == [lit : Wide, reason : SUBSET Wide]
Lits(s) == {s[i].lit : i \in DOMAIN s}
Before(A, s, i) == A \cup {s[j].lit : j \in 1 .. i - 1}

Left(ld, r) == {d \in Value : ~ \E l \in r : Claims(ld, l, d)}
Explains(ld, r, l, A) ==
  r # {} /\ r # Given => /\ \A q \in r : neg(q) \in A
                         /\ IF l = valLit THEN Cardinality(Left(ld, r)) = 1
                            ELSE \A d \in Value : \E q \in r \cup {l} : Claims(ld, q, d)
May(ld, e, A) ==
  /\ e.lit \in LitOf(ld) /\ e.reason \subseteq LitOf(ld) \cup Given
  /\ e.lit \notin A /\ neg(e.lit) \notin A /\ Explains(ld, e.reason, e.lit, A)

Enqueues(ld, A, s, B) ==
  /\ s \in Seq(Entry) /\ B = A \cup Lits(s)
  /\ \A i \in DOMAIN s : May(ld, s[i], Before(A, s, i))

LEMMA EnqueueNone ==
  ASSUME NEW ld, NEW A
  PROVE  Enqueues(ld, A, <<>>, A)
  BY DEF Enqueues, Lits

LEMMA EnqueueOne ==
  ASSUME NEW ld, NEW A, NEW e \in Entry, May(ld, e, A)
  PROVE  Enqueues(ld, A, <<e>>, A \cup {e.lit})
  <1>1. <<e>> \in Seq(Entry) /\ DOMAIN <<e>> = {1} /\ <<e>>[1] = e
    OBVIOUS
  <1>2. Lits(<<e>>) = {e.lit}
    BY <1>1 DEF Lits
  <1>3. Before(A, <<e>>, 1) = A
    BY DEF Before
  <1> QED
    BY <1>1, <1>2, <1>3 DEF Enqueues

LEMMA EnqueueThen ==
  ASSUME NEW ld, NEW A, NEW B, NEW C, NEW s, NEW t, Enqueues(ld, A, s, B), Enqueues(ld, B, t, C)
  PROVE  Enqueues(ld, A, s \o t, C)
  <1> DEFINE u == s \o t
  <1>1. /\ s \in Seq(Entry) /\ t \in Seq(Entry) /\ u \in Seq(Entry)
        /\ Len(s) \in Nat /\ Len(t) \in Nat /\ Len(u) = Len(s) + Len(t)
        /\ DOMAIN s = 1 .. Len(s) /\ DOMAIN t = 1 .. Len(t) /\ DOMAIN u = 1 .. Len(u)
        /\ \A i \in 1 .. Len(s) : u[i] = s[i]
        /\ \A i \in 1 .. Len(t) : u[Len(s) + i] = t[i]
    BY DEF Enqueues
  <1> DEFINE m == Len(s)
             n == Len(t)
  <1> HIDE DEF u, m, n
  <1>2. /\ m \in Nat /\ n \in Nat /\ DOMAIN s = 1 .. m /\ DOMAIN t = 1 .. n /\ DOMAIN u = 1 .. m + n
        /\ \A i \in 1 .. m : u[i] = s[i]
        /\ \A i \in 1 .. n : u[m + i] = t[i]
    BY <1>1 DEF m, n
  <1>3. \A i \in 1 .. m + n : i \in 1 .. m \/ (i - m \in 1 .. n /\ m + (i - m) = i)
    BY <1>2
  <1>4. \A i \in 1 .. n : m + i \in 1 .. m + n
    BY <1>2
  <1>5. \A i \in 1 .. m : i \in 1 .. m + n
    BY <1>2
  <1>6. Lits(u) = Lits(s) \cup Lits(t)
    <2>1. ASSUME NEW l \in Lits(u) PROVE l \in Lits(s) \cup Lits(t)
      <3>1. PICK i \in 1 .. m + n : l = u[i].lit
        BY <1>2 DEF Lits
      <3>2. CASE i \in 1 .. m
        BY <3>1, <3>2, <1>2 DEF Lits
      <3>3. CASE i - m \in 1 .. n /\ m + (i - m) = i
        BY <3>1, <3>3, <1>2 DEF Lits
      <3> QED
        BY <3>2, <3>3, <1>3
    <2>2. ASSUME NEW l \in Lits(s) PROVE l \in Lits(u)
      BY <1>2, <1>5 DEF Lits
    <2>3. ASSUME NEW l \in Lits(t) PROVE l \in Lits(u)
      <3>1. PICK i \in 1 .. n : l = t[i].lit
        BY <1>2 DEF Lits
      <3>2. m + i \in 1 .. m + n /\ u[m + i] = t[i]
        BY <1>2, <1>4
      <3> QED
        BY <3>1, <3>2, <1>2 DEF Lits
    <2> QED
      BY <2>1, <2>2, <2>3
  <1>7. ASSUME NEW i \in 1 .. m + n PROVE May(ld, u[i], Before(A, u, i))
    <2>1. CASE i \in 1 .. m
      <3>1. \A j \in 1 .. i - 1 : j \in 1 .. m
        BY <2>1, <1>2
      <3>2. Before(A, u, i) = Before(A, s, i)
        BY <3>1, <1>2 DEF Before
      <3> QED
        BY <3>2, <2>1, <1>2 DEF Enqueues
    <2>2. CASE i - m \in 1 .. n /\ m + (i - m) = i
      <3>1. \A j \in 1 .. i - 1 : j \in 1 .. m \/ (j - m \in 1 .. (i - m) - 1 /\ j - m \in 1 .. n /\ m + (j - m) = j)
        BY <2>2, <1>2
      <3>2. \A j \in 1 .. (i - m) - 1 : m + j \in 1 .. i - 1 /\ j \in 1 .. n
        BY <2>2, <1>2
      <3>3. \A j \in 1 .. m : j \in 1 .. i - 1
        BY <2>2, <1>2
      <3>4. Before(A, u, i) = Before(B, t, i - m)
        <4>1. ASSUME NEW l \in Before(A, u, i) PROVE l \in Before(B, t, i - m)
          <5>1. CASE l \in A
            BY <5>1 DEF Before, Enqueues
          <5>2. ASSUME NEW j \in 1 .. i - 1, l = u[j].lit PROVE l \in Before(B, t, i - m)
            <6>1. CASE j \in 1 .. m
              BY <6>1, <5>2, <1>2 DEF Before, Enqueues, Lits
            <6>2. CASE j - m \in 1 .. (i - m) - 1 /\ j - m \in 1 .. n /\ m + (j - m) = j
              BY <6>2, <5>2, <1>2 DEF Before
            <6> QED
              BY <6>1, <6>2, <3>1
          <5> QED
            BY <5>1, <5>2 DEF Before
        <4>2. ASSUME NEW l \in Before(B, t, i - m) PROVE l \in Before(A, u, i)
          <5>1. CASE l \in A
            BY <5>1 DEF Before
          <5>2. CASE l \in Lits(s)
            <6>1. PICK j \in 1 .. m : l = s[j].lit
              BY <5>2, <1>2 DEF Lits
            <6> QED
              BY <6>1, <3>3, <1>2 DEF Before
          <5>3. ASSUME NEW j \in 1 .. (i - m) - 1, l = t[j].lit PROVE l \in Before(A, u, i)
            <6>1. m + j \in 1 .. i - 1 /\ u[m + j] = t[j]
              BY <3>2, <1>2
            <6> QED
              BY <6>1, <5>3 DEF Before
          <5>4. l \in A \/ l \in Lits(s) \/ \E j \in 1 .. (i - m) - 1 : l = t[j].lit
            BY DEF Before, Enqueues
          <5> QED
            BY <5>1, <5>2, <5>3, <5>4
        <4> QED
          BY <4>1, <4>2
      <3>5. u[i] = t[i - m]
        BY <2>2, <1>2
      <3> QED
        BY <3>4, <3>5, <2>2, <1>2 DEF Enqueues
    <2> QED
      BY <2>1, <2>2, <1>3
  <1>8. u \in Seq(Entry) /\ C = A \cup Lits(u)
    BY <1>1, <1>6 DEF Enqueues
  <1>9. Enqueues(ld, A, u, C)
    BY <1>7, <1>8, <1>2 DEF Enqueues
  <1> QED
    BY <1>9 DEF u

-----------------------------------------------------------------------------
(* Beginnings of sequences.                                                  *)

LEMMA PrefixLonger ==
  ASSUME NEW X, NEW s \in Seq(X), NEW t \in Seq(X), NEW n \in 0 .. Len(s)
  PROVE  SubSeq(s \o t, 1, n) = SubSeq(s, 1, n)
  <1>1. CASE n = 0
    <2>1. SubSeq(s \o t, 1, 0) = <<>> /\ SubSeq(s, 1, 0) = <<>>
      BY SubSeqEmpty
    <2> QED
      BY <1>1, <2>1
  <1>2. CASE n # 0
    <2>1. n \in 1 .. Len(s) /\ 1 \in 1 .. Len(s)
      BY <1>2
    <2> QED
      BY <2>1, SubSeqOfConcat1
  <1> QED
    BY <1>1, <1>2

LEMMA PrefixOfPrefix ==
  ASSUME NEW X, NEW s \in Seq(X), NEW n \in 0 .. Len(s), NEW m \in 0 .. n
  PROVE  SubSeq(SubSeq(s, 1, n), 1, m) = SubSeq(s, 1, m)
  <1>1. CASE m = 0
    <2>1. SubSeq(SubSeq(s, 1, n), 1, 0) = <<>> /\ SubSeq(s, 1, 0) = <<>>
      BY SubSeqEmpty
    <2> QED
      BY <1>1, <2>1
  <1>2. CASE m # 0
    <2>1. /\ n \in 1 .. Len(s) /\ 1 \in 1 .. Len(s) /\ 1 \in 1 .. n - 1 + 1 /\ m \in 1 .. n - 1 + 1
          /\ 1 + 1 - 1 = 1 /\ 1 + m - 1 = m
      BY <1>2
    <2>2. SubSeq(SubSeq(s, 1, n), 1, m) = SubSeq(s, 1 + 1 - 1, 1 + m - 1)
      BY <2>1, SubSeqOfSubSeq
    <2> QED
      BY <2>1, <2>2
  <1> QED
    BY <1>1, <1>2

LEMMA PrefixType ==
  ASSUME NEW X, NEW s \in Seq(X), NEW n \in 0 .. Len(s)
  PROVE  /\ SubSeq(s, 1, n) \in Seq(X) /\ Len(SubSeq(s, 1, n)) = n
         /\ \A i \in 1 .. n : SubSeq(s, 1, n)[i] = s[i]
  <1>1. \A i \in 1 .. n : s[i] \in X
    OBVIOUS
  <1> QED
    BY <1>1, SubSeqProperties

-----------------------------------------------------------------------------
(* What a walk puts together can be enqueued when each piece can.            *)

(* Where the walk is in S, the piece leads from the literals at one place to *)
(* those at the next, and it ends with those of B.                           *)
Leads(ld, S, Go, piece, next, A, B) ==
  /\ \A n \in S \cap Go : next[n] \in S
  /\ \A n \in S : IF n \in Go THEN Enqueues(ld, A[n], piece[n], A[next[n]]) ELSE A[n] = B
Falls(N, rank, Go, next) == rank \in [N -> Nat] /\ \A n \in Go : next[n] \in N /\ rank[next[n]] < rank[n]

LEMMA WalkEnqueues ==
  ASSUME NEW ld, NEW N, NEW rank, NEW Go \in SUBSET N, NEW piece, NEW next, Falls(N, rank, Go, next),
         NEW f, Walk(f, N, Go, piece, next), NEW S \in SUBSET N, NEW A, NEW B, Leads(ld, S, Go, piece, next, A, B),
         NEW k \in S
  PROVE  Enqueues(ld, A[k], f[k], B)
  <1> DEFINE T == {n \in N : n \in S => Enqueues(ld, A[n], f[n], B)}
  <1>0. /\ rank \in [N -> Nat] /\ \A n \in Go : next[n] \in N /\ rank[next[n]] < rank[n]
        /\ \A n \in S \cap Go : next[n] \in S
        /\ \A n \in S : IF n \in Go THEN Enqueues(ld, A[n], piece[n], A[next[n]]) ELSE A[n] = B
    BY DEF Falls, Leads
  <1>1. \A n \in N : f[n] = IF n \in Go THEN piece[n] \o f[next[n]] ELSE <<>>
    <2>1. f = [n \in N |-> IF n \in Go THEN piece[n] \o f[next[n]] ELSE <<>>]
      BY DEF Walk
    <2> QED
      BY <2>1
  <1>2. ASSUME NEW n \in N, \A m \in N : rank[m] < rank[n] => m \in T PROVE n \in T
    <2> SUFFICES ASSUME n \in S PROVE Enqueues(ld, A[n], f[n], B)
      OBVIOUS
    <2>1. CASE n \in Go
      <3>1. next[n] \in T /\ next[n] \in S
        BY <1>0, <1>2, <2>1
      <3>2. Enqueues(ld, A[next[n]], f[next[n]], B)
        BY <3>1
      <3>3. Enqueues(ld, A[n], piece[n], A[next[n]]) /\ f[n] = piece[n] \o f[next[n]]
        BY <1>0, <1>1, <2>1
      <3> QED
        BY <3>2, <3>3, EnqueueThen
    <2>2. CASE n \notin Go
      <3>1. f[n] = <<>> /\ A[n] = B
        BY <1>0, <1>1, <2>2
      <3> QED
        BY <3>1, EnqueueNone
    <2> QED
      BY <2>1, <2>2
  <1>3. N \subseteq T
    <2> HIDE DEF T
    <2> QED
      BY <1>0, <1>2, Descend
  <1> QED
    BY <1>3

-----------------------------------------------------------------------------
(* The list keeps its order when a node is put where its value belongs.      *)

LEMMA LongerRight ==
  ASSUME BoundsRight, NEW ld, ListRight(ld), NEW ni \in DOMAIN ld \ {1}, NEW w \in Int,
         ld[ld[ni].prev].val < w, w < ld[ni].val
  PROVE  ListRight(Longer(ld, ni, w))
  <1> DEFINE new == Longer(ld, ni, w)
             mi == Len(ld) + 1
             before == ld[ni].prev
             N == DOMAIN ld
  <1>1. /\ new \in Seq(NodeType) /\ Len(new) = mi /\ DOMAIN new = N \cup {mi} /\ mi \notin N
        /\ before \in N \ {2} /\ before # ni
        /\ new[mi] = [val |-> w, prev |-> before, next |-> ni]
        /\ \A k \in N : /\ new[k].val = ld[k].val
                        /\ new[k].prev = IF k = ni THEN mi ELSE ld[k].prev
                        /\ new[k].next = IF k = before THEN mi ELSE ld[k].next
    <2>1. mi = Len(ld) + 1 /\ before = ld[ni].prev
      OBVIOUS
    <2> HIDE DEF mi, before
    <2>2. Lengthened(ld, ni, w, new, mi, before)
      BY <2>1, LongerShape
    <2> HIDE DEF new
    <2> QED
      BY <2>2 DEF Lengthened
  <1>2. /\ Len(ld) \in Nat /\ Len(ld) >= 2 /\ 1 \in N /\ 2 \in N /\ ld[1].val = min0 - 1 /\ ld[2].val = max0
        /\ \A n \in N : ld[n].val \in Int /\ ld[n].val \in min0 - 1 .. max0
        /\ min0 \in Int /\ max0 \in Int
    BY ListFacts DEF ListRight, BoundsRight
  <1>3. /\ \A n \in N \ {2} : Linked(ld, n)
        /\ \A n \in N \ {1} : Backed(ld, n)
        /\ \A m, n \in N : ld[m].val = ld[n].val => m = n
    BY DEF ListRight
  <1>4. ld[before].next = ni /\ Linked(ld, before)
    BY <1>1, <1>3 DEF Backed
  <1>5. new[mi].val = w /\ new[mi].prev = before /\ new[mi].next = ni /\ ni \in N
    BY <1>1
  <1>6. \A k \in N : ld[k].val <= ld[before].val \/ ld[k].val >= ld[ni].val
    BY <1>4 DEF Linked
  <1> HIDE DEF new, mi, before
  <1>7. ld[before].val < w /\ w < ld[ni].val /\ ld[before].val \in Int /\ ld[ni].val \in Int
    BY <1>1, <1>2, <1>5 DEF before
  <1>8. \A n \in N \cup {mi} : new[n].val \in min0 - 1 .. max0 /\ new[n].val \in Int
    <2>1. w \in min0 - 1 .. max0
      BY <1>1, <1>2, <1>5, <1>7
    <2> QED
      BY <1>1, <1>2, <1>5, <2>1
  <1>9. ASSUME NEW n \in (N \cup {mi}) \ {2} PROVE Linked(new, n)
    <2>1. CASE n = mi
      <3>1. new[n].next = ni /\ new[ni].val = ld[ni].val /\ new[ni].prev = mi
        BY <1>1, <1>5, <2>1
      <3>2. \A m \in N \cup {mi} : new[m].val <= w \/ new[m].val >= ld[ni].val
        <4>1. ASSUME NEW m \in N PROVE new[m].val <= w \/ new[m].val >= ld[ni].val
          <5>1. (ld[m].val <= ld[before].val \/ ld[m].val >= ld[ni].val) /\ ld[m].val \in Int /\ new[m].val = ld[m].val
            BY <1>1, <1>2, <1>6
          <5> QED
            BY <5>1, <1>7
        <4> QED
          BY <1>5, <4>1
      <3> QED
        BY <1>1, <1>5, <1>7, <2>1, <3>1, <3>2 DEF Linked
    <2>2. CASE n = before
      <3>1. new[n].next = mi /\ new[n].val = ld[before].val /\ new[mi].prev = n
        BY <1>1, <1>5, <2>2
      <3>2. \A m \in N \cup {mi} : new[m].val <= ld[before].val \/ new[m].val >= w
        <4>1. ASSUME NEW m \in N PROVE new[m].val <= ld[before].val \/ new[m].val >= w
          <5>1. (ld[m].val <= ld[before].val \/ ld[m].val >= ld[ni].val) /\ ld[m].val \in Int /\ new[m].val = ld[m].val
            BY <1>1, <1>2, <1>6
          <5> QED
            BY <5>1, <1>7
        <4> QED
          BY <1>5, <4>1
      <3> QED
        BY <1>1, <1>5, <1>7, <2>2, <3>1, <3>2 DEF Linked
    <2>3. CASE n \in N /\ n # before
      <3> DEFINE q == ld[n].next
      <3>1. /\ q \in N /\ ld[n].val < ld[q].val /\ ld[q].prev = n
            /\ \A m \in N : ld[m].val <= ld[n].val \/ ld[m].val >= ld[q].val
        BY <1>3, <2>3 DEF Linked
      <3>2. q # ni
        BY <2>3, <3>1 DEF before
      <3>3. new[n].next = q /\ new[n].val = ld[n].val /\ new[q].val = ld[q].val /\ new[q].prev = n
        BY <1>1, <2>3, <3>1, <3>2
      <3>4. w <= ld[n].val \/ w >= ld[q].val
        <4>1. ld[n].val <= ld[before].val \/ ld[n].val >= ld[ni].val
          BY <1>6, <2>3
        <4>2. ld[n].val # ld[before].val
          BY <1>1, <1>3, <2>3
        <4>3. ld[before].val <= ld[n].val \/ ld[before].val >= ld[q].val
          BY <1>1, <3>1
        <4>4. ld[n].val \in Int /\ ld[q].val \in Int
          BY <1>2, <2>3, <3>1
        <4> QED
          BY <4>1, <4>2, <4>3, <4>4, <1>7
      <3> HIDE DEF q
      <3>5. \A m \in N \cup {mi} : new[m].val <= ld[n].val \/ new[m].val >= ld[q].val
        BY <1>1, <1>5, <3>1, <3>4
      <3> QED
        BY <1>1, <3>1, <3>3, <3>5 DEF Linked
    <2> QED
      BY <2>1, <2>2, <2>3
  <1>10. ASSUME NEW n \in (N \cup {mi}) \ {1} PROVE Backed(new, n)
    <2>0. before # 2 /\ mi # 2 /\ before # mi
      BY <1>1, <1>2
    <2>1. CASE n = mi
      BY <1>1, <1>5, <2>0, <2>1 DEF Backed
    <2>2. CASE n = ni
      BY <1>1, <1>5, <2>0, <2>2 DEF Backed
    <2>3. CASE n \in N /\ n # ni
      <3> DEFINE p == ld[n].prev
      <3>1. p \in N \ {2} /\ ld[p].next = n
        BY <1>3, <2>3 DEF Backed
      <3>2. p # before
        BY <1>4, <2>3, <3>1
      <3>3. new[n].prev = p /\ new[p].next = n
        BY <1>1, <2>3, <3>1, <3>2
      <3> QED
        BY <1>1, <3>1, <3>3 DEF Backed
    <2> QED
      BY <2>1, <2>2, <2>3
  <1>11. ASSUME NEW m \in N \cup {mi}, NEW n \in N \cup {mi}, new[m].val = new[n].val PROVE m = n
    <2>1. \A k \in N : ld[k].val # w
      BY <1>2, <1>6, <1>7, SMTT(30)
    <2> QED
      BY <1>1, <1>3, <1>5, <1>11, <2>1
  <1>12. new[1].val = min0 - 1 /\ new[2].val = max0 /\ Len(new) >= 2
    <2>1. new[1].val = ld[1].val /\ new[2].val = ld[2].val
      BY <1>1, <1>2
    <2> QED
      BY <1>1, <1>2, <2>1 DEF mi
  <1>13. ListRight(new)
    BY <1>1, <1>8, <1>9, <1>10, <1>11, <1>12 DEF ListRight
  <1> QED
    BY <1>13 DEF new

-----------------------------------------------------------------------------
(* The walk of getGELit.                                                     *)

Climb(f, N, Go, next) == f = [n \in N |-> IF n \in Go THEN f[next[n]] ELSE n]

LEMMA ClimbExists ==
  ASSUME NEW N, NEW rank \in [N -> Nat], NEW b \in Nat, \A n \in N : rank[n] <= b,
         NEW Go \in SUBSET N, NEW next, \A n \in Go : next[n] \in N /\ rank[next[n]] < rank[n]
  PROVE  \E f : Climb(f, N, Go, next)
  <1> DEFINE Rec(f, k) == f = [n \in N |-> IF rank[n] < k THEN IF n \in Go THEN f[next[n]] ELSE n ELSE n]
             Begun(k) == \E f : Rec(f, k)
             T == {k \in Nat : Begun(k)}
  <1> HIDE DEF Begun
  <1>1. 0 \in T
    <2> DEFINE f == [n \in N |-> n]
    <2>1. \A n \in N : ~ (rank[n] < 0)
      OBVIOUS
    <2>2. Rec(f, 0)
      BY <2>1
    <2>3. Begun(0)
      BY <2>2 DEF Begun
    <2> QED
      BY <2>3
  <1>2. ASSUME NEW k \in Nat, k \in T PROVE k + 1 \in T
    <2>1. Begun(k)
      BY <1>2
    <2>2. PICK f : Rec(f, k)
      BY <2>1 DEF Begun
    <2>3. \A n \in N : f[n] = IF rank[n] < k THEN IF n \in Go THEN f[next[n]] ELSE n ELSE n
      BY <2>2
    <2> DEFINE g == [n \in N |-> IF rank[n] < k + 1 THEN IF n \in Go THEN f[next[n]] ELSE n ELSE n]
    <2>4. \A n \in N : rank[n] < k => g[n] = f[n]
      <3>1. \A n \in N : rank[n] < k => rank[n] < k + 1
        OBVIOUS
      <3> QED
        BY <2>3, <3>1
    <2>5. \A n \in N : rank[n] < k + 1 /\ n \in Go => g[next[n]] = f[next[n]]
      <3>1. \A n \in N : rank[n] < k + 1 /\ n \in Go => rank[next[n]] < k /\ next[n] \in N
        OBVIOUS
      <3> HIDE DEF g
      <3> QED
        BY <2>4, <3>1
    <2>6. Rec(g, k + 1)
      <3>1. \A n \in N : (IF rank[n] < k + 1 THEN IF n \in Go THEN f[next[n]] ELSE n ELSE n)
                         = (IF rank[n] < k + 1 THEN IF n \in Go THEN g[next[n]] ELSE n ELSE n)
        <4> HIDE DEF g
        <4> QED
          BY <2>5
      <3>2. g = [n \in N |-> IF rank[n] < k + 1 THEN IF n \in Go THEN f[next[n]] ELSE n ELSE n]
        OBVIOUS
      <3> HIDE DEF g
      <3> QED
        BY <3>1, <3>2
    <2> HIDE DEF g
    <2>7. Begun(k + 1)
      BY <2>6 DEF Begun
    <2> QED
      BY <2>7
  <1>3. \A k \in Nat : k \in T
    <2> HIDE DEF T
    <2> QED
      BY <1>1, <1>2, Induction
  <1>4. Begun(b + 1)
    BY <1>3
  <1>5. PICK f : Rec(f, b + 1)
    BY <1>4 DEF Begun
  <1>6. \A n \in N : rank[n] < b + 1
    OBVIOUS
  <1>7. Climb(f, N, Go, next)
    BY <1>5, <1>6 DEF Climb
  <1> QED
    BY <1>7

LEMMA Ranks ==
  ASSUME BoundsRight, NEW ld, ListRight(ld)
  PROVE  LET up == [n \in DOMAIN ld |-> max0 - ld[n].val]
             down == [n \in DOMAIN ld |-> ld[n].val - (min0 - 1)]
         IN /\ up \in [DOMAIN ld -> Nat] /\ down \in [DOMAIN ld -> Nat] /\ max0 - min0 + 1 \in Nat
            /\ \A n \in DOMAIN ld : up[n] <= max0 - min0 + 1 /\ down[n] <= max0 - min0 + 1
            /\ \A n \in DOMAIN ld \ {2} : ld[n].next \in DOMAIN ld /\ up[ld[n].next] < up[n]
            /\ \A n \in DOMAIN ld \ {1} : ld[n].prev \in DOMAIN ld \ {2} /\ ld[ld[n].prev].val < ld[n].val /\ down[ld[n].prev] < down[n]
  <1>1. \A n \in DOMAIN ld : ld[n].val \in Int /\ ld[n].val >= min0 - 1 /\ ld[n].val <= max0
    BY ListFacts
  <1>2. min0 \in Int /\ max0 \in Int /\ min0 <= max0
    BY DEF BoundsRight
  <1>3. \A n \in DOMAIN ld \ {2} : ld[n].next \in DOMAIN ld /\ ld[n].val < ld[ld[n].next].val
    BY DEF ListRight, Linked
  <1>4. ASSUME NEW n \in DOMAIN ld \ {1} PROVE ld[n].prev \in DOMAIN ld \ {2} /\ ld[ld[n].prev].val < ld[n].val
    <2>1. ld[n].prev \in DOMAIN ld \ {2} /\ ld[ld[n].prev].next = n
      BY DEF ListRight, Backed
    <2> QED
      BY <1>3, <2>1
  <1> QED
    BY <1>1, <1>2, <1>3, <1>4

LEMMA Reached ==
  ASSUME BoundsRight, NEW s, ListRight(s.ld), s.li \in DOMAIN s.ld, NEW w \in Int, s.ld[s.li].val <= w, w <= max0
  PROVE  /\ reached(s, w) \in DOMAIN s.ld /\ s.ld[reached(s, w)].val >= w
         /\ \A k \in DOMAIN s.ld : s.ld[k].val >= w => s.ld[k].val >= s.ld[reached(s, w)].val
  <1> DEFINE ld == s.ld
             N == DOMAIN s.ld
             rank == [n \in N |-> max0 - s.ld[n].val]
             next == [n \in N |-> s.ld[n].next]
             Go == {n \in N : s.ld[n].val < w}
             Rec(f) == f = [n \in N |-> IF s.ld[n].val < w THEN f[s.ld[n].next] ELSE n]
  <1>1. /\ rank \in [N -> Nat] /\ max0 - min0 + 1 \in Nat /\ \A n \in N : rank[n] <= max0 - min0 + 1
        /\ \A n \in N \ {2} : s.ld[n].next \in N /\ rank[s.ld[n].next] < rank[n]
    BY Ranks
  <1>2. \A n \in N : s.ld[n].val \in Int
    BY ListFacts
  <1>3. \A n \in Go : n \in N \ {2} /\ next[n] = s.ld[n].next
    BY <1>2 DEF ListRight
  <1>4. \A n \in Go : next[n] \in N /\ rank[next[n]] < rank[n]
    BY <1>1, <1>3
  <1>5. \E f : Rec(f)
    <2>1. \E f : Climb(f, N, Go, next)
      <3>1. Go \in SUBSET N
        OBVIOUS
      <3> HIDE DEF rank, next, Go
      <3> QED
        BY <1>1, <1>4, <3>1, ClimbExists
    <2>2. PICK f : Climb(f, N, Go, next)
      BY <2>1
    <2>3. \A n \in N : (IF n \in Go THEN f[next[n]] ELSE n) = (IF s.ld[n].val < w THEN f[s.ld[n].next] ELSE n)
      OBVIOUS
    <2>4. Rec(f)
      BY <2>2, <2>3 DEF Climb
    <2> QED
      BY <2>4
  <1> DEFINE f == CHOOSE f : Rec(f)
  <1>6. Rec(f)
    BY <1>5
  <1>7. reached(s, w) = f[s.li]
    BY DEF reached
  <1> HIDE DEF f
  <1>8. \A n \in N : f[n] = IF n \in Go THEN f[next[n]] ELSE n
    <2>1. \A n \in N : f[n] = IF s.ld[n].val < w THEN f[s.ld[n].next] ELSE n
      BY <1>6
    <2> QED
      BY <2>1
  <1> DEFINE Top(n) == /\ f[n] \in N /\ s.ld[f[n]].val >= w
                       /\ \A k \in N : s.ld[k].val >= s.ld[n].val /\ s.ld[k].val >= w => s.ld[k].val >= s.ld[f[n]].val
             T == {n \in N : Top(n)}
  <1>9. ASSUME NEW n \in N, \A m \in N : rank[m] < rank[n] => m \in T PROVE n \in T
    <2>1. CASE n \in Go
      <3>1. next[n] \in T /\ f[n] = f[next[n]] /\ next[n] \in N /\ s.ld[n].val < w
        BY <1>4, <1>8, <1>9, <2>1
      <3>2. Top(next[n])
        BY <3>1
      <3>3. \A m \in N : s.ld[m].val <= s.ld[n].val \/ s.ld[m].val >= s.ld[next[n]].val
        BY <1>3, <2>1 DEF ListRight, Linked
      <3> HIDE DEF next
      <3>4. \A k \in N : s.ld[k].val >= w => s.ld[k].val >= s.ld[next[n]].val
        BY <1>2, <3>1, <3>3
      <3>5. Top(n)
        BY <3>1, <3>2, <3>4
      <3> QED
        BY <3>5
    <2>2. CASE n \notin Go
      <3>0. ~ (s.ld[n].val < w) /\ s.ld[n].val \in Int
        BY <1>2, <2>2
      <3>1. f[n] = n /\ s.ld[n].val >= w
        <4>1. f[n] = n
          BY <1>8, <2>2, Zenon
        <4>2. s.ld[n].val >= w
          BY <3>0
        <4> QED
          BY <4>1, <4>2
      <3>2. Top(n)
        BY <3>1
      <3> QED
        BY <3>2
    <2> QED
      BY <2>1, <2>2
  <1>10. N \subseteq T
    <2> HIDE DEF T, rank
    <2> QED
      BY <1>1, <1>9, Descend
  <1>11. Top(s.li)
    BY <1>10
  <1>12. \A k \in N : s.ld[k].val >= w => s.ld[k].val >= s.ld[s.li].val
    BY <1>2
  <1> QED
    BY <1>7, <1>11, <1>12

-----------------------------------------------------------------------------
(* What holds of the variable between two calls, and what a call does to it. *)

Events == {"C", "L", "U", "F"}
StateType == [ld : Seq(NodeType), li : Int, hi : Int, min : Int, max : Int, trail : Seq(Entry), changes : SUBSET Events]

(* The literals that say the same as the bounds. *)
Truths(ld, lo, hi) ==
  {ge(n) : n \in {k \in DOMAIN ld : ld[k].val < lo}} \cup {le(n) : n \in {k \in DOMAIN ld : ld[k].val >= hi}}
  \cup (IF lo = hi THEN {valLit} ELSE {})

Placed(ld, p) ==
  /\ p.min \in Value /\ p.max \in Value /\ p.min <= p.max
  /\ p.li \in DOMAIN ld /\ p.hi \in DOMAIN ld /\ ld[p.li].val = p.min - 1 /\ ld[p.hi].val = p.max

StateRight(s) ==
  /\ s \in StateType /\ ListRight(s.ld) /\ Placed(s.ld, s)
  /\ Enqueues(s.ld, {}, s.trail, Truths(s.ld, s.min, s.max))

(* New nodes are for values between the bounds. *)
Grows(ld, more, lo, hi) ==
  /\ DOMAIN ld \subseteq DOMAIN more /\ \A n \in DOMAIN ld : more[n].val = ld[n].val
  /\ \A n \in DOMAIN more \ DOMAIN ld : lo <= more[n].val /\ more[n].val < hi

LEMMA StateFacts ==
  ASSUME BoundsRight, NEW s, StateRight(s)
  PROVE  /\ s.min \in Int /\ s.max \in Int /\ s.min <= s.max /\ min0 <= s.min /\ s.max <= max0 /\ min0 \in Int /\ max0 \in Int
         /\ s.li \in DOMAIN s.ld /\ s.hi \in DOMAIN s.ld /\ s.ld[s.li].val = s.min - 1 /\ s.ld[s.hi].val = s.max
         /\ ListRight(s.ld) /\ s.ld \in Seq(NodeType) /\ s.trail \in Seq(Entry) /\ s.changes \in SUBSET Events
         /\ \A n \in DOMAIN s.ld : s.ld[n].val \in Int /\ n \in Int /\ n > 0
  <1>1. s.ld \in Seq(NodeType) /\ s.trail \in Seq(Entry) /\ s.changes \in SUBSET Events
    BY DEF StateRight, StateType
  <1>2. \A n \in DOMAIN s.ld : s.ld[n].val \in Int /\ n \in Int /\ n > 0
    BY ListFacts DEF StateRight
  <1> QED
    BY <1>1, <1>2 DEF StateRight, Placed, BoundsRight, Value

(* Growing the list keeps what its literals say. *)
LEMMA GrowsEnqueues ==
  ASSUME NEW ld, NEW more, NEW lo, NEW hi, Grows(ld, more, lo, hi), NEW A, NEW s, NEW B, Enqueues(ld, A, s, B)
  PROVE  Enqueues(more, A, s, B)
  <1>1. LitOf(ld) \subseteq LitOf(more)
    BY DEF Grows, LitOf
  <1>2. ASSUME NEW l \in LitOf(ld) \cup Given, NEW d PROVE Claims(more, l, d) = Claims(ld, l, d)
    <2>1. ASSUME l \in LitOf(ld), l[1] > 0 PROVE l[1] \in DOMAIN ld
      BY <2>1 DEF LitOf
    <2>2. l \in Given => ~ (l[1] > 0)
      BY DEF Given, Constant
    <2>3. l[1] > 0 => more[l[1]].val = ld[l[1]].val
      BY <2>1, <2>2 DEF Grows
    <2>4. CASE l[1] > 0
      BY <2>3, <2>4, Zenon DEF Claims
    <2>5. CASE ~ (l[1] > 0)
      BY <2>5, Zenon DEF Claims
    <2> QED
      BY <2>4, <2>5
  <1>3. ASSUME NEW i \in DOMAIN s PROVE May(more, s[i], Before(A, s, i))
    <2> DEFINE e == s[i]
               C == Before(A, s, i)
    <2>1. May(ld, e, C)
      BY DEF Enqueues
    <2> HIDE DEF e, C
    <2>2. Explains(more, e.reason, e.lit, C)
      <3> SUFFICES ASSUME e.reason # {}, e.reason # Given
                   PROVE  /\ \A q \in e.reason : neg(q) \in C
                          /\ IF e.lit = valLit THEN Cardinality(Left(more, e.reason)) = 1
                             ELSE \A d \in Value : \E q \in e.reason \cup {e.lit} : Claims(more, q, d)
        BY DEF Explains
      <3>1. /\ \A q \in e.reason : neg(q) \in C
            /\ IF e.lit = valLit THEN Cardinality(Left(ld, e.reason)) = 1
               ELSE \A d \in Value : \E q \in e.reason \cup {e.lit} : Claims(ld, q, d)
        BY <2>1 DEF May, Explains
      <3>2. e.lit \in LitOf(ld) /\ e.reason \subseteq LitOf(ld) \cup Given
        BY <2>1 DEF May
      <3>3. Left(more, e.reason) = Left(ld, e.reason)
        BY <1>2, <3>2 DEF Left
      <3>4. ASSUME NEW d, NEW q \in e.reason \cup {e.lit} PROVE Claims(more, q, d) = Claims(ld, q, d)
        BY <1>2, <3>2
      <3> QED
        BY <3>1, <3>3, <3>4
    <2> QED
      <3>1. e.lit \in LitOf(ld) /\ e.reason \subseteq LitOf(ld) \cup Given /\ e.lit \notin C /\ neg(e.lit) \notin C
        BY <2>1 DEF May
      <3>2. e.lit \in LitOf(more) /\ e.reason \subseteq LitOf(more) \cup Given
        BY <1>1, <3>1
      <3>3. May(more, e, C)
        BY <2>2, <3>1, <3>2 DEF May
      <3> QED
        BY <3>3 DEF e, C
  <1> QED
    BY <1>3 DEF Enqueues

LEMMA GrowsTruths ==
  ASSUME NEW ld, NEW more, NEW lo \in Int, NEW hi \in Int, Grows(ld, more, lo, hi),
         \A n \in DOMAIN more : more[n].val \in Int, NEW a \in Int, NEW b \in Int, a <= lo, hi <= b
  PROVE  Truths(more, a, b) = Truths(ld, a, b)
  <1>1. {k \in DOMAIN more : more[k].val < a} = {k \in DOMAIN ld : ld[k].val < a}
    BY DEF Grows
  <1>2. {k \in DOMAIN more : more[k].val >= b} = {k \in DOMAIN ld : ld[k].val >= b}
    BY DEF Grows
  <1> QED
    BY <1>1, <1>2 DEF Truths

(* A literal was asked for. *)
Looked(s, t) ==
  /\ StateRight(t) /\ Grows(s.ld, t.ld, s.min, s.max)
  /\ t.li = s.li /\ t.hi = s.hi /\ t.min = s.min /\ t.max = s.max /\ t.trail = s.trail /\ t.changes = s.changes

LEMMA LookedNone ==
  ASSUME NEW s, StateRight(s)
  PROVE  Looked(s, s)
  BY DEF Looked, Grows

LEMMA InsertedShape ==
  ASSUME NEW s \in StateType, NEW ni, NEW w, Longer(s.ld, ni, w) \in Seq(NodeType)
  PROVE  LET t == inserted(s, ni, w)
         IN /\ t \in StateType /\ t.ld = Longer(s.ld, ni, w) /\ t.li = s.li /\ t.hi = s.hi
            /\ t.min = s.min /\ t.max = s.max /\ t.trail = s.trail /\ t.changes = s.changes
  <1>1. inserted(s, ni, w) = [s EXCEPT !.ld = Longer(s.ld, ni, w)]
    BY Zenon DEF inserted, Longer
  <1>2. ASSUME NEW l \in Seq(NodeType)
        PROVE  LET t == [s EXCEPT !.ld = l]
               IN /\ t \in StateType /\ t.ld = l /\ t.li = s.li /\ t.hi = s.hi
                  /\ t.min = s.min /\ t.max = s.max /\ t.trail = s.trail /\ t.changes = s.changes
    BY DEF StateType
  <1> QED
    BY <1>1, <1>2

LEMMA Inserted ==
  ASSUME BoundsRight, NEW s, StateRight(s), NEW ni \in DOMAIN s.ld \ {1}, NEW w \in Int,
         s.min <= w, w < s.max, s.ld[s.ld[ni].prev].val < w, w < s.ld[ni].val
  PROVE  Looked(s, inserted(s, ni, w)) /\ \E n \in DOMAIN inserted(s, ni, w).ld : inserted(s, ni, w).ld[n].val = w
  <1> DEFINE t == inserted(s, ni, w)
             ld == s.ld
             new == Longer(ld, ni, w)
             mi == Len(ld) + 1
             before == ld[ni].prev
  <1>1. /\ s.min \in Int /\ s.max \in Int /\ ListRight(ld) /\ s \in StateType
        /\ s.li \in DOMAIN ld /\ s.hi \in DOMAIN ld /\ s.ld[s.li].val = s.min - 1 /\ s.ld[s.hi].val = s.max
    BY StateFacts DEF StateRight
  <1>2. ListRight(new)
    BY <1>1, LongerRight
  <1>3. Lengthened(ld, ni, w, new, mi, before)
    <2>1. mi = Len(ld) + 1 /\ before = ld[ni].prev
      OBVIOUS
    <2> HIDE DEF mi, before
    <2> QED
      BY <1>1, <2>1, LongerShape
  <1> HIDE DEF mi, before
  <1>4. /\ new \in Seq(NodeType) /\ DOMAIN new = DOMAIN ld \cup {mi} /\ new[mi].val = w
        /\ \A n \in DOMAIN ld : new[n].val = ld[n].val
    BY <1>3 DEF Lengthened
  <1>5. Grows(ld, new, s.min, s.max)
    BY <1>4 DEF Grows
  <1>6. /\ t \in StateType /\ t.ld = new /\ t.li = s.li /\ t.hi = s.hi
        /\ t.min = s.min /\ t.max = s.max /\ t.trail = s.trail /\ t.changes = s.changes
    <2>1. Longer(s.ld, ni, w) \in Seq(NodeType)
      BY <1>4
    <2>2. LET u == inserted(s, ni, w)
          IN /\ u \in StateType /\ u.ld = Longer(s.ld, ni, w) /\ u.li = s.li /\ u.hi = s.hi
             /\ u.min = s.min /\ u.max = s.max /\ u.trail = s.trail /\ u.changes = s.changes
      BY <1>1, <2>1, InsertedShape
    <2> QED
      BY <2>2
  <1> HIDE DEF t, new
  <1>7. Enqueues(new, {}, s.trail, Truths(new, s.min, s.max))
    <2>1. Enqueues(ld, {}, s.trail, Truths(ld, s.min, s.max))
      BY DEF StateRight
    <2>2. Truths(new, s.min, s.max) = Truths(ld, s.min, s.max)
      <3>1. \A n \in DOMAIN new : new[n].val \in Int
        BY <1>2, ListFacts
      <3>2. s.min <= s.min /\ s.max <= s.max
        BY <1>1
      <3> HIDE DEF ld
      <3> QED
        BY <1>1, <1>5, <3>1, <3>2, GrowsTruths
    <2> QED
      BY <2>1, <2>2, <1>5, GrowsEnqueues
  <1>8. Placed(new, s)
    BY <1>4 DEF StateRight, Placed
  <1>9. Placed(t.ld, t)
    BY <1>6, <1>8 DEF Placed
  <1>10. StateRight(t)
    BY <1>2, <1>6, <1>7, <1>9 DEF StateRight
  <1>11. Looked(s, t)
    BY <1>5, <1>6, <1>10 DEF Looked
  <1>12. mi \in DOMAIN t.ld /\ t.ld[mi].val = w
    BY <1>4, <1>6
  <1>13. Looked(s, t) /\ \E n \in DOMAIN t.ld : t.ld[n].val = w
    BY <1>11, <1>12
  <1> QED
    BY <1>13 DEF t

(* getGELit: the literal is there afterwards. *)
LEMMA WithGE ==
  ASSUME BoundsRight, NEW s, StateRight(s), NEW v \in Int, s.min <= v, v <= s.max
  PROVE  LET t == withGE(s, v)
         IN /\ Looked(s, t)
            /\ reached(t, v - 1) \in DOMAIN t.ld /\ t.ld[reached(t, v - 1)].val = v - 1
  <1> DEFINE t == withGE(s, v)
             w == v - 1
             r == reached(s, w)
  <1>1. /\ s.min \in Int /\ s.max \in Int /\ min0 <= s.min /\ s.max <= max0 /\ min0 \in Int /\ max0 \in Int
        /\ s.li \in DOMAIN s.ld /\ s.ld[s.li].val = s.min - 1 /\ ListRight(s.ld)
        /\ \A n \in DOMAIN s.ld : s.ld[n].val \in Int
    BY StateFacts
  <1>2. w \in Int /\ s.min - 1 <= w /\ w < s.max /\ w < max0 /\ w <= max0 /\ ~ (v > s.max) /\ w = v - 1
    BY <1>1
  <1> HIDE DEF w
  <1>3. /\ r \in DOMAIN s.ld /\ s.ld[r].val >= w
        /\ \A k \in DOMAIN s.ld : s.ld[k].val >= w => s.ld[k].val >= s.ld[r].val
    <2>1. s.ld[s.li].val <= w
      BY <1>1, <1>2
    <2> QED
      BY <1>1, <1>2, <2>1, Reached
  <1>4. t = IF s.ld[r].val = w THEN s ELSE inserted(s, r, w)
    BY <1>2 DEF withGE
  <1> HIDE DEF t, r
  <1>5. Looked(s, t) /\ \E n \in DOMAIN t.ld : t.ld[n].val = w
    <2>1. CASE s.ld[r].val = w
      BY <1>3, <1>4, <2>1, LookedNone
    <2>2. CASE s.ld[r].val # w
      <3>1. s.ld[r].val > w
        BY <1>1, <1>2, <1>3, <2>2
      <3>2. r # 1
        <4>1. s.ld[1].val = min0 - 1
          BY <1>1 DEF ListRight
        <4> QED
          BY <1>1, <1>2, <3>1, <4>1
      <3>3. s.ld[r].prev \in DOMAIN s.ld /\ s.ld[s.ld[r].prev].val < s.ld[r].val
        BY <1>1, <1>3, <3>2, Ranks
      <3>4. s.ld[s.ld[r].prev].val < w
        <4> DEFINE p == s.ld[r].prev
        <4> HIDE DEF p
        <4>1. p \in DOMAIN s.ld /\ s.ld[p].val < s.ld[r].val
          BY <3>3 DEF p
        <4>2. s.ld[p].val < w
          BY <1>1, <1>2, <1>3, <4>1
        <4> QED
          BY <4>2 DEF p
      <3>5. s.min <= w
        <4>1. s.min - 1 >= w => s.min - 1 >= s.ld[r].val
          BY <1>1, <1>3
        <4> QED
          BY <1>1, <1>2, <1>3, <3>1, <4>1
      <3>6. t = inserted(s, r, w)
        BY <1>4, <2>2
      <3>7. r \in DOMAIN s.ld \ {1} /\ w < s.ld[r].val
        BY <1>1, <1>2, <1>3, <3>1, <3>2
      <3> QED
        BY <1>2, <3>4, <3>5, <3>6, <3>7, Inserted
    <2> QED
      BY <2>1, <2>2
  <1>6. reached(t, w) \in DOMAIN t.ld /\ t.ld[reached(t, w)].val = w
    <2>1. StateRight(t) /\ t.min = s.min
      BY <1>5 DEF Looked
    <2>2. t.li \in DOMAIN t.ld /\ t.ld[t.li].val = s.min - 1 /\ ListRight(t.ld) /\ \A n \in DOMAIN t.ld : t.ld[n].val \in Int
      BY <2>1, StateFacts
    <2>3. t.ld[t.li].val <= w
      BY <1>2, <2>2
    <2>4. /\ reached(t, w) \in DOMAIN t.ld /\ t.ld[reached(t, w)].val >= w
          /\ \A k \in DOMAIN t.ld : t.ld[k].val >= w => t.ld[k].val >= t.ld[reached(t, w)].val
      BY <1>2, <2>2, <2>3, Reached
    <2>5. PICK n \in DOMAIN t.ld : t.ld[n].val = w
      BY <1>5
    <2>6. t.ld[n].val >= w
      BY <1>2, <2>5
    <2>7. w >= t.ld[reached(t, w)].val
      BY <2>4, <2>5, <2>6
    <2>8. t.ld[reached(t, w)].val \in Int
      BY <2>2, <2>4
    <2> QED
      BY <1>2, <2>4, <2>7, <2>8
  <1> QED
    BY <1>5, <1>6 DEF t, w

-----------------------------------------------------------------------------
(* The pieces that a call is made of.                                        *)

LEMMA OneMore ==
  ASSUME NEW ld, DOMAIN ld \subseteq Int, NEW l \in LitOf(ld), NEW r \in SUBSET (LitOf(ld) \cup Given),
         NEW A, l \notin A, neg(l) \notin A, Explains(ld, r, l, A)
  PROVE  entry(l, r) \in Entry /\ Enqueues(ld, A, <<entry(l, r)>>, A \cup {l})
  <1>1. LitOf(ld) \subseteq Wide /\ Given \subseteq Wide
    <2>1. -1 \in Int /\ 0 \in Int /\ {0} \cup DOMAIN ld \subseteq Int
      OBVIOUS
    <2>2. Constant(FALSE) \in Wide
      BY <2>1, Zenon DEF Constant, Wide
    <2>3. LitOf(ld) \subseteq Wide
      BY <2>1 DEF LitOf, Wide
    <2> QED
      BY <2>2, <2>3 DEF Given
  <1>2. entry(l, r) \in Entry /\ entry(l, r).lit = l /\ entry(l, r).reason = r
    BY <1>1 DEF entry, Entry
  <1>3. May(ld, entry(l, r), A)
    BY <1>2 DEF May
  <1> QED
    BY <1>2, <1>3, EnqueueOne

(* The literals of bounds a and b, whatever is fixed; Truths with "fixed". *)
Below(ld, a) == {ge(n) : n \in {k \in DOMAIN ld : ld[k].val < a}}
Above(ld, b) == {le(n) : n \in {k \in DOMAIN ld : ld[k].val >= b}}

LEMMA TruthsOf ==
  ASSUME NEW ld, NEW a, NEW b
  PROVE  Truths(ld, a, b) = Below(ld, a) \cup Above(ld, b) \cup (IF a = b THEN {valLit} ELSE {})
  BY DEF Truths, Below, Above

LEMMA BelowMember ==
  ASSUME NEW ld, NEW n, NEW a, NEW b
  PROVE  /\ (ge(n) \in Below(ld, a) <=> n \in DOMAIN ld /\ ld[n].val < a) /\ le(n) \notin Below(ld, a)
         /\ (le(n) \in Above(ld, b) <=> n \in DOMAIN ld /\ ld[n].val >= b) /\ ge(n) \notin Above(ld, b)
  BY LitShape DEF Below, Above

LEMMA ChannelMin ==
  ASSUME BoundsRight, NEW s, StateRight(s), NEW v \in Int, s.min < v, v <= s.max, NEW m \in DOMAIN s.ld, s.ld[m].val = v - 1
  PROVE  Enqueues(s.ld, Below(s.ld, s.min) \cup Above(s.ld, s.max) \cup {ge(m)}, channelMin(s, v, ge(m)),
                  Below(s.ld, v) \cup Above(s.ld, s.max))
  <1> DEFINE ld == s.ld
             N == DOMAIN s.ld
             rank == [n \in N |-> max0 - s.ld[n].val]
             next == [n \in N |-> s.ld[n].next]
             w == v - 1
             Go == {n \in N : s.ld[n].val < v - 1}
             e(n) == entry(ge(n), {neg(ge(m))})
             piece == [n \in N |-> <<e(n)>>]
             A == [n \in N |-> Below(s.ld, s.ld[n].val) \cup Above(s.ld, s.max) \cup {ge(m)}]
             B == Below(s.ld, v) \cup Above(s.ld, s.max)
             S == {n \in N : s.min - 1 < s.ld[n].val /\ s.ld[n].val <= v - 1}
             Rec(f) == f = [n \in N |-> IF s.ld[n].val < v - 1 THEN <<e(n)>> \o f[s.ld[n].next] ELSE <<>>]
  <1>1. /\ rank \in [N -> Nat] /\ max0 - min0 + 1 \in Nat /\ \A n \in N : rank[n] <= max0 - min0 + 1
        /\ \A n \in N \ {2} : s.ld[n].next \in N /\ rank[s.ld[n].next] < rank[n]
    BY Ranks DEF StateRight
  <1>2. /\ \A n \in N : s.ld[n].val \in Int /\ n \in Int /\ n > 0 /\ n # 0
        /\ s.min \in Int /\ s.max \in Int /\ min0 <= s.min /\ s.max <= max0 /\ min0 \in Int /\ max0 \in Int
        /\ s.li \in N /\ s.ld[s.li].val = s.min - 1 /\ ListRight(s.ld) /\ m # 0
    <2>1. \A n \in N : n > 0 => n # 0
      OBVIOUS
    <2> QED
      BY StateFacts, <2>1
  <1>3. \A n \in N : s.ld[n].val < v - 1 => /\ n \in N \ {2} /\ next[n] = s.ld[n].next /\ next[n] \in N /\ s.ld[n].val < s.ld[next[n]].val
                          /\ \A k \in N : s.ld[k].val <= s.ld[n].val \/ s.ld[k].val >= s.ld[next[n]].val
    <2>1. s.ld[2].val = max0
      BY <1>2 DEF ListRight
    <2>2. ASSUME NEW n \in N, s.ld[n].val < v - 1 PROVE n \in N \ {2} /\ Linked(s.ld, n) /\ next[n] = s.ld[n].next
      <3>1. n # 2
        BY <1>2, <2>1, <2>2
      <3> QED
        BY <1>2, <3>1 DEF ListRight
    <2> HIDE DEF next
    <2> QED
      BY <2>2 DEF Linked
  <1>4. \A n \in Go : next[n] \in N /\ rank[next[n]] < rank[n]
    BY <1>1, <1>3
  <1>5. \E f : Rec(f)
    <2>1. PICK f : Walk(f, N, Go, piece, next)
      <3>1. Go \in SUBSET N
        OBVIOUS
      <3> HIDE DEF rank, next, Go, piece
      <3> QED
        BY <1>1, <1>4, <3>1, WalkExists
    <2>2. \A n \in N : (IF n \in Go THEN piece[n] \o f[next[n]] ELSE <<>>) = (IF s.ld[n].val < v - 1 THEN <<e(n)>> \o f[s.ld[n].next] ELSE <<>>)
      OBVIOUS
    <2> HIDE DEF piece, next, Go, e
    <2>3. Rec(f)
      BY <2>1, <2>2 DEF Walk
    <2> QED
      BY <2>3
  <1> DEFINE f == CHOOSE f : Rec(f)
  <1>6. Rec(f)
    BY <1>5
  <1>7. channelMin(s, v, ge(m)) = f[s.ld[s.li].next]
    BY DEF channelMin
  <1> HIDE DEF f
  <1>8. Walk(f, N, Go, piece, next)
    <2>1. \A n \in N : (IF n \in Go THEN piece[n] \o f[next[n]] ELSE <<>>) = (IF s.ld[n].val < v - 1 THEN <<e(n)>> \o f[s.ld[n].next] ELSE <<>>)
      OBVIOUS
    <2> HIDE DEF piece, next, Go, e
    <2> QED
      BY <1>6, <2>1 DEF Walk
  <1>9. ASSUME NEW n \in N, s.ld[n].val < v - 1, s.min - 1 < s.ld[n].val
        PROVE  next[n] \in S /\ Enqueues(s.ld, A[n], piece[n], A[next[n]])
    <2> DEFINE q == next[n]
    <2>1. /\ q \in N /\ s.ld[n].val < s.ld[q].val
          /\ \A k \in N : s.ld[k].val <= s.ld[n].val \/ s.ld[k].val >= s.ld[q].val
      BY <1>3, <1>9
    <2> HIDE DEF q
    <2>2. s.ld[q].val <= v - 1
      BY <1>2, <1>9, <2>1
    <2>3. q \in S
      BY <1>2, <1>9, <2>1, <2>2
    <2> DEFINE C == Below(s.ld, s.ld[n].val) \cup Above(s.ld, s.max) \cup {ge(m)}
    <2>4. Below(s.ld, s.ld[q].val) = Below(s.ld, s.ld[n].val) \cup {ge(n)}
      <3>1. {k \in N : s.ld[k].val < s.ld[q].val} = {k \in N : s.ld[k].val < s.ld[n].val} \cup {n}
        <4>1. ASSUME NEW k \in N, s.ld[k].val < s.ld[q].val PROVE s.ld[k].val < s.ld[n].val \/ k = n
          <5>1. s.ld[k].val <= s.ld[n].val
            BY <1>2, <2>1, <4>1
          <5>2. s.ld[k].val = s.ld[n].val => k = n
            BY <1>2 DEF ListRight
          <5> QED
            BY <1>2, <5>1, <5>2
        <4>2. ASSUME NEW k \in N, s.ld[k].val < s.ld[n].val \/ k = n PROVE s.ld[k].val < s.ld[q].val
          BY <1>2, <2>1, <4>2
        <4> QED
          BY <4>1, <4>2
      <3> QED
        BY <3>1 DEF Below
    <2>5. A[q] = C \cup {ge(n)} /\ A[n] = C
      BY <2>1, <2>4
    <2>6. ge(n) \notin C /\ le(n) \notin C /\ ge(m) \in C
      <3>1. ge(n) \notin Below(s.ld, s.ld[n].val) /\ ge(n) \notin Above(s.ld, s.max)
        <4>1. ge(n) \in Below(s.ld, s.ld[n].val) <=> n \in DOMAIN s.ld /\ s.ld[n].val < s.ld[n].val
          BY BelowMember
        <4>2. ge(n) \notin Above(s.ld, s.max)
          BY BelowMember
        <4>3. ~ (s.ld[n].val < s.ld[n].val)
          BY <1>2
        <4> QED
          BY <4>1, <4>2, <4>3
      <3>2. le(n) \notin Below(s.ld, s.ld[n].val) /\ le(n) \notin Above(s.ld, s.max)
        <4>1. le(n) \in Above(s.ld, s.max) <=> n \in DOMAIN s.ld /\ s.ld[n].val >= s.max
          BY BelowMember
        <4>2. le(n) \notin Below(s.ld, s.ld[n].val)
          BY BelowMember
        <4>3. ~ (s.ld[n].val >= s.max)
          BY <1>2, <1>9
        <4> QED
          BY <4>1, <4>2, <4>3
      <3>3. ge(n) # ge(m) /\ le(n) # ge(m)
        BY <1>9, <1>2, LitShape
      <3> QED
        BY <3>1, <3>2, <3>3
    <2> HIDE DEF C
    <2>7. Explains(s.ld, {neg(ge(m))}, ge(n), C)
      <3>1. neg(ge(m)) = le(m) /\ neg(le(m)) = ge(m) /\ ge(n) # valLit
        BY <1>2, LitShape
      <3>2. ASSUME NEW d \in Value PROVE \E l \in {neg(ge(m))} \cup {ge(n)} : Claims(s.ld, l, d)
        <4>1. d \in Int
          BY <1>2 DEF Value
        <4>2. (Claims(s.ld, le(m), d) <=> ~ (d > v - 1)) /\ (Claims(s.ld, ge(n), d) <=> d > s.ld[n].val)
          <5>1. m \in Int /\ m > 0 /\ n \in Int /\ n > 0
            BY <1>2
          <5> QED
            BY <5>1, LitClaims
        <4>3. ~ (d > v - 1) \/ d > s.ld[n].val
          BY <1>2, <1>9, <4>1
        <4> QED
          BY <3>1, <4>2, <4>3
      <3> QED
        BY <2>6, <3>1, <3>2 DEF Explains
    <2>8. neg(ge(n)) = le(n) /\ {neg(ge(m))} \in SUBSET (LitOf(s.ld) \cup Given) /\ ge(n) \in LitOf(s.ld) /\ DOMAIN s.ld \subseteq Int
      <3>1. neg(ge(m)) = le(m) /\ neg(ge(n)) = le(n) /\ DOMAIN s.ld \subseteq Int
        BY <1>2, LitShape
      <3> QED
        BY <3>1, LitType
    <2>9. Enqueues(s.ld, C, <<e(n)>>, C \cup {ge(n)})
      BY <2>6, <2>7, <2>8, OneMore
    <2> QED
      BY <2>3, <2>5, <2>9 DEF q
  <1>10. \A n \in N : s.ld[n].val = v - 1 => A[n] = B
    <2>1. {k \in N : s.ld[k].val < v} = {k \in N : s.ld[k].val < v - 1} \cup {m}
      <3>1. \A k \in N : s.ld[k].val = v - 1 => k = m
        BY <1>2 DEF ListRight
      <3>2. \A k \in N : s.ld[k].val < v <=> s.ld[k].val < v - 1 \/ s.ld[k].val = v - 1
        BY <1>2
      <3> QED
        BY <3>1, <3>2
    <2>2. Below(s.ld, v) = Below(s.ld, v - 1) \cup {ge(m)}
      BY <2>1 DEF Below
    <2> QED
      BY <2>2
  <1>11. \A n \in S : IF n \in Go THEN Enqueues(s.ld, A[n], piece[n], A[next[n]]) ELSE A[n] = B
    <2> SUFFICES ASSUME NEW n \in S PROVE IF n \in Go THEN Enqueues(s.ld, A[n], piece[n], A[next[n]]) ELSE A[n] = B
      OBVIOUS
    <2>1. n \in N /\ s.min - 1 < s.ld[n].val /\ s.ld[n].val <= v - 1 /\ (n \in Go <=> s.ld[n].val < v - 1)
      OBVIOUS
    <2>2. n \notin Go => s.ld[n].val = v - 1
      BY <1>2, <2>1
    <2> HIDE DEF A, B, piece, next, Go, S
    <2> QED
      BY <1>9, <1>10, <2>1, <2>2
  <1>12. \A n \in S \cap Go : next[n] \in S
    <2>1. \A n \in S \cap Go : n \in N /\ s.ld[n].val < v - 1 /\ s.min - 1 < s.ld[n].val
      OBVIOUS
    <2> HIDE DEF next, S, Go
    <2> QED
      BY <1>9, <2>1
  <1> DEFINE k == s.ld[s.li].next
  <1>13. k \in S /\ A[k] = Below(s.ld, s.min) \cup Above(s.ld, s.max) \cup {ge(m)}
    <2>1. s.ld[s.li].val < v - 1 \/ s.ld[s.li].val = v - 1
      BY <1>2
    <2>2. s.ld[s.li].val < v - 1
      BY <1>2
    <2>3. /\ k \in N /\ s.ld[s.li].val < s.ld[k].val
          /\ \A n \in N : s.ld[n].val <= s.ld[s.li].val \/ s.ld[n].val >= s.ld[k].val
      BY <1>2, <1>3, <2>2
    <2> HIDE DEF k
    <2>4. k \in S
      BY <1>2, <2>2, <2>3
    <2>5. {n \in N : s.ld[n].val < s.min} = {n \in N : s.ld[n].val < s.ld[k].val}
      BY <1>2, <2>3
    <2>6. Below(s.ld, s.min) = Below(s.ld, s.ld[k].val)
      BY <2>5 DEF Below
    <2> QED
      BY <2>3, <2>4, <2>6
  <1>14. Enqueues(s.ld, A[k], f[k], B)
    <2>1. S \in SUBSET N /\ Go \in SUBSET N
      OBVIOUS
    <2> HIDE DEF S, A, B, Go, piece, next, k, rank
    <2>2. Falls(N, rank, Go, next)
      BY <1>1, <1>4 DEF Falls
    <2>3. Leads(s.ld, S, Go, piece, next, A, B)
      BY <1>11, <1>12 DEF Leads
    <2> HIDE DEF N
    <2> QED
      BY <1>8, <1>13, <2>1, <2>2, <2>3, WalkEnqueues
  <1> HIDE DEF A
  <1> QED
    BY <1>7, <1>13, <1>14

LEMMA ChannelMax ==
  ASSUME BoundsRight, NEW s, StateRight(s), NEW v \in Int, s.min <= v, v < s.max, NEW m \in DOMAIN s.ld, s.ld[m].val = v
  PROVE  Enqueues(s.ld, Below(s.ld, s.min) \cup Above(s.ld, s.max) \cup {le(m)}, channelMax(s, v, le(m)),
                  Below(s.ld, s.min) \cup Above(s.ld, v))
  <1> DEFINE N == DOMAIN s.ld
             rank == [n \in N |-> s.ld[n].val - (min0 - 1)]
             next == [n \in N |-> s.ld[n].prev]
             Go == {n \in N : s.ld[n].val > v}
             e(n) == entry(le(n), {neg(le(m))})
             piece == [n \in N |-> <<e(n)>>]
             A == [n \in N |-> Below(s.ld, s.min) \cup Above(s.ld, s.ld[n].val + 1) \cup {le(m)}]
             B == Below(s.ld, s.min) \cup Above(s.ld, v)
             S == {n \in N : v <= s.ld[n].val /\ s.ld[n].val < s.max}
             Rec(f) == f = [n \in N |-> IF s.ld[n].val > v THEN <<e(n)>> \o f[s.ld[n].prev] ELSE <<>>]
  <1>1. /\ rank \in [N -> Nat] /\ max0 - min0 + 1 \in Nat /\ \A n \in N : rank[n] <= max0 - min0 + 1
        /\ \A n \in N \ {1} : s.ld[n].prev \in N /\ s.ld[s.ld[n].prev].val < s.ld[n].val /\ rank[s.ld[n].prev] < rank[n]
    BY Ranks DEF StateRight
  <1>2. /\ \A n \in N : s.ld[n].val \in Int /\ n \in Int /\ n > 0 /\ n # 0
        /\ s.min \in Int /\ s.max \in Int /\ min0 <= s.min /\ s.max <= max0 /\ min0 \in Int /\ max0 \in Int
        /\ s.hi \in N /\ s.ld[s.hi].val = s.max /\ ListRight(s.ld) /\ m # 0
    <2>1. \A n \in N : n > 0 => n # 0
      OBVIOUS
    <2> QED
      BY StateFacts, <2>1
  <1>3. \A n \in N : s.ld[n].val > v => /\ n \in N \ {1} /\ next[n] = s.ld[n].prev /\ next[n] \in N /\ s.ld[next[n]].val < s.ld[n].val
                          /\ \A k \in N : s.ld[k].val <= s.ld[next[n]].val \/ s.ld[k].val >= s.ld[n].val
    <2>1. s.ld[1].val = min0 - 1
      BY <1>2 DEF ListRight
    <2>2. ASSUME NEW n \in N, s.ld[n].val > v
          PROVE  n \in N \ {1} /\ next[n] = s.ld[n].prev /\ Linked(s.ld, next[n]) /\ s.ld[next[n]].next = n /\ next[n] \in N
      <3>1. n # 1
        BY <1>2, <2>1, <2>2
      <3>2. Backed(s.ld, n) /\ next[n] = s.ld[n].prev
        BY <1>2, <3>1 DEF ListRight
      <3> HIDE DEF next
      <3>3. next[n] \in N \ {2} /\ s.ld[next[n]].next = n
        BY <3>2 DEF Backed
      <3>4. Linked(s.ld, next[n])
        BY <1>2, <3>3 DEF ListRight
      <3> QED
        BY <3>1, <3>2, <3>3, <3>4
    <2> HIDE DEF next
    <2>3. ASSUME NEW n \in N, s.ld[n].val > v
          PROVE  s.ld[next[n]].val < s.ld[n].val /\ \A k \in N : s.ld[k].val <= s.ld[next[n]].val \/ s.ld[k].val >= s.ld[n].val
      <3>1. Linked(s.ld, next[n]) /\ s.ld[next[n]].next = n
        BY <2>2, <2>3
      <3> QED
        BY <3>1 DEF Linked
    <2> QED
      BY <2>2, <2>3
  <1>4. \A n \in Go : next[n] \in N /\ rank[next[n]] < rank[n]
    BY <1>1, <1>3
  <1>5. \E f : Rec(f)
    <2>1. PICK f : Walk(f, N, Go, piece, next)
      <3>1. Go \in SUBSET N
        OBVIOUS
      <3> HIDE DEF rank, next, Go, piece
      <3> QED
        BY <1>1, <1>4, <3>1, WalkExists
    <2>2. \A n \in N : (IF n \in Go THEN piece[n] \o f[next[n]] ELSE <<>>) = (IF s.ld[n].val > v THEN <<e(n)>> \o f[s.ld[n].prev] ELSE <<>>)
      OBVIOUS
    <2> HIDE DEF piece, next, Go, e
    <2>3. Rec(f)
      BY <2>1, <2>2 DEF Walk
    <2> QED
      BY <2>3
  <1> DEFINE f == CHOOSE f : Rec(f)
  <1>6. Rec(f)
    BY <1>5
  <1>7. channelMax(s, v, le(m)) = f[s.ld[s.hi].prev]
    BY DEF channelMax
  <1> HIDE DEF f
  <1>8. Walk(f, N, Go, piece, next)
    <2>1. \A n \in N : (IF n \in Go THEN piece[n] \o f[next[n]] ELSE <<>>) = (IF s.ld[n].val > v THEN <<e(n)>> \o f[s.ld[n].prev] ELSE <<>>)
      OBVIOUS
    <2> HIDE DEF piece, next, Go, e
    <2> QED
      BY <1>6, <2>1 DEF Walk
  <1>9. ASSUME NEW n \in N, s.ld[n].val > v, s.ld[n].val < s.max
        PROVE  next[n] \in S /\ Enqueues(s.ld, A[n], piece[n], A[next[n]])
    <2> DEFINE q == next[n]
    <2>1. /\ q \in N /\ s.ld[q].val < s.ld[n].val
          /\ \A k \in N : s.ld[k].val <= s.ld[q].val \/ s.ld[k].val >= s.ld[n].val
      BY <1>3, <1>9
    <2> HIDE DEF q
    <2>2. v <= s.ld[q].val
      BY <1>2, <1>9, <2>1
    <2>3. q \in S
      BY <1>2, <1>9, <2>1, <2>2
    <2> DEFINE C == Below(s.ld, s.min) \cup Above(s.ld, s.ld[n].val + 1) \cup {le(m)}
    <2>4. Above(s.ld, s.ld[q].val + 1) = Above(s.ld, s.ld[n].val + 1) \cup {le(n)}
      <3>1. {k \in N : s.ld[k].val >= s.ld[q].val + 1} = {k \in N : s.ld[k].val >= s.ld[n].val + 1} \cup {n}
        <4>1. ASSUME NEW k \in N, s.ld[k].val >= s.ld[q].val + 1 PROVE s.ld[k].val >= s.ld[n].val + 1 \/ k = n
          <5>1. s.ld[k].val >= s.ld[n].val
            BY <1>2, <2>1, <4>1
          <5>2. s.ld[k].val = s.ld[n].val => k = n
            BY <1>2 DEF ListRight
          <5> QED
            BY <1>2, <5>1, <5>2
        <4>2. ASSUME NEW k \in N, s.ld[k].val >= s.ld[n].val + 1 \/ k = n PROVE s.ld[k].val >= s.ld[q].val + 1
          BY <1>2, <2>1, <4>2
        <4> QED
          BY <4>1, <4>2
      <3> QED
        BY <3>1 DEF Above
    <2>5. A[q] = C \cup {le(n)} /\ A[n] = C
      BY <2>1, <2>4
    <2>6. le(n) \notin C /\ ge(n) \notin C /\ le(m) \in C
      <3>1. le(n) \notin Above(s.ld, s.ld[n].val + 1) /\ le(n) \notin Below(s.ld, s.min)
        <4>1. le(n) \in Above(s.ld, s.ld[n].val + 1) <=> n \in DOMAIN s.ld /\ s.ld[n].val >= s.ld[n].val + 1
          BY BelowMember
        <4>2. le(n) \notin Below(s.ld, s.min)
          BY BelowMember
        <4>3. ~ (s.ld[n].val >= s.ld[n].val + 1)
          BY <1>2
        <4> QED
          BY <4>1, <4>2, <4>3
      <3>2. ge(n) \notin Below(s.ld, s.min) /\ ge(n) \notin Above(s.ld, s.ld[n].val + 1)
        <4>1. ge(n) \in Below(s.ld, s.min) <=> n \in DOMAIN s.ld /\ s.ld[n].val < s.min
          BY BelowMember
        <4>2. ge(n) \notin Above(s.ld, s.ld[n].val + 1)
          BY BelowMember
        <4>3. ~ (s.ld[n].val < s.min)
          BY <1>2, <1>9
        <4> QED
          BY <4>1, <4>2, <4>3
      <3>3. ge(n) # le(m) /\ le(n) # le(m)
        BY <1>9, <1>2, LitShape
      <3> QED
        BY <3>1, <3>2, <3>3
    <2> HIDE DEF C
    <2>7. Explains(s.ld, {neg(le(m))}, le(n), C)
      <3>1. neg(le(m)) = ge(m) /\ neg(ge(m)) = le(m) /\ le(n) # valLit
        BY <1>2, LitShape
      <3>2. ASSUME NEW d \in Value PROVE \E l \in {neg(le(m))} \cup {le(n)} : Claims(s.ld, l, d)
        <4>1. d \in Int
          BY <1>2 DEF Value
        <4>2. (Claims(s.ld, ge(m), d) <=> d > v) /\ (Claims(s.ld, le(n), d) <=> ~ (d > s.ld[n].val))
          <5>1. m \in Int /\ m > 0 /\ n \in Int /\ n > 0
            BY <1>2
          <5> QED
            BY <5>1, LitClaims
        <4>3. d > v \/ ~ (d > s.ld[n].val)
          BY <1>2, <1>9, <4>1
        <4> QED
          BY <3>1, <4>2, <4>3
      <3> QED
        BY <2>6, <3>1, <3>2 DEF Explains
    <2>8. neg(le(n)) = ge(n) /\ {neg(le(m))} \in SUBSET (LitOf(s.ld) \cup Given) /\ le(n) \in LitOf(s.ld) /\ DOMAIN s.ld \subseteq Int
      <3>1. neg(le(m)) = ge(m) /\ neg(le(n)) = ge(n) /\ DOMAIN s.ld \subseteq Int
        BY <1>2, LitShape
      <3> QED
        BY <3>1, LitType
    <2>9. Enqueues(s.ld, C, <<e(n)>>, C \cup {le(n)})
      BY <2>6, <2>7, <2>8, OneMore
    <2> QED
      BY <2>3, <2>5, <2>9 DEF q
  <1>10. \A n \in N : s.ld[n].val = v => A[n] = B
    <2>1. {k \in N : s.ld[k].val >= v} = {k \in N : s.ld[k].val >= v + 1} \cup {m}
      <3>1. \A k \in N : s.ld[k].val = v => k = m
        BY <1>2 DEF ListRight
      <3>2. \A k \in N : s.ld[k].val >= v <=> s.ld[k].val >= v + 1 \/ s.ld[k].val = v
        BY <1>2
      <3> QED
        BY <3>1, <3>2
    <2>2. Above(s.ld, v) = Above(s.ld, v + 1) \cup {le(m)}
      BY <2>1 DEF Above
    <2> QED
      BY <2>2
  <1>11. \A n \in S : IF n \in Go THEN Enqueues(s.ld, A[n], piece[n], A[next[n]]) ELSE A[n] = B
    <2> SUFFICES ASSUME NEW n \in S PROVE IF n \in Go THEN Enqueues(s.ld, A[n], piece[n], A[next[n]]) ELSE A[n] = B
      OBVIOUS
    <2>1. n \in N /\ v <= s.ld[n].val /\ s.ld[n].val < s.max /\ (n \in Go <=> s.ld[n].val > v)
      OBVIOUS
    <2>2. n \notin Go => s.ld[n].val = v
      BY <1>2, <2>1
    <2> HIDE DEF A, B, piece, next, Go, S
    <2> QED
      BY <1>9, <1>10, <2>1, <2>2
  <1>12. \A n \in S \cap Go : next[n] \in S
    <2>1. \A n \in S \cap Go : n \in N /\ s.ld[n].val > v /\ s.ld[n].val < s.max
      OBVIOUS
    <2> HIDE DEF next, S, Go
    <2> QED
      BY <1>9, <2>1
  <1> DEFINE k == s.ld[s.hi].prev
  <1>13. k \in S /\ A[k] = Below(s.ld, s.min) \cup Above(s.ld, s.max) \cup {le(m)}
    <2>2. s.ld[s.hi].val > v
      BY <1>2
    <2>3. /\ k \in N /\ s.ld[k].val < s.ld[s.hi].val
          /\ \A n \in N : s.ld[n].val <= s.ld[k].val \/ s.ld[n].val >= s.ld[s.hi].val
      BY <1>2, <1>3, <2>2
    <2> HIDE DEF k
    <2>4. k \in S
      BY <1>2, <2>2, <2>3
    <2>5. {n \in N : s.ld[n].val >= s.max} = {n \in N : s.ld[n].val >= s.ld[k].val + 1}
      BY <1>2, <2>3
    <2>6. Above(s.ld, s.max) = Above(s.ld, s.ld[k].val + 1)
      BY <2>5 DEF Above
    <2> QED
      BY <2>3, <2>4, <2>6
  <1>14. Enqueues(s.ld, A[k], f[k], B)
    <2>1. S \in SUBSET N /\ Go \in SUBSET N
      OBVIOUS
    <2> HIDE DEF S, A, B, Go, piece, next, k, rank
    <2>2. Falls(N, rank, Go, next)
      BY <1>1, <1>4 DEF Falls
    <2>3. Leads(s.ld, S, Go, piece, next, A, B)
      BY <1>11, <1>12 DEF Leads
    <2> HIDE DEF N
    <2> QED
      BY <1>8, <1>13, <2>1, <2>2, <2>3, WalkEnqueues
  <1> HIDE DEF A
  <1> QED
    BY <1>7, <1>13, <1>14

-----------------------------------------------------------------------------
(* setMin and setMax.                                                        *)

LEMMA AppendLast ==
  ASSUME NEW X, NEW s \in Seq(X), NEW e \in X
  PROVE  Append(s, e) = s \o <<e>>
  OBVIOUS

LEMMA FixedShape ==
  ASSUME NEW u \in StateType, NEW e \in Entry, u.min = u.max, e = entry(valLit, {le(u.li), ge(u.hi)}),
         NEW w, w = updateFixed(u)
  PROVE  /\ w \in StateType /\ w.ld = u.ld /\ w.li = u.li /\ w.hi = u.hi /\ w.min = u.min /\ w.max = u.max
         /\ w.trail = Append(u.trail, e) /\ w.changes = u.changes \cup {"F"}
  <1> DEFINE q == Append(u.trail, e)
             c == u.changes \cup {"F"}
  <1>1. w = [u EXCEPT !.trail = q, !.changes = c]
    BY Zenon DEF updateFixed
  <1>2. q \in Seq(Entry) /\ c \in SUBSET Events
    BY DEF StateType, Events
  <1> HIDE DEF q, c
  <1>3. /\ w \in StateType /\ w.ld = u.ld /\ w.li = u.li /\ w.hi = u.hi /\ w.min = u.min /\ w.max = u.max
        /\ w.trail = q /\ w.changes = c
    BY <1>1, <1>2 DEF StateType
  <1> QED
    BY <1>3 DEF q, c

(* What a call ends with: one value left makes "fixed" true. *)
LEMMA FixedRight ==
  ASSUME BoundsRight, NEW u \in StateType, ListRight(u.ld), Placed(u.ld, u),
         Enqueues(u.ld, {}, u.trail, Below(u.ld, u.min) \cup Above(u.ld, u.max))
  PROVE  LET w == updateFixed(u)
         IN /\ StateRight(w) /\ w.ld = u.ld /\ w.min = u.min /\ w.max = u.max
            /\ \E r \in Seq(Entry) : w.trail = u.trail \o r
            /\ u.changes \subseteq w.changes /\ (w.min = w.max => "F" \in w.changes)
  <1>1. /\ \A n \in DOMAIN u.ld : u.ld[n].val \in Int /\ n \in Int /\ n > 0
        /\ u.li \in DOMAIN u.ld /\ u.hi \in DOMAIN u.ld /\ u.ld[u.li].val = u.min - 1 /\ u.ld[u.hi].val = u.max
        /\ u.min \in Value /\ u.max \in Value /\ u.min \in Int /\ u.max \in Int /\ u.trail \in Seq(Entry)
    <2>1. u.trail \in Seq(Entry) /\ \A d \in Value : d \in Int
      BY DEF StateType, Value, BoundsRight
    <2> QED
      BY <2>1, ListFacts DEF Placed
  <1>2. CASE u.min # u.max
    <2>1. updateFixed(u) = u
      BY <1>2 DEF updateFixed
    <2>2. Truths(u.ld, u.min, u.max) = Below(u.ld, u.min) \cup Above(u.ld, u.max)
      BY <1>2, TruthsOf
    <2>3. StateRight(u)
      BY <2>2 DEF StateRight
    <2>4. <<>> \in Seq(Entry) /\ u.trail = u.trail \o <<>>
      BY <1>1
    <2> QED
      BY <1>2, <2>1, <2>3, <2>4
  <1>3. CASE u.min = u.max
    <2> DEFINE A == Below(u.ld, u.min) \cup Above(u.ld, u.max)
               r == {le(u.li), ge(u.hi)}
               e == entry(valLit, r)
               w == updateFixed(u)
    <2>1. valLit \notin A /\ neg(valLit) \notin A
      <3>1. 0 \notin DOMAIN u.ld
        BY <1>1
      <3>2. valLit = ge(0) /\ neg(valLit) = le(0)
        BY LitShape
      <3> QED
        BY <3>1, <3>2, BelowMember
    <2>2. ge(u.li) \in A /\ le(u.hi) \in A
      <3>1. u.ld[u.li].val < u.min /\ u.ld[u.hi].val >= u.max
        BY <1>1
      <3> QED
        BY <1>1, <3>1, BelowMember
    <2>3. Left(u.ld, r) = {u.min}
      <3>1. ASSUME NEW d \in Value PROVE (~ \E l \in r : Claims(u.ld, l, d)) <=> d = u.min
        <4>1. (Claims(u.ld, le(u.li), d) <=> ~ (d > u.min - 1)) /\ (Claims(u.ld, ge(u.hi), d) <=> d > u.max)
          BY <1>1, LitClaims
        <4>2. d \in Int
          BY DEF Value, BoundsRight
        <4>3. ~ Claims(u.ld, le(u.li), d) /\ ~ Claims(u.ld, ge(u.hi), d) <=> d = u.min
          BY <1>1, <1>3, <4>1, <4>2
        <4> QED
          BY <4>3
      <3> HIDE DEF r
      <3> QED
        BY <1>1, <3>1 DEF Left
    <2>4. Cardinality(Left(u.ld, r)) = 1
      BY <2>3, FS_Singleton
    <2>5. Explains(u.ld, r, valLit, A)
      <3>1. neg(le(u.li)) = ge(u.li) /\ neg(ge(u.hi)) = le(u.hi)
        BY LitShape
      <3> QED
        BY <2>2, <2>4, <3>1 DEF Explains
    <2>6. DOMAIN u.ld \subseteq Int /\ valLit \in LitOf(u.ld) /\ r \in SUBSET (LitOf(u.ld) \cup Given)
      BY <1>1, LitType
    <2> HIDE DEF A, r
    <2>7. e \in Entry /\ Enqueues(u.ld, A, <<e>>, A \cup {valLit})
      BY <2>1, <2>5, <2>6, OneMore
    <2>8. Enqueues(u.ld, {}, u.trail \o <<e>>, Truths(u.ld, u.min, u.max))
      <3>1. Enqueues(u.ld, {}, u.trail, A) /\ Truths(u.ld, u.min, u.max) = A \cup {valLit}
        BY <1>3, TruthsOf DEF A
      <3> HIDE DEF e
      <3> QED
        BY <2>7, <3>1, EnqueueThen
    <2>9. /\ w \in StateType /\ w.ld = u.ld /\ w.li = u.li /\ w.hi = u.hi /\ w.min = u.min /\ w.max = u.max
          /\ w.trail = Append(u.trail, e) /\ w.changes = u.changes \cup {"F"}
      <3>1. e = entry(valLit, {le(u.li), ge(u.hi)})
        BY DEF r
      <3> HIDE DEF e
      <3> QED
        BY <1>3, <2>7, <3>1, FixedShape
    <2> HIDE DEF w, e
    <2>10. w.trail = u.trail \o <<e>> /\ <<e>> \in Seq(Entry)
      <3>1. u.trail \in Seq(Entry) /\ e \in Entry
        BY <1>1, <2>7
      <3>2. Append(u.trail, e) = u.trail \o <<e>> /\ <<e>> \in Seq(Entry)
        BY <3>1, AppendLast
      <3> QED
        BY <2>9, <3>2
    <2>11. Placed(w.ld, w)
      BY <2>9 DEF Placed
    <2>12. StateRight(w)
      BY <2>8, <2>9, <2>10, <2>11 DEF StateRight
    <2>13. \E q \in Seq(Entry) : w.trail = u.trail \o q
      BY <2>10
    <2>14. /\ StateRight(w) /\ w.ld = u.ld /\ w.min = u.min /\ w.max = u.max
           /\ \E q \in Seq(Entry) : w.trail = u.trail \o q
           /\ u.changes \subseteq w.changes /\ (w.min = w.max => "F" \in w.changes)
      BY <2>9, <2>12, <2>13
    <2> QED
      BY <2>14 DEF w
  <1> QED
    BY <1>2, <1>3

LEMMA Together ==
  ASSUME NEW X, NEW a \in Seq(X), NEW b \in Seq(X), NEW c \in Seq(X)
  PROVE  (a \o b) \o c = a \o (b \o c) /\ b \o c \in Seq(X)
  <1>1. (a \o b) \o c = a \o (b \o c)
    BY ConcatAssociative
  <1> QED
    BY <1>1

(* What a call that succeeds leaves: t after s. *)
Narrowed(s, t) ==
  /\ StateRight(t) /\ Grows(s.ld, t.ld, s.min, s.max) /\ s.min <= t.min /\ t.max <= s.max
  /\ \E r \in Seq(Entry) : t.trail = s.trail \o r
  /\ "C" \in t.changes
  /\ (t.min # s.min => "L" \in t.changes) /\ (t.max # s.max => "U" \in t.changes)
  /\ (t.min = t.max => "F" \in t.changes)

LEMMA RaiseMinRight ==
  ASSUME BoundsRight, NEW s, StateRight(s), NEW v \in Int, s.min < v, v <= s.max
  PROVE  /\ Narrowed(s, raiseMin(s, v)) /\ raiseMin(s, v).min = v /\ raiseMin(s, v).max = s.max
         /\ s.changes \subseteq raiseMin(s, v).changes
  <1> DEFINE t == withGE(s, v)
             m == reached(t, v - 1)
             p == getGELit(s, v)
             q == channelMin(t, v, p)
             tr == t.trail \o <<entry(p, Given)>> \o q
             c == t.changes \cup {"C", "L"}
             u == [t EXCEPT !.trail = tr, !.li = m, !.min = v, !.changes = c]
             w == updateFixed(u)
  <1>1. /\ s.min \in Int /\ s.max \in Int /\ min0 <= s.min /\ s.max <= max0 /\ min0 \in Int /\ max0 \in Int /\ s.min <= v
        /\ ~ (v > s.max)
    BY StateFacts
  <1>2. Looked(s, t) /\ m \in DOMAIN t.ld /\ t.ld[m].val = v - 1
    BY <1>1, WithGE
  <1>3. p = ge(m)
    BY <1>1 DEF getGELit
  <1>4. raiseMin(s, v) = w
    <2>1. raiseMin(s, v) = updateFixed([t EXCEPT !.trail = tr, !.li = p[1], !.min = v, !.changes = c])
      BY Zenon DEF raiseMin
    <2>2. p[1] = m
      BY <1>3 DEF ge
    <2> HIDE DEF t, m, p, tr, c
    <2> QED
      BY <2>1, <2>2
  <1> HIDE DEF t, m, p
  <1>5. /\ StateRight(t) /\ Grows(s.ld, t.ld, s.min, s.max)
        /\ t.li = s.li /\ t.hi = s.hi /\ t.min = s.min /\ t.max = s.max /\ t.trail = s.trail /\ t.changes = s.changes
    BY <1>2 DEF Looked
  <1>6. /\ \A n \in DOMAIN t.ld : t.ld[n].val \in Int /\ n \in Int /\ n > 0
        /\ t.li \in DOMAIN t.ld /\ t.hi \in DOMAIN t.ld /\ t.ld[t.hi].val = t.max /\ ListRight(t.ld)
        /\ t.trail \in Seq(Entry) /\ DOMAIN t.ld \subseteq Int
    BY <1>5, StateFacts
  <1> DEFINE A == Below(t.ld, t.min) \cup Above(t.ld, t.max)
  <1>7. Enqueues(t.ld, {}, t.trail, A)
    <2>1. Truths(t.ld, t.min, t.max) = A
      <3>1. t.min # t.max
        BY <1>1, <1>5
      <3> QED
        BY <3>1, TruthsOf
    <2> QED
      BY <1>5, <2>1 DEF StateRight
  <1>8. entry(p, Given) \in Entry /\ Enqueues(t.ld, A, <<entry(p, Given)>>, A \cup {p})
    <2>1. ge(m) \notin A
      <3>1. ge(m) \notin Below(t.ld, t.min)
        <4>1. ~ (t.ld[m].val < t.min)
          BY <1>1, <1>2, <1>5
        <4> QED
          BY <4>1, BelowMember
      <3>2. ge(m) \notin Above(t.ld, t.max)
        BY BelowMember
      <3> QED
        BY <3>1, <3>2
    <2>2. le(m) \notin A
      <3>1. le(m) \notin Above(t.ld, t.max)
        <4>1. ~ (t.ld[m].val >= t.max)
          BY <1>1, <1>2, <1>5
        <4> QED
          BY <4>1, BelowMember
      <3>2. le(m) \notin Below(t.ld, t.min)
        BY BelowMember
      <3> QED
        BY <3>1, <3>2
    <2>3. ge(m) \in LitOf(t.ld) /\ Given \in SUBSET (LitOf(t.ld) \cup Given) /\ neg(ge(m)) = le(m)
      BY <1>2, <1>6, LitType, LitShape
    <2> HIDE DEF A
    <2>4. Explains(t.ld, Given, p, A)
      BY DEF Explains
    <2> QED
      BY <1>3, <1>6, <2>1, <2>2, <2>3, <2>4, OneMore
  <1>9. Enqueues(t.ld, A \cup {p}, q, Below(t.ld, v) \cup Above(t.ld, t.max))
    <2>1. t.min < v /\ v <= t.max
      BY <1>5
    <2>2. Enqueues(t.ld, Below(t.ld, t.min) \cup Above(t.ld, t.max) \cup {ge(m)}, channelMin(t, v, ge(m)), Below(t.ld, v) \cup Above(t.ld, t.max))
      BY <1>2, <1>5, <2>1, ChannelMin
    <2> QED
      BY <1>3, <2>2
  <1> HIDE DEF A, q
  <1>10. Enqueues(t.ld, {}, tr, Below(t.ld, v) \cup Above(t.ld, t.max))
    <2>1. Enqueues(t.ld, {}, t.trail \o <<entry(p, Given)>>, A \cup {p})
      BY <1>7, <1>8, EnqueueThen
    <2> QED
      BY <1>9, <2>1, EnqueueThen
  <1>11. tr \in Seq(Entry) /\ c \in SUBSET Events /\ m \in Int
    <2>1. t.changes \in SUBSET Events
      BY <1>5, StateFacts
    <2> QED
      BY <1>2, <1>6, <1>10, <2>1 DEF Enqueues, Events
  <1>12. \E r \in Seq(Entry) : tr = s.trail \o r
    <2> DEFINE a == <<entry(p, Given)>>
               z == t.trail
    <2>1. a \in Seq(Entry) /\ q \in Seq(Entry) /\ z \in Seq(Entry)
      BY <1>6, <1>8, <1>9 DEF Enqueues
    <2> HIDE DEF a, z
    <2>2. (z \o a) \o q = z \o (a \o q) /\ a \o q \in Seq(Entry)
      BY <2>1, Together
    <2> QED
      BY <1>5, <2>2 DEF a, z
  <1> HIDE DEF tr, c
  <1>13. /\ u \in StateType /\ u.ld = t.ld /\ u.li = m /\ u.hi = t.hi /\ u.min = v /\ u.max = t.max
         /\ u.trail = tr /\ u.changes = c
    <2>1. t \in StateType
      BY <1>5 DEF StateRight
    <2> QED
      BY <2>1, <1>11 DEF StateType
  <1> HIDE DEF u
  <1>14. Placed(u.ld, u)
    <2>1. v \in Value /\ t.max \in Value
      BY <1>1, <1>5 DEF Value
    <2> QED
      BY <1>1, <1>2, <1>5, <1>6, <1>13, <2>1 DEF Placed
  <1>15. /\ StateRight(w) /\ w.ld = u.ld /\ w.min = u.min /\ w.max = u.max
         /\ \E r \in Seq(Entry) : w.trail = u.trail \o r
         /\ u.changes \subseteq w.changes /\ (w.min = w.max => "F" \in w.changes)
    <2>1. Enqueues(u.ld, {}, u.trail, Below(u.ld, u.min) \cup Above(u.ld, u.max))
      BY <1>10, <1>13
    <2> HIDE DEF w
    <2>2. LET z == updateFixed(u)
          IN /\ StateRight(z) /\ z.ld = u.ld /\ z.min = u.min /\ z.max = u.max
             /\ \E r \in Seq(Entry) : z.trail = u.trail \o r
             /\ u.changes \subseteq z.changes /\ (z.min = z.max => "F" \in z.changes)
      BY <1>6, <1>13, <1>14, <2>1, FixedRight
    <2> QED
      BY <2>2 DEF w
  <1> HIDE DEF w
  <1>16. \E r \in Seq(Entry) : w.trail = s.trail \o r
    <2>1. PICK r1 \in Seq(Entry) : tr = s.trail \o r1
      BY <1>12
    <2>2. PICK r2 \in Seq(Entry) : w.trail = tr \o r2
      BY <1>13, <1>15
    <2> DEFINE z == s.trail
    <2>3. z \in Seq(Entry)
      BY <1>5, <1>6
    <2> HIDE DEF z
    <2>4. (z \o r1) \o r2 = z \o (r1 \o r2) /\ r1 \o r2 \in Seq(Entry)
      BY <2>3, Together
    <2> QED
      BY <2>1, <2>2, <2>4 DEF z
  <1>17. w.min = v /\ w.max = s.max /\ s.min <= w.min /\ w.max <= s.max /\ w.ld = t.ld
    BY <1>1, <1>5, <1>13, <1>15
  <1>18. s.changes \subseteq w.changes /\ "C" \in w.changes /\ "L" \in w.changes
    BY <1>5, <1>13, <1>15 DEF c
  <1>19. Narrowed(s, w)
    BY <1>5, <1>15, <1>16, <1>17, <1>18 DEF Narrowed
  <1> QED
    BY <1>4, <1>17, <1>18, <1>19

LEMMA LowerMaxRight ==
  ASSUME BoundsRight, NEW s, StateRight(s), NEW v \in Int, s.min <= v, v < s.max
  PROVE  /\ Narrowed(s, lowerMax(s, v)) /\ lowerMax(s, v).max = v /\ lowerMax(s, v).min = s.min
         /\ s.changes \subseteq lowerMax(s, v).changes
  <1> DEFINE t == withLE(s, v)
             m == reached(t, v + 1 - 1)
             p == getLELit(s, v)
             q == channelMax(t, v, p)
             tr == t.trail \o <<entry(p, Given)>> \o q
             c == t.changes \cup {"C", "U"}
             u == [t EXCEPT !.trail = tr, !.hi = m, !.max = v, !.changes = c]
             w == updateFixed(u)
  <1>1. /\ s.min \in Int /\ s.max \in Int /\ min0 <= s.min /\ s.max <= max0 /\ min0 \in Int /\ max0 \in Int /\ v <= s.max
        /\ ~ (v < s.min) /\ ~ (v + 1 > s.max) /\ s.min <= v + 1 /\ v + 1 <= s.max /\ v + 1 \in Int /\ v + 1 - 1 = v
    BY StateFacts
  <1>2. Looked(s, t) /\ m \in DOMAIN t.ld /\ t.ld[m].val = v
    <2>1. t = withGE(s, v + 1)
      BY <1>1 DEF withLE
    <2>2. LET z == withGE(s, v + 1)
          IN Looked(s, z) /\ reached(z, v + 1 - 1) \in DOMAIN z.ld /\ z.ld[reached(z, v + 1 - 1)].val = v + 1 - 1
      BY <1>1, WithGE
    <2> HIDE DEF t
    <2> QED
      BY <1>1, <2>1, <2>2
  <1>3. p = le(m)
    <2>1. t = withGE(s, v + 1)
      BY <1>1 DEF withLE
    <2>2. getGELit(s, v + 1) = ge(reached(withGE(s, v + 1), v + 1 - 1))
      BY <1>1 DEF getGELit
    <2> HIDE DEF t
    <2>3. getGELit(s, v + 1) = ge(m)
      BY <2>1, <2>2
    <2>4. p = neg(getGELit(s, v + 1))
      BY <1>1 DEF getLELit
    <2> HIDE DEF m, p
    <2> QED
      BY <2>3, <2>4, LitShape
  <1>4. lowerMax(s, v) = w
    <2>1. lowerMax(s, v) = updateFixed([t EXCEPT !.trail = tr, !.hi = p[1], !.max = v, !.changes = c])
      BY Zenon DEF lowerMax
    <2>2. p[1] = m
      BY <1>3 DEF le
    <2> HIDE DEF t, m, p, tr, c
    <2> QED
      BY <2>1, <2>2
  <1> HIDE DEF t, m, p
  <1>5. /\ StateRight(t) /\ Grows(s.ld, t.ld, s.min, s.max)
        /\ t.li = s.li /\ t.hi = s.hi /\ t.min = s.min /\ t.max = s.max /\ t.trail = s.trail /\ t.changes = s.changes
    BY <1>2 DEF Looked
  <1>6. /\ \A n \in DOMAIN t.ld : t.ld[n].val \in Int /\ n \in Int /\ n > 0
        /\ t.li \in DOMAIN t.ld /\ t.hi \in DOMAIN t.ld /\ t.ld[t.li].val = t.min - 1 /\ ListRight(t.ld)
        /\ t.trail \in Seq(Entry) /\ DOMAIN t.ld \subseteq Int
    BY <1>5, StateFacts
  <1> DEFINE A == Below(t.ld, t.min) \cup Above(t.ld, t.max)
  <1>7. Enqueues(t.ld, {}, t.trail, A)
    <2>1. Truths(t.ld, t.min, t.max) = A
      <3>1. t.min # t.max
        BY <1>1, <1>5
      <3> QED
        BY <3>1, TruthsOf
    <2> QED
      BY <1>5, <2>1 DEF StateRight
  <1>8. entry(p, Given) \in Entry /\ Enqueues(t.ld, A, <<entry(p, Given)>>, A \cup {p})
    <2>1. le(m) \notin A
      <3>1. le(m) \notin Above(t.ld, t.max)
        <4>1. ~ (t.ld[m].val >= t.max)
          BY <1>1, <1>2, <1>5
        <4> QED
          BY <4>1, BelowMember
      <3>2. le(m) \notin Below(t.ld, t.min)
        BY BelowMember
      <3> QED
        BY <3>1, <3>2
    <2>2. ge(m) \notin A
      <3>1. ge(m) \notin Below(t.ld, t.min)
        <4>1. ~ (t.ld[m].val < t.min)
          BY <1>1, <1>2, <1>5
        <4> QED
          BY <4>1, BelowMember
      <3>2. ge(m) \notin Above(t.ld, t.max)
        BY BelowMember
      <3> QED
        BY <3>1, <3>2
    <2>3. le(m) \in LitOf(t.ld) /\ Given \in SUBSET (LitOf(t.ld) \cup Given) /\ neg(le(m)) = ge(m)
      BY <1>2, <1>6, LitType, LitShape
    <2> HIDE DEF A
    <2>4. Explains(t.ld, Given, p, A)
      BY DEF Explains
    <2> QED
      BY <1>3, <1>6, <2>1, <2>2, <2>3, <2>4, OneMore
  <1>9. Enqueues(t.ld, A \cup {p}, q, Below(t.ld, t.min) \cup Above(t.ld, v))
    <2>1. t.min <= v /\ v < t.max
      BY <1>5
    <2>2. Enqueues(t.ld, Below(t.ld, t.min) \cup Above(t.ld, t.max) \cup {le(m)}, channelMax(t, v, le(m)), Below(t.ld, t.min) \cup Above(t.ld, v))
      BY <1>2, <1>5, <2>1, ChannelMax
    <2> QED
      BY <1>3, <2>2
  <1> HIDE DEF A, q
  <1>10. Enqueues(t.ld, {}, tr, Below(t.ld, t.min) \cup Above(t.ld, v))
    <2>1. Enqueues(t.ld, {}, t.trail \o <<entry(p, Given)>>, A \cup {p})
      BY <1>7, <1>8, EnqueueThen
    <2> QED
      BY <1>9, <2>1, EnqueueThen
  <1>11. tr \in Seq(Entry) /\ c \in SUBSET Events /\ m \in Int
    <2>1. t.changes \in SUBSET Events
      BY <1>5, StateFacts
    <2> QED
      BY <1>2, <1>6, <1>10, <2>1 DEF Enqueues, Events
  <1>12. \E r \in Seq(Entry) : tr = s.trail \o r
    <2> DEFINE a == <<entry(p, Given)>>
               z == t.trail
    <2>1. a \in Seq(Entry) /\ q \in Seq(Entry) /\ z \in Seq(Entry)
      BY <1>6, <1>8, <1>9 DEF Enqueues
    <2> HIDE DEF a, z
    <2>2. (z \o a) \o q = z \o (a \o q) /\ a \o q \in Seq(Entry)
      BY <2>1, Together
    <2> QED
      BY <1>5, <2>2 DEF a, z
  <1> HIDE DEF tr, c
  <1>13. /\ u \in StateType /\ u.ld = t.ld /\ u.li = t.li /\ u.hi = m /\ u.min = t.min /\ u.max = v
         /\ u.trail = tr /\ u.changes = c
    <2>1. t \in StateType
      BY <1>5 DEF StateRight
    <2> QED
      BY <2>1, <1>11 DEF StateType
  <1> HIDE DEF u
  <1>14. Placed(u.ld, u)
    <2>1. v \in Value /\ t.min \in Value
      BY <1>1, <1>5 DEF Value
    <2> QED
      BY <1>1, <1>2, <1>5, <1>6, <1>13, <2>1 DEF Placed
  <1>15. /\ StateRight(w) /\ w.ld = u.ld /\ w.min = u.min /\ w.max = u.max
         /\ \E r \in Seq(Entry) : w.trail = u.trail \o r
         /\ u.changes \subseteq w.changes /\ (w.min = w.max => "F" \in w.changes)
    <2>1. Enqueues(u.ld, {}, u.trail, Below(u.ld, u.min) \cup Above(u.ld, u.max))
      BY <1>10, <1>13
    <2> HIDE DEF w
    <2>2. LET z == updateFixed(u)
          IN /\ StateRight(z) /\ z.ld = u.ld /\ z.min = u.min /\ z.max = u.max
             /\ \E r \in Seq(Entry) : z.trail = u.trail \o r
             /\ u.changes \subseteq z.changes /\ (z.min = z.max => "F" \in z.changes)
      BY <1>6, <1>13, <1>14, <2>1, FixedRight
    <2> QED
      BY <2>2 DEF w
  <1> HIDE DEF w
  <1>16. \E r \in Seq(Entry) : w.trail = s.trail \o r
    <2>1. PICK r1 \in Seq(Entry) : tr = s.trail \o r1
      BY <1>12
    <2>2. PICK r2 \in Seq(Entry) : w.trail = tr \o r2
      BY <1>13, <1>15
    <2> DEFINE z == s.trail
    <2>3. z \in Seq(Entry)
      BY <1>5, <1>6
    <2> HIDE DEF z
    <2>4. (z \o r1) \o r2 = z \o (r1 \o r2) /\ r1 \o r2 \in Seq(Entry)
      BY <2>3, Together
    <2> QED
      BY <2>1, <2>2, <2>4 DEF z
  <1>17. w.max = v /\ w.min = s.min /\ s.min <= w.min /\ w.max <= s.max /\ w.ld = t.ld
    BY <1>1, <1>5, <1>13, <1>15
  <1>18. s.changes \subseteq w.changes /\ "C" \in w.changes /\ "U" \in w.changes
    BY <1>5, <1>13, <1>15 DEF c
  <1>19. Narrowed(s, w)
    BY <1>5, <1>15, <1>16, <1>17, <1>18 DEF Narrowed
  <1> QED
    BY <1>4, <1>17, <1>18, <1>19

LEMMA NarrowedTwice ==
  ASSUME BoundsRight, NEW s, StateRight(s), NEW t, Narrowed(s, t), NEW u, Narrowed(t, u), t.changes \subseteq u.changes
  PROVE  Narrowed(s, u)
  <1>1. /\ s.min \in Int /\ s.max \in Int /\ t.min \in Int /\ t.max \in Int /\ u.min \in Int /\ u.max \in Int
        /\ StateRight(t) /\ StateRight(u)
    BY StateFacts DEF Narrowed
  <1>2. s.min <= t.min /\ t.max <= s.max /\ t.min <= u.min /\ u.max <= t.max
    BY DEF Narrowed
  <1>3. Grows(s.ld, u.ld, s.min, s.max)
    <2>1. Grows(s.ld, t.ld, s.min, s.max) /\ Grows(t.ld, u.ld, t.min, t.max)
      BY DEF Narrowed
    <2>2. ASSUME NEW n \in DOMAIN u.ld \ DOMAIN s.ld PROVE s.min <= u.ld[n].val /\ u.ld[n].val < s.max
      <3>1. CASE n \in DOMAIN t.ld
        BY <2>1, <2>2, <3>1 DEF Grows
      <3>2. CASE n \notin DOMAIN t.ld
        <4>1. t.min <= u.ld[n].val /\ u.ld[n].val < t.max
          BY <2>1, <2>2, <3>2 DEF Grows
        <4>2. u.ld[n].val \in Int
          BY <1>1, <2>2, StateFacts
        <4> QED
          BY <1>1, <1>2, <4>1, <4>2
      <3> QED
        BY <3>1, <3>2
    <2> QED
      BY <2>1, <2>2 DEF Grows
  <1>4. \E r \in Seq(Entry) : u.trail = s.trail \o r
    <2>1. PICK r1 \in Seq(Entry) : t.trail = s.trail \o r1
      BY DEF Narrowed
    <2>2. PICK r2 \in Seq(Entry) : u.trail = t.trail \o r2
      BY DEF Narrowed
    <2> DEFINE z == s.trail
    <2>3. z \in Seq(Entry)
      BY StateFacts
    <2> HIDE DEF z
    <2>4. (z \o r1) \o r2 = z \o (r1 \o r2) /\ r1 \o r2 \in Seq(Entry)
      BY <2>3, Together
    <2> QED
      BY <2>1, <2>2, <2>4 DEF z
  <1>5. s.min <= u.min /\ u.max <= s.max
    BY <1>1, <1>2
  <1>6. (u.min # s.min => "L" \in u.changes) /\ (u.max # s.max => "U" \in u.changes)
    BY DEF Narrowed
  <1> QED
    BY <1>1, <1>3, <1>4, <1>5, <1>6 DEF Narrowed

LEMMA AssignedRight ==
  ASSUME BoundsRight, NEW s, StateRight(s), NEW v \in Int, s.min <= v, v <= s.max, v # s.min \/ v # s.max
  PROVE  Narrowed(s, assigned(s, v)) /\ assigned(s, v).min = v /\ assigned(s, v).max = v
  <1> DEFINE t == IF v > s.min THEN raiseMin(s, v) ELSE s
             u == lowerMax(t, v)
  <1>1. s.min \in Int /\ s.max \in Int /\ StateRight(s)
    BY StateFacts
  <1>2. assigned(s, v) = IF v < t.max THEN u ELSE t
    BY DEF assigned
  <1>3. StateRight(t) /\ t.min = v /\ t.max = s.max /\ (v > s.min => Narrowed(s, t) /\ t = raiseMin(s, v)) /\ (~ (v > s.min) => t = s)
    <2>1. CASE v > s.min
      <3>1. /\ Narrowed(s, raiseMin(s, v)) /\ raiseMin(s, v).min = v /\ raiseMin(s, v).max = s.max
        BY <1>1, <2>1, RaiseMinRight
      <3> QED
        BY <2>1, <3>1 DEF Narrowed
    <2>2. CASE ~ (v > s.min)
      BY <1>1, <2>2
    <2> QED
      BY <2>1, <2>2
  <1> HIDE DEF t
  <1>4. CASE v < t.max
    <2>1. Narrowed(t, u) /\ u.max = v /\ u.min = v /\ t.changes \subseteq u.changes
      BY <1>1, <1>3, <1>4, LowerMaxRight
    <2> HIDE DEF u
    <2>2. Narrowed(s, u)
      <3>1. CASE v > s.min
        BY <1>3, <2>1, <3>1, NarrowedTwice
      <3>2. CASE ~ (v > s.min)
        BY <1>3, <2>1, <3>2
      <3> QED
        BY <3>1, <3>2
    <2> QED
      BY <1>2, <1>4, <2>1, <2>2
  <1>5. CASE ~ (v < t.max)
    <2>1. v = s.max /\ v > s.min
      BY <1>1, <1>3, <1>5
    <2> QED
      BY <1>2, <1>3, <1>5, <2>1
  <1> QED
    BY <1>4, <1>5

-----------------------------------------------------------------------------
(* The inductive invariant.                                                  *)

(* What level p started from is still there: the places in the list mark the *)
(* bounds it had, the beginning of the trail says them.                      *)
Level(s, p) ==
  /\ Placed(s.ld, p) /\ p.min <= s.min /\ s.max <= p.max /\ p.len \in 0 .. Len(s.trail)
  /\ Enqueues(s.ld, {}, SubSeq(s.trail, 1, p.len), Truths(s.ld, p.min, p.max))

LevelType == [li : Int, hi : Int, min : Int, max : Int, len : Nat]
PastRight(s, P) ==
  /\ P \in Seq(LevelType)
  /\ \A k \in DOMAIN P : Level(s, P[k])
  /\ \A j, k \in DOMAIN P : j <= k => P[j].len <= P[k].len /\ P[j].min <= P[k].min /\ P[k].max <= P[j].max

ConflRight(s, c) ==
  /\ c \subseteq LitOf(s.ld) \cup {Constant(b) : b \in BOOLEAN}
  /\ \A l \in c \ Given : neg(l) \in Lits(s.trail)

LLInv ==
  /\ StateRight(x) /\ PastRight(x, past) /\ ConflRight(x, confl)
  /\ in_queue \in BOOLEAN /\ Len(past) <= MaxLevel

(* Whatever is done to the variable but going back. *)
Advances(s, t) ==
  /\ StateRight(t) /\ Grows(s.ld, t.ld, s.min, s.max) /\ s.min <= t.min /\ t.max <= s.max
  /\ \E r \in Seq(Entry) : t.trail = s.trail \o r

LEMMA LookedAdvances ==
  ASSUME BoundsRight, NEW s, StateRight(s), NEW t, Looked(s, t)
  PROVE  Advances(s, t)
  <1>1. s.min \in Int /\ s.max \in Int /\ s.trail \in Seq(Entry)
    BY StateFacts
  <1>2. <<>> \in Seq(Entry) /\ s.trail = s.trail \o <<>>
    BY <1>1
  <1>3. s.min <= t.min /\ t.max <= s.max
    BY <1>1 DEF Looked
  <1> QED
    BY <1>2, <1>3 DEF Looked, Advances

LEMMA PastKept ==
  ASSUME BoundsRight, NEW s, StateRight(s), NEW t, Advances(s, t), NEW P, PastRight(s, P)
  PROVE  PastRight(t, P)
  <1>1. /\ s.min \in Int /\ s.max \in Int /\ t.min \in Int /\ t.max \in Int /\ StateRight(t)
        /\ s.trail \in Seq(Entry) /\ \A n \in DOMAIN t.ld : t.ld[n].val \in Int
    BY StateFacts DEF Advances
  <1>2. PICK r \in Seq(Entry) : t.trail = s.trail \o r
    BY DEF Advances
  <1>3. ASSUME NEW p \in LevelType, Level(s, p) PROVE Level(t, p)
    <2>1. p.min \in Int /\ p.max \in Int
      BY DEF LevelType
    <2>2. Placed(t.ld, p)
      BY <1>3 DEF Level, Placed, Advances, Grows
    <2>3. p.min <= s.min /\ s.max <= p.max /\ p.min <= t.min /\ t.max <= p.max
      BY <1>1, <1>3, <2>1 DEF Level, Advances
    <2> DEFINE z == s.trail
    <2>4. z \in Seq(Entry) /\ p.len \in 0 .. Len(z)
      BY <1>1, <1>3 DEF Level
    <2> HIDE DEF z
    <2>5. SubSeq(z \o r, 1, p.len) = SubSeq(z, 1, p.len) /\ p.len \in 0 .. Len(z \o r)
      <3>1. SubSeq(z \o r, 1, p.len) = SubSeq(z, 1, p.len)
        BY <2>4, PrefixLonger
      <3>2. Len(z \o r) = Len(z) + Len(r) /\ Len(z) \in Nat /\ Len(r) \in Nat
        BY <2>4
      <3> QED
        BY <2>4, <3>1, <3>2
    <2>6. SubSeq(t.trail, 1, p.len) = SubSeq(s.trail, 1, p.len) /\ p.len \in 0 .. Len(t.trail)
      BY <1>2, <2>5 DEF z
    <2>7. Truths(t.ld, p.min, p.max) = Truths(s.ld, p.min, p.max)
      <3>1. Grows(s.ld, t.ld, s.min, s.max)
        BY DEF Advances
      <3>2. \A n \in DOMAIN t.ld : t.ld[n].val \in Int
        BY <1>1
      <3>3. s.min \in Int /\ s.max \in Int /\ p.min \in Int /\ p.max \in Int /\ p.min <= s.min /\ s.max <= p.max
        BY <1>1, <2>1, <2>3
      <3> QED
        BY <3>1, <3>2, <3>3, GrowsTruths
    <2>8. Enqueues(t.ld, {}, SubSeq(s.trail, 1, p.len), Truths(s.ld, p.min, p.max))
      BY <1>3, GrowsEnqueues DEF Level, Advances
    <2> QED
      BY <2>2, <2>3, <2>6, <2>7, <2>8 DEF Level
  <1>4. \A k \in DOMAIN P : P[k] \in LevelType
    BY DEF PastRight
  <1> QED
    BY <1>3, <1>4 DEF PastRight

-----------------------------------------------------------------------------
(* Every step, by what it does to the variable.                              *)

Cuts ==
  /\ confl = {} /\ UNCHANGED <<confl, past>> /\ in_queue' = TRUE /\ Narrowed(x, x')
  /\ \E v \in Value : /\ x.min <= v /\ v <= x.max
                      /\ \/ x'.min = v /\ x'.max = x.max
                         \/ x'.min = x.min /\ x'.max = v
                         \/ x'.min = v /\ x'.max = v
Fails == confl = {} /\ confl' # {} /\ ConflRight(x, confl') /\ UNCHANGED <<x, in_queue, past>>
Asks == Looked(x, x') /\ UNCHANGED <<confl, in_queue, past>>
Wakes == x' = [x EXCEPT !.changes = {}] /\ in_queue' = FALSE /\ UNCHANGED <<confl, past>>
Opens ==
  /\ confl = {} /\ UNCHANGED <<x, confl, in_queue>> /\ Len(past) < MaxLevel
  /\ past' = Append(past, [li |-> x.li, hi |-> x.hi, min |-> x.min, max |-> x.max, len |-> Len(x.trail)])
Returns(l) ==
  /\ x' = restored(past[l + 1]) /\ past' = SubSeq(past, 1, l) /\ confl' = {} /\ in_queue' = FALSE

(* The trail holds the literals that the bounds say. *)
LEMMA TrueLits ==
  ASSUME NEW s, StateRight(s)
  PROVE  /\ Lits(s.trail) = Below(s.ld, s.min) \cup Above(s.ld, s.max) \cup (IF s.min = s.max THEN {valLit} ELSE {})
         /\ Lits(s.trail) = Truths(s.ld, s.min, s.max)
  <1>1. Lits(s.trail) = Truths(s.ld, s.min, s.max)
    BY DEF StateRight, Enqueues
  <1> QED
    BY <1>1, TruthsOf

LEMMA NodeTrue ==
  ASSUME BoundsRight, NEW s, StateRight(s), NEW n \in DOMAIN s.ld
  PROVE  /\ (ge(n) \in Lits(s.trail) <=> s.ld[n].val < s.min)
         /\ (le(n) \in Lits(s.trail) <=> s.ld[n].val >= s.max)
  <1>1. /\ (ge(n) \in Below(s.ld, s.min) <=> n \in DOMAIN s.ld /\ s.ld[n].val < s.min) /\ le(n) \notin Below(s.ld, s.min)
        /\ (le(n) \in Above(s.ld, s.max) <=> n \in DOMAIN s.ld /\ s.ld[n].val >= s.max) /\ ge(n) \notin Above(s.ld, s.max)
    BY BelowMember
  <1>2. ge(n) # valLit /\ le(n) # valLit
    <2>1. n # 0
      BY StateFacts
    <2> QED
      BY <2>1, LitShape
  <1> QED
    BY <1>1, <1>2, TrueLits

LEMMA FixedTrue ==
  ASSUME BoundsRight, NEW s, StateRight(s)
  PROVE  valLit \in Lits(s.trail) <=> s.min = s.max
  <1>1. 0 \notin DOMAIN s.ld
    <2>1. \A n \in DOMAIN s.ld : n > 0
      BY StateFacts
    <2> QED
      BY <2>1
  <1>2. valLit = ge(0)
    BY LitShape
  <1>3. valLit \notin Below(s.ld, s.min) /\ valLit \notin Above(s.ld, s.max)
    BY <1>1, <1>2, BelowMember
  <1> QED
    BY <1>3, TrueLits

LEMMA FailFails ==
  ASSUME BoundsRight, StateRight(x), NEW l \in LitOf(x.ld), neg(l) \in Lits(x.trail), confl = {}, fail(l), UNCHANGED past
  PROVE  Fails
  <1>1. confl' = {l} \cup Given /\ UNCHANGED <<x, in_queue>>
    BY DEF fail
  <1>2. ConflRight(x, confl')
    BY <1>1 DEF ConflRight, Given
  <1> QED
    BY <1>1, <1>2 DEF Fails

LEMMA HighFails ==
  ASSUME BoundsRight, StateRight(x), NEW v \in Int, v > x.max, confl = {}, fail(getGELit(x, v)), UNCHANGED past
  PROVE  Fails
  <1>1. x.hi \in DOMAIN x.ld /\ x.ld[x.hi].val = x.max /\ x.max \in Int /\ DOMAIN x.ld \subseteq Int
    BY StateFacts
  <1>2. getGELit(x, v) = ge(x.hi) /\ neg(ge(x.hi)) = le(x.hi) /\ ge(x.hi) \in LitOf(x.ld)
    BY <1>1, LitShape, LitType DEF getGELit
  <1>3. le(x.hi) \in Lits(x.trail)
    <2>1. x.ld[x.hi].val >= x.max
      BY <1>1
    <2> QED
      BY <1>1, <2>1, NodeTrue
  <1> QED
    BY <1>2, <1>3, FailFails

LEMMA LowFails ==
  ASSUME BoundsRight, StateRight(x), NEW v \in Int, v < x.min, confl = {}, fail(getLELit(x, v)), UNCHANGED past
  PROVE  Fails
  <1>1. x.li \in DOMAIN x.ld /\ x.ld[x.li].val = x.min - 1 /\ x.min \in Int /\ DOMAIN x.ld \subseteq Int
    BY StateFacts
  <1>2. getLELit(x, v) = le(x.li) /\ neg(le(x.li)) = ge(x.li) /\ le(x.li) \in LitOf(x.ld)
    BY <1>1, LitShape, LitType DEF getLELit
  <1>3. ge(x.li) \in Lits(x.trail)
    <2>1. x.ld[x.li].val < x.min
      BY <1>1
    <2> QED
      BY <1>1, <2>1, NodeTrue
  <1> QED
    BY <1>2, <1>3, FailFails

LEMMA RaiseCuts ==
  ASSUME BoundsRight, StateRight(x), NEW v \in Int, x.min < v, v <= x.max, confl = {}, changed(raiseMin(x, v)), UNCHANGED past
  PROVE  Cuts
  <1>1. x' = raiseMin(x, v) /\ in_queue' = TRUE /\ UNCHANGED confl
    BY DEF changed
  <1>2. Narrowed(x, x') /\ x'.min = v /\ x'.max = x.max
    BY <1>1, RaiseMinRight
  <1>3. v \in Value /\ x.min <= v
    BY StateFacts DEF Value
  <1> QED
    BY <1>1, <1>2, <1>3 DEF Cuts

LEMMA LowerCuts ==
  ASSUME BoundsRight, StateRight(x), NEW v \in Int, x.min <= v, v < x.max, confl = {}, changed(lowerMax(x, v)), UNCHANGED past
  PROVE  Cuts
  <1>1. x' = lowerMax(x, v) /\ in_queue' = TRUE /\ UNCHANGED confl
    BY DEF changed
  <1>2. Narrowed(x, x') /\ x'.max = v /\ x'.min = x.min
    BY <1>1, LowerMaxRight
  <1>3. v \in Value /\ v <= x.max
    BY StateFacts DEF Value
  <1> QED
    BY <1>1, <1>2, <1>3 DEF Cuts

LEMMA AssignCuts ==
  ASSUME BoundsRight, StateRight(x), NEW v \in dom, v # x.min \/ v # x.max, confl = {}, changed(assigned(x, v)), UNCHANGED past
  PROVE  Cuts
  <1>1. x' = assigned(x, v) /\ in_queue' = TRUE /\ UNCHANGED confl
    BY DEF changed
  <1>2. v \in Int /\ x.min <= v /\ v <= x.max /\ v \in Value
    BY StateFacts DEF dom, Value
  <1>3. Narrowed(x, x') /\ x'.min = v /\ x'.max = v
    BY <1>1, <1>2, AssignedRight
  <1> QED
    BY <1>1, <1>2, <1>3 DEF Cuts

LEMMA CallMoves ==
  ASSUME BoundsRight, StateRight(x), NEW v \in Int, setMin(v) \/ setMax(v) \/ setVal(v)
  PROVE  Fails \/ Cuts
  <1>1. x.min \in Int /\ x.max \in Int
    BY StateFacts
  <1>2. CASE setMin(v)
    <2>1. confl = {} /\ v > x.min /\ UNCHANGED past
      BY <1>2 DEF setMin
    <2>2. CASE v > x.max
      BY <1>2, <2>1, <2>2, HighFails DEF setMin
    <2>3. CASE ~ (v > x.max)
      <3>1. changed(raiseMin(x, v)) /\ x.min < v /\ v <= x.max
        BY <1>1, <1>2, <2>1, <2>3 DEF setMin
      <3> QED
        BY <2>1, <3>1, RaiseCuts
    <2> QED
      BY <2>2, <2>3
  <1>3. CASE setMax(v)
    <2>1. confl = {} /\ v < x.max /\ UNCHANGED past
      BY <1>3 DEF setMax
    <2>2. CASE v < x.min
      BY <1>3, <2>1, <2>2, LowFails DEF setMax
    <2>3. CASE ~ (v < x.min)
      <3>1. changed(lowerMax(x, v)) /\ x.min <= v
        BY <1>1, <1>3, <2>1, <2>3 DEF setMax
      <3> QED
        BY <2>1, <3>1, LowerCuts
    <2> QED
      BY <2>2, <2>3
  <1>4. CASE setVal(v)
    <2>1. confl = {} /\ (v # x.min \/ v # x.max) /\ UNCHANGED past
      BY <1>4 DEF setVal
    <2>2. CASE v > x.max /\ fail(getGELit(x, v))
      BY <2>1, <2>2, HighFails
    <2>3. CASE v < x.min /\ fail(getLELit(x, v))
      BY <2>1, <2>3, LowFails
    <2>4. CASE v \in dom /\ changed(assigned(x, v))
      BY <2>1, <2>4, AssignCuts
    <2> QED
      BY <1>4, <2>2, <2>3, <2>4 DEF setVal
  <1> QED
    BY <1>2, <1>3, <1>4

LEMMA ChannelMoves ==
  ASSUME BoundsRight, StateRight(x), NEW n \in DOMAIN x.ld, channel(n)
  PROVE  Cuts
  <1>1. /\ confl = {} /\ isUndef(ge(n)) /\ UNCHANGED past
        /\ changed(raiseMin(x, x.ld[n].val + 1)) \/ changed(lowerMax(x, x.ld[n].val))
    BY DEF channel
  <1>2. assigns = Lits(x.trail) /\ neg(ge(n)) = le(n)
    BY LitShape DEF assigns, Lits
  <1>3. ge(n) \notin Lits(x.trail) /\ le(n) \notin Lits(x.trail)
    BY <1>1, <1>2 DEF isUndef, isTrue, isFalse
  <1>4. ~ (x.ld[n].val < x.min) /\ ~ (x.ld[n].val >= x.max)
    BY <1>3, NodeTrue
  <1> DEFINE w == x.ld[n].val
  <1>5. w \in Int /\ w + 1 \in Int /\ x.min <= w /\ w < x.max /\ x.min < w + 1 /\ w + 1 <= x.max
    <2>1. w \in Int /\ x.min \in Int /\ x.max \in Int /\ ~ (w < x.min) /\ ~ (w >= x.max)
      BY <1>4, StateFacts
    <2> HIDE DEF w
    <2> QED
      BY <2>1
  <1>6. changed(raiseMin(x, w + 1)) \/ changed(lowerMax(x, w))
    BY <1>1
  <1> HIDE DEF w
  <1> QED
    BY <1>1, <1>5, <1>6, RaiseCuts, LowerCuts

LEMMA AskMoves ==
  ASSUME BoundsRight, StateRight(x), NEW v \in Value, NEW rel, getLit(v, rel)
  PROVE  Asks
  <1>1. v \in dom /\ x' = (IF rel = "GE" THEN withGE(x, v) ELSE withLE(x, v)) /\ UNCHANGED <<confl, in_queue, past>>
    BY DEF getLit
  <1>2. v \in Int /\ x.min <= v /\ v <= x.max /\ v + 1 \in Int /\ x.min <= v + 1 /\ x.min \in Int /\ x.max \in Int
    BY <1>1, StateFacts DEF dom
  <1>3. Looked(x, withGE(x, v))
    BY <1>2, WithGE
  <1>4. Looked(x, withLE(x, v))
    <2>1. withLE(x, v) = withGE(x, v + 1)
      BY <1>2 DEF withLE
    <2>2. CASE v + 1 <= x.max
      BY <1>2, <2>1, <2>2, WithGE
    <2>3. CASE ~ (v + 1 <= x.max)
      <3>1. v + 1 > x.max
        BY <1>2, <2>3
      <3>2. withGE(x, v + 1) = x
        BY <3>1 DEF withGE
      <3> QED
        BY <2>1, <3>2, LookedNone
    <2> QED
      BY <2>2, <2>3
  <1> QED
    BY <1>1, <1>3, <1>4 DEF Asks

LEMMA Moves ==
  ASSUME BoundsRight, LLInv, Next
  PROVE  Fails \/ Cuts \/ Asks \/ Wakes \/ Opens \/ (\E l \in 0 .. Len(past) - 1 : Returns(l)) \/ UNCHANGED vars
  <1>0. StateRight(x)
    BY DEF LLInv
  <1>1. ASSUME NEW v \in min0 - 1 .. max0 + 1, setMin(v) \/ setMax(v) \/ setVal(v) PROVE Fails \/ Cuts
    <2>1. v \in Int
      BY DEF BoundsRight
    <2> QED
      BY <1>0, <1>1, <2>1, CallMoves
  <1>2. ASSUME NEW n \in DOMAIN x.ld, channel(n) PROVE Cuts
    BY <1>0, <1>2, ChannelMoves
  <1>3. ASSUME NEW v \in Value, NEW rel \in {"GE", "LE"}, getLit(v, rel) PROVE Asks
    BY <1>0, <1>3, AskMoves
  <1>4. ASSUME wakePropagators PROVE Wakes
    BY <1>4 DEF wakePropagators, Wakes
  <1>5. ASSUME newDecisionLevel PROVE Opens
    BY <1>5 DEF newDecisionLevel, Opens
  <1>6. ASSUME NEW l \in 0 .. Len(past) - 1, btToLevel(l) PROVE Returns(l)
    BY <1>6 DEF btToLevel, Returns
  <1>7. ASSUME unsatisfiable PROVE UNCHANGED vars
    BY <1>7 DEF unsatisfiable
  <1> QED
    BY <1>1, <1>2, <1>3, <1>4, <1>5, <1>6, <1>7 DEF Next

-----------------------------------------------------------------------------
(* Every step keeps the invariant.                                           *)

LEMMA CutKeeps ==
  ASSUME BoundsRight, LLInv, Cuts
  PROVE  LLInv'
  <1>1. Narrowed(x, x') /\ confl = {} /\ confl' = {} /\ past' = past /\ in_queue' = TRUE
    BY DEF Cuts
  <1>2. StateRight(x) /\ StateRight(x') /\ Advances(x, x') /\ PastRight(x, past)
    BY <1>1 DEF LLInv, Narrowed, Advances
  <1>3. PastRight(x', past)
    BY <1>2, PastKept
  <1>4. ConflRight(x', {})
    BY DEF ConflRight
  <1> QED
    BY <1>1, <1>2, <1>3, <1>4 DEF LLInv

LEMMA FailKeeps ==
  ASSUME LLInv, Fails
  PROVE  LLInv'
  BY DEF LLInv, Fails

LEMMA AskKeeps ==
  ASSUME BoundsRight, LLInv, Asks
  PROVE  LLInv'
  <1>1. Looked(x, x') /\ confl' = confl /\ past' = past /\ in_queue' = in_queue
    BY DEF Asks
  <1>2. StateRight(x) /\ StateRight(x') /\ PastRight(x, past) /\ ConflRight(x, confl)
    BY <1>1 DEF LLInv, Looked
  <1>3. Advances(x, x')
    BY <1>1, <1>2, LookedAdvances
  <1>4. PastRight(x', past)
    BY <1>2, <1>3, PastKept
  <1>5. LitOf(x.ld) \subseteq LitOf(x'.ld) /\ x'.trail = x.trail
    BY <1>1 DEF Looked, Grows, LitOf
  <1>6. ConflRight(x', confl)
    BY <1>2, <1>5 DEF ConflRight
  <1> QED
    BY <1>1, <1>2, <1>4, <1>6 DEF LLInv

LEMMA EmptiedShape ==
  ASSUME NEW s \in StateType, NEW t, t = [s EXCEPT !.changes = {}]
  PROVE  /\ t \in StateType /\ t.ld = s.ld /\ t.li = s.li /\ t.hi = s.hi /\ t.min = s.min /\ t.max = s.max
         /\ t.trail = s.trail
  BY DEF StateType, Events

LEMMA WakeKeeps ==
  ASSUME BoundsRight, LLInv, Wakes
  PROVE  LLInv' /\ x'.min = x.min /\ x'.max = x.max
  <1>1. x' = [x EXCEPT !.changes = {}] /\ in_queue' = FALSE /\ confl' = confl /\ past' = past
    BY DEF Wakes
  <1>2. StateRight(x) /\ PastRight(x, past) /\ ConflRight(x, confl) /\ x \in StateType
    BY DEF LLInv, StateRight
  <1> DEFINE t == x'
  <1>3. /\ t \in StateType /\ t.ld = x.ld /\ t.li = x.li /\ t.hi = x.hi /\ t.min = x.min /\ t.max = x.max
        /\ t.trail = x.trail
    BY <1>1, <1>2, EmptiedShape
  <1> HIDE DEF t
  <1>4. StateRight(t)
    <2>1. Placed(t.ld, t)
      BY <1>2, <1>3 DEF StateRight, Placed
    <2> QED
      BY <1>2, <1>3, <2>1 DEF StateRight
  <1>5. Advances(x, t)
    <2>1. Grows(x.ld, t.ld, x.min, x.max)
      BY <1>3 DEF Grows
    <2>2. x.min \in Int /\ x.max \in Int /\ x.trail \in Seq(Entry)
      BY <1>2, StateFacts
    <2>3. <<>> \in Seq(Entry) /\ x.trail = x.trail \o <<>> /\ x.min <= x.min /\ x.max <= x.max
      BY <2>2
    <2> QED
      BY <1>3, <1>4, <2>1, <2>3 DEF Advances
  <1>6. PastRight(t, past)
    BY <1>2, <1>5, PastKept
  <1>7. ConflRight(t, confl)
    BY <1>2, <1>3 DEF ConflRight
  <1>8. LLInv'
    BY <1>1, <1>4, <1>6, <1>7 DEF LLInv, t
  <1> QED
    BY <1>3, <1>8 DEF t

LEMMA OpenKeeps ==
  ASSUME BoundsRight, LLInv, Opens
  PROVE  LLInv'
  <1> DEFINE p == [li |-> x.li, hi |-> x.hi, min |-> x.min, max |-> x.max, len |-> Len(x.trail)]
  <1>1. past' = Append(past, p) /\ UNCHANGED <<x, confl, in_queue>> /\ Len(past) < MaxLevel
    BY DEF Opens
  <1>2. /\ past \in Seq(LevelType) /\ (\A k \in DOMAIN past : Level(x, past[k]))
        /\ \A j, k \in DOMAIN past : j <= k => past[j].len <= past[k].len /\ past[j].min <= past[k].min /\ past[k].max <= past[j].max
    BY DEF LLInv, PastRight
  <1>3. StateRight(x) /\ x \in StateType /\ x.trail \in Seq(Entry) /\ x.min \in Int /\ x.max \in Int
    BY StateFacts DEF LLInv, StateRight
  <1>4. Len(x.trail) \in Nat /\ Len(x.trail) \in 0 .. Len(x.trail)
    BY <1>3
  <1>5. p \in LevelType /\ p.len = Len(x.trail) /\ p.min = x.min /\ p.max = x.max /\ p.li = x.li /\ p.hi = x.hi
    BY <1>3, <1>4 DEF LevelType, StateType
  <1> HIDE DEF p
  <1>6. Level(x, p)
    <2>1. SubSeq(x.trail, 1, Len(x.trail)) = x.trail
      BY <1>3, SubSeqFull
    <2>2. Placed(x.ld, p)
      BY <1>3, <1>5 DEF StateRight, Placed
    <2>3. x.min <= x.min /\ x.max <= x.max
      BY <1>3
    <2> QED
      BY <1>3, <1>4, <1>5, <2>1, <2>2, <2>3 DEF Level, StateRight
  <1>7. \A k \in DOMAIN past : past[k].len <= p.len /\ past[k].min <= p.min /\ p.max <= past[k].max
    <2>1. \A k \in DOMAIN past : past[k].len \in 0 .. Len(x.trail) /\ past[k].min <= x.min /\ x.max <= past[k].max
      BY <1>2 DEF Level
    <2> QED
      BY <1>4, <1>5, <2>1
  <1>8. /\ Append(past, p) \in Seq(LevelType) /\ DOMAIN Append(past, p) = DOMAIN past \cup {Len(past) + 1}
        /\ Append(past, p)[Len(past) + 1] = p /\ \A k \in DOMAIN past : Append(past, p)[k] = past[k] /\ k \in 1 .. Len(past)
        /\ Len(past) \in Nat /\ Len(Append(past, p)) = Len(past) + 1
    BY <1>2, <1>5
  <1>9. PastRight(x, Append(past, p))
    <2>1. \A k \in DOMAIN Append(past, p) : Level(x, Append(past, p)[k])
      BY <1>2, <1>6, <1>8
    <2>2. ASSUME NEW j \in DOMAIN Append(past, p), NEW k \in DOMAIN Append(past, p), j <= k
          PROVE  LET P == Append(past, p) IN P[j].len <= P[k].len /\ P[j].min <= P[k].min /\ P[k].max <= P[j].max
      <3>1. CASE k \in DOMAIN past
        <4>1. j \in DOMAIN past
          BY <1>8, <2>2, <3>1
        <4> QED
          BY <1>2, <1>8, <2>2, <3>1, <4>1
      <3>2. CASE k = Len(past) + 1
        <4>1. CASE j \in DOMAIN past
          BY <1>7, <1>8, <3>2, <4>1
        <4>2. CASE j = Len(past) + 1
          BY <1>3, <1>4, <1>5, <1>8, <3>2, <4>2
        <4> QED
          BY <1>8, <4>1, <4>2
      <3> QED
        BY <1>8, <3>1, <3>2
    <2> QED
      BY <1>8, <2>1, <2>2 DEF PastRight
  <1>10. Len(past') <= MaxLevel
    BY <1>1, <1>8 DEF BoundsRight
  <1> QED
    BY <1>1, <1>9, <1>10 DEF LLInv

LEMMA RestoredShape ==
  ASSUME x \in StateType, NEW then \in LevelType, then.len \in 0 .. Len(x.trail), NEW t, t = restored(then)
  PROVE  /\ t \in StateType /\ t.ld = x.ld /\ t.li = then.li /\ t.hi = then.hi /\ t.min = then.min /\ t.max = then.max
         /\ t.trail = SubSeq(x.trail, 1, then.len)
  <1> DEFINE z == x.trail
             q == SubSeq(z, 1, then.len)
  <1>1. z \in Seq(Entry) /\ then.len \in 0 .. Len(z)
    BY DEF StateType
  <1> HIDE DEF z
  <1>2. q \in Seq(Entry)
    BY <1>1, PrefixType
  <1>3. t = [x EXCEPT !.li = then.li, !.hi = then.hi, !.min = then.min, !.max = then.max, !.trail = q, !.changes = {}]
    BY Zenon DEF restored, z
  <1>4. then.li \in Int /\ then.hi \in Int /\ then.min \in Int /\ then.max \in Int
    BY DEF LevelType
  <1> HIDE DEF q
  <1>5. /\ t \in StateType /\ t.ld = x.ld /\ t.li = then.li /\ t.hi = then.hi /\ t.min = then.min /\ t.max = then.max
        /\ t.trail = q
    BY <1>2, <1>3, <1>4 DEF StateType, Events
  <1> QED
    BY <1>5 DEF q, z

LEMMA BackKeeps ==
  ASSUME BoundsRight, LLInv, NEW l \in 0 .. Len(past) - 1, Returns(l)
  PROVE  LLInv' /\ x'.min = past[l + 1].min /\ x'.max = past[l + 1].max
  <1> DEFINE then == past[l + 1]
             t == x'
  <1>1. t = restored(then) /\ past' = SubSeq(past, 1, l) /\ confl' = {} /\ in_queue' = FALSE
    BY DEF Returns
  <1>2. /\ past \in Seq(LevelType) /\ (\A k \in DOMAIN past : Level(x, past[k]))
        /\ \A j, k \in DOMAIN past : j <= k => past[j].len <= past[k].len /\ past[j].min <= past[k].min /\ past[k].max <= past[j].max
    BY DEF LLInv, PastRight
  <1>3. /\ StateRight(x) /\ x \in StateType /\ ListRight(x.ld)
        /\ Len(past) \in Nat /\ Len(past) <= MaxLevel /\ l \in 0 .. Len(past)
    BY <1>2 DEF LLInv, StateRight
  <1>4. l + 1 \in DOMAIN past /\ then \in LevelType /\ Level(x, then)
    BY <1>2
  <1> HIDE DEF then, t
  <1>5. /\ t \in StateType /\ t.ld = x.ld /\ t.li = then.li /\ t.hi = then.hi /\ t.min = then.min /\ t.max = then.max
        /\ t.trail = SubSeq(x.trail, 1, then.len) /\ then.len \in 0 .. Len(x.trail)
    <2>1. then.len \in 0 .. Len(x.trail)
      BY <1>4 DEF Level
    <2> QED
      BY <1>1, <1>3, <1>4, <2>1, RestoredShape
  <1>6. StateRight(t)
    <2>1. Placed(t.ld, t)
      BY <1>4, <1>5 DEF Level, Placed
    <2>2. Enqueues(t.ld, {}, t.trail, Truths(t.ld, t.min, t.max))
      BY <1>4, <1>5 DEF Level
    <2> QED
      BY <1>3, <1>5, <2>1, <2>2 DEF StateRight
  <1>7. past' \in Seq(LevelType) /\ Len(past') = l /\ DOMAIN past' = 1 .. l /\ \A k \in 1 .. l : past'[k] = past[k] /\ k \in DOMAIN past /\ k <= l + 1
    <2>1. past' \in Seq(LevelType) /\ Len(past') = l /\ \A k \in 1 .. l : past'[k] = past[k]
      BY <1>1, <1>2, <1>3, PrefixType
    <2> QED
      BY <1>2, <2>1
  <1> DEFINE z == x.trail
  <1>8. z \in Seq(Entry) /\ then.len \in 0 .. Len(z) /\ t.trail = SubSeq(z, 1, then.len)
    BY <1>3, <1>5 DEF StateType
  <1> HIDE DEF z
  <1>9. Len(t.trail) = then.len
    BY <1>8, PrefixType
  <1>10. \A k \in DOMAIN past' : Level(t, past'[k])
    <2> SUFFICES ASSUME NEW k \in 1 .. l PROVE Level(t, past[k])
      BY <1>7
    <2> DEFINE p == past[k]
    <2>1. p.len <= then.len /\ p.min <= then.min /\ then.max <= p.max /\ Level(x, p)
      BY <1>2, <1>4, <1>7 DEF then
    <2> HIDE DEF p
    <2>2. p.len \in 0 .. then.len
      BY <1>5, <2>1 DEF Level
    <2>3. SubSeq(SubSeq(z, 1, then.len), 1, p.len) = SubSeq(z, 1, p.len)
      BY <1>8, <2>2, PrefixOfPrefix
    <2>4. SubSeq(t.trail, 1, p.len) = SubSeq(x.trail, 1, p.len)
      BY <1>8, <2>3 DEF z
    <2>5. Level(t, p)
      BY <1>5, <1>9, <2>1, <2>2, <2>4 DEF Level
    <2> QED
      BY <2>5 DEF p
  <1>11. \A j, k \in DOMAIN past' : j <= k => past'[j].len <= past'[k].len /\ past'[j].min <= past'[k].min /\ past'[k].max <= past'[j].max
    BY <1>2, <1>7
  <1>12. PastRight(t, past')
    BY <1>7, <1>10, <1>11 DEF PastRight
  <1>13. Len(past') <= MaxLevel
    BY <1>3, <1>7 DEF BoundsRight
  <1>14. ConflRight(t, {})
    BY DEF ConflRight
  <1>15. LLInv'
    BY <1>1, <1>6, <1>12, <1>13, <1>14 DEF LLInv, t
  <1> QED
    BY <1>5, <1>15 DEF t, then

-----------------------------------------------------------------------------
(* Init: the two ends of the list, which mark the bounds.                    *)

LEMMA InitRight ==
  ASSUME BoundsRight, Init
  PROVE  LLInv
  <1> DEFINE a == [val |-> min0 - 1, prev |-> -1, next |-> 2]
             b == [val |-> max0, prev |-> 1, next |-> -1]
             ld == <<a, b>>
             e1 == entry(ge(1), {})
             e2 == entry(le(2), {})
             e3 == entry(valLit, {})
             c == {"C", "L", "U"} \cup IF min0 = max0 THEN {"F"} ELSE {}
             ends == <<e1, e2>>
             more == IF min0 = max0 THEN <<e3>> ELSE <<>>
             both == {ge(1), le(2)}
             tr == ends \o more
             s == [ld |-> ld, li |-> 1, hi |-> 2, min |-> min0, max |-> max0, trail |-> tr, changes |-> c]
  <1>1. x = s /\ confl = {} /\ in_queue = TRUE /\ past = <<>>
    BY DEF Init
  <1>2. min0 \in Int /\ max0 \in Int /\ min0 <= max0 /\ MaxLevel \in Nat
    BY DEF BoundsRight
  <1>3. /\ a \in NodeType /\ b \in NodeType /\ a.val = min0 - 1 /\ a.prev = -1 /\ a.next = 2
        /\ b.val = max0 /\ b.prev = 1 /\ b.next = -1
    BY <1>2 DEF NodeType
  <1> HIDE DEF a, b
  <1>4. ld \in Seq(NodeType) /\ Len(ld) = 2 /\ DOMAIN ld = {1, 2} /\ ld[1] = a /\ ld[2] = b
    BY <1>3
  <1> HIDE DEF ld
  <1>5. ListRight(ld)
    <2>1. \A n \in DOMAIN ld : ld[n].val \in min0 - 1 .. max0
      BY <1>2, <1>3, <1>4
    <2>2. \A n \in DOMAIN ld \ {2} : Linked(ld, n)
      BY <1>2, <1>3, <1>4 DEF Linked
    <2>3. \A n \in DOMAIN ld \ {1} : Backed(ld, n)
      BY <1>3, <1>4 DEF Backed
    <2>4. \A m, n \in DOMAIN ld : ld[m].val = ld[n].val => m = n
      BY <1>2, <1>3, <1>4
    <2> QED
      BY <1>3, <1>4, <2>1, <2>2, <2>3, <2>4 DEF ListRight
  <1>6. DOMAIN ld \subseteq Int /\ ge(1) \in LitOf(ld) /\ le(2) \in LitOf(ld) /\ {} \in SUBSET (LitOf(ld) \cup Given)
    <2>1. 1 \in DOMAIN ld /\ 2 \in DOMAIN ld /\ DOMAIN ld \subseteq Int
      BY <1>4
    <2>2. \A n \in DOMAIN ld : ge(n) \in LitOf(ld) /\ le(n) \in LitOf(ld)
      BY <2>1, LitType
    <2> QED
      BY <2>1, <2>2
  <1>7. e1 \in Entry /\ Enqueues(ld, {}, <<e1>>, {ge(1)})
    <2>1. Explains(ld, {}, ge(1), {})
      BY DEF Explains
    <2>2. e1 \in Entry /\ Enqueues(ld, {}, <<e1>>, {} \cup {ge(1)})
      BY <1>6, <2>1, OneMore
    <2> QED
      BY <2>2
  <1>8. e2 \in Entry /\ Enqueues(ld, {ge(1)}, <<e2>>, {ge(1), le(2)})
    <2>1. Explains(ld, {}, le(2), {ge(1)})
      BY DEF Explains
    <2>2. le(2) \notin {ge(1)} /\ neg(le(2)) \notin {ge(1)}
      BY LitShape
    <2>3. e2 \in Entry /\ Enqueues(ld, {ge(1)}, <<e2>>, {ge(1)} \cup {le(2)})
      BY <1>6, <2>1, <2>2, OneMore
    <2> QED
      BY <2>3
  <1> HIDE DEF e1, e2
  <1>9. ends = <<e1>> \o <<e2>>
    <2>1. ASSUME NEW f1 \in Entry, NEW f2 \in Entry PROVE <<f1, f2>> = <<f1>> \o <<f2>>
      <3>1. <<f1>> \in Seq(Entry) /\ <<f2>> \in Seq(Entry) /\ <<f1, f2>> \in Seq(Entry)
        OBVIOUS
      <3>2. Len(<<f1>> \o <<f2>>) = 2 /\ (<<f1>> \o <<f2>>)[1] = f1 /\ (<<f1>> \o <<f2>>)[2] = f2
        BY <3>1
      <3>3. <<f1>> \o <<f2>> \in Seq(Entry) /\ Len(<<f1, f2>>) = 2 /\ <<f1, f2>>[1] = f1 /\ <<f1, f2>>[2] = f2
        BY <3>1
      <3>4. \A i \in 1 .. 2 : i = 1 \/ i = 2
        OBVIOUS
      <3> QED
        BY <3>1, <3>2, <3>3, <3>4, SeqEqual
    <2> QED
      BY <1>7, <1>8, <2>1
  <1> HIDE DEF ends
  <1>10. Enqueues(ld, {}, ends, both)
    BY <1>7, <1>8, <1>9, EnqueueThen
  <1>11. Truths(ld, min0, max0) = both \cup (IF min0 = max0 THEN {valLit} ELSE {})
    <2>1. {k \in DOMAIN ld : ld[k].val < min0} = {1} /\ {k \in DOMAIN ld : ld[k].val >= max0} = {2}
      BY <1>2, <1>3, <1>4
    <2> QED
      BY <2>1 DEF Truths
  <1>12. Enqueues(ld, both, more, Truths(ld, min0, max0))
    <2>1. CASE min0 = max0
      <3>1. Explains(ld, {}, valLit, both)
        BY DEF Explains
      <3>2. valLit \notin both /\ neg(valLit) \notin both
        BY DEF ge, le, valLit, neg
      <3>3. valLit \in LitOf(ld)
        BY <1>4, <1>6, LitType
      <3> HIDE DEF both
      <3>4. Enqueues(ld, both, <<entry(valLit, {})>>, both \cup {valLit})
        BY <1>6, <3>1, <3>2, <3>3, OneMore
      <3> QED
        BY <1>11, <2>1, <3>4
    <2>2. CASE min0 # max0
      <3> HIDE DEF both
      <3>1. Enqueues(ld, both, <<>>, both) /\ Truths(ld, min0, max0) = both
        BY <1>11, <2>2, EnqueueNone
      <3> QED
        BY <2>2, <3>1
    <2> QED
      BY <2>1, <2>2
  <1> HIDE DEF more, both
  <1>13. Enqueues(ld, {}, tr, Truths(ld, min0, max0))
    BY <1>10, <1>12, EnqueueThen
  <1> HIDE DEF tr
  <1>14. c \in SUBSET Events /\ tr \in Seq(Entry)
    BY <1>13 DEF Events, Enqueues
  <1> HIDE DEF c
  <1>15. /\ s \in StateType /\ s.ld = ld /\ s.li = 1 /\ s.hi = 2 /\ s.min = min0 /\ s.max = max0 /\ s.trail = tr
    BY <1>2, <1>4, <1>14 DEF StateType
  <1> HIDE DEF s
  <1>16. Placed(s.ld, s)
    BY <1>2, <1>3, <1>4, <1>15 DEF Placed, Value
  <1>17. StateRight(s)
    BY <1>5, <1>15, <1>16, <1>13 DEF StateRight
  <1>18. PastRight(s, <<>>) /\ ConflRight(s, {})
    BY DEF PastRight, ConflRight
  <1>19. Len(past) <= MaxLevel
    BY <1>1, <1>2
  <1> QED
    BY <1>1, <1>17, <1>18, <1>19 DEF LLInv

LEMMA LLNext ==
  ASSUME BoundsRight, LLInv, [Next]_vars
  PROVE  LLInv'
  <1>1. ASSUME UNCHANGED vars PROVE LLInv'
    BY <1>1 DEF vars, LLInv
  <1>2. ASSUME Next PROVE LLInv'
    BY <1>1, <1>2, Moves, CutKeeps, FailKeeps, AskKeeps, WakeKeeps, OpenKeeps, BackKeeps
  <1> QED
    BY <1>1, <1>2

-----------------------------------------------------------------------------
(* What the invariant says.                                                  *)

LEMMA AssignsOf == assigns = Lits(x.trail)
  BY DEF assigns, Lits

LEMMA LiteralsFollow ==
  ASSUME BoundsRight, LLInv
  PROVE  LiteralsAgree
  <1>1. StateRight(x)
    BY DEF LLInv
  <1>2. ASSUME NEW n \in Nodes
        PROVE  (isTrue(ge(n)) <=> x.ld[n].val < x.min) /\ (isFalse(ge(n)) <=> x.ld[n].val >= x.max)
    <2>1. /\ (ge(n) \in Lits(x.trail) <=> x.ld[n].val < x.min)
          /\ (le(n) \in Lits(x.trail) <=> x.ld[n].val >= x.max)
      BY <1>1, NodeTrue DEF Nodes
    <2>2. neg(ge(n)) = le(n)
      BY LitShape
    <2> QED
      BY <2>1, <2>2, AssignsOf DEF isTrue, isFalse
  <1>3. isTrue(valLit) <=> x.min = x.max
    BY <1>1, FixedTrue, AssignsOf DEF isTrue
  <1> QED
    BY <1>2, <1>3 DEF LiteralsAgree

LEMMA SaysClaims ==
  ASSUME NEW l, NEW d
  PROVE  Says(l, d) = Claims(x.ld, l, d)
  BY DEF Says, Claims

LEMMA EnqueuedInOrder ==
  ASSUME BoundsRight, LLInv
  PROVE  EnqueuedRightly
  <1>1. \A i \in DOMAIN x.trail : May(x.ld, x.trail[i], Before({}, x.trail, i))
    BY DEF LLInv, StateRight, Enqueues
  <1>2. ASSUME NEW i \in DOMAIN x.trail
        PROVE  LET e == x.trail[i]
                   before == {x.trail[j].lit : j \in 1 .. i - 1}
               IN /\ e.lit \notin before /\ neg(e.lit) \notin before
                  /\ e.reason # {} /\ e.reason # Given =>
                       /\ \A l \in e.reason : neg(l) \in before
                       /\ IF e.lit = valLit
                          THEN Cardinality({d \in Value : ~ \E l \in e.reason : Says(l, d)}) = 1
                          ELSE \A d \in Value : \E l \in e.reason \cup {e.lit} : Says(l, d)
    <2> DEFINE e == x.trail[i]
               before == {x.trail[j].lit : j \in 1 .. i - 1}
    <2>1. May(x.ld, e, before)
      <3>1. Before({}, x.trail, i) = before
        BY DEF Before
      <3> QED
        BY <1>1, <3>1
    <2> HIDE DEF e, before
    <2>2. e.lit \notin before /\ neg(e.lit) \notin before /\ Explains(x.ld, e.reason, e.lit, before)
      BY <2>1 DEF May
    <2>3. Left(x.ld, e.reason) = {d \in Value : ~ \E l \in e.reason : Says(l, d)}
      BY SaysClaims DEF Left
    <2>4. /\ e.lit \notin before /\ neg(e.lit) \notin before
          /\ e.reason # {} /\ e.reason # Given =>
               /\ \A l \in e.reason : neg(l) \in before
               /\ IF e.lit = valLit
                  THEN Cardinality({d \in Value : ~ \E l \in e.reason : Says(l, d)}) = 1
                  ELSE \A d \in Value : \E l \in e.reason \cup {e.lit} : Says(l, d)
      BY <2>2, <2>3, SaysClaims DEF Explains
    <2> QED
      BY <2>4 DEF e, before
  <1>3. \A l \in confl \ Given : isFalse(l)
    BY AssignsOf DEF LLInv, ConflRight, isFalse
  <1> QED
    BY <1>2, <1>3 DEF EnqueuedRightly

LEMMA ListFollows ==
  ASSUME BoundsRight, LLInv
  PROVE  ListMarksBounds
  <1>1. StateRight(x) /\ ListRight(x.ld) /\ Placed(x.ld, x) /\ Len(past) <= MaxLevel /\ in_queue \in BOOLEAN
    BY DEF LLInv, StateRight
  <1>2. x.changes \in SUBSET Events /\ Nodes = DOMAIN x.ld /\ Lit = LitOf(x.ld)
    BY <1>1, StateFacts DEF Nodes, Lit, LitOf
  <1>3. ASSUME NEW i \in DOMAIN x.trail PROVE x.trail[i].lit \in Lit /\ x.trail[i].reason \subseteq Lit \cup Given
    <2>1. May(x.ld, x.trail[i], Before({}, x.trail, i))
      BY <1>1 DEF StateRight, Enqueues
    <2> QED
      BY <1>2, <2>1 DEF May
  <1>4. confl \subseteq Lit \cup {Constant(b) : b \in BOOLEAN}
    BY <1>2 DEF LLInv, ConflRight
  <1>5. TypeOK
    <2>1. /\ x.min \in Value /\ x.max \in Value /\ x.min <= x.max /\ x.li \in Nodes /\ x.hi \in Nodes
          /\ \A n \in Nodes : x.ld[n].val \in min0 - 1 .. max0
      BY <1>1, <1>2 DEF Placed, ListRight
    <2> QED
      BY <1>1, <1>2, <1>3, <1>4, <2>1 DEF TypeOK, Events
  <1>6. ListSorted
    <2>1. \A n \in Nodes \ {2} : x.ld[n].next \in Nodes /\ x.ld[n].val < x.ld[x.ld[n].next].val /\ x.ld[x.ld[n].next].prev = n
      BY <1>1, <1>2 DEF ListRight, Linked
    <2>2. \A n \in Nodes \ {1} : x.ld[n].prev \in Nodes /\ x.ld[x.ld[n].prev].next = n
      BY <1>1, <1>2 DEF ListRight, Backed
    <2>3. \A m, n \in Nodes : x.ld[m].val = x.ld[n].val => m = n
      BY <1>1, <1>2 DEF ListRight
    <2> QED
      BY <2>1, <2>2, <2>3 DEF ListSorted
  <1>7. PlacesMarkBounds
    BY <1>1 DEF Placed, PlacesMarkBounds
  <1> QED
    BY <1>5, <1>6, <1>7 DEF ListMarksBounds

=============================================================================
