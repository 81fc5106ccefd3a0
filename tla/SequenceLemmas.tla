--------------------------- MODULE SequenceLemmas ---------------------------
(***************************************************************************)
(* Facts about sequences used as queues, which the library does not state, *)
(* and two about data that is built step by step: induction over a range   *)
(* and the functions that recursion over a range defines.                  *)
(***************************************************************************)
EXTENDS Naturals, Sequences, SequenceTheorems, WellFoundedInduction, TLAPS

(* Induction.  The library's theorem is about an operator; that a set of    *)
(* numbers has a least element says the same of a set.                      *)
Below == OpToRel(<, Nat)

LEMMA BelowIs == \A k, m \in Nat : <<k, m>> \in Below <=> k < m
BY Zenon DEF Below, OpToRel

LEMMA BelowIsWellFounded == IsWellFoundedOn(Below, Nat)
BY NatLessThanWellFounded, Zenon DEF Below

LEMMA LeastOfSome ==
    ASSUME NEW T, T \subseteq Nat, T # {}
    PROVE  \E m \in T : \A k \in T : m <= k
<1>1. PICK m \in T : \A k \in T : <<k, m>> \notin Below
  BY BelowIsWellFounded, WFMin, Zenon
<1>2. \A k \in T : ~(k < m)
  BY <1>1, BelowIs
<1>3. QED BY <1>2

\* What holds of 0 and with i of i + 1 holds of all of 0..n.
LEMMA Climb ==
    ASSUME NEW S, NEW n \in Nat, 0 \in S, \A i \in 0..(n - 1) : i \in S => i + 1 \in S
    PROVE  \A i \in 0..n : i \in S
<1> DEFINE T == {i \in 0..n : i \notin S}
<1>1. SUFFICES ASSUME T # {} PROVE FALSE
  OBVIOUS
<1>2. PICK m \in T : \A k \in T : m <= k
  <2>1. T \subseteq Nat
    OBVIOUS
  <2> HIDE DEF T
  <2>2. QED BY <1>1, <2>1, LeastOfSome
<1>3. m # 0 /\ m - 1 \in 0..(n - 1)
  OBVIOUS
<1>4. m - 1 \in S
  BY <1>2, <1>3
<1>5. QED BY <1>3, <1>4

\* A loop over 1..n starts from a and stays in S.
IsLoop(S, n, a, step) == n \in Nat /\ a \in S /\ \A x \in S, i \in 1..n : step[<<x, i>>] \in S

\* A loop has a function of what it has reached after every step.
LEMMA LoopIsFunction ==
    ASSUME NEW S, NEW n, NEW a, NEW step, IsLoop(S, n, a, step)
    PROVE  \E g \in [0..n -> S] : g[0] = a /\ \A i \in 1..n : g[i] = step[<<g[i - 1], i>>]
<1> USE DEF IsLoop
<1> DEFINE Reached(g, k) == g[0] = a /\ \A i \in 1..k : g[i] = step[<<g[i - 1], i>>]
           T == {k \in 0..n : \E g \in [0..k -> S] : Reached(g, k)}
<1>1. 0 \in T
  <2> DEFINE g == [i \in 0..0 |-> a]
  <2>1. g \in [0..0 -> S] /\ Reached(g, 0)
    OBVIOUS
  <2> HIDE DEF g, Reached
  <2>2. QED BY <2>1
<1>2. ASSUME NEW k \in 0..(n - 1), k \in T PROVE k + 1 \in T
  <2>1. PICK g \in [0..k -> S] : Reached(g, k)
    BY <1>2
  <2> DEFINE s == step[<<g[k], k + 1>>]
             h == [i \in 0..(k + 1) |-> IF i = k + 1 THEN s ELSE g[i]]
  <2>2. s \in S
    OBVIOUS
  <2>3. h \in [0..(k + 1) -> S]
    BY <2>2
  <2>4. h[k + 1] = s /\ \A i \in 0..k : h[i] = g[i]
    OBVIOUS
  <2> HIDE DEF h
  <2>5. ASSUME NEW i \in 1..(k + 1) PROVE h[i] = step[<<h[i - 1], i>>]
    <3>1. CASE i = k + 1
      BY <2>4, <3>1
    <3>2. CASE i # k + 1
      <4>1. i - 1 \in 0..k /\ i \in 1..k /\ i \in 0..k
        BY <3>2
      <4>2. h[i - 1] = g[i - 1] /\ h[i] = g[i]
        BY <2>4, <4>1
      <4>3. g[i] = step[<<g[i - 1], i>>]
        BY <2>1, <4>1
      <4>4. QED BY <4>2, <4>3
    <3>3. QED BY <3>1, <3>2
  <2>6. Reached(h, k + 1)
    <3>1. 0 \in 0..k
      OBVIOUS
    <3>2. QED BY <2>1, <2>4, <2>5, <3>1
  <2> HIDE DEF Reached
  <2>7. QED BY <2>3, <2>6
<1>3. n \in T
  <2> HIDE DEF T
  <2>1. QED BY <1>1, <1>2, Climb
<1>4. QED BY <1>3

-----------------------------------------------------------------------------
(* Queues.                                                                  *)
LOCAL INSTANCE SequencesExt

(* No element is there twice.                                               *)
Distinct(s) == \A i, j \in 1..Len(s) : s[i] = s[j] => i = j

Among(d, s) == \E j \in 1..Len(s) : s[j] = d

\* Removing the i-th element of a sequence: a waiter that leaves its queue.
LEMMA RemoveAtFacts ==
    ASSUME NEW S, NEW s \in Seq(S), NEW i \in 1..Len(s)
    PROVE  /\ RemoveAt(s, i) \in Seq(S)
           /\ Len(RemoveAt(s, i)) = Len(s) - 1
           /\ \A j \in 1..(Len(s) - 1) :
                 RemoveAt(s, i)[j] = IF j < i THEN s[j] ELSE s[j + 1]
<1> DEFINE front == SubSeq(s, 1, i - 1)
           back == SubSeq(s, i + 1, Len(s))
<1>1. Len(s) \in Nat /\ i \in 1..Len(s) /\ \A j \in 1..Len(s) : s[j] \in S
  BY ElementOfSeq
<1>2. /\ front \in Seq(S) /\ Len(front) = i - 1
      /\ \A j \in 1..(i - 1) : front[j] = s[j]
  <2>1. \A j \in 1..(i - 1) : s[j] \in S
    BY <1>1
  <2> QED
    BY <1>1, <2>1, SubSeqProperties
<1>3. /\ back \in Seq(S) /\ Len(back) = Len(s) - i
      /\ \A j \in 1..(Len(s) - i) : back[j] = s[i + j]
  <2>1. \A j \in (i + 1)..Len(s) : s[j] \in S
    BY <1>1
  <2> QED
    BY <1>1, <2>1, SubSeqProperties
<1> HIDE DEF front, back
<1>4. /\ front \o back \in Seq(S) /\ Len(front \o back) = Len(s) - 1
      /\ \A j \in 1..(Len(s) - 1) : (front \o back)[j] = IF j < i THEN s[j] ELSE s[j + 1]
  <2>1. /\ front \o back \in Seq(S)
        /\ Len(front \o back) = Len(front) + Len(back)
        /\ \A j \in 1..(Len(front) + Len(back)) : (front \o back)[j] =
              IF j <= Len(front) THEN front[j] ELSE back[j - Len(front)]
    BY <1>2, <1>3, ConcatProperties
  <2>2. Len(front) + Len(back) = Len(s) - 1
    BY <1>1, <1>2, <1>3
  <2>3. ASSUME NEW j \in 1..(Len(s) - 1)
        PROVE  (front \o back)[j] = IF j < i THEN s[j] ELSE s[j + 1]
    <3>1. CASE j < i
      BY <1>1, <1>2, <2>1, <2>2, <3>1
    <3>2. CASE ~(j < i)
      <4>1. j - (i - 1) \in 1..(Len(s) - i) /\ i + (j - (i - 1)) = j + 1
        BY <1>1, <3>2
      <4>2. (front \o back)[j] = back[j - (i - 1)]
        <5>1. ~(j <= Len(front)) /\ j \in 1..(Len(front) + Len(back))
          BY <1>1, <1>2, <2>2, <3>2
        <5> QED
          BY <1>2, <2>1, <5>1
      <4>3. back[j - (i - 1)] = s[i + (j - (i - 1))]
        BY <1>3, <4>1
      <4> QED
        BY <3>2, <4>1, <4>2, <4>3
    <3> QED
      BY <3>1, <3>2
  <2> QED
    BY <2>1, <2>2, <2>3
<1> QED
  BY <1>4 DEF RemoveAt, front, back

\* Who is left when one element is removed: the others, in the same order.
LEMMA RemovedFacts ==
    ASSUME NEW S, NEW s \in Seq(S), NEW i \in 1..Len(s), Distinct(s)
    PROVE  /\ RemoveAt(s, i) \in Seq(S)
           /\ Distinct(RemoveAt(s, i))
           /\ \A d : Among(d, RemoveAt(s, i)) <=> d # s[i] /\ Among(d, s)
           /\ i # 1 => RemoveAt(s, i) # <<>> /\ RemoveAt(s, i)[1] = s[1]
<1> DEFINE r == RemoveAt(s, i)
<1>1. Len(s) \in Nat /\ i \in 1..Len(s)
  BY LenProperties
<1>2. /\ r \in Seq(S) /\ Len(r) = Len(s) - 1
      /\ \A j \in 1..(Len(s) - 1) : r[j] = IF j < i THEN s[j] ELSE s[j + 1]
  BY RemoveAtFacts
<1> HIDE DEF r
<1>3. Distinct(r)
  <2> DEFINE place(j) == IF j < i THEN j ELSE j + 1
  <2>1. \A j \in 1..Len(r) : place(j) \in 1..Len(s) /\ r[j] = s[place(j)]
    BY <1>1, <1>2
  <2>2. \A j, k \in 1..Len(r) : place(j) = place(k) => j = k
    BY <1>1, <1>2
  <2> HIDE DEF place
  <2>3. QED BY <2>1, <2>2 DEF Distinct
<1>4. ASSUME NEW d, NEW j \in 1..Len(r), r[j] = d
      PROVE  d # s[i] /\ \E k \in 1..Len(s) : s[k] = d
  <2>1. CASE j < i
    BY <1>1, <1>2, <1>4, <2>1 DEF Distinct
  <2>2. CASE ~(j < i)
    <3>1. j + 1 \in 1..Len(s) /\ j + 1 # i /\ s[j + 1] = d
      BY <1>1, <1>2, <1>4, <2>2
    <3>2. QED BY <1>1, <3>1 DEF Distinct
  <2>3. QED BY <2>1, <2>2
<1>5. ASSUME NEW d, d # s[i], NEW j \in 1..Len(s), s[j] = d
      PROVE  \E k \in 1..Len(r) : r[k] = d
  <2>1. CASE j < i
    <3>1. j \in 1..Len(r) /\ r[j] = d
      BY <1>1, <1>2, <1>5, <2>1
    <3>2. QED BY <3>1
  <2>2. CASE ~(j < i)
    <3>1. j - 1 \in 1..Len(r) /\ r[j - 1] = s[(j - 1) + 1]
      BY <1>1, <1>2, <1>5, <2>2
    <3>2. r[j - 1] = d
      BY <1>1, <1>5, <3>1
    <3>3. QED BY <3>1, <3>2
  <2>3. QED BY <2>1, <2>2
<1>6. i # 1 => r # <<>> /\ r[1] = s[1]
  <2>1. ASSUME i # 1 PROVE 1 \in 1..(Len(s) - 1) /\ 1 < i
    BY <1>1, <2>1
  <2>2. QED BY <1>1, <1>2, <2>1, EmptySeq
<1>7. \A d : Among(d, r) <=> d # s[i] /\ Among(d, s)
  BY <1>4, <1>5 DEF Among
<1>8. QED BY <1>2, <1>3, <1>6, <1>7 DEF r

\* Whoever comes waits behind all others.
LEMMA AppendedFacts ==
    ASSUME NEW S, NEW s \in Seq(S), NEW d \in S, Distinct(s), ~Among(d, s)
    PROVE  /\ Append(s, d) \in Seq(S) /\ Append(s, d) # <<>>
           /\ Distinct(Append(s, d))
           /\ \A e : Among(e, Append(s, d)) <=> e = d \/ Among(e, s)
           /\ s # <<>> => Append(s, d)[1] = s[1]
<1> DEFINE r == Append(s, d)
<1>1. Len(s) \in Nat /\ (s # <<>> => Len(s) # 0)
  BY LenProperties, EmptySeq
<1>2. /\ r \in Seq(S) /\ Len(r) = Len(s) + 1
      /\ \A i \in 1..Len(s) : r[i] = s[i]
      /\ r[Len(s) + 1] = d
  BY AppendProperties
<1> HIDE DEF r
<1>3. r # <<>>
  BY <1>1, <1>2, EmptySeq
<1>4. \A i \in 1..Len(r) : (i \in 1..Len(s) /\ r[i] = s[i]) \/ (i = Len(s) + 1 /\ r[i] = d)
  BY <1>1, <1>2
<1>5. Distinct(r)
  BY <1>4 DEF Distinct, Among
<1>6. \A e : Among(e, r) <=> e = d \/ Among(e, s)
  <2>1. ASSUME NEW e, Among(e, r) PROVE e = d \/ Among(e, s)
    BY <1>4, <2>1 DEF Among
  <2>2. 1..Len(s) \subseteq 1..Len(r) /\ Len(s) + 1 \in 1..Len(r)
    BY <1>1, <1>2
  <2>3. ASSUME NEW e, e = d \/ Among(e, s) PROVE Among(e, r)
    BY <1>2, <2>2, <2>3 DEF Among
  <2>4. QED BY <2>1, <2>3
<1>7. s # <<>> => r[1] = s[1]
  BY <1>1, <1>2
<1>8. QED BY <1>2, <1>3, <1>5, <1>6, <1>7 DEF r

\* The first goes, and the others move up.
LEMMA TakenFacts ==
    ASSUME NEW S, NEW s \in Seq(S), s # <<>>, Distinct(s)
    PROVE  /\ Tail(s) \in Seq(S) /\ Head(s) = s[1] /\ s[1] \in S
           /\ Among(s[1], s) /\ Distinct(Tail(s))
           /\ \A d : Among(d, Tail(s)) <=> d # s[1] /\ Among(d, s)
<1> DEFINE r == Tail(s)
<1>1. Len(s) \in Nat \ {0}
  BY LenProperties, EmptySeq
<1>2. /\ r \in Seq(S) /\ Len(r) = Len(s) - 1 /\ Head(s) = s[1] /\ s[1] \in S
      /\ \A i \in 1..Len(r) : r[i] = s[i + 1]
  BY <1>1, HeadTailProperties, ElementOfSeq
<1> HIDE DEF r
<1>3. \A i \in 1..Len(r) : i + 1 \in 1..Len(s) /\ i + 1 # 1
  BY <1>1, <1>2
<1>4. Distinct(r)
  <2>1. ASSUME NEW i \in 1..Len(r), NEW j \in 1..Len(r), r[i] = r[j] PROVE i = j
    <3>1. i + 1 = j + 1
      BY <1>2, <1>3, <2>1 DEF Distinct
    <3>2. QED BY <3>1
  <2>2. QED BY <2>1 DEF Distinct
<1>5. 1 \in 1..Len(s)
  BY <1>1
<1>6. \A d : Among(d, r) => d # s[1] /\ Among(d, s)
  BY <1>2, <1>3, <1>5 DEF Among, Distinct
<1>7. ASSUME NEW d, d # s[1], Among(d, s) PROVE Among(d, r)
  <2>1. PICK j \in 1..Len(s) : s[j] = d
    BY <1>7 DEF Among
  <2>2. j - 1 \in 1..Len(r) /\ (j - 1) + 1 = j
    BY <1>1, <1>2, <1>7, <2>1
  <2>3. r[j - 1] = d
    BY <1>2, <2>1, <2>2
  <2>4. QED BY <2>2, <2>3 DEF Among
<1>8. Among(s[1], s)
  BY <1>5 DEF Among
<1>9. QED BY <1>2, <1>4, <1>6, <1>7, <1>8 DEF r
=============================================================================
