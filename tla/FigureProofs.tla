---------------------------- MODULE FigureProofs ----------------------------
(***************************************************************************)
(* What the trials of MarketHours and of SignalPath show of a few days,    *)
(* panels and bars, for every clock, session and calendar of holidays, and *)
(* for every frame, panel, trade, run of bars and split into sessions.     *)
(***************************************************************************)
EXTENDS TrialsMarket, TrialsSignals, FiniteSetTheorems, SequenceTheorems, TLAPS

Loops == INSTANCE SequenceLemmas

IsClock(c) ==
    /\ c.day \in Nat \ {0} /\ c.attempts \in Nat /\ c.horizon \in Nat
    /\ c.opens \in Nat /\ c.squaresOff \in Nat /\ c.closes \in Nat
    /\ c.opens < c.squaresOff /\ c.squaresOff < c.closes /\ c.closes < c.day

IsWindow(c, w) ==
    /\ w.opens \in Nat /\ w.opens < 7 * c.day
    /\ w.closes \in Nat /\ w.closes < 7 * c.day

\* A moment is a day and a tick of it, and no other.
LEMMA DivMod ==
    ASSUME NEW D \in Nat \ {0}, NEW x \in Int
    PROVE  /\ x \div D \in Int /\ x % D \in Int /\ 0 <= x % D /\ x % D < D
           /\ x = D * (x \div D) + (x % D)
OBVIOUS

LEMMA Lexical ==
    ASSUME NEW D \in Nat \ {0}, NEW a \in Int, NEW b \in Int, NEW r \in Int, NEW s \in Int,
           0 <= r, r < D, 0 <= s, s < D
    PROVE  /\ D * a + r < D * b + s <=> a < b \/ (a = b /\ r < s)
           /\ D * a + r = D * b + s <=> a = b /\ r = s
<1>1. ASSUME a < b PROVE D * a + r < D * b + s
  <2>1. D * (b - a) >= D
    BY <1>1
  <2>2. QED BY <2>1
<1>2. ASSUME b < a PROVE D * a + r > D * b + s
  <2>1. D * (a - b) >= D
    BY <1>2
  <2>2. QED BY <2>1
<1>3. QED BY <1>1, <1>2

LEMMA DivModIs ==
    ASSUME NEW D \in Nat \ {0}, NEW a \in Int, NEW r \in Int, 0 <= r, r < D
    PROVE  (D * a + r) \div D = a /\ (D * a + r) % D = r
<1> DEFINE x == D * a + r
<1>1. x \in Int
  OBVIOUS
<1>2. /\ x \div D \in Int /\ x % D \in Int /\ 0 <= x % D /\ x % D < D
      /\ x = D * (x \div D) + (x % D)
  BY <1>1, DivMod
<1> DEFINE q == x \div D
           p == x % D
<1>3. D * a + r = D * q + p
  BY <1>2
<1> HIDE DEF q, p
<1>4. q \in Int /\ p \in Int /\ 0 <= p /\ p < D
  BY <1>2 DEF q, p
<1>5. a = q /\ r = p
  BY <1>3, <1>4, Lexical
<1>6. QED BY <1>5 DEF q, p

LEMMA OfWeek ==
    ASSUME NEW D \in Nat \ {0}, NEW a \in Int, NEW r \in Int, 0 <= r, r < D
    PROVE  (D * a + r) % (7 * D) = D * (a % 7) + r
<1> DEFINE c == a \div 7
           b == a % 7
<1>1. c \in Int /\ b \in 0..6 /\ a = 7 * c + b
  OBVIOUS
<1> HIDE DEF c, b
<1>2. 7 * D \in Nat \ {0} /\ D * b + r \in Int
  BY <1>1
<1>3. 0 <= D * b + r /\ D * b + r < 7 * D
  <2>1. CASE b = 0 BY <2>1
  <2>2. CASE b = 1 BY <2>2
  <2>3. CASE b = 2 BY <2>3
  <2>4. CASE b = 3 BY <2>4
  <2>5. CASE b = 4 BY <2>5
  <2>6. CASE b = 5 BY <2>6
  <2>7. CASE b = 6 BY <2>7
  <2>8. QED BY <1>1, <2>1, <2>2, <2>3, <2>4, <2>5, <2>6, <2>7
<1>4. D * a + r = (7 * D) * c + (D * b + r)
  BY <1>1
<1>5. ((7 * D) * c + (D * b + r)) % (7 * D) = D * b + r
  <2> DEFINE W == 7 * D
             s == D * b + r
  <2>1. W \in Nat \ {0} /\ s \in Int /\ 0 <= s /\ s < W
    BY <1>2, <1>3
  <2> HIDE DEF W, s
  <2>2. (W * c + s) % W = s
    BY <1>1, <2>1, DivModIs
  <2>3. QED BY <2>2 DEF W, s
<1>6. QED BY <1>4, <1>5 DEF b

\* The next opening of a window is the first of its ticks that is later.
LEMMA NextStartIs ==
    ASSUME NEW c, IsClock(c), NEW w, IsWindow(c, w), NEW m \in Nat
    PROVE  LET next == Clock(c)!NextStart(w, m) IN
           /\ next \in Nat /\ m < next /\ next <= m + 7 * c.day
           /\ next % (7 * c.day) = w.opens
<1> DEFINE D == c.day
           a == m \div D
           r == m % D
           b == w.opens \div D
           o == w.opens % D
           ahead == (b - (a % 7)) % 7
           start == (m - r) + ahead * D + o
<1>1. D \in Nat \ {0} /\ w.opens \in Nat /\ w.opens < 7 * D
  BY DEF IsClock, IsWindow
<1> HIDE DEF D
<1>2. a \in Int /\ r \in Int /\ 0 <= r /\ r < D /\ m = D * a + r
  BY <1>1, DivMod
<1>3. b \in Int /\ o \in Int /\ 0 <= o /\ o < D /\ w.opens = D * b + o
  <2> DEFINE x == w.opens
  <2>1. x \in Int
    BY <1>1
  <2> HIDE DEF x
  <2>2. /\ x \div D \in Int /\ x % D \in Int /\ 0 <= x % D /\ x % D < D
        /\ x = D * (x \div D) + (x % D)
    BY <1>1, <2>1, DivMod
  <2>3. QED BY <2>2 DEF x
<1> HIDE DEF a, r, o
<1>4. b \in 0..6
  <2> HIDE DEF b
  <2>1. D * 0 + 0 <= D * b + o /\ D * b + o < D * 7 + 0
    BY <1>1, <1>3
  <2>2. ~(b < 0)
    <3>1. ASSUME b < 0 PROVE FALSE
      <4>1. D * b + o < D * 0 + 0
        BY <1>1, <1>3, <3>1, Lexical
      <4>2. QED BY <2>1, <4>1, <1>1, <1>3
    <3>2. QED BY <3>1
  <2>3. b < 7 \/ (b = 7 /\ o < 0)
    BY <1>1, <1>3, <2>1, Lexical
  <2>4. QED BY <1>3, <2>2, <2>3
<1> HIDE DEF b
<1>5. ahead \in 0..6 /\ (a + ahead) % 7 = b
  BY <1>2, <1>4
<1> HIDE DEF ahead
<1>6. ahead * D >= 0 /\ ahead * D <= 6 * D
  <2>1. CASE ahead = 0 BY <1>1, <2>1
  <2>2. CASE ahead = 1 BY <1>1, <2>2
  <2>3. CASE ahead = 2 BY <1>1, <2>3
  <2>4. CASE ahead = 3 BY <1>1, <2>4
  <2>5. CASE ahead = 4 BY <1>1, <2>5
  <2>6. CASE ahead = 5 BY <1>1, <2>6
  <2>7. CASE ahead = 6 BY <1>1, <2>7
  <2>8. QED BY <1>5, <2>1, <2>2, <2>3, <2>4, <2>5, <2>6, <2>7
<1>7. start = D * (a + ahead) + o
  BY <1>1, <1>2, <1>3, <1>5
<1>8. start % (7 * D) = w.opens
  <2>1. (D * (a + ahead) + o) % (7 * D) = D * ((a + ahead) % 7) + o
    BY <1>1, <1>2, <1>3, <1>5, OfWeek
  <2>2. QED BY <1>3, <1>5, <1>7, <2>1
<1>9. start \in Int /\ start > m - D /\ start < m + 7 * D
  <2> DEFINE e == ahead * D
  <2>1. e \in Int /\ e >= 0 /\ e <= 6 * D
    BY <1>1, <1>5, <1>6
  <2> HIDE DEF e
  <2>2. start = (m - r) + e + o
    BY DEF e
  <2> HIDE DEF start
  <2>3. QED BY <1>1, <1>2, <1>3, <2>1, <2>2
<1>10. (start + 7 * D) % (7 * D) = w.opens
  <2> DEFINE q == a + ahead + 7
  <2>1. start + 7 * D = D * q + o
    BY <1>1, <1>2, <1>3, <1>5, <1>7
  <2>2. q \in Int /\ q % 7 = b
    BY <1>2, <1>5
  <2> HIDE DEF q
  <2>3. (D * q + o) % (7 * D) = D * (q % 7) + o
    BY <1>1, <1>3, <2>2, OfWeek
  <2>4. QED BY <1>3, <2>1, <2>2, <2>3
<1>11. Clock(c)!NextStart(w, m) = IF start <= m THEN start + 7 * D ELSE start
  BY DEF Clock!NextStart, Clock!WeekDay, Clock!Week, start, ahead, a, b, r, o, D
<1> HIDE DEF start
<1>12. QED BY <1>1, <1>8, <1>9, <1>10, <1>11 DEF D

IsSession(c, s) ==
    /\ IsFiniteSet(s.windows) /\ s.windows # {}
    /\ \A w \in s.windows : IsWindow(c, w)

\* The k-th opening of a window after the next.
Start(c, w, m, k) == Clock(c)!NextStart(w, m) + k * (7 * c.day)
Held(c, s, t) == t \div c.day \in s.holidays

LEMMA StartIs ==
    ASSUME NEW c, IsClock(c), NEW w, IsWindow(c, w), NEW m \in Nat, NEW k \in Nat
    PROVE  /\ Start(c, w, m, k) \in Nat
           /\ m + k * (7 * c.day) < Start(c, w, m, k)
           /\ Start(c, w, m, k) <= m + (k + 1) * (7 * c.day)
           /\ Start(c, w, m, k) >= Start(c, w, m, 0)
           /\ Start(c, w, m, k + 1) = Start(c, w, m, k) + 7 * c.day
           /\ m < Start(c, w, m, k)
<1> DEFINE next == Clock(c)!NextStart(w, m)
           W == 7 * c.day
<1>1. W \in Nat \ {0}
  BY DEF IsClock
<1>2. next \in Nat /\ m < next /\ next <= m + W
  BY NextStartIs
<1> HIDE DEF next, W
<1>3. k * W \in Nat /\ (k + 1) * W = k * W + W
  BY <1>1
<1>4. /\ Start(c, w, m, k) = next + k * W /\ Start(c, w, m, 0) = next + 0 * W
      /\ Start(c, w, m, k + 1) = next + (k + 1) * W
  BY DEF Start, next, W
<1>5. 0 * W = 0
  BY <1>1
<1> DEFINE e == k * W
<1> HIDE DEF e
<1>6. e \in Nat /\ (k + 1) * W = e + W /\ Start(c, w, m, k) = next + e /\ Start(c, w, m, k + 1) = next + (e + W)
  BY <1>3, <1>4 DEF e
<1>7. QED BY <1>1, <1>2, <1>4, <1>5, <1>6 DEF W, e

\* There are no others.
LEMMA StartsOnly ==
    ASSUME NEW c, IsClock(c), NEW w, IsWindow(c, w), NEW m \in Nat,
           NEW t \in Nat, m < t, t % (7 * c.day) = w.opens
    PROVE  \E k \in Nat : t = Start(c, w, m, k)
<1> DEFINE next == Clock(c)!NextStart(w, m)
           W == 7 * c.day
           p == next \div W
           q == t \div W
           o == w.opens
<1>1. W \in Nat \ {0}
  BY DEF IsClock
<1>2. next \in Nat /\ m < next /\ next <= m + W /\ next % W = o /\ t % W = o
  BY NextStartIs
<1> HIDE DEF next, W
<1>3. p \in Int /\ next = W * p + (next % W) /\ 0 <= next % W /\ next % W < W
  BY <1>1, <1>2, DivMod
<1>4. q \in Int /\ t = W * q + (t % W)
  BY <1>1, <1>2, DivMod
<1> HIDE DEF p, q
<1>5. o \in Int /\ next = W * p + o /\ t = W * q + o
  BY <1>2, <1>3, <1>4 DEF IsWindow
<1> HIDE DEF o
<1>6. q >= p
  <2>1. ASSUME q < p PROVE FALSE
    <3>1. W * (p - q) >= W
      BY <1>1, <1>3, <1>4, <2>1
    <3>2. W * (p - q) = next - t
      BY <1>1, <1>3, <1>4, <1>5
    <3>3. next - t >= W
      BY <3>1, <3>2
    <3>4. QED BY <1>1, <1>2, <3>3
  <2>2. QED BY <1>3, <1>4, <2>1
<1>7. q - p \in Nat /\ t = next + (q - p) * W
  BY <1>1, <1>3, <1>4, <1>5, <1>6
<1>8. QED BY <1>7 DEF Start, next, W

LEMMA StartsInOrder ==
    ASSUME NEW c, IsClock(c), NEW w, IsWindow(c, w), NEW m \in Nat, NEW j \in Nat, NEW k \in Nat
    PROVE  j < k <=> Start(c, w, m, j) < Start(c, w, m, k)
<1> DEFINE next == Clock(c)!NextStart(w, m)
           W == 7 * c.day
<1>1. W \in Nat \ {0} /\ next \in Nat
  BY NextStartIs DEF IsClock
<1>2. Start(c, w, m, j) = next + j * W /\ Start(c, w, m, k) = next + k * W
  BY DEF Start
<1> HIDE DEF next, W
<1>3. ASSUME j < k PROVE j * W < k * W
  <2>1. W * (k - j) >= W
    BY <1>1, <1>3
  <2>2. QED BY <1>1, <2>1
<1>4. ASSUME k <= j PROVE k * W <= j * W
  <2>1. W * (j - k) >= 0
    BY <1>1, <1>4
  <2>2. QED BY <1>1, <2>1
<1> DEFINE a == j * W
           b == k * W
<1>5. a \in Int /\ b \in Int
  BY <1>1
<1> HIDE DEF a, b
<1>6. QED BY <1>1, <1>2, <1>3, <1>4, <1>5 DEF a, b

\* What the loop of next_open looks at.
Found == Nat \cup {-1}
Acc == [starts : (SUBSET Nat) \ {{}}, found : Found]

Least(S) == CHOOSE x \in S : \A y \in S : x =< y
LEMMA LeastIs ==
    ASSUME NEW S, S \subseteq Nat, S # {}
    PROVE  Least(S) \in S /\ \A y \in S : Least(S) <= y
<1>1. \E x \in S : \A y \in S : x <= y
  BY Loops!LeastOfSome
<1>2. QED BY <1>1 DEF Least

LEMMA LookIs ==
    ASSUME NEW c, IsClock(c), NEW s, NEW acc \in Acc
    PROVE  LET soonest == Least(acc.starts)
               next == Clock(c)!Look(s, acc) IN
           /\ next \in Acc
           /\ acc.found # -1 => next = acc
           /\ acc.found = -1 /\ ~Held(c, s, soonest) => next.starts = acc.starts /\ next.found = soonest
           /\ acc.found = -1 /\ Held(c, s, soonest) =>
                /\ next.starts = (acc.starts \ {soonest}) \cup {soonest + 7 * c.day} /\ next.found = -1
<1> DEFINE soonest == Least(acc.starts)
           next == Clock(c)!Look(s, acc)
<1>1. /\ acc.starts \subseteq Nat /\ acc.starts # {} /\ acc.found \in Found
      /\ acc = [starts |-> acc.starts, found |-> acc.found]
  BY DEF Acc
<1>2. soonest \in acc.starts /\ soonest \in Nat
  BY <1>1, LeastIs
<1>3. next = IF acc.found # -1 THEN acc
             ELSE IF ~Held(c, s, soonest) THEN [acc EXCEPT !.found = soonest]
             ELSE [acc EXCEPT !.starts = (@ \ {soonest}) \cup {soonest + 7 * c.day}]
  BY DEF Clock!Look, Clock!Min, Clock!Unknown, Clock!Week, Held, Least
<1> HIDE DEF soonest, next
<1>4. CASE acc.found # -1
  BY <1>3, <1>4 DEF soonest, next
<1>5. CASE acc.found = -1 /\ ~Held(c, s, soonest)
  <2>1. next = [starts |-> acc.starts, found |-> soonest]
    BY <1>1, <1>3, <1>5
  <2>2. next \in Acc
    BY <1>1, <1>2, <2>1 DEF Acc, Found
  <2>3. QED BY <1>5, <2>1, <2>2 DEF soonest, next
<1>6. CASE acc.found = -1 /\ Held(c, s, soonest)
  <2> DEFINE later == (acc.starts \ {soonest}) \cup {soonest + 7 * c.day}
  <2>1. next = [starts |-> later, found |-> -1]
    BY <1>1, <1>3, <1>6
  <2>2. later \subseteq Nat /\ later # {}
    BY <1>1, <1>2 DEF IsClock
  <2> HIDE DEF later
  <2>3. next \in Acc
    BY <2>1, <2>2 DEF Acc, Found
  <2>4. QED BY <1>6, <2>1, <2>3 DEF soonest, next, later
<1>7. QED BY <1>4, <1>5, <1>6

\* The openings of the next two weeks.
Fortnight(c, s, m) == {Start(c, w, m, k) : w \in s.windows, k \in {0, 1}}
Behind(c, s, m, acc) == {t \in Fortnight(c, s, m) : \A y \in acc.starts : t < y}

LEMMA FortnightIsFinite ==
    ASSUME NEW c, NEW s, IsFiniteSet(s.windows), NEW m
    PROVE  /\ IsFiniteSet(Fortnight(c, s, m))
           /\ Cardinality(Fortnight(c, s, m)) <= 2 * Cardinality(s.windows)
<1> DEFINE W == s.windows
           P == W \X {0, 1}
           f == [p \in P |-> Start(c, p[1], m, p[2])]
           T == Fortnight(c, s, m)
<1>1. IsFiniteSet({0, 1}) /\ Cardinality({0, 1}) = 2
  <2>1. IsFiniteSet({0}) /\ Cardinality({0}) = 1
    BY FS_Singleton
  <2> DEFINE Z == {0}
  <2>2. {0, 1} = Z \cup {1} /\ 1 \notin Z
    OBVIOUS
  <2> HIDE DEF Z
  <2>3. IsFiniteSet(Z \cup {1}) /\ Cardinality(Z \cup {1}) = Cardinality(Z) + 1
    BY <2>1, <2>2, FS_AddElement DEF Z
  <2>4. QED BY <2>1, <2>2, <2>3 DEF Z
<1>2. IsFiniteSet(P) /\ Cardinality(P) = Cardinality(W) * 2
  BY <1>1, FS_Product
<1>3. f \in Surjection(P, T)
  <2>1. f \in [P -> T]
    BY DEF Fortnight
  <2>2. \A t \in T : \E p \in P : f[p] = t
    <3> SUFFICES ASSUME NEW t \in T PROVE \E p \in P : f[p] = t
      OBVIOUS
    <3>1. PICK w \in W, k \in {0, 1} : t = Start(c, w, m, k)
      BY DEF Fortnight
    <3>2. <<w, k>> \in P /\ f[<<w, k>>] = Start(c, w, m, k)
      OBVIOUS
    <3> HIDE DEF f, P, T
    <3>3. QED BY <3>1, <3>2
  <2> HIDE DEF f, P, T
  <2>3. QED BY <2>1, <2>2 DEF Surjection
<1> HIDE DEF f, P, T, W
<1>4. IsFiniteSet(T) /\ Cardinality(T) <= Cardinality(P)
  BY <1>2, <1>3, FS_Surjection
<1>5. Cardinality(W) \in Nat /\ Cardinality(T) \in Nat
  BY <1>4, FS_CardinalityType DEF W
<1>6. QED BY <1>2, <1>4, <1>5 DEF T, W

Kept(c, s, m, acc) ==
    /\ acc \in Acc
    /\ \A y \in acc.starts : \E w \in s.windows, k \in Nat : y = Start(c, w, m, k)
    /\ \A w \in s.windows : \E k \in Nat :
          /\ Start(c, w, m, k) \in acc.starts
          /\ \A j \in Nat : j < k => Held(c, s, Start(c, w, m, j))
    /\ acc.found # -1 => acc.found = Least(acc.starts) /\ ~Held(c, s, acc.found)

Walked(c, s, m, n, acc) ==
    acc.found = -1 =>
        /\ \/ \A y \in acc.starts : y > m + 14 * c.day
           \/ Cardinality(Behind(c, s, m, acc)) >= n
        /\ n > 0 => s.holidays # {}

\* Every turn of the loop keeps what is known of the windows.
LEMMA LookKeeps ==
    ASSUME NEW c, IsClock(c), NEW s, IsSession(c, s), NEW m \in Nat,
           NEW acc, Kept(c, s, m, acc)
    PROVE  Kept(c, s, m, Clock(c)!Look(s, acc))
<1> DEFINE next == Clock(c)!Look(s, acc)
           soonest == Least(acc.starts)
<1>1. acc \in Acc
  BY DEF Kept
<1>2. /\ next \in Acc
      /\ acc.found # -1 => next = acc
      /\ acc.found = -1 /\ ~Held(c, s, soonest) => next.starts = acc.starts /\ next.found = soonest
      /\ acc.found = -1 /\ Held(c, s, soonest) =>
           /\ next.starts = (acc.starts \ {soonest}) \cup {soonest + 7 * c.day} /\ next.found = -1
  BY <1>1, LookIs
<1> HIDE DEF next, soonest
<1>3. CASE acc.found # -1
  BY <1>2, <1>3 DEF next
<1>4. CASE acc.found = -1 /\ ~Held(c, s, soonest)
  BY <1>2, <1>4 DEF Kept, next, soonest
<1>5. CASE acc.found = -1 /\ Held(c, s, soonest)
  <2>1. acc.starts \subseteq Nat /\ acc.starts # {}
    BY <1>1 DEF Acc
  <2>2. soonest \in acc.starts /\ soonest \in Nat
    BY <2>1, LeastIs DEF soonest
  <2>3. ASSUME NEW w \in s.windows, NEW k \in Nat, soonest = Start(c, w, m, k)
        PROVE  Start(c, w, m, k + 1) = soonest + 7 * c.day
    BY <2>3, StartIs DEF IsSession
  <2>4. ASSUME NEW y \in next.starts PROVE \E w \in s.windows, k \in Nat : y = Start(c, w, m, k)
    <3>1. CASE y \in acc.starts
      BY <3>1 DEF Kept
    <3>2. CASE y = soonest + 7 * c.day
      <4>1. PICK w \in s.windows, k \in Nat : soonest = Start(c, w, m, k)
        BY <2>2 DEF Kept
      <4>2. k + 1 \in Nat /\ Start(c, w, m, k + 1) = y
        BY <2>3, <3>2, <4>1
      <4>3. QED BY <4>2
    <3>3. QED BY <1>2, <1>5, <2>4, <3>1, <3>2
  <2>5. ASSUME NEW w \in s.windows
        PROVE  \E k \in Nat : /\ Start(c, w, m, k) \in next.starts
                              /\ \A j \in Nat : j < k => Held(c, s, Start(c, w, m, j))
    <3>1. PICK k \in Nat : /\ Start(c, w, m, k) \in acc.starts
                           /\ \A j \in Nat : j < k => Held(c, s, Start(c, w, m, j))
      BY DEF Kept
    <3>2. CASE Start(c, w, m, k) = soonest
      <4>1. k + 1 \in Nat /\ Start(c, w, m, k + 1) \in next.starts
        BY <1>2, <1>5, <2>3, <3>2
      <4>2. \A j \in Nat : j < k + 1 => j < k \/ j = k
        OBVIOUS
      <4>3. \A j \in Nat : j < k + 1 => Held(c, s, Start(c, w, m, j))
        BY <1>5, <3>1, <3>2, <4>2
      <4>4. QED BY <4>1, <4>3
    <3>3. CASE Start(c, w, m, k) # soonest
      BY <1>2, <1>5, <3>1, <3>3
    <3>4. QED BY <3>2, <3>3
  <2>6. next.found = -1
    BY <1>2, <1>5
  <2>7. QED BY <1>2, <2>4, <2>5, <2>6 DEF Kept, next
<1>6. QED BY <1>3, <1>4, <1>5

\* A turn that finds nothing has passed one opening more.
LEMMA LookWalks ==
    ASSUME NEW c, IsClock(c), NEW s, IsSession(c, s), NEW m \in Nat, NEW n \in Nat,
           NEW acc, Kept(c, s, m, acc), Walked(c, s, m, n, acc)
    PROVE  Walked(c, s, m, n + 1, Clock(c)!Look(s, acc))
<1> DEFINE next == Clock(c)!Look(s, acc)
           soonest == Least(acc.starts)
           W == 7 * c.day
<1>1. acc \in Acc /\ acc.starts \subseteq Nat /\ acc.starts # {} /\ W \in Nat \ {0}
  BY DEF Kept, Acc, IsClock
<1>2. soonest \in acc.starts /\ soonest \in Nat /\ \A y \in acc.starts : soonest <= y
  BY <1>1, LeastIs
<1>3. /\ acc.found # -1 => next = acc
      /\ acc.found = -1 /\ ~Held(c, s, soonest) => next.starts = acc.starts /\ next.found = soonest
      /\ acc.found = -1 /\ Held(c, s, soonest) =>
           /\ next.starts = (acc.starts \ {soonest}) \cup {soonest + W} /\ next.found = -1
  BY <1>1, LookIs
<1> HIDE DEF next, soonest, W
<1>4. SUFFICES ASSUME next.found = -1
               PROVE  /\ \/ \A y \in next.starts : y > m + 14 * c.day
                         \/ Cardinality(Behind(c, s, m, next)) >= n + 1
                      /\ s.holidays # {}
  BY DEF Walked, next
<1>11. Held(c, s, soonest)
  BY <1>2, <1>3, <1>4
<1>12. s.holidays # {}
  BY <1>11 DEF Held
<1>5. acc.found = -1 /\ next.starts = (acc.starts \ {soonest}) \cup {soonest + W}
  BY <1>2, <1>3, <1>4
<1>6. \A y \in next.starts : y \in Int /\ y > soonest
  BY <1>1, <1>2, <1>5
<1>7. m + 14 * c.day \in Int /\ 14 * c.day = 2 * W
  BY DEF IsClock, W
<1>8. CASE soonest > m + 14 * c.day
  BY <1>2, <1>6, <1>7, <1>8, <1>12
<1>9. CASE soonest <= m + 14 * c.day
  <2>1. soonest \in Fortnight(c, s, m)
    <3>1. PICK w \in s.windows, k \in Nat : soonest = Start(c, w, m, k)
      BY <1>2 DEF Kept
    <3>2. m + k * W < soonest
      BY <3>1, StartIs DEF IsSession, W
    <3>3. k * W < 2 * W
      <4> DEFINE e == k * W
      <4>1. e \in Int
        BY <1>1
      <4> HIDE DEF e
      <4>2. e < 2 * W
        BY <1>1, <1>2, <1>7, <1>9, <3>2, <4>1 DEF e
      <4>3. QED BY <4>2 DEF e
    <3>4. k < 2
      <4>1. ASSUME k >= 2 PROVE FALSE
        <5>1. W * (k - 2) >= 0
          BY <1>1, <4>1
        <5>2. k * W >= 2 * W
          BY <1>1, <5>1
        <5>3. QED BY <1>1, <3>3, <5>2
      <4>2. QED BY <4>1
    <3>5. k \in {0, 1}
      BY <3>4
    <3>6. QED BY <3>1, <3>5 DEF Fortnight
  <2> DEFINE Earlier == Behind(c, s, m, acc)
             C == Behind(c, s, m, next)
  <2>2. Earlier \subseteq C
    <3>1. ASSUME NEW t \in Earlier PROVE \A y \in next.starts : t < y
      <4>1. t < soonest /\ t \in Int
        <5>1. t < soonest
          BY <1>2, <3>1 DEF Behind
        <5>2. PICK w \in s.windows, k \in {0, 1} : t = Start(c, w, m, k)
          BY <3>1 DEF Behind, Fortnight
        <5>3. t \in Nat
          BY <5>2, StartIs DEF IsSession
        <5>4. QED BY <5>1, <5>3
      <4>2. QED BY <1>2, <1>6, <4>1
    <3>2. QED BY <3>1 DEF Behind
  <2>3. soonest \in C /\ soonest \notin Earlier
    BY <1>2, <1>6, <2>1 DEF Behind
  <2>4. IsFiniteSet(Fortnight(c, s, m)) /\ Earlier \subseteq Fortnight(c, s, m) /\ C \subseteq Fortnight(c, s, m)
    BY FortnightIsFinite DEF IsSession, Behind
  <2> HIDE DEF Earlier, C
  <2>5. IsFiniteSet(Earlier) /\ IsFiniteSet(C)
    BY <2>4, FS_Subset
  <2>6. Cardinality(Earlier) \in Nat /\ Cardinality(C) \in Nat
    BY <2>5, FS_CardinalityType
  <2>7. Cardinality(Earlier) <= Cardinality(C) /\ Cardinality(Earlier) # Cardinality(C)
    BY <2>2, <2>3, <2>5, FS_Subset
  <2>8. CASE Cardinality(Earlier) >= n
    BY <1>12, <2>6, <2>7, <2>8 DEF C
  <2>9. CASE \A y \in acc.starts : y > m + 14 * c.day
    BY <1>2, <1>7, <1>9, <2>9
  <2>10. QED BY <1>5, <2>8, <2>9 DEF Walked, Earlier
<1>10. QED BY <1>2, <1>7, <1>8, <1>9

LEMMA LookedIs ==
    ASSUME NEW c, IsClock(c), NEW s, IsSession(c, s), NEW m \in Nat
    PROVE  LET looked == Clock(c)!Looked(s, m) IN
           /\ looked[0] = [starts |-> {Clock(c)!NextStart(w, m) : w \in s.windows}, found |-> -1]
           /\ \A i \in 1..c.attempts : looked[i] = Clock(c)!Look(s, looked[i - 1])
<1> DEFINE n == c.attempts
           a == [starts |-> {Clock(c)!NextStart(w, m) : w \in s.windows}, found |-> -1]
           step == [p \in Acc \X (1..n) |-> Clock(c)!Look(s, p[1])]
           after(x) == Clock(c)!Look(s, x)
           looked == Clock(c)!Looked(s, m)
<1>1. n \in Nat /\ a \in Acc
  <2>1. \A w \in s.windows : Clock(c)!NextStart(w, m) \in Nat
    BY NextStartIs DEF IsSession
  <2> DEFINE T == {Clock(c)!NextStart(w, m) : w \in s.windows}
  <2>2. T \subseteq Nat /\ T # {}
    BY <2>1 DEF IsSession
  <2>3. a = [starts |-> T, found |-> -1]
    OBVIOUS
  <2> HIDE DEF T, a
  <2>4. QED BY <2>2, <2>3 DEF IsClock, Acc, Found
<1>2. \A x \in Acc, i \in 1..n : step[<<x, i>>] = after(x) /\ after(x) \in Acc
  BY LookIs
<1>3. looked = [i \in 0..n |-> IF i = 0 THEN a ELSE after(looked[i - 1])]
  <2> HIDE DEF step, n, after, a
  <2>1. Loops!IsLoop(Acc, n, a, step)
    BY <1>1, <1>2 DEF Loops!IsLoop
  <2>2. PICK g \in [0..n -> Acc] : g[0] = a /\ \A i \in 1..n : g[i] = step[<<g[i - 1], i>>]
    BY <2>1, Loops!LoopIsFunction
  <2>3. ASSUME NEW i \in 1..n PROVE g[i] = after(g[i - 1])
    <3>1. i - 1 \in 0..n
      BY <1>1
    <3>2. g[i - 1] \in Acc
      BY <3>1
    <3>3. QED BY <1>2, <2>2, <3>2
  <2>4. \A i \in 0..n : g[i] = IF i = 0 THEN a ELSE after(g[i - 1])
    <3>1. ASSUME NEW i \in 0..n, i # 0 PROVE i \in 1..n
      BY <1>1, <3>1
    <3>2. QED BY <2>2, <2>3, <3>1
  <2>5. g = [i \in 0..n |-> IF i = 0 THEN a ELSE after(g[i - 1])]
    BY <2>4
  <2>6. looked = CHOOSE look : look = [i \in 0..n |-> IF i = 0 THEN a ELSE after(look[i - 1])]
    BY Zenon DEF Clock!Looked, Clock!Unknown, n, a, after, looked
  <2>7. QED BY <2>5, <2>6, Zenon
<1> HIDE DEF looked, n, a, after
<1>4. looked[0] = a /\ \A i \in 1..n : looked[i] = after(looked[i - 1])
  BY <1>1, <1>3
<1>5. QED BY <1>4, Zenon DEF looked, n, a, after

LEMMA KeptAtFirst ==
    ASSUME NEW c, IsClock(c), NEW s, IsSession(c, s), NEW m \in Nat,
           NEW acc, acc = [starts |-> {Clock(c)!NextStart(w, m) : w \in s.windows}, found |-> -1]
    PROVE  Kept(c, s, m, acc) /\ Walked(c, s, m, 0, acc)
<1>1. \A w \in s.windows : Clock(c)!NextStart(w, m) \in Nat
  BY NextStartIs DEF IsSession
<1> DEFINE T == {Clock(c)!NextStart(w, m) : w \in s.windows}
<1>2. T \subseteq Nat /\ T # {}
  BY <1>1 DEF IsSession
<1>3. \A w \in s.windows : Start(c, w, m, 0) = Clock(c)!NextStart(w, m)
  <2>1. c.day \in Nat
    BY DEF IsClock
  <2>2. QED BY <1>1, <2>1 DEF Start
<1>4. \A y \in T : \E w \in s.windows, k \in Nat : y = Start(c, w, m, k)
  BY <1>3
<1>5. \A w \in s.windows : Start(c, w, m, 0) \in T
  BY <1>3
<1> HIDE DEF T
<1>6. acc.starts = T /\ acc.found = -1 /\ acc = [starts |-> T, found |-> -1]
  BY DEF T
<1>7. acc \in Acc
  BY <1>2, <1>6 DEF Acc, Found
<1>8. Kept(c, s, m, acc)
  <2>1. \A j \in Nat : ~(j < 0)
    OBVIOUS
  <2>2. QED BY <1>4, <1>5, <1>6, <1>7, <2>1 DEF Kept
<1>9. Walked(c, s, m, 0, acc)
  <2> DEFINE Earlier == Behind(c, s, m, acc)
  <2>1. IsFiniteSet(Fortnight(c, s, m)) /\ Earlier \in SUBSET Fortnight(c, s, m)
    BY FortnightIsFinite DEF IsSession, Behind
  <2> HIDE DEF Earlier
  <2>2. IsFiniteSet(Earlier)
    BY <2>1, FS_Subset
  <2>3. Cardinality(Earlier) >= 0
    BY <2>2, FS_CardinalityType
  <2>4. QED BY <2>3 DEF Walked, Earlier
<1>10. QED BY <1>8, <1>9

\* Every week's session of before the search gave up, or of before what it found, was on a holiday.
LEMMA NextOpenIs ==
    ASSUME NEW c, IsClock(c), NEW s, IsSession(c, s), NEW m \in Nat
    PROVE  LET opens == Clock(c)!NextOpen(s, m) IN
           /\ opens \in Found
           /\ opens # -1 =>
                /\ ~Held(c, s, opens) /\ \E w \in s.windows, k \in Nat : opens = Start(c, w, m, k)
                /\ \A w \in s.windows, k \in Nat : Start(c, w, m, k) < opens => Held(c, s, Start(c, w, m, k))
           /\ opens = -1 /\ 2 * Cardinality(s.windows) <= c.attempts =>
                \A w \in s.windows, k \in Nat :
                    Start(c, w, m, k) <= m + 14 * c.day => Held(c, s, Start(c, w, m, k))
           /\ opens = -1 /\ c.attempts > 0 => s.holidays # {}
<1> DEFINE n == c.attempts
           looked == Clock(c)!Looked(s, m)
           T == {i \in 0..n : Kept(c, s, m, looked[i]) /\ Walked(c, s, m, i, looked[i])}
           acc == looked[n]
           opens == Clock(c)!NextOpen(s, m)
<1>1. n \in Nat
  BY DEF IsClock
<1>2. /\ looked[0] = [starts |-> {Clock(c)!NextStart(w, m) : w \in s.windows}, found |-> -1]
      /\ \A i \in 1..n : looked[i] = Clock(c)!Look(s, looked[i - 1])
  BY LookedIs
<1> HIDE DEF looked, n
<1>3. Kept(c, s, m, acc) /\ Walked(c, s, m, n, acc)
  <2>1. 0 \in T
    BY <1>1, <1>2, KeptAtFirst
  <2>2. ASSUME NEW i \in 0..(n - 1), i \in T PROVE i + 1 \in T
    <3>1. i \in Nat /\ i + 1 \in 1..n /\ (i + 1) - 1 = i
      BY <1>1
    <3>2. looked[i + 1] = Clock(c)!Look(s, looked[i])
      BY <1>2, <3>1
    <3>3. Kept(c, s, m, looked[i + 1]) /\ Walked(c, s, m, i + 1, looked[i + 1])
      BY <2>2, <3>1, <3>2, LookKeeps, LookWalks
    <3>4. QED BY <3>1, <3>3
  <2> HIDE DEF T
  <2>3. \A i \in 0..n : i \in T
    BY <1>1, <2>1, <2>2, Loops!Climb
  <2>4. n \in T
    BY <1>1, <2>3
  <2>5. QED BY <2>4 DEF T
<1>4. opens = acc.found
  BY DEF Clock!NextOpen, looked, n
<1> HIDE DEF opens, acc
<1>5. acc \in Acc /\ acc.starts \subseteq Nat /\ acc.starts # {} /\ opens \in Found
  BY <1>3, <1>4 DEF Kept, Acc
<1>6. ASSUME NEW w \in s.windows, NEW j \in Nat, NEW k \in Nat, Start(c, w, m, j) < Start(c, w, m, k) PROVE j < k
  BY <1>6, StartsInOrder DEF IsSession
<1>7. ASSUME NEW w \in s.windows, NEW j \in Nat, \A y \in acc.starts : Start(c, w, m, j) < y
      PROVE  Held(c, s, Start(c, w, m, j))
  <2>1. PICK k \in Nat : Start(c, w, m, k) \in acc.starts /\ \A i \in Nat : i < k => Held(c, s, Start(c, w, m, i))
    BY <1>3 DEF Kept
  <2>2. Start(c, w, m, j) < Start(c, w, m, k)
    BY <1>7, <2>1
  <2>3. QED BY <1>6, <2>1, <2>2
<1>8. ASSUME opens # -1
      PROVE  /\ ~Held(c, s, opens) /\ \E w \in s.windows, k \in Nat : opens = Start(c, w, m, k)
             /\ \A w \in s.windows, k \in Nat : Start(c, w, m, k) < opens => Held(c, s, Start(c, w, m, k))
  <2>1. opens = Least(acc.starts) /\ ~Held(c, s, opens)
    BY <1>3, <1>4, <1>8 DEF Kept
  <2>2. opens \in acc.starts /\ \A y \in acc.starts : opens <= y
    BY <1>5, <2>1, LeastIs
  <2>3. \E w \in s.windows, k \in Nat : opens = Start(c, w, m, k)
    BY <1>3, <2>2 DEF Kept
  <2>4. ASSUME NEW w \in s.windows, NEW k \in Nat, Start(c, w, m, k) < opens
        PROVE  Held(c, s, Start(c, w, m, k))
    <3> DEFINE t == Start(c, w, m, k)
    <3>1. t \in Nat
      BY StartIs DEF IsSession
    <3>2. t < opens
      BY <2>4
    <3> HIDE DEF t
    <3>3. \A y \in acc.starts : t < y
      BY <1>5, <2>2, <3>1, <3>2
    <3>4. QED BY <1>7, <3>3 DEF t
  <2>5. QED BY <2>1, <2>3, <2>4
<1>9. ASSUME opens = -1, 2 * Cardinality(s.windows) <= n,
             NEW w \in s.windows, NEW k \in Nat, Start(c, w, m, k) <= m + 14 * c.day
      PROVE  Held(c, s, Start(c, w, m, k))
  <2> DEFINE t == Start(c, w, m, k)
             F == Fortnight(c, s, m)
             Earlier == Behind(c, s, m, acc)
             W == 7 * c.day
  <2>1. t \in Nat /\ m + k * W < t /\ W \in Nat \ {0} /\ c.day \in Nat
    <3>1. IsWindow(c, w)
      BY DEF IsSession
    <3>2. c.day \in Nat \ {0}
      BY DEF IsClock
    <3>3. Start(c, w, m, k) \in Nat /\ m + k * (7 * c.day) < Start(c, w, m, k)
      BY <3>1, StartIs
    <3>4. W \in Nat \ {0}
      BY <3>2
    <3>5. QED BY <3>2, <3>3, <3>4 DEF t, W
  <2>2. CASE \A y \in acc.starts : y > m + 14 * c.day
    <3>1. t <= m + 14 * c.day
      BY <1>9
    <3> HIDE DEF t
    <3>2. \A y \in acc.starts : t < y
      BY <1>5, <2>1, <2>2, <3>1
    <3>3. QED BY <1>7, <3>2 DEF t
  <2>3. CASE Cardinality(Earlier) >= n
    <3>1. IsFiniteSet(F) /\ Cardinality(F) <= 2 * Cardinality(s.windows) /\ Earlier \in SUBSET F
      BY FortnightIsFinite DEF IsSession, Behind
    <3> HIDE DEF F, Earlier
    <3>2. IsFiniteSet(Earlier) /\ Cardinality(Earlier) <= Cardinality(F) /\ (Cardinality(F) = Cardinality(Earlier) => F = Earlier)
      BY <3>1, FS_Subset
    <3>3. Cardinality(Earlier) \in Nat /\ Cardinality(F) \in Nat /\ Cardinality(s.windows) \in Nat
      BY <3>1, <3>2, FS_CardinalityType DEF IsSession
    <3>4. F = Earlier
      BY <1>1, <1>9, <2>3, <3>1, <3>2, <3>3
    <3>5. k \in {0, 1}
      <4> DEFINE e == k * W
      <4>1. 14 * c.day = 2 * W /\ t <= m + 14 * c.day
        BY <1>9, <2>1
      <4>2. e \in Int /\ m + e < t
        BY <2>1
      <4> HIDE DEF e, t, W
      <4>3. e < 2 * W
        BY <2>1, <4>1, <4>2
      <4>4. ASSUME k >= 2 PROVE FALSE
        <5>1. W * (k - 2) >= 0
          BY <2>1, <4>4
        <5>2. k * W >= 2 * W
          BY <2>1, <5>1
        <5>3. QED BY <2>1, <4>3, <5>2 DEF e
      <4>5. QED BY <4>4
    <3>6. t \in F
      BY <3>5 DEF F, Fortnight
    <3>7. \A y \in acc.starts : t < y
      BY <3>4, <3>6 DEF Earlier, Behind
    <3>8. QED BY <1>7, <3>7
  <2>4. QED BY <1>3, <1>4, <1>9, <2>2, <2>3 DEF Walked
<1>10. opens = -1 /\ n > 0 => s.holidays # {}
  BY <1>3, <1>4 DEF Walked
<1>11. QED BY <1>5, <1>8, <1>9, <1>10 DEF opens, n

\* A window of one day, as all of the exchanges' are.
WithinADay(c, w) ==
    \E d \in 0..6, a \in Nat, b \in Nat :
        a < b /\ b < c.day /\ w.opens = c.day * d + a /\ w.closes = c.day * d + b

\* A session the search of next_open is long enough for.
Findable(c, s) ==
    /\ IsSession(c, s)
    /\ \A w \in s.windows : w.opens # w.closes
    /\ \/ s.holidays = {} /\ c.attempts > 0
       \/ (\A w \in s.windows : WithinADay(c, w)) /\ 2 * Cardinality(s.windows) <= c.attempts

LEMMA TickBefore ==
    ASSUME NEW D \in Nat \ {0}, NEW t \in Int
    PROVE  /\ t % D > 0 => (t - 1) \div D = t \div D /\ (t - 1) % D = (t % D) - 1
           /\ t % D = 0 => (t - 1) % D = D - 1
<1> DEFINE q == t \div D
           r == t % D
<1>1. q \in Int /\ r \in Int /\ 0 <= r /\ r < D /\ t = D * q + r
  BY DivMod
<1> HIDE DEF q, r
<1>2. CASE r > 0
  <2>1. t - 1 = D * q + (r - 1)
    BY <1>1
  <2> DEFINE p == r - 1
  <2>2. p \in Int /\ 0 <= p /\ p < D
    BY <1>1, <1>2
  <2> HIDE DEF p
  <2>3. (D * q + p) \div D = q /\ (D * q + p) % D = p
    BY <1>1, <2>2, DivModIs
  <2>4. QED BY <1>2, <2>1, <2>3 DEF q, r, p
<1>3. CASE r = 0
  <2> DEFINE a == q - 1
             p == D - 1
  <2>1. t - 1 = D * a + p
    BY <1>1, <1>3
  <2>2. a \in Int /\ p \in Int /\ 0 <= p /\ p < D
    BY <1>1
  <2> HIDE DEF a, p
  <2>3. (D * a + p) % D = p
    BY <2>2, DivModIs
  <2>4. QED BY <1>3, <2>1, <2>3 DEF r, p
<1>4. QED BY <1>1, <1>2, <1>3 DEF r

\* A tick of a week is a day of it and a tick of that day.
LEMMA TickOfWeek ==
    ASSUME NEW D \in Nat \ {0}, NEW t \in Int
    PROVE  /\ t % (7 * D) = D * ((t \div D) % 7) + (t % D)
           /\ (t \div D) % 7 \in 0..6
<1> DEFINE q == t \div D
           r == t % D
<1>1. q \in Int /\ r \in Int /\ 0 <= r /\ r < D /\ t = D * q + r
  BY DivMod
<1> HIDE DEF q, r
<1>2. (D * q + r) % (7 * D) = D * (q % 7) + r
  BY <1>1, OfWeek
<1>3. q % 7 \in 0..6
  BY <1>1
<1>4. QED BY <1>1, <1>2, <1>3 DEF q, r

LEMMA CoversADay ==
    ASSUME NEW c, IsClock(c), NEW w, NEW d \in 0..6, NEW a \in Nat, NEW b \in Nat, a < b, b < c.day,
           w.opens = c.day * d + a, w.closes = c.day * d + b, NEW t \in Int
    PROVE  Clock(c)!Covers(w, t) <=> (t \div c.day) % 7 = d /\ a <= t % c.day /\ t % c.day < b
<1> DEFINE D == c.day
           e == (t \div D) % 7
           r == t % D
           x == t % (7 * D)
<1>1. D \in Nat \ {0}
  BY DEF IsClock
<1>2. t \div D \in Int /\ r \in Int /\ 0 <= r /\ r < D
  BY <1>1, DivMod
<1>3. x = D * e + r /\ e \in 0..6
  BY <1>1, TickOfWeek
<1>4. Clock(c)!Covers(w, t) <=> IF w.opens <= w.closes THEN w.opens <= x /\ x < w.closes
                                ELSE w.opens <= x \/ x < w.closes
  BY DEF Clock!Covers, Clock!Week
<1> HIDE DEF D, e, r, x
<1>5. w.opens = D * d + a /\ w.closes = D * d + b /\ a < D /\ b < D
  BY <1>1 DEF D
<1>6. D * d + a < D * d + b /\ D * d + a \in Int /\ D * d + b \in Int /\ D * e + r \in Int
  BY <1>1, <1>2, <1>3
<1>7. Clock(c)!Covers(w, t) <=> ~(D * e + r < D * d + a) /\ D * e + r < D * d + b
  <2> DEFINE p == D * d + a
             q == D * d + b
             z == D * e + r
  <2>1. p < q /\ p \in Int /\ q \in Int /\ z \in Int /\ w.opens = p /\ w.closes = q /\ x = z
    BY <1>3, <1>5, <1>6
  <2> HIDE DEF p, q, z
  <2>2. Clock(c)!Covers(w, t) <=> p <= z /\ z < q
    BY <1>4, <2>1
  <2>3. QED BY <2>1, <2>2 DEF p, q, z
<1>8. D * e + r < D * d + a <=> e < d \/ (e = d /\ r < a)
  BY <1>1, <1>2, <1>3, <1>5, Lexical
<1>9. D * e + r < D * d + b <=> e < d \/ (e = d /\ r < b)
  BY <1>1, <1>2, <1>3, <1>5, Lexical
<1>10. Clock(c)!Covers(w, t) <=> e = d /\ a <= r /\ r < b
  BY <1>2, <1>3, <1>7, <1>8, <1>9
<1>11. QED BY <1>10 DEF e, r, D

\* A market that opens does so at the start of a window.
LEMMA OpensAtAStart ==
    ASSUME NEW c, IsClock(c), NEW s, Findable(c, s), NEW t \in Nat,
           Clock(c)!IsOpen(s, t), ~Clock(c)!IsOpen(s, t - 1)
    PROVE  \E w \in s.windows : t % (7 * c.day) = w.opens
<1> DEFINE D == c.day
           W == 7 * D
           x == t % W
           y == (t - 1) % W
<1>1. D \in Nat \ {0} /\ W \in Nat \ {0}
  BY DEF IsClock
<1>2. PICK w \in s.windows : Clock(c)!Covers(w, t)
  BY DEF Clock!IsOpen
<1>3. SUFFICES ASSUME x # w.opens PROVE FALSE
  BY <1>2
<1>4. w.opens \in Nat /\ w.opens < W /\ w.closes \in Nat /\ w.closes < W
  BY DEF Findable, IsSession, IsWindow
<1>5. x \in Int /\ 0 <= x /\ x < W
  <2> HIDE DEF W
  <2>1. QED BY <1>1, DivMod
<1>6. (x > 0 => y = x - 1) /\ (x = 0 => y = W - 1)
  BY <1>1, TickBefore
<1>7. /\ Clock(c)!Covers(w, t) <=> IF w.opens <= w.closes THEN w.opens <= x /\ x < w.closes
                                   ELSE w.opens <= x \/ x < w.closes
      /\ Clock(c)!Covers(w, t - 1) <=> IF w.opens <= w.closes THEN w.opens <= y /\ y < w.closes
                                       ELSE w.opens <= y \/ y < w.closes
  BY DEF Clock!Covers, Clock!Week
<1> HIDE DEF x, y, W
<1>8. Clock(c)!Covers(w, t - 1)
  <2> DEFINE o == w.opens
             z == w.closes
  <2>1. o \in Nat /\ z \in Nat /\ o < W /\ z < W /\ x # o
    BY <1>3, <1>4
  <2>2. IF o <= z THEN o <= x /\ x < z ELSE o <= x \/ x < z
    BY <1>2, <1>7
  <2> HIDE DEF o, z
  <2>3. IF o <= z THEN o <= y /\ y < z ELSE o <= y \/ y < z
    BY <1>1, <1>5, <1>6, <2>1, <2>2
  <2>4. QED BY <1>7, <2>3 DEF o, z
<1>9. CASE s.holidays = {}
  BY <1>8, <1>9 DEF Clock!IsOpen
<1>10. CASE WithinADay(c, w)
  <2>1. PICK d \in 0..6, a \in Nat, b \in Nat :
            a < b /\ b < c.day /\ w.opens = c.day * d + a /\ w.closes = c.day * d + b
    BY <1>10 DEF WithinADay
  <2>2. (t \div D) % 7 = d /\ a <= t % D /\ t % D < b
    BY <1>2, <2>1, CoversADay
  <2>3. x = D * ((t \div D) % 7) + (t % D)
    <3>1. D \in Nat \ {0} /\ t \in Int
      BY <1>1
    <3> HIDE DEF D
    <3>2. t % (7 * D) = D * ((t \div D) % 7) + (t % D)
      BY <3>1, TickOfWeek
    <3>3. QED BY <3>2, Zenon DEF x, W
  <2>4. t % D # a
    BY <1>3, <2>1, <2>2, <2>3
  <2>5. t % D \in Int
    BY <1>1, DivMod
  <2>6. t % D > 0
    BY <2>1, <2>2, <2>4, <2>5
  <2>7. (t - 1) \div D = t \div D
    BY <1>1, <2>6, TickBefore
  <2>8. QED BY <1>8, <2>7 DEF Clock!IsOpen
<1>11. QED BY <1>9, <1>10 DEF Findable

LEMMA OpensOpen ==
    ASSUME NEW c, IsClock(c), NEW w, IsWindow(c, w), w.opens # w.closes, NEW m \in Nat, NEW k \in Nat
    PROVE  Clock(c)!Covers(w, Start(c, w, m, k)) /\ Start(c, w, m, k) % (7 * c.day) = w.opens
<1> DEFINE t == Start(c, w, m, k)
           next == Clock(c)!NextStart(w, m)
           W == 7 * c.day
<1>1. W \in Nat \ {0} /\ next \in Nat /\ next % W = w.opens /\ w.opens \in Nat /\ w.closes \in Nat
  BY NextStartIs DEF IsClock, IsWindow
<1>2. t = next + k * W
  BY DEF Start
<1>3. Clock(c)!Covers(w, t) <=> IF w.opens <= w.closes THEN w.opens <= t % W /\ t % W < w.closes
                                ELSE w.opens <= t % W \/ t % W < w.closes
  BY DEF Clock!Covers, Clock!Week
<1>4. t % W = w.opens
  <2> DEFINE q == next \div W
             r == next % W
             p == q + k
  <2> HIDE DEF t, next, W
  <2>1. q \in Int /\ r \in Int /\ 0 <= r /\ r < W /\ next = W * q + r
    BY <1>1, DivMod
  <2> HIDE DEF q
  <2>2. r = w.opens
    BY <1>1
  <2> HIDE DEF r
  <2>3. p \in Int /\ t = W * p + r
    BY <1>1, <1>2, <2>1
  <2> HIDE DEF p
  <2>4. (W * p + r) % W = r
    BY <1>1, <2>1, <2>3, DivModIs
  <2>5. QED BY <2>2, <2>3, <2>4
<1> HIDE DEF t, W
<1>5. Clock(c)!Covers(w, t)
  BY <1>1, <1>3, <1>4
<1>6. QED BY <1>4, <1>5 DEF t, W

\* "Closed until" is the next time the market opens, of every calendar of holidays.
THEOREM NextOpenIsNext ==
    ASSUME NEW c, IsClock(c), NEW s, Findable(c, s), NEW m \in Nat
    PROVE  Clock(c)!NextOpenIsTheNext(s, m)
<1> DEFINE opens == Clock(c)!NextOpen(s, m)
           W == 7 * c.day
<1>1. IsSession(c, s) /\ W \in Nat \ {0} /\ c.day \in Nat \ {0}
  BY DEF Findable, IsClock
<1>2. /\ opens \in Found
      /\ opens # -1 =>
           /\ ~Held(c, s, opens) /\ \E w \in s.windows, k \in Nat : opens = Start(c, w, m, k)
           /\ \A w \in s.windows, k \in Nat : Start(c, w, m, k) < opens => Held(c, s, Start(c, w, m, k))
      /\ opens = -1 /\ 2 * Cardinality(s.windows) <= c.attempts =>
           \A w \in s.windows, k \in Nat :
               Start(c, w, m, k) <= m + 14 * c.day => Held(c, s, Start(c, w, m, k))
      /\ opens = -1 /\ c.attempts > 0 => s.holidays # {}
  BY <1>1, NextOpenIs
<1>3. Clock(c)!NextOpenIsTheNext(s, m) <=>
        IF opens = -1
        THEN \A t \in (m + 1)..(m + 2 * W) : Clock(c)!IsOpen(s, t) => Clock(c)!IsOpen(s, t - 1)
        ELSE /\ opens > m /\ Clock(c)!IsOpen(s, opens)
             /\ \A t \in (m + 1)..(opens - 1) : Clock(c)!IsOpen(s, t) => Clock(c)!IsOpen(s, t - 1)
  BY DEF Clock!NextOpenIsTheNext, Clock!Unknown, Clock!Week
<1> HIDE DEF opens
<1>4. ASSUME NEW t \in Nat, m < t, Clock(c)!IsOpen(s, t), ~Clock(c)!IsOpen(s, t - 1)
      PROVE  ~Held(c, s, t) /\ \E w \in s.windows, k \in Nat : t = Start(c, w, m, k)
  <2>1. PICK w \in s.windows : t % W = w.opens
    BY <1>4, OpensAtAStart
  <2>2. IsWindow(c, w)
    BY <1>1 DEF IsSession
  <2>3. \E k \in Nat : t = Start(c, w, m, k)
    BY <1>4, <2>1, <2>2, StartsOnly
  <2>4. ~Held(c, s, t)
    BY <1>4 DEF Clock!IsOpen, Held
  <2>5. QED BY <2>3, <2>4
<1>5. CASE opens = -1
  <2>1. s.holidays # {} \/ c.attempts <= 0
    BY <1>2, <1>5 DEF IsClock
  <2>2. 2 * Cardinality(s.windows) <= c.attempts
    BY <2>1 DEF Findable, IsClock
  <2>3. ASSUME NEW t \in (m + 1)..(m + 2 * W), Clock(c)!IsOpen(s, t), ~Clock(c)!IsOpen(s, t - 1) PROVE FALSE
    <3>1. t \in Nat /\ m < t /\ t <= m + 14 * c.day
      BY <1>1, <2>3
    <3>2. QED BY <1>2, <1>4, <1>5, <2>2, <2>3, <3>1
  <2>4. QED BY <1>3, <1>5, <2>3
<1>6. CASE opens # -1
  <2>1. PICK w \in s.windows, k \in Nat : opens = Start(c, w, m, k)
    BY <1>2, <1>6
  <2>2. IsWindow(c, w) /\ w.opens # w.closes
    BY <1>1 DEF IsSession, Findable
  <2>3. opens \in Nat /\ opens > m
    BY <2>1, <2>2, StartIs
  <2>4. Clock(c)!Covers(w, opens)
    BY <2>1, <2>2, OpensOpen
  <2>5. Clock(c)!IsOpen(s, opens)
    BY <1>2, <1>6, <2>4 DEF Clock!IsOpen, Held
  <2>6. ASSUME NEW t \in (m + 1)..(opens - 1), Clock(c)!IsOpen(s, t), ~Clock(c)!IsOpen(s, t - 1) PROVE FALSE
    <3>1. t \in Nat /\ m < t /\ t < opens
      BY <2>3
    <3>2. QED BY <1>2, <1>4, <1>6, <2>6, <3>1
  <2>7. QED BY <1>3, <1>6, <2>3, <2>5, <2>6
<1>7. QED BY <1>5, <1>6

LEMMA ExchangeHours ==
    ASSUME NEW c, IsClock(c), NEW holidays
    PROVE  LET s == Clock(c)!NSE(holidays)
               windows == {[opens |-> d * c.day + c.opens, closes |-> d * c.day + c.closes] : d \in 0..4} IN
           /\ s = [windows |-> windows, holidays |-> holidays]
           /\ c.attempts >= 10 => Findable(c, s)
           /\ IsSession(c, s)
<1> DEFINE s == Clock(c)!NSE(holidays)
           window(d) == [opens |-> d * c.day + c.opens, closes |-> d * c.day + c.closes]
           W == {window(d) : d \in 0..4}
           f == [d \in 0..4 |-> window(d)]
<1>1. s = [windows |-> W, holidays |-> holidays]
  BY DEF Clock!NSE, Clock!Windows
<1>2. ASSUME NEW d \in 0..4 PROVE IsWindow(c, window(d)) /\ WithinADay(c, window(d)) /\ window(d).opens # window(d).closes
  <2> DEFINE p == d * c.day
  <2>1. c.day \in Nat /\ p \in Nat /\ p <= 4 * c.day
    <3>1. c.day \in Nat
      BY DEF IsClock
    <3>2. CASE d = 0 BY <3>1, <3>2
    <3>3. CASE d = 1 BY <3>1, <3>3
    <3>4. CASE d = 2 BY <3>1, <3>4
    <3>5. CASE d = 3 BY <3>1, <3>5
    <3>6. CASE d = 4 BY <3>1, <3>6
    <3>7. QED BY <3>2, <3>3, <3>4, <3>5, <3>6
  <2>2. window(d).opens = p + c.opens /\ window(d).closes = p + c.closes /\ p = c.day * d
    BY <2>1
  <2>3. IsWindow(c, window(d)) /\ window(d).opens # window(d).closes
    <3>1. c.opens \in Nat /\ c.closes \in Nat /\ c.opens < c.closes /\ c.closes < c.day
      BY DEF IsClock
    <3>2. window(d).opens = p + c.opens /\ window(d).closes = p + c.closes
      BY <2>2
    <3> HIDE DEF window, p
    <3>3. /\ window(d).opens \in Nat /\ window(d).opens < 7 * c.day
          /\ window(d).closes \in Nat /\ window(d).closes < 7 * c.day /\ window(d).opens # window(d).closes
      BY <2>1, <3>1, <3>2
    <3>4. QED BY <3>3 DEF IsWindow
  <2>4. WithinADay(c, window(d))
    <3>1. c.opens \in Nat /\ c.closes \in Nat /\ c.opens < c.closes /\ c.closes < c.day /\ d \in 0..6
      BY DEF IsClock
    <3> HIDE DEF window
    <3>2. window(d).opens = c.day * d + c.opens /\ window(d).closes = c.day * d + c.closes
      BY <2>2
    <3>3. QED BY <3>1, <3>2 DEF WithinADay
  <2>5. QED BY <2>3, <2>4
<1>3. IsFiniteSet(0..4) /\ Cardinality(0..4) = 5
  <2> DEFINE n == 4
  <2>1. n \in Int /\ n >= 0 /\ n + 1 = 5
    OBVIOUS
  <2> HIDE DEF n
  <2>2. IsFiniteSet(0..n) /\ Cardinality(0..n) = n + 1
    BY <2>1, FS_Interval
  <2>3. QED BY <2>1, <2>2 DEF n
<1>4. f \in Surjection(0..4, W)
  <2> HIDE DEF window
  <2>1. f \in [0..4 -> W] /\ \A w \in W : \E d \in 0..4 : f[d] = w
    OBVIOUS
  <2> HIDE DEF f, W
  <2>2. QED BY <2>1 DEF Surjection
<1> HIDE DEF window, f
<1>5. \A w \in W : IsWindow(c, w) /\ WithinADay(c, w) /\ w.opens # w.closes
  BY <1>2
<1>6. W # {}
  <2>1. 0 \in 0..4
    OBVIOUS
  <2>2. window(0) \in W
    BY <2>1
  <2>3. QED BY <2>2
<1> HIDE DEF W
<1>7. IsFiniteSet(W) /\ Cardinality(W) <= 5
  BY <1>3, <1>4, FS_Surjection
<1>8. Cardinality(W) \in Nat
  BY <1>7, FS_CardinalityType
<1>9. s.windows = W
  BY <1>1
<1> HIDE DEF s
<1>10. IsSession(c, s)
  BY <1>5, <1>6, <1>7, <1>9 DEF IsSession
<1>11. c.attempts >= 10 => 2 * Cardinality(s.windows) <= c.attempts
  BY <1>7, <1>8, <1>9 DEF IsClock
<1>12. c.attempts >= 10 => Findable(c, s)
  BY <1>5, <1>9, <1>10, <1>11 DEF Findable
<1>13. QED BY <1>1, <1>10, <1>12 DEF s, W, window

LEMMA ForexHours ==
    ASSUME NEW c, IsClock(c), c.attempts > 0
    PROVE  Findable(c, Clock(c)!FX)
<1> DEFINE w == [opens |-> 6 * c.day + c.squaresOff, closes |-> 4 * c.day + c.squaresOff]
           s == Clock(c)!FX
<1>1. s = [windows |-> {w}, holidays |-> {}]
  BY DEF Clock!FX
<1>2. IsWindow(c, w) /\ w.opens # w.closes
  BY DEF IsWindow, IsClock
<1> HIDE DEF w
<1>3. IsFiniteSet({w})
  BY FS_Singleton
<1>4. s.windows = {w} /\ s.holidays = {}
  BY <1>1
<1> HIDE DEF s
<1>5. IsSession(c, s)
  BY <1>2, <1>3, <1>4 DEF IsSession
<1>6. Findable(c, s)
  BY <1>2, <1>4, <1>5 DEF Findable
<1>7. QED BY <1>6 DEF s

LEMMA AllHours ==
    ASSUME NEW c, IsClock(c), c.attempts > 0
    PROVE  Findable(c, Clock(c)!AlwaysOpen)
<1> DEFINE s == Clock(c)!AlwaysOpen
           window(d) == [opens |-> d * c.day, closes |-> ((d + 1) % 7) * c.day]
           W == {window(d) : d \in 0..6}
           f == [d \in 0..6 |-> window(d)]
<1>1. s = [windows |-> W, holidays |-> {}]
  BY DEF Clock!AlwaysOpen
<1>2. ASSUME NEW d \in 0..6 PROVE IsWindow(c, window(d)) /\ window(d).opens # window(d).closes
  <2>1. c.day \in Nat \ {0}
    BY DEF IsClock
  <2>2. CASE d = 0 BY <2>1, <2>2 DEF IsWindow
  <2>3. CASE d = 1 BY <2>1, <2>3 DEF IsWindow
  <2>4. CASE d = 2 BY <2>1, <2>4 DEF IsWindow
  <2>5. CASE d = 3 BY <2>1, <2>5 DEF IsWindow
  <2>6. CASE d = 4 BY <2>1, <2>6 DEF IsWindow
  <2>7. CASE d = 5 BY <2>1, <2>7 DEF IsWindow
  <2>8. CASE d = 6 BY <2>1, <2>8 DEF IsWindow
  <2>9. QED BY <2>2, <2>3, <2>4, <2>5, <2>6, <2>7, <2>8
<1>3. IsFiniteSet(0..6)
  <2> DEFINE n == 6
  <2>1. n \in Int
    OBVIOUS
  <2> HIDE DEF n
  <2>2. IsFiniteSet(0..n)
    BY <2>1, FS_Interval
  <2>3. QED BY <2>2 DEF n
<1>4. f \in Surjection(0..6, W)
  <2> HIDE DEF window
  <2>1. f \in [0..6 -> W] /\ \A w \in W : \E d \in 0..6 : f[d] = w
    OBVIOUS
  <2> HIDE DEF f, W
  <2>2. QED BY <2>1 DEF Surjection
<1> HIDE DEF window, f
<1>5. \A w \in W : IsWindow(c, w) /\ w.opens # w.closes
  BY <1>2
<1>6. W # {}
  <2>1. 0 \in 0..6
    OBVIOUS
  <2>2. window(0) \in W
    BY <2>1
  <2>3. QED BY <2>2
<1> HIDE DEF W
<1>7. IsFiniteSet(W)
  BY <1>3, <1>4, FS_Surjection
<1>8. s.windows = W /\ s.holidays = {}
  BY <1>1
<1> HIDE DEF s
<1>9. IsSession(c, s)
  BY <1>5, <1>6, <1>7, <1>8 DEF IsSession
<1>10. Findable(c, s)
  BY <1>5, <1>8, <1>9 DEF Findable
<1>11. QED BY <1>10 DEF s

\* A venue that nothing is known of is open, and forex is closed for its weekend alone.
THEOREM ClosedIsAWeekend ==
    ASSUME NEW c, IsClock(c), NEW m \in Nat
    PROVE  Clock(c)!ClosedIsEarned(m)
<1> DEFINE D == c.day
           S == c.squaresOff
           x == m % (7 * D)
           e == (m \div D) % 7
           r == m % D
<1>1. D \in Nat \ {0} /\ 7 * D \in Nat \ {0} /\ S \in Nat /\ S < D /\ m \in Int
  BY DEF IsClock
<1>2. x = D * e + r /\ e \in 0..6
  <2> HIDE DEF D
  <2>1. QED BY <1>1, TickOfWeek
<1>3. r \in Int /\ 0 <= r /\ r < D
  <2> HIDE DEF D
  <2>1. QED BY <1>1, DivMod
<1>4. x \in Int /\ 0 <= x /\ x < 7 * D
  <2> DEFINE W == 7 * D
  <2>1. W \in Nat \ {0}
    BY <1>1
  <2> HIDE DEF W
  <2>2. m % W \in Int /\ 0 <= m % W /\ m % W < W
    BY <1>1, <2>1, DivMod
  <2>3. QED BY <2>2 DEF W
<1> HIDE DEF x, e, r
<1>5. Clock(c)!IsOpen(Clock(c)!AlwaysOpen, m)
  <2> DEFINE window(d) == [opens |-> d * D, closes |-> ((d + 1) % 7) * D]
             W == {window(d) : d \in 0..6}
  <2>1. Clock(c)!AlwaysOpen = [windows |-> W, holidays |-> {}]
    BY DEF Clock!AlwaysOpen
  <2>2. window(e).opens = e * D /\ window(e).closes = ((e + 1) % 7) * D
    OBVIOUS
  <2>3. window(e) \in W
    BY <1>2
  <2>4. Clock(c)!Covers(window(e), m) <=>
          IF window(e).opens <= window(e).closes THEN window(e).opens <= x /\ x < window(e).closes
          ELSE window(e).opens <= x \/ x < window(e).closes
    BY DEF Clock!Covers, Clock!Week, x
  <2> HIDE DEF window, W, D
  <2>5. Clock(c)!Covers(window(e), m)
    <3>1. CASE e = 0 BY <1>1, <1>2, <1>3, <2>2, <2>4, <3>1
    <3>2. CASE e = 1 BY <1>1, <1>2, <1>3, <2>2, <2>4, <3>2
    <3>3. CASE e = 2 BY <1>1, <1>2, <1>3, <2>2, <2>4, <3>3
    <3>4. CASE e = 3 BY <1>1, <1>2, <1>3, <2>2, <2>4, <3>4
    <3>5. CASE e = 4 BY <1>1, <1>2, <1>3, <2>2, <2>4, <3>5
    <3>6. CASE e = 5 BY <1>1, <1>2, <1>3, <2>2, <2>4, <3>6
    <3>7. CASE e = 6 BY <1>1, <1>2, <1>3, <2>2, <2>4, <3>7
    <3>8. QED BY <1>2, <3>1, <3>2, <3>3, <3>4, <3>5, <3>6, <3>7
  <2>6. QED BY <2>1, <2>3, <2>5 DEF Clock!IsOpen
<1>6. ~Clock(c)!IsOpen(Clock(c)!FX, m) <=> x \in (4 * D + S)..(6 * D + S - 1)
  <2> DEFINE w == [opens |-> 6 * D + S, closes |-> 4 * D + S]
  <2>1. Clock(c)!FX = [windows |-> {w}, holidays |-> {}]
    BY DEF Clock!FX
  <2>2. Clock(c)!Covers(w, m) <=> IF w.opens <= w.closes THEN w.opens <= x /\ x < w.closes
                                  ELSE w.opens <= x \/ x < w.closes
    BY DEF Clock!Covers, Clock!Week, x
  <2>3. w.opens = 6 * D + S /\ w.closes = 4 * D + S
    OBVIOUS
  <2> HIDE DEF w, D, S
  <2>4. Clock(c)!Covers(w, m) <=> 6 * D + S <= x \/ x < 4 * D + S
    BY <1>1, <1>4, <2>2, <2>3
  <2>5. Clock(c)!IsOpen(Clock(c)!FX, m) <=> Clock(c)!Covers(w, m)
    BY <2>1 DEF Clock!IsOpen
  <2>6. QED BY <1>1, <1>4, <2>4, <2>5
<1>7. QED BY <1>5, <1>6 DEF Clock!ClosedIsEarned, Clock!Week, x, D, S

LEMMA ExchangeCovers ==
    ASSUME NEW c, IsClock(c), NEW holidays, NEW t \in Int
    PROVE  Clock(c)!IsOpen(Clock(c)!NSE(holidays), t) <=>
             /\ t \div c.day \notin holidays /\ (t \div c.day) % 7 < 5
             /\ c.opens <= t % c.day /\ t % c.day < c.closes
<1> DEFINE window(d) == [opens |-> d * c.day + c.opens, closes |-> d * c.day + c.closes]
           W == {window(d) : d \in 0..4}
           s == Clock(c)!NSE(holidays)
           e == (t \div c.day) % 7
<1>1. s.windows = W /\ s.holidays = holidays
  <2>1. s = [windows |-> W, holidays |-> holidays]
    BY ExchangeHours
  <2> HIDE DEF W, s
  <2>2. QED BY <2>1
<1>2. c.day \in Nat \ {0} /\ c.opens \in Nat /\ c.closes \in Nat /\ c.opens < c.closes /\ c.closes < c.day
  BY DEF IsClock
<1>3. e \in 0..6
  BY <1>2, TickOfWeek
<1>4. ASSUME NEW d \in 0..4
      PROVE  Clock(c)!Covers(window(d), t) <=> e = d /\ c.opens <= t % c.day /\ t % c.day < c.closes
  <2>1. window(d).opens = d * c.day + c.opens /\ window(d).closes = d * c.day + c.closes /\ d * c.day = c.day * d
    BY <1>2
  <2> HIDE DEF window
  <2>2. window(d).opens = c.day * d + c.opens /\ window(d).closes = c.day * d + c.closes /\ d \in 0..6
    BY <2>1
  <2>3. QED BY <1>2, <2>2, CoversADay
<1> HIDE DEF window, s
<1>5. Clock(c)!IsOpen(s, t) <=> t \div c.day \notin holidays /\ \E d \in 0..4 : Clock(c)!Covers(window(d), t)
  BY <1>1 DEF Clock!IsOpen
<1> HIDE DEF e
<1>6. (\E d \in 0..4 : e = d) <=> e < 5
  BY <1>3
<1>7. QED BY <1>4, <1>5, <1>6 DEF s, e

\* The exchange's session and its calendar name the same next opening.
LEMMA SameNextOpen ==
    ASSUME NEW c, IsClock(c), NEW holidays, NEW m \in Nat,
           Clock(c)!NextOpen(Clock(c)!NSE(holidays), m) # -1, Clock(c)!NextSession(m, holidays) # -1
    PROVE  Clock(c)!NextOpen(Clock(c)!NSE(holidays), m) = Clock(c)!NextSession(m, holidays)
<1> DEFINE D == c.day
           O == c.opens
           H == c.horizon
           s == Clock(c)!NSE(holidays)
           opens == Clock(c)!NextOpen(s, m)
           today == m \div D
           r == m % D
           trades(d) == (d % 7) < 5 /\ d \notin holidays
           first == IF trades(today) /\ r < O THEN today ELSE today + 1
           days == {d \in first..(first + H - 1) : trades(d)}
           session == Clock(c)!NextSession(m, holidays)
<1>1. D \in Nat \ {0} /\ O \in Nat /\ O < D /\ H \in Nat
  BY DEF IsClock
<1>2. today \in Int /\ r \in Int /\ 0 <= r /\ r < D /\ m = D * today + r
  <2> HIDE DEF D
  <2>1. m \in Int
    OBVIOUS
  <2>2. QED BY <1>1, <2>1, DivMod
<1>3. today >= 0
  <2> HIDE DEF today, r, D
  <2>1. ASSUME today < 0 PROVE FALSE
    <3>1. D * today + r < D * 0 + 0
      BY <1>1, <1>2, <2>1, Lexical
    <3>2. QED BY <1>1, <1>2, <3>1
  <2>2. QED BY <1>2, <2>1
<1>4. session = IF days = {} THEN -1 ELSE Least(days) * D + O
  BY DEF Clock!NextSession, Clock!IsTradingDay, Clock!Min, Clock!Unknown, Least
<1>5. IsSession(c, s) /\ s.holidays = holidays
  <2>1. s = [windows |-> {[opens |-> d * c.day + c.opens, closes |-> d * c.day + c.closes] : d \in 0..4},
             holidays |-> holidays] /\ IsSession(c, s)
    BY ExchangeHours
  <2> HIDE DEF s
  <2>2. QED BY <2>1
<1>6. /\ opens # -1 =>
           /\ ~Held(c, s, opens) /\ \E w \in s.windows, k \in Nat : opens = Start(c, w, m, k)
           /\ \A w \in s.windows, k \in Nat : Start(c, w, m, k) < opens => Held(c, s, Start(c, w, m, k))
  BY <1>5, NextOpenIs
<1> HIDE DEF opens, session, s, today, r, D, O, H, trades
<1>7. first \in Nat /\ days \subseteq Nat
  BY <1>1, <1>2, <1>3
<1>8. \A e \in Int : trades(e) => (D * e + O > m <=> e >= first)
  <2> SUFFICES ASSUME NEW e \in Int, trades(e) PROVE D * e + O > m <=> e >= first
    OBVIOUS
  <2>1. D * today + r < D * e + O <=> today < e \/ (today = e /\ r < O)
    BY <1>1, <1>2, Lexical
  <2>2. D * e + O \in Int
    BY <1>1
  <2>3. D * e + O > m <=> today < e \/ (today = e /\ r < O)
    BY <1>2, <2>1, <2>2
  <2>4. QED BY <1>2, <2>3
<1>9. PICK f \in Int : f = Least(days) /\ f \in days /\ (\A d \in days : f <= d) /\ session = f * D + O
  <2>1. days # {}
    BY <1>4 DEF session
  <2>2. session = Least(days) * D + O
    BY <1>4, <2>1
  <2> HIDE DEF days
  <2>3. Least(days) \in days /\ \A d \in days : Least(days) <= d
    BY <1>7, <2>1, LeastIs
  <2> DEFINE l == Least(days)
  <2>4. l = Least(days)
    OBVIOUS
  <2> HIDE DEF l, first
  <2>5. l \in days /\ \A d \in days : l <= d
    BY <2>3, <2>4
  <2>6. session = l * D + O
    BY <2>2, <2>4
  <2>7. l \in Int
    BY <1>7, <2>5
  <2>8. QED BY <2>4, <2>5, <2>6, <2>7
<1>10. trades(f) /\ f >= first /\ f <= first + H - 1
  BY <1>1, <1>7, <1>9
<1>11. ASSUME NEW e \in Int, trades(e), e >= first PROVE f <= e
  <2>1. CASE e <= first + H - 1
    BY <1>9, <1>11, <2>1
  <2>2. CASE e > first + H - 1
    <3> HIDE DEF first
    <3>1. QED BY <1>1, <1>7, <1>10, <2>2
  <2> HIDE DEF first
  <2>3. QED BY <1>1, <1>7, <2>1, <2>2
<1> HIDE DEF first, days
<1>12. \A e \in Int : e <= f => D * e + O <= D * f + O
  <2> SUFFICES ASSUME NEW e \in Int, e <= f PROVE D * e + O <= D * f + O
    OBVIOUS
  <2>1. D * (f - e) >= 0
    BY <1>1
  <2>2. QED BY <1>1, <2>1
<1>13. \A w \in s.windows : IsWindow(c, w) /\ w.opens # w.closes /\ \E d \in 0..4 : w.opens = D * d + O
  <2> DEFINE window(d) == [opens |-> d * c.day + c.opens, closes |-> d * c.day + c.closes]
             W == {window(d) : d \in 0..4}
  <2>1. s = [windows |-> W, holidays |-> holidays]
    BY ExchangeHours DEF s
  <2>2. \A d \in 0..4 : window(d).opens = D * d + O /\ window(d).closes = D * d + c.closes
    BY <1>1 DEF D, O
  <2>3. c.closes \in Nat /\ O < c.closes
    BY DEF IsClock, O
  <2> HIDE DEF window, s
  <2>4. s.windows = W
    BY <2>1
  <2>5. ASSUME NEW d \in 0..4 PROVE window(d).opens # window(d).closes
    <3> DEFINE p == D * d
    <3>1. p \in Int /\ window(d).opens = p + O /\ window(d).closes = p + c.closes
      BY <1>1, <2>2
    <3> HIDE DEF p
    <3>2. QED BY <1>1, <2>3, <3>1
  <2>6. QED BY <1>5, <2>2, <2>4, <2>5 DEF IsSession
<1>14. \A d \in 0..4 : \E w \in s.windows : w.opens = D * d + O
  <2> DEFINE window(d) == [opens |-> d * c.day + c.opens, closes |-> d * c.day + c.closes]
             W == {window(d) : d \in 0..4}
  <2>1. s = [windows |-> W, holidays |-> holidays]
    BY ExchangeHours DEF s
  <2>2. \A d \in 0..4 : window(d).opens = D * d + O
    BY <1>1 DEF D, O
  <2> HIDE DEF window, s
  <2>3. s.windows = W
    BY <2>1
  <2>4. QED BY <2>2, <2>3
\* What next_open found is a trading day's bell.
<1>15. \E q \in Int : trades(q) /\ opens = D * q + O /\ opens > m /\ opens \in Int
  <2>1. opens # -1
    BY DEF opens, s
  <2>2. PICK w \in s.windows, k \in Nat : opens = Start(c, w, m, k)
    BY <1>6, <2>1
  <2>3. IsWindow(c, w) /\ w.opens # w.closes
    BY <1>13
  <2>4. opens \in Nat /\ opens > m
    BY <2>2, <2>3, StartIs
  <2>5. Clock(c)!Covers(w, opens) /\ opens % (7 * D) = w.opens
    BY <2>2, <2>3, OpensOpen DEF D
  <2>6. Clock(c)!IsOpen(s, opens)
    BY <1>5, <1>6, <2>1, <2>5 DEF Clock!IsOpen, Held
  <2> DEFINE q == opens \div D
             p == opens % D
  <2>7. opens \in Int
    BY <2>4
  <2>8. q \in Int /\ p \in Int /\ 0 <= p /\ p < D /\ opens = D * q + p
    BY <1>1, <2>7, DivMod
  <2>9. q \notin holidays /\ q % 7 < 5
    BY <2>6, <2>7, ExchangeCovers DEF s, D
  <2>10. opens % (7 * D) = D * (q % 7) + p
    <3> HIDE DEF q, p
    <3>1. (D * q + p) % (7 * D) = D * (q % 7) + p
      BY <1>1, <2>8, OfWeek
    <3>2. QED BY <2>8, <3>1
  <2> HIDE DEF q, p
  <2>11. PICK d \in 0..4 : w.opens = D * d + O
    BY <1>13
  <2>12. q % 7 \in Int /\ D * (q % 7) + p = D * d + O
    BY <2>5, <2>8, <2>10, <2>11
  <2>13. p = O
    BY <1>1, <2>8, <2>12, Lexical
  <2>14. trades(q)
    BY <2>9 DEF trades
  <2>15. QED BY <2>4, <2>7, <2>8, <2>13, <2>14
<1>16. PICK q \in Int : trades(q) /\ opens = D * q + O /\ opens > m /\ opens \in Int
  BY <1>15
<1>17. session \in Int /\ session = D * f + O
  BY <1>1, <1>9
<1>18. session <= opens
  <2>1. q >= first
    BY <1>8, <1>16
  <2>2. f <= q
    BY <1>11, <1>16, <2>1
  <2> DEFINE x == D * f
             y == D * q
  <2>3. x + O <= y + O /\ x \in Int /\ y \in Int
    <3>1. D * (q - f) >= 0
      BY <1>1, <2>2
    <3>2. QED BY <1>1, <3>1
  <2> HIDE DEF x, y
  <2>4. session = x + O /\ opens = y + O
    BY <1>16, <1>17 DEF x, y
  <2>5. QED BY <2>3, <2>4
\* A session of the calendar is an opening of the windows.
<1>19. ~(session < opens)
  <2> DEFINE d == f % 7
  <2>1. d \in 0..4 /\ f \notin holidays
    BY <1>10 DEF trades
  <2>2. PICK w \in s.windows : w.opens = D * d + O
    BY <1>14, <2>1
  <2>3. session > m
    BY <1>8, <1>10, <1>17
  <2>4. session % (7 * D) = D * d + O
    <3>1. (D * f + O) % (7 * D) = D * (f % 7) + O
      BY <1>1, OfWeek
    <3>2. QED BY <1>17, <3>1
  <2>5. IsWindow(c, w)
    BY <1>13
  <2>6. session \in Nat
    BY <1>17, <2>3
  <2>7. session % (7 * c.day) = w.opens
    BY <2>2, <2>4 DEF D
  <2>8. PICK k \in Nat : session = Start(c, w, m, k)
    BY <2>3, <2>5, <2>6, <2>7, StartsOnly
  <2>9. session \div D = f
    <3>1. (D * f + O) \div D = f
      BY <1>1, DivModIs
    <3>2. QED BY <1>17, <3>1
  <2>10. ~Held(c, s, session)
    BY <1>5, <2>1, <2>9 DEF Held, D
  <2>11. opens # -1
    BY DEF opens, s
  <2>12. QED BY <1>6, <2>8, <2>10, <2>11
<1>20. QED BY <1>16, <1>17, <1>18, <1>19 DEF opens, session, s

\* A chart and an order are told the same hours of the exchange, whatever its holidays.
THEOREM CalendarsAgree ==
    ASSUME NEW c, IsClock(c), NEW holidays, NEW m \in Nat
    PROVE  Clock(c)!TwoCalendarsAgree(m, holidays)
<1>1. ASSUME m % c.day # c.closes
      PROVE  Clock(c)!IsOpen(Clock(c)!NSE(holidays), m) <=> Clock(c)!IsMarketOpen(m, holidays)
  <2> DEFINE r == m % c.day
             day == m \div c.day
  <2>1. Clock(c)!IsOpen(Clock(c)!NSE(holidays), m) <=>
             /\ day \notin holidays /\ day % 7 < 5 /\ c.opens <= r /\ r < c.closes
    BY ExchangeCovers
  <2>2. Clock(c)!IsMarketOpen(m, holidays) <=> day % 7 < 5 /\ day \notin holidays /\ r \in c.opens..c.closes
    BY DEF Clock!IsMarketOpen, Clock!IsTradingDay
  <2>3. c.day \in Nat \ {0} /\ c.opens \in Nat /\ c.closes \in Nat
    BY DEF IsClock
  <2>4. r \in Int
    BY <2>3, DivMod
  <2> DEFINE o == c.opens
             z == c.closes
  <2>5. r # z /\ o \in Nat /\ z \in Nat
    BY <1>1, <2>3
  <2> HIDE DEF r, day, o, z
  <2>6. r \in o..z <=> o <= r /\ r < z
    BY <2>4, <2>5
  <2>7. QED BY <2>1, <2>2, <2>6, Zenon DEF o, z
<1>2. \/ Clock(c)!NextOpen(Clock(c)!NSE(holidays), m) = -1 \/ Clock(c)!NextSession(m, holidays) = -1
      \/ Clock(c)!NextOpen(Clock(c)!NSE(holidays), m) = Clock(c)!NextSession(m, holidays)
  BY SameNextOpen
<1>3. QED BY <1>1, <1>2 DEF Clock!TwoCalendarsAgree, Clock!Unknown

LEMMA MarketClockIs == IsClock(MarketClock) /\ MarketClock.attempts >= 10 /\ MarketClock.attempts > 0
<1>1. /\ MarketClock.day = 4 /\ MarketClock.opens = 1 /\ MarketClock.squaresOff = 2
      /\ MarketClock.closes = 3 /\ MarketClock.attempts = 10 /\ MarketClock.horizon = 14
  BY DEF MarketClock
<1>2. QED BY <1>1 DEF IsClock

\* Whatever moment and whatever holidays a trial is of, the calendars agree.
THEOREM HoursDoAgree ==
    ASSUME trial.of = "hours of" => trial.at \in Nat
    PROVE  HoursAgree
<1>1. IsClock(MarketClock) /\ MarketClock.attempts >= 10 /\ MarketClock.attempts > 0
  BY MarketClockIs
<1>2. CASE trial.of # "hours of"
  BY <1>2 DEF HoursAgree, NextOpenIsTheNext, TwoCalendarsAgree, ClosedIsEarned
<1>3. CASE trial.at \in Nat
  <2>1. /\ Findable(MarketClock, Clock(MarketClock)!NSE(trial.off))
        /\ Findable(MarketClock, Clock(MarketClock)!FX)
        /\ Findable(MarketClock, Clock(MarketClock)!AlwaysOpen)
    <3>1. Findable(MarketClock, Clock(MarketClock)!NSE(trial.off))
      BY <1>1, ExchangeHours
    <3>2. Findable(MarketClock, Clock(MarketClock)!FX)
      BY <1>1, ForexHours
    <3>3. Findable(MarketClock, Clock(MarketClock)!AlwaysOpen)
      BY <1>1, AllHours
    <3>4. QED BY <3>1, <3>2, <3>3
  <2>2. NextOpenIsTheNext
    BY <1>1, <1>3, <2>1, NextOpenIsNext DEF NextOpenIsTheNext
  <2>3. TwoCalendarsAgree
    BY <1>1, <1>3, CalendarsAgree DEF TwoCalendarsAgree
  <2>4. ClosedIsEarned
    BY <1>1, <1>3, ClosedIsAWeekend DEF ClosedIsEarned
  <2>5. QED BY <2>2, <2>3, <2>4 DEF HoursAgree
<1>4. QED BY <1>2, <1>3

-----------------------------------------------------------------------------
\* One-to-one pairings of a set with another.
Matching(S, T) == {f \in [S -> T] : (\A x, y \in S : f[x] = f[y] => x = y) /\ \A y \in T : \E x \in S : f[x] = y}

\* The library's operators, seen from the signals, are the library's.
LEMMA SignalLibrary ==
    ASSUME NEW c
    PROVE  /\ \A S : Signals(c)!Cardinality(S) = Cardinality(S)
           /\ \A S, T : Signals(c)!Bijection(S, T) = Matching(S, T)
<1>1. ASSUME NEW S PROVE Signals(c)!Cardinality(S) = Cardinality(S)
  BY Zenon DEF Signals!Cardinality, Cardinality, Signals!IsFiniteSet, IsFiniteSet
<1>2. ASSUME NEW S, NEW T PROVE Signals(c)!Bijection(S, T) = Matching(S, T)
  BY DEF Matching, Signals!Bijection, Signals!Injection, Signals!Surjection, Signals!IsInjective
<1>3. QED BY <1>1, <1>2, Zenon

\* The order a total is taken in, and what it has reached after so many.
Order(c, S) == CHOOSE s \in Signals(c)!Bijection(1..Signals(c)!Cardinality(S), S) : TRUE
Adds(g, f, e, k) == g[0] = 0 /\ \A i \in 1..k : g[i] = g[i - 1] + f[e[i]]

LEMMA OrderIs ==
    ASSUME NEW c, NEW S, IsFiniteSet(S)
    PROVE  /\ Order(c, S) \in [1..Cardinality(S) -> S] /\ Cardinality(S) \in Nat
           /\ \A y \in S : \E i \in 1..Cardinality(S) : Order(c, S)[i] = y
<1> DEFINE n == Cardinality(S)
           B == Matching(1..n, S)
<1>1. Order(c, S) = CHOOSE s \in B : TRUE
  <2>1. Signals(c)!Cardinality(S) = n /\ Signals(c)!Bijection(1..n, S) = B
    BY SignalLibrary, Zenon
  <2>2. QED BY <2>1, Zenon DEF Order
<1>2. n \in Nat /\ \E s : s \in B
  <2>1. n \in Nat /\ \E s : s \in Bijection(1..n, S)
    BY FS_CardinalityType DEF ExistsBijection
  <2>2. QED BY <2>1 DEF Matching, Bijection, Injection, Surjection, IsInjective
<1>3. Order(c, S) \in B
  BY <1>1, <1>2, Zenon
<1>4. QED BY <1>2, <1>3 DEF Matching

LEMMA TotalIs ==
    ASSUME NEW c, NEW S, IsFiniteSet(S), NEW f, \A x \in S : f[x] \in Int
    PROVE  \E g \in [0..Cardinality(S) -> Int] :
               Adds(g, f, Order(c, S), Cardinality(S)) /\ Signals(c)!Total(f, S) = g[Cardinality(S)]
<1> DEFINE n == Signals(c)!Cardinality(S)
           e == CHOOSE s \in Signals(c)!Bijection(1..n, S) : TRUE
           step == [p \in Int \X (1..n) |-> p[1] + f[e[p[2]]]]
           sum == CHOOSE g : g = [i \in 0..n |-> IF i = 0 THEN 0 ELSE g[i - 1] + f[e[i]]]
<1>0. n = Cardinality(S)
  BY SignalLibrary, Zenon
<1>2. Signals(c)!Total(f, S) = sum[n]
  BY Zenon DEF Signals!Total
<1>1. n \in Nat /\ e \in [1..n -> S] /\ e = Order(c, S)
  <2>1. e = Order(c, S)
    BY DEF Order
  <2> HIDE DEF e, n
  <2>2. QED BY <1>0, <2>1, OrderIs
<1> HIDE DEF n, e
<1>4. \A i \in 1..n : f[e[i]] \in Int
  BY <1>1
<1>5. \A x \in Int, i \in 1..n : step[<<x, i>>] = x + f[e[i]]
  OBVIOUS
<1>6. Loops!IsLoop(Int, n, 0, step)
  BY <1>1, <1>4, <1>5 DEF Loops!IsLoop
<1> HIDE DEF step
<1>7. PICK g \in [0..n -> Int] : g[0] = 0 /\ \A i \in 1..n : g[i] = step[<<g[i - 1], i>>]
  BY <1>6, Loops!LoopIsFunction
<1>8. \A i \in 1..n : g[i] = g[i - 1] + f[e[i]]
  <2>1. \A i \in 1..n : g[i - 1] \in Int
    BY <1>1
  <2>2. QED BY <1>5, <1>7, <2>1
<1>9. g = [i \in 0..n |-> IF i = 0 THEN 0 ELSE g[i - 1] + f[e[i]]]
  <2>1. \A i \in 0..n : g[i] = IF i = 0 THEN 0 ELSE g[i - 1] + f[e[i]]
    <3>1. ASSUME NEW i \in 0..n, i # 0 PROVE i \in 1..n
      BY <1>1, <3>1
    <3>2. QED BY <1>7, <1>8, <3>1
  <2>2. QED BY <2>1
<1>10. sum = [i \in 0..n |-> IF i = 0 THEN 0 ELSE sum[i - 1] + f[e[i]]]
  BY <1>9, Zenon
<1> HIDE DEF sum
<1>11. \A i \in 0..n : sum[i] = g[i]
  <2> DEFINE T == {i \in 0..n : sum[i] = g[i]}
  <2>1. 0 \in T
    BY <1>1, <1>7, <1>10
  <2>2. ASSUME NEW i \in 0..(n - 1), i \in T PROVE i + 1 \in T
    <3>1. i + 1 \in 1..n /\ i + 1 \in 0..n /\ (i + 1) - 1 = i /\ i + 1 # 0
      BY <1>1
    <3>2. sum[i + 1] = sum[i] + f[e[i + 1]] /\ g[i + 1] = g[i] + f[e[i + 1]]
      BY <1>8, <1>10, <3>1
    <3>3. QED BY <2>2, <3>1, <3>2
  <2> HIDE DEF T
  <2>3. \A i \in 0..n : i \in T
    BY <1>1, <2>1, <2>2, Loops!Climb
  <2>4. QED BY <2>3 DEF T
<1>12. Adds(g, f, e, n) /\ sum[n] = g[n]
  BY <1>1, <1>7, <1>8, <1>11 DEF Adds
<1>13. QED BY <1>0, <1>1, <1>2, <1>7, <1>12

\* Two totals over one set are together what their terms are together.
LEMMA TotalsTogether ==
    ASSUME NEW c, NEW S, IsFiniteSet(S), NEW f, NEW h, NEW w \in Int,
           \A x \in S : f[x] \in Int /\ h[x] \in Int /\ f[x] + h[x] <= w
    PROVE  /\ Signals(c)!Total(f, S) \in Int /\ Signals(c)!Total(h, S) \in Int
           /\ Signals(c)!Total(f, S) + Signals(c)!Total(h, S) <= Cardinality(S) * w
<1> DEFINE n == Cardinality(S)
           e == Order(c, S)
<1>1. n \in Nat /\ e \in [1..n -> S]
  BY OrderIs
<1>2. PICK g \in [0..n -> Int] : Adds(g, f, e, n) /\ Signals(c)!Total(f, S) = g[n]
  BY TotalIs
<1>3. PICK k \in [0..n -> Int] : Adds(k, h, e, n) /\ Signals(c)!Total(h, S) = k[n]
  BY TotalIs
<1> HIDE DEF n, e
<1> DEFINE T == {i \in 0..n : g[i] + k[i] <= i * w}
<1>4. 0 \in T
  BY <1>1, <1>2, <1>3 DEF Adds
<1>5. ASSUME NEW i \in 0..(n - 1), i \in T PROVE i + 1 \in T
  <2>0. i \in Int /\ i + 1 \in 1..n /\ (i + 1) - 1 = i
    BY <1>1
  <2>1. i \in Int /\ i + 1 \in 1..n /\ (i + 1) - 1 = i /\ e[i + 1] \in S
    BY <1>1, <2>0
  <2>2. /\ g[i + 1] = g[i] + f[e[i + 1]] /\ g[i] \in Int
        /\ k[i + 1] = k[i] + h[e[i + 1]] /\ k[i] \in Int
    BY <1>1, <1>2, <1>3, <2>1 DEF Adds
  <2>3. f[e[i + 1]] \in Int /\ h[e[i + 1]] \in Int /\ f[e[i + 1]] + h[e[i + 1]] <= w
    BY <2>1
  <2>4. (i + 1) * w = i * w + w /\ i * w \in Int /\ g[i] + k[i] <= i * w
    BY <1>5, <2>1
  <2> DEFINE l == i * w
             x == f[e[i + 1]]
             y == h[e[i + 1]]
             a == g[i]
             b == k[i]
  <2>5. (a + x) + (b + y) <= l + w
    <3>1. l \in Int /\ x \in Int /\ y \in Int /\ a \in Int /\ b \in Int /\ x + y <= w /\ a + b <= l
      BY <2>2, <2>3, <2>4
    <3> HIDE DEF l, x, y, a, b
    <3>2. QED BY <3>1
  <2>6. g[i + 1] + k[i + 1] <= (i + 1) * w
    <3> HIDE DEF l, x, y, a, b
    <3>1. QED BY <2>2, <2>4, <2>5 DEF l, x, y, a, b
  <2>7. QED BY <1>1, <2>6
<1> HIDE DEF T
<1>6. n \in T
  <2>1. \A i \in 0..n : i \in T
    BY <1>1, <1>4, <1>5, Loops!Climb
  <2>2. QED BY <1>1, <2>1
<1>7. g[n] \in Int /\ k[n] \in Int /\ g[n] + k[n] <= n * w
  BY <1>1, <1>6 DEF T
<1>8. QED BY <1>2, <1>3, <1>7 DEF n

\* A total of bounded terms, one of which is nothing.
LEMMA TotalWithout ==
    ASSUME NEW c, NEW S, IsFiniteSet(S), NEW f, NEW w \in Nat, NEW y \in S, f[y] = 0,
           \A x \in S : f[x] \in Int /\ f[x] <= w
    PROVE  /\ Signals(c)!Total(f, S) \in Int /\ Cardinality(S) \in Nat /\ Cardinality(S) >= 1
           /\ Signals(c)!Total(f, S) <= (Cardinality(S) - 1) * w
<1> DEFINE n == Cardinality(S)
           e == Order(c, S)
<1>1. n \in Nat /\ e \in [1..n -> S]
  BY OrderIs
<1>2. PICK p \in 1..n : e[p] = y
  BY OrderIs
<1>3. PICK g \in [0..n -> Int] : Adds(g, f, e, n) /\ Signals(c)!Total(f, S) = g[n]
  BY TotalIs
<1> HIDE DEF n, e
<1> DEFINE T == {i \in 0..n : g[i] <= i * w /\ (p <= i => g[i] <= (i - 1) * w)}
<1>4. 0 \in T
  BY <1>1, <1>2, <1>3 DEF Adds
<1>5. ASSUME NEW i \in 0..(n - 1), i \in T PROVE i + 1 \in T
  <2>1. i \in Int /\ i + 1 \in 1..n /\ (i + 1) - 1 = i /\ e[i + 1] \in S /\ p \in Int
    BY <1>1
  <2>2. g[i + 1] = g[i] + f[e[i + 1]] /\ g[i] \in Int
    BY <1>1, <1>3, <2>1 DEF Adds
  <2>3. f[e[i + 1]] \in Int /\ f[e[i + 1]] <= w
    BY <2>1
  <2>4. (i + 1) * w = i * w + w /\ (i - 1) * w = i * w - w /\ i * w \in Int
    BY <2>1
  <2> DEFINE l == i * w
             x == f[e[i + 1]]
             a == g[i]
  <2>5. a <= l /\ (p <= i => a <= l - w) /\ l \in Int /\ x \in Int /\ x <= w /\ a \in Int
    BY <1>5, <2>2, <2>3, <2>4
  <2>6. p = i + 1 => x = 0
    BY <1>2, <2>1
  <2>7. a + x <= l + w /\ (p <= i + 1 => a + x <= l)
    <3> HIDE DEF l, x, a
    <3>1. CASE p = i + 1
      BY <2>1, <2>5, <2>6, <3>1
    <3>2. CASE p # i + 1
      BY <2>1, <2>5, <3>2
    <3>3. QED BY <3>1, <3>2
  <2>8. g[i + 1] <= (i + 1) * w /\ (p <= i + 1 => g[i + 1] <= ((i + 1) - 1) * w)
    <3> HIDE DEF l, x, a
    <3>1. QED BY <2>1, <2>2, <2>4, <2>7 DEF l, x, a
  <2>9. QED BY <1>1, <2>8
<1> HIDE DEF T
<1>6. n \in T
  <2>1. \A i \in 0..n : i \in T
    BY <1>1, <1>4, <1>5, Loops!Climb
  <2>2. QED BY <1>1, <2>1
<1>7. g[n] \in Int /\ p <= n /\ n >= 1 /\ g[n] <= (n - 1) * w
  BY <1>1, <1>2, <1>6 DEF T
<1>8. QED BY <1>1, <1>3, <1>7 DEF n

\* A panel of finitely many families, each of finitely many indicators.
IsPanel(c) == IsFiniteSet(c.families) /\ \A f \in c.families : IsFiniteSet(c.members[f])

\* A share of a family is nothing when none of it agrees, and all of it at most;
\* what does not agree with one side agrees with the other.
LEMMA ShareIs ==
    ASSUME NEW a \in Nat, NEW v \in Nat \ {0}, a <= v
    PROVE  (420 * a) \div v \in 0..420 /\ (a = 0 => (420 * a) \div v = 0) /\ v * ((420 * a) \div v) <= 420 * a
<1> DEFINE q == (420 * a) \div v
           r == (420 * a) % v
<1>1. q \in Int /\ r \in Int /\ 0 <= r /\ r < v /\ 420 * a = v * q + r
  BY DivMod
<1> HIDE DEF q, r
<1>2. v * q \in Int /\ v * q <= 420 * a
  BY <1>1
<1>3. ASSUME q > 420 PROVE FALSE
  <2>1. v * q >= v * 421 /\ v * 421 = 421 * v
    BY <1>1, <1>3
  <2>2. QED BY <1>1, <1>2, <2>1
<1>4. ASSUME q < 0 PROVE FALSE
  <2>1. v * q <= v * (-1) /\ v * (-1) = -v
    BY <1>1, <1>4
  <2>2. QED BY <1>1, <2>1
<1>5. ASSUME a = 0, q > 0 PROVE FALSE
  <2>1. v * q >= v
    BY <1>1, <1>5
  <2>2. QED BY <1>1, <1>2, <1>5, <2>1
<1>6. q \in 0..420 /\ (a = 0 => q = 0) /\ v * q <= 420 * a
  BY <1>1, <1>2, <1>3, <1>4, <1>5
<1>7. QED BY <1>6 DEF q

LEMMA SharesTogether ==
    ASSUME NEW a \in Nat, NEW b \in Nat, NEW v \in Nat \ {0}, a + b = v
    PROVE  (420 * a) \div v + (420 * b) \div v <= 420
<1> DEFINE p == (420 * a) \div v
           q == (420 * b) \div v
<1>1. p \in Int /\ v * p <= 420 * a /\ q \in Int /\ v * q <= 420 * b
  BY ShareIs
<1> HIDE DEF p, q
<1>2. v * (p + q) = v * p + v * q /\ v * p \in Int /\ v * q \in Int
  BY <1>1
<1>3. v * (p + q) <= 420 * v
  BY <1>1, <1>2
<1>4. ASSUME p + q > 420 PROVE FALSE
  <2>1. v * (p + q) >= v * 421 /\ v * 421 = 421 * v /\ v * (p + q) \in Int
    BY <1>1, <1>4
  <2> DEFINE m == v * (p + q)
  <2>2. m \in Int /\ m >= 421 * v /\ m <= 420 * v
    BY <1>3, <2>1
  <2> HIDE DEF m
  <2>3. QED BY <2>2
<1>5. p + q <= 420
  BY <1>1, <1>4
<1>6. QED BY <1>5 DEF p, q

\* The votes of a family, and its share of either side.
LEMMA VotesAre ==
    ASSUME NEW c, IsPanel(c), NEW panel, NEW f \in Signals(c)!Voting(panel)
    PROVE  /\ f \in c.families
           /\ Cardinality(Signals(c)!Voters(panel, f)) \in Nat \ {0}
           /\ \A d : /\ Cardinality(Signals(c)!Agreeing(d, panel, f)) \in Nat
                     /\ Cardinality(Signals(c)!Agreeing(d, panel, f)) <= Cardinality(Signals(c)!Voters(panel, f))
                     /\ Signals(c)!Agreeing(d, panel, f) = {} => Cardinality(Signals(c)!Agreeing(d, panel, f)) = 0
           /\ Cardinality(Signals(c)!Agreeing("BUY", panel, f)) + Cardinality(Signals(c)!Agreeing("SELL", panel, f))
                = Cardinality(Signals(c)!Voters(panel, f))
<1> DEFINE V == Signals(c)!Voters(panel, f)
           Side(d) == Signals(c)!Agreeing(d, panel, f)
<1>1. f \in c.families /\ V # {}
  BY DEF Signals!Voting
<1>2. V = {i \in c.members[f] : panel[i] # "absent"}
  BY DEF Signals!Voters
<1>3. \A d : Side(d) = {i \in V : Signals(c)!Agrees(d, panel[i])}
  BY DEF Signals!Agreeing
<1>4. \A x : Signals(c)!Agrees("SELL", x) <=> ~Signals(c)!Agrees("BUY", x)
  BY DEF Signals!Agrees
<1>5. Side("BUY") \cup Side("SELL") = V /\ Side("BUY") \cap Side("SELL") = {}
  <2> HIDE DEF Side, V
  <2>1. QED BY <1>3, <1>4
<1>6. IsFiniteSet(V)
  <2>1. IsFiniteSet(c.members[f])
    BY <1>1 DEF IsPanel
  <2>2. V \subseteq c.members[f]
    BY <1>2
  <2> HIDE DEF V
  <2>3. QED BY <2>1, <2>2, FS_Subset
<1>7. \A d : Side(d) \subseteq V
  BY <1>3
<1> HIDE DEF V, Side
<1>8. Cardinality(V) \in Nat \ {0}
  BY <1>1, <1>6, FS_CardinalityType, FS_EmptySet
<1>9. \A d : IsFiniteSet(Side(d)) /\ Cardinality(Side(d)) \in Nat /\ Cardinality(Side(d)) <= Cardinality(V)
  BY <1>6, <1>7, FS_Subset, FS_CardinalityType
<1>10. \A d : Side(d) = {} => Cardinality(Side(d)) = 0
  BY FS_EmptySet
<1>11. Cardinality(Side("BUY")) + Cardinality(Side("SELL")) = Cardinality(V)
  <2> DEFINE x == Cardinality(Side("BUY"))
             y == Cardinality(Side("SELL"))
  <2>1. Cardinality(V) = x + y - Cardinality({})
    BY <1>5, <1>9, FS_Union
  <2>2. x \in Nat /\ y \in Nat /\ Cardinality({}) = 0
    BY <1>9, FS_EmptySet
  <2> HIDE DEF x, y
  <2>3. x + y = Cardinality(V)
    BY <2>1, <2>2
  <2>4. QED BY <2>3 DEF x, y
<1>12. QED BY <1>1, <1>8, <1>9, <1>10, <1>11 DEF V, Side

\* The share of each family that votes.
Shares(c, d, panel) == [f \in Signals(c)!Voting(panel) |-> Signals(c)!Share(d, panel, f)]

LEMMA SharesAre ==
    ASSUME NEW c, IsPanel(c), NEW panel
    PROVE  /\ IsFiniteSet(Signals(c)!Voting(panel)) /\ Signals(c)!Voting(panel) \subseteq c.families
           /\ \A f \in Signals(c)!Voting(panel) :
                /\ \A d : /\ Shares(c, d, panel)[f] \in 0..420
                          /\ Signals(c)!Agreeing(d, panel, f) = {} => Shares(c, d, panel)[f] = 0
                /\ Shares(c, "BUY", panel)[f] + Shares(c, "SELL", panel)[f] <= 420
<1>1. Signals(c)!Voting(panel) \subseteq c.families
  BY DEF Signals!Voting
<1>2. IsFiniteSet(Signals(c)!Voting(panel))
  BY <1>1, FS_Subset DEF IsPanel
<1>3. ASSUME NEW f \in Signals(c)!Voting(panel)
      PROVE  /\ \A d : /\ Shares(c, d, panel)[f] \in 0..420
                       /\ Signals(c)!Agreeing(d, panel, f) = {} => Shares(c, d, panel)[f] = 0
             /\ Shares(c, "BUY", panel)[f] + Shares(c, "SELL", panel)[f] <= 420
  <2> DEFINE v == Cardinality(Signals(c)!Voters(panel, f))
             a(d) == Cardinality(Signals(c)!Agreeing(d, panel, f))
  <2>1. \A d : Shares(c, d, panel)[f] = (420 * a(d)) \div v
    <3>1. TAKE d
    <3>2. Shares(c, d, panel)[f] = Signals(c)!Share(d, panel, f)
      BY DEF Shares
    <3>3. /\ Signals(c)!Cardinality(Signals(c)!Agreeing(d, panel, f)) = a(d)
          /\ Signals(c)!Cardinality(Signals(c)!Voters(panel, f)) = v
      BY SignalLibrary
    <3> HIDE DEF a, v
    <3>4. QED BY <3>2, <3>3 DEF Signals!Share, Signals!Whole
  <2>2. v \in Nat \ {0} /\ \A d : a(d) \in Nat /\ a(d) <= v /\ (Signals(c)!Agreeing(d, panel, f) = {} => a(d) = 0)
    BY VotesAre
  <2>3. a("BUY") + a("SELL") = v
    BY VotesAre
  <2> HIDE DEF a, v
  <2>4. \A d : (420 * a(d)) \div v \in 0..420 /\ (a(d) = 0 => (420 * a(d)) \div v = 0)
    <3>1. TAKE d
    <3> DEFINE k == a(d)
    <3>2. k \in Nat /\ k <= v /\ v \in Nat \ {0}
      BY <2>2
    <3> HIDE DEF k
    <3>3. (420 * k) \div v \in 0..420 /\ (k = 0 => (420 * k) \div v = 0)
      BY <3>2, ShareIs
    <3>4. QED BY <3>3 DEF k
  <2>5. (420 * a("BUY")) \div v + (420 * a("SELL")) \div v <= 420
    BY <2>2, <2>3, SharesTogether
  <2>6. QED BY <2>1, <2>2, <2>4, <2>5
<1>4. QED BY <1>1, <1>2, <1>3

\* A side is confirmed with three quarters of the families' shares, or more.
LEMMA ConfirmedIs ==
    ASSUME NEW c, IsPanel(c), NEW panel, NEW d, Signals(c)!Confirms(d, panel)
    PROVE  /\ Signals(c)!Voting(panel) # {} /\ Cardinality(Signals(c)!Voting(panel)) \in Nat \ {0}
           /\ Signals(c)!Total(Shares(c, d, panel), Signals(c)!Voting(panel)) \in Int
           /\ 315 * Cardinality(Signals(c)!Voting(panel))
                <= Signals(c)!Total(Shares(c, d, panel), Signals(c)!Voting(panel))
<1> DEFINE S == Signals(c)!Voting(panel)
           n == Cardinality(S)
           t == Signals(c)!Total(Shares(c, d, panel), S)
<1>1. S # {} /\ Signals(c)!Ratio(d, panel) * 4 >= 1260
  BY DEF Signals!Confirms, Signals!Whole
<1>2. Signals(c)!Ratio(d, panel) = t \div Signals(c)!Cardinality(S)
  BY DEF Signals!Ratio, Shares
<1>3. Signals(c)!Cardinality(S) = n
  BY SignalLibrary, Zenon
<1>4. IsFiniteSet(S) /\ n \in Nat \ {0}
  <2>1. IsFiniteSet(S)
    BY SharesAre, ZenonT(60)
  <2>2. QED BY <1>1, <2>1, FS_CardinalityType, FS_EmptySet
<1>5. t \in Int
  <2> DEFINE g == Shares(c, d, panel)
             h == [f \in S |-> 0]
  <2>1. \A f \in S : g[f] \in Int /\ h[f] \in Int /\ g[f] + h[f] <= 420
    <3>1. \A f \in S : g[f] \in 0..420
      BY SharesAre, ZenonT(60)
    <3> HIDE DEF g, S
    <3>2. QED BY <3>1
  <2> HIDE DEF g, h, S
  <2>2. /\ Signals(c)!Total(g, S) \in Int /\ Signals(c)!Total(h, S) \in Int
        /\ Signals(c)!Total(g, S) + Signals(c)!Total(h, S) <= Cardinality(S) * 420
    <3> HIDE DEF n, t
    <3>1. IsFiniteSet(S)
      BY <1>4
    <3>2. 420 \in Int
      OBVIOUS
    <3>3. QED BY <2>1, <3>1, <3>2, TotalsTogether, ZenonT(60)
  <2>3. QED BY <2>2 DEF g, S
<1> HIDE DEF S, n, t
<1>6. 315 * n <= t
  <2> DEFINE q == t \div n
             r == t % n
  <2>1. q * 4 >= 1260
    BY <1>1, <1>2, <1>3
  <2>2. q \in Int /\ r \in Int /\ 0 <= r /\ t = n * q + r
    BY <1>4, <1>5, DivMod
  <2> HIDE DEF q, r
  <2>3. n * q >= n * 315 /\ n * 315 = 315 * n /\ n * q \in Int
    BY <1>4, <2>1, <2>2
  <2>4. QED BY <1>4, <1>5, <2>2, <2>3
<1>7. QED BY <1>1, <1>4, <1>5, <1>6 DEF S, n, t

\* Whatever of a panel can vote, it confirms one side at most.
THEOREM OneWayAtMost ==
    ASSUME NEW c, IsPanel(c), NEW panel
    PROVE  Signals(c)!NeverBothWays(panel)
<1> DEFINE S == Signals(c)!Voting(panel)
           n == Cardinality(S)
           b == Signals(c)!Total(Shares(c, "BUY", panel), S)
           s == Signals(c)!Total(Shares(c, "SELL", panel), S)
<1>1. SUFFICES ASSUME Signals(c)!Confirms("BUY", panel), Signals(c)!Confirms("SELL", panel) PROVE FALSE
  BY DEF Signals!NeverBothWays
<1>2. n \in Nat \ {0} /\ b \in Int /\ s \in Int /\ 315 * n <= b /\ 315 * n <= s
  BY <1>1, ConfirmedIs, ZenonT(60)
<1>3. b + s <= n * 420
  <2> DEFINE g == Shares(c, "BUY", panel)
             h == Shares(c, "SELL", panel)
  <2>0. IsFiniteSet(S)
    BY SharesAre, ZenonT(60)
  <2>1. ASSUME NEW f \in S PROVE g[f] \in 0..420 /\ h[f] \in 0..420 /\ g[f] + h[f] <= 420
    <3>1. g[f] + h[f] <= 420
      BY SharesAre, ZenonT(60)
    <3>2. g[f] \in 0..420
      BY SharesAre, ZenonT(60)
    <3>3. h[f] \in 0..420
      BY SharesAre, ZenonT(60)
    <3>4. QED BY <3>1, <3>2, <3>3, Zenon
  <2> HIDE DEF g, h, S
  <2>2. \A f \in S : g[f] \in Int /\ h[f] \in Int /\ g[f] + h[f] <= 420
    BY <2>1
  <2>3. Signals(c)!Total(g, S) + Signals(c)!Total(h, S) <= Cardinality(S) * 420
    BY <2>0, <2>2, TotalsTogether
  <2>4. QED BY <2>3 DEF g, h
<1> HIDE DEF n, b, s
<1>4. QED BY <1>2, <1>3

\* With three families or fewer, one that is of one mind is not overruled.
THEOREM NoneOverruled ==
    ASSUME NEW c, IsPanel(c), Cardinality(c.families) <= 3, NEW panel
    PROVE  Signals(c)!NoFamilyOverruled(panel)
<1> DEFINE S == Signals(c)!Voting(panel)
           n == Cardinality(S)
<1>1. SUFFICES ASSUME NEW d \in {"BUY", "SELL"}, Signals(c)!Confirms(d, panel), NEW y \in S,
                      Signals(c)!Agreeing(d, panel, y) = {}
               PROVE  FALSE
  BY DEF Signals!NoFamilyOverruled
<1> DEFINE g == Shares(c, d, panel)
           t == Signals(c)!Total(g, S)
<1>2. n \in Nat \ {0} /\ t \in Int /\ 315 * n <= t
  BY <1>1, ConfirmedIs, ZenonT(60)
<1>3. t <= (n - 1) * 420
  <2>1. IsFiniteSet(S) /\ (\A f \in S : g[f] \in 0..420) /\ g[y] = 0
    BY <1>1, SharesAre, ZenonT(60)
  <2> HIDE DEF g, S
  <2>2. \A f \in S : g[f] \in Int /\ g[f] <= 420
    BY <2>1
  <2>3. Signals(c)!Total(g, S) <= (Cardinality(S) - 1) * 420
    BY <1>1, <2>1, <2>2, TotalWithout
  <2>4. QED BY <2>3
<1>4. n <= 3
  <2>1. S \subseteq c.families /\ IsFiniteSet(c.families)
    BY SharesAre, ZenonT(60) DEF IsPanel
  <2> HIDE DEF S
  <2>2. n <= Cardinality(c.families) /\ Cardinality(c.families) \in Nat
    BY <2>1, FS_Subset, FS_CardinalityType
  <2> HIDE DEF n
  <2>3. QED BY <1>2, <2>2
<1> HIDE DEF n, t
<1>5. QED BY <1>2, <1>3, <1>4

\* Bars that open an interval apart or more, none of them ahead of the clock.
Apart(opens, interval) == \A i, j \in 1..Len(opens) : i < j => opens[i] + interval <= opens[j]

\* Whatever frame generate computes a signal from, its bars are over, the newest
\* of them not long ago.  The candles the model fetches for itself are not among
\* them.
THEOREM ClosedBars ==
    ASSUME NEW c, c.interval \in Nat \ {0}, NEW opens \in Seq(Int), Apart(opens, c.interval),
           NEW now \in Int, \A i \in 1..Len(opens) : opens[i] <= now
    PROVE  Signals(c)!MadeOfClosedBars(opens, now)
<1> DEFINE n == Len(opens)
           front == SubSeq(opens, 1, n - 1)
           frame == Signals(c)!DropForming(opens, now)
           newest == Signals(c)!Newest(frame)
<1>1. SUFFICES ASSUME Signals(c)!Frame(opens, now) = "bars"
               PROVE  /\ now >= newest + c.interval /\ now <= newest + 3 * c.interval
                      /\ \A i \in DOMAIN opens : opens[i] + c.interval <= now => opens[i] <= newest
  BY Zenon DEF Signals!MadeOfClosedBars
<1>2. ~Signals(c)!Stale(frame, now)
  BY <1>1 DEF Signals!Frame
<1>3. frame # <<>> /\ ~(now - newest > c.interval * 3)
  BY <1>2, Zenon DEF Signals!Stale
<1>4. frame = IF opens # <<>> /\ now - opens[n] < c.interval THEN front ELSE opens
  BY Zenon DEF Signals!DropForming, Signals!Newest
<1>5. newest = frame[Len(frame)]
  BY Zenon DEF Signals!Newest
<1>6. n \in Nat /\ DOMAIN opens = 1..n /\ \A i \in 1..n : opens[i] \in Int
  BY LenProperties, ElementOfSeq, SeqDef
<1> DEFINE k == c.interval
<1>7. k \in Nat /\ \A i, j \in 1..n : i < j => opens[i] + k <= opens[j]
  BY DEF Apart
<1>8. \A i \in 1..n : opens[i] <= now
  OBVIOUS
<1> HIDE DEF frame, newest, k
<1>9. CASE opens # <<>> /\ now - opens[n] < c.interval
  <2>1. n # 0
    BY <1>9, EmptySeq
  <2>2. front \in Seq(Int) /\ Len(front) = n - 1 /\ \A i \in 1..(n - 1) : front[i] = opens[i]
    BY <1>6, <2>1, SubSeqProperties
  <2>3. frame = front
    BY <1>4, <1>9
  <2> HIDE DEF front
  <2>4. n - 1 # 0
    BY <1>3, <2>2, <2>3, EmptySeq
  <2>5. n - 1 \in 1..n /\ n \in 1..n /\ newest = opens[n - 1]
    <3>1. newest = front[n - 1]
      BY <1>5, <2>2, <2>3
    <3> HIDE DEF n, front
    <3>2. n - 1 \in 1..(n - 1) /\ n - 1 \in 1..n /\ n \in 1..n
      BY <1>6, <2>1, <2>4
    <3>3. QED BY <2>2, <3>1, <3>2
  <2>6. newest \in Int /\ newest + c.interval <= opens[n] /\ opens[n] <= now /\ opens[n] \in Int
    <3> HIDE DEF n
    <3>1. newest \in Int /\ newest + k <= opens[n] /\ opens[n] <= now /\ opens[n] \in Int
      BY <1>6, <1>8, <1>7, <2>1, <2>5
    <3>2. QED BY <3>1 DEF k
  <2>7. ASSUME NEW i \in 1..n, opens[i] + c.interval <= now PROVE opens[i] <= newest
    <3>1. i # n
      <4>1. opens[i] + k <= now /\ now - opens[n] < k
        BY <1>9, <2>7 DEF k
      <4> HIDE DEF n
      <4>2. QED BY <1>6, <1>7, <2>5, <4>1
    <3>2. CASE i = n - 1
      BY <1>6, <2>5, <3>2
    <3>3. CASE i < n - 1
      <4>1. opens[i] + k <= opens[n - 1] /\ opens[i] \in Int
        <5> HIDE DEF n
        <5>1. QED BY <1>6, <1>7, <2>5, <3>3
      <4>2. k \in Nat /\ newest = opens[n - 1] /\ newest \in Int
        BY <1>7, <2>5, <2>6
      <4> HIDE DEF n
      <4>3. QED BY <4>1, <4>2
    <3>4. i = n \/ i = n - 1 \/ i < n - 1
      <4> HIDE DEF n
      <4>1. QED BY <1>6
    <3>5. QED BY <3>1, <3>2, <3>3, <3>4
  <2> HIDE DEF n
  <2>8. QED BY <1>3, <1>6, <2>6, <2>7
<1>10. CASE ~(opens # <<>> /\ now - opens[n] < c.interval)
  <2>1. frame = opens
    BY <1>4, <1>10
  <2>2. n # 0 /\ newest = opens[n] /\ opens # <<>>
    BY <1>3, <1>5, <2>1, EmptySeq
  <2>3. n \in 1..n /\ newest \in Int /\ newest + c.interval <= now
    BY <1>6, <1>10, <2>2
  <2>4. ASSUME NEW i \in 1..n PROVE opens[i] <= newest
    <3>1. CASE i = n
      BY <1>6, <2>2, <3>1
    <3>2. CASE i # n
      <4>1. opens[i] + k <= opens[n] /\ opens[i] \in Int
        <5> HIDE DEF n
        <5>1. QED BY <1>6, <1>7, <2>3, <3>2
      <4>2. QED BY <1>7, <2>2, <2>3, <4>1
    <3>3. QED BY <3>1, <3>2
  <2> HIDE DEF n
  <2>5. QED BY <1>3, <1>6, <2>3, <2>4
<1>11. QED BY <1>9, <1>10

\* The bars of the frame a signal is computed from are over, all of them.
LEMMA FrameIsOver ==
    ASSUME NEW c, c.interval \in Nat \ {0}, NEW opens \in Seq(Int), Apart(opens, c.interval),
           NEW now \in Int, \A i \in 1..Len(opens) : opens[i] <= now,
           Signals(c)!Frame(opens, now) = "bars"
    PROVE  LET frame == Signals(c)!DropForming(opens, now) IN
           \A i \in DOMAIN frame : frame[i] + c.interval <= now
<1> DEFINE n == Len(opens)
           k == c.interval
           front == SubSeq(opens, 1, n - 1)
           frame == Signals(c)!DropForming(opens, now)
<1>1. frame = IF opens # <<>> /\ now - opens[n] < k THEN front ELSE opens
  BY Zenon DEF Signals!DropForming, Signals!Newest
<1>2. n \in Nat /\ DOMAIN opens = 1..n /\ \A i \in 1..n : opens[i] \in Int /\ opens[i] <= now
  BY LenProperties, ElementOfSeq, SeqDef
<1>3. k \in Nat /\ \A i, j \in 1..n : i < j => opens[i] + k <= opens[j]
  BY DEF Apart
<1>4. CASE opens # <<>> /\ now - opens[n] < k
  <2>1. n # 0
    BY <1>4, EmptySeq
  <2>2. front \in Seq(Int) /\ Len(front) = n - 1 /\ \A i \in 1..(n - 1) : front[i] = opens[i]
    BY <1>2, <2>1, SubSeqProperties
  <2>3. DOMAIN front = 1..(n - 1) /\ frame = front
    BY <1>1, <1>4, <2>2, LenProperties
  <2> HIDE DEF n, k, front, frame
  <2>4. ASSUME NEW i \in 1..(n - 1) PROVE opens[i] + k <= now
    <3>1. i \in 1..n /\ n \in 1..n /\ i < n
      BY <1>2, <2>1
    <3>2. opens[i] + k <= opens[n] /\ opens[n] <= now /\ opens[n] \in Int /\ opens[i] \in Int
      BY <1>2, <1>3, <3>1
    <3>3. QED BY <1>3, <3>2
  <2>5. QED BY <2>2, <2>3, <2>4 DEF frame, k
<1>5. CASE ~(opens # <<>> /\ now - opens[n] < k)
  <2>1. frame = opens
    BY <1>1, <1>5
  <2> HIDE DEF n, k, frame
  <2>2. ASSUME NEW i \in 1..n PROVE opens[i] + k <= now
    <3>1. n \in 1..n /\ opens # <<>>
      BY <1>2, EmptySeq DEF n
    <3>2. opens[n] + k <= now /\ opens[n] \in Int
      BY <1>2, <1>3, <1>5, <3>1
    <3>3. CASE i = n
      BY <3>2, <3>3
    <3>4. CASE i # n
      <4>1. opens[i] + k <= opens[n] /\ opens[i] \in Int
        BY <1>2, <1>3, <3>1, <3>4
      <4>2. QED BY <1>3, <3>1, <3>2, <4>1
    <3>5. QED BY <3>3, <3>4
  <2>3. QED BY <1>2, <2>1, <2>2 DEF frame, k
<1>6. QED BY <1>4, <1>5

\* The other intervals' bars, an interval apart and none ahead of the clock, and
\* calls that ask for one of them or for the signal's own.
IsMarket(market, now) ==
    \A m \in DOMAIN market : /\ m \in Nat /\ market[m] \in Seq(Int) /\ Apart(market[m], m)
                             /\ \A i \in 1..Len(market[m]) : market[m][i] <= now
AsksOf(talk) == UNION {talk.rounds[k] : k \in DOMAIN talk.rounds}

\* A backtest is shown the bars of its slice only, and a live signal no bar that
\* is not over, but the newest of a frame that the model fetched itself.
THEOREM ShownBars ==
    ASSUME NEW c, c.interval \in Nat \ {0}, NEW opens \in Seq(Int), Apart(opens, c.interval),
           NEW now \in Int, \A i \in 1..Len(opens) : opens[i] <= now,
           NEW market, IsMarket(market, now), NEW talk, NEW live \in BOOLEAN,
           \A a \in AsksOf(talk) : a.interval \in DOMAIN market \cup {c.interval}
    PROVE  Signals(c)!ShownIsOver(opens, market, talk, live, now)
<1> DEFINE asked == UNION {talk.rounds[k] : k \in DOMAIN talk.rounds}
           I == c.interval
           C(interval, line, n) == Signals(c)!Candles(interval, line, n)
           frame == Signals(c)!DropForming(opens, now)
           Ok(b) == \E a \in asked : /\ live /\ ~talk.failed /\ a.interval # I
                                     /\ b = Signals(c)!Candle(a.interval, Signals(c)!Newest(market[a.interval]))
<1>1. Signals(c)!Shown(opens, market, talk, FALSE) = C(I, opens, Len(opens))
  <2>1. ASSUME NEW a PROVE Signals(c)!Served(opens, market, a, FALSE) \subseteq C(I, opens, Len(opens))
    <3>1. Signals(c)!Served(opens, market, a, FALSE) = C(I, opens, Signals(c)!Count(a))
      BY Zenon DEF Signals!Served
    <3>2. Len(opens) \in Nat /\ DOMAIN opens = 1..Len(opens)
      BY LenProperties
    <3>3. \A k \in DOMAIN opens : k > Len(opens) - Len(opens)
      BY <3>2
    <3> DEFINE each == {Signals(c)!Candle(I, opens[i]) : i \in DOMAIN opens}
    <3>4. C(I, opens, Signals(c)!Count(a)) \subseteq each
      BY Zenon DEF Signals!Candles
    <3>5. each \subseteq C(I, opens, Len(opens))
      <4>1. DOMAIN opens \subseteq {k \in DOMAIN opens : k > Len(opens) - Len(opens)}
        BY <3>3
      <4>2. QED BY <4>1, Zenon DEF Signals!Candles
    <3>6. QED BY <3>1, <3>4, <3>5
  <2> DEFINE S(a) == Signals(c)!Served(opens, market, a, FALSE)
             all == C(I, opens, Len(opens))
             later == UNION {UNION {S(ask) : ask \in talk.rounds[k]} : k \in DOMAIN talk.rounds}
  <2>2. Signals(c)!Shown(opens, market, talk, FALSE) = all \cup IF talk.failed THEN {} ELSE later
    BY Zenon DEF Signals!Shown
  <2>3. \A a : S(a) \subseteq all
    BY <2>1
  <2>4. later \subseteq all
    <3> HIDE DEF S, all
    <3>1. QED BY <2>3
  <2>5. QED
    <3> HIDE DEF all, later
    <3>1. QED BY <2>2, <2>4 DEF all
<1>2. ASSUME Signals(c)!Frame(opens, now) = "bars",
             NEW b \in Signals(c)!Shown(frame, market, talk, live), ~Signals(c)!Over(b, now)
      PROVE  Ok(b)
  <2>1. ASSUME NEW n PROVE b \notin C(I, frame, n)
    <3>1. SUFFICES ASSUME NEW i \in DOMAIN frame, b = Signals(c)!Candle(I, frame[i]) PROVE FALSE
      BY Zenon DEF Signals!Candles
    <3>2. frame[i] + I <= now
      BY <1>2, FrameIsOver, Zenon
    <3>3. QED BY <1>2, <3>1, <3>2 DEF Signals!Over, Signals!Candle
  <2>2. ~talk.failed /\ \E k \in DOMAIN talk.rounds : \E a \in talk.rounds[k] :
            b \in Signals(c)!Served(frame, market, a, live)
    <3> DEFINE later == UNION {UNION {Signals(c)!Served(frame, market, a, live) : a \in talk.rounds[k]} :
                               k \in DOMAIN talk.rounds}
    <3>1. b \in C(I, frame, Len(frame)) \cup IF talk.failed THEN {} ELSE later
      BY <1>2, Zenon DEF Signals!Shown
    <3>2. b \notin C(I, frame, Len(frame))
      BY <2>1
    <3>3. ~talk.failed /\ b \in later
      <4> HIDE DEF C, later
      <4>1. QED BY <3>1, <3>2
    <3> DEFINE S(a) == Signals(c)!Served(frame, market, a, live)
    <3>4. b \in UNION {UNION {S(a) : a \in talk.rounds[k]} : k \in DOMAIN talk.rounds}
      BY <3>3
    <3> HIDE DEF S
    <3>5. \E k \in DOMAIN talk.rounds : \E a \in talk.rounds[k] : b \in S(a)
      BY <3>4
    <3>6. QED BY <3>3, <3>5 DEF S
  <2>3. PICK a \in asked : b \in Signals(c)!Served(frame, market, a, live)
    BY <2>2, Zenon
  <2>4. live /\ a.interval # I
    BY <2>1, <2>3, Zenon DEF Signals!Served
  <2> DEFINE m == a.interval
             line == market[m]
  <2>5. b \in C(m, line, Signals(c)!Count(a))
    BY <2>3, <2>4, Zenon DEF Signals!Served
  <2>6. m \in Nat /\ line \in Seq(Int) /\ Apart(line, m) /\ \A i \in 1..Len(line) : line[i] <= now
    BY <2>4, Zenon DEF AsksOf, IsMarket
  <2>7. PICK i \in DOMAIN line : b = Signals(c)!Candle(m, line[i])
    BY <2>5, Zenon DEF Signals!Candles
  <2> DEFINE n == Len(line)
  <2>8. n \in Nat /\ DOMAIN line = 1..n /\ \A j \in 1..n : line[j] \in Int
    BY <2>6, LenProperties, ElementOfSeq
  <2>9. ~(line[i] + m <= now)
    BY <1>2, <2>7, Zenon DEF Signals!Over, Signals!Candle
  <2>10. \A j, l \in 1..n : j < l => line[j] + m <= line[l]
    BY <2>6 DEF Apart
  <2>11. \A j \in 1..n : line[j] <= now
    BY <2>6
  <2>12. i = n
    <3> HIDE DEF line, n, m
    <3>1. SUFFICES ASSUME i # n PROVE FALSE
      OBVIOUS
    <3>2. i \in 1..n /\ n \in 1..n /\ i < n
      BY <2>8, <3>1
    <3>3. line[i] + m <= line[n] /\ line[n] <= now /\ line[n] \in Int /\ line[i] \in Int
      BY <2>8, <2>10, <2>11, <3>2
    <3>4. QED BY <2>6, <2>9, <3>3
  <2>13. b = Signals(c)!Candle(m, Signals(c)!Newest(line))
    BY <2>7, <2>12, Zenon DEF Signals!Newest
  <2>14. QED BY <2>2, <2>4, <2>13, Zenon
<1>3. QED BY <1>1, <1>2, Zenon DEF Signals!ShownIsOver

\* A bar opens between its low and its high.
IsBar(b) == /\ b.open \in Int /\ b.low \in Int /\ b.high \in Int /\ b.low <= b.open /\ b.open <= b.high

\* The lesser and the greater of two, and the first of some bars.
LEMMA EndsOfTwo ==
    ASSUME NEW c, NEW a \in Int, NEW b \in Int
    PROVE  /\ Signals(c)!Min({a, b}) = IF a <= b THEN a ELSE b
           /\ Signals(c)!Max({a, b}) = IF a >= b THEN a ELSE b
<1>1. Signals(c)!Min({a, b}) = CHOOSE x \in {a, b} : \A y \in {a, b} : x <= y
  BY DEF Signals!Min
<1>2. Signals(c)!Max({a, b}) = CHOOSE x \in {a, b} : \A y \in {a, b} : x >= y
  BY DEF Signals!Max
<1>3. QED BY <1>1, <1>2

LEMMA FirstOfBars ==
    ASSUME NEW c, NEW S, S \subseteq Nat, S # {}
    PROVE  Signals(c)!Min(S) \in S
<1>1. Signals(c)!Min(S) = CHOOSE x \in S : \A y \in S : x <= y
  BY DEF Signals!Min
<1>2. \E x \in S : \A y \in S : x <= y
  BY Loops!LeastOfSome
<1>3. QED BY <1>1, <1>2

\* What a verdict is made of: a bar that reached what it says.
StopsAt(c, d, stop, bar, v) ==
    /\ v.outcome = "STOP_HIT" /\ Signals(c)!StopsOut(d, stop, bar)
    /\ v.exit = Signals(c)!Worse(d, bar.open, stop)
PaysAt(c, d, target, bar, v) ==
    /\ v.outcome = "TARGET_HIT" /\ Signals(c)!Reaches(d, target, bar)
    /\ v.exit = Signals(c)!Better(d, bar.open, target)

LEMMA JudgedBy ==
    ASSUME NEW c, NEW d, NEW target, NEW stop, NEW bars, NEW I, I \subseteq Nat,
           NEW v, v = Signals(c)!Judge(d, target, stop, bars, I)
    PROVE  \/ v.outcome = "OPEN"
           \/ \E i \in I : StopsAt(c, d, stop, bars[i], v) \/ PaysAt(c, d, target, bars[i], v)
<1> DEFINE Stops(b) == Signals(c)!StopsOut(d, stop, b)
           Pays(b) == Signals(c)!Reaches(d, target, b)
           hits == {i \in I : Stops(bars[i]) \/ Pays(bars[i])}
           bar == bars[Signals(c)!Min(hits)]
<1>1. v = IF I = {} THEN Signals(c)!Outcome("OPEN", Signals(c)!Absent)
          ELSE IF hits = {} THEN Signals(c)!Outcome("OPEN", bars[Signals(c)!Max(I)].close)
          ELSE IF Stops(bar) THEN Signals(c)!Outcome("STOP_HIT", Signals(c)!FillsStop(d, stop, bar))
          ELSE Signals(c)!Outcome("TARGET_HIT", Signals(c)!Better(d, bar.open, target))
  BY Zenon DEF Signals!Judge
<1>2. \A w, x : Signals(c)!Outcome(w, x).outcome = w /\ Signals(c)!Outcome(w, x).exit = x
  BY DEF Signals!Outcome
<1>3. Signals(c)!FillsStop(d, stop, bar) = Signals(c)!Worse(d, bar.open, stop)
  BY Zenon DEF Signals!FillsStop
<1>4. hits # {} => Signals(c)!Min(hits) \in hits
  <2>1. hits \subseteq Nat
    OBVIOUS
  <2> HIDE DEF hits
  <2>2. QED BY <2>1, FirstOfBars
<1> HIDE DEF Stops, Pays
<1>5. CASE hits = {}
  <2>1. v.outcome = "OPEN"
    BY <1>1, <1>2, <1>5
  <2>2. QED BY <2>1
<1>6. CASE hits # {}
  <2> DEFINE m == Signals(c)!Min(hits)
  <2>1. m \in I /\ (Stops(bars[m]) \/ Pays(bars[m])) /\ I # {}
    BY <1>4, <1>6
  <2> HIDE DEF m, hits
  <2>2. CASE Stops(bars[m])
    <3>1. v = Signals(c)!Outcome("STOP_HIT", Signals(c)!Worse(d, bars[m].open, stop))
      BY <1>1, <1>3, <1>6, <2>1, <2>2 DEF m
    <3>2. StopsAt(c, d, stop, bars[m], v)
      BY <1>2, <2>2, <3>1 DEF StopsAt, Stops
    <3>3. QED BY <2>1, <3>2
  <2>3. CASE ~Stops(bars[m])
    <3>1. v = Signals(c)!Outcome("TARGET_HIT", Signals(c)!Better(d, bars[m].open, target))
      BY <1>1, <1>6, <2>1, <2>3 DEF m
    <3>2. PaysAt(c, d, target, bars[m], v)
      BY <1>2, <2>1, <2>3, <3>1 DEF PaysAt, Pays
    <3>3. QED BY <2>1, <3>2
  <2>4. QED BY <2>2, <2>3
<1>7. QED BY <1>5, <1>6

\* A stop that is hit is a loss and a target a gain, at a price of a later bar.
THEOREM VerdictsAreOfTheSide ==
    ASSUME NEW c, NEW s, s.direction \in {"BUY", "SELL"}, s.entry \in Int, s.target \in Int, s.stop \in Int,
           NEW n \in Nat, NEW bars, DOMAIN bars = 1..n, \A i \in 1..n : IsBar(bars[i])
    PROVE  Signals(c)!VerdictsMatchSide(s, bars)
<1> DEFINE v == Signals(c)!JudgeStored(s, bars)
           d == s.direction
           gain == IF d = "BUY" THEN v.exit - s.entry ELSE s.entry - v.exit
           I == {i \in 1..n : bars[i].at > s.at}
           Traded(x) == \E i \in DOMAIN bars : bars[i].at > s.at /\ x \in bars[i].low..bars[i].high
<1>1. SUFFICES ASSUME Signals(c)!PriceOrdering(d, s.entry, s.target, s.stop)
               PROVE  /\ v.outcome = "STOP_HIT" => gain < 0
                      /\ v.outcome = "TARGET_HIT" => gain > 0
                      /\ v.outcome # "OPEN" => Traded(v.exit)
  BY Zenon DEF Signals!VerdictsMatchSide
<1>2. v = Signals(c)!Judge(d, s.target, s.stop, bars, I)
  BY DEF Signals!JudgeStored
<1>3. \/ v.outcome = "OPEN"
      \/ \E i \in I : StopsAt(c, d, s.stop, bars[i], v) \/ PaysAt(c, d, s.target, bars[i], v)
  <2>1. I \subseteq Nat
    OBVIOUS
  <2> HIDE DEF v, I, d
  <2>2. QED BY <1>2, <2>1, JudgedBy, Zenon
<1>4. IF d = "BUY" THEN s.target > s.entry /\ s.stop < s.entry ELSE s.target < s.entry /\ s.stop > s.entry
  BY <1>1, Zenon DEF Signals!PriceOrdering
<1>5. \A i \in I : i \in DOMAIN bars /\ bars[i].at > s.at /\ IsBar(bars[i])
  OBVIOUS
<1> HIDE DEF v, I
<1>6. ASSUME NEW i \in I, StopsAt(c, d, s.stop, bars[i], v)
      PROVE  v.outcome = "STOP_HIT" /\ gain < 0 /\ Traded(v.exit)
  <2> DEFINE b == bars[i]
  <2>1. IF d = "BUY" THEN b.low <= s.stop ELSE b.high >= s.stop
    BY <1>6, Zenon DEF StopsAt, Signals!StopsOut
  <2>2. v.exit = IF d = "BUY" THEN Signals(c)!Min({b.open, s.stop}) ELSE Signals(c)!Max({b.open, s.stop})
    BY <1>6, Zenon DEF StopsAt, Signals!Worse
  <2>3. IsBar(b)
    BY <1>5
  <2>4. /\ Signals(c)!Min({b.open, s.stop}) = IF b.open <= s.stop THEN b.open ELSE s.stop
        /\ Signals(c)!Max({b.open, s.stop}) = IF b.open >= s.stop THEN b.open ELSE s.stop
    <3> DEFINE x == b.open
               y == s.stop
    <3>1. x \in Int /\ y \in Int
      BY <2>3 DEF IsBar
    <3> HIDE DEF x, y
    <3>2. /\ Signals(c)!Min({x, y}) = IF x <= y THEN x ELSE y
          /\ Signals(c)!Max({x, y}) = IF x >= y THEN x ELSE y
      BY <3>1, EndsOfTwo
    <3>3. QED BY <3>2 DEF x, y
  <2> HIDE DEF b
  <2>5. gain < 0 /\ v.exit \in b.low..b.high
    BY <1>4, <2>1, <2>2, <2>3, <2>4 DEF IsBar
  <2>6. QED BY <1>5, <1>6, <2>5 DEF b, StopsAt
<1>7. ASSUME NEW i \in I, PaysAt(c, d, s.target, bars[i], v)
      PROVE  v.outcome = "TARGET_HIT" /\ gain > 0 /\ Traded(v.exit)
  <2> DEFINE b == bars[i]
  <2>1. IF d = "BUY" THEN b.high >= s.target ELSE b.low <= s.target
    BY <1>7, Zenon DEF PaysAt, Signals!Reaches
  <2>2. v.exit = IF d = "BUY" THEN Signals(c)!Max({b.open, s.target}) ELSE Signals(c)!Min({b.open, s.target})
    BY <1>7, Zenon DEF PaysAt, Signals!Better
  <2>3. IsBar(b)
    BY <1>5
  <2>4. /\ Signals(c)!Min({b.open, s.target}) = IF b.open <= s.target THEN b.open ELSE s.target
        /\ Signals(c)!Max({b.open, s.target}) = IF b.open >= s.target THEN b.open ELSE s.target
    <3> DEFINE x == b.open
               y == s.target
    <3>1. x \in Int /\ y \in Int
      BY <2>3 DEF IsBar
    <3> HIDE DEF x, y
    <3>2. /\ Signals(c)!Min({x, y}) = IF x <= y THEN x ELSE y
          /\ Signals(c)!Max({x, y}) = IF x >= y THEN x ELSE y
      BY <3>1, EndsOfTwo
    <3>3. QED BY <3>2 DEF x, y
  <2> HIDE DEF b
  <2>5. gain > 0 /\ v.exit \in b.low..b.high
    BY <1>4, <2>1, <2>2, <2>3, <2>4 DEF IsBar
  <2>6. QED BY <1>5, <1>7, <2>5 DEF b, PaysAt
<1> HIDE DEF gain, Traded
<1>8. QED BY <1>3, <1>6, <1>7

\* A trade that is sent is on its sides, its stop an ATR away or more, and its
\* target one and a half times as far as its stop.
LEMMA SentIs ==
    ASSUME NEW c, NEW s, NEW opens, NEW now, NEW adx, NEW talk, NEW panel, NEW rsi, NEW atr, NEW ltp,
           Signals(c)!Generate(opens, now, adx, talk, s, panel, rsi, atr, ltp) = "signal"
    PROVE  /\ Signals(c)!PriceOrdering(s.direction, s.entry, s.target, s.stop)
           /\ Signals(c)!RewardRisk(s.entry, s.target, s.stop)
           /\ Signals(c)!StopSize(s.entry, s.stop, atr)
<1> DEFINE frame == Signals(c)!Frame(opens, now)
           v == Signals(c)!Validate(s, panel, rsi, atr, ltp)
<1>1. frame \in {"insufficient_data", "stale_data", "bars"}
  BY Zenon DEF Signals!Frame
<1>2. v \in {"hold", "long only", "prices", "ordering", "drift", "confluence", "rsi", "reward", "stop", "ok"}
  BY DEF Signals!Validate
<1>3. v = "ok"
  <2> HIDE DEF frame, v
  <2>1. CASE v # "ok"
    <3>1. Signals(c)!Generate(opens, now, adx, talk, s, panel, rsi, atr, ltp)
            \in {frame, "adx_unavailable", "regime_filtered", "llm_no_answer", v}
      BY <2>1 DEF Signals!Generate, frame, v
    <3>2. QED BY <1>1, <1>2, <2>1, <3>1
  <2>2. QED BY <2>1
<1>4. QED BY <1>3 DEF Signals!Validate

\* A bar shorter than the ATR, about the entry, decides nothing.
THEOREM NoiseIsNothing ==
    ASSUME NEW c, c.cent \in Int, NEW s, s.entry \in Int, s.target \in Int, s.stop \in Int,
           NEW opens, NEW now, NEW adx, NEW talk, NEW panel, NEW rsi, NEW atr \in Int, NEW ltp,
           NEW bar, bar.low \in Int, bar.high \in Int
    PROVE  Signals(c)!NoiseDecidesNothing(opens, now, adx, talk, s, panel, rsi, atr, ltp, bar)
<1> DEFINE v == Signals(c)!Judge(s.direction, s.target, s.stop, <<bar>>, {1})
           d == s.direction
           D(a, b) == IF a > b THEN a - b ELSE b - a
           low == bar.low
           high == bar.high
           e == s.entry
           t == s.target
           p == s.stop
<1>1. SUFFICES ASSUME Signals(c)!Generate(opens, now, adx, talk, s, panel, rsi, atr, ltp) = "signal",
                      s.entry \in bar.low..bar.high, bar.high - bar.low < atr
               PROVE  v.outcome = "OPEN"
  BY Zenon DEF Signals!NoiseDecidesNothing
<1>2. low \in Int /\ high \in Int /\ e \in Int /\ t \in Int /\ p \in Int
      /\ low <= e /\ e <= high /\ high - low < atr
  BY <1>1
<1>3. /\ Signals(c)!PriceOrdering(d, e, t, p)
      /\ Signals(c)!RewardRisk(e, t, p) /\ Signals(c)!StopSize(e, p, atr)
  BY <1>1, SentIs, Zenon
<1>4. IF d = "BUY" THEN t > e /\ p < e ELSE t < e /\ p > e
  BY <1>3, Zenon DEF Signals!PriceOrdering
<1>5. Signals(c)!Distance(e, p) = D(e, p) /\ Signals(c)!Distance(t, e) = D(t, e)
  BY DEF Signals!Distance
<1>6. D(e, p) >= atr
  BY <1>3, <1>5 DEF Signals!StopSize
<1>7. 2 * D(t, e) >= 3 * D(e, p)
  <2> DEFINE x == D(e, p)
             y == c.cent
  <2>1. 2 * D(t, e) >= 3 * Signals(c)!Max({x, y})
    BY <1>3, <1>5 DEF Signals!RewardRisk
  <2>2. x \in Int /\ y \in Int
    BY <1>2
  <2> HIDE DEF x, y
  <2>3. Signals(c)!Max({x, y}) = IF x >= y THEN x ELSE y
    BY <2>2, EndsOfTwo
  <2>4. D(t, e) \in Int
    BY <1>2
  <2> HIDE DEF D
  <2>5. QED BY <2>1, <2>2, <2>3, <2>4 DEF x
<1>8. \/ v.outcome = "OPEN"
      \/ StopsAt(c, d, p, bar, v) \/ PaysAt(c, d, t, bar, v)
  <2>1. \/ v.outcome = "OPEN"
        \/ \E i \in {1} : StopsAt(c, d, p, <<bar>>[i], v) \/ PaysAt(c, d, t, <<bar>>[i], v)
    <3> DEFINE bars == <<bar>>
               I == {1}
    <3>1. I \subseteq Nat /\ v = Signals(c)!Judge(s.direction, s.target, s.stop, bars, I)
      OBVIOUS
    <3> HIDE DEF v, bars, I
    <3>2. \/ v.outcome = "OPEN"
          \/ \E i \in I : StopsAt(c, s.direction, s.stop, bars[i], v)
                          \/ PaysAt(c, s.direction, s.target, bars[i], v)
      BY <3>1, JudgedBy
    <3>3. QED BY <3>2 DEF bars, I
  <2>2. \A i \in {1} : <<bar>>[i] = bar
    OBVIOUS
  <2> HIDE DEF v
  <2>3. QED BY <2>1, <2>2, Zenon
<1>9. ~StopsAt(c, d, p, bar, v)
  <2>1. SUFFICES ASSUME StopsAt(c, d, p, bar, v) PROVE FALSE
    OBVIOUS
  <2>2. IF d = "BUY" THEN low <= p ELSE high >= p
    BY <2>1, Zenon DEF StopsAt, Signals!StopsOut
  <2> HIDE DEF low, high, e, t, p, d, v
  <2>3. QED BY <1>2, <1>4, <1>6, <2>2
<1>10. ~PaysAt(c, d, t, bar, v)
  <2>1. SUFFICES ASSUME PaysAt(c, d, t, bar, v) PROVE FALSE
    OBVIOUS
  <2>2. IF d = "BUY" THEN high >= t ELSE low <= t
    BY <2>1, Zenon DEF PaysAt, Signals!Reaches
  <2> HIDE DEF low, high, e, t, p, d, v
  <2>3. QED BY <1>2, <1>4, <1>6, <1>7, <2>2
<1>11. QED BY <1>8, <1>9, <1>10

\* The points of a backtest leave room for what follows them.
LEMMA PointsAre ==
    ASSUME NEW c, NEW n \in Nat, NEW points \in Nat \ {0}, NEW warmup \in Nat, NEW forward \in Nat,
           NEW idx \in Signals(c)!SlicePoints(n, points, warmup, forward)
    PROVE  idx \in Nat /\ idx >= warmup /\ idx + forward + 1 < n
<1> DEFINE end == n - forward - 1
           q == (end - warmup) \div points
           step == Signals(c)!Max({1, q})
<1>1. idx \in IF n < warmup + forward + 10 \/ end <= warmup THEN {}
              ELSE {warmup + step * k : k \in {j \in 0..(points - 1) : warmup + step * j < end}}
  BY Zenon DEF Signals!SlicePoints
<1>2. end \in Int /\ q \in Int
  <2>1. end - warmup \in Int
    OBVIOUS
  <2>2. QED BY <2>1, DivMod
<1> HIDE DEF q
<1>3. step \in Nat
  <2>1. step = IF 1 >= q THEN 1 ELSE q
    BY <1>2, EndsOfTwo
  <2>2. QED BY <1>2, <2>1
<1> HIDE DEF step
<1>4. PICK k \in 0..(points - 1) : idx = warmup + step * k /\ warmup + step * k < end
  BY <1>1
<1>5. step * k \in Nat
  BY <1>3
<1> DEFINE m == step * k
<1>6. m \in Nat /\ idx = warmup + m /\ idx < end
  BY <1>4, <1>5
<1> HIDE DEF m
<1>7. QED BY <1>6

\* Dates that do not go back.
Sorted(dates) == \A i, j \in 1..Len(dates) : i <= j => dates[i] <= dates[j]

\* A backtest judges within the session, without a gap and to its end.
THEOREM WithinTheSession ==
    ASSUME NEW c, NEW dates \in Seq(Int), Sorted(dates),
           NEW points \in Nat \ {0}, NEW warmup \in Nat, NEW forward \in Nat
    PROVE  Signals(c)!JudgedInSession(dates, points, warmup, forward)
<1> DEFINE n == Len(dates)
<1>1. n \in Nat /\ DOMAIN dates = 1..n /\ (\A i \in 1..n : dates[i] \in Int)
      /\ \A i, j \in 1..n : i <= j => dates[i] <= dates[j]
  BY LenProperties, ElementOfSeq, SeqDef DEF Sorted
<1>2. SUFFICES ASSUME NEW idx \in Signals(c)!SlicePoints(n, points, warmup, forward)
               PROVE  LET w == Signals(c)!Forward(dates, idx + 1, forward) IN
                      /\ idx >= warmup /\ idx + forward < n
                      /\ \A i \in w : i > idx + 1 /\ dates[i] = dates[idx + 1] /\ (i - 1 = idx + 1 \/ i - 1 \in w)
                      /\ Signals(c)!Cardinality(w) < forward =>
                            \/ idx + 2 + Signals(c)!Cardinality(w) > n
                            \/ dates[idx + 2 + Signals(c)!Cardinality(w)] # dates[idx + 1]
  BY Zenon DEF Signals!JudgedInSession
<1> DEFINE p == idx + 1
           w == Signals(c)!Forward(dates, p, forward)
           m == Cardinality(w)
<1>3. idx \in Nat /\ idx >= warmup /\ idx + forward + 1 < n
  <2> HIDE DEF n
  <2>1. QED BY <1>1, PointsAre
<1>4. w = {i \in 1..n : i > p /\ i <= p + forward /\ dates[i] = dates[p]}
  BY <1>1, Zenon DEF Signals!Forward
<1>5. Signals(c)!Cardinality(w) = m
  BY SignalLibrary, Zenon
<1> HIDE DEF n, w
<1>6. ASSUME NEW i \in w PROVE i > p /\ dates[i] = dates[p] /\ (i - 1 = p \/ i - 1 \in w)
  <2>1. i \in 1..n /\ i > p /\ i <= p + forward /\ dates[i] = dates[p]
    BY <1>4
  <2>2. CASE i - 1 = p
    BY <2>1, <2>2
  <2>3. CASE i - 1 # p
    <3>1. i - 1 \in 1..n /\ p \in 1..n /\ i - 1 > p /\ i - 1 <= p + forward /\ i - 1 <= i
      BY <1>1, <1>3, <2>1, <2>3
    <3>2. dates[p] <= dates[i - 1] /\ dates[i - 1] <= dates[i]
      BY <1>1, <2>1, <3>1
    <3>3. dates[p] \in Int /\ dates[i - 1] \in Int /\ dates[i] \in Int
      BY <1>1, <2>1, <3>1
    <3>4. dates[i - 1] = dates[p]
      BY <2>1, <3>2, <3>3
    <3>5. QED BY <1>4, <2>1, <3>1, <3>4
  <2>4. QED BY <2>2, <2>3
<1>7. IsFiniteSet(w) /\ m \in Nat
  <2>1. IsFiniteSet(1..n) /\ w \subseteq 1..n
    BY <1>1, <1>4, FS_Interval
  <2>2. QED BY <2>1, FS_Subset, FS_CardinalityType
<1>8. ASSUME m < forward, p + 1 + m <= n, dates[p + 1 + m] = dates[p] PROVE FALSE
  <2> DEFINE J == (p + 1)..(p + 1 + m)
  <2> HIDE DEF m
  <2>1. ASSUME NEW i \in J PROVE i \in w
    <3>1. i \in 1..n /\ p \in 1..n /\ p + 1 + m \in 1..n /\ p <= i /\ i <= p + 1 + m /\ i > p /\ i <= p + forward
      BY <1>1, <1>3, <1>7, <1>8
    <3>2. dates[p] <= dates[i] /\ dates[i] <= dates[p + 1 + m]
      BY <1>1, <3>1
    <3>3. dates[p] \in Int /\ dates[i] \in Int
      BY <1>1, <3>1
    <3>4. dates[i] = dates[p]
      BY <1>8, <3>2, <3>3
    <3>5. QED BY <1>4, <3>1, <3>4
  <2>2. Cardinality(J) = m + 1
    <3>1. p + 1 \in Int /\ p + 1 + m \in Int
      BY <1>3, <1>7
    <3>2. QED BY <1>3, <1>7, <3>1, FS_Interval
  <2>3. J \subseteq w
    BY <2>1
  <2> HIDE DEF J
  <2>4. Cardinality(J) <= Cardinality(w)
    BY <1>7, <2>3, FS_Subset
  <2>5. QED BY <1>7, <2>2, <2>4 DEF m
<1>9. m < forward => idx + 2 + m > n \/ dates[idx + 2 + m] # dates[p]
  <2>1. idx + 2 + m = p + 1 + m
    BY <1>3, <1>7
  <2> HIDE DEF m, p
  <2>2. idx + 2 + m \in Int
    BY <1>3, <1>7
  <2>3. QED BY <1>1, <1>8, <2>1, <2>2
<1>10. idx + forward < n
  BY <1>1, <1>3
<1> HIDE DEF m
<1>11. QED BY <1>3, <1>5, <1>6, <1>9, <1>10 DEF w

\* The engine of the trials: three families, each of a few indicators.
LEMMA EngineIs ==
    /\ IsPanel(Engine) /\ Cardinality(Engine.families) <= 3
    /\ Engine.interval = 5 /\ Engine.cent = 1
<1>1. Engine.families = {"trend", "momentum", "location"} /\ Engine.members = SigMembers
      /\ Engine.interval = 5 /\ Engine.cent = 1
  BY DEF Engine
<1>2. IsFiniteSet({"trend", "momentum", "location"}) /\ Cardinality({"trend", "momentum", "location"}) = 3
  <2>1. {"trend", "momentum"} = {"trend"} \cup {"momentum"} /\ {"trend", "momentum", "location"} = {"trend", "momentum"} \cup {"location"}
    OBVIOUS
  <2>2. IsFiniteSet({"trend"}) /\ Cardinality({"trend"}) = 1
    BY FS_Singleton
  <2>3. IsFiniteSet({"trend"} \cup {"momentum"}) /\ Cardinality({"trend"} \cup {"momentum"}) = 2
    <3>1. "momentum" \notin {"trend"}
      OBVIOUS
    <3>2. QED BY <2>2, <3>1, FS_AddElement
  <2>4. "location" \notin {"trend", "momentum"}
    OBVIOUS
  <2>5. QED BY <2>1, <2>3, <2>4, FS_AddElement
<1>3. \A f \in {"trend", "momentum", "location"} : IsFiniteSet(SigMembers[f])
  <2>1. IsFiniteSet({"ema", "supertrend", "di"})
    <3>1. {"ema", "supertrend", "di"} = ({"ema"} \cup {"supertrend"}) \cup {"di"}
      OBVIOUS
    <3>2. IsFiniteSet({"ema"} \cup {"supertrend"})
      BY FS_Singleton, FS_AddElement
    <3>3. QED BY <3>1, <3>2, FS_AddElement
  <2>2. IsFiniteSet({"rsi", "macd", "roc"})
    <3>1. {"rsi", "macd", "roc"} = ({"rsi"} \cup {"macd"}) \cup {"roc"}
      OBVIOUS
    <3>2. IsFiniteSet({"rsi"} \cup {"macd"})
      BY FS_Singleton, FS_AddElement
    <3>3. QED BY <3>1, <3>2, FS_AddElement
  <2>3. IsFiniteSet({"vwap"})
    BY FS_Singleton
  <2>4. QED BY <2>1, <2>2, <2>3 DEF SigMembers
<1>4. QED BY <1>1, <1>2, <1>3 DEF IsPanel

\* What may be a trade.
IsTrade(s) == s.entry \in Int /\ s.target \in Int /\ s.stop \in Int

\* Whatever frame, panel, trade or run of bars a trial is of, the signals are
\* sound.
THEOREM SignalsHold ==
    ASSUME trial.of = "frame" =>
               /\ trial.opens \in Seq(Int) /\ Apart(trial.opens, 5)
               /\ trial.now \in Int /\ \A i \in 1..Len(trial.opens) : trial.opens[i] <= trial.now,
           trial.of = "talk" =>
               /\ trial.opens \in Seq(Int) /\ Apart(trial.opens, 5)
               /\ trial.now \in Int /\ \A i \in 1..Len(trial.opens) : trial.opens[i] <= trial.now
               /\ IsMarket(trial.market, trial.now) /\ trial.live \in BOOLEAN
               /\ \A a \in AsksOf(trial.talk) : a.interval \in DOMAIN trial.market \cup {5},
           trial.of = "verdict" =>
               /\ IsTrade(trial.s) /\ trial.s.direction \in {"BUY", "SELL"}
               /\ \E n \in Nat : DOMAIN trial.bars = 1..n /\ \A i \in 1..n : IsBar(trial.bars[i]),
           trial.of = "signal" => IsTrade(trial.s) /\ IsBar(trial.bar),
           trial.of = "slice" =>
               /\ trial.dates \in Seq(Int) /\ Sorted(trial.dates)
               /\ trial.points \in Nat \ {0} /\ trial.warmup \in Nat /\ trial.forward \in Nat
    PROVE  SignalsAreSound
<1>1. MadeOfClosedBars
  <2>1. SUFFICES ASSUME trial.of = "frame" PROVE Signals(Engine)!MadeOfClosedBars(trial.opens, trial.now)
    BY DEF MadeOfClosedBars
  <2>2. Engine.interval \in Nat \ {0} /\ Apart(trial.opens, Engine.interval)
    BY <2>1, EngineIs
  <2>3. QED BY <2>1, <2>2, ClosedBars
<1>7. ShownIsOver
  <2>1. SUFFICES ASSUME trial.of = "talk"
                 PROVE  Signals(Engine)!ShownIsOver(trial.opens, trial.market, trial.talk, trial.live, trial.now)
    BY DEF ShownIsOver
  <2>2. Engine.interval = 5 /\ Engine.interval \in Nat \ {0}
    BY EngineIs
  <2>3. QED BY <2>1, <2>2, ShownBars
<1>2. NeverBothWays /\ NoFamilyOverruled
  BY EngineIs, OneWayAtMost, NoneOverruled DEF NeverBothWays, NoFamilyOverruled
<1>3. VerdictsMatchSide
  <2>1. SUFFICES ASSUME trial.of = "verdict" PROVE Signals(Engine)!VerdictsMatchSide(trial.s, trial.bars)
    BY DEF VerdictsMatchSide
  <2>2. PICK n \in Nat : DOMAIN trial.bars = 1..n /\ \A i \in 1..n : IsBar(trial.bars[i])
    BY <2>1
  <2>3. IsTrade(trial.s) /\ trial.s.direction \in {"BUY", "SELL"}
    BY <2>1
  <2>4. QED BY <2>2, <2>3, VerdictsAreOfTheSide DEF IsTrade
<1>4. NoiseDecidesNothing
  <2>1. SUFFICES ASSUME trial.of = "signal"
                 PROVE  Signals(Engine)!NoiseDecidesNothing(<<0>>, 5, trial.adx, Quiet, trial.s, SigUp, trial.rsi, 4,
                                                            trial.ltp, trial.bar)
    BY DEF NoiseDecidesNothing
  <2>2. IsTrade(trial.s) /\ trial.bar.low \in Int /\ trial.bar.high \in Int /\ Engine.cent \in Int /\ 4 \in Int
    BY <2>1, EngineIs DEF IsBar
  <2>3. QED BY <2>2, NoiseIsNothing DEF IsTrade
<1>5. JudgedInSession
  BY WithinTheSession DEF JudgedInSession
<1>6. QED BY <1>1, <1>2, <1>3, <1>4, <1>5, <1>7 DEF SignalsAreSound
=============================================================================
