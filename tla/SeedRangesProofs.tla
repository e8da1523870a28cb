------------------------- MODULE SeedRangesProofs -------------------------
(***************************************************************************)
(* Proofs about the three builders of the initial range table, for every   *)
(* file size, number of connections and weights.                           *)
(*                                                                         *)
(* The builders are loops, here recursive functions.  That such a function *)
(* exists is shown by Recursion, and what it computes by Upward: both have *)
(* functions and sets as parameters, and rest on the least place at which  *)
(* something fails.  A table is then a list of cuts that start at 0, do    *)
(* not fall and end at the file's size (SpansTile); each builder has its   *)
(* reason why: shares of the rest (EvenStep), clamped boundaries           *)
(* (ClampedTile), Fibonacci numbers below the file's size (Support).       *)
(***************************************************************************)
EXTENDS SeedRanges, SequenceTheorems, WellFoundedInduction, TLAPS

-----------------------------------------------------------------------------
(* Loops. *)

\* A set of natural numbers that is not empty has a least element.
LEMMA LeastNatural ==
  ASSUME NEW S \in SUBSET Nat, S # {}
  PROVE  \E m \in S : \A k \in S : m <= k
<1> DEFINE R == OpToRel(<, Nat)
<1>1. IsWellFoundedOn(R, Nat)
  BY NatLessThanWellFounded
<1>2. \A x, y \in Nat : x < y => <<x, y>> \in R
  BY Zenon DEF OpToRel
<1> HIDE DEF R
<1>3. PICK x \in S : \A y \in S : ~(<<y, x>> \in R)
  BY <1>1, WFMin
<1>4. \A k \in S : ~(k < x)
  BY <1>2, <1>3, Zenon
<1>5. QED
  BY <1>4

\* A property of zero that passes from a place to the next holds everywhere.
LEMMA Upward ==
  ASSUME NEW n \in Nat, NEW S, 0 \in S, \A k \in 1..n : k - 1 \in S => k \in S
  PROVE  \A k \in 0..n : k \in S
<1> DEFINE T == {k \in 0..n : k \notin S}
<1>1. ASSUME T # {} PROVE FALSE
  <2>1. T \in SUBSET Nat
    OBVIOUS
  <2>2. PICK m \in T : \A k \in T : m <= k
    BY <1>1, <2>1, LeastNatural
  <2>3. m \in 1..n /\ m - 1 \in 0..n /\ ~(m <= m - 1)
    BY <2>2
  <2>4. m - 1 \in S
    BY <2>2, <2>3
  <2>5. QED
    BY <2>2, <2>3, <2>4
<1>2. QED
  BY <1>1

\* f runs through n rounds of a loop, from a and by the steps g.
Runs(f, n, V, a, g) ==
  f \in [0..n -> V] /\ f[0] = a /\ \A k \in 1..n : f[k] = g[k][f[k - 1]]

\* A loop that computes a value of V from the one before computes a function.
LEMMA Recursion ==
  ASSUME NEW n \in Nat, NEW V, NEW a \in V, NEW g \in [1..n -> [V -> V]]
  PROVE  \E f : Runs(f, n, V, a, g)
<1> DEFINE Starts(f, m) == f[0] = a /\ \A k \in 1..m : f[k] = g[k][f[k - 1]]
           Begun(m) == \E f \in [0..m -> V] : Starts(f, m)
           S == {m \in 0..n : Begun(m)}
<1>1. Begun(0)
  <2> DEFINE f == [i \in 0..0 |-> a]
  <2>1. f \in [0..0 -> V] /\ Starts(f, 0)
    OBVIOUS
  <2> HIDE DEF f, Starts
  <2>2. QED
    BY <2>1
<1>2. ASSUME NEW m \in 1..n, Begun(m - 1) PROVE Begun(m)
  <2>1. PICK f \in [0..(m - 1) -> V] : Starts(f, m - 1)
    BY <1>2, Zenon
  <2> DEFINE h == [i \in 0..m |-> IF i = m THEN g[m][f[m - 1]] ELSE f[i]]
  <2>2. f[m - 1] \in V /\ g[m] \in [V -> V]
    OBVIOUS
  <2>3. h \in [0..m -> V]
    BY <2>2
  <2>4. h[0] = a /\ h[m] = g[m][h[m - 1]]
    BY <2>1
  <2>5. \A k \in 1..(m - 1) : h[k] = g[k][h[k - 1]]
    BY <2>1
  <2>6. \A k \in 1..m : k = m \/ k \in 1..(m - 1)
    OBVIOUS
  <2> HIDE DEF h
  <2>7. Starts(h, m)
    BY <2>4, <2>5, <2>6
  <2> HIDE DEF Starts
  <2>8. QED
    BY <2>3, <2>7
<1> HIDE DEF Begun
<1>3. 0 \in S /\ \A m \in 1..n : m - 1 \in S => m \in S
  BY <1>1, <1>2
<1>4. n \in 0..n
  OBVIOUS
<1>5. n \in S
  BY <1>3, <1>4, Upward
<1>6. Begun(n)
  BY <1>5
<1>7. QED
  BY <1>6, Zenon DEF Begun, Runs

-----------------------------------------------------------------------------
(* Spans. *)

SeedSpan == [byte_start : Nat, byte_end : Nat]

\* The spans s tile the bytes below an end.
Tiles(s, end) ==
  /\ s \in Seq(SeedSpan)
  /\ \A i \in DOMAIN s : s[i].byte_start < s[i].byte_end /\ s[i].byte_end <= end
  /\ Cover(s, end)

\* What is in a sequence with one element more.
LEMMA Appended ==
  ASSUME NEW V, NEW s \in Seq(V), NEW e \in V
  PROVE  \A i \in DOMAIN Append(s, e) :
           Append(s, e)[i] = e \/ (i \in DOMAIN s /\ Append(s, e)[i] = s[i])
OBVIOUS

\* One span more, from the end on.
LEMMA OneMoreSpan ==
  ASSUME NEW a \in Nat, NEW b \in Nat, a < b, NEW s, Tiles(s, a)
  PROVE  Tiles(Append(s, [byte_start |-> a, byte_end |-> b]), b)
<1> DEFINE r == [byte_start |-> a, byte_end |-> b]
           t == Append(s, r)
           n == Len(s)
<1> SUFFICES Tiles(t, b)
  OBVIOUS
<1>1. r \in SeedSpan /\ s \in Seq(SeedSpan) /\ r.byte_start = a /\ r.byte_end = b
  BY DEF SeedSpan, Tiles
<1> HIDE DEF r
<1>2. /\ t \in Seq(SeedSpan) /\ n \in Nat /\ DOMAIN s = 1..n /\ DOMAIN t = 1..(n + 1)
      /\ t[n + 1] = r
      /\ \A i \in 1..n : t[i] = s[i]
  BY <1>1
<1> HIDE DEF t
<1>3. \A i \in 1..n : s[i].byte_start \in Nat /\ s[i].byte_end \in Nat
  <2>1. \A x \in SeedSpan : x.byte_start \in Nat /\ x.byte_end \in Nat
    BY DEF SeedSpan
  <2>2. \A i \in 1..n : s[i] \in SeedSpan
    BY <1>1, <1>2
  <2>3. QED
    BY <2>1, <2>2
<1>4. \A i \in 1..n : s[i].byte_start < s[i].byte_end /\ s[i].byte_end <= a
  BY <1>2 DEF Tiles
<1>5. \A i \in 1..(n + 1) : t[i].byte_start < t[i].byte_end /\ t[i].byte_end <= b
  BY <1>1, <1>2, <1>3, <1>4
<1>6. Cover(t, b)
  <2> SUFFICES ASSUME NEW x \in 0..(b - 1)
               PROVE  \E i \in 1..(n + 1) :
                        /\ t[i].byte_start <= x /\ x < t[i].byte_end
                        /\ \A j \in 1..(n + 1) :
                             t[j].byte_start <= x /\ x < t[j].byte_end => j = i
    BY <1>2 DEF Cover
  <2>1. CASE x < a
    <3>1. x \in 0..(a - 1)
      BY <2>1
    <3>2. PICK i \in 1..n : /\ s[i].byte_start <= x /\ x < s[i].byte_end
                            /\ \A j \in 1..n :
                                 s[j].byte_start <= x /\ x < s[j].byte_end => j = i
      BY <1>2, <3>1 DEF Tiles, Cover
    <3>3. ~(t[n + 1].byte_start <= x)
      BY <1>1, <1>2, <2>1
    <3>4. i \in 1..(n + 1) /\ \A j \in 1..(n + 1) : j \in 1..n \/ j = n + 1
      BY <1>2
    <3>5. QED
      BY <1>2, <3>2, <3>3, <3>4
  <2>2. CASE a <= x
    <3>1. t[n + 1].byte_start <= x /\ x < t[n + 1].byte_end
      BY <1>1, <1>2, <2>2
    <3>2. \A j \in 1..n : ~(x < t[j].byte_end)
      BY <1>2, <1>3, <1>4, <2>2
    <3>3. n + 1 \in 1..(n + 1) /\ \A j \in 1..(n + 1) : j \in 1..n \/ j = n + 1
      BY <1>2
    <3>4. QED
      BY <3>1, <3>2, <3>3
  <2>3. QED
    BY <2>1, <2>2
<1>7. QED
  BY <1>2, <1>5, <1>6 DEF Tiles

\* Boundaries that never fall cut the bytes below the last into spans, each of
\* them between two neighbours and none empty; if all rise, none is left out.
LEMMA SpansTile ==
  ASSUME NEW n \in Nat, NEW cut \in [0..n -> Nat], cut[0] = 0,
         \A k \in 1..n : cut[k - 1] <= cut[k]
  PROVE  /\ Tiles(Spans(cut, n), cut[n])
         /\ Len(Spans(cut, n)) <= n
         /\ (\A k \in 1..n : cut[k - 1] < cut[k]) => Len(Spans(cut, n)) = n
         /\ \A i \in DOMAIN Spans(cut, n) : \E k \in 1..n :
              Spans(cut, n)[i] = [byte_start |-> cut[k - 1], byte_end |-> cut[k]]
<1> DEFINE piece(k) == [byte_start |-> cut[k - 1], byte_end |-> cut[k]]
           Push(f) == [i \in 0..n |->
                         IF i = 0 THEN <<>>
                         ELSE IF cut[i - 1] < cut[i] THEN Append(f[i - 1], piece(i)) ELSE f[i - 1]]
           pushed[i \in 0..n] ==
             IF i = 0 THEN <<>>
             ELSE IF cut[i - 1] < cut[i] THEN Append(pushed[i - 1], piece(i)) ELSE pushed[i - 1]
           g == [k \in 1..n |->
                   [v \in Seq(SeedSpan) |-> IF cut[k - 1] < cut[k] THEN Append(v, piece(k)) ELSE v]]
<1>1. \A k \in 1..n : /\ k - 1 \in 0..n /\ k \in 0..n /\ k # 0
                      /\ cut[k - 1] \in Nat /\ cut[k] \in Nat /\ piece(k) \in SeedSpan
  BY DEF SeedSpan
<1> HIDE DEF piece
<1>2. pushed = Push(pushed)
  <2>1. g \in [1..n -> [Seq(SeedSpan) -> Seq(SeedSpan)]] /\ <<>> \in Seq(SeedSpan)
    BY <1>1
  <2> HIDE DEF g
  <2> DEFINE V == Seq(SeedSpan)
  <2>6. g \in [1..n -> [V -> V]] /\ <<>> \in V
    BY <2>1
  <2> HIDE DEF V
  <2>7. \E f : Runs(f, n, V, <<>>, g)
    BY <2>6, Recursion
  <2>2. PICK f \in [0..n -> Seq(SeedSpan)] : f[0] = <<>> /\ \A k \in 1..n : f[k] = g[k][f[k - 1]]
    BY <2>7, Zenon DEF V, Runs
  <2>3. \A k \in 1..n :
          f[k] = IF cut[k - 1] < cut[k] THEN Append(f[k - 1], piece(k)) ELSE f[k - 1]
    <3>1. TAKE k \in 1..n
    <3>2. f[k - 1] \in Seq(SeedSpan)
      BY <1>1
    <3>3. QED
      BY <2>2, <3>2 DEF g
  <2>4. f = Push(f)
    <3> DEFINE Body(i) == IF i = 0 THEN <<>>
                          ELSE IF cut[i - 1] < cut[i] THEN Append(f[i - 1], piece(i)) ELSE f[i - 1]
    <3>1. \A i \in 0..n : i = 0 \/ i \in 1..n
      OBVIOUS
    <3>2. \A i \in 0..n : f[i] = Body(i)
      BY <1>1, <2>2, <2>3, <3>1
    <3> HIDE DEF Body
    <3>3. f = [i \in 0..n |-> Body(i)]
      BY <3>2
    <3>4. QED
      BY <3>3, Zenon DEF Body
  <2>5. QED
    BY <2>4, Zenon
<1>3. Spans(cut, n) = pushed[n]
  BY Zenon DEF Spans, piece
<1> HIDE DEF pushed
<1>4. pushed[0] = <<>>
  BY <1>2
<1>5. \A k \in 1..n :
        pushed[k] = IF cut[k - 1] < cut[k] THEN Append(pushed[k - 1], piece(k)) ELSE pushed[k - 1]
  BY <1>1, <1>2
<1> DEFINE Strict(k) == \A j \in 1..k : cut[j - 1] < cut[j]
           Well(k) == /\ Tiles(pushed[k], cut[k])
                      /\ Len(pushed[k]) <= k
                      /\ Strict(k) => Len(pushed[k]) = k
                      /\ \A i \in DOMAIN pushed[k] : \E j \in 1..n : pushed[k][i] = piece(j)
           S == {k \in 0..n : Well(k)}
<1>6. 0 \in S
  <2>1. Tiles(<<>>, 0)
    BY DEF Tiles, Cover
  <2>2. QED
    BY <1>4, <2>1
<1>7. ASSUME NEW k \in 1..n, k - 1 \in S PROVE k \in S
  <2>6. Well(k - 1)
    <3> HIDE DEF Well
    <3> QED BY <1>7
  <2>9. Tiles(pushed[k - 1], cut[k - 1])
    BY <2>6
  <2>1. Well(k - 1) /\ pushed[k - 1] \in Seq(SeedSpan) /\ Len(pushed[k - 1]) \in Nat
    <3>1. pushed[k - 1] \in Seq(SeedSpan)
      BY <2>9 DEF Tiles
    <3> HIDE DEF Well
    <3>2. QED
      BY <2>6, <3>1
  <2>7. k \in 0..n
    OBVIOUS
  <2>8. SUFFICES Well(k)
    <3> HIDE DEF Well
    <3> QED BY <2>7
  <2>2. CASE cut[k - 1] < cut[k]
    <3>1. pushed[k] = Append(pushed[k - 1], piece(k))
      BY <1>5, <2>2
    <3>2. Tiles(pushed[k], cut[k])
      BY <1>1, <2>1, <2>2, <3>1, OneMoreSpan DEF piece
    <3>3. Len(pushed[k]) = Len(pushed[k - 1]) + 1
      BY <2>1, <3>1
    <3>4. Strict(k) => Strict(k - 1)
      OBVIOUS
    <3>5. \A i \in DOMAIN pushed[k] :
            \/ pushed[k][i] = piece(k)
            \/ i \in DOMAIN pushed[k - 1] /\ pushed[k][i] = pushed[k - 1][i]
      <4> DEFINE u == pushed[k - 1]
      <4>1. u \in Seq(SeedSpan) /\ piece(k) \in SeedSpan
        BY <1>1, <2>1
      <4> HIDE DEF u
      <4>2. \A i \in DOMAIN Append(u, piece(k)) :
              \/ Append(u, piece(k))[i] = piece(k)
              \/ i \in DOMAIN u /\ Append(u, piece(k))[i] = u[i]
        BY <4>1, Appended
      <4>3. QED
        BY <3>1, <4>2, Zenon DEF u
    <3>7. Len(pushed[k]) <= k /\ (Strict(k) => Len(pushed[k]) = k)
      BY <2>1, <3>3, <3>4
    <3> HIDE DEF Strict
    <3>8. QED
      BY <2>1, <3>2, <3>5, <3>7
  <2>3. CASE ~(cut[k - 1] < cut[k])
    <3>1. pushed[k] = pushed[k - 1] /\ cut[k] = cut[k - 1] /\ ~Strict(k)
      BY <1>1, <1>5, <2>3
    <3>2. Len(pushed[k - 1]) <= k - 1 => Len(pushed[k]) <= k
      BY <2>1, <3>1
    <3> HIDE DEF Strict
    <3>3. QED
      BY <2>1, <3>1, <3>2
  <2>4. QED
    BY <2>2, <2>3
<1>8. n \in 0..n
  OBVIOUS
<1>9. n \in S
  BY <1>6, <1>7, <1>8, Upward
<1>10. Well(n)
  BY <1>9
<1>11. QED
  BY <1>3, <1>10 DEF piece
-----------------------------------------------------------------------------
(* Quotients. *)

\* A quotient is the only number that fits as often.
LEMMA Quotient ==
  ASSUME NEW a \in Nat, NEW d \in Nat \ {0}
  PROVE  /\ a \div d \in Nat
         /\ (a \div d) * d <= a /\ a < (a \div d) * d + d
         /\ \A q \in Nat : q * d <= a /\ a < q * d + d => a \div d = q
<1>1. a \div d \in Nat /\ (a \div d) * d <= a /\ a < (a \div d) * d + d
  OBVIOUS
<1>2. ASSUME NEW x \in Nat, NEW y \in Nat, x < y PROVE x * d + d <= y * d
  <2>1. y - (x + 1) \in Nat
    BY <1>2
  <2>2. (y - (x + 1)) * d >= 0
    BY <2>1
  <2>3. (y - (x + 1)) * d = y * d - (x * d + d)
    OBVIOUS
  <2>4. QED
    BY <2>2, <2>3
<1>3. ASSUME NEW q \in Nat, q * d <= a, a < q * d + d PROVE a \div d = q
  <2> DEFINE p == a \div d
  <2>1. p \in Nat /\ p * d \in Int /\ q * d \in Int /\ p * d <= a /\ a < p * d + d
    BY <1>1
  <2> HIDE DEF p
  <2>2. ~(p < q)
    BY <1>2, <1>3, <2>1
  <2>3. ~(q < p)
    BY <1>2, <1>3, <2>1
  <2>4. p = q
    BY <2>1, <2>2, <2>3
  <2>5. QED
    BY <2>4 DEF p
<1>4. QED
  BY <1>1, <1>3

\* A quotient rounded up.
LEMMA RoundedUp ==
  ASSUME NEW a \in Nat, NEW d \in Nat \ {0}
  PROVE  /\ CeilDiv(a, d) \in Nat
         /\ a > 0 => CeilDiv(a, d) > 0
         /\ a <= CeilDiv(a, d) * d /\ CeilDiv(a, d) * d < a + d
<1> DEFINE n == CeilDiv(a, d)
<1>1. a + d - 1 \in Nat /\ n = (a + d - 1) \div d
  BY DEF CeilDiv
<1>2. n \in Nat /\ n * d <= a + d - 1 /\ a + d - 1 < n * d + d
  BY <1>1, Quotient
<1> HIDE DEF n
<1>3. n * d \in Int
  BY <1>2
<1>4. a <= n * d /\ n * d < a + d
  BY <1>2, <1>3
<1>5. a > 0 => n > 0
  <2>1. n = 0 => n * d = 0
    OBVIOUS
  <2>2. QED
    BY <1>2, <1>4, <2>1
<1>6. QED
  BY <1>2, <1>4, <1>5 DEF n

\* It is the quotient, or one more if something is left.
LEMMA RoundedUpIs ==
  ASSUME NEW d \in Nat \ {0}, NEW q \in Nat, NEW c \in Nat, c < d
  PROVE  CeilDiv(q * d + c, d) = IF c = 0 THEN q ELSE q + 1
<1> DEFINE a == q * d + c + d - 1
<1>1. CeilDiv(q * d + c, d) = a \div d
  BY DEF CeilDiv
<1>2. a \in Nat /\ q * d \in Int /\ (q + 1) * d = q * d + d /\ q + 1 \in Nat
  OBVIOUS
<1>3. a = q * d + c + d - 1
  OBVIOUS
<1> HIDE DEF a
<1>4. \A p \in Nat : p * d <= a /\ a < p * d + d => a \div d = p
  BY <1>2, Quotient
<1>5. CASE c = 0
  <2>1. q * d <= a /\ a < q * d + d
    BY <1>2, <1>3, <1>5
  <2>2. QED
    BY <1>1, <1>4, <1>5, <2>1
<1>6. CASE c # 0
  <2>1. (q + 1) * d <= a /\ a < (q + 1) * d + d
    BY <1>2, <1>3, <1>6
  <2>2. QED
    BY <1>1, <1>2, <1>4, <1>6, <2>1
<1>7. QED
  BY <1>5, <1>6

-----------------------------------------------------------------------------
(* build_equal_ranges *)

\* Shares of size q, the first m of them one byte larger: where the share i ends.
Even(i, q, m) == i * q + Lesser(i, m)

\* A share is what a rounded-up division of the rest gives.
LEMMA EvenStep ==
  ASSUME NEW lanes \in Nat, NEW q \in Nat, NEW m \in Nat, m < lanes, NEW i \in 1..(lanes - 1),
         NEW size, size = lanes * q + m
  PROVE  /\ Even(i - 1, q, m) \in Nat /\ Even(i - 1, q, m) <= size
         /\ Even(i, q, m) =
              Lesser(size, Even(i - 1, q, m) + CeilDiv(size - Even(i - 1, q, m), lanes - i + 1))
<1> DEFINE L == lanes - i + 1
           c == m - Lesser(i - 1, m)
           was == Even(i - 1, q, m)
<1>1. L \in Nat \ {0} /\ c \in Nat /\ c < L /\ (c = 0 <=> m <= i - 1)
  BY DEF Lesser
<1>2. was = (i - 1) * q + m - c /\ (i - 1) * q \in Nat /\ m - c \in Nat
  BY DEF Even, Lesser
<1>3. lanes * q = (i - 1) * q + q * L /\ q * L \in Nat /\ (i - 1) * q + q = i * q
  OBVIOUS
<1>4. size = (i - 1) * q + q * L + m
  BY <1>3
<1> DEFINE P == (i - 1) * q
           R == q * L
<1>5. P \in Nat /\ R \in Nat /\ was = P + m - c /\ size = P + R + m
  BY <1>2, <1>3, <1>4
<1> HIDE DEF P
<1>6. was \in Nat /\ was <= size /\ size - was = q * L + c /\ size - was \in Nat
  BY <1>1, <1>2, <1>5
<1> HIDE DEF L, c, was
<1>7. CeilDiv(size - was, L) = IF c = 0 THEN q ELSE q + 1
  <2>1. CeilDiv(q * L + c, L) = IF c = 0 THEN q ELSE q + 1
    BY <1>1, RoundedUpIs
  <2>2. QED
    BY <1>6, <2>1
<1>8. Even(i, q, m) = was + (IF c = 0 THEN q ELSE q + 1)
  <2>1. i * q = P + q
    BY <1>3 DEF P
  <2>2. Lesser(i, m) = Lesser(i - 1, m) + (IF c = 0 THEN 0 ELSE 1) /\ Lesser(i - 1, m) \in Nat
    BY <1>1 DEF Lesser
  <2>3. was = P + Lesser(i - 1, m)
    BY DEF was, Even, P
  <2>4. Even(i, q, m) = i * q + Lesser(i, m)
    BY DEF Even
  <2> DEFINE x == Lesser(i - 1, m)
             y == Lesser(i, m)
             z == i * q
  <2>5. /\ P \in Nat /\ z = P + q /\ y = x + (IF c = 0 THEN 0 ELSE 1) /\ x \in Nat
        /\ was = P + x /\ Even(i, q, m) = z + y
    BY <1>5, <2>1, <2>2, <2>3, <2>4
  <2> HIDE DEF x, y, z
  <2>6. CASE c = 0
    BY <2>5, <2>6
  <2>7. CASE c # 0
    BY <2>5, <2>7
  <2>8. QED
    BY <2>6, <2>7
<1>9. Even(i, q, m) <= size
  <2>1. R >= q /\ (c # 0 => R + c >= q + 1)
    <3>1. (L - 1) * q >= 0 /\ (L - 1) * q = q * L - q
      BY <1>1
    <3>2. QED
      BY <1>1, <1>5, <3>1
  <2>2. QED
    BY <1>1, <1>5, <1>8, <2>1
<1>10. Even(i, q, m) \in Nat /\ size \in Nat
  BY <1>5, <1>6, <1>8
<1>11. QED
  BY <1>6, <1>7, <1>8, <1>9, <1>10 DEF Lesser, L, was

\* Shares that differ by one byte at most: what a share has, and where the last
\* one ends.
LEMMA EvenShares ==
  ASSUME NEW lanes \in Nat \ {0}, NEW q \in Nat, NEW m \in Nat, m < lanes
  PROVE  /\ Even(0, q, m) = 0 /\ Even(lanes, q, m) = lanes * q + m
         /\ \A i \in 0..lanes : Even(i, q, m) \in Nat
         /\ \A i \in 1..lanes :
              /\ Even(i, q, m) - Even(i - 1, q, m) \in {q, q + 1}
              /\ Even(i - 1, q, m) <= Even(i, q, m)
<1>1. Even(0, q, m) = 0 /\ Even(lanes, q, m) = lanes * q + m
  BY DEF Even, Lesser
<1>2. ASSUME NEW i \in 0..lanes PROVE Even(i, q, m) \in Nat
  <2>1. i * q \in Nat
    OBVIOUS
  <2>2. QED
    BY <2>1 DEF Even, Lesser
<1>3. ASSUME NEW i \in 1..lanes
      PROVE  /\ Even(i, q, m) - Even(i - 1, q, m) \in {q, q + 1}
             /\ Even(i - 1, q, m) <= Even(i, q, m)
  <2> DEFINE P == (i - 1) * q
             x == Lesser(i - 1, m)
             y == Lesser(i, m)
  <2>1. P \in Nat /\ i * q = P + q
    OBVIOUS
  <2>2. Even(i - 1, q, m) = P + x /\ Even(i, q, m) = P + q + y
    BY <2>1 DEF Even
  <2>3. x \in Nat /\ y \in {x, x + 1}
    BY DEF Lesser
  <2> HIDE DEF P, x, y
  <2>4. QED
    BY <2>1, <2>2, <2>3
<1>4. QED
  BY <1>1, <1>2, <1>3

\* Equal ranges tile the file; there are no more than connections, and none is
\* larger than another by more than a byte.
LEMMA EqualTable ==
  ASSUME NEW size \in Nat \ {0}, NEW connections \in Nat \ {0},
         NEW s, s = BuildEqualRanges(size, connections)
  PROVE  /\ Tiles(s, size)
         /\ Len(s) <= connections
         /\ \A i, j \in DOMAIN s :
              s[i].byte_end - s[i].byte_start <= s[j].byte_end - s[j].byte_start + 1
<1> DEFINE lanes == Greater(1, Lesser(connections, CeilDiv(size, MegaByte)))
           q == size \div lanes
           m == size - lanes * q
           f == [i \in 0..lanes |-> Even(i, q, m)]
           cut[i \in 0..lanes] ==
             IF i = 0 THEN 0
             ELSE IF i = lanes THEN size
             ELSE Lesser(size, cut[i - 1] + CeilDiv(size - cut[i - 1], lanes - i + 1))
           Step(g, i) ==
             IF i = 0 THEN 0
             ELSE IF i = lanes THEN size
             ELSE Lesser(size, g[i - 1] + CeilDiv(size - g[i - 1], lanes - i + 1))
<1>1. s = Spans(cut, lanes)
  BY Zenon DEF BuildEqualRanges
<1>2. lanes \in Nat \ {0} /\ lanes <= connections
  <2>1. CeilDiv(size, MegaByte) \in Nat
    BY RoundedUp, SeedRangesAssumption
  <2>2. QED
    BY <2>1 DEF Greater, Lesser
<1> HIDE DEF lanes
<1>3. q \in Nat /\ m \in Nat /\ m < lanes /\ size = lanes * q + m
  <2>1. q \in Nat /\ q * lanes <= size /\ size < q * lanes + lanes
    BY <1>2, Quotient
  <2>2. q * lanes = lanes * q /\ lanes * q \in Int
    BY <1>2, <2>1
  <2> HIDE DEF q
  <2>3. QED
    BY <1>2, <2>1, <2>2
<1> HIDE DEF q, m
<1>4. /\ Even(0, q, m) = 0 /\ Even(lanes, q, m) = size
      /\ \A i \in 0..lanes : Even(i, q, m) \in Nat
      /\ \A i \in 1..lanes :
           /\ Even(i, q, m) - Even(i - 1, q, m) \in {q, q + 1}
           /\ Even(i - 1, q, m) <= Even(i, q, m)
  <2>1. /\ Even(0, q, m) = 0 /\ Even(lanes, q, m) = lanes * q + m
        /\ \A i \in 0..lanes : Even(i, q, m) \in Nat
        /\ \A i \in 1..lanes :
             /\ Even(i, q, m) - Even(i - 1, q, m) \in {q, q + 1}
             /\ Even(i - 1, q, m) <= Even(i, q, m)
    BY <1>2, <1>3, EvenShares, Zenon
  <2>2. QED
    BY <1>3, <2>1
<1>5. \A i \in 1..(lanes - 1) :
        Even(i, q, m) =
          Lesser(size, Even(i - 1, q, m) + CeilDiv(size - Even(i - 1, q, m), lanes - i + 1))
  BY <1>2, <1>3, EvenStep
<1>6. /\ f \in [0..lanes -> Nat] /\ f[0] = 0 /\ f[lanes] = size
      /\ \A i \in 1..lanes : f[i] - f[i - 1] \in {q, q + 1} /\ f[i - 1] <= f[i]
      /\ \A i \in 0..lanes : f[i] = Even(i, q, m)
  BY <1>2, <1>4
<1>7. \A i \in 0..lanes : i = 0 \/ i = lanes \/ (i \in 1..(lanes - 1) /\ i - 1 \in 0..lanes)
  BY <1>2
<1> HIDE DEF f
<1>8. \A i \in 0..lanes : f[i] = Step(f, i)
  BY <1>5, <1>6, <1>7
<1>9. f = [i \in 0..lanes |-> Step(f, i)]
  <2> HIDE DEF Step
  <2>1. QED
    BY <1>6, <1>8
<1>10. cut = [i \in 0..lanes |-> Step(cut, i)]
  BY <1>9, Zenon
<1> HIDE DEF cut
<1>11. cut = f
  <2> DEFINE S == {k \in 0..lanes : cut[k] = f[k]}
  <2>1. 0 \in S
    BY <1>2, <1>6, <1>10
  <2>2. ASSUME NEW k \in 1..lanes, k - 1 \in S PROVE k \in S
    <3>1. k \in 0..lanes /\ cut[k - 1] = f[k - 1]
      BY <1>2, <2>2
    <3>2. Step(cut, k) = Step(f, k)
      BY <3>1
    <3>3. cut[k] = Step(cut, k) /\ f[k] = Step(f, k)
      <4> HIDE DEF Step
      <4>1. QED
        BY <1>8, <1>10, <3>1
    <3>4. QED
      BY <3>1, <3>2, <3>3
  <2>3. \A k \in 0..lanes : k \in S
    <3> HIDE DEF S
    <3>1. QED
      BY <1>2, <2>1, <2>2, Upward
  <2>4. \A k \in 0..lanes : cut[k] = f[k]
    BY <2>3
  <2> HIDE DEF Step
  <2>5. cut = [i \in 0..lanes |-> cut[i]] /\ f = [i \in 0..lanes |-> f[i]]
    BY <1>6, <1>10
  <2>6. QED
    BY <2>4, <2>5
<1> HIDE DEF Step
<1>12. /\ Tiles(s, size) /\ Len(s) <= lanes
       /\ \A i \in DOMAIN s : \E k \in 1..lanes :
            s[i] = [byte_start |-> f[k - 1], byte_end |-> f[k]]
  <2>1. lanes \in Nat /\ \A k \in 1..lanes : f[k - 1] <= f[k]
    BY <1>2, <1>6
  <2>2. /\ Tiles(Spans(f, lanes), f[lanes]) /\ Len(Spans(f, lanes)) <= lanes
        /\ \A i \in DOMAIN Spans(f, lanes) : \E k \in 1..lanes :
             Spans(f, lanes)[i] = [byte_start |-> f[k - 1], byte_end |-> f[k]]
    BY <1>6, <2>1, SpansTile
  <2>3. s = Spans(f, lanes)
    BY <1>1, <1>11
  <2>4. QED
    BY <1>6, <2>2, <2>3
<1>13. ASSUME NEW i \in DOMAIN s PROVE s[i].byte_end - s[i].byte_start \in {q, q + 1}
  <2>1. PICK k \in 1..lanes : s[i] = [byte_start |-> f[k - 1], byte_end |-> f[k]]
    BY <1>12
  <2>2. QED
    BY <1>6, <2>1
<1>14. ASSUME NEW i \in DOMAIN s, NEW j \in DOMAIN s
       PROVE  s[i].byte_end - s[i].byte_start <= s[j].byte_end - s[j].byte_start + 1
  <2> DEFINE x == s[i].byte_end - s[i].byte_start
             y == s[j].byte_end - s[j].byte_start
  <2>1. x \in {q, q + 1} /\ y \in {q, q + 1}
    BY <1>13
  <2> HIDE DEF x, y
  <2>2. x <= y + 1
    BY <1>3, <2>1
  <2>3. QED
    BY <2>2 DEF x, y
<1>15. Len(s) \in Nat
  BY <1>12 DEF Tiles
<1>16. QED
  BY <1>2, <1>12, <1>14, <1>15
-----------------------------------------------------------------------------
(* build_phi_geometric_ranges *)

\* f sums the weights up.
IsSum(f, w, n) == f = [i \in 0..n |-> IF i = 0 THEN 0 ELSE f[i - 1] + w[i]]

\* The weights add up to something.
LEMMA WeightsAddUp ==
  ASSUME NEW n \in Nat \ {0}, NEW w \in [1..n -> Nat \ {0}]
  PROVE  /\ \E f : IsSum(f, w, n)
         /\ \A f : IsSum(f, w, n) => f \in [0..n -> Nat] /\ f[n] > 0
<1>1. \A k \in 1..n : w[k] \in Nat \ {0}
  OBVIOUS
<1>2. \E f : IsSum(f, w, n)
  <2> DEFINE g == [k \in 1..n |-> [v \in Nat |-> v + w[k]]]
             Step(f, i) == IF i = 0 THEN 0 ELSE f[i - 1] + w[i]
  <2>1. g \in [1..n -> [Nat -> Nat]] /\ \A k \in 1..n, v \in Nat : g[k][v] = v + w[k]
    BY <1>1
  <2> HIDE DEF g
  <2>2. \E f : Runs(f, n, Nat, 0, g)
    BY <2>1, Recursion
  <2>3. PICK f \in [0..n -> Nat] : f[0] = 0 /\ \A k \in 1..n : f[k] = g[k][f[k - 1]]
    BY <2>2, Zenon DEF Runs
  <2>4. \A k \in 1..n : f[k - 1] \in Nat
    BY <2>3
  <2>5. \A k \in 1..n : f[k] = f[k - 1] + w[k]
    BY <2>1, <2>3, <2>4
  <2>6. \A i \in 0..n : f[i] = Step(f, i)
    BY <2>3, <2>5
  <2>7. f = [i \in 0..n |-> Step(f, i)]
    <3> HIDE DEF Step
    <3>1. QED
      BY <2>3, <2>6
  <2>8. QED
    BY <2>7, Zenon DEF IsSum
<1>3. ASSUME NEW f, IsSum(f, w, n) PROVE f \in [0..n -> Nat] /\ f[n] > 0
  <2>1. f[0] = 0 /\ \A k \in 1..n : f[k] = f[k - 1] + w[k]
    BY <1>3 DEF IsSum
  <2> DEFINE S == {k \in 0..n : f[k] \in Nat}
  <2>2. 0 \in S
    BY <2>1
  <2>3. \A k \in 1..n : k - 1 \in S => k \in S
    BY <1>1, <2>1
  <2>4. \A k \in 0..n : k \in S
    <3> HIDE DEF S
    <3>1. QED
      BY <2>2, <2>3, Upward
  <2>5. \A k \in 0..n : f[k] \in Nat
    BY <2>4
  <2>6. f[n] > 0
    <3>1. n \in 1..n /\ n - 1 \in 0..n
      OBVIOUS
    <3>2. f[n] = f[n - 1] + w[n] /\ f[n - 1] \in Nat /\ w[n] \in Nat \ {0}
      BY <1>1, <2>1, <2>5, <3>1
    <3>3. QED
      BY <3>2
  <2>7. f = [i \in 0..n |-> f[i]]
    BY <1>3, Zenon DEF IsSum
  <2>8. QED
    BY <2>5, <2>6, <2>7
<1>4. QED
  BY <1>2, <1>3

\* f clamps the boundaries r between the one before and the size; the last is
\* the size itself.
IsClamped(f, r, n, size) ==
  f = [i \in 0..n |->
         IF i = 0 THEN 0 ELSE IF i = n THEN size ELSE Lesser(size, Greater(f[i - 1], r[i]))]

\* Clamped boundaries never fall: they cut the file into spans.
LEMMA ClampedTile ==
  ASSUME NEW size \in Nat, NEW n \in Nat \ {0}, NEW r \in [1..n -> Nat]
  PROVE  /\ \E f : IsClamped(f, r, n, size)
         /\ \A f : IsClamped(f, r, n, size) => Tiles(Spans(f, n), size)
<1> DEFINE V == 0..size
           g == [k \in 1..n |->
                   [v \in V |-> IF k = n THEN size ELSE Lesser(size, Greater(v, r[k]))]]
           Step(f, i) ==
             IF i = 0 THEN 0 ELSE IF i = n THEN size ELSE Lesser(size, Greater(f[i - 1], r[i]))
<1>1. \A k \in 1..n, v \in V :
        /\ Lesser(size, Greater(v, r[k])) \in V
        /\ v <= Lesser(size, Greater(v, r[k]))
  BY DEF Lesser, Greater
<1>2. size \in V /\ 0 \in V /\ V \subseteq Nat /\ \A v \in V : v <= size
  OBVIOUS
<1> HIDE DEF V
<1>3. \E f : IsClamped(f, r, n, size)
  <2>1. /\ g \in [1..n -> [V -> V]]
        /\ \A k \in 1..n, v \in V :
             g[k][v] = IF k = n THEN size ELSE Lesser(size, Greater(v, r[k]))
    BY <1>1, <1>2
  <2> HIDE DEF g
  <2>2. \E f : Runs(f, n, V, 0, g)
    BY <1>2, <2>1, Recursion
  <2>3. PICK f \in [0..n -> V] : f[0] = 0 /\ \A k \in 1..n : f[k] = g[k][f[k - 1]]
    BY <2>2, Zenon DEF Runs
  <2>4. \A k \in 1..n : f[k - 1] \in V
    BY <2>3
  <2>5. \A k \in 1..n : f[k] = IF k = n THEN size ELSE Lesser(size, Greater(f[k - 1], r[k]))
    BY <2>1, <2>3, <2>4
  <2>6. \A i \in 0..n : f[i] = Step(f, i)
    BY <2>3, <2>5
  <2>7. f = [i \in 0..n |-> Step(f, i)]
    <3> HIDE DEF Step
    <3>1. QED
      BY <2>3, <2>6
  <2>8. QED
    BY <2>7, Zenon DEF IsClamped
<1> HIDE DEF g
<1>4. ASSUME NEW f, IsClamped(f, r, n, size) PROVE Tiles(Spans(f, n), size)
  <2>1. f = [i \in 0..n |-> Step(f, i)]
    BY <1>4, Zenon DEF IsClamped
  <2>2. \A i \in 0..n : f[i] = Step(f, i)
    <3> HIDE DEF Step
    <3>1. QED
      BY <2>1
  <2>3. /\ f[0] = 0 /\ f[n] = size
        /\ \A k \in 1..n : k # n => f[k] = Lesser(size, Greater(f[k - 1], r[k]))
    BY <2>2
  <2> DEFINE S == {k \in 0..n : f[k] \in V}
  <2>4. 0 \in S
    BY <1>2, <2>3
  <2>5. ASSUME NEW k \in 1..n, k - 1 \in S PROVE k \in S
    <3>1. k \in 0..n /\ f[k - 1] \in V
      BY <2>5
    <3>2. f[k] \in V
      <4> HIDE DEF S
      <4>1. CASE k = n
        BY <1>2, <2>3, <4>1
      <4>2. CASE k # n
        BY <1>1, <2>3, <3>1, <4>2
      <4>3. QED
        BY <4>1, <4>2
    <3>3. QED
      BY <3>1, <3>2
  <2>6. \A k \in 0..n : k \in S
    <3> HIDE DEF S
    <3>1. QED
      BY <2>4, <2>5, Upward
  <2>7. \A k \in 0..n : f[k] \in V
    BY <2>6
  <2>8. ASSUME NEW k \in 1..n PROVE f[k - 1] <= f[k]
    <3>1. f[k - 1] \in V
      BY <2>7
    <3>2. CASE k = n
      BY <1>2, <2>3, <3>1, <3>2
    <3>3. CASE k # n
      BY <1>1, <2>3, <3>1, <3>3
    <3>4. QED
      BY <3>2, <3>3
  <2> HIDE DEF Step
  <2>9. f \in [0..n -> Nat]
    <3>1. f = [i \in 0..n |-> f[i]]
      BY <2>1, <2>2
    <3>2. QED
      BY <1>2, <2>7, <3>1
  <2>10. Tiles(Spans(f, n), f[n])
    BY <2>3, <2>8, <2>9, SpansTile
  <2>11. QED
    BY <2>3, <2>10
<1>5. QED
  BY <1>3, <1>4

\* The geometric table tiles the file, whatever the weights: with one connection,
\* when it falls back to equal ranges, and with rounded and clamped boundaries.
LEMMA PhiTable ==
  ASSUME NEW size \in Nat \ {0}, NEW w \in Seq(Nat \ {0}), Len(w) > 0,
         NEW s, s = BuildPhiGeometricRanges(size, w)
  PROVE  Tiles(s, size)
<1> DEFINE n == Len(w)
           sum[i \in 0..n] == IF i = 0 THEN 0 ELSE sum[i - 1] + w[i]
           rounded(i) == ((2 * size * sum[i] + Block * sum[n]) \div (2 * Block * sum[n])) * Block
           cut[i \in 0..n] ==
             IF i = 0 THEN 0
             ELSE IF i = n THEN size
             ELSE Lesser(size, Greater(cut[i - 1], rounded(i)))
           r == [i \in 1..n |-> rounded(i)]
           Step(f, i) ==
             IF i = 0 THEN 0
             ELSE IF i = n THEN size
             ELSE Lesser(size, Greater(f[i - 1], rounded(i)))
<1>1. n \in Nat \ {0} /\ w \in [1..n -> Nat \ {0}]
  OBVIOUS
<1>2. s = IF n = 1 THEN <<[byte_start |-> 0, byte_end |-> size]>>
          ELSE IF cut[1] < Block THEN BuildEqualRanges(size, n)
          ELSE Spans(cut, n)
  BY Zenon DEF BuildPhiGeometricRanges
<1> HIDE DEF n
<1>3. sum \in [0..n -> Nat] /\ sum[n] > 0
  <2>1. \E f : IsSum(f, w, n)
    BY <1>1, WeightsAddUp
  <2>2. IsSum(sum, w, n)
    BY <2>1, Zenon DEF IsSum
  <2>3. QED
    BY <1>1, <2>2, WeightsAddUp
<1> HIDE DEF sum
<1>4. \A i \in 1..n : rounded(i) \in Nat
  <2>1. TAKE i \in 1..n
  <2> DEFINE a == 2 * size * sum[i] + Block * sum[n]
             d == 2 * Block * sum[n]
  <2>2. sum[i] \in Nat /\ sum[n] \in Nat \ {0} /\ Block \in Nat \ {0}
    BY <1>1, <1>3, SeedRangesAssumption
  <2>3. a \in Nat /\ d \in Nat \ {0}
    <3>1. \A x \in Nat, y \in Nat \ {0}, z \in Nat \ {0} :
            2 * size * x + z * y \in Nat /\ 2 * z * y \in Nat \ {0}
      OBVIOUS
    <3>2. QED
      BY <2>2, <3>1
  <2>4. d # 0
    BY <2>3
  <2> HIDE DEF a, d
  <2>5. a \div d \in Nat
    BY <2>3, <2>4, Quotient
  <2>6. (a \div d) * Block \in Nat
    BY <2>2, <2>5
  <2>7. QED
    BY <2>6 DEF a, d
<1> HIDE DEF rounded
<1>5. r \in [1..n -> Nat] /\ \A i \in 1..n : r[i] = rounded(i)
  BY <1>1, <1>4
<1> HIDE DEF r
<1>6. \A f : IsClamped(f, r, n, size) <=> f = [i \in 0..n |-> Step(f, i)]
  <2>1. TAKE f
  <2> DEFINE Clamp(i) ==
        IF i = 0 THEN 0 ELSE IF i = n THEN size ELSE Lesser(size, Greater(f[i - 1], r[i]))
  <2>2. \A i \in 0..n : i = 0 \/ i \in 1..n
    BY <1>1
  <2>3. \A i \in 0..n : Clamp(i) = Step(f, i)
    BY <1>5, <2>2
  <2>4. IsClamped(f, r, n, size) <=> f = [i \in 0..n |-> Clamp(i)]
    BY Zenon DEF IsClamped
  <2> HIDE DEF Clamp, Step
  <2>5. [i \in 0..n |-> Clamp(i)] = [i \in 0..n |-> Step(f, i)]
    BY <2>3
  <2>6. QED
    BY <2>4, <2>5
<1>7. Tiles(Spans(cut, n), size)
  <2>1. \E f : f = [i \in 0..n |-> Step(f, i)]
    <3> HIDE DEF Step
    <3>1. QED
      BY <1>1, <1>5, <1>6, ClampedTile
  <2>2. cut = [i \in 0..n |-> Step(cut, i)]
    BY <2>1, Zenon
  <2> HIDE DEF cut, Step
  <2>3. QED
    BY <1>1, <1>5, <1>6, <2>2, ClampedTile
<1> HIDE DEF cut
<1>8. CASE n = 1
  <2>1. PICK e : e = <<>>
    OBVIOUS
  <2>2. Tiles(e, 0)
    BY <2>1 DEF Tiles, Cover
  <2>3. Tiles(Append(e, [byte_start |-> 0, byte_end |-> size]), size)
    BY <2>2, OneMoreSpan
  <2>4. Append(e, [byte_start |-> 0, byte_end |-> size]) = s
    BY <1>2, <1>8, <2>1
  <2>5. QED
    BY <2>3, <2>4
<1>9. CASE n # 1 /\ cut[1] < Block
  BY <1>1, <1>2, <1>9, EqualTable
<1>10. CASE n # 1 /\ ~(cut[1] < Block)
  BY <1>2, <1>7, <1>10
<1>11. QED
  BY <1>8, <1>9, <1>10

-----------------------------------------------------------------------------
(* The Fibonacci table. *)

\* f runs through n rounds of the same step G.
Iterates(f, n, V, a, G) ==
  f \in [0..n -> V] /\ f[0] = a /\ \A k \in 1..n : f[k] = G[f[k - 1]]

\* There is one way to go through n rounds.
LEMMA Iteration ==
  ASSUME NEW n \in Nat, NEW V, NEW a \in V, NEW G \in [V -> V]
  PROVE  /\ \E f : Iterates(f, n, V, a, G)
         /\ \A f, h : Iterates(f, n, V, a, G) /\ Iterates(h, n, V, a, G) =>
              \A k \in 0..n : f[k] = h[k]
<1>1. \E f : Iterates(f, n, V, a, G)
  <2> DEFINE g == [k \in 1..n |-> G]
  <2>1. g \in [1..n -> [V -> V]] /\ \A k \in 1..n : g[k] = G
    OBVIOUS
  <2> HIDE DEF g
  <2>2. PICK f : Runs(f, n, V, a, g)
    BY <2>1, Recursion
  <2>3. Iterates(f, n, V, a, G)
    BY <2>1, <2>2, Zenon DEF Runs, Iterates
  <2>4. QED
    BY <2>3
<1>2. ASSUME NEW f, NEW h, Iterates(f, n, V, a, G), Iterates(h, n, V, a, G)
      PROVE  \A k \in 0..n : f[k] = h[k]
  <2> DEFINE S == {k \in 0..n : f[k] = h[k]}
  <2>1. 0 \in S
    BY <1>2 DEF Iterates
  <2>2. \A k \in 1..n : k - 1 \in S => k \in S
    BY <1>2 DEF Iterates
  <2>3. \A k \in 0..n : k \in S
    BY <2>1, <2>2, Upward
  <2>4. QED
    BY <2>3
<1>3. QED
  BY <1>1, <1>2

\* A step of V can be repeated for ever.
LEMMA Forever ==
  ASSUME NEW V, NEW a \in V, NEW G \in [V -> V]
  PROVE  \E h \in [Nat -> V] : h[0] = a /\ \A k \in Nat : h[k + 1] = G[h[k]]
<1> DEFINE It(f, n) == Iterates(f, n, V, a, G)
           run(n) == CHOOSE f : It(f, n)
           h == [n \in Nat |-> run(n)[n]]
<1>1. \A n \in Nat : It(run(n), n)
  BY Iteration, Zenon
<1>2. \A n \in Nat : \A f, e : It(f, n) /\ It(e, n) => \A k \in 0..n : f[k] = e[k]
  BY Iteration
<1>3. \A f, n : It(f, n) <=>
        f \in [0..n -> V] /\ f[0] = a /\ \A k \in 1..n : f[k] = G[f[k - 1]]
  BY Zenon DEF Iterates
<1> HIDE DEF run, It
<1>4. \A n \in Nat : h[n] = run(n)[n]
  OBVIOUS
<1>5. \A n \in Nat : run(n)[n] \in V
  BY <1>1, <1>3
<1>6. h \in [Nat -> V]
  BY <1>5
<1> HIDE DEF h
<1>7. h[0] = a
  <2>1. It(run(0), 0)
    BY <1>1
  <2>2. run(0)[0] = a
    BY <2>1, <1>3, Zenon
  <2>3. QED
    BY <1>4, <2>2
<1>8. ASSUME NEW k \in Nat PROVE h[k + 1] = G[h[k]]
  <2>1. PICK f : f = run(k + 1)
    OBVIOUS
  <2>2. f \in [0..(k + 1) -> V] /\ f[0] = a /\ \A i \in 1..(k + 1) : f[i] = G[f[i - 1]]
    <3>1. It(f, k + 1)
      BY <1>1, <2>1
    <3>2. QED
      BY <3>1, <1>3, Zenon
  <2> DEFINE e == [i \in 0..k |-> f[i]]
  <2>3. e \in [0..k -> V] /\ e[0] = a /\ \A i \in 1..k : e[i] = G[e[i - 1]]
    BY <2>2
  <2>4. e[k] = f[k]
    OBVIOUS
  <2> HIDE DEF e
  <2>5. It(e, k)
    BY <1>3, <2>3, Zenon
  <2>6. k \in 0..k /\ k + 1 \in 1..(k + 1) /\ (k + 1) - 1 = k
    OBVIOUS
  <2>7. e[k] = run(k)[k]
    BY <1>1, <1>2, <2>5, <2>6, Zenon
  <2>8. f[k + 1] = G[f[k]]
    BY <2>2, <2>6
  <2>9. QED
    BY <1>4, <2>1, <2>4, <2>7, <2>8
<1>9. QED
  BY <1>6, <1>7, <1>8

\* build_fib_mb is 1, 2, and then the sum of the two before.
LEMMA FibMbIs ==
  /\ FibMb[0] = 1 /\ FibMb[1] = 2
  /\ \A k \in Nat : FibMb[k + 2] = FibMb[k + 1] + FibMb[k]
<1> DEFINE V == Nat \X Nat
           G == [p \in V |-> <<p[2], p[1] + p[2]>>]
           Step(f, i) == IF i < 2 THEN i + 1 ELSE f[i - 1] + f[i - 2]
           a == <<1, 2>>
<1>1. /\ a \in V /\ a[1] = 1 /\ a[2] = 2 /\ G \in [V -> V]
      /\ \A p \in V : /\ p[1] \in Nat /\ p[2] \in Nat
                      /\ G[p][1] = p[2] /\ G[p][2] = p[1] + p[2]
  OBVIOUS
<1> HIDE DEF a, V, G
<1>2. PICK h \in [Nat -> V] : h[0] = a /\ \A k \in Nat : h[k + 1] = G[h[k]]
  <2>1. a \in V /\ G \in [V -> V]
    BY <1>1
  <2>2. QED
    BY <2>1, Forever
<1> DEFINE f == [i \in Nat |-> h[i][1]]
<1>3. \A k \in Nat : h[k] \in V /\ f[k] = h[k][1]
  OBVIOUS
<1>4. \A k \in Nat : h[k + 1][1] = h[k][2] /\ h[k + 1][2] = h[k][1] + h[k][2]
  BY <1>1, <1>2, <1>3
<1>5. f = [i \in Nat |-> f[i]]
  OBVIOUS
<1> HIDE DEF f
<1>6. f[0] = 1 /\ f[1] = 2
  <2>1. f[0] = h[0][1] /\ f[0 + 1] = h[0 + 1][1] /\ h[0 + 1][1] = h[0][2]
    BY <1>3, <1>4
  <2>2. QED
    BY <1>1, <1>2, <2>1
<1>7. ASSUME NEW k \in Nat PROVE f[k + 2] = f[k + 1] + f[k]
  <2>1. k + 1 \in Nat /\ k + 2 \in Nat /\ (k + 1) + 1 = k + 2
    OBVIOUS
  <2>2. h[k + 2][1] = h[k + 1][2]
    BY <1>4, <2>1
  <2>3. h[k + 1][2] = h[k][1] + h[k][2] /\ h[k + 1][1] = h[k][2]
    BY <1>4
  <2>4. h[k][1] \in Nat /\ h[k][2] \in Nat
    BY <1>1, <1>3
  <2>5. QED
    BY <1>3, <2>1, <2>2, <2>3, <2>4
<1>8. ASSUME NEW i \in Nat PROVE f[i] = Step(f, i)
  <2>1. CASE i < 2
    BY <1>6, <2>1
  <2>2. CASE ~(i < 2)
    <3>1. i - 2 \in Nat /\ (i - 2) + 2 = i /\ (i - 2) + 1 = i - 1
      BY <2>2
    <3>2. f[(i - 2) + 2] = f[(i - 2) + 1] + f[i - 2]
      BY <1>7, <3>1
    <3>3. QED
      BY <2>2, <3>1, <3>2
  <2>3. QED
    BY <2>1, <2>2
<1>9. [i \in Nat |-> f[i]] = [i \in Nat |-> Step(f, i)]
  <2> HIDE DEF Step
  <2>1. QED
    BY <1>8
<1>10. \E e : e = [i \in Nat |-> Step(e, i)]
  BY <1>5, <1>9, Zenon
<1>11. FibMb = [i \in Nat |-> Step(FibMb, i)]
  BY <1>10, Zenon DEF FibMb
<1>12. \A i \in Nat : FibMb[i] = Step(FibMb, i)
  <2> HIDE DEF Step
  <2>1. QED
    BY <1>11
<1>13. FibMb[0] = 1 /\ FibMb[1] = 2
  BY <1>12
<1>14. ASSUME NEW k \in Nat PROVE FibMb[k + 2] = FibMb[k + 1] + FibMb[k]
  <2>1. k + 2 \in Nat /\ ~(k + 2 < 2) /\ (k + 2) - 1 = k + 1 /\ (k + 2) - 2 = k
    OBVIOUS
  <2>2. QED
    BY <1>12, <2>1
<1>15. QED
  BY <1>13, <1>14

\* The sizes of the table rise, each by a megabyte at least.
LEMMA FibRises ==
  \A k \in Nat : FibMb[k] \in Nat /\ FibMb[k] >= k + 1 /\ FibMb[k] < FibMb[k + 1]
<1> DEFINE Good(k) == /\ FibMb[k] \in Nat /\ FibMb[k] >= k + 1
                      /\ FibMb[k + 1] \in Nat /\ FibMb[k] < FibMb[k + 1]
           S == {k \in Nat : Good(k)}
<1>1. 0 \in S
  BY FibMbIs
<1>2. ASSUME NEW n \in Nat, NEW k \in 1..n, k - 1 \in S PROVE k \in S
  <2>1. k - 1 \in Nat /\ (k - 1) + 1 = k /\ (k - 1) + 2 = k + 1 /\ k \in Nat
    OBVIOUS
  <2>2. /\ FibMb[k - 1] \in Nat /\ FibMb[k - 1] >= (k - 1) + 1
        /\ FibMb[k] \in Nat /\ FibMb[k - 1] < FibMb[k]
    BY <1>2, <2>1
  <2>3. FibMb[k + 1] = FibMb[k] + FibMb[k - 1]
    BY <2>1, FibMbIs
  <2>4. Good(k)
    BY <2>1, <2>2, <2>3
  <2>5. QED
    BY <2>1, <2>4
<1> HIDE DEF S
<1>3. ASSUME NEW n \in Nat PROVE n \in S
  <2>1. \A k \in 0..n : k \in S
    BY <1>1, <1>2, Upward
  <2>2. QED
    BY <2>1
<1>4. QED
  BY <1>3 DEF S

\* The first number of the table that is large enough, and all before it are not.
LEMMA FirstFib ==
  ASSUME NEW need \in Nat \ {0}
  PROVE  /\ FirstFibIdx(need) \in 0..need
         /\ FibMb[FirstFibIdx(need)] >= need
         /\ \A j \in 0..(FirstFibIdx(need) - 1) : FibMb[j] < need
<1> DEFINE Enough == {i \in 0..need : FibMb[i] >= need}
<1>1. \A i \in 0..need : FibMb[i] \in Nat /\ FibMb[i] >= i + 1
  BY FibRises
<1>2. need \in Enough /\ Enough \in SUBSET Nat
  BY <1>1
<1>3. PICK m \in Enough : \A k \in Enough : m <= k
  BY <1>2, LeastNatural
<1>4. m \in 0..need /\ FibMb[m] >= need
  OBVIOUS
<1>5. \A j \in 0..(m - 1) : FibMb[j] < need
  <2>1. TAKE j \in 0..(m - 1)
  <2>2. j \in 0..need /\ ~(m <= j)
    BY <1>4
  <2>3. j \notin Enough
    BY <1>3, <2>2
  <2>4. QED
    BY <1>1, <2>2, <2>3
<1>6. \E i \in 0..need : FibMb[i] >= need /\ \A j \in 0..(i - 1) : FibMb[j] < need
  BY <1>4, <1>5
<1>7. QED
  BY <1>6, Zenon DEF FirstFibIdx

\* The number that supports the file: those before it fall short of the file's
\* size, and a file of more than a megabyte has one before it.
LEMMA Support ==
  ASSUME NEW size \in Nat \ {0}
  PROVE  /\ SupportIdx(size) \in Nat
         /\ \A j \in 0..(SupportIdx(size) - 1) : FibMb[j] * MegaByte < size
         /\ size > MegaByte => SupportIdx(size) >= 1
<1> DEFINE c == CeilDiv(size, MegaByte)
           top == SupportIdx(size)
<1>1. MegaByte \in Nat \ {0}
  BY SeedRangesAssumption
<1>2. c \in Nat \ {0} /\ size <= c * MegaByte /\ c * MegaByte < size + MegaByte
  BY <1>1, RoundedUp
<1>3. top = FirstFibIdx(c)
  BY <1>2 DEF SupportIdx, Greater
<1> HIDE DEF c, top
<1>4. top \in 0..c /\ FibMb[top] >= c /\ \A j \in 0..(top - 1) : FibMb[j] < c
  BY <1>2, <1>3, FirstFib
<1>5. ASSUME NEW j \in 0..(top - 1) PROVE FibMb[j] * MegaByte < size
  <2>1. FibMb[j] \in Nat
    BY <1>4, FibRises
  <2>2. FibMb[j] + 1 <= c
    BY <1>2, <1>4, <2>1
  <2>3. \A x \in Nat : x + 1 <= c => x * MegaByte + MegaByte <= c * MegaByte
    <3>1. TAKE x \in Nat
    <3>2. HAVE x + 1 <= c
    <3>3. c - (x + 1) \in Nat
      BY <1>2, <3>2
    <3>4. (c - (x + 1)) * MegaByte \in Nat
      BY <1>1, <3>3
    <3>5. (c - (x + 1)) * MegaByte = c * MegaByte - (x * MegaByte + MegaByte)
      BY <1>1, <1>2
    <3>6. QED
      BY <1>1, <1>2, <3>4, <3>5
  <2>4. FibMb[j] * MegaByte + MegaByte <= c * MegaByte
    BY <2>1, <2>2, <2>3
  <2> DEFINE x == FibMb[j] * MegaByte
             y == c * MegaByte
  <2>5. x \in Int /\ y \in Int
    BY <1>1, <1>2, <2>1
  <2> HIDE DEF x, y
  <2>6. x + MegaByte <= y /\ y < size + MegaByte
    BY <1>2, <2>4 DEF x, y
  <2>7. x < size
    BY <1>1, <2>5, <2>6
  <2>8. QED
    BY <2>7 DEF x
<1>6. ASSUME size > MegaByte PROVE top >= 1
  <2>1. ASSUME top = 0 PROVE FALSE
    <3>1. c <= 1
      BY <1>4, <2>1, FibMbIs
    <3>2. c = 1
      BY <1>2, <3>1
    <3>3. QED
      BY <1>1, <1>2, <1>6, <3>2
  <2>2. QED
    BY <1>4, <2>1
<1>7. QED
  BY <1>4, <1>5, <1>6 DEF top

\* choose_seed_start_idx stays below the support, and leaves a step for each
\* connection as long as there are as many.
LEMMA SeedStart ==
  ASSUME NEW size \in Nat \ {0}, NEW connections \in Nat \ {0}, NEW dry \in BOOLEAN
  PROVE  /\ SeedStartIdx(size, connections, dry) \in 0..SupportIdx(size)
         /\ SupportIdx(size) >= 1 => SeedStartIdx(size, connections, dry) < SupportIdx(size)
         /\ SupportIdx(size) - SeedStartIdx(size, connections, dry)
              >= Lesser(connections, SupportIdx(size))
<1> DEFINE top == SupportIdx(size)
           floor == FirstFibIdx(SeedFloor)
           first == SeedStartIdx(size, connections, dry)
<1>1. top \in Nat
  BY Support
<1>2. floor \in Nat
  BY SeedRangesAssumption, FirstFib
<1>3. first = IF dry \/ top = 0 THEN 0 ELSE Lesser(floor, Greater(0, top - connections))
  BY Zenon DEF SeedStartIdx
<1> HIDE DEF top, floor, first
<1>4. /\ first \in 0..top
      /\ top >= 1 => first < top
      /\ top - first >= Lesser(connections, top)
  BY <1>1, <1>2, <1>3 DEF Lesser, Greater
<1>5. QED
  BY <1>4 DEF top, first

\* The Fibonacci table of a file of more than a megabyte tiles it, and has as
\* many ranges as steps; with no steps it is empty.
LEMMA FibTable ==
  ASSUME NEW size \in Nat \ {0}, NEW connections \in Nat \ {0}, NEW dry \in BOOLEAN,
         NEW s, s = BuildSeedRanges(size, connections, dry)
  PROVE  /\ SupportIdx(size) >= 1 => Tiles(s, size)
         /\ SupportIdx(size) = 0 => DOMAIN s = {}
         /\ Len(s) >= Lesser(connections, SupportIdx(size))
<1> DEFINE top == SupportIdx(size)
           first == SeedStartIdx(size, connections, dry)
           steps == top - first
           cut[i \in 0..steps] ==
             IF i = 0 THEN 0
             ELSE IF i = steps THEN size
             ELSE Lesser(size, FibMb[first + i] * MegaByte)
<1>1. s = Spans(cut, steps)
  BY Zenon DEF BuildSeedRanges
<1>2. /\ top \in Nat /\ first \in 0..top
      /\ top >= 1 => first < top
      /\ top - first >= Lesser(connections, top)
      /\ \A j \in 0..(top - 1) : FibMb[j] * MegaByte < size
  BY Support, SeedStart
<1>3. \A i \in 0..steps : cut[i] = IF i = 0 THEN 0
                                   ELSE IF i = steps THEN size
                                   ELSE Lesser(size, FibMb[first + i] * MegaByte)
  OBVIOUS
<1>4. DOMAIN cut = 0..steps /\ cut = [i \in 0..steps |-> cut[i]]
  OBVIOUS
<1> HIDE DEF top, first, cut
<1>5. steps \in Nat
  BY <1>2
<1>6. ASSUME NEW i \in 1..(steps - 1)
      PROVE  /\ cut[i] = FibMb[first + i] * MegaByte
             /\ cut[i] \in Nat \ {0} /\ cut[i] < size
  <2>1. first + i \in 0..(top - 1) /\ first + i \in Nat
    BY <1>2
  <2>2. FibMb[first + i] \in Nat \ {0}
    BY <2>1, FibRises
  <2>3. FibMb[first + i] * MegaByte < size
    BY <1>2, <2>1
  <2>4. FibMb[first + i] * MegaByte \in Nat \ {0}
    BY <2>2, SeedRangesAssumption
  <2>5. i \in 0..steps /\ i # 0 /\ i # steps
    BY <1>5
  <2>6. cut[i] = Lesser(size, FibMb[first + i] * MegaByte)
    BY <1>3, <2>5
  <2> DEFINE x == FibMb[first + i] * MegaByte
  <2> HIDE DEF x
  <2>7. cut[i] = Lesser(size, x) /\ x < size /\ x \in Nat \ {0}
    BY <2>3, <2>4, <2>6 DEF x
  <2>8. cut[i] = x
    BY <2>7 DEF Lesser
  <2>9. QED
    BY <2>7, <2>8 DEF x
<1>7. CASE steps = 0
  <2>1. cut[0] = 0 /\ 0 \in 0..steps
    BY <1>3, <1>7
  <2>2. Len(s) = 0 /\ DOMAIN s = {}
    <3>1. \A i \in 0..steps : i = 0
      BY <1>7
    <3>2. cut \in [0..steps -> Nat]
      BY <1>4, <2>1, <3>1
    <3>3. steps \in Nat /\ \A k \in 1..steps : cut[k - 1] < cut[k]
      BY <1>7
    <3>4. \A k \in 1..steps : cut[k - 1] <= cut[k]
      BY <1>7
    <3>5. Len(Spans(cut, steps)) = steps /\ Tiles(Spans(cut, steps), cut[steps])
      BY <2>1, <3>2, <3>3, <3>4, SpansTile
    <3>6. Len(s) = 0 /\ s \in Seq(SeedSpan)
      BY <1>1, <1>7, <3>5 DEF Tiles
    <3>7. QED
      BY <3>6, LenProperties
  <2>3. top = 0
    BY <1>2, <1>7
  <2>4. QED
    BY <1>2, <1>7, <2>2, <2>3 DEF top
<1>8. CASE steps # 0
  <2>1. cut[0] = 0 /\ cut[steps] = size /\ 0 \in 0..steps /\ steps \in 0..steps
    BY <1>3, <1>5, <1>8
  <2>2. cut \in [0..steps -> Nat]
    <3>1. \A i \in 0..steps : i = 0 \/ i = steps \/ i \in 1..(steps - 1)
      BY <1>5
    <3>2. \A i \in 0..steps : cut[i] \in Nat
      BY <1>6, <2>1, <3>1
    <3>3. QED
      BY <1>4, <3>2
  <2>3. ASSUME NEW k \in 1..steps PROVE cut[k - 1] < cut[k]
    <3>1. CASE k = 1 /\ k = steps
      BY <2>1, <3>1
    <3>2. CASE k = 1 /\ k # steps
      <4>1. 1 \in 1..(steps - 1)
        BY <1>5, <3>2
      <4>2. cut[1] \in Nat \ {0}
        BY <1>6, <4>1
      <4>3. QED
        BY <2>1, <3>2, <4>2
    <3>3. CASE k # 1 /\ k = steps
      <4>1. k - 1 \in 1..(steps - 1)
        BY <1>5, <3>3
      <4>2. cut[k - 1] < size
        BY <1>6, <4>1
      <4>3. QED
        BY <2>1, <3>3, <4>2
    <3>4. CASE k # 1 /\ k # steps
      <4>1. k - 1 \in 1..(steps - 1) /\ k \in 1..(steps - 1)
        BY <1>5, <3>4
      <4>2. cut[k - 1] = FibMb[first + (k - 1)] * MegaByte /\ cut[k] = FibMb[first + k] * MegaByte
        BY <1>6, <4>1
      <4>3. first + (k - 1) \in Nat /\ (first + (k - 1)) + 1 = first + k
        BY <1>2, <4>1
      <4>4. /\ FibMb[first + (k - 1)] \in Nat /\ FibMb[first + k] \in Nat
            /\ FibMb[first + (k - 1)] < FibMb[first + k]
        BY <4>3, FibRises
      <4>5. \A x, y \in Nat : x < y => x * MegaByte < y * MegaByte
        <5>1. TAKE x, y \in Nat
        <5>2. HAVE x < y
        <5>3. MegaByte \in Nat \ {0} /\ y - x \in Nat \ {0}
          BY <5>2, SeedRangesAssumption
        <5>4. (y - x) * MegaByte \in Nat \ {0}
          BY <5>3
        <5>5. (y - x) * MegaByte = y * MegaByte - x * MegaByte /\ x * MegaByte \in Int /\ y * MegaByte \in Int
          BY <5>3
        <5>6. QED
          BY <5>4, <5>5
      <4>6. QED
        BY <4>2, <4>4, <4>5
    <3>5. QED
      BY <3>1, <3>2, <3>3, <3>4
  <2>4. \A k \in 1..steps : cut[k - 1] <= cut[k]
    <3>1. \A k \in 1..steps : cut[k - 1] \in Nat /\ cut[k] \in Nat
      <4>1. \A k \in 1..steps : k - 1 \in 0..steps /\ k \in 0..steps
        BY <1>5
      <4>2. QED
        BY <2>2, <4>1
    <3>2. QED
      BY <2>3, <3>1
  <2> HIDE DEF steps
  <2>5. Tiles(s, size) /\ Len(s) = steps
    <3>1. Tiles(Spans(cut, steps), cut[steps])
      BY <1>5, <2>1, <2>2, <2>4, SpansTile
    <3>2. (\A k \in 1..steps : cut[k - 1] < cut[k]) => Len(Spans(cut, steps)) = steps
      BY <1>5, <2>1, <2>2, <2>4, SpansTile
    <3>3. \A k \in 1..steps : cut[k - 1] < cut[k]
      BY <2>3
    <3>4. QED
      BY <1>1, <2>1, <3>1, <3>2, <3>3, Zenon
  <2>6. Len(s) >= Lesser(connections, top)
    BY <1>2, <2>5 DEF steps
  <2>7. top # 0
    BY <1>2, <1>8 DEF steps
  <2>8. QED
    BY <2>5, <2>6, <2>7 DEF top
<1>9. QED
  BY <1>7, <1>8

-----------------------------------------------------------------------------
(* The coordinator's table. *)

\* The table is what one of the builders makes of the file's size, the weights
\* and the mode the task started with.
Built ==
  /\ total \in Nat \ {0} /\ dry_run \in BOOLEAN
  /\ schedule_mode \in {"FibAdaptive", "Equal", "Fib"}
  /\ weights \in Seq(Nat \ {0}) /\ Len(weights) > 0
  /\ ~built => seed_ranges = <<>>
  /\ built =>
       /\ schedule_mode = "FibAdaptive" => seed_ranges = BuildPhiGeometricRanges(total, weights)
       /\ schedule_mode = "Fib" => seed_ranges = BuildSeedRanges(total, Len(weights), dry_run)
       /\ schedule_mode = "Equal" => seed_ranges = BuildEqualRanges(total, Len(weights))

\* The weights of the phi-geometric builder are a sequence, one per connection.
LEMMA WeightsAreASequence ==
  ASSUME NEW w \in Weights
  PROVE  w \in Seq(Nat \ {0}) /\ Len(w) > 0
<1>1. PICK n \in 1..MaxConnections : w \in [1..n -> 1..MaxWeight]
  BY Zenon DEF Weights
<1>2. n \in Nat \ {0} /\ \A x \in 1..MaxWeight : x \in Nat \ {0}
  BY SeedRangesAssumption
<1>3. w \in [1..n -> Nat \ {0}]
  BY <1>1, <1>2
<1>4. QED
  BY <1>2, <1>3

\* The table is built once, from what the task started with.
LEMMA TableIsBuilt == SeedSpec => []Built
<1>1. SeedInit => Built
  <2> SUFFICES ASSUME SeedInit PROVE Built
    OBVIOUS
  <2>1. weights \in Seq(Nat \ {0}) /\ Len(weights) > 0
    BY WeightsAreASequence DEF SeedInit
  <2>2. total \in Nat \ {0} /\ schedule_mode \in {"FibAdaptive", "Equal", "Fib"}
    BY SeedRangesAssumption DEF SeedInit
  <2>3. QED
    BY <2>1, <2>2 DEF SeedInit, Built
<1>2. Built /\ [New]_seedVars => Built'
  <2> SUFFICES ASSUME Built, [New]_seedVars PROVE Built'
    OBVIOUS
  <2>1. CASE New
    <3>1. UNCHANGED <<total, schedule_mode, dry_run, weights>> /\ built' = TRUE
      BY <2>1 DEF New
    <3>2. /\ schedule_mode = "FibAdaptive" =>
               seed_ranges' = BuildPhiGeometricRanges(total, weights)
          /\ schedule_mode = "Fib" =>
               seed_ranges' = BuildSeedRanges(total, Len(weights), dry_run)
          /\ schedule_mode = "Equal" => seed_ranges' = BuildEqualRanges(total, Len(weights))
      BY <2>1 DEF New
    <3>3. QED
      BY <3>1, <3>2 DEF Built
  <2>2. CASE UNCHANGED seedVars
    BY <2>2 DEF Built, seedVars
  <2>3. QED
    BY <2>1, <2>2
<1>3. QED
  BY <1>1, <1>2, PTL DEF SeedSpec

\* What Coordinator::new builds, but for a Fibonacci table of a megabyte or less.
SeedsTile == built /\ (schedule_mode = "Fib" => total > MegaByte) => Tiles(seed_ranges, total)

\* The seed ranges tile the file, whatever its size, the number of connections, the
\* weights and the mode: not empty, inside the file, each byte in exactly one.
\* This is SeedAssumption of RangeCoordinator.
THEOREM SeedsAreATable == SeedSpec => []SeedsTile
<1>1. Built => SeedsTile
  <2> SUFFICES ASSUME Built, built, schedule_mode = "Fib" => total > MegaByte
               PROVE  Tiles(seed_ranges, total)
    BY DEF SeedsTile
  <2>1. CASE schedule_mode = "FibAdaptive"
    BY <2>1, PhiTable DEF Built
  <2>2. CASE schedule_mode = "Equal"
    <3>1. Len(weights) \in Nat \ {0}
      BY DEF Built
    <3>2. QED
      BY <2>2, <3>1, EqualTable DEF Built
  <2>3. CASE schedule_mode = "Fib"
    <3>1. Len(weights) \in Nat \ {0}
      BY DEF Built
    <3>2. SupportIdx(total) >= 1
      BY <2>3, Support DEF Built
    <3>3. QED
      BY <2>3, <3>1, <3>2, FibTable DEF Built
  <2>4. QED
    BY <2>1, <2>2, <2>3 DEF Built
<1>2. QED
  BY <1>1, TableIsBuilt, PTL

\* Coordinator::new covers every byte of the file exactly once.
THEOREM SeedsCover == SeedSpec => []SeedsCoverFile
<1>1. SeedsTile => SeedsCoverFile
  BY DEF SeedsTile, SeedsCoverFile, Tiles
<1>2. QED
  BY <1>1, SeedsAreATable, PTL

\* The equal split gives no more ranges than connections, of the same size but
\* for a byte; the Fibonacci table has a range for each connection as soon as it
\* has that many steps.
THEOREM ConnectionsFed == SeedSpec => []ConnectionsAreFed
<1>1. Built => ConnectionsAreFed
  <2> SUFFICES ASSUME Built PROVE ConnectionsAreFed
    OBVIOUS
  <2>1. Len(weights) \in Nat \ {0}
    BY DEF Built
  <2>2. CASE built /\ schedule_mode = "Equal"
    <3>1. /\ Len(seed_ranges) <= Len(weights)
          /\ \A i, j \in DOMAIN seed_ranges :
               seed_ranges[i].byte_end - seed_ranges[i].byte_start
                 <= seed_ranges[j].byte_end - seed_ranges[j].byte_start + 1
      BY <2>1, <2>2, EqualTable DEF Built
    <3>2. QED
      BY <2>2, <3>1 DEF ConnectionsAreFed
  <2>3. CASE built /\ schedule_mode = "Fib"
    <3>1. Len(seed_ranges) >= Lesser(Len(weights), SupportIdx(total))
      BY <2>1, <2>3, FibTable DEF Built
    <3>2. QED
      BY <2>3, <3>1 DEF ConnectionsAreFed
  <2>4. CASE ~built
    <3>1. Len(seed_ranges) = 0 /\ DOMAIN seed_ranges = {}
      BY <2>4 DEF Built
    <3>2. QED
      BY <2>1, <2>4, <3>1 DEF ConnectionsAreFed
  <2>5. CASE built /\ schedule_mode = "FibAdaptive"
    BY <2>5 DEF ConnectionsAreFed
  <2>6. QED
    BY <2>2, <2>3, <2>4, <2>5 DEF Built
<1>2. QED
  BY <1>1, TableIsBuilt, PTL

\* Every seed range is a span of positive length inside the file, also in the
\* table that need not cover it (Coordinator::new).
THEOREM SeedTypesAreCorrect == SeedSpec => []SeedTypeOK
<1>1. Built => SeedTypeOK
  <2> SUFFICES ASSUME Built PROVE SeedTypeOK
    OBVIOUS
  <2>1. Len(weights) \in Nat \ {0} /\ total \in Nat \ {0}
    BY DEF Built
  <2>2. ASSUME Tiles(seed_ranges, total) PROVE SeedTypeOK
    <3>1. ASSUME NEW i \in DOMAIN seed_ranges
          PROVE  /\ seed_ranges[i].byte_start \in 0..(total - 1)
                 /\ seed_ranges[i].byte_end \in (seed_ranges[i].byte_start + 1)..total
      <4>1. seed_ranges[i] \in SeedSpan
        BY <2>2, LenProperties, ElementOfSeq DEF Tiles
      <4>2. /\ seed_ranges[i].byte_start < seed_ranges[i].byte_end
            /\ seed_ranges[i].byte_end <= total
        BY <2>2 DEF Tiles
      <4>3. seed_ranges[i].byte_start \in Nat /\ seed_ranges[i].byte_end \in Nat
        BY <4>1 DEF SeedSpan
      <4>4. QED
        BY <2>1, <4>2, <4>3
    <3>2. QED
      BY <3>1 DEF SeedTypeOK
  <2>3. ASSUME DOMAIN seed_ranges = {} PROVE SeedTypeOK
    BY <2>3 DEF SeedTypeOK
  <2>4. CASE built /\ schedule_mode = "Fib"
    <3>1. /\ SupportIdx(total) >= 1 => Tiles(seed_ranges, total)
          /\ SupportIdx(total) = 0 => DOMAIN seed_ranges = {}
      BY <2>1, <2>4, FibTable DEF Built
    <3>2. SupportIdx(total) \in Nat
      BY <2>1, Support
    <3>3. QED
      BY <2>2, <2>3, <3>1, <3>2
  <2>5. CASE built /\ schedule_mode # "Fib"
    <3>1. CASE schedule_mode = "FibAdaptive"
      BY <2>2, <2>5, <3>1, PhiTable DEF Built
    <3>2. CASE schedule_mode = "Equal"
      BY <2>1, <2>2, <2>5, <3>2, EqualTable DEF Built
    <3>3. QED
      BY <2>5, <3>1, <3>2 DEF Built
  <2>6. CASE ~built
    BY <2>3, <2>6 DEF Built
  <2>7. QED
    BY <2>4, <2>5, <2>6
<1>2. QED
  BY <1>1, TableIsBuilt, PTL
=============================================================================
