----------------------------- MODULE ZScoreProofs -----------------------------
(***************************************************************************)
(* Theorems about the statistical detector, for all lists of integers and  *)
(* any size of the window that the precision of the arithmetic allows.     *)
(*                                                                         *)
(* The newest value x is one of the n values of the baseline it is         *)
(* compared with.  Of the differences x - v to these values one is 0, so   *)
(* that by the inequality of Cauchy and Schwarz the square of their sum is *)
(* at most n - 1 times the sum of their squares (Gathered): z^2 <= n - 1   *)
(* (InItsBaseline).  The sums are functions defined by recursion over the  *)
(* places of a list; what holds of them is shown by induction over these   *)
(* places, in a form that speaks of a set of places (Upward).  Rounding    *)
(* enters where a computed z^2 is compared: it can carry the bound n - 1   *)
(* over a threshold it is equal to, never over one beyond it.              *)
(***************************************************************************)
EXTENDS ZScore, SequenceTheorems, WellFoundedInduction, TLAPS

-----------------------------------------------------------------------------
(* Sums.                                                                   *)

LEMMA Least ==
    ASSUME NEW S \in SUBSET Nat, S # {}
    PROVE  \E k \in S : \A l \in S : k <= l
<1> DEFINE R == {p \in Nat \X Nat : p[1] < p[2]}
<1>1. IsWellFoundedOn(R, Nat)
  BY NatLessThanWellFounded DEF OpToRel
<1>2. PICK k \in S : \A l \in S : ~ (<<l, k>> \in R)
  <2> HIDE DEF R
  <2> QED BY <1>1, WFMin
<1>3. \A l \in S : k <= l
  <2> SUFFICES ASSUME NEW l \in S PROVE k <= l
    OBVIOUS
  <2>1. l \in Nat /\ k \in Nat
    BY <1>2
  <2>2. <<l, k>> \in R <=> l < k
    BY <2>1
  <2> HIDE DEF R
  <2>3. ~ (l < k)
    BY <1>2, <2>2
  <2> QED BY <2>1, <2>3
<1> QED BY <1>3

\* Induction over places: a set with the first of them, and the next of each of
\* them, has them all.
LEMMA Upward ==
    ASSUME NEW m \in Nat, NEW n \in Nat, NEW S, m \in S,
           \A i \in m .. n : i > m /\ i - 1 \in S => i \in S
    PROVE  m .. n \subseteq S
<1> SUFFICES ASSUME NEW j \in m .. n, j \notin S PROVE FALSE
  OBVIOUS
<1> DEFINE Bad == (m .. n) \ S
<1>1. Bad \in SUBSET Nat /\ j \in Bad
  OBVIOUS
<1> HIDE DEF Bad
<1>2. PICK k \in Bad : \A l \in Bad : k <= l
  BY <1>1, Least
<1>3. k \in m .. n /\ k \notin S
  BY <1>2 DEF Bad
<1>4. k > m
  BY <1>3
<1>5. k - 1 \in m .. n /\ ~ (k <= k - 1)
  BY <1>3, <1>4
<1>6. k - 1 \in S
  BY <1>2, <1>5 DEF Bad
<1> QED BY <1>3, <1>4, <1>6

\* The recursion defines a function: there is one for every place.
LEMMA SumsExist ==
    ASSUME NEW n \in Nat, NEW g
    PROVE  \E t : t = [i \in 0 .. n |-> IF i = 0 THEN 0 ELSE t[i - 1] + g[i]]
<1> DEFINE Summed(m) == \E t : t = [i \in 0 .. m |-> IF i = 0 THEN 0 ELSE t[i - 1] + g[i]]
           S == {m \in Nat : Summed(m)}
<1>1. 0 \in S
  <2> DEFINE t == [i \in 0 .. 0 |-> 0]
  <2>1. t = [i \in 0 .. 0 |-> IF i = 0 THEN 0 ELSE t[i - 1] + g[i]]
    OBVIOUS
  <2> QED BY <2>1
<1>2. ASSUME NEW m \in 0 .. n, m > 0, m - 1 \in S
      PROVE  m \in S
  <2>1. PICK t : t = [i \in 0 .. m - 1 |-> IF i = 0 THEN 0 ELSE t[i - 1] + g[i]]
    BY <1>2
  <2> DEFINE u == [i \in 0 .. m |-> IF i = m THEN t[m - 1] + g[m] ELSE t[i]]
  <2>2. \A i \in 0 .. m - 1 : t[i] = IF i = 0 THEN 0 ELSE t[i - 1] + g[i]
    BY <2>1
  <2>3. \A i \in 0 .. m : u[i] = IF i = 0 THEN 0 ELSE u[i - 1] + g[i]
    BY <1>2, <2>2
  <2>4. u = [i \in 0 .. m |-> u[i]]
    OBVIOUS
  <2> HIDE DEF u
  <2>5. u = [i \in 0 .. m |-> IF i = 0 THEN 0 ELSE u[i - 1] + g[i]]
    BY <2>3, <2>4
  <2> QED BY <1>2, <2>5
<1> HIDE DEF S
<1>3. 0 .. n \subseteq S
  BY <1>1, <1>2, Upward
<1>4. n \in S
  BY <1>3
<1> QED BY <1>4 DEF S

LEMMA SumsType ==
    ASSUME NEW s \in Seq(Int)
    PROVE  /\ Sums(s) \in [0 .. Len(s) -> Int] /\ Sums(s)[0] = 0
           /\ \A i \in 1 .. Len(s) : Sums(s)[i] = Sums(s)[i - 1] + s[i]
<1> DEFINE R(t) == t = [i \in 0 .. Len(s) |-> IF i = 0 THEN 0 ELSE t[i - 1] + s[i]]
           c == CHOOSE t : R(t)
<1>1. Len(s) \in Nat /\ \A i \in 1 .. Len(s) : s[i] \in Int
  OBVIOUS
<1>2. \E t : R(t)
  BY <1>1, SumsExist
<1>3. c = Sums(s)
  BY DEF Sums
<1>4. R(c)
  <2> HIDE DEF R
  <2> QED BY <1>2
<1> HIDE DEF c
<1> DEFINE f == Sums(s)
<1>5. R(f)
  BY <1>3, <1>4
<1> HIDE DEF f
<1>6. DOMAIN f = 0 .. Len(s) /\ f[0] = 0 /\ \A i \in 1 .. Len(s) : f[i] = f[i - 1] + s[i]
  BY <1>1, <1>5
<1> DEFINE S == {i \in Nat : f[i] \in Int}
<1>7. 0 .. Len(s) \subseteq S
  <2>1. 0 \in S
    BY <1>6
  <2>2. ASSUME NEW i \in 0 .. Len(s), i > 0, i - 1 \in S PROVE i \in S
    BY <1>1, <1>6, <2>2
  <2> HIDE DEF S
  <2> QED BY <1>1, <2>1, <2>2, Upward
<1>8. f = [i \in 0 .. Len(s) |-> f[i]]
  BY <1>5
<1>9. f \in [0 .. Len(s) -> Int]
  BY <1>7, <1>8
<1> QED BY <1>6, <1>9 DEF f

LEMMA SumType ==
    ASSUME NEW s \in Seq(Int)
    PROVE  Sum(s) \in Int
<1>1. Sums(s) \in [0 .. Len(s) -> Int] /\ Len(s) \in 0 .. Len(s)
  BY SumsType
<1> QED BY <1>1 DEF Sum

-----------------------------------------------------------------------------
(* The differences between a value x and the first values of a list.       *)

SquareOf(s) == [i \in DOMAIN s |-> s[i] * s[i]]

Off(s, x, i) == i * x - Sums(s)[i]

OffSquares(s, x, i) == (i * (x * x) - 2 * (x * Sums(s)[i])) + Sums(SquareOf(s))[i]

LEMMA SquareOfType ==
    ASSUME NEW s \in Seq(Int)
    PROVE  /\ SquareOf(s) \in Seq(Int) /\ Len(SquareOf(s)) = Len(s)
           /\ \A i \in 1 .. Len(s) : SquareOf(s)[i] = s[i] * s[i]
<1>1. Len(s) \in Nat /\ DOMAIN s = 1 .. Len(s) /\ \A i \in 1 .. Len(s) : s[i] \in Int
  OBVIOUS
<1>2. SquareOf(s) = [i \in 1 .. Len(s) |-> s[i] * s[i]]
  BY <1>1 DEF SquareOf
<1>3. SquareOf(s) \in [1 .. Len(s) -> Int]
  BY <1>1, <1>2
<1>4. SquareOf(s) \in Seq(Int)
  BY <1>1, <1>3, SeqDef
<1> QED BY <1>1, <1>2, <1>3, <1>4

LEMMA OffStep ==
    ASSUME NEW s \in Seq(Int), NEW x \in Int
    PROVE  /\ \A i \in 0 .. Len(s) : Off(s, x, i) \in Int /\ OffSquares(s, x, i) \in Int
           /\ Off(s, x, 0) = 0 /\ OffSquares(s, x, 0) = 0
           /\ \A i \in 1 .. Len(s) :
                /\ Off(s, x, i) = Off(s, x, i - 1) + (x - s[i])
                /\ OffSquares(s, x, i) = OffSquares(s, x, i - 1) + (x - s[i]) * (x - s[i])
<1> DEFINE S == Sums(s)
           q == SquareOf(s)
           Q == Sums(q)
<1>1. q \in Seq(Int) /\ Len(q) = Len(s) /\ \A i \in 1 .. Len(s) : q[i] = s[i] * s[i]
  BY SquareOfType
<1>2. Len(s) \in Nat /\ \A i \in 1 .. Len(s) : s[i] \in Int
  OBVIOUS
<1>3. /\ S \in [0 .. Len(s) -> Int] /\ S[0] = 0
      /\ \A i \in 1 .. Len(s) : S[i] = S[i - 1] + s[i]
  BY SumsType
<1> HIDE DEF q
<1>4. /\ Q \in [0 .. Len(s) -> Int] /\ Q[0] = 0
      /\ \A i \in 1 .. Len(s) : Q[i] = Q[i - 1] + s[i] * s[i]
  BY <1>1, SumsType
<1> HIDE DEF S, Q
<1>5. ASSUME NEW i \in 0 .. Len(s) PROVE Off(s, x, i) \in Int /\ OffSquares(s, x, i) \in Int
  <2>1. i \in Int /\ S[i] \in Int /\ Q[i] \in Int
    <3>1. S[i] \in Int
      BY <1>3
    <3>2. Q[i] \in Int
      BY <1>4
    <3> QED BY <1>2, <3>1, <3>2
  <2> DEFINE c == S[i]
             e == Q[i]
  <2>2. Off(s, x, i) = i * x - c
    BY DEF Off, S
  <2>5. OffSquares(s, x, i) = (i * (x * x) - 2 * (x * c)) + e
    BY DEF OffSquares, S, Q, q
  <2>4. c \in Int /\ e \in Int
    BY <2>1
  <2> HIDE DEF c, e
  <2>3. i * x - c \in Int /\ (i * (x * x) - 2 * (x * c)) + e \in Int
    BY <2>1, <2>4
  <2> QED BY <2>2, <2>3, <2>5
<1>6. Off(s, x, 0) = 0 /\ OffSquares(s, x, 0) = 0
  <2> DEFINE c == S[0]
             e == Q[0]
  <2>1. /\ Off(s, x, 0) = 0 * x - c
        /\ OffSquares(s, x, 0) = (0 * (x * x) - 2 * (x * c)) + e
    BY DEF Off, OffSquares, S, Q, q
  <2>2. c = 0 /\ e = 0
    BY <1>3, <1>4
  <2> HIDE DEF c, e
  <2>3. 0 * x - 0 = 0 /\ (0 * (x * x) - 2 * (x * 0)) + 0 = 0
    OBVIOUS
  <2> QED BY <2>1, <2>2, <2>3
<1>7. ASSUME NEW i \in 1 .. Len(s)
      PROVE  /\ Off(s, x, i) = Off(s, x, i - 1) + (x - s[i])
             /\ OffSquares(s, x, i) = OffSquares(s, x, i - 1) + (x - s[i]) * (x - s[i])
  <2>1. /\ i \in Int /\ i - 1 \in 0 .. Len(s) /\ s[i] \in Int /\ S[i - 1] \in Int /\ Q[i - 1] \in Int
        /\ S[i] = S[i - 1] + s[i] /\ Q[i] = Q[i - 1] + s[i] * s[i]
    BY <1>2, <1>3, <1>4
  <2> DEFINE c == S[i - 1]
             d == Q[i - 1]
             v == s[i]
             c1 == S[i]
             d1 == Q[i]
  <2>2. /\ Off(s, x, i) = i * x - c1 /\ Off(s, x, i - 1) = (i - 1) * x - c
        /\ OffSquares(s, x, i) = (i * (x * x) - 2 * (x * c1)) + d1
        /\ OffSquares(s, x, i - 1) = ((i - 1) * (x * x) - 2 * (x * c)) + d
    BY DEF Off, OffSquares, S, Q, q
  <2>3. c \in Int /\ d \in Int /\ v \in Int /\ i \in Int /\ c1 = c + v /\ d1 = d + v * v
    BY <2>1
  <2> HIDE DEF c, d, c1, d1
  <2>4. /\ Off(s, x, i) = i * x - (c + v)
        /\ OffSquares(s, x, i) = (i * (x * x) - 2 * (x * (c + v))) + (d + v * v)
    BY <2>2, <2>3
  <2> SUFFICES /\ Off(s, x, i) = Off(s, x, i - 1) + (x - v)
               /\ OffSquares(s, x, i) = OffSquares(s, x, i - 1) + (x - v) * (x - v)
    OBVIOUS
  <2> HIDE DEF v
  <2>5. i * x - (c + v) = ((i - 1) * x - c) + (x - v)
    BY <2>3
  <2>6. (i * (x * x) - 2 * (x * (c + v))) + (d + v * v)
          = (((i - 1) * (x * x) - 2 * (x * c)) + d) + (x - v) * (x - v)
    BY <2>3
  <2> QED BY <2>2, <2>4, <2>5, <2>6
<1> QED BY <1>5, <1>6, <1>7

\* Cauchy and Schwarz, one value more.
LEMMA CauchyStep ==
    ASSUME NEW d \in Int, NEW q \in Int, NEW v \in Int, NEW m \in Nat,
           q >= 0, d * d <= m * q
    PROVE  (d + v) * (d + v) <= (m + 1) * (q + v * v)
OBVIOUS

\* The differences to the first value: it takes no part in them itself.
LEMMA Gathered ==
    ASSUME NEW s \in Seq(Int), Len(s) >= 1
    PROVE  LET d == Off(s, s[1], Len(s))
               q == OffSquares(s, s[1], Len(s)) IN
           d \in Int /\ q \in Int /\ q >= 0 /\ d * d <= (Len(s) - 1) * q
<1> DEFINE x == s[1]
           n == Len(s)
           d(i) == Off(s, x, i)
           q(i) == OffSquares(s, x, i)
           S == {i \in Nat : q(i) >= 0 /\ d(i) * d(i) <= (i - 1) * q(i)}
<1>1. n \in Nat /\ n >= 1 /\ x \in Int /\ \A i \in 1 .. n : s[i] \in Int
  OBVIOUS
<1>2. /\ \A i \in 0 .. n : d(i) \in Int /\ q(i) \in Int
      /\ d(0) = 0 /\ q(0) = 0
      /\ \A i \in 1 .. n : /\ d(i) = d(i - 1) + (x - s[i])
                           /\ q(i) = q(i - 1) + (x - s[i]) * (x - s[i])
  BY <1>1, OffStep
<1>a. 1 .. n \subseteq 0 .. n /\ 1 \in 1 .. n /\ s[1] = x
  BY <1>1
<1> HIDE DEF x, n, d, q
<1>3. 1 \in S
  <2>1. d(1) = 0 + (x - x) /\ q(1) = 0 + (x - x) * (x - x)
    BY <1>2, <1>a
  <2>2. d(1) = 0 /\ q(1) = 0
    BY <1>1, <2>1
  <2> QED BY <2>2
<1>4. ASSUME NEW i \in 1 .. n, i > 1, i - 1 \in S
      PROVE  i \in S
  <2> DEFINE v == x - s[i]
             m == (i - 1) - 1
             d0 == d(i - 1)
             q0 == q(i - 1)
  <2>1. v \in Int /\ m \in Nat /\ d0 \in Int /\ q0 \in Int /\ m + 1 = i - 1 /\ i \in Nat
    BY <1>1, <1>2, <1>4
  <2>2. q0 >= 0 /\ d0 * d0 <= m * q0
    BY <1>4
  <2>3. d(i) = d0 + v /\ q(i) = q0 + v * v
    BY <1>2
  <2> HIDE DEF v, m, d0, q0
  <2>4. (d0 + v) * (d0 + v) <= (m + 1) * (q0 + v * v)
    BY <2>1, <2>2, CauchyStep
  <2>5. v * v >= 0 /\ v * v \in Int
    BY <2>1
  <2>6. q0 + v * v >= 0
    BY <2>1, <2>2, <2>5
  <2>7. q(i) >= 0 /\ d(i) * d(i) <= (i - 1) * q(i)
    BY <2>1, <2>3, <2>4, <2>6
  <2> QED BY <2>1, <2>7
<1> HIDE DEF S
<1>5. 1 .. n \subseteq S
  BY <1>1, <1>3, <1>4, Upward
<1>6. n \in S /\ n \in 0 .. n
  BY <1>1, <1>5
<1>7. d(n) \in Int /\ q(n) \in Int /\ q(n) >= 0 /\ d(n) * d(n) <= (n - 1) * q(n)
  BY <1>2, <1>6 DEF S
<1> QED BY <1>7 DEF d, q, n, x

\* The spread does not depend on what the values are compared with.
LEMMA SpreadOff ==
    ASSUME NEW s \in Seq(Int), NEW x \in Int
    PROVE  LET d == Off(s, x, Len(s))
               q == OffSquares(s, x, Len(s)) IN
           /\ d = Len(s) * x - Sum(s)
           /\ Spread(s) = Len(s) * q - d * d
<1> DEFINE n == Len(s)
           S == Sum(s)
           Q == Squares(s)
<1>1. n \in Nat /\ S \in Int
  BY SumType
<1>2. Q = Sums(SquareOf(s))[n] /\ Q \in Int
  <2>1. SquareOf(s) \in Seq(Int) /\ Len(SquareOf(s)) = Len(s)
    BY SquareOfType
  <2>2. Sums(SquareOf(s)) \in [0 .. Len(s) -> Int]
    BY <2>1, SumsType
  <2>3. Q = Sums(SquareOf(s))[n]
    BY <2>1 DEF Squares, Sum, SquareOf
  <2> QED BY <1>1, <2>2, <2>3
<1>3. /\ Off(s, x, n) = n * x - S
      /\ OffSquares(s, x, n) = (n * (x * x) - 2 * (x * S)) + Q
      /\ Spread(s) = n * Q - S * S
  BY <1>2 DEF Off, OffSquares, Spread, Sum
<1> HIDE DEF n, S, Q
<1>4. n * ((n * (x * x) - 2 * (x * S)) + Q) - (n * x - S) * (n * x - S) = n * Q - S * S
  BY <1>1, <1>2
<1> QED BY <1>3, <1>4 DEF n, S

\* A value in its own baseline of n is at most the root of n - 1 deviations away;
\* with the rounding, z^2 comes out at (1 + 1 / Precision) * (n - 1) or less, so
\* that a threshold a / b it passes is below that (detectors.py 59-67).
LEMMA InItsBaseline ==
    ASSUME NEW s \in Seq(Int), Len(s) >= 1, NEW a \in Nat, NEW b \in Nat,
           NEW e \in Errors, Above(s[1], s, a, b, e)
    PROVE  Precision * (a * a) < (Precision + 1) * ((b * b) * (Len(s) - 1))
<1> DEFINE n == Len(s)
           d == Off(s, s[1], n)
           q == OffSquares(s, s[1], n)
           p == Spread(s)
<1>1. n \in Nat /\ n >= 1 /\ s[1] \in Int
  OBVIOUS
<1>2. d \in Int /\ q \in Int /\ q >= 0 /\ d * d <= (n - 1) * q
  BY Gathered
<1>3. d = n * s[1] - Sum(s) /\ p = n * q - d * d
  BY <1>1, SpreadOff
<1>4. (Precision + e) * (b * b * d * d) > Precision * (a * a * p)
  BY <1>3 DEF Above
<1> HIDE DEF n, d, q, p
<1>5. p \in Int /\ p >= q
  BY <1>1, <1>2, <1>3
<1>6. (n - 1) * q <= (n - 1) * p
  BY <1>1, <1>2, <1>5
<1>7. d * d <= (n - 1) * p
  BY <1>1, <1>2, <1>5, <1>6
<1> DEFINE m == n - 1
           f == d * d
           bb == b * b
           aa == a * a
           P == Precision
<1>8. m \in Nat /\ f \in Int /\ bb \in Nat /\ aa \in Nat /\ f <= m * p /\ p >= 0 /\ f >= 0
  BY <1>1, <1>2, <1>5, <1>7
<1>a. P \in Nat /\ P >= 100 /\ e \in -1 .. 1
  BY PrecisionAssumption DEF Errors
<1>9. (P + e) * (bb * f) > P * (aa * p)
  <2>1. b * b * d * d = bb * f
    BY <1>2
  <2> QED BY <1>4, <2>1
<1> HIDE DEF m, f, bb, aa, P
<1>10. bb * f <= bb * (m * p) /\ bb * f >= 0
  BY <1>5, <1>8
<1>11. (P + e) * (bb * f) <= (P + 1) * (bb * (m * p))
  <2> DEFINE u == bb * f
             v == bb * (m * p)
  <2>1. u \in Int /\ v \in Int /\ 0 <= u /\ u <= v
    BY <1>5, <1>8, <1>10
  <2> HIDE DEF u, v
  <2>2. (P + e) * u <= (P + 1) * u
    BY <1>a, <2>1
  <2>3. (P + 1) * u <= (P + 1) * v
    BY <1>a, <2>1
  <2>4. (P + e) * u \in Int /\ (P + 1) * u \in Int /\ (P + 1) * v \in Int
    BY <1>a, <2>1
  <2>5. (P + e) * u <= (P + 1) * v
    BY <2>2, <2>3, <2>4
  <2> QED BY <2>5 DEF u, v
<1>12. (P + 1) * (bb * (m * p)) = ((P + 1) * (bb * m)) * p
  BY <1>5, <1>8, <1>a
<1>13. P * (aa * p) = (P * aa) * p
  BY <1>5, <1>8, <1>a
<1> DEFINE l == P * aa
           h == (P + 1) * (bb * m)
<1>14. l \in Int /\ h \in Int
  BY <1>8, <1>a
<1>15. l * p < h * p
  <2> DEFINE u == (P + e) * (bb * f)
  <2>1. u \in Int
    BY <1>8, <1>a
  <2> HIDE DEF u
  <2>2. u > P * (aa * p) /\ u <= (P + 1) * (bb * (m * p))
    BY <1>9, <1>11 DEF u
  <2>3. u > l * p /\ u <= h * p
    BY <1>12, <1>13, <2>2
  <2>4. l * p \in Int /\ h * p \in Int
    BY <1>5, <1>14
  <2> QED BY <2>1, <2>3, <2>4
<1> HIDE DEF l, h
<1>16. l < h
  BY <1>5, <1>8, <1>14, <1>15
<1> QED BY <1>16 DEF l, h, aa, bb, m, n, P

\* The sums of a list and of the list without its first value.
LEMMA SumsShift ==
    ASSUME NEW s \in Seq(Int), NEW r \in Seq(Int), Len(s) = Len(r) + 1,
           \A i \in 1 .. Len(r) : r[i] = s[i + 1]
    PROVE  Sum(s) = s[1] + Sum(r)
<1> DEFINE n == Len(s)
           x == s[1]
           f == Sums(s)
           g == Sums(r)
           S == {i \in Nat : f[i] = x + g[i - 1]}
<1>1. n \in Nat /\ n >= 1 /\ Len(r) = n - 1 /\ x \in Int
  OBVIOUS
<1>2. /\ f \in [0 .. n -> Int] /\ f[0] = 0
      /\ \A i \in 1 .. n : f[i] = f[i - 1] + s[i]
  BY SumsType
<1>3. /\ g \in [0 .. n - 1 -> Int] /\ g[0] = 0
      /\ \A i \in 1 .. n - 1 : g[i] = g[i - 1] + r[i]
  BY <1>1, SumsType
<1>4. Sum(s) = f[n] /\ Sum(r) = g[n - 1]
  BY <1>1 DEF Sum
<1>a. \A i \in 1 .. n : s[i] \in Int
  OBVIOUS
<1>b. \A i \in 2 .. n : r[i - 1] = s[i]
  BY <1>1
<1> HIDE DEF n, f, g
<1>5. 1 \in S
  <2>1. f[1] = f[0] + s[1]
    BY <1>1, <1>2
  <2> QED BY <1>1, <1>2, <1>3, <2>1
<1> HIDE DEF x
<1>6. ASSUME NEW i \in 1 .. n, i > 1, i - 1 \in S
      PROVE  i \in S
  <2>1. f[i] = f[i - 1] + s[i] /\ f[i - 1] = x + g[(i - 1) - 1]
    BY <1>2, <1>6
  <2>2. g[i - 1] = g[(i - 1) - 1] + s[i] /\ g[(i - 1) - 1] \in Int
    BY <1>1, <1>3, <1>6, <1>b
  <2>3. s[i] \in Int /\ i \in Nat
    BY <1>a, <1>1
  <2>4. f[i] = x + g[i - 1]
    BY <1>1, <2>1, <2>2, <2>3
  <2> QED BY <2>3, <2>4
<1> HIDE DEF S
<1>7. 1 .. n \subseteq S
  BY <1>1, <1>5, <1>6, Upward
<1>8. n \in S
  BY <1>1, <1>7
<1> QED BY <1>4, <1>8 DEF S, x

\* Without a value the others are nearer to each other, and it is as far from them.
LEMMA WithoutFirst ==
    ASSUME NEW s \in Seq(Int), NEW r \in Seq(Int), Len(s) = Len(r) + 1,
           \A i \in 1 .. Len(r) : r[i] = s[i + 1]
    PROVE  /\ Len(r) * s[1] - Sum(r) = Len(s) * s[1] - Sum(s)
           /\ Spread(r) \in Int /\ Spread(s) \in Int
           /\ (Len(s) * s[1] - Sum(s)) * (Len(s) * s[1] - Sum(s)) <= Len(s) * (Spread(s) - Spread(r))
<1> DEFINE n == Len(s)
           m == Len(r)
           x == s[1]
           S == Sum(r)
           Q == Squares(r)
           d == Off(s, x, n)
           q == OffSquares(s, x, n)
<1>1. n \in Nat /\ m \in Nat /\ n = m + 1 /\ x \in Int
  OBVIOUS
<1>2. Sum(s) = x + S
  BY SumsShift
<1>3. Squares(s) = x * x + Q
  <2> DEFINE ss == SquareOf(s)
             rr == SquareOf(r)
  <2>1. /\ ss \in Seq(Int) /\ Len(ss) = n /\ \A i \in 1 .. n : ss[i] = s[i] * s[i]
        /\ rr \in Seq(Int) /\ Len(rr) = m /\ \A i \in 1 .. m : rr[i] = r[i] * r[i]
    BY SquareOfType
  <2>2. Squares(s) = Sum(ss) /\ Q = Sum(rr)
    BY DEF Squares, SquareOf
  <2> HIDE DEF ss, rr
  <2>3. \A i \in 1 .. m : rr[i] = ss[i + 1]
    BY <1>1, <2>1
  <2>4. Sum(ss) = ss[1] + Sum(rr)
    BY <1>1, <2>1, <2>3, SumsShift
  <2> QED BY <1>1, <2>1, <2>2, <2>4
<1>4. S \in Int /\ Q \in Int
  <2>2. SquareOf(r) \in Seq(Int) /\ Q = Sum(SquareOf(r))
    BY SquareOfType DEF Squares, SquareOf
  <2> QED BY <2>2, SumType
<1>5. /\ Spread(r) = m * Q - S * S
      /\ Spread(s) = n * (x * x + Q) - (x + S) * (x + S)
  BY <1>2, <1>3 DEF Spread
<1>6. d \in Int /\ q \in Int /\ q >= 0 /\ d * d <= (n - 1) * q /\ d = n * x - (x + S)
  <2>1. d \in Int /\ q \in Int /\ q >= 0 /\ d * d <= (n - 1) * q
    <3>1. Len(s) >= 1
      BY <1>1
    <3> HIDE DEF n
    <3> QED BY <3>1, Gathered DEF n
  <2>2. d = n * x - Sum(s)
    BY <1>1, SpreadOff
  <2> QED BY <1>2, <2>1, <2>2
<1>7. q = (n * (x * x) - 2 * (x * (x + S))) + (x * x + Q)
  <2>1. Squares(s) = Sums(SquareOf(s))[n]
    BY SquareOfType DEF Squares, Sum, SquareOf
  <2> QED BY <1>2, <1>3, <2>1 DEF OffSquares, Sum
<1> HIDE DEF n, m, x, S, Q, d, q
<1>8. m * x - S = n * x - (x + S)
  BY <1>1, <1>4
<1>9. Spread(s) - Spread(r) = q
  <2>1. (n * (x * x + Q) - (x + S) * (x + S)) - (m * Q - S * S)
          = (n * (x * x) - 2 * (x * (x + S))) + (x * x + Q)
    BY <1>1, <1>4
  <2> QED BY <1>5, <1>7, <2>1
<1>10. Spread(r) \in Int /\ Spread(s) \in Int
  BY <1>1, <1>4, <1>5
<1>11. d * d <= n * (Spread(s) - Spread(r))
  <2>1. (n - 1) * q <= n * q
    BY <1>1, <1>6
  <2>2. (n - 1) * q \in Int /\ n * q \in Int /\ d * d \in Int
    BY <1>1, <1>6
  <2>3. d * d <= n * q
    BY <1>6, <2>1, <2>2
  <2> QED BY <1>9, <2>3
<1>12. d = n * x - Sum(s)
  BY <1>2, <1>6
<1> QED BY <1>2, <1>8, <1>10, <1>11, <1>12 DEF n, m, x, S

\* What is above the threshold by a rounding is above it by a margin once it is
\* left out of a baseline of n values.
LEMMA MarginKept ==
    ASSUME NEW P \in Nat, P >= 100, NEW n \in Nat, n >= 1, n <= 9 * P, NEW e \in -1 .. 1,
           NEW d \in Int, NEW A \in Int, NEW B \in Int,
           d * d <= n * (A - B), (P + e) * (1 * 1 * d * d) > P * (3 * 3 * A)
    PROVE  (P + 0) * (1 * 1 * d * d) > P * (3 * 3 * B)
<1> DEFINE D == d * d
           g == A - B
           u == P * D
           a == P * A
           b == P * B
<1>1. D \in Int /\ D >= 0 /\ g \in Int /\ D <= n * g /\ u \in Int /\ a \in Int /\ b \in Int
  OBVIOUS
<1>2. (P + e) * D > 9 * a
  <2>1. 1 * 1 * d * d = D /\ P * (3 * 3 * A) = 9 * a
    OBVIOUS
  <2> QED BY <2>1
<1>3. (P + e) * D <= u + D
  <2> HIDE DEF D
  <2>1. (P + e) * D = P * D + e * D /\ e * D <= D
    BY <1>1
  <2> QED BY <1>1, <2>1
<1>4. a - b = P * g
  OBVIOUS
<1>5. g >= 0
  <2> HIDE DEF D, g
  <2> QED BY <1>1
<1>6. n * g <= (9 * P) * g
  <2> HIDE DEF D, g
  <2> QED BY <1>1, <1>5
<1>7. (9 * P) * g = 9 * (a - b)
  BY <1>4
<1>8. 1 * 1 * d * d = D /\ (P + 0) * D = u /\ P * (3 * 3 * B) = 9 * b
  OBVIOUS
<1>9. (P + e) * D \in Int /\ n * g \in Int
  OBVIOUS
<1> HIDE DEF D, g, u, a, b
<1>10. D <= 9 * (a - b) /\ u + D > 9 * a
  <2> DEFINE v == (P + e) * D
             c == n * g
             h == (9 * P) * g
  <2>1. v \in Int /\ c \in Int /\ v > 9 * a /\ v <= u + D /\ D <= c /\ c <= h /\ h = 9 * (a - b)
    BY <1>1, <1>2, <1>3, <1>6, <1>7, <1>9
  <2> HIDE DEF v, c, h
  <2> QED BY <1>1, <2>1
<1>11. u > 9 * b
  BY <1>1, <1>10
<1> QED BY <1>8, <1>11

-----------------------------------------------------------------------------
(* The detector.                                                           *)

LEMMA EmptySpread ==
    ASSUME NEW s \in Seq(Int), Len(s) = 0
    PROVE  Spread(s) = 0
<1>1. Sum(s) = 0
  BY SumsType DEF Sum
<1>2. Squares(s) \in Int
  <2>1. SquareOf(s) \in Seq(Int) /\ Squares(s) = Sum(SquareOf(s))
    BY SquareOfType DEF Squares, SquareOf
  <2> QED BY <2>1, SumType
<1> QED BY <1>1, <1>2 DEF Spread

\* What is flagged is the first of its baseline.
LEMMA FlaggedOK ==
    ASSUME NEW w \in Seq(Int), NEW e \in Errors, Flagged(w, e)
    PROVE  /\ Baseline(w) \in Seq(Int) /\ Len(Baseline(w)) = Len(w) - 1 /\ Len(w) >= 2
           /\ \A i \in 1 .. Len(w) - 1 : Baseline(w)[i] = w[i]
           /\ Head(w) = Baseline(w)[1]
<1>1. Len(w) \in Nat /\ Spread(Baseline(w)) # 0
  BY DEF Flagged
<1>2. CASE Len(w) >= 2
  <2>1. /\ Baseline(w) \in Seq(Int) /\ Len(Baseline(w)) = Len(w) - 1
        /\ \A i \in 1 .. Len(w) - 1 : Baseline(w)[i] = w[i]
    BY <1>1, <1>2 DEF Baseline
  <2>2. 1 \in 1 .. Len(w) - 1 /\ Head(w) = w[1]
    BY <1>1, <1>2
  <2> QED BY <1>2, <2>1, <2>2
<1>3. CASE Len(w) < 2
  <2>1. Baseline(w) \in Seq(Int) /\ Len(Baseline(w)) = 0
    BY <1>1, <1>3 DEF Baseline
  <2> QED BY <1>1, <2>1, EmptySpread
<1> QED BY <1>1, <1>2, <1>3

LEMMA SamplesNeeded ==
    ASSUME NEW w \in Seq(Int), NEW e \in Errors, Flagged(w, e),
           NEW a \in Nat, NEW b \in Nat, ZAbove(w, a, b, e)
    PROVE  Precision * (a * a) < (Precision + 1) * ((b * b) * (Len(w) - 2))
<1>1. /\ Baseline(w) \in Seq(Int) /\ Len(Baseline(w)) = Len(w) - 1 /\ Len(w) >= 2
      /\ Head(w) = Baseline(w)[1] /\ Len(w) \in Nat
  BY FlaggedOK
<1> DEFINE s == Baseline(w)
<1>2. Above(s[1], s, a, b, e)
  BY <1>1 DEF ZAbove
<1>3. s \in Seq(Int) /\ Len(s) = Len(w) - 1 /\ Len(s) >= 1
  BY <1>1
<1> HIDE DEF s
<1>4. Precision * (a * a) < (Precision + 1) * ((b * b) * (Len(s) - 1))
  BY <1>2, <1>3, InItsBaseline
<1>5. Len(s) - 1 = Len(w) - 2
  BY <1>1, <1>3
<1> QED BY <1>4, <1>5

\* The values recorded for a metric are integers, in any order.
MetricsOK == metrics \in Seq(Int)

LEMMA WindowType ==
    ASSUME MetricsOK
    PROVE  Window \in Seq(Int) /\ Len(Window) <= WindowLimit
<1> DEFINE m == IF Len(metrics) < WindowLimit THEN Len(metrics) ELSE WindowLimit
<1>1. metrics \in Seq(Int) /\ Len(metrics) \in Nat /\ WindowLimit \in Nat
  BY SizesAssumption DEF MetricsOK
<1>2. m \in 0 .. Len(metrics) /\ m <= WindowLimit
  BY <1>1
<1>3. Window = SubSeq(metrics, 1, m)
  BY DEF Window
<1> HIDE DEF m
<1>4. \A i \in 1 .. m : metrics[i] \in Int
  BY <1>1, <1>2
<1>5. SubSeq(metrics, 1, m) \in Seq(Int) /\ Len(SubSeq(metrics, 1, m)) = m
  BY <1>1, <1>2, <1>4
<1> QED BY <1>2, <1>3, <1>5

LEMMA MetricsType == Spec => []MetricsOK
<1>1. Init => MetricsOK
  BY DEF Init, MetricsOK
<1>2. MetricsOK /\ [Next]_metrics => MetricsOK'
  <2> SUFFICES ASSUME MetricsOK, [Next]_metrics PROVE MetricsOK'
    OBVIOUS
  <2>1. CASE Next
    <3>1. PICK v \in Unusual \cup {Usual} : Record(v)
      BY <2>1 DEF Next
    <3>2. v \in Int
      BY ValuesAssumption
    <3>3. <<v>> \in Seq(Int)
      BY <3>2
    <3>4. <<v>> \o metrics \in Seq(Int)
      BY <3>3 DEF MetricsOK
    <3>5. metrics' = <<v>> \o metrics
      BY <3>1 DEF Record
    <3> QED BY <3>4, <3>5 DEF MetricsOK
  <2>2. CASE UNCHANGED metrics
    BY <2>2 DEF MetricsOK
  <2> QED BY <2>1, <2>2
<1> QED BY <1>1, <1>2, PTL DEF Spec

\* Whatever the values and however they round, the detector (detectors.py 59-67)
\* reports no anomaly from fewer than 11 samples, though it looks from 10 on, and
\* none of medium, high or critical severity (_compute_severity) from fewer than
\* 15, 18 and 27.
THEOREM SeveritiesNeedSamples == Spec => []SeverityNeedsSamples
<1>1. MetricsOK => SeverityNeedsSamples
  <2> SUFFICES ASSUME MetricsOK, NEW e \in Errors, Flagged(Window, e)
               PROVE  Len(Window) >= SamplesFor(Severity(Window, e))
    BY DEF SeverityNeedsSamples
  <2> DEFINE w == Window
             n == Len(w)
             P == Precision
  <2>1. w \in Seq(Int) /\ n \in Nat /\ Flagged(w, e)
    BY WindowType
  <2> HIDE DEF w
  <2>2. ZAbove(w, 3, 1, e)
    BY <2>1 DEF Flagged
  <2>3. ASSUME NEW a \in Nat, NEW b \in Nat, ZAbove(w, a, b, e)
        PROVE  P * (a * a) < (P + 1) * ((b * b) * (n - 2))
    BY <2>1, <2>3, SamplesNeeded
  <2>a. P \in Nat /\ P >= 100
    BY PrecisionAssumption
  <2> HIDE DEF n, P
  <2>4. n >= 11
    <3>1. P * (3 * 3) < (P + 1) * ((1 * 1) * (n - 2))
      BY <2>2, <2>3
    <3>2. n - 2 <= 8 => (P + 1) * (n - 2) <= (P + 1) * 8
      BY <2>1, <2>a
    <3> QED BY <2>1, <2>a, <3>1, <3>2
  <2>5. ZAbove(w, 7, 2, e) => n >= 15
    <3> SUFFICES ASSUME ZAbove(w, 7, 2, e) PROVE n >= 15
      OBVIOUS
    <3>1. P * (7 * 7) < (P + 1) * ((2 * 2) * (n - 2))
      BY <2>3
    <3>2. n - 2 <= 12 => (P + 1) * (4 * (n - 2)) <= (P + 1) * 48
      BY <2>1, <2>a
    <3> QED BY <2>1, <2>a, <3>1, <3>2
  <2>6. ZAbove(w, 4, 1, e) => n >= 18
    <3> SUFFICES ASSUME ZAbove(w, 4, 1, e) PROVE n >= 18
      OBVIOUS
    <3>1. P * (4 * 4) < (P + 1) * ((1 * 1) * (n - 2))
      BY <2>3
    <3>2. n - 2 <= 15 => (P + 1) * (n - 2) <= (P + 1) * 15
      BY <2>1, <2>a
    <3> QED BY <2>1, <2>a, <3>1, <3>2
  <2>7. ZAbove(w, 5, 1, e) => n >= 27
    <3> SUFFICES ASSUME ZAbove(w, 5, 1, e) PROVE n >= 27
      OBVIOUS
    <3>1. P * (5 * 5) < (P + 1) * ((1 * 1) * (n - 2))
      BY <2>3
    <3>2. n - 2 <= 24 => (P + 1) * (n - 2) <= (P + 1) * 24
      BY <2>1, <2>a
    <3> QED BY <2>1, <2>a, <3>1, <3>2
  <2>8. \/ Severity(w, e) = "critical" /\ ZAbove(w, 5, 1, e)
        \/ Severity(w, e) = "high" /\ ZAbove(w, 4, 1, e)
        \/ Severity(w, e) = "medium" /\ ZAbove(w, 7, 2, e)
        \/ Severity(w, e) = "low"
    BY DEF Severity
  <2>9. n >= SamplesFor(Severity(w, e))
    BY <2>1, <2>4, <2>5, <2>6, <2>7, <2>8 DEF SamplesFor
  <2> QED BY <2>9 DEF n, w
<1> QED BY <1>1, MetricsType, PTL

\* The detector compares the newest value with a baseline that contains it
\* (detectors.py 59-67), and flags nothing, however it rounds, that is not truly
\* as far from the baseline without it.
THEOREM OnlyMasks == Spec => []MaskingOnly
<1>1. MetricsOK => MaskingOnly
  <2> SUFFICES ASSUME MetricsOK, NEW e \in Errors, Flagged(Window, e)
               PROVE  Above(Head(Window), Between(Window), 3, 1, 0)
    BY DEF MaskingOnly
  <2> DEFINE w == Window
             s == Baseline(w)
             r == Between(w)
             P == Precision
  <2>1. w \in Seq(Int) /\ Flagged(w, e) /\ Len(w) <= WindowLimit
    BY WindowType
  <2> HIDE DEF w
  <2>2. /\ s \in Seq(Int) /\ Len(s) = Len(w) - 1 /\ Len(w) >= 2 /\ Len(w) \in Nat
        /\ \A i \in 1 .. Len(w) - 1 : s[i] = w[i]
        /\ Head(w) = s[1]
    BY <2>1, FlaggedOK
  <2>3. /\ r \in Seq(Int) /\ Len(r) = Len(w) - 2
        /\ \A i \in 1 .. Len(w) - 2 : r[i] = w[i + 1]
    BY <2>1, <2>2 DEF Between
  <2>4. Above(s[1], s, 3, 1, e)
    BY <2>1, <2>2 DEF Flagged, ZAbove
  <2>a. P \in Nat /\ P >= 100 /\ e \in -1 .. 1 /\ WindowLimit <= 9 * P /\ WindowLimit \in Nat
    BY PrecisionAssumption, SizesAssumption DEF Errors
  <2> HIDE DEF s, r, P
  <2>5. Len(s) = Len(r) + 1 /\ \A i \in 1 .. Len(r) : r[i] = s[i + 1]
    BY <2>2, <2>3
  <2> DEFINE d == Len(s) * s[1] - Sum(s)
             n == Len(s)
             A == Spread(s)
             B == Spread(r)
  <2>6. /\ Len(r) * s[1] - Sum(r) = d
        /\ A \in Int /\ B \in Int /\ d * d <= n * (A - B)
    BY <2>2, <2>3, <2>5, WithoutFirst
  <2>7. d \in Int /\ n \in Nat /\ n >= 1 /\ n <= 9 * P
    BY <2>1, <2>2, <2>a, SumType
  <2>8. (P + e) * (1 * 1 * d * d) > P * (3 * 3 * A)
    BY <2>4 DEF Above, P
  <2> HIDE DEF d, n, A, B
  <2>9. (P + 0) * (1 * 1 * d * d) > P * (3 * 3 * B)
    BY <2>6, <2>7, <2>8, <2>a, MarginKept
  <2>10. Above(s[1], r, 3, 1, 0)
    BY <2>6, <2>9 DEF Above, B, P
  <2> QED BY <2>2, <2>10 DEF r, w
<1> QED BY <1>1, MetricsType, PTL
===============================================================================
