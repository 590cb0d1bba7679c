---------------------------- MODULE CircuitsProofs -----------------------------
(****************************************************************************)
(* Proofs about the gates of the circuits (U32Gates), for any number of      *)
(* limbs, limb width, chunk width and number of copies; about the proofs of  *)
(* finality that the circuits compose (BlockFinality), for any history of    *)
(* authority sets and any width of a public input; and about arithmetic      *)
(* modulo the prime of another field on limbs (BigUint, NonNative), for any  *)
(* field order, word width and length of a chain.                            *)
(****************************************************************************)
EXTENDS NonNative, BlockFinality, FiniteSetTheorems, NaturalsInduction, WellFoundedInduction, TLAPS

LEMMA LeastNatural ==
    ASSUME NEW S, S \subseteq Nat, S # {}
    PROVE  \E n \in S : \A m \in S : n <= m
<1> DEFINE R == OpToRel(<, Nat)
<1>1. R = {p \in Nat \X Nat : p[1] < p[2]}
  BY DEF OpToRel
<1>2. IsWellFoundedOn(R, Nat)
  BY NatLessThanWellFounded
<1> HIDE DEF R
<1>3. PICK n \in S : \A m \in S : <<m, n>> \notin R
  BY <1>2, WFMin
<1>4. \A a, b \in Nat : a < b => <<a, b>> \in R
  BY <1>1
<1>5. ASSUME NEW m \in S PROVE n <= m
  <2>1. m \in Nat /\ n \in Nat /\ <<m, n>> \notin R
    BY <1>3
  <2>2. ~(m < n)
    BY <1>4, <2>1
  <2> QED
    BY <2>1, <2>2
<1> QED
  BY <1>5

\* Induction up to a bound, with the set of the indices that have the property.
LEMMA UpTo ==
    ASSUME NEW n \in Nat, NEW A, 0 \in A, \A i \in 1 .. n : i - 1 \in A => i \in A
    PROVE  \A i \in 0 .. n : i \in A
<1> DEFINE M == {i \in 0 .. n : i \notin A}
<1>1. SUFFICES ASSUME M # {}
               PROVE  FALSE
  OBVIOUS
<1>2. M \subseteq Nat
  OBVIOUS
<1>3. PICK i \in M : \A j \in M : i <= j
  BY <1>1, <1>2, LeastNatural
<1>4. i \in 1 .. n /\ i - 1 \in 0 .. n
  BY <1>3
<1>5. i - 1 \in A
  BY <1>3, <1>4
<1> QED
  BY <1>3, <1>4, <1>5

\* f is given by its value x at 0 and a step for each index up to n.
Iterates(f, n, x, step) == f[0] = x /\ \A i \in 1 .. n : f[i] = step[i][f[i - 1]]

LEMMA RecursionIn ==
    ASSUME NEW n \in Nat, NEW S, NEW x \in S, NEW step \in [1 .. n -> [S -> S]]
    PROVE  \E f \in [0 .. n -> S] : Iterates(f, n, x, step)
<1> DEFINE Good(f, k) == f[0] = x /\ \A i \in 1 .. k : f[i] = step[i][f[i - 1]]
           A == {k \in 0 .. n : \E f \in [0 .. n -> S] : Good(f, k)}
<1>1. 0 \in A
  <2> DEFINE f == [i \in 0 .. n |-> x]
  <2>1. f \in [0 .. n -> S] /\ f[0] = x
    OBVIOUS
  <2>2. \A i \in 1 .. 0 : FALSE
    OBVIOUS
  <2> HIDE DEF f
  <2> QED
    BY <2>1, <2>2
<1>2. ASSUME NEW k \in 1 .. n, k - 1 \in A
      PROVE  k \in A
  <2>1. PICK f \in [0 .. n -> S] : Good(f, k - 1)
    BY <1>2
  <2> DEFINE y == step[k][f[k - 1]]
             g == [i \in 0 .. n |-> IF i = k THEN y ELSE f[i]]
  <2>2. y \in S
    <3>1. step[k] \in [S -> S] /\ k - 1 \in 0 .. n
      OBVIOUS
    <3> QED
      BY <3>1
  <2> HIDE DEF y
  <2>3. g \in [0 .. n -> S] /\ g[k] = y /\ \A i \in 0 .. k - 1 : g[i] = f[i]
    BY <2>2
  <2> HIDE DEF g
  <2>4. g[0] = x
    BY <2>1, <2>3
  <2>5. ASSUME NEW i \in 1 .. k
        PROVE  g[i] = step[i][g[i - 1]]
    <3>1. CASE i = k
      BY <3>1, <2>3 DEF y
    <3>2. CASE i # k
      <4>1. i \in 1 .. k - 1 /\ i \in 0 .. k - 1 /\ i - 1 \in 0 .. k - 1
        BY <3>2
      <4>2. f[i] = step[i][f[i - 1]]
        BY <2>1, <4>1
      <4> QED
        BY <2>3, <4>1, <4>2
    <3> QED
      BY <3>1, <3>2
  <2> QED
    BY <2>3, <2>4, <2>5, SMTT(30)
<1> HIDE DEF A
<1>3. n \in A
  <2>1. \A i \in 0 .. n : i \in A
    BY <1>1, <1>2, UpTo
  <2> QED
    BY <2>1
<1> QED
  BY <1>3 DEF A, Iterates

LEMMA Recursion ==
    ASSUME NEW n \in Nat, NEW x \in Int, NEW step \in [1 .. n -> [Int -> Int]]
    PROVE  \E f \in [0 .. n -> Int] : Iterates(f, n, x, step)
<1> DEFINE Exists(S) == \A y \in S, g \in [1 .. n -> [S -> S]] :
                          \E f \in [0 .. n -> S] : Iterates(f, n, y, g)
<1>1. \A S : Exists(S)
  BY RecursionIn
<1> HIDE DEF Exists
<1>2. Exists(Int)
  BY <1>1, Zenon
<1> QED
  BY <1>2 DEF Exists

(***************************************************************************)
(* Powers.                                                                 *)
(***************************************************************************)
LEMMA PowFunction ==
    ASSUME NEW b \in Int, NEW n \in Nat
    PROVE  \E f \in [0 .. n -> Int] :
             f[0] = 1 /\ (\A i \in 1 .. n : f[i] = b * f[i - 1]) /\ Pow(b, n) = f[n]
<1> DEFINE Body(g) == [i \in 0 .. n |-> IF i = 0 THEN 1 ELSE b * g[i - 1]]
           step == [i \in 1 .. n |-> [y \in Int |-> b * y]]
           power == CHOOSE g : g = Body(g)
<1>1. step \in [1 .. n -> [Int -> Int]] /\ 1 \in Int
  OBVIOUS
<1>2. \A i \in 1 .. n, y \in Int : step[i][y] = b * y
  OBVIOUS
<1> HIDE DEF step
<1>3. PICK f \in [0 .. n -> Int] : Iterates(f, n, 1, step)
  BY <1>1, Recursion, Zenon
<1>4. f[0] = 1 /\ \A i \in 1 .. n : f[i] = b * f[i - 1]
  <2>1. \A i \in 1 .. n : i - 1 \in 0 .. n
    OBVIOUS
  <2> QED
    BY <1>2, <1>3, <2>1 DEF Iterates
<1>5. f = Body(f)
  BY <1>4
<1>6. power = Body(power)
  BY <1>5, Zenon
<1>7. Pow(b, n) = power[n]
  BY DEF Pow
<1> HIDE DEF power
<1> DEFINE A == {i \in 0 .. n : power[i] = f[i]}
<1>8. 0 \in A
  BY <1>4, <1>6
<1>9. ASSUME NEW i \in 1 .. n, i - 1 \in A
      PROVE  i \in A
  <2>1. i \in 0 .. n /\ i # 0
    OBVIOUS
  <2>2. power[i] = b * power[i - 1]
    BY <1>6, <2>1
  <2> QED
    BY <1>4, <1>9, <2>1, <2>2
<1> HIDE DEF A
<1>10. n \in A
  <2>1. \A i \in 0 .. n : i \in A
    BY <1>8, <1>9, UpTo
  <2> QED
    BY <2>1
<1> QED
  BY <1>4, <1>7, <1>10 DEF A

LEMMA PowInt ==
    ASSUME NEW b \in Int, NEW n \in Nat
    PROVE  Pow(b, n) \in Int
<1>1. n \in 0 .. n
  OBVIOUS
<1>2. PICK f \in [0 .. n -> Int] : Pow(b, n) = f[n]
  BY PowFunction
<1> QED
  BY <1>1, <1>2

LEMMA PowZero ==
    ASSUME NEW b \in Int
    PROVE  Pow(b, 0) = 1
BY PowFunction

LEMMA PowStep ==
    ASSUME NEW b \in Int, NEW n \in Nat
    PROVE  Pow(b, n + 1) = b * Pow(b, n)
<1>1. PICK f \in [0 .. n -> Int] :
        f[0] = 1 /\ (\A i \in 1 .. n : f[i] = b * f[i - 1]) /\ Pow(b, n) = f[n]
  BY PowFunction
<1>2. n + 1 \in Nat
  OBVIOUS
<1>3. PICK g \in [0 .. n + 1 -> Int] :
        /\ g[0] = 1 /\ (\A i \in 1 .. n + 1 : g[i] = b * g[i - 1])
        /\ Pow(b, n + 1) = g[n + 1]
  BY PowFunction, <1>2
<1> DEFINE A == {i \in 0 .. n : g[i] = f[i]}
<1>4. 0 \in A
  BY <1>1, <1>3
<1>5. ASSUME NEW i \in 1 .. n, i - 1 \in A
      PROVE  i \in A
  <2>1. i \in 0 .. n /\ i \in 1 .. n + 1
    OBVIOUS
  <2>2. g[i] = b * g[i - 1] /\ f[i] = b * f[i - 1]
    BY <1>1, <1>3, <2>1
  <2> QED
    BY <1>5, <2>1, <2>2
<1> HIDE DEF A
<1>6. n \in A
  <2>1. \A i \in 0 .. n : i \in A
    BY <1>4, <1>5, UpTo
  <2> QED
    BY <2>1
<1>7. g[n + 1] = b * g[n]
  BY <1>3
<1> QED
  BY <1>1, <1>3, <1>6, <1>7 DEF A

LEMMA PowPositive ==
    ASSUME NEW b \in Nat \ {0}, NEW n \in Nat
    PROVE  Pow(b, n) \in Nat \ {0}
<1> DEFINE A == {i \in 0 .. n : Pow(b, i) \in Nat \ {0}}
<1>1. 0 \in A
  BY PowZero
<1>2. ASSUME NEW i \in 1 .. n, i - 1 \in A
      PROVE  i \in A
  <2>1. Pow(b, (i - 1) + 1) = b * Pow(b, i - 1) /\ (i - 1) + 1 = i
    BY PowStep
  <2>2. PICK m \in Nat \ {0} : m = Pow(b, i - 1)
    BY <1>2
  <2>3. b * m \in Nat \ {0}
    OBVIOUS
  <2> QED
    BY <2>1, <2>2, <2>3
<1> HIDE DEF A
<1>3. n \in A
  <2>1. \A i \in 0 .. n : i \in A
    BY <1>1, <1>2, UpTo
  <2> QED
    BY <2>1
<1> QED
  BY <1>3 DEF A

LEMMA PowAdd ==
    ASSUME NEW b \in Int, NEW m \in Nat, NEW n \in Nat
    PROVE  Pow(b, m + n) = Pow(b, m) * Pow(b, n)
<1> DEFINE A == {i \in 0 .. n : Pow(b, m + i) = Pow(b, m) * Pow(b, i)}
<1>0. Pow(b, m) \in Int
  BY PowInt
<1>1. 0 \in A
  BY PowZero, <1>0
<1>2. ASSUME NEW i \in 1 .. n, i - 1 \in A
      PROVE  i \in A
  <2>1. i - 1 \in Nat /\ m + (i - 1) \in Nat /\ (i - 1) + 1 = i /\ (m + (i - 1)) + 1 = m + i
    OBVIOUS
  <2>2. Pow(b, i) = b * Pow(b, i - 1) /\ Pow(b, m + i) = b * Pow(b, m + (i - 1))
    BY <2>1, PowStep
  <2>3. PICK x \in Int, y \in Int, z \in Int : x = Pow(b, m) /\ y = Pow(b, i - 1) /\ z = Pow(b, m + (i - 1))
    BY <2>1, PowInt
  <2>4. z = x * y
    BY <1>2, <2>3
  <2>5. b * z = x * (b * y)
    BY <2>4
  <2> QED
    BY <2>2, <2>3, <2>5
<1> HIDE DEF A
<1>3. n \in A
  <2>1. \A i \in 0 .. n : i \in A
    BY <1>1, <1>2, UpTo
  <2> QED
    BY <2>1
<1> QED
  BY <1>3 DEF A

LEMMA PowPow ==
    ASSUME NEW b \in Int, NEW m \in Nat, NEW n \in Nat
    PROVE  Pow(Pow(b, m), n) = Pow(b, n * m)
<1> DEFINE A == {i \in 0 .. n : Pow(Pow(b, m), i) = Pow(b, i * m)}
<1>0. Pow(b, m) \in Int
  BY PowInt
<1>1. 0 \in A
  <2>1. 0 * m = 0
    OBVIOUS
  <2> QED
    BY PowZero, <1>0, <2>1
<1>2. ASSUME NEW i \in 1 .. n, i - 1 \in A
      PROVE  i \in A
  <2>1. i - 1 \in Nat /\ (i - 1) * m \in Nat /\ (i - 1) + 1 = i /\ i * m = m + (i - 1) * m
    OBVIOUS
  <2>2. Pow(Pow(b, m), i) = Pow(b, m) * Pow(Pow(b, m), i - 1)
    BY <1>0, <2>1, PowStep
  <2>3. Pow(b, m + (i - 1) * m) = Pow(b, m) * Pow(b, (i - 1) * m)
    BY <2>1, PowAdd
  <2> QED
    BY <1>2, <2>1, <2>2, <2>3
<1> HIDE DEF A
<1>3. n \in A
  <2>1. \A i \in 0 .. n : i \in A
    BY <1>1, <1>2, UpTo
  <2> QED
    BY <2>1
<1> QED
  BY <1>3 DEF A

(***************************************************************************)
(* Remainders.                                                             *)
(***************************************************************************)
LEMMA ModIs ==
    ASSUME NEW m \in Nat \ {0}, NEW r \in 0 .. m - 1, NEW k \in Int
    PROVE  (m * k + r) % m = r
OBVIOUS

LEMMA ModDiv ==
    ASSUME NEW m \in Nat \ {0}, NEW x \in Int
    PROVE  \E q \in Int, r \in 0 .. m - 1 : x = m * q + r /\ x % m = r /\ x \div m = q
<1> DEFINE q == x \div m
           r == x - m * q
<1>1. q \in Int /\ m * q <= x /\ x < m * (q + 1)
  OBVIOUS
<1>a. x \div m = q
  OBVIOUS
<1> HIDE DEF q
<1>2. m * q \in Int /\ m * (q + 1) = m * q + m
  BY <1>1
<1>3. r \in 0 .. m - 1 /\ x = m * q + r
  BY <1>1, <1>2
<1> HIDE DEF r
<1>4. x % m = r
  BY <1>1, <1>3, ModIs
<1> QED
  BY <1>1, <1>3, <1>4, <1>a

LEMMA ModRange ==
    ASSUME NEW m \in Nat \ {0}, NEW x \in Int
    PROVE  x % m \in 0 .. m - 1
BY ModDiv

LEMMA ModSmall ==
    ASSUME NEW m \in Nat \ {0}, NEW x \in 0 .. m - 1
    PROVE  x % m = x
OBVIOUS

\* The quotient and the remainder are the only ones.
LEMMA DivModIs ==
    ASSUME NEW m \in Nat \ {0}, NEW q \in Int, NEW r \in 0 .. m - 1
    PROVE  (m * q + r) % m = r /\ (m * q + r) \div m = q
<1> DEFINE x == m * q + r
<1>0. x \in Int /\ x % m = r
  BY ModIs
<1> HIDE DEF x
<1>1. PICK t \in Int, u \in 0 .. m - 1 : x = m * t + u /\ x % m = u /\ x \div m = t
  BY <1>0, ModDiv
<1>2. m * t = m * q
  BY <1>0, <1>1 DEF x
<1>3. t = q
  <2>1. CASE t < q
    <3>1. m * (q - t) = m * q - m * t /\ q - t >= 1
      BY <2>1
    <3>2. m * (q - t) >= m
      BY <3>1
    <3> QED
      BY <1>2, <3>1, <3>2
  <2>2. CASE t > q
    <3>1. m * (t - q) = m * t - m * q /\ t - q >= 1
      BY <2>2
    <3>2. m * (t - q) >= m
      BY <3>1
    <3> QED
      BY <1>2, <3>1, <3>2
  <2> QED
    BY <2>1, <2>2
<1> QED
  BY <1>0, <1>1, <1>3 DEF x

LEMMA ModShift ==
    ASSUME NEW m \in Nat \ {0}, NEW x \in Int, NEW k \in Int
    PROVE  (m * k + x) % m = x % m
<1>1. PICK q \in Int, r \in 0 .. m - 1 : x = m * q + r /\ x % m = r
  BY ModDiv
<1>2. m * k + x = m * (k + q) + r
  BY <1>1
<1>3. k + q \in Int
  OBVIOUS
<1> QED
  BY <1>1, <1>2, <1>3, ModIs

LEMMA ModAdd ==
    ASSUME NEW m \in Nat \ {0}, NEW x \in Int, NEW y \in Int
    PROVE  ((x % m) + y) % m = (x + y) % m
<1>1. PICK q \in Int, r \in 0 .. m - 1 : x = m * q + r /\ x % m = r
  BY ModDiv
<1>2. x + y = m * q + (r + y) /\ r + y \in Int
  BY <1>1
<1>3. (m * q + (r + y)) % m = (r + y) % m
  BY <1>2, ModShift
<1> QED
  BY <1>1, <1>2, <1>3

LEMMA ModMul ==
    ASSUME NEW m \in Nat \ {0}, NEW x \in Int, NEW y \in Int
    PROVE  ((x % m) * y) % m = (x * y) % m
<1>1. PICK q \in Int, r \in 0 .. m - 1 : x = m * q + r /\ x % m = r
  BY ModDiv
<1>2. x * y = m * (q * y) + r * y
  BY <1>1
<1>3. q * y \in Int /\ r * y \in Int
  OBVIOUS
<1>4. (m * (q * y) + r * y) % m = (r * y) % m
  BY <1>3, ModShift
<1> QED
  BY <1>1, <1>2, <1>3, <1>4

\* Integers that are near and have the same remainder are equal.
LEMMA ModNear ==
    ASSUME NEW m \in Nat \ {0}, NEW x \in Int, NEW y \in Int,
           x % m = y % m, x - y < m, y - x < m
    PROVE  x = y
<1>1. PICK q \in Int, r \in 0 .. m - 1 : x = m * q + r /\ x % m = r
  BY ModDiv
<1>2. PICK s \in Int, t \in 0 .. m - 1 : y = m * s + t /\ y % m = t
  BY ModDiv
<1>3. PICK k \in Int : k = q - s
  OBVIOUS
<1>4. m * k = m * q - m * s
  BY <1>3
<1>5. x - y = m * k
  BY <1>1, <1>2, <1>4
<1>6. CASE k >= 1
  <2>1. m * k >= m
    BY <1>6
  <2> QED
    BY <1>5, <2>1
<1>7. CASE k <= -1
  <2>1. m * (-k) >= m /\ m * (-k) = -(m * k)
    BY <1>7
  <2> QED
    BY <1>5, <2>1
<1>8. CASE k = 0
  BY <1>5, <1>8
<1> QED
  BY <1>6, <1>7, <1>8

LEMMA ModZero ==
    ASSUME NEW m \in Nat \ {0}, NEW x \in Int, x % m = 0, x < m, -x < m
    PROVE  x = 0
<1>1. 0 \in Int /\ x % m = 0 % m /\ x - 0 < m /\ 0 - x < m
  OBVIOUS
<1> QED
  BY <1>1, ModNear, Zenon

LEMMA DivDiv ==
    ASSUME NEW a \in Nat \ {0}, NEW b \in Nat \ {0}, NEW x \in Int
    PROVE  /\ x \div (a * b) = (x \div a) \div b
           /\ x % (a * b) = (x % a) + a * ((x \div a) % b)
<1>1. PICK q \in Int, r \in 0 .. a - 1 : x = a * q + r /\ x \div a = q /\ x % a = r
  BY ModDiv
<1>2. PICK s \in Int, t \in 0 .. b - 1 : q = b * s + t /\ q \div b = s /\ q % b = t
  BY ModDiv
<1>3. x = (a * b) * s + (a * t + r)
  BY <1>1, <1>2
<1>4. a * b \in Nat \ {0} /\ a * t + r \in 0 .. (a * b) - 1
  <2>1. a * b \in Nat \ {0}
    OBVIOUS
  <2>2. a * t >= 0 /\ a * (b - 1 - t) >= 0
    OBVIOUS
  <2>3. a * (b - 1 - t) = a * b - a - a * t
    OBVIOUS
  <2> QED
    BY <2>1, <2>2, <2>3
<1>5. PICK c \in Nat \ {0} : c = a * b
  BY <1>4
<1>6. PICK u \in 0 .. c - 1 : u = a * t + r
  BY <1>4, <1>5
<1>7. (c * s + u) \div c = s /\ (c * s + u) % c = u
  BY DivModIs
<1> QED
  BY <1>1, <1>2, <1>3, <1>5, <1>6, <1>7

LEMMA DivRange ==
    ASSUME NEW m \in Nat \ {0}, NEW c \in Nat \ {0}, NEW v \in Nat, v < m * c
    PROVE  \E h \in 0 .. c - 1, l \in 0 .. m - 1 : v = m * h + l /\ v % m = l /\ v \div m = h
<1>1. PICK h \in Int, l \in 0 .. m - 1 : v = m * h + l /\ v % m = l /\ v \div m = h
  BY ModDiv
<1>2. v = m * h + l
  BY <1>1
<1>3. h >= 0
  <2>1. SUFFICES ASSUME h <= -1
                 PROVE  FALSE
    OBVIOUS
  <2>2. m * (-1 - h) >= 0 /\ m * (-1 - h) = -m - m * h
    BY <2>1
  <2> QED
    BY <2>2, <1>2
<1>4. h <= c - 1
  <2>1. SUFFICES ASSUME h >= c
                 PROVE  FALSE
    OBVIOUS
  <2>2. m * (h - c) >= 0 /\ m * (h - c) = m * h - m * c
    BY <2>1
  <2> QED
    BY <2>2, <1>2
<1>5. h \in 0 .. c - 1
  BY <1>3, <1>4
<1> QED
  BY <1>1, <1>5

(***************************************************************************)
(* Positional notation: the value of the lowest n digits of s.             *)
(***************************************************************************)
ValueOf(s, base, n) ==
  LET value[i \in 0 .. n] == IF i = 0 THEN 0 ELSE value[i - 1] + s[i] * Pow(base, i - 1)
  IN value[n]

Digital(s, n) == \A i \in 1 .. n : s[i] \in Int

Adds(f, s, base, n) ==
  f[0] = 0 /\ \A i \in 1 .. n : f[i] = f[i - 1] + s[i] * Pow(base, i - 1)

LEMMA ValueFunction ==
    ASSUME NEW base \in Int, NEW n \in Nat, NEW s, Digital(s, n)
    PROVE  \E f \in [0 .. n -> Int] : Adds(f, s, base, n) /\ ValueOf(s, base, n) = f[n]
<1> DEFINE Body(g) == [i \in 0 .. n |-> IF i = 0 THEN 0 ELSE g[i - 1] + s[i] * Pow(base, i - 1)]
           step == [i \in 1 .. n |-> [y \in Int |-> y + s[i] * Pow(base, i - 1)]]
           value == CHOOSE g : g = Body(g)
<1>1. step \in [1 .. n -> [Int -> Int]] /\ 0 \in Int
  <2>1. \A i \in 1 .. n : s[i] * Pow(base, i - 1) \in Int
    <3>1. ASSUME NEW i \in 1 .. n
          PROVE  s[i] * Pow(base, i - 1) \in Int
      <4>1. i - 1 \in Nat
        OBVIOUS
      <4>2. PICK x \in Int, y \in Int : x = s[i] /\ y = Pow(base, i - 1)
        BY <4>1, PowInt DEF Digital
      <4> QED
        BY <4>2
    <3> QED
      BY <3>1
  <2> QED
    BY <2>1
<1>2. \A i \in 1 .. n, y \in Int : step[i][y] = y + s[i] * Pow(base, i - 1)
  OBVIOUS
<1> HIDE DEF step
<1>3. PICK f \in [0 .. n -> Int] : Iterates(f, n, 0, step)
  BY <1>1, Recursion, Zenon
<1>4. f[0] = 0 /\ \A i \in 1 .. n : f[i] = f[i - 1] + s[i] * Pow(base, i - 1)
  <2>1. \A i \in 1 .. n : i - 1 \in 0 .. n
    OBVIOUS
  <2> QED
    BY <1>2, <1>3, <2>1 DEF Iterates
<1>5. f = Body(f)
  BY <1>4
<1>6. value = Body(value)
  BY <1>5, Zenon
<1>7. ValueOf(s, base, n) = value[n]
  BY DEF ValueOf
<1> HIDE DEF value
<1> DEFINE A == {i \in 0 .. n : value[i] = f[i]}
<1>8. 0 \in A
  BY <1>4, <1>6
<1>9. ASSUME NEW i \in 1 .. n, i - 1 \in A
      PROVE  i \in A
  <2>1. i \in 0 .. n /\ i # 0
    OBVIOUS
  <2>2. value[i] = value[i - 1] + s[i] * Pow(base, i - 1)
    BY <1>6, <2>1
  <2> QED
    BY <1>4, <1>9, <2>1, <2>2
<1> HIDE DEF A
<1>10. n \in A
  <2>1. \A i \in 0 .. n : i \in A
    BY <1>8, <1>9, UpTo
  <2> QED
    BY <2>1
<1> QED
  BY <1>4, <1>7, <1>10 DEF A, Adds

LEMMA ValueZero ==
    ASSUME NEW base \in Int, NEW s
    PROVE  ValueOf(s, base, 0) = 0
<1>1. 0 \in Nat /\ Digital(s, 0)
  BY DEF Digital
<1>2. PICK f \in [0 .. 0 -> Int] : Adds(f, s, base, 0) /\ ValueOf(s, base, 0) = f[0]
  BY <1>1, ValueFunction, Zenon
<1> QED
  BY <1>2 DEF Adds

LEMMA ValueInt ==
    ASSUME NEW base \in Int, NEW n \in Nat, NEW s, Digital(s, n)
    PROVE  ValueOf(s, base, n) \in Int
<1>1. n \in 0 .. n
  OBVIOUS
<1>2. PICK f \in [0 .. n -> Int] : ValueOf(s, base, n) = f[n]
  BY ValueFunction, Zenon
<1> QED
  BY <1>1, <1>2

\* The digits that count are the lowest n.
LEMMA ValueAgree ==
    ASSUME NEW base \in Int, NEW n \in Nat, NEW s, NEW t,
           Digital(s, n), \A i \in 1 .. n : t[i] = s[i]
    PROVE  ValueOf(s, base, n) = ValueOf(t, base, n)
<1>0. Digital(t, n)
  BY DEF Digital
<1>1. PICK f \in [0 .. n -> Int] :
        Adds(f, s, base, n) /\ ValueOf(s, base, n) = f[n]
  BY ValueFunction, <1>0, Zenon
<1>2. PICK g \in [0 .. n -> Int] :
        Adds(g, t, base, n) /\ ValueOf(t, base, n) = g[n]
  BY ValueFunction, <1>0, Zenon
<1> DEFINE A == {i \in 0 .. n : g[i] = f[i]}
<1>3. 0 \in A
  BY <1>1, <1>2 DEF Adds
<1>4. ASSUME NEW i \in 1 .. n, i - 1 \in A
      PROVE  i \in A
  <2>1. g[i - 1] = f[i - 1] /\ s[i] = t[i]
    BY <1>4
  <2>2. g[i] = g[i - 1] + t[i] * Pow(base, i - 1) /\ f[i] = f[i - 1] + s[i] * Pow(base, i - 1)
    BY <1>1, <1>2 DEF Adds
  <2> QED
    BY <2>1, <2>2
<1> HIDE DEF A
<1>5. n \in A
  <2>1. \A i \in 0 .. n : i \in A
    BY <1>3, <1>4, UpTo
  <2> QED
    BY <2>1
<1> QED
  BY <1>1, <1>2, <1>5 DEF A

LEMMA ValueStep ==
    ASSUME NEW base \in Int, NEW n \in Nat \ {0}, NEW s, Digital(s, n)
    PROVE  ValueOf(s, base, n) = ValueOf(s, base, n - 1) + s[n] * Pow(base, n - 1)
<1>0. n \in Nat
  OBVIOUS
<1>1. PICK f \in [0 .. n -> Int] :
        Adds(f, s, base, n) /\ ValueOf(s, base, n) = f[n]
  BY ValueFunction, <1>0, Zenon
<1>2. PICK g \in [0 .. n - 1 -> Int] :
        Adds(g, s, base, n - 1) /\ ValueOf(s, base, n - 1) = g[n - 1]
  <2>1. n - 1 \in Nat /\ Digital(s, n - 1)
    BY DEF Digital
  <2> QED
    BY <2>1, ValueFunction, Zenon
<1> DEFINE A == {i \in 0 .. n - 1 : g[i] = f[i]}
<1>3. 0 \in A
  BY <1>1, <1>2 DEF Adds
<1>4. ASSUME NEW i \in 1 .. n - 1, i - 1 \in A
      PROVE  i \in A
  <2>1. g[i - 1] = f[i - 1] /\ i \in 1 .. n
    BY <1>4
  <2>2. g[i] = g[i - 1] + s[i] * Pow(base, i - 1) /\ f[i] = f[i - 1] + s[i] * Pow(base, i - 1)
    BY <1>1, <1>2, <2>1 DEF Adds
  <2> QED
    BY <2>1, <2>2
<1> HIDE DEF A
<1>5. n - 1 \in A
  <2>1. n - 1 \in Nat
    OBVIOUS
  <2>2. \A i \in 0 .. n - 1 : i \in A
    BY <1>3, <1>4, <2>1, UpTo
  <2> QED
    BY <2>1, <2>2
<1>6. f[n] = f[n - 1] + s[n] * Pow(base, n - 1)
  BY <1>1 DEF Adds
<1> QED
  BY <1>1, <1>2, <1>5, <1>6 DEF A

\* The lowest n entries of s are digits.
AreDigits(s, base, n) == \A i \in 1 .. n : s[i] \in 0 .. base - 1

LEMMA DigitsRestrict ==
    ASSUME NEW base \in Nat \ {0}, NEW n \in Nat, NEW s, AreDigits(s, base, n), NEW k \in 0 .. n
    PROVE  AreDigits(s, base, k) /\ Digital(s, k)
BY DEF AreDigits, Digital

LEMMA ValueRange ==
    ASSUME NEW base \in Nat \ {0}, NEW n \in Nat, NEW s, AreDigits(s, base, n)
    PROVE  ValueOf(s, base, n) \in 0 .. Pow(base, n) - 1
<1> DEFINE A == {i \in 0 .. n : ValueOf(s, base, i) \in 0 .. Pow(base, i) - 1}
<1>1. 0 \in A
  BY ValueZero, PowZero
<1>2. ASSUME NEW i \in 1 .. n, i - 1 \in A
      PROVE  i \in A
  <2>1. i \in Nat \ {0} /\ i - 1 \in Nat /\ i = (i - 1) + 1 /\ i \in 0 .. n
    OBVIOUS
  <2>2. Digital(s, i)
    BY <2>1, DigitsRestrict
  <2>3. ValueOf(s, base, i) = ValueOf(s, base, i - 1) + s[i] * Pow(base, i - 1)
    BY <2>1, <2>2, ValueStep
  <2>4. Pow(base, i) = base * Pow(base, i - 1)
    BY <2>1, PowStep
  <2>5. PICK p \in Nat \ {0} : p = Pow(base, i - 1)
    BY <2>1, PowPositive
  <2>6. PICK v \in 0 .. p - 1 : v = ValueOf(s, base, i - 1)
    BY <1>2, <2>5
  <2>7. PICK d \in 0 .. base - 1 : d = s[i]
    BY DEF AreDigits
  <2>8. v + d * p \in 0 .. base * p - 1
    <3>1. d * p >= 0 /\ (base - 1 - d) * p >= 0
      OBVIOUS
    <3>2. (base - 1 - d) * p = base * p - p - d * p
      OBVIOUS
    <3> QED
      BY <3>1, <3>2
  <2> QED
    BY <2>1, <2>3, <2>4, <2>5, <2>6, <2>7, <2>8
<1> HIDE DEF A
<1>3. n \in A
  <2>1. \A i \in 0 .. n : i \in A
    BY <1>1, <1>2, UpTo
  <2> QED
    BY <2>1
<1> QED
  BY <1>3 DEF A

(***************************************************************************)
(* The numbers of the gates.                                               *)
(***************************************************************************)
LEMMA PowTwo ==
    ASSUME NEW n \in Nat \ {0}
    PROVE  Pow(2, n) \in Nat /\ Pow(2, n) >= 2
<1>1. n - 1 \in Nat /\ n = (n - 1) + 1
  OBVIOUS
<1>2. Pow(2, n) = 2 * Pow(2, n - 1)
  BY <1>1, PowStep
<1>3. PICK p \in Nat \ {0} : p = Pow(2, n - 1)
  BY <1>1, PowPositive
<1> QED
  BY <1>2, <1>3

LEMMA Sizes ==
    /\ B \in Nat /\ B >= 4
    /\ P \in Nat \ {0} /\ P = B * B - B + 1 /\ P >= 3 * B + 1
    /\ LimbBase \in Nat /\ LimbBase >= 2 /\ LimbBase <= B
    /\ NumLimbs \in Nat \ {0} /\ B = Pow(LimbBase, NumLimbs)
    /\ CarryBase \in Nat /\ CarryBase >= 2 /\ CarryBase <= P
    /\ ChunkSize \in Nat /\ ChunkSize >= 2
<1>1. B \in Nat /\ B >= 4
  <2>1. WordBits - 1 \in Nat \ {0} /\ WordBits = (WordBits - 1) + 1
    BY GatesAssumption
  <2>2. Pow(2, WordBits) = 2 * Pow(2, WordBits - 1)
    BY <2>1, PowStep
  <2>3. PICK p \in Nat : p = Pow(2, WordBits - 1) /\ p >= 2
    BY <2>1, PowTwo
  <2> QED
    BY <2>2, <2>3 DEF B
<1>2. P \in Nat \ {0} /\ P = B * B - B + 1 /\ P >= 3 * B + 1
  <2>1. B * B >= 4 * B
    BY <1>1
  <2> QED
    BY <1>1, <2>1 DEF P
<1>3. LimbBase \in Nat /\ LimbBase >= 2 /\ ChunkSize \in Nat /\ ChunkSize >= 2
  <2>1. LimbBits \in Nat \ {0} /\ ChunkBits \in Nat \ {0}
    BY GatesAssumption
  <2> QED
    BY <2>1, PowTwo DEF LimbBase, ChunkSize
<1>8. LimbBase \in Nat \ {0}
  BY <1>3
<1>4. NumLimbs \in Nat \ {0}
  <2>1. WordBits \in Nat \ {0} /\ LimbBits \in Nat \ {0} /\ WordBits = NumLimbs * LimbBits
    BY GatesAssumption
  <2>2. PICK q \in Int : q = NumLimbs
    BY <2>1, ModDiv DEF NumLimbs
  <2>3. q > 0
    BY <2>1, <2>2
  <2> QED
    BY <2>2, <2>3
<1>5. B = Pow(LimbBase, NumLimbs)
  <2>1. LimbBits \in Nat /\ NumLimbs \in Nat /\ WordBits = NumLimbs * LimbBits
    BY GatesAssumption, <1>4
  <2> QED
    BY <2>1, PowPow DEF B, LimbBase
<1>6. LimbBase <= B
  <2>1. NumLimbs - 1 \in Nat /\ NumLimbs = (NumLimbs - 1) + 1
    BY <1>4
  <2>2. B = LimbBase * Pow(LimbBase, NumLimbs - 1)
    BY <2>1, <1>3, <1>5, PowStep
  <2>3. PICK p \in Nat \ {0} : p = Pow(LimbBase, NumLimbs - 1)
    BY <2>1, <1>8, PowPositive
  <2>4. PICK l \in Nat : l = LimbBase
    BY <1>3
  <2>5. l * p >= l
    OBVIOUS
  <2> QED
    BY <2>2, <2>3, <2>4, <2>5
<1>7. CarryBase \in Nat /\ CarryBase >= 2 /\ CarryBase <= P
  <2>0. CarryLimbs \in Nat \ {0} /\ B * CarryBase <= P
    BY GatesAssumption
  <2>1. CarryLimbs - 1 \in Nat /\ CarryLimbs = (CarryLimbs - 1) + 1
    BY <2>0
  <2>2. CarryBase = LimbBase * Pow(LimbBase, CarryLimbs - 1)
    BY <2>1, <1>3, PowStep DEF CarryBase
  <2>3. PICK p \in Nat \ {0} : p = Pow(LimbBase, CarryLimbs - 1)
    BY <2>1, <1>8, PowPositive
  <2>4. PICK l \in Nat : l = LimbBase /\ l >= 2
    BY <1>3
  <2>5. l * p >= 2
    BY <2>4
  <2>6. PICK c \in Nat : c = CarryBase /\ c >= 2
    BY <2>2, <2>3, <2>4, <2>5
  <2>7. B * c >= c
    BY <1>1
  <2> QED
    BY <2>0, <2>6, <2>7, <1>1, <1>2
<1> QED
  BY <1>1, <1>2, <1>3, <1>4, <1>5, <1>6, <1>7

LEMMA Order ==
    P \in Nat \ {0}
BY Sizes

\* Sums, differences and products are in the field.
LEMMA FieldClosed ==
    ASSUME NEW x \in Int, NEW y \in Int
    PROVE  Add(x, y) \in F /\ Sub(x, y) \in F /\ Mul(x, y) \in F
<1>1. x + y \in Int /\ x - y \in Int /\ x * y \in Int
  OBVIOUS
<1> QED
  BY <1>1, Order, ModRange DEF Add, Sub, Mul, F

LEMMA FieldInt ==
    F \subseteq Int /\ Word \subseteq F /\ 0 \in F /\ 1 \in F
<1>1. B \in Nat /\ B >= 4 /\ P \in Nat /\ P >= 3 * B + 1
  BY Sizes
<1> QED
  BY <1>1 DEF F, Word

Combines(f, s, base, n) ==
  f[0] = 0 /\ \A i \in 1 .. n : f[i] = Add(Mul(f[i - 1], base), s[n + 1 - i])

LEMMA CombineFunction ==
    ASSUME NEW base \in Int, NEW n \in Nat, NEW s, Len(s) = n, Digital(s, n)
    PROVE  \E f \in [0 .. n -> Int] : Combines(f, s, base, n) /\ Combine(s, base) = f[n]
<1> DEFINE Body(g) == [i \in 0 .. n |-> IF i = 0 THEN 0 ELSE Add(Mul(g[i - 1], base), s[n + 1 - i])]
           step == [i \in 1 .. n |-> [y \in Int |-> Add(Mul(y, base), s[n + 1 - i])]]
           acc == CHOOSE g : g = Body(g)
<1>1. step \in [1 .. n -> [Int -> Int]] /\ 0 \in Int
  <2>1. ASSUME NEW i \in 1 .. n, NEW y \in Int
        PROVE  Add(Mul(y, base), s[n + 1 - i]) \in Int
    <3>1. n + 1 - i \in 1 .. n
      OBVIOUS
    <3>2. Mul(y, base) \in Int /\ s[n + 1 - i] \in Int
      BY <3>1, FieldClosed, FieldInt DEF Digital
    <3> QED
      BY <3>2, FieldClosed, FieldInt
  <2> QED
    BY <2>1
<1>2. \A i \in 1 .. n, y \in Int : step[i][y] = Add(Mul(y, base), s[n + 1 - i])
  OBVIOUS
<1> HIDE DEF step
<1>3. PICK f \in [0 .. n -> Int] : Iterates(f, n, 0, step)
  BY <1>1, Recursion, Zenon
<1>4. f[0] = 0 /\ \A i \in 1 .. n : f[i] = Add(Mul(f[i - 1], base), s[n + 1 - i])
  <2>1. \A i \in 1 .. n : i - 1 \in 0 .. n
    OBVIOUS
  <2> QED
    BY <1>2, <1>3, <2>1 DEF Iterates
<1>5. f = Body(f)
  BY <1>4
<1>6. acc = Body(acc)
  BY <1>5, Zenon
<1>7. Combine(s, base) = acc[n]
  BY DEF Combine
<1> HIDE DEF acc
<1> DEFINE A == {i \in 0 .. n : acc[i] = f[i]}
<1>8. 0 \in A
  BY <1>4, <1>6
<1>9. ASSUME NEW i \in 1 .. n, i - 1 \in A
      PROVE  i \in A
  <2>1. i \in 0 .. n /\ i # 0
    OBVIOUS
  <2>2. acc[i] = Add(Mul(acc[i - 1], base), s[n + 1 - i])
    BY <1>6, <2>1
  <2> QED
    BY <1>4, <1>9, <2>1, <2>2
<1> HIDE DEF A
<1>10. n \in A
  <2>1. \A i \in 0 .. n : i \in A
    BY <1>8, <1>9, UpTo
  <2> QED
    BY <2>1
<1> QED
  BY <1>4, <1>7, <1>10 DEF A, Combines

\* Combining digits gives their value, as long as it is below the order.
LEMMA CombineValue ==
    ASSUME NEW base \in Nat \ {0}, NEW n \in Nat, NEW s, Len(s) = n, AreDigits(s, base, n),
           Pow(base, n) <= P
    PROVE  Combine(s, base) = ValueOf(s, base, n)
<1>0. Digital(s, n) /\ base \in Int
  BY DigitsRestrict
<1>1. PICK f \in [0 .. n -> Int] : Combines(f, s, base, n) /\ Combine(s, base) = f[n]
  BY <1>0, CombineFunction, Zenon
<1>2. PICK total \in Nat : total = ValueOf(s, base, n) /\ total < P
  <2>1. ValueOf(s, base, n) \in 0 .. Pow(base, n) - 1
    BY ValueRange
  <2>2. Pow(base, n) \in Int
    BY PowInt
  <2> QED
    BY <2>1, <2>2, Order
<1> DEFINE A == {i \in 0 .. n : /\ f[i] \in Nat
                               /\ f[i] * Pow(base, n - i) + ValueOf(s, base, n - i) = total}
<1>3. 0 \in A
  <2>1. n - 0 = n /\ 0 \in 0 .. n /\ Pow(base, n) \in Int
    BY PowInt
  <2>2. 0 * Pow(base, n) = 0
    BY <2>1
  <2> QED
    BY <1>1, <1>2, <2>1, <2>2 DEF Combines
<1>4. ASSUME NEW i \in 1 .. n, i - 1 \in A
      PROVE  i \in A
  <2> DEFINE k == n + 1 - i
  <2>1. k \in Nat \ {0} /\ k - 1 \in Nat /\ k = n - (i - 1) /\ k - 1 = n - i /\ k = (k - 1) + 1
        /\ k \in 1 .. n /\ i \in 0 .. n /\ k \in 0 .. n /\ k - 1 \in 0 .. n
    OBVIOUS
  <2> HIDE DEF k
  <2>2. PICK a \in Nat : a = f[i - 1] /\ a * Pow(base, k) + ValueOf(s, base, k) = total
    BY <1>4, <2>1
  <2>3. PICK p \in Nat \ {0} : p = Pow(base, k - 1)
    BY <2>1, PowPositive
  <2>4. Pow(base, k) = base * p
    BY <2>1, <2>3, <1>0, PowStep
  <2>5. PICK d \in 0 .. base - 1 : d = s[k]
    BY <2>1 DEF AreDigits
  <2>6. PICK v \in Nat : v = ValueOf(s, base, k - 1)
    <3>1. AreDigits(s, base, k - 1)
      BY <2>1, DigitsRestrict
    <3>2. ValueOf(s, base, k - 1) \in 0 .. p - 1
      BY <2>1, <2>3, <3>1, ValueRange
    <3> QED
      BY <3>2
  <2>7. ValueOf(s, base, k) = v + d * p
    <3>1. Digital(s, k)
      BY <2>1, DigitsRestrict
    <3> QED
      BY <2>1, <2>3, <2>5, <2>6, <1>0, <3>1, ValueStep, ZenonT(30)
  <2> DEFINE t == a * base + d
  <2>8. t * p + v = total
    <3>1. t * p = a * (base * p) + d * p
      OBVIOUS
    <3> QED
      BY <2>2, <2>4, <2>7, <3>1, SMTT(30)
  <2>9. t \in Nat /\ a * base \in Nat /\ a * base <= t /\ t <= total
    <3>1. t \in Nat /\ a * base \in Nat /\ a * base <= t
      OBVIOUS
    <3> HIDE DEF t
    <3>2. t * p >= t
      BY <3>1
    <3> QED
      BY <3>1, <3>2, <2>8
  <2>10. f[i] = t
    <3>1. f[i] = Add(Mul(a, base), d)
      BY <1>1, <2>2, <2>5 DEF k, Combines
    <3>2. Mul(a, base) = a * base
      <4>1. a * base \in 0 .. P - 1
        BY <2>9, <1>2, Order
      <4> QED
        BY <4>1, ModSmall, Order DEF Mul
    <3>3. t \in 0 .. P - 1
      BY <2>9, <1>2, Order
    <3>4. t % P = t
      BY <3>3, ModSmall, Order
    <3> QED
      BY <3>1, <3>2, <3>4 DEF Add
  <2> HIDE DEF t
  <2> QED
    BY <2>1, <2>3, <2>6, <2>8, <2>9, <2>10
<1> HIDE DEF A
<1>5. n \in A
  <2>1. \A i \in 0 .. n : i \in A
    BY <1>3, <1>4, UpTo
  <2> QED
    BY <2>1
<1>6. n - n = 0 /\ Pow(base, 0) = 1 /\ ValueOf(s, base, 0) = 0
  BY <1>0, PowZero, ValueZero
<1> QED
  BY <1>1, <1>2, <1>5, <1>6 DEF A

LEMMA DigitsAre ==
    ASSUME NEW v \in Int, NEW base \in Nat \ {0}, NEW n \in Nat
    PROVE  /\ Digits(v, base, n) \in [1 .. n -> 0 .. base - 1]
           /\ AreDigits(Digits(v, base, n), base, n)
           /\ Len(Digits(v, base, n)) = n
<1>1. ASSUME NEW i \in 1 .. n
      PROVE  (v \div Pow(base, i - 1)) % base \in 0 .. base - 1
  <2>1. i - 1 \in Nat
    OBVIOUS
  <2>2. PICK p \in Nat \ {0} : p = Pow(base, i - 1)
    BY <2>1, PowPositive
  <2>3. v \div p \in Int
    BY ModDiv
  <2> QED
    BY <2>2, <2>3, ModRange
<1>2. Digits(v, base, n) \in [1 .. n -> 0 .. base - 1]
  BY <1>1 DEF Digits
<1>3. Len(Digits(v, base, n)) = n
  BY DEF Digits
<1> QED
  BY <1>2, <1>3 DEF AreDigits

\* The digits of v stand for v, up to the digits that are left out.
LEMMA DigitsValue ==
    ASSUME NEW v \in Int, NEW base \in Nat \ {0}, NEW n \in Nat
    PROVE  ValueOf(Digits(v, base, n), base, n) = v % Pow(base, n)
<1> DEFINE s == Digits(v, base, n)
<1>0. AreDigits(s, base, n) /\ base \in Int
  BY DigitsAre
<1>a. \A i \in 1 .. n : s[i] = (v \div Pow(base, i - 1)) % base
  BY DEF Digits
<1> HIDE DEF s
<1> DEFINE A == {i \in 0 .. n : ValueOf(s, base, i) = v % Pow(base, i)}
<1>1. 0 \in A
  <2>1. v % 1 = 0
    OBVIOUS
  <2> QED
    BY <1>0, <2>1, ValueZero, PowZero
<1>2. ASSUME NEW i \in 1 .. n, i - 1 \in A
      PROVE  i \in A
  <2>1. i \in Nat \ {0} /\ i - 1 \in Nat /\ i = (i - 1) + 1 /\ i \in 0 .. n
    OBVIOUS
  <2>2. Digital(s, i)
    BY <1>0, <2>1, DigitsRestrict
  <2>3. ValueOf(s, base, i) = ValueOf(s, base, i - 1) + s[i] * Pow(base, i - 1)
    BY <1>0, <2>1, <2>2, ValueStep
  <2>4. Pow(base, i) = base * Pow(base, i - 1)
    BY <2>1, PowStep
  <2>5. PICK p \in Nat \ {0} : p = Pow(base, i - 1)
    BY <2>1, PowPositive
  <2>6. v % (p * base) = (v % p) + p * ((v \div p) % base)
    BY DivDiv
  <2>7. p * base = base * p
    OBVIOUS
  <2>8. PICK d \in Int : d = (v \div p) % base
    <3>1. v \div p \in Int
      BY ModDiv
    <3> QED
      BY <3>1, ModRange
  <2>9. p * d = d * p
    OBVIOUS
  <2>10. s[i] = d /\ ValueOf(s, base, i - 1) = v % p
    BY <1>a, <1>2, <2>5, <2>8
  <2> QED
    BY <2>1, <2>3, <2>4, <2>5, <2>6, <2>7, <2>8, <2>9, <2>10
<1> HIDE DEF A
<1>3. n \in A
  <2>1. \A i \in 0 .. n : i \in A
    BY <1>1, <1>2, UpTo
  <2> QED
    BY <2>1
<1> QED
  BY <1>3 DEF A, s

\* The digits from the (k+1)-th on are those of the quotient.
LEMMA DigitsAbove ==
    ASSUME NEW v \in Int, NEW base \in Nat \ {0}, NEW n \in Nat, NEW k \in Nat, NEW i \in 1 .. n
    PROVE  Digits(v, base, k + n)[k + i] = Digits(v \div Pow(base, k), base, n)[i]
<1>1. k + i \in 1 .. k + n /\ i - 1 \in Nat /\ k + i - 1 = k + (i - 1)
  OBVIOUS
<1>2. Digits(v, base, k + n)[k + i] = (v \div Pow(base, k + i - 1)) % base
  BY <1>1 DEF Digits
<1>3. Pow(base, k + (i - 1)) = Pow(base, k) * Pow(base, i - 1)
  BY <1>1, PowAdd
<1>4. PICK p \in Nat \ {0}, q \in Nat \ {0} : p = Pow(base, k) /\ q = Pow(base, i - 1)
  BY <1>1, PowPositive
<1>5. v \div (p * q) = (v \div p) \div q
  BY DivDiv
<1>6. Digits(v \div p, base, n)[i] = ((v \div p) \div q) % base
  BY <1>4 DEF Digits
<1> QED
  BY <1>1, <1>2, <1>3, <1>4, <1>5, <1>6

(***************************************************************************)
(* The field has no zero divisors, so a product is zero at its roots only. *)
(***************************************************************************)
LEMMA NoZeroDivisors ==
    ASSUME NEW x \in F, NEW y \in F, Mul(x, y) = 0
    PROVE  x = 0 \/ y = 0
<1>1. SUFFICES ASSUME x # 0
               PROVE  y = 0
  OBVIOUS
<1>2. x \in 1 .. P - 1 /\ x \in Int /\ y \in Int /\ y \in 0 .. P - 1
  BY <1>1, Order DEF F
<1>3. PICK u \in 1 .. P - 1 : Mul(x, u) = 1
  BY <1>2, GatesAssumption
<1>4. u \in Int /\ x * y \in Int /\ x * u \in Int
  BY <1>2, Order
<1>5. ((x * u) % P) * y = y /\ (x * u) * y = (x * y) * u
  BY <1>2, <1>3, <1>4 DEF Mul
<1>6. y % P = ((x * u) * y) % P
  <2>1. PICK w \in Int : w = x * u
    BY <1>4
  <2>2. ((w % P) * y) % P = (w * y) % P
    BY <1>2, ModMul, Order
  <2> QED
    BY <1>5, <2>1, <2>2
<1>7. ((x * y) * u) % P = (((x * y) % P) * u) % P
  BY <1>4, ModMul, Order
<1>8. (((x * y) % P) * u) % P = 0
  <2>1. (x * y) % P = 0
    BY DEF Mul
  <2>2. 0 * u = 0 /\ 0 % P = 0
    BY <1>4, Order
  <2> QED
    BY <2>1, <2>2
<1>9. y % P = y
  BY <1>2, ModSmall, Order
<1> QED
  BY <1>5, <1>6, <1>7, <1>8, <1>9

Multiplies(f, x, n) == f[0] = 1 /\ \A k \in 1 .. n : f[k] = Mul(f[k - 1], Sub(x, k - 1))

LEMMA ProductFunction ==
    ASSUME NEW x \in Int, NEW n \in Nat
    PROVE  \E f \in [0 .. n -> Int] : Multiplies(f, x, n) /\ RangeProduct(x, n) = f[n]
<1> DEFINE Body(g) == [k \in 0 .. n |-> IF k = 0 THEN 1 ELSE Mul(g[k - 1], Sub(x, k - 1))]
           step == [k \in 1 .. n |-> [y \in Int |-> Mul(y, Sub(x, k - 1))]]
           product == CHOOSE g : g = Body(g)
<1>1. step \in [1 .. n -> [Int -> Int]] /\ 1 \in Int
  <2>1. ASSUME NEW k \in 1 .. n, NEW y \in Int
        PROVE  Mul(y, Sub(x, k - 1)) \in Int
    <3>1. k - 1 \in Int
      OBVIOUS
    <3>2. Sub(x, k - 1) \in Int
      BY <3>1, FieldClosed, FieldInt
    <3> QED
      BY <3>2, FieldClosed, FieldInt
  <2> QED
    BY <2>1
<1>2. \A k \in 1 .. n, y \in Int : step[k][y] = Mul(y, Sub(x, k - 1))
  OBVIOUS
<1> HIDE DEF step
<1>3. PICK f \in [0 .. n -> Int] : Iterates(f, n, 1, step)
  BY <1>1, Recursion, Zenon
<1>4. f[0] = 1 /\ \A k \in 1 .. n : f[k] = Mul(f[k - 1], Sub(x, k - 1))
  <2>1. \A k \in 1 .. n : k - 1 \in 0 .. n
    OBVIOUS
  <2> QED
    BY <1>2, <1>3, <2>1 DEF Iterates
<1>5. f = Body(f)
  BY <1>4
<1>6. product = Body(product)
  BY <1>5, Zenon
<1>7. RangeProduct(x, n) = product[n]
  BY DEF RangeProduct
<1> HIDE DEF product
<1> DEFINE A == {k \in 0 .. n : product[k] = f[k]}
<1>8. 0 \in A
  BY <1>4, <1>6
<1>9. ASSUME NEW k \in 1 .. n, k - 1 \in A
      PROVE  k \in A
  <2>1. k \in 0 .. n /\ k # 0
    OBVIOUS
  <2>2. product[k] = Mul(product[k - 1], Sub(x, k - 1))
    BY <1>6, <2>1
  <2> QED
    BY <1>4, <1>9, <2>1, <2>2
<1> HIDE DEF A
<1>10. n \in A
  <2>1. \A k \in 0 .. n : k \in A
    BY <1>8, <1>9, UpTo
  <2> QED
    BY <2>1
<1> QED
  BY <1>4, <1>7, <1>10 DEF A, Multiplies

LEMMA RangeRoots ==
    ASSUME NEW x \in F, NEW n \in Nat, n <= P
    PROVE  RangeProduct(x, n) = 0 <=> x < n
<1>0. x \in Int /\ x >= 0 /\ x < P
  BY Order DEF F
<1>1. PICK f \in [0 .. n -> Int] : Multiplies(f, x, n) /\ RangeProduct(x, n) = f[n]
  BY <1>0, ProductFunction
<1> DEFINE A == {k \in 0 .. n : f[k] \in F /\ (f[k] = 0 <=> x < k)}
<1>2. 0 \in A
  BY <1>0, <1>1, FieldInt DEF Multiplies
<1>3. ASSUME NEW k \in 1 .. n, k - 1 \in A
      PROVE  k \in A
  <2>1. k \in 0 .. n /\ k - 1 \in Int /\ k - 1 \in 0 .. n
    OBVIOUS
  <2>2. f[k] = Mul(f[k - 1], Sub(x, k - 1)) /\ f[k - 1] \in F /\ (f[k - 1] = 0 <=> x < k - 1)
    BY <1>1, <1>3 DEF Multiplies
  <2>3. Sub(x, k - 1) \in F
    BY <1>0, <2>1, FieldClosed
  <2>4. Sub(x, k - 1) = 0 <=> x = k - 1
    <3>1. ASSUME Sub(x, k - 1) = 0 PROVE x = k - 1
      <4>1. (x - (k - 1)) % P = 0 % P /\ x - (k - 1) \in Int
        BY <3>1, <1>0, <2>1, Order DEF Sub
      <4>2. x - (k - 1) - 0 < P /\ 0 - (x - (k - 1)) < P
        BY <1>0, Order
      <4>3. x - (k - 1) = 0
        BY <4>1, <4>2, ModNear, Order
      <4> QED
        BY <4>3, <1>0
    <3>2. ASSUME x = k - 1 PROVE Sub(x, k - 1) = 0
      <4>1. x - (k - 1) = 0
        BY <3>2, <1>0
      <4> QED
        BY <4>1, Order DEF Sub
    <3> QED
      BY <3>1, <3>2
  <2>5. f[k] \in F
    BY <2>2, <2>3, FieldClosed, FieldInt
  <2>6. f[k] = 0 <=> (f[k - 1] = 0 \/ Sub(x, k - 1) = 0)
    <3>1. ASSUME NEW y \in Int PROVE Mul(0, y) = 0 /\ Mul(y, 0) = 0
      <4>1. 0 * y = 0 /\ y * 0 = 0 /\ 0 % P = 0
        BY Order
      <4> QED
        BY <4>1 DEF Mul
    <3> QED
      BY <2>2, <2>3, <3>1, NoZeroDivisors, FieldInt
  <2>7. (x < k - 1 \/ x = k - 1) <=> x < k
    BY <1>0
  <2> QED
    BY <2>1, <2>2, <2>4, <2>5, <2>6, <2>7
<1> HIDE DEF A
<1>4. n \in A
  <2>1. \A k \in 0 .. n : k \in A
    BY <1>2, <1>3, UpTo
  <2> QED
    BY <2>1
<1> QED
  BY <1>1, <1>4 DEF A

(***************************************************************************)
(* Limbs.                                                                  *)
(***************************************************************************)
LEMMA LimbIs ==
    Limb = 0 .. LimbBase - 1
<1>1. LimbBase \in Nat /\ LimbBase <= P
  <2>1. LimbBase \in Nat /\ B \in Nat /\ LimbBase <= B /\ P >= 3 * B + 1 /\ P \in Nat
    BY Sizes
  <2> QED
    BY <2>1
<1>2. \A x \in F : RangeProduct(x, LimbBase) = 0 <=> x < LimbBase
  BY <1>1, RangeRoots
<1>3. \A x : x \in 0 .. LimbBase - 1 <=> x \in F /\ x < LimbBase
  BY <1>1, Order DEF F
<1> QED
  BY <1>2, <1>3 DEF Limb, RangeChecked

\* The roots of the range check.
LEMMA LimbRoots ==
    ASSUME NEW x \in 0 .. LimbBase - 1
    PROVE  RangeProduct(x, LimbBase) = 0
<1>1. x \in Limb
  BY LimbIs
<1> QED
  BY <1>1 DEF Limb, RangeChecked

LEMMA LengthIs ==
    ASSUME NEW n \in Nat, NEW S, NEW s \in [1 .. n -> S]
    PROVE  Len(s) = n /\ s \in Seq(S)
<1>1. s \in Seq(S)
  OBVIOUS
<1>2. DOMAIN s = 1 .. Len(s) /\ Len(s) \in Nat
  BY <1>1
<1> QED
  BY <1>1, <1>2

\* u is s followed by t.
Joins(u, s, m, t, n, S) ==
  /\ u \in [1 .. m + n -> S]
  /\ \A i \in 1 .. m : u[i] = s[i]
  /\ \A i \in 1 .. n : u[m + i] = t[i]

LEMMA Concatenated ==
    ASSUME NEW m \in Nat, NEW n \in Nat, NEW S, NEW s \in [1 .. m -> S], NEW t \in [1 .. n -> S]
    PROVE  Joins(s \o t, s, m, t, n, S)
<1>1. Len(s) = m /\ s \in Seq(S) /\ Len(t) = n /\ t \in Seq(S)
  BY LengthIs
<1>2. s \o t \in Seq(S) /\ Len(s \o t) = m + n
  BY <1>1
<1>3. \A i \in 1 .. m : (s \o t)[i] = s[i]
  BY <1>1
<1>4. \A i \in 1 .. n : (s \o t)[m + i] = t[i]
  BY <1>1
<1>5. s \o t \in [1 .. m + n -> S]
  <2>1. \A u \in Seq(S) : u \in [1 .. Len(u) -> S]
    OBVIOUS
  <2> QED
    BY <1>2, <2>1
<1> QED
  BY <1>3, <1>4, <1>5 DEF Joins

\* The two halves of the limbs of a row.
LEMMA Halves ==
    ASSUME NEW k \in Nat, NEW limbs \in [1 .. NumLimbs + k -> 0 .. LimbBase - 1]
    PROVE  /\ Len(LowLimbs(limbs)) = NumLimbs /\ AreDigits(LowLimbs(limbs), LimbBase, NumLimbs)
           /\ Len(HighLimbs(limbs)) = k /\ AreDigits(HighLimbs(limbs), LimbBase, k)
           /\ \A i \in 1 .. NumLimbs : LowLimbs(limbs)[i] = limbs[i]
           /\ \A i \in 1 .. k : HighLimbs(limbs)[i] = limbs[NumLimbs + i]
<1>1. PICK n \in Nat \ {0} : n = NumLimbs
  BY Sizes
<1>2. Len(limbs) = n + k
  <2>1. n + k \in Nat
    OBVIOUS
  <2> QED
    BY <1>1, <2>1, LengthIs
<1>3. LowLimbs(limbs) = [i \in 1 .. n |-> limbs[i]]
  BY <1>1, <1>2 DEF LowLimbs
<1>4. HighLimbs(limbs) = [i \in 1 .. k |-> limbs[n + i]]
  BY <1>1, <1>2 DEF HighLimbs
<1>5. \A i \in 1 .. n : limbs[i] \in 0 .. LimbBase - 1
  BY <1>1
<1>6. \A i \in 1 .. k : limbs[n + i] \in 0 .. LimbBase - 1
  BY <1>1
<1>7. Len([i \in 1 .. n |-> limbs[i]]) = n /\ Len([i \in 1 .. k |-> limbs[n + i]]) = k
  OBVIOUS
<1> QED
  BY <1>1, <1>3, <1>4, <1>5, <1>6, <1>7 DEF AreDigits

\* Limbs combine to a word.
LEMMA WordOf ==
    ASSUME NEW s, Len(s) = NumLimbs, AreDigits(s, LimbBase, NumLimbs)
    PROVE  Combine(s, LimbBase) \in Word
<1>1. LimbBase \in Nat \ {0} /\ NumLimbs \in Nat /\ B \in Nat /\ B = Pow(LimbBase, NumLimbs) /\ B <= P
  <2>1. /\ LimbBase \in Nat /\ LimbBase >= 2 /\ NumLimbs \in Nat /\ B \in Nat
        /\ B = Pow(LimbBase, NumLimbs) /\ P >= 3 * B + 1 /\ P \in Nat
    BY Sizes
  <2> QED
    BY <2>1
<1>2. Combine(s, LimbBase) = ValueOf(s, LimbBase, NumLimbs)
  BY <1>1, CombineValue
<1>3. ValueOf(s, LimbBase, NumLimbs) \in 0 .. B - 1
  BY <1>1, ValueRange
<1> QED
  BY <1>2, <1>3 DEF Word

\* Combining the digits of a number.
LEMMA CombineDigits ==
    ASSUME NEW v \in Int, NEW base \in Nat \ {0}, NEW n \in Nat, NEW s, Len(s) = n,
           \A i \in 1 .. n : s[i] = Digits(v, base, n)[i], Pow(base, n) <= P
    PROVE  Combine(s, base) = v % Pow(base, n) /\ AreDigits(s, base, n)
<1>1. AreDigits(Digits(v, base, n), base, n)
  BY DigitsAre
<1>2. AreDigits(s, base, n)
  BY <1>1 DEF AreDigits
<1>3. Combine(s, base) = ValueOf(s, base, n)
  BY <1>2, CombineValue
<1>4. Digital(s, n) /\ base \in Int
  BY <1>2, DigitsRestrict
<1>5. ValueOf(s, base, n) = ValueOf(Digits(v, base, n), base, n)
  <2>1. \A i \in 1 .. n : Digits(v, base, n)[i] = s[i]
    OBVIOUS
  <2> QED
    BY <1>4, <2>1, ValueAgree
<1> QED
  BY <1>2, <1>3, <1>5, DigitsValue

(***************************************************************************)
(* U32ArithmeticGate.                                                      *)
(***************************************************************************)
LEMMA CanonicalMeans ==
    ASSUME NEW low \in Word, NEW high \in Word, NEW inverse \in F, Canonical(low, high, inverse)
    PROVE  high = B - 1 => low = 0
<1>1. SUFFICES ASSUME high = B - 1
               PROVE  low = 0
  OBVIOUS
<1>2. B \in Nat /\ P \in Nat \ {0} /\ P >= 3 * B + 1 /\ inverse \in Int
  BY Sizes, FieldInt
<1>3. Sub(B - 1, high) = 0
  <2>1. (B - 1) - high = 0
    BY <1>1, <1>2
  <2> QED
    BY <2>1, <1>2 DEF Sub
<1>4. Mul(inverse, 0) = 0
  <2>1. inverse * 0 = 0 /\ 0 % P = 0
    BY <1>2
  <2> QED
    BY <2>1 DEF Mul
<1>5. Sub(0, 1) = (-1) % P
  BY DEF Sub
<1>6. Mul((-1) % P, low) = 0
  BY <1>3, <1>4, <1>5 DEF Canonical
<1>7. low \in Int /\ low >= 0 /\ low < P
  BY <1>2 DEF Word
<1>8. (((-1) % P) * low) % P = ((-1) * low) % P
  <2>1. \A e \in Int : ((e % P) * low) % P = (e * low) % P
    BY <1>2, <1>7, ModMul
  <2>2. -1 \in Int
    OBVIOUS
  <2> QED
    BY <2>1, <2>2
<1>9. (-1) * low = -low
  BY <1>7
<1>10. (-low) % P = 0 % P
  BY <1>6, <1>8, <1>9, <1>2 DEF Mul
<1>11. -low \in Int /\ -low - 0 < P /\ 0 - (-low) < P
  BY <1>2, <1>7
<1>12. -low = 0
  BY <1>2, <1>10, <1>11, ModNear
<1> QED
  BY <1>7, <1>12

\* x * y + z never reaches the order, and a canonical pair of words neither.
LEMMA ProductRange ==
    ASSUME NEW x \in Word, NEW y \in Word, NEW z \in Word
    PROVE  x * y + z \in 0 .. P - 1
<1>1. B \in Nat /\ P = B * B - B + 1 /\ x \in 0 .. B - 1 /\ y \in 0 .. B - 1 /\ z \in 0 .. B - 1
  BY Sizes DEF Word
<1>2. x * y >= 0 /\ x * y <= (B - 1) * (B - 1)
  <2>1. x * y >= 0 /\ (B - 1 - x) * y >= 0 /\ (B - 1) * (B - 1 - y) >= 0
    BY <1>1
  <2>2. (B - 1 - x) * y = (B - 1) * y - x * y
    BY <1>1
  <2>3. (B - 1) * (B - 1 - y) = (B - 1) * (B - 1) - (B - 1) * y
    BY <1>1
  <2> QED
    BY <1>1, <2>1, <2>2, <2>3
<1>3. (B - 1) * (B - 1) = B * B - 2 * B + 1
  BY <1>1
<1> QED
  BY <1>1, <1>2, <1>3

LEMMA PairRange ==
    ASSUME NEW low \in Word, NEW high \in Word, high = B - 1 => low = 0
    PROVE  high * B + low \in 0 .. P - 1 /\ high * B \in 0 .. P - 1
<1>1. B \in Nat /\ B >= 4 /\ P = B * B - B + 1 /\ high \in 0 .. B - 1 /\ low \in 0 .. B - 1
  BY Sizes DEF Word
<1>2. CASE high = B - 1
  <2>1. high * B = B * B - B
    BY <1>1, <1>2
  <2>2. B * B >= B
    BY <1>1
  <2> QED
    BY <1>1, <1>2, <2>1, <2>2
<1>3. CASE high # B - 1
  <2>1. high <= B - 2
    BY <1>1, <1>3
  <2>2. (B - 2 - high) * B >= 0 /\ high * B >= 0
    BY <1>1, <2>1
  <2>3. (B - 2 - high) * B = B * B - 2 * B - high * B
    BY <1>1
  <2> QED
    BY <1>1, <2>2, <2>3
<1> QED
  BY <1>2, <1>3

LEMMA FieldPair ==
    ASSUME NEW a \in Int, NEW b \in Int, NEW c \in Int, a * b + c \in 0 .. P - 1
    PROVE  Add(Mul(a, b), c) = a * b + c
<1>1. PICK d \in Int : d = a * b
  OBVIOUS
<1>2. ((d % P) + c) % P = (d + c) % P
  BY ModAdd, Order
<1>3. (d + c) % P = d + c
  BY <1>1, ModSmall, Order
<1> QED
  BY <1>1, <1>2, <1>3 DEF Add, Mul

LEMMA ArithmeticSound ==
    ASSUME NEW x \in Word, NEW y \in Word, NEW z \in Word, NEW low \in Word, NEW high \in Word,
           NEW inverse \in F, Canonical(low, high, inverse),
           Add(Mul(high, B), low) = Add(Mul(x, y), z)
    PROVE  high * B + low = x * y + z
<1>1. high * B + low \in 0 .. P - 1
  BY CanonicalMeans, PairRange
<1>2. x * y + z \in 0 .. P - 1
  BY ProductRange
<1>3. {x, y, z, low, high, B} \subseteq Int
  BY FieldInt, Sizes
<1>4. Add(Mul(high, B), low) = high * B + low
  BY <1>1, <1>3, FieldPair
<1>5. Add(Mul(x, y), z) = x * y + z
  BY <1>2, <1>3, FieldPair
<1> QED
  BY <1>4, <1>5

LEMMA ReciprocalIs ==
    ASSUME NEW x \in 1 .. P - 1
    PROVE  Reciprocal(x) \in F /\ Mul(x, Reciprocal(x)) = 1
<1>1. PICK y \in 1 .. P - 1 : Mul(x, y) = 1
  BY GatesAssumption
<1>2. y \in F
  BY Order DEF F
<1> QED
  BY <1>1, <1>2 DEF Reciprocal

LEMMA DoubleLimbs ==
    2 * NumLimbs = NumLimbs + NumLimbs
BY Sizes

LEMMA ArithmeticComplete ==
    ASSUME NEW x \in Word, NEW y \in Word, NEW z \in Word
    PROVE  ArithmeticConstraints(ArithmeticGenerator(x, y, z))
<1> DEFINE output == Add(Mul(x, y), z)
           r == ArithmeticGenerator(x, y, z)
<1>0. {x, y, z} \subseteq Int
  BY FieldInt
<1>1. PICK v \in 0 .. P - 1 : v = x * y + z /\ output = v
  BY <1>0, ProductRange, FieldPair
<1>2. B \in Nat \ {0} /\ B >= 4 /\ P = B * B - B + 1 /\ P >= 3 * B + 1
  BY Sizes
<1>a. v \in Int /\ v >= 0 /\ v <= P - 1
  BY Order
<1>3. PICK h \in Int : h = v \div B
  BY <1>2, <1>a, ModDiv
<1>4. PICK l \in 0 .. B - 1 : l = v % B
  BY <1>2, <1>a, ModDiv
<1>5. v = B * h + l
  BY <1>2, <1>a, <1>3, <1>4, ModDiv
<1>6. h \in 0 .. B - 1 /\ (h = B - 1 => l = 0)
  <2>1. h >= 0
    <3>1. SUFFICES ASSUME h <= -1 PROVE FALSE
      OBVIOUS
    <3>2. B * (-1 - h) >= 0 /\ B * (-1 - h) = -B - B * h
      BY <3>1, <1>2
    <3> QED
      BY <3>2, <1>2, <1>5, <1>a
  <2>2. h <= B - 1
    <3>1. SUFFICES ASSUME h >= B PROVE FALSE
      BY <1>2
    <3>2. B * (h - B) >= 0 /\ B * (h - B) = B * h - B * B
      BY <3>1, <1>2
    <3> QED
      BY <3>2, <1>2, <1>5, <1>a
  <2>3. ASSUME h = B - 1 PROVE l = 0
    <3>1. B * h = B * B - B
      BY <2>3, <1>2
    <3> QED
      BY <3>1, <1>2, <1>5, <1>a
  <2> QED
    BY <2>1, <2>2, <2>3, <1>2
<1> HIDE DEF output
<1>7. /\ r.low = l /\ r.high = h /\ r.x = x /\ r.y = y /\ r.z = z
      /\ r.inverse = IF B - 1 - h = 0 THEN 0 ELSE Reciprocal(B - 1 - h)
      /\ r.limbs = Digits(v, LimbBase, 2 * NumLimbs)
  BY <1>1, <1>3, <1>4 DEF output, ArithmeticGenerator
<1> HIDE DEF r
<1>8. Canonical(l, h, r.inverse)
  <2>0. Sub(B - 1, h) = B - 1 - h
    <3>1. B - 1 - h \in 0 .. P - 1
      BY <1>2, <1>6
    <3> QED
      BY <3>1, ModSmall, Order DEF Sub
  <2>1. CASE h = B - 1
    <3>1. l = 0
      BY <1>6, <2>1
    <3>2. \A w \in Int : Mul(w, 0) = 0
      BY Order DEF Mul
    <3>3. r.inverse = 0 /\ Sub(Mul(0, Sub(B - 1, h)), 1) \in Int
      <4>1. B - 1 - h = 0
        BY <1>2, <2>1
      <4>2. r.inverse = 0
        BY <1>7, <4>1
      <4>3. Mul(0, Sub(B - 1, h)) \in Int
        BY <2>0, <4>1, FieldClosed, FieldInt
      <4> QED
        BY <4>2, <4>3, FieldClosed, FieldInt
    <3> QED
      BY <3>1, <3>2, <3>3 DEF Canonical
  <2>2. CASE h # B - 1
    <3>1. PICK d \in 1 .. P - 1 : d = B - 1 - h
      BY <1>2, <1>6, <2>2
    <3>2. r.inverse = Reciprocal(d)
      BY <1>7, <3>1
    <3>3. PICK i \in F : i = Reciprocal(d) /\ Mul(d, i) = 1
      BY ReciprocalIs
    <3>4. Mul(i, d) = 1
      <4>1. i * d = d * i
        BY FieldInt, Order
      <4> QED
        BY <3>3, <4>1 DEF Mul
    <3>5. Sub(1, 1) = 0
      <4>1. 1 - 1 = 0 /\ 0 % P = 0
        BY Order
      <4> QED
        BY <4>1 DEF Sub
    <3>6. Mul(0, l) = 0
      <4>1. 0 * l = 0 /\ 0 % P = 0
        BY Order, <1>2
      <4> QED
        BY <4>1 DEF Mul
    <3> QED
      BY <2>0, <3>1, <3>2, <3>3, <3>4, <3>5, <3>6 DEF Canonical
  <2> QED
    BY <2>1, <2>2
<1>9. Add(Mul(h, B), l) = v
  <2>1. h * B + l = v /\ h \in Int /\ l \in Int
    BY <1>2, <1>5, <1>6
  <2>2. h * B + l \in 0 .. P - 1 /\ B \in Int
    BY <2>1, <1>2
  <2> QED
    BY <2>1, <2>2, FieldPair
<1>10. LimbBase \in Nat \ {0} /\ NumLimbs \in Nat /\ B = Pow(LimbBase, NumLimbs) /\ B <= P
       /\ 2 * NumLimbs \in Nat
  <2>1. LimbBase \in Nat /\ LimbBase >= 2 /\ NumLimbs \in Nat /\ B = Pow(LimbBase, NumLimbs)
    BY Sizes
  <2> QED
    BY <2>1, <1>2, Order
<1>11. r.limbs \in [1 .. NumLimbs + NumLimbs -> 0 .. LimbBase - 1]
  <2>1. Digits(v, LimbBase, 2 * NumLimbs) \in [1 .. 2 * NumLimbs -> 0 .. LimbBase - 1]
    BY <1>10, <1>a, DigitsAre
  <2> QED
    BY <1>7, <2>1, DoubleLimbs
<1>12. \A j \in 1 .. 2 * NumLimbs : RangeProduct(r.limbs[j], LimbBase) = 0
  BY <1>11, DoubleLimbs, LimbRoots
<1>13. Combine(LowLimbs(r.limbs), LimbBase) = l
  <2>1. Len(LowLimbs(r.limbs)) = NumLimbs
    BY <1>10, <1>11, Halves
  <2>2. \A i \in 1 .. NumLimbs : LowLimbs(r.limbs)[i] = Digits(v, LimbBase, NumLimbs)[i]
    <3>1. \A i \in 1 .. NumLimbs : LowLimbs(r.limbs)[i] = r.limbs[i]
      BY <1>10, <1>11, Halves
    <3>2. \A i \in 1 .. NumLimbs : i \in 1 .. 2 * NumLimbs
      BY <1>10
    <3>3. \A i \in 1 .. NumLimbs :
            Digits(v, LimbBase, 2 * NumLimbs)[i] = Digits(v, LimbBase, NumLimbs)[i]
      BY <3>2 DEF Digits
    <3> QED
      BY <3>1, <3>3, <1>7
  <2>3. Combine(LowLimbs(r.limbs), LimbBase) = v % Pow(LimbBase, NumLimbs)
    BY <1>10, <1>a, <2>1, <2>2, CombineDigits, ZenonT(30)
  <2> QED
    BY <2>3, <1>4, <1>10
<1>14. Combine(HighLimbs(r.limbs), LimbBase) = h
  <2>1. Len(HighLimbs(r.limbs)) = NumLimbs
    BY <1>10, <1>11, Halves
  <2>2. \A i \in 1 .. NumLimbs : HighLimbs(r.limbs)[i] = Digits(h, LimbBase, NumLimbs)[i]
    <3>1. \A i \in 1 .. NumLimbs : HighLimbs(r.limbs)[i] = r.limbs[NumLimbs + i]
      BY <1>10, <1>11, Halves
    <3>2. \A i \in 1 .. NumLimbs :
            Digits(v, LimbBase, NumLimbs + NumLimbs)[NumLimbs + i]
              = Digits(v \div Pow(LimbBase, NumLimbs), LimbBase, NumLimbs)[i]
      BY <1>10, <1>a, DigitsAbove, ZenonT(30)
    <3> QED
      BY <3>1, <3>2, <1>3, <1>7, <1>10, DoubleLimbs
  <2>3. Combine(HighLimbs(r.limbs), LimbBase) = h % Pow(LimbBase, NumLimbs)
    BY <1>10, <2>1, <2>2, CombineDigits
  <2>4. h % B = h
    BY <1>6, <1>2
  <2> QED
    BY <2>3, <2>4, <1>10
<1>15. Add(Mul(x, y), z) = v
  BY <1>1 DEF output
<1> QED
  BY <1>7, <1>8, <1>9, <1>12, <1>13, <1>14, <1>15 DEF ArithmeticConstraints, r

(***************************************************************************)
(* U32AddManyGate.                                                         *)
(***************************************************************************)
\* f is the sum of the carry and of the addends up to each index.
Sums(f, addends, carry) ==
  /\ f[0] = carry
  /\ \A i \in 1 .. NumAddends : f[i] = f[i - 1] + addends[i]

LEMMA SumsExist ==
    ASSUME NEW addends \in [1 .. NumAddends -> Word], NEW carry \in Carry
    PROVE  \E f \in [0 .. NumAddends -> 0 .. B * CarryBase - 1] : Sums(f, addends, carry)
<1>1. PICK n \in Nat : n = NumAddends /\ n <= CarryBase
  BY GatesAssumption
<1>2. B \in Nat /\ B >= 4 /\ CarryBase \in Nat
  BY Sizes
<1>3. carry \in Int /\ carry >= 0 /\ carry <= CarryBase - 1
  BY <1>2 DEF Carry
<1>4. \A i \in 1 .. n : addends[i] \in Int /\ addends[i] >= 0 /\ addends[i] <= B - 1
  BY <1>1, <1>2 DEF Word
<1> DEFINE step == [i \in 1 .. n |-> [y \in Int |-> y + addends[i]]]
<1>5. step \in [1 .. n -> [Int -> Int]]
  BY <1>4
<1>6. \A i \in 1 .. n, y \in Int : step[i][y] = y + addends[i]
  OBVIOUS
<1> HIDE DEF step
<1>7. PICK f \in [0 .. n -> Int] : Iterates(f, n, carry, step)
  BY <1>3, <1>5, Recursion, Zenon
<1>8. f[0] = carry /\ \A i \in 1 .. n : f[i] = f[i - 1] + addends[i]
  <2>1. \A i \in 1 .. n : i - 1 \in 0 .. n
    OBVIOUS
  <2> QED
    BY <1>6, <1>7, <2>1 DEF Iterates
<1> DEFINE A == {i \in 0 .. n : f[i] >= 0 /\ f[i] <= carry + i * (B - 1)}
<1>9. 0 \in A
  <2>1. 0 * (B - 1) = 0 /\ 0 \in 0 .. n
    BY <1>2
  <2> QED
    BY <1>3, <1>8, <2>1
<1>10. ASSUME NEW i \in 1 .. n, i - 1 \in A
       PROVE  i \in A
  <2>1. i \in 0 .. n /\ i - 1 \in 0 .. n
    OBVIOUS
  <2>2. f[i] = f[i - 1] + addends[i] /\ f[i] \in Int /\ f[i - 1] \in Int
    BY <1>8, <2>1
  <2>3. (i - 1) * (B - 1) + (B - 1) = i * (B - 1) /\ (i - 1) * (B - 1) \in Int
    BY <1>2
  <2>4. f[i - 1] >= 0 /\ f[i - 1] <= carry + (i - 1) * (B - 1)
    BY <1>10
  <2>5. i * (B - 1) \in Int
    BY <1>2
  <2> QED
    BY <1>2, <1>3, <1>4, <2>1, <2>2, <2>3, <2>4, <2>5
<1> HIDE DEF A
<1>11. \A i \in 0 .. n : i \in A
  BY <1>9, <1>10, UpTo
<1>12. ASSUME NEW i \in 0 .. n
       PROVE  f[i] \in 0 .. B * CarryBase - 1
  <2>1. f[i] \in Int /\ f[i] >= 0 /\ f[i] <= carry + i * (B - 1)
    BY <1>11 DEF A
  <2>2. PICK c \in Nat : c = CarryBase
    BY <1>2
  <2>3. (c - i) * (B - 1) >= 0
    BY <1>1, <1>2, <2>2
  <2>4. (c - i) * (B - 1) = B * c - c - i * (B - 1)
    BY <1>2
  <2>5. B * c \in Int /\ i * (B - 1) \in Int
    BY <1>2
  <2> QED
    BY <1>2, <1>3, <2>1, <2>2, <2>3, <2>4, <2>5
<1>13. f \in [0 .. n -> 0 .. B * CarryBase - 1]
  BY <1>12
<1> QED
  BY <1>1, <1>8, <1>13 DEF Sums

\* The sum on the wires is the sum of the integers.
LEMMA SumWiresIs ==
    ASSUME NEW addends \in [1 .. NumAddends -> Word], NEW carry \in Carry,
           NEW f \in [0 .. NumAddends -> 0 .. B * CarryBase - 1], Sums(f, addends, carry)
    PROVE  SumWires(addends, carry) = f[NumAddends]
<1>1. PICK n \in Nat : n = NumAddends
  BY GatesAssumption
<1>2. B * CarryBase \in Int /\ B * CarryBase <= P
  BY Sizes, GatesAssumption, SMTT(30)
<1> DEFINE Body(g) == [i \in 0 .. n |-> IF i = 0 THEN carry ELSE Add(g[i - 1], addends[i])]
           sum == CHOOSE g : g = Body(g)
<1>3. f[0] = carry /\ \A i \in 1 .. n : f[i] = f[i - 1] + addends[i]
  BY <1>1 DEF Sums
<1>4. \A i \in 1 .. n : f[i] = Add(f[i - 1], addends[i])
  <2>1. ASSUME NEW i \in 1 .. n
        PROVE  f[i] = Add(f[i - 1], addends[i])
    <3>1. f[i] \in 0 .. P - 1
      BY <1>1, <1>2, Order
    <3>2. f[i] % P = f[i]
      BY <3>1, ModSmall, Order
    <3> QED
      BY <1>3, <3>2 DEF Add
  <2> QED
    BY <2>1
<1>5. f = Body(f)
  BY <1>1, <1>3, <1>4
<1>6. sum = Body(sum)
  BY <1>5, Zenon
<1>7. SumWires(addends, carry) = sum[n]
  BY <1>1 DEF SumWires
<1> HIDE DEF sum
<1> DEFINE A == {i \in 0 .. n : sum[i] = f[i]}
<1>8. 0 \in A
  BY <1>3, <1>6
<1>9. ASSUME NEW i \in 1 .. n, i - 1 \in A
      PROVE  i \in A
  <2>1. i \in 0 .. n /\ i # 0
    OBVIOUS
  <2>2. sum[i] = Add(sum[i - 1], addends[i])
    BY <1>6, <2>1
  <2> QED
    BY <1>4, <1>9, <2>1, <2>2
<1> HIDE DEF A
<1>10. n \in A
  <2>1. \A i \in 0 .. n : i \in A
    BY <1>8, <1>9, UpTo
  <2> QED
    BY <2>1
<1> QED
  BY <1>1, <1>7, <1>10 DEF A

\* The sum that makes a row correct.
LEMMA CorrectSumIs ==
    ASSUME NEW r, NEW f \in [0 .. NumAddends -> 0 .. B * CarryBase - 1],
           Sums(f, r.addends, r.carry)
    PROVE  AddManyCorrect(r) <=> r.carryOut * B + r.result = f[NumAddends]
<1>1. PICK n \in Nat : n = NumAddends
  BY GatesAssumption
<1> DEFINE Body(g) == [i \in 0 .. n |-> IF i = 0 THEN r.carry ELSE g[i - 1] + r.addends[i]]
           sum == CHOOSE g : g = Body(g)
<1>3. f[0] = r.carry /\ \A i \in 1 .. n : f[i] = f[i - 1] + r.addends[i]
  BY <1>1 DEF Sums
<1>5. f = Body(f)
  BY <1>1, <1>3
<1>6. sum = Body(sum)
  BY <1>5, Zenon
<1>7. AddManyCorrect(r) <=> r.carryOut * B + r.result = sum[n]
  BY <1>1 DEF AddManyCorrect
<1> HIDE DEF sum
<1> DEFINE A == {i \in 0 .. n : sum[i] = f[i]}
<1>8. 0 \in A
  BY <1>3, <1>6
<1>9. ASSUME NEW i \in 1 .. n, i - 1 \in A
      PROVE  i \in A
  <2>1. i \in 0 .. n /\ i # 0
    OBVIOUS
  <2>2. sum[i] = sum[i - 1] + r.addends[i]
    BY <1>6, <2>1
  <2> QED
    BY <1>3, <1>9, <2>1, <2>2
<1> HIDE DEF A
<1>10. n \in A
  <2>1. \A i \in 0 .. n : i \in A
    BY <1>8, <1>9, UpTo
  <2> QED
    BY <2>1
<1> QED
  BY <1>1, <1>7, <1>10 DEF A

LEMMA Widths ==
    /\ NumLimbs \in Nat \ {0} /\ CarryLimbs \in Nat \ {0} /\ NumAddends \in Nat \ {0}
    /\ LimbBase \in Nat \ {0} /\ B \in Nat \ {0} /\ CarryBase \in Nat \ {0}
    /\ B <= P /\ CarryBase <= P /\ B * CarryBase \in Nat /\ B * CarryBase <= P
    /\ B = Pow(LimbBase, NumLimbs) /\ CarryBase = Pow(LimbBase, CarryLimbs)
<1>1. /\ B \in Nat /\ B >= 4 /\ P \in Nat /\ P >= 3 * B + 1 /\ CarryBase \in Nat /\ CarryBase >= 2
      /\ CarryBase <= P /\ LimbBase \in Nat /\ LimbBase >= 2 /\ NumLimbs \in Nat \ {0}
      /\ B = Pow(LimbBase, NumLimbs)
  BY Sizes
<1>2. CarryLimbs \in Nat \ {0} /\ NumAddends \in Nat \ {0} /\ B * CarryBase <= P
  BY GatesAssumption
<1>3. B * CarryBase \in Nat
  BY <1>1
<1>4. CarryBase = Pow(LimbBase, CarryLimbs)
  BY DEF CarryBase
<1> QED
  BY <1>1, <1>2, <1>3, <1>4

\* Limbs that pass the range check.
LEMMA CheckedLimbs ==
    ASSUME NEW n \in Nat, NEW limbs \in [1 .. n -> F],
           \A j \in 1 .. n : RangeProduct(limbs[j], LimbBase) = 0
    PROVE  limbs \in [1 .. n -> 0 .. LimbBase - 1]
<1>1. \A j \in 1 .. n : limbs[j] \in Limb
  BY DEF Limb, RangeChecked
<1> QED
  BY <1>1, LimbIs

LEMMA CarryOf ==
    ASSUME NEW s, Len(s) = CarryLimbs, AreDigits(s, LimbBase, CarryLimbs)
    PROVE  Combine(s, LimbBase) \in Carry
<1>1. /\ LimbBase \in Nat \ {0} /\ CarryLimbs \in Nat /\ CarryBase \in Nat
      /\ CarryBase = Pow(LimbBase, CarryLimbs) /\ CarryBase <= P
  <2>1. LimbBase \in Nat /\ LimbBase >= 2 /\ CarryBase \in Nat /\ CarryBase <= P
    BY Sizes
  <2>2. CarryLimbs \in Nat
    BY GatesAssumption
  <2> QED
    BY <2>1, <2>2 DEF CarryBase
<1>2. Combine(s, LimbBase) = ValueOf(s, LimbBase, CarryLimbs)
  BY <1>1, CombineValue
<1>3. ValueOf(s, LimbBase, CarryLimbs) \in 0 .. CarryBase - 1
  BY <1>1, ValueRange
<1> QED
  BY <1>2, <1>3 DEF Carry

LEMMA CarryPair ==
    ASSUME NEW high \in Carry, NEW low \in Word
    PROVE  high * B + low \in 0 .. P - 1 /\ high \in Int /\ low \in Int
<1>1. B \in Nat /\ CarryBase \in Nat /\ B * CarryBase <= P
  BY Sizes, GatesAssumption
<1>2. PICK c \in Nat : c = CarryBase
  BY <1>1
<1>3. high \in 0 .. c - 1 /\ low \in 0 .. B - 1
  BY <1>2 DEF Carry, Word
<1>4. (c - 1 - high) * B >= 0 /\ high * B >= 0
  BY <1>1, <1>3
<1>5. (c - 1 - high) * B = B * c - B - high * B
  BY <1>1, <1>3
<1> QED
  BY <1>1, <1>2, <1>3, <1>4, <1>5, Order

LEMMA AddManySound ==
    ASSUME NEW r, r.addends \in [1 .. NumAddends -> Word], r.carry \in Carry,
           r.limbs \in [1 .. NumLimbs + CarryLimbs -> F], AddManyConstraints(r)
    PROVE  AddManyCorrect(r)
<1>1. NumLimbs \in Nat /\ CarryLimbs \in Nat /\ NumLimbs + CarryLimbs \in Nat /\ B \in Int
  BY Widths
<1>2. r.limbs \in [1 .. NumLimbs + CarryLimbs -> 0 .. LimbBase - 1]
  BY <1>1, CheckedLimbs DEF AddManyConstraints
<1>3. r.result \in Word /\ r.carryOut \in Carry
  <2>1. /\ Len(LowLimbs(r.limbs)) = NumLimbs /\ AreDigits(LowLimbs(r.limbs), LimbBase, NumLimbs)
        /\ Len(HighLimbs(r.limbs)) = CarryLimbs
        /\ AreDigits(HighLimbs(r.limbs), LimbBase, CarryLimbs)
    BY <1>1, <1>2, Halves
  <2> QED
    BY <2>1, WordOf, CarryOf DEF AddManyConstraints
<1>4. PICK f \in [0 .. NumAddends -> 0 .. B * CarryBase - 1] : Sums(f, r.addends, r.carry)
  BY SumsExist
<1>5. SumWires(r.addends, r.carry) = f[NumAddends]
  BY <1>4, SumWiresIs
<1>6. Add(Mul(r.carryOut, B), r.result) = r.carryOut * B + r.result
  BY <1>1, <1>3, CarryPair, FieldPair
<1>7. r.carryOut * B + r.result = f[NumAddends]
  BY <1>5, <1>6 DEF AddManyConstraints
<1> QED
  BY <1>4, <1>7, CorrectSumIs

LEMMA Joined ==
    ASSUME NEW s \in [1 .. NumLimbs -> 0 .. LimbBase - 1],
           NEW t \in [1 .. CarryLimbs -> 0 .. LimbBase - 1]
    PROVE  /\ s \o t \in [1 .. NumLimbs + CarryLimbs -> 0 .. LimbBase - 1]
           /\ \A i \in 1 .. NumLimbs : (s \o t)[i] = s[i]
           /\ \A i \in 1 .. CarryLimbs : (s \o t)[NumLimbs + i] = t[i]
<1> DEFINE S == 0 .. LimbBase - 1
<1>0. s \in [1 .. NumLimbs -> S] /\ t \in [1 .. CarryLimbs -> S]
  OBVIOUS
<1> HIDE DEF S
<1>1. PICK m \in Nat, n \in Nat : m = NumLimbs /\ n = CarryLimbs
  BY Widths
<1>2. s \in [1 .. m -> S] /\ t \in [1 .. n -> S]
  BY <1>0, <1>1
<1>3. Joins(s \o t, s, m, t, n, S)
  BY <1>2, Concatenated, Zenon
<1> QED
  BY <1>1, <1>3 DEF S, Joins

LEMMA AddManyComplete ==
    ASSUME NEW addends \in [1 .. NumAddends -> Word], NEW carry \in Carry
    PROVE  AddManyConstraints(AddManyGenerator(addends, carry))
<1> DEFINE r == AddManyGenerator(addends, carry)
<1>1. PICK f \in [0 .. NumAddends -> 0 .. B * CarryBase - 1] : Sums(f, addends, carry)
  BY SumsExist
<1>2. SumWires(addends, carry) = f[NumAddends]
  BY <1>1, SumWiresIs
<1>3. /\ B \in Nat \ {0} /\ CarryBase \in Nat \ {0}
      /\ NumLimbs \in Nat /\ CarryLimbs \in Nat /\ LimbBase \in Nat \ {0}
      /\ B = Pow(LimbBase, NumLimbs) /\ B <= P /\ CarryBase <= P
      /\ CarryBase = Pow(LimbBase, CarryLimbs)
  BY Widths
<1>4. PICK v \in Nat : v = SumWires(addends, carry) /\ v < B * CarryBase
  <2>1. NumAddends \in 0 .. NumAddends
    BY GatesAssumption
  <2>2. B * CarryBase \in Int
    BY Widths
  <2> QED
    BY <1>2, <2>1, <2>2
<1>5. PICK h \in 0 .. CarryBase - 1, l \in 0 .. B - 1 : v = B * h + l /\ v % B = l /\ v \div B = h
  <2>1. B \in Nat \ {0} /\ CarryBase \in Nat \ {0} /\ v < B * CarryBase
    BY <1>3, <1>4
  <2> QED
    BY <2>1, DivRange
<1>6. h \in Int /\ l \in Int /\ v = B * h + l
  BY <1>3, <1>5
<1> DEFINE lows == Digits(l, LimbBase, NumLimbs)
           highs == Digits(h, LimbBase, CarryLimbs)
<1>7. /\ r.addends = addends /\ r.carry = carry /\ r.result = l /\ r.carryOut = h
      /\ r.limbs = lows \o highs
  BY <1>4, <1>5 DEF AddManyGenerator
<1> HIDE DEF r
<1>8. /\ lows \in [1 .. NumLimbs -> 0 .. LimbBase - 1] /\ Len(lows) = NumLimbs
      /\ highs \in [1 .. CarryLimbs -> 0 .. LimbBase - 1] /\ Len(highs) = CarryLimbs
  BY <1>3, <1>6, DigitsAre
<1> HIDE DEF lows, highs
<1>9. /\ r.limbs \in [1 .. NumLimbs + CarryLimbs -> 0 .. LimbBase - 1]
      /\ \A i \in 1 .. NumLimbs : r.limbs[i] = lows[i]
      /\ \A i \in 1 .. CarryLimbs : r.limbs[NumLimbs + i] = highs[i]
  <2>1. LimbBase \in Nat /\ NumLimbs \in Nat /\ CarryLimbs \in Nat
    BY <1>3
  <2>2. /\ lows \o highs \in [1 .. NumLimbs + CarryLimbs -> 0 .. LimbBase - 1]
        /\ \A i \in 1 .. NumLimbs : (lows \o highs)[i] = lows[i]
        /\ \A i \in 1 .. CarryLimbs : (lows \o highs)[NumLimbs + i] = highs[i]
    BY <1>8, Joined
  <2> QED
    BY <1>7, <2>2
<1>10. \A j \in 1 .. NumLimbs + CarryLimbs : RangeProduct(r.limbs[j], LimbBase) = 0
  BY <1>9, LimbRoots
<1>11. /\ Len(LowLimbs(r.limbs)) = NumLimbs /\ Len(HighLimbs(r.limbs)) = CarryLimbs
       /\ \A i \in 1 .. NumLimbs : LowLimbs(r.limbs)[i] = lows[i]
       /\ \A i \in 1 .. CarryLimbs : HighLimbs(r.limbs)[i] = highs[i]
  BY <1>3, <1>9, Halves
<1>12. Combine(LowLimbs(r.limbs), LimbBase) = l
  <2>1. Pow(LimbBase, NumLimbs) <= P
    BY <1>3
  <2>2. Combine(LowLimbs(r.limbs), LimbBase) = l % Pow(LimbBase, NumLimbs)
    <3>1. \A i \in 1 .. NumLimbs : LowLimbs(r.limbs)[i] = Digits(l, LimbBase, NumLimbs)[i]
      BY <1>11 DEF lows
    <3>2. /\ LimbBase \in Nat \ {0} /\ NumLimbs \in Nat /\ l \in Int
          /\ Len(LowLimbs(r.limbs)) = NumLimbs
      BY <1>3, <1>6, <1>11
    <3> QED
      BY <2>1, <3>1, <3>2, CombineDigits
  <2>3. l % B = l
    BY <1>3, ModSmall
  <2> QED
    BY <1>3, <2>2, <2>3
<1>13. Combine(HighLimbs(r.limbs), LimbBase) = h
  <2>1. Pow(LimbBase, CarryLimbs) <= P
    BY <1>3
  <2>2. Combine(HighLimbs(r.limbs), LimbBase) = h % Pow(LimbBase, CarryLimbs)
    <3>1. \A i \in 1 .. CarryLimbs : HighLimbs(r.limbs)[i] = Digits(h, LimbBase, CarryLimbs)[i]
      BY <1>11 DEF highs
    <3>2. /\ LimbBase \in Nat \ {0} /\ CarryLimbs \in Nat /\ h \in Int
          /\ Len(HighLimbs(r.limbs)) = CarryLimbs
      BY <1>3, <1>6, <1>11
    <3> QED
      BY <2>1, <3>1, <3>2, CombineDigits
  <2>3. h % CarryBase = h
    BY <1>3, ModSmall
  <2> QED
    BY <1>3, <2>2, <2>3
<1>14. Add(Mul(h, B), l) = v
  <2>1. h \in Carry /\ l \in Word
    BY DEF Carry, Word
  <2>2. h * B + l \in 0 .. P - 1 /\ l \in Int /\ B \in Int
    BY <2>1, <1>3, CarryPair
  <2>3. h * B + l = v
    BY <1>3, <1>6
  <2> QED
    BY <2>2, <2>3, FieldPair
<1> QED
  BY <1>4, <1>7, <1>10, <1>12, <1>13, <1>14 DEF AddManyConstraints, r

(***************************************************************************)
(* U32SubtractionGate and U32RangeCheckGate.                               *)
(***************************************************************************)
\* The wires that a Boolean constraint accepts.
LEMMA BooleanWire ==
    ASSUME NEW b \in F, Mul(b, Sub(1, b)) = 0
    PROVE  b \in Bit
<1>1. b \in Int /\ 1 \in Int /\ b >= 0 /\ b < P /\ P \in Nat \ {0}
  BY Order DEF F
<1>2. Sub(1, b) \in F
  BY <1>1, FieldClosed
<1>3. b = 0 \/ Sub(1, b) = 0
  BY <1>2, NoZeroDivisors
<1>4. ASSUME Sub(1, b) = 0
      PROVE  b = 1
  <2>1. (1 - b) % P = 0 % P /\ 1 - b \in Int
    BY <1>1, <1>4 DEF Sub
  <2>2. P >= 2
    <3>1. P >= 3 * B + 1 /\ B \in Nat /\ B >= 4
      BY Sizes
    <3> QED
      BY <3>1, <1>1
  <2>3. PICK e \in Int : e = 1 - b
    BY <2>1
  <2>4. e % P = 0 /\ e < P /\ -e < P
    BY <1>1, <1>4, <2>2, <2>3 DEF Sub
  <2>5. e = 0
    BY <1>1, <2>4, ModZero
  <2> QED
    BY <1>1, <2>3, <2>5
<1> QED
  BY <1>3, <1>4 DEF Bit

\* Linear combinations on the wires.
LEMMA FieldLinear ==
    ASSUME NEW x \in Int, NEW y \in Int, NEW b \in Int, NEW c \in Int, NEW d \in Int
    PROVE  /\ Sub(Sub(x, y), b) = (x - y - b) % P
           /\ Add(Sub(Sub(x, y), b), Mul(c, d)) = (x - y - b + c * d) % P
<1>1. P \in Nat \ {0} /\ x - y \in Int /\ -b \in Int
  BY Order
<1>2. (((x - y) % P) + (-b)) % P = ((x - y) + (-b)) % P
  BY <1>1, ModAdd
<1>3. PICK e \in Int : e = (x - y) % P
  BY <1>1, ModRange
<1>4. e + (-b) = e - b /\ (x - y) + (-b) = x - y - b
  BY <1>1
<1>5. Sub(Sub(x, y), b) = (x - y - b) % P
  BY <1>2, <1>3, <1>4 DEF Sub
<1>6. PICK w \in Int, u \in Int : w = x - y - b /\ u = c * d
  OBVIOUS
<1>7. PICK v \in Int : v = u % P
  BY <1>1, ModRange
<1>8. ((w % P) + v) % P = (w + v) % P
  BY <1>1, ModAdd
<1>9. (v + w) % P = (u + w) % P
  BY <1>1, <1>7, ModAdd
<1>10. w + v = v + w /\ u + w = w + u
  OBVIOUS
<1> QED
  BY <1>5, <1>6, <1>7, <1>8, <1>9, <1>10 DEF Add, Mul

LEMMA SubtractionSound ==
    ASSUME NEW r, r.x \in Word, r.y \in Word, r.borrow \in Bit, r.borrowOut \in F,
           r.limbs \in [1 .. NumLimbs -> F], SubtractionConstraints(r)
    PROVE  SubtractionCorrect(r)
<1>1. NumLimbs \in Nat /\ B \in Nat /\ B >= 4 /\ P \in Nat \ {0} /\ P >= 3 * B + 1
  BY Sizes
<1>2. r.limbs \in [1 .. NumLimbs -> 0 .. LimbBase - 1]
  BY <1>1, CheckedLimbs DEF SubtractionConstraints
<1>3. r.result \in Word
  <2>1. Len(r.limbs) = NumLimbs /\ AreDigits(r.limbs, LimbBase, NumLimbs)
    BY <1>1, <1>2, LengthIs DEF AreDigits
  <2> QED
    BY <2>1, WordOf DEF SubtractionConstraints
<1>4. r.borrowOut \in Bit
  BY BooleanWire DEF SubtractionConstraints
<1>5. PICK x \in 0 .. B - 1, y \in 0 .. B - 1, res \in 0 .. B - 1, b \in {0, 1}, o \in {0, 1} :
        x = r.x /\ y = r.y /\ res = r.result /\ b = r.borrow /\ o = r.borrowOut
  BY <1>3, <1>4, Zenon DEF Word, Bit
<1>6. {x, y, res, b, o, B} \subseteq Int
  BY <1>1
<1>7. res = (x - y - b + B * o) % P
  <2>1. res = Add(Sub(Sub(x, y), b), Mul(B, o))
    BY <1>5 DEF SubtractionConstraints
  <2>2. x \in Int /\ y \in Int /\ b \in Int /\ B \in Int /\ o \in Int
    BY <1>6
  <2> QED
    BY <2>1, <2>2, FieldLinear
<1>8. PICK w \in Int : w = x - y - b + B * o
  BY <1>6
<1>9. w <= 2 * B /\ w >= -B
  <2>1. CASE o = 0
    BY <1>1, <1>6, <1>8, <2>1
  <2>2. CASE o = 1
    BY <1>1, <1>6, <1>8, <2>2
  <2> QED
    BY <2>1, <2>2
<1>10. res % P = w % P
  <2>1. res \in 0 .. P - 1
    BY <1>1
  <2> QED
    BY <1>1, <1>7, <1>8, <2>1, ModSmall
<1>11. res - w < P /\ w - res < P
  BY <1>1, <1>6, <1>9
<1>12. res = w
  BY <1>1, <1>6, <1>10, <1>11, ModNear
<1>13. /\ res - o * B = x - y - b
       /\ o = IF y + b > x THEN 1 ELSE 0
  <2>1. CASE o = 0
    BY <1>1, <1>6, <1>8, <1>12, <2>1
  <2>2. CASE o = 1
    BY <1>1, <1>6, <1>8, <1>12, <2>2
  <2> QED
    BY <2>1, <2>2
<1> QED
  BY <1>5, <1>13 DEF SubtractionCorrect

\* A word's limbs pass the range check and combine to the word.
LEMMA WordLimbs ==
    ASSUME NEW v \in Word
    PROVE  /\ Combine(Digits(v, LimbBase, NumLimbs), LimbBase) = v
           /\ \A j \in 1 .. NumLimbs : RangeProduct(Digits(v, LimbBase, NumLimbs)[j], LimbBase) = 0
<1>1. /\ LimbBase \in Nat \ {0} /\ NumLimbs \in Nat /\ B = Pow(LimbBase, NumLimbs) /\ B \in Nat \ {0}
      /\ Pow(LimbBase, NumLimbs) <= P
  BY Widths
<1>2. v \in Int /\ v \in 0 .. B - 1
  BY <1>1 DEF Word
<1>3. /\ Digits(v, LimbBase, NumLimbs) \in [1 .. NumLimbs -> 0 .. LimbBase - 1]
      /\ Len(Digits(v, LimbBase, NumLimbs)) = NumLimbs
  BY <1>1, <1>2, DigitsAre
<1>4. Combine(Digits(v, LimbBase, NumLimbs), LimbBase) = v % Pow(LimbBase, NumLimbs)
  <2>1. LimbBase \in Nat \ {0} /\ NumLimbs \in Nat /\ Pow(LimbBase, NumLimbs) <= P
    BY <1>1
  <2> QED
    BY <1>2, <1>3, <2>1, CombineDigits
<1>5. v % B = v
  BY <1>1, <1>2, ModSmall
<1>6. \A j \in 1 .. NumLimbs : RangeProduct(Digits(v, LimbBase, NumLimbs)[j], LimbBase) = 0
  BY <1>3, LimbRoots
<1> QED
  BY <1>1, <1>4, <1>5, <1>6

LEMMA SubtractionComplete ==
    ASSUME NEW x \in Word, NEW y \in Word, NEW borrow \in Bit
    PROVE  SubtractionConstraints(SubtractionGenerator(x, y, borrow))
<1> DEFINE r == SubtractionGenerator(x, y, borrow)
           initial == Sub(Sub(x, y), borrow)
           out == IF initial > B THEN 1 ELSE 0
           res == Add(initial, Mul(B, out))
<1>1. B \in Nat /\ B >= 4 /\ P \in Nat \ {0} /\ P >= 3 * B + 1
  BY Sizes
<1>2. /\ x \in Int /\ x >= 0 /\ x <= B - 1 /\ y \in Int /\ y >= 0 /\ y <= B - 1
      /\ borrow \in {0, 1} /\ borrow \in Int
  BY <1>1 DEF Word, Bit
<1>3. PICK w \in Int : w = x - y - borrow /\ w <= B - 1 /\ w >= -B
  BY <1>1, <1>2
<1>4. initial = w % P
  BY <1>2, <1>3, FieldLinear
<1>5. out \in {0, 1}
  OBVIOUS
<1>6. res = (w + B * out) % P
  <2>1. out \in Int /\ B \in Int
    BY <1>1, <1>5
  <2> HIDE DEF out
  <2> QED
    BY <1>2, <1>3, <2>1, FieldLinear
<1>7. res \in Word
  <2>1. CASE w >= 0
    <3>1. w \in 0 .. P - 1
      BY <1>1, <1>3, <2>1
    <3>2. w % P = w
      BY <1>1, <3>1, ModSmall
    <3>3. out = 0
      BY <1>1, <1>3, <1>4, <3>2
    <3>4. w + B * 0 = w
      BY <1>1
    <3> QED
      BY <1>1, <1>3, <1>6, <2>1, <3>2, <3>3, <3>4 DEF Word
  <2>2. CASE w < 0
    <3>1. P + w \in 0 .. P - 1 /\ P + w > B /\ P * 1 + w = P + w
      BY <1>1, <1>3, <2>2
    <3>2. (P * 1 + w) % P = w % P
      <4>1. \A k \in Int : (P * k + w) % P = w % P
        BY <1>1, ModShift
      <4> QED
        BY <4>1
    <3>3. (P + w) % P = P + w
      BY <1>1, <3>1, ModSmall
    <3>4. out = 1
      BY <1>4, <3>1, <3>2, <3>3
    <3>5. w + B * 1 \in 0 .. P - 1 /\ w + B * 1 \in 0 .. B - 1
      BY <1>1, <1>3, <2>2
    <3>6. (w + B * 1) % P = w + B * 1
      BY <1>1, <3>5, ModSmall
    <3> QED
      BY <1>6, <3>4, <3>5, <3>6 DEF Word
  <2> QED
    BY <1>3, <2>1, <2>2
<1>8. Mul(out, Sub(1, out)) = 0
  <2>1. Sub(1, 1) = 0 /\ Mul(1, 0) = 0
    <3>1. 1 - 1 = 0 /\ 1 * 0 = 0 /\ 0 % P = 0
      BY <1>1
    <3> QED
      BY <3>1 DEF Mul, Sub
  <2>2. Mul(0, Sub(1, 0)) = 0
    <3>1. Sub(1, 0) \in Int
      BY FieldClosed, FieldInt
    <3>2. 0 * Sub(1, 0) = 0 /\ 0 % P = 0
      BY <1>1, <3>1
    <3> QED
      BY <3>2 DEF Mul
  <2> HIDE DEF out
  <2> QED
    BY <1>5, <2>1, <2>2
<1>9. /\ Combine(Digits(res, LimbBase, NumLimbs), LimbBase) = res
      /\ \A j \in 1 .. NumLimbs : RangeProduct(Digits(res, LimbBase, NumLimbs)[j], LimbBase) = 0
  <2> HIDE DEF res
  <2> QED
    BY <1>7, WordLimbs
<1>10. /\ r.x = x /\ r.y = y /\ r.borrow = borrow /\ r.borrowOut = out /\ r.result = res
       /\ r.limbs = Digits(res, LimbBase, NumLimbs)
  BY DEF SubtractionGenerator
<1>11. res = Add(Sub(Sub(x, y), borrow), Mul(B, out))
  OBVIOUS
<1> HIDE DEF r, initial, out, res
<1>12. SubtractionConstraints(r)
  BY <1>8, <1>9, <1>10, <1>11 DEF SubtractionConstraints
<1> QED
  BY <1>12 DEF r

LEMMA RangeCheckSound ==
    ASSUME NEW r, r.limbs \in [1 .. NumLimbs -> F], RangeCheckConstraints(r)
    PROVE  RangeCheckCorrect(r)
<1>1. NumLimbs \in Nat
  BY Widths
<1>2. r.limbs \in [1 .. NumLimbs -> 0 .. LimbBase - 1]
  BY <1>1, CheckedLimbs DEF RangeCheckConstraints
<1>3. Len(r.limbs) = NumLimbs /\ AreDigits(r.limbs, LimbBase, NumLimbs)
  BY <1>1, <1>2, LengthIs DEF AreDigits
<1> QED
  BY <1>3, WordOf DEF RangeCheckConstraints, RangeCheckCorrect

LEMMA RangeCheckComplete ==
    ASSUME NEW input \in Word
    PROVE  RangeCheckConstraints(RangeCheckGenerator(input))
<1>1. input % B = input
  <2>1. B \in Nat \ {0} /\ input \in 0 .. B - 1
    BY Widths DEF Word
  <2> QED
    BY <2>1, ModSmall
<1>2. RangeCheckGenerator(input).input = input
      /\ RangeCheckGenerator(input).limbs = Digits(input, LimbBase, NumLimbs)
  BY <1>1 DEF RangeCheckGenerator
<1> QED
  BY <1>2, WordLimbs DEF RangeCheckConstraints

(***************************************************************************)
(* ComparisonGate.                                                         *)
(***************************************************************************)
LEMMA Chunks ==
    /\ NumChunks \in Nat \ {0} /\ ChunkBits \in Nat \ {0}
    /\ ChunkSize \in Nat \ {0} /\ 2 * ChunkSize <= P /\ Pow(ChunkSize, NumChunks) <= P
    /\ Pow(2, ChunkBits) = ChunkSize /\ Pow(2, ChunkBits + 1) = 2 * ChunkSize
<1>1. /\ NumChunks \in Nat \ {0} /\ ChunkBits \in Nat \ {0}
      /\ 2 * ChunkSize <= P /\ Pow(ChunkSize, NumChunks) <= P
  BY GatesAssumption
<1>2. ChunkSize \in Nat /\ ChunkSize >= 2
  BY Sizes
<1>3. Pow(2, ChunkBits) = ChunkSize
  BY DEF ChunkSize
<1>4. Pow(2, ChunkBits + 1) = 2 * Pow(2, ChunkBits)
  BY <1>1, PowStep
<1> QED
  BY <1>1, <1>2, <1>3, <1>4

\* The order in the field of a difference of chunks.
LEMMA ChunkDifference ==
    ASSUME NEW f \in 0 .. ChunkSize - 1, NEW s \in 0 .. ChunkSize - 1
    PROVE  /\ s - f \in Int /\ -ChunkSize < s - f /\ s - f < ChunkSize
           /\ Sub(s, f) \in F /\ (Sub(s, f) = 0 <=> f = s)
<1>1. ChunkSize \in Nat \ {0} /\ 2 * ChunkSize <= P /\ P \in Nat \ {0}
  BY Chunks, Order
<1>2. f \in Int /\ s \in Int
  BY <1>1
<1>3. PICK d \in Int : d = s - f /\ -ChunkSize < d /\ d < ChunkSize
  BY <1>1, <1>2
<1>4. ASSUME Sub(s, f) = 0
      PROVE  f = s
  <2>1. d % P = 0 /\ d < P /\ -d < P
    BY <1>1, <1>3, <1>4 DEF Sub
  <2>2. d = 0
    BY <1>1, <2>1, ModZero
  <2> QED
    BY <1>2, <1>3, <2>2
<1>5. ASSUME f = s
      PROVE  Sub(s, f) = 0
  <2>1. s - f = 0 /\ 0 % P = 0
    BY <1>1, <1>2, <1>5
  <2> QED
    BY <2>1 DEF Sub
<1> QED
  BY <1>2, <1>3, <1>4, <1>5, FieldClosed

\* The equality wire of a chunk tells whether the chunks are equal.
LEMMA EqualWire ==
    ASSUME NEW f \in 0 .. ChunkSize - 1, NEW s \in 0 .. ChunkSize - 1, NEW e \in F, NEW u \in F,
           Mul(Sub(s, f), u) = Sub(1, e), Mul(e, Sub(s, f)) = 0
    PROVE  e = IF f = s THEN 1 ELSE 0
<1>1. Sub(s, f) \in F /\ (Sub(s, f) = 0 <=> f = s)
  BY ChunkDifference
<1>2. CASE f # s
  BY <1>1, <1>2, NoZeroDivisors
<1>3. CASE f = s
  <2>1. e \in Int /\ u \in Int /\ e >= 0 /\ e < P /\ P \in Nat \ {0}
    BY Order DEF F
  <2>2. Mul(0, u) = 0
    <3>1. 0 * u = 0 /\ 0 % P = 0
      BY <2>1
    <3> QED
      BY <3>1 DEF Mul
  <2>3. PICK d \in Int : d = 1 - e
    BY <2>1
  <2>4. P >= 2
    <3>1. ChunkSize \in Nat \ {0} /\ 2 * ChunkSize <= P
      BY Chunks
    <3> QED
      BY <3>1, <2>1
  <2>5. d % P = 0 /\ d < P /\ -d < P
    BY <1>1, <1>3, <2>1, <2>2, <2>3, <2>4 DEF Sub
  <2>6. d = 0
    BY <2>1, <2>5, ModZero
  <2> QED
    BY <1>3, <2>1, <2>3, <2>6
<1> QED
  BY <1>2, <1>3

\* The wires of a row that a chain of comparisons relies on.
Chain(r) ==
  /\ r.firsts \in [1 .. NumChunks -> 0 .. ChunkSize - 1]
  /\ r.seconds \in [1 .. NumChunks -> 0 .. ChunkSize - 1]
  /\ \A i \in 1 .. NumChunks :
       /\ r.equal[i] = IF r.firsts[i] = r.seconds[i] THEN 1 ELSE 0
       /\ r.mid[i] = Mul(r.equal[i], DiffSoFar(r, i - 1))

LEMMA FieldUnits ==
    ASSUME NEW x \in F
    PROVE  /\ Mul(1, x) = x /\ Mul(0, x) = 0 /\ Add(x, 0) = x /\ Add(0, x) = x
           /\ Sub(1, 1) = 0 /\ Sub(1, 0) = 1
<1>1. P \in Nat \ {0} /\ x \in Int /\ x \in 0 .. P - 1
  BY Order DEF F
<1>2. 1 * x = x /\ 0 * x = 0 /\ x + 0 = x /\ 0 + x = x /\ 1 - 1 = 0 /\ 1 - 0 = 1
  BY <1>1
<1>3. x % P = x /\ 0 % P = 0
  BY <1>1, ModSmall
<1>4. 1 % P = 1
  <2>1. ChunkSize \in Nat \ {0} /\ 2 * ChunkSize <= P
    BY Chunks
  <2>2. 1 \in 0 .. P - 1
    BY <1>1, <2>1
  <2> QED
    BY <1>1, <2>2, ModSmall
<1> QED
  BY <1>2, <1>3, <1>4 DEF Mul, Add, Sub

\* What the difference so far is after a chunk: that of the chunk if the
\* chunks differ, the one before otherwise.
LEMMA DiffStep ==
    ASSUME NEW r, Chain(r), NEW i \in 1 .. NumChunks, DiffSoFar(r, i - 1) \in F
    PROVE  DiffSoFar(r, i) = IF r.firsts[i] = r.seconds[i] THEN DiffSoFar(r, i - 1)
                             ELSE Sub(r.seconds[i], r.firsts[i])
<1>0. i # 0
  BY Chunks
<1>1. r.firsts[i] \in 0 .. ChunkSize - 1 /\ r.seconds[i] \in 0 .. ChunkSize - 1
  BY DEF Chain
<1>2. PICK d \in F : d = Sub(r.seconds[i], r.firsts[i])
  BY <1>1, ChunkDifference
<1>3. PICK e \in F : e = DiffSoFar(r, i - 1)
  OBVIOUS
<1>4. /\ r.equal[i] = IF r.firsts[i] = r.seconds[i] THEN 1 ELSE 0
      /\ r.mid[i] = Mul(r.equal[i], e)
  BY <1>3 DEF Chain
<1>5. DiffSoFar(r, i) = Add(Mul(r.equal[i], e), Mul(Sub(1, r.equal[i]), d))
  BY <1>0, <1>2, <1>4 DEF DiffSoFar
<1>6. CASE r.firsts[i] = r.seconds[i]
  <2>1. DiffSoFar(r, i) = Add(Mul(1, e), Mul(Sub(1, 1), d))
    BY <1>4, <1>5, <1>6
  <2> QED
    BY <1>3, <1>6, <2>1, FieldUnits
<1>7. CASE r.firsts[i] # r.seconds[i]
  <2>1. DiffSoFar(r, i) = Add(Mul(0, e), Mul(Sub(1, 0), d))
    BY <1>4, <1>5, <1>7
  <2> QED
    BY <1>2, <1>7, <2>1, FieldUnits
<1> QED
  BY <1>6, <1>7

\* d is the difference so far, and its sign tells which of the numbers that
\* the lowest i chunks make up is the larger.
Decides(r, i, d) ==
  /\ -ChunkSize < d /\ d < ChunkSize
  /\ DiffSoFar(r, i) = d % P
  /\ d >= 0 <=> ValueOf(r.firsts, ChunkSize, i) <= ValueOf(r.seconds, ChunkSize, i)

LEMMA DiffDecides ==
    ASSUME NEW r, Chain(r)
    PROVE  \E d \in Int : Decides(r, NumChunks, d)
<1>1. PICK n \in Nat : n = NumChunks
  BY Chunks
<1>2. ChunkSize \in Nat \ {0} /\ 2 * ChunkSize <= P /\ P \in Nat \ {0}
  BY Chunks, Order
<1>3. /\ AreDigits(r.firsts, ChunkSize, n) /\ AreDigits(r.seconds, ChunkSize, n)
  BY <1>1 DEF Chain, AreDigits
<1> DEFINE A == {i \in 0 .. n : \E d \in Int : Decides(r, i, d)}
<1>4. 0 \in A
  <2>1. DiffSoFar(r, 0) = 0 % P
    BY <1>2 DEF DiffSoFar
  <2>2. ValueOf(r.firsts, ChunkSize, 0) = 0 /\ ValueOf(r.seconds, ChunkSize, 0) = 0
    BY <1>2, ValueZero
  <2>3. Decides(r, 0, 0)
    BY <1>2, <2>1, <2>2 DEF Decides
  <2> QED
    BY <2>3
<1>5. ASSUME NEW i \in 1 .. n, i - 1 \in A
      PROVE  i \in A
  <2>1. i \in Nat \ {0} /\ i - 1 \in Nat /\ i \in 0 .. n /\ i - 1 \in 0 .. n /\ i \in 1 .. NumChunks
    BY <1>1
  <2>2. PICK d \in Int : Decides(r, i - 1, d)
    BY <1>5
  <2>3. DiffSoFar(r, i - 1) \in F
    BY <1>2, <2>2, ModRange DEF Decides, F
  <2>4. DiffSoFar(r, i) = IF r.firsts[i] = r.seconds[i] THEN DiffSoFar(r, i - 1)
                          ELSE Sub(r.seconds[i], r.firsts[i])
    BY <2>1, <2>3, DiffStep
  <2>5. PICK f \in 0 .. ChunkSize - 1, s \in 0 .. ChunkSize - 1 : f = r.firsts[i] /\ s = r.seconds[i]
    BY <2>1 DEF Chain
  <2>6. PICK p \in Nat \ {0} : p = Pow(ChunkSize, i - 1)
    BY <1>2, <2>1, PowPositive
  <2>7. PICK v \in 0 .. p - 1, w \in 0 .. p - 1 :
          v = ValueOf(r.firsts, ChunkSize, i - 1) /\ w = ValueOf(r.seconds, ChunkSize, i - 1)
    <3>1. AreDigits(r.firsts, ChunkSize, i - 1) /\ AreDigits(r.seconds, ChunkSize, i - 1)
      BY <1>2, <1>3, <2>1, DigitsRestrict
    <3> QED
      BY <1>2, <2>1, <2>6, <3>1, ValueRange
  <2>8. ValueOf(r.firsts, ChunkSize, i) = v + f * p /\ ValueOf(r.seconds, ChunkSize, i) = w + s * p
    <3>1. Digital(r.firsts, i) /\ Digital(r.seconds, i) /\ ChunkSize \in Int
      BY <1>2, <1>3, <2>1, DigitsRestrict
    <3>2. /\ ValueOf(r.firsts, ChunkSize, i)
               = ValueOf(r.firsts, ChunkSize, i - 1) + r.firsts[i] * Pow(ChunkSize, i - 1)
          /\ ValueOf(r.seconds, ChunkSize, i)
               = ValueOf(r.seconds, ChunkSize, i - 1) + r.seconds[i] * Pow(ChunkSize, i - 1)
      BY <2>1, <3>1, ValueStep
    <3> QED
      BY <3>2, <2>5, <2>6, <2>7
  <2>9. f \in Int /\ s \in Int
    BY <1>2
  <2>10. CASE f = s
    <3>1. DiffSoFar(r, i) = d % P
      BY <2>2, <2>4, <2>5, <2>10 DEF Decides
    <3>2. f * p \in Int /\ (v <= w <=> v + f * p <= w + s * p)
      BY <2>9, <2>10
    <3>3. Decides(r, i, d)
      BY <2>2, <2>7, <2>8, <3>1, <3>2 DEF Decides
    <3> QED
      BY <2>1, <3>3
  <2>11. CASE f # s
    <3>1. PICK e \in Int : e = s - f /\ -ChunkSize < e /\ e < ChunkSize
      BY ChunkDifference
    <3>2. DiffSoFar(r, i) = e % P
      BY <2>4, <2>5, <2>11, <3>1 DEF Sub
    <3>3. e >= 0 <=> v + f * p <= w + s * p
      <4>1. e * p = s * p - f * p /\ e # 0 /\ f * p \in Int /\ s * p \in Int
        BY <2>9, <2>11, <3>1
      <4>2. CASE e >= 1
        <5>1. e * p >= p
          BY <4>2
        <5> QED
          BY <4>1, <4>2, <5>1
      <4>3. CASE e <= -1
        <5>1. (-e) * p >= p /\ (-e) * p = -(e * p)
          BY <4>3
        <5> QED
          BY <4>1, <4>3, <5>1
      <4> QED
        BY <4>1, <4>2, <4>3
    <3>4. Decides(r, i, e)
      BY <2>8, <3>1, <3>2, <3>3 DEF Decides
    <3> QED
      BY <2>1, <3>4
  <2> QED
    BY <2>10, <2>11
<1> HIDE DEF A
<1>6. n \in A
  <2>1. \A i \in 0 .. n : i \in A
    BY <1>4, <1>5, UpTo
  <2> QED
    BY <2>1
<1> QED
  BY <1>1, <1>6 DEF A

LEMMA ShiftedDiff ==
    ASSUME NEW d \in Int, -ChunkSize < d, d < ChunkSize
    PROVE  Add(ChunkSize, d % P) = ChunkSize + d
<1>1. ChunkSize \in Nat \ {0} /\ 2 * ChunkSize <= P /\ P \in Nat \ {0}
  BY Chunks, Order
<1>2. PICK e \in Int : e = d % P
  BY <1>1, ModRange
<1>3. (e + ChunkSize) % P = (d + ChunkSize) % P
  <2>1. \A c \in Int : ((d % P) + c) % P = (d + c) % P
    BY <1>1, ModAdd
  <2> QED
    BY <1>1, <1>2, <2>1
<1>4. ChunkSize + e = e + ChunkSize /\ ChunkSize + d = d + ChunkSize
  BY <1>1
<1>5. PICK c \in 0 .. P - 1 : c = ChunkSize + d
  BY <1>1
<1>6. c % P = c
  BY <1>1, ModSmall
<1> QED
  BY <1>2, <1>3, <1>4, <1>5, <1>6 DEF Add

\* The highest bit of ChunkSize + d is the sign of d.
LEMMA TopBit ==
    ASSUME NEW d \in Int, NEW bits, AreDigits(bits, 2, ChunkBits + 1),
           ChunkSize + d = ValueOf(bits, 2, ChunkBits + 1)
    PROVE  bits[ChunkBits + 1] = IF d >= 0 THEN 1 ELSE 0
<1>1. ChunkBits \in Nat /\ ChunkSize \in Nat /\ Pow(2, ChunkBits) = ChunkSize
  BY Chunks
<1>2. PICK k \in Nat \ {0} : k = ChunkBits + 1 /\ k - 1 = ChunkBits
  BY <1>1
<1>3. AreDigits(bits, 2, k) /\ k \in 0 .. k /\ k - 1 \in 0 .. k /\ k \in 1 .. k /\ 2 \in Nat \ {0}
  BY <1>2
<1>4. Digital(bits, k) /\ AreDigits(bits, 2, k - 1)
  BY <1>2, <1>3, DigitsRestrict
<1>5. ValueOf(bits, 2, k) = ValueOf(bits, 2, k - 1) + bits[k] * Pow(2, k - 1)
  BY <1>4, ValueStep
<1>6. PICK v \in 0 .. ChunkSize - 1 : v = ValueOf(bits, 2, k - 1)
  <2>1. ValueOf(bits, 2, k - 1) \in 0 .. Pow(2, k - 1) - 1
    BY <1>1, <1>2, <1>4, ValueRange
  <2> QED
    BY <1>1, <1>2, <2>1
<1>7. PICK b \in {0, 1} : b = bits[k]
  BY <1>3 DEF AreDigits
<1>8. ChunkSize + d = v + b * ChunkSize
  BY <1>1, <1>2, <1>5, <1>6, <1>7
<1>9. b = IF d >= 0 THEN 1 ELSE 0
  <2>1. CASE b = 0
    BY <1>1, <1>8, <2>1
  <2>2. CASE b = 1
    BY <1>1, <1>8, <2>2
  <2> QED
    BY <2>1, <2>2
<1> QED
  BY <1>2, <1>7, <1>9

LEMMA ComparisonSound ==
    ASSUME NEW r, r.firsts \in [1 .. NumChunks -> F], r.seconds \in [1 .. NumChunks -> F],
           r.equal \in [1 .. NumChunks -> F], r.dummy \in [1 .. NumChunks -> F],
           r.bits \in [1 .. ChunkBits + 1 -> F], ComparisonConstraints(r)
    PROVE  ComparisonCorrect(r)
<1>1. /\ NumChunks \in Nat /\ ChunkSize \in Nat \ {0} /\ Pow(ChunkSize, NumChunks) <= P
      /\ ChunkBits + 1 \in Nat /\ ChunkSize <= P /\ Pow(2, ChunkBits + 1) <= P
  <2>1. /\ NumChunks \in Nat /\ ChunkSize \in Nat \ {0} /\ Pow(ChunkSize, NumChunks) <= P
        /\ ChunkBits \in Nat \ {0} /\ 2 * ChunkSize <= P /\ Pow(2, ChunkBits + 1) = 2 * ChunkSize
    BY Chunks
  <2> QED
    BY <2>1, Order
<1>2. /\ r.firsts \in [1 .. NumChunks -> 0 .. ChunkSize - 1]
      /\ r.seconds \in [1 .. NumChunks -> 0 .. ChunkSize - 1]
  <2>1. \A x \in F : RangeProduct(x, ChunkSize) = 0 => x \in 0 .. ChunkSize - 1
    <3>1. \A x \in F : RangeProduct(x, ChunkSize) = 0 => x < ChunkSize
      BY <1>1, RangeRoots
    <3> QED
      BY <1>1, <3>1, Order DEF F
  <2>2. \A i \in 1 .. NumChunks : RangeProduct(r.firsts[i], ChunkSize) = 0
                                 /\ RangeProduct(r.seconds[i], ChunkSize) = 0
    BY DEF ComparisonConstraints
  <2> QED
    BY <2>1, <2>2
<1>3. Chain(r)
  <2>1. ASSUME NEW i \in 1 .. NumChunks
        PROVE  /\ r.equal[i] = IF r.firsts[i] = r.seconds[i] THEN 1 ELSE 0
               /\ r.mid[i] = Mul(r.equal[i], DiffSoFar(r, i - 1))
    <3>1. PICK f \in 0 .. ChunkSize - 1, s \in 0 .. ChunkSize - 1, e \in F, u \in F :
            f = r.firsts[i] /\ s = r.seconds[i] /\ e = r.equal[i] /\ u = r.dummy[i]
      BY <1>2
    <3>2. /\ Mul(Sub(s, f), u) = Sub(1, e) /\ Mul(e, Sub(s, f)) = 0
          /\ r.mid[i] = Mul(r.equal[i], DiffSoFar(r, i - 1))
      BY <3>1 DEF ComparisonConstraints
    <3>3. e = IF f = s THEN 1 ELSE 0
      BY <3>2, EqualWire
    <3> QED
      BY <3>1, <3>2, <3>3
  <2> QED
    BY <1>2, <2>1 DEF Chain
<1>4. PICK d \in Int : Decides(r, NumChunks, d)
  BY <1>3, DiffDecides
<1>5. AreDigits(r.bits, 2, ChunkBits + 1) /\ Len(r.bits) = ChunkBits + 1
  <2>1. \A i \in 1 .. ChunkBits + 1 : r.bits[i] \in Bit
    BY BooleanWire DEF ComparisonConstraints
  <2> QED
    BY <1>1, <2>1, LengthIs DEF AreDigits, Bit
<1>6. ChunkSize + d = ValueOf(r.bits, 2, ChunkBits + 1)
  <2>1. Combine(r.bits, 2) = ValueOf(r.bits, 2, ChunkBits + 1)
    <3>1. 2 \in Nat \ {0} /\ ChunkBits + 1 \in Nat
      BY <1>1
    <3> QED
      BY <1>1, <1>5, <3>1, CombineValue, Zenon
  <2>2. Add(ChunkSize, d % P) = ChunkSize + d
    BY <1>4, ShiftedDiff DEF Decides
  <2> QED
    BY <1>4, <2>1, <2>2 DEF ComparisonConstraints, Decides
<1>7. r.result = IF d >= 0 THEN 1 ELSE 0
  BY <1>5, <1>6, TopBit DEF ComparisonConstraints
<1>8. r.first = ValueOf(r.firsts, ChunkSize, NumChunks) /\ r.second = ValueOf(r.seconds, ChunkSize, NumChunks)
  <2>1. /\ Len(r.firsts) = NumChunks /\ Len(r.seconds) = NumChunks
        /\ AreDigits(r.firsts, ChunkSize, NumChunks) /\ AreDigits(r.seconds, ChunkSize, NumChunks)
    BY <1>1, <1>2, LengthIs DEF AreDigits
  <2> QED
    BY <1>1, <2>1, CombineValue DEF ComparisonConstraints
<1> QED
  BY <1>4, <1>7, <1>8 DEF ComparisonCorrect, Decides

\* The generator's difference after a chunk.
LEMMA MostSignificantZero ==
    ASSUME NEW firsts, NEW seconds
    PROVE  MostSignificantDiff(firsts, seconds, 0) = 0
BY DEF MostSignificantDiff, Differing

LEMMA MostSignificantStep ==
    ASSUME NEW firsts, NEW seconds, NEW i \in Nat \ {0}
    PROVE  MostSignificantDiff(firsts, seconds, i)
             = IF firsts[i] = seconds[i] THEN MostSignificantDiff(firsts, seconds, i - 1)
               ELSE Sub(seconds[i], firsts[i])
<1>1. CASE firsts[i] = seconds[i]
  <2>1. Differing(firsts, seconds, i) = Differing(firsts, seconds, i - 1)
    BY <1>1 DEF Differing
  <2> QED
    BY <1>1, <2>1 DEF MostSignificantDiff
<1>2. CASE firsts[i] # seconds[i]
  <2> DEFINE D == Differing(firsts, seconds, i)
             top == CHOOSE k \in D : \A l \in D : l <= k
  <2>1. i \in D /\ D \subseteq 1 .. i
    BY <1>2 DEF Differing
  <2>2. top \in D /\ \A l \in D : l <= top
    <3> HIDE DEF D
    <3>1. \A l \in D : l <= i
      BY <2>1
    <3> QED
      BY <2>1, <3>1
  <2>3. MostSignificantDiff(firsts, seconds, i) = Sub(seconds[top], firsts[top])
    BY <2>1 DEF MostSignificantDiff
  <2> HIDE DEF top, D
  <2>4. top = i
    BY <2>1, <2>2
  <2> QED
    BY <1>2, <2>3, <2>4
<1> QED
  BY <1>1, <1>2

LEMMA MostSignificantInField ==
    ASSUME NEW firsts \in [1 .. NumChunks -> 0 .. ChunkSize - 1],
           NEW seconds \in [1 .. NumChunks -> 0 .. ChunkSize - 1]
    PROVE  MostSignificantDiff(firsts, seconds, NumChunks) \in F
<1>1. PICK n \in Nat : n = NumChunks
  BY Chunks
<1> DEFINE A == {i \in 0 .. n : MostSignificantDiff(firsts, seconds, i) \in F}
<1>2. 0 \in A
  BY MostSignificantZero, FieldInt
<1>3. ASSUME NEW i \in 1 .. n, i - 1 \in A
      PROVE  i \in A
  <2>1. i \in Nat \ {0} /\ i \in 0 .. n
    OBVIOUS
  <2>2. Sub(seconds[i], firsts[i]) \in F
    BY <1>1, ChunkDifference
  <2> QED
    BY <1>3, <2>1, <2>2, MostSignificantStep
<1> HIDE DEF A
<1>4. n \in A
  <2>1. \A i \in 0 .. n : i \in A
    BY <1>2, <1>3, UpTo
  <2> QED
    BY <2>1
<1> QED
  BY <1>1, <1>4 DEF A

\* A reciprocal wire.
LEMMA DummyWire ==
    ASSUME NEW d \in F, d # 0
    PROVE  Mul(d, Reciprocal(d)) = 1
<1>1. d \in 1 .. P - 1
  BY Order DEF F
<1> QED
  BY <1>1, ReciprocalIs

LEMMA ComparisonComplete ==
    ASSUME NEW first \in 0 .. Pow(ChunkSize, NumChunks) - 1,
           NEW second \in 0 .. Pow(ChunkSize, NumChunks) - 1
    PROVE  ComparisonConstraints(ComparisonGenerator(first, second))
<1> DEFINE r == ComparisonGenerator(first, second)
           firsts == Digits(first, ChunkSize, NumChunks)
           seconds == Digits(second, ChunkSize, NumChunks)
           diff == MostSignificantDiff(firsts, seconds, NumChunks)
<1>1. /\ NumChunks \in Nat /\ ChunkSize \in Nat \ {0} /\ Pow(ChunkSize, NumChunks) <= P
      /\ ChunkBits + 1 \in Nat /\ ChunkSize <= P /\ Pow(2, ChunkBits + 1) <= P
      /\ Pow(2, ChunkBits + 1) = 2 * ChunkSize /\ P \in Nat \ {0}
  <2>1. /\ NumChunks \in Nat /\ ChunkSize \in Nat \ {0} /\ Pow(ChunkSize, NumChunks) <= P
        /\ ChunkBits \in Nat \ {0} /\ 2 * ChunkSize <= P /\ Pow(2, ChunkBits + 1) = 2 * ChunkSize
    BY Chunks
  <2> QED
    BY <2>1, Order
<1>2. /\ r.first = first /\ r.second = second /\ r.firsts = firsts /\ r.seconds = seconds
      /\ r.equal = [i \in 1 .. NumChunks |-> IF firsts[i] = seconds[i] THEN 1 ELSE 0]
      /\ r.dummy = [i \in 1 .. NumChunks |->
                      IF firsts[i] = seconds[i] THEN 1 ELSE Reciprocal(Sub(seconds[i], firsts[i]))]
      /\ r.mid = [i \in 1 .. NumChunks |->
                    IF firsts[i] = seconds[i] THEN MostSignificantDiff(firsts, seconds, i - 1) ELSE 0]
      /\ r.diff = diff
      /\ r.bits = Digits(Add(ChunkSize, diff), 2, ChunkBits + 1)
      /\ r.result = IF first <= second THEN 1 ELSE 0
  BY DEF ComparisonGenerator
<1> HIDE DEF r, diff
<1>3. first \in Int /\ second \in Int
  BY <1>1
<1>4. PICK p \in Nat \ {0} : p = Pow(ChunkSize, NumChunks)
  BY <1>1, PowPositive
<1>5. /\ firsts \in [1 .. NumChunks -> 0 .. ChunkSize - 1]
      /\ seconds \in [1 .. NumChunks -> 0 .. ChunkSize - 1]
      /\ Len(firsts) = NumChunks /\ Len(seconds) = NumChunks
      /\ AreDigits(firsts, ChunkSize, NumChunks) /\ AreDigits(seconds, ChunkSize, NumChunks)
  BY <1>1, <1>3, DigitsAre
<1>6. ValueOf(firsts, ChunkSize, NumChunks) = first /\ ValueOf(seconds, ChunkSize, NumChunks) = second
  <2>1. first % p = first /\ second % p = second
    BY <1>4, ModSmall
  <2> QED
    BY <1>1, <1>3, <1>4, <2>1, DigitsValue
<1>7. Combine(firsts, ChunkSize) = first /\ Combine(seconds, ChunkSize) = second
  BY <1>1, <1>5, <1>6, CombineValue
<1> HIDE DEF firsts, seconds
\* the difference so far on the wires is the one of the generator's loop
<1>8. \A i \in 0 .. NumChunks : /\ DiffSoFar(r, i) = MostSignificantDiff(firsts, seconds, i)
                                /\ MostSignificantDiff(firsts, seconds, i) \in F
  <2> DEFINE A == {i \in 0 .. NumChunks :
                     /\ DiffSoFar(r, i) = MostSignificantDiff(firsts, seconds, i)
                     /\ MostSignificantDiff(firsts, seconds, i) \in F}
  <2>1. 0 \in A
    BY <1>1, MostSignificantZero, FieldInt DEF DiffSoFar
  <2>2. ASSUME NEW i \in 1 .. NumChunks, i - 1 \in A
        PROVE  i \in A
    <3>1. i \in Nat \ {0} /\ i \in 0 .. NumChunks
      BY <1>1
    <3>2. PICK f \in 0 .. ChunkSize - 1, s \in 0 .. ChunkSize - 1 : f = firsts[i] /\ s = seconds[i]
      BY <1>5
    <3>3. PICK d \in F : d = Sub(s, f)
      BY ChunkDifference
    <3>4. PICK m \in F : m = MostSignificantDiff(firsts, seconds, i - 1)
      BY <2>2
    <3>5. MostSignificantDiff(firsts, seconds, i) = IF f = s THEN m ELSE d
      BY <3>1, <3>2, <3>3, <3>4, MostSignificantStep
    <3>6. DiffSoFar(r, i) = Add(r.mid[i], Mul(Sub(1, r.equal[i]), d))
      BY <1>2, <3>1, <3>2, <3>3 DEF DiffSoFar
    <3>7. r.mid[i] = (IF f = s THEN m ELSE 0) /\ r.equal[i] = (IF f = s THEN 1 ELSE 0)
      BY <1>2, <3>2, <3>4
    <3>8. CASE f = s
      <4>1. DiffSoFar(r, i) = Add(m, Mul(Sub(1, 1), d))
        BY <3>6, <3>7, <3>8
      <4>2. DiffSoFar(r, i) = m
        BY <4>1, FieldUnits
      <4> QED
        BY <3>1, <3>5, <3>8, <4>2
    <3>9. CASE f # s
      <4>1. DiffSoFar(r, i) = Add(0, Mul(Sub(1, 0), d))
        BY <3>6, <3>7, <3>9
      <4>2. DiffSoFar(r, i) = d
        BY <4>1, FieldUnits
      <4> QED
        BY <3>1, <3>5, <3>9, <4>2
    <3> QED
      BY <3>8, <3>9
  <2> HIDE DEF A
  <2>3. \A i \in 0 .. NumChunks : i \in A
    BY <1>1, <2>1, <2>2, UpTo
  <2> QED
    BY <2>3 DEF A
<1>9. \A i \in 1 .. NumChunks :
        /\ r.equal[i] = IF firsts[i] = seconds[i] THEN 1 ELSE 0
        /\ r.mid[i] = Mul(r.equal[i], DiffSoFar(r, i - 1))
        /\ Mul(Sub(seconds[i], firsts[i]), r.dummy[i]) = Sub(1, r.equal[i])
        /\ Mul(r.equal[i], Sub(seconds[i], firsts[i])) = 0
  <2>1. ASSUME NEW i \in 1 .. NumChunks
        PROVE  /\ r.equal[i] = IF firsts[i] = seconds[i] THEN 1 ELSE 0
               /\ r.mid[i] = Mul(r.equal[i], DiffSoFar(r, i - 1))
               /\ Mul(Sub(seconds[i], firsts[i]), r.dummy[i]) = Sub(1, r.equal[i])
               /\ Mul(r.equal[i], Sub(seconds[i], firsts[i])) = 0
    <3>1. i - 1 \in 0 .. NumChunks
      BY <1>1
    <3>2. PICK f \in 0 .. ChunkSize - 1, s \in 0 .. ChunkSize - 1 : f = firsts[i] /\ s = seconds[i]
      BY <1>5
    <3>3. PICK d \in F : d = Sub(s, f) /\ (d = 0 <=> f = s)
      BY ChunkDifference
    <3>4. PICK m \in F : m = MostSignificantDiff(firsts, seconds, i - 1) /\ m = DiffSoFar(r, i - 1)
      BY <1>8, <3>1
    <3>5. /\ r.equal[i] = (IF f = s THEN 1 ELSE 0) /\ r.mid[i] = (IF f = s THEN m ELSE 0)
          /\ r.dummy[i] = IF f = s THEN 1 ELSE Reciprocal(d)
      BY <1>2, <3>2, <3>3, <3>4
    <3>6. CASE f = s
      <4>1. Mul(1, m) = m /\ Mul(0, 1) = 0 /\ Sub(1, 1) = 0 /\ Mul(1, 0) = 0
        BY FieldUnits, FieldInt
      <4> QED
        BY <3>2, <3>3, <3>4, <3>5, <3>6, <4>1
    <3>7. CASE f # s
      <4>1. Mul(0, m) = 0 /\ Mul(d, Reciprocal(d)) = 1 /\ Sub(1, 0) = 1 /\ Mul(0, d) = 0
        BY <3>3, <3>7, FieldUnits, DummyWire
      <4> QED
        BY <3>2, <3>3, <3>4, <3>5, <3>7, <4>1
    <3> QED
      BY <3>6, <3>7
  <2> QED
    BY <2>1
<1>10. Chain(r)
  BY <1>2, <1>5, <1>9 DEF Chain
<1>11. PICK d \in Int : Decides(r, NumChunks, d)
  BY <1>10, DiffDecides
<1>12. diff = d % P /\ diff = DiffSoFar(r, NumChunks)
  BY <1>1, <1>8, <1>11 DEF Decides, diff
<1>13. PICK c \in Int : c = ChunkSize + d /\ c = Add(ChunkSize, diff) /\ c \in 0 .. 2 * ChunkSize - 1
  <2>1. Add(ChunkSize, diff) = ChunkSize + d
    BY <1>11, <1>12, ShiftedDiff DEF Decides
  <2>2. -ChunkSize < d /\ d < ChunkSize
    BY <1>11 DEF Decides
  <2> QED
    BY <1>1, <2>1, <2>2
<1>14. r.bits = Digits(c, 2, ChunkBits + 1)
  BY <1>2, <1>13
<1>15. 2 \in Nat \ {0}
  OBVIOUS
<1>16. /\ r.bits \in [1 .. ChunkBits + 1 -> 0 .. 1] /\ AreDigits(r.bits, 2, ChunkBits + 1)
       /\ Len(r.bits) = ChunkBits + 1
  <2>1. /\ Digits(c, 2, ChunkBits + 1) \in [1 .. ChunkBits + 1 -> 0 .. 2 - 1]
        /\ AreDigits(Digits(c, 2, ChunkBits + 1), 2, ChunkBits + 1)
        /\ Len(Digits(c, 2, ChunkBits + 1)) = ChunkBits + 1
    BY <1>1, <1>15, DigitsAre
  <2> QED
    BY <1>14, <2>1
<1>17. Combine(r.bits, 2) = c /\ ValueOf(r.bits, 2, ChunkBits + 1) = c
  <2>1. Combine(r.bits, 2) = ValueOf(r.bits, 2, ChunkBits + 1)
    BY <1>1, <1>15, <1>16, CombineValue, Zenon
  <2>2. ValueOf(r.bits, 2, ChunkBits + 1) = c % Pow(2, ChunkBits + 1)
    BY <1>1, <1>14, <1>15, DigitsValue
  <2>3. PICK m \in Nat \ {0} : m = 2 * ChunkSize
    BY <1>1
  <2>4. c % m = c
    BY <1>13, <2>3, ModSmall
  <2> QED
    BY <1>1, <2>1, <2>2, <2>3, <2>4
<1>18. r.result = r.bits[ChunkBits + 1]
  <2>1. r.bits[ChunkBits + 1] = IF d >= 0 THEN 1 ELSE 0
    BY <1>13, <1>16, <1>17, TopBit
  <2>2. d >= 0 <=> first <= second
    BY <1>2, <1>6, <1>11 DEF Decides
  <2> QED
    BY <1>2, <2>1, <2>2
<1>19. \A i \in 1 .. ChunkBits + 1 : Mul(r.bits[i], Sub(1, r.bits[i])) = 0
  <2>1. ASSUME NEW b \in 0 .. 1
        PROVE  Mul(b, Sub(1, b)) = 0
    <3>1. Mul(1, 0) = 0 /\ Mul(0, 1) = 0 /\ Sub(1, 1) = 0 /\ Sub(1, 0) = 1
      BY FieldUnits, FieldInt
    <3> QED
      BY <3>1
  <2> QED
    BY <1>16, <2>1
<1>20. \A i \in 1 .. NumChunks : /\ RangeProduct(firsts[i], ChunkSize) = 0
                                 /\ RangeProduct(seconds[i], ChunkSize) = 0
  <2>1. ASSUME NEW x \in 0 .. ChunkSize - 1
        PROVE  RangeProduct(x, ChunkSize) = 0
    <3>1. x \in F /\ x < ChunkSize
      BY <1>1 DEF F
    <3> QED
      BY <1>1, <3>1, RangeRoots
  <2> QED
    BY <1>5, <2>1
<1>21. /\ Combine(r.firsts, ChunkSize) = r.first /\ Combine(r.seconds, ChunkSize) = r.second
       /\ r.diff = DiffSoFar(r, NumChunks) /\ Add(ChunkSize, r.diff) = Combine(r.bits, 2)
  BY <1>2, <1>7, <1>12, <1>13, <1>17
<1>22. \A i \in 1 .. NumChunks :
         /\ RangeProduct(r.firsts[i], ChunkSize) = 0
         /\ RangeProduct(r.seconds[i], ChunkSize) = 0
         /\ Mul(Sub(r.seconds[i], r.firsts[i]), r.dummy[i]) = Sub(1, r.equal[i])
         /\ Mul(r.equal[i], Sub(r.seconds[i], r.firsts[i])) = 0
         /\ r.mid[i] = Mul(r.equal[i], DiffSoFar(r, i - 1))
  BY <1>2, <1>9, <1>20
<1> QED
  BY <1>18, <1>19, <1>21, <1>22 DEF ComparisonConstraints, r

(***************************************************************************)
(* The rows.                                                               *)
(***************************************************************************)
\* The wires of a row of each gate: any values of the field, except that the
\* inputs of a gate are words, carries or bits, as its callers check.
ArithmeticRow(r) ==
  /\ r.gate = "arithmetic" /\ r.x \in Word /\ r.y \in Word /\ r.z \in Word
  /\ r.inverse \in F /\ r.limbs \in [1 .. 2 * NumLimbs -> F]

AddManyRow(r) ==
  /\ r.gate = "add_many" /\ r.addends \in [1 .. NumAddends -> Word] /\ r.carry \in Carry
  /\ r.limbs \in [1 .. NumLimbs + CarryLimbs -> F]

SubtractionRow(r) ==
  /\ r.gate = "subtraction" /\ r.x \in Word /\ r.y \in Word /\ r.borrow \in Bit
  /\ r.borrowOut \in F /\ r.limbs \in [1 .. NumLimbs -> F]

RangeCheckRow(r) == r.gate = "range_check" /\ r.limbs \in [1 .. NumLimbs -> F]

ComparisonRow(r) ==
  /\ r.gate = "comparison"
  /\ r.firsts \in [1 .. NumChunks -> F] /\ r.seconds \in [1 .. NumChunks -> F]
  /\ r.equal \in [1 .. NumChunks -> F] /\ r.dummy \in [1 .. NumChunks -> F]
  /\ r.bits \in [1 .. ChunkBits + 1 -> F]

Row(r) ==
  ArithmeticRow(r) \/ AddManyRow(r) \/ SubtractionRow(r) \/ RangeCheckRow(r) \/ ComparisonRow(r)

LEMMA GateOf ==
    ASSUME NEW r
    PROVE  /\ r.gate = "arithmetic" =>
                (Accepted(r) <=> ArithmeticConstraints(r)) /\ (Correct(r) <=> ArithmeticCorrect(r))
           /\ r.gate = "add_many" =>
                (Accepted(r) <=> AddManyConstraints(r)) /\ (Correct(r) <=> AddManyCorrect(r))
           /\ r.gate = "subtraction" =>
                (Accepted(r) <=> SubtractionConstraints(r)) /\ (Correct(r) <=> SubtractionCorrect(r))
           /\ r.gate = "range_check" =>
                (Accepted(r) <=> RangeCheckConstraints(r)) /\ (Correct(r) <=> RangeCheckCorrect(r))
           /\ r.gate = "comparison" =>
                (Accepted(r) <=> ComparisonConstraints(r)) /\ (Correct(r) <=> ComparisonCorrect(r))
BY DEF Accepted, Correct

LEMMA ArithmeticRowSound ==
    ASSUME NEW r, ArithmeticRow(r), ArithmeticConstraints(r)
    PROVE  ArithmeticCorrect(r)
<1>1. NumLimbs \in Nat /\ 2 * NumLimbs \in Nat
  BY Widths
<1>2. r.limbs \in [1 .. NumLimbs + NumLimbs -> 0 .. LimbBase - 1]
  <2>1. r.limbs \in [1 .. 2 * NumLimbs -> 0 .. LimbBase - 1]
    BY <1>1, CheckedLimbs DEF ArithmeticConstraints, ArithmeticRow
  <2> QED
    BY <2>1, DoubleLimbs
<1>3. r.low \in Word /\ r.high \in Word
  <2>1. /\ Len(LowLimbs(r.limbs)) = NumLimbs /\ AreDigits(LowLimbs(r.limbs), LimbBase, NumLimbs)
        /\ Len(HighLimbs(r.limbs)) = NumLimbs /\ AreDigits(HighLimbs(r.limbs), LimbBase, NumLimbs)
    BY <1>1, <1>2, Halves
  <2> QED
    BY <2>1, WordOf DEF ArithmeticConstraints
<1> QED
  BY <1>3, ArithmeticSound DEF ArithmeticConstraints, ArithmeticCorrect, ArithmeticRow

\* Every row of wires that the constraints of its gate accept has the outputs
\* that the operation names.
LEMMA RowsSound ==
    ASSUME NEW r, Row(r), Accepted(r)
    PROVE  Correct(r)
<1>1. CASE ArithmeticRow(r)
  BY <1>1, GateOf, ArithmeticRowSound DEF ArithmeticRow
<1>2. CASE AddManyRow(r)
  BY <1>2, GateOf, AddManySound DEF AddManyRow
<1>3. CASE SubtractionRow(r)
  BY <1>3, GateOf, SubtractionSound DEF SubtractionRow
<1>4. CASE RangeCheckRow(r)
  BY <1>4, GateOf, RangeCheckSound DEF RangeCheckRow
<1>5. CASE ComparisonRow(r)
  BY <1>5, GateOf, ComparisonSound DEF ComparisonRow
<1> QED
  BY <1>1, <1>2, <1>3, <1>4, <1>5 DEF Row

\* Small values are values of the field.
LEMMA DigitsInField ==
    ASSUME NEW v \in Int, NEW base \in Nat \ {0}, base <= P, NEW n \in Nat
    PROVE  Digits(v, base, n) \in [1 .. n -> F]
<1>1. Digits(v, base, n) \in [1 .. n -> 0 .. base - 1]
  BY DigitsAre
<1>2. 0 .. base - 1 \subseteq F
  BY Order DEF F
<1> QED
  BY <1>1, <1>2

LEMMA LimbsInField ==
    LimbBase \in Nat \ {0} /\ LimbBase <= P
<1>1. LimbBase \in Nat /\ LimbBase >= 2 /\ LimbBase <= B /\ B \in Nat
  BY Sizes
<1>2. B <= P
  BY Widths
<1> QED
  BY <1>1, <1>2, Order

\* A filled row: the generator's rows are accepted.
Filled(r) ==
  /\ Row(r)
  /\ (r.by = "generator" /\ (r.gate = "range_check" => r.input \in Word)) => Accepted(r)

LEMMA ArithmeticFilled ==
    ASSUME NEW x \in Word, NEW y \in Word, NEW z \in Word
    PROVE  Filled(ArithmeticGenerator(x, y, z))
<1> DEFINE r == ArithmeticGenerator(x, y, z)
           output == Add(Mul(x, y), z)
           diff == B - 1 - output \div B
<1>1. /\ r.gate = "arithmetic" /\ r.x = x /\ r.y = y /\ r.z = z
      /\ r.limbs = Digits(output, LimbBase, 2 * NumLimbs)
      /\ r.inverse = IF diff = 0 THEN 0 ELSE Reciprocal(diff)
  BY DEF ArithmeticGenerator
<1>2. x \in Int /\ y \in Int /\ z \in Int /\ 2 * NumLimbs \in Nat /\ B \in Nat \ {0} /\ B <= P
  BY FieldInt, Widths
<1>3. output = x * y + z /\ output \in 0 .. P - 1 /\ output \in Int
  BY <1>2, ProductRange, FieldPair, Order
<1> HIDE DEF output
<1>4. r.limbs \in [1 .. 2 * NumLimbs -> F]
  <2>1. output \in Int /\ 2 * NumLimbs \in Nat
    BY <1>2, <1>3
  <2>2. Digits(output, LimbBase, 2 * NumLimbs) \in [1 .. 2 * NumLimbs -> F]
    BY <2>1, LimbsInField, DigitsInField
  <2> QED
    BY <1>1, <2>2
<1>5. diff \in Int /\ diff < P /\ diff >= 0
  <2>1. PICK q \in 0 .. B - 1, l \in 0 .. B - 1 : output \div B = q
    <3>1. output \in Nat /\ output < B * B
      <4>1. P = B * B - B + 1 /\ B \in Nat /\ B >= 4 /\ P \in Nat
        BY Sizes
      <4>2. B * B \in Nat
        BY <4>1
      <4> QED
        BY <1>3, <4>1, <4>2
    <3> QED
      BY <1>2, <3>1, DivRange, ZenonT(30)
  <2> QED
    BY <1>2, <2>1, Order
<1> HIDE DEF diff, r
<1>6. r.inverse \in F
  <2>1. CASE diff = 0
    BY <1>1, <2>1, FieldInt
  <2>2. CASE diff # 0
    <3>1. diff \in 1 .. P - 1
      BY <1>5, <2>2, Order
    <3> QED
      BY <1>1, <2>2, <3>1, ReciprocalIs
  <2> QED
    BY <2>1, <2>2
<1>7. Row(r)
  BY <1>1, <1>4, <1>6 DEF Row, ArithmeticRow
<1>8. Accepted(r)
  BY <1>1, ArithmeticComplete, GateOf DEF r
<1> QED
  BY <1>7, <1>8 DEF Filled, r

LEMMA AddManyFilled ==
    ASSUME NEW addends \in [1 .. NumAddends -> Word], NEW carry \in Carry
    PROVE  Filled(AddManyGenerator(addends, carry))
<1> DEFINE r == AddManyGenerator(addends, carry)
           output == SumWires(addends, carry)
           lows == Digits(output % B, LimbBase, NumLimbs)
           highs == Digits(output \div B, LimbBase, CarryLimbs)
<1>1. /\ r.gate = "add_many" /\ r.addends = addends /\ r.carry = carry
      /\ r.limbs = lows \o highs
  BY DEF AddManyGenerator
<1>2. output \in Int
  <2>1. PICK f \in [0 .. NumAddends -> 0 .. B * CarryBase - 1] : Sums(f, addends, carry)
    BY SumsExist
  <2>2. output = f[NumAddends]
    BY <2>1, SumWiresIs
  <2>3. NumAddends \in 0 .. NumAddends /\ B * CarryBase \in Nat
    BY Widths
  <2>4. f[NumAddends] \in 0 .. B * CarryBase - 1
    BY <2>3
  <2> QED
    BY <2>2, <2>3, <2>4
<1> HIDE DEF output
<1>3. output % B \in Int /\ output \div B \in Int
  <2>1. B \in Nat \ {0}
    BY Widths
  <2> QED
    BY <1>2, <2>1, ModDiv
<1>4. /\ lows \in [1 .. NumLimbs -> 0 .. LimbBase - 1]
      /\ highs \in [1 .. CarryLimbs -> 0 .. LimbBase - 1]
  <2>1. NumLimbs \in Nat /\ CarryLimbs \in Nat
    BY Widths
  <2> QED
    BY <1>3, <2>1, LimbsInField, DigitsAre
<1> HIDE DEF lows, highs, r
<1>5. r.limbs \in [1 .. NumLimbs + CarryLimbs -> F]
  <2>1. r.limbs \in [1 .. NumLimbs + CarryLimbs -> 0 .. LimbBase - 1]
    BY <1>1, <1>4, Joined
  <2>2. 0 .. LimbBase - 1 \subseteq F
    BY LimbsInField, Order DEF F
  <2> QED
    BY <2>1, <2>2
<1>6. Row(r)
  BY <1>1, <1>5 DEF Row, AddManyRow
<1>7. Accepted(r)
  BY <1>1, AddManyComplete, GateOf DEF r
<1> QED
  BY <1>6, <1>7 DEF Filled, r

LEMMA SubtractionFilled ==
    ASSUME NEW x \in Word, NEW y \in Word, NEW borrow \in Bit
    PROVE  Filled(SubtractionGenerator(x, y, borrow))
<1> DEFINE r == SubtractionGenerator(x, y, borrow)
           initial == Sub(Sub(x, y), borrow)
           out == IF initial > B THEN 1 ELSE 0
           res == Add(initial, Mul(B, out))
<1>1. /\ r.gate = "subtraction" /\ r.x = x /\ r.y = y /\ r.borrow = borrow /\ r.borrowOut = out
      /\ r.limbs = Digits(res, LimbBase, NumLimbs)
  BY DEF SubtractionGenerator
<1>2. out \in F /\ out \in Int
  BY FieldInt
<1> HIDE DEF out
<1>3. res \in Int
  <2>1. initial \in Int /\ B \in Int
    <3>1. x \in Int /\ y \in Int /\ borrow \in Int
      BY FieldInt DEF Bit
    <3>2. Sub(x, y) \in Int
      BY <3>1, FieldClosed, FieldInt
    <3>3. B \in Int
      BY Widths
    <3>4. Sub(Sub(x, y), borrow) \in F
      BY <3>1, <3>2, FieldClosed
    <3> QED
      BY <3>3, <3>4, FieldInt
  <2> HIDE DEF initial
  <2>2. Mul(B, out) \in Int
    BY <1>2, <2>1, FieldClosed, FieldInt
  <2> QED
    BY <2>1, <2>2, FieldClosed, FieldInt
<1> HIDE DEF res, r
<1>4. r.limbs \in [1 .. NumLimbs -> F]
  <2>1. NumLimbs \in Nat
    BY Widths
  <2> QED
    BY <1>1, <1>3, <2>1, LimbsInField, DigitsInField
<1>5. Row(r)
  BY <1>1, <1>2, <1>4 DEF Row, SubtractionRow
<1>6. Accepted(r)
  BY <1>1, SubtractionComplete, GateOf DEF r
<1> QED
  BY <1>5, <1>6 DEF Filled, r

LEMMA RangeCheckFilled ==
    ASSUME NEW input \in F
    PROVE  Filled(RangeCheckGenerator(input))
<1> DEFINE r == RangeCheckGenerator(input)
<1>1. r.gate = "range_check" /\ r.input = input /\ r.limbs = Digits(input % B, LimbBase, NumLimbs)
  BY DEF RangeCheckGenerator
<1>2. NumLimbs \in Nat /\ B \in Nat \ {0} /\ input \in Int
  BY Widths, FieldInt
<1>3. input % B \in Int
  BY <1>2, ModRange
<1> HIDE DEF r
<1>4. r.limbs \in [1 .. NumLimbs -> F]
  BY <1>1, <1>2, <1>3, LimbsInField, DigitsInField
<1>5. Row(r)
  BY <1>1, <1>4 DEF Row, RangeCheckRow
<1>6. input \in Word => Accepted(r)
  BY <1>1, RangeCheckComplete, GateOf DEF r
<1> QED
  BY <1>1, <1>5, <1>6 DEF Filled, r

LEMMA ComparisonFilled ==
    ASSUME NEW first \in 0 .. Pow(ChunkSize, NumChunks) - 1,
           NEW second \in 0 .. Pow(ChunkSize, NumChunks) - 1
    PROVE  Filled(ComparisonGenerator(first, second))
<1> DEFINE r == ComparisonGenerator(first, second)
           firsts == Digits(first, ChunkSize, NumChunks)
           seconds == Digits(second, ChunkSize, NumChunks)
           diff == MostSignificantDiff(firsts, seconds, NumChunks)
<1>1. /\ r.gate = "comparison" /\ r.firsts = firsts /\ r.seconds = seconds
      /\ r.equal = [i \in 1 .. NumChunks |-> IF firsts[i] = seconds[i] THEN 1 ELSE 0]
      /\ r.dummy = [i \in 1 .. NumChunks |->
                      IF firsts[i] = seconds[i] THEN 1 ELSE Reciprocal(Sub(seconds[i], firsts[i]))]
      /\ r.diff = diff
      /\ r.bits = Digits(Add(ChunkSize, diff), 2, ChunkBits + 1)
  BY DEF ComparisonGenerator
<1> HIDE DEF r, diff
<1>2. /\ NumChunks \in Nat /\ ChunkSize \in Nat \ {0} /\ ChunkSize <= P /\ 2 <= P
      /\ ChunkBits + 1 \in Nat /\ first \in Int /\ second \in Int
  <2>1. PICK p \in Nat \ {0} : p = Pow(ChunkSize, NumChunks)
    BY Chunks, PowPositive
  <2> QED
    BY <2>1, Chunks, Order
<1>3. /\ firsts \in [1 .. NumChunks -> 0 .. ChunkSize - 1]
      /\ seconds \in [1 .. NumChunks -> 0 .. ChunkSize - 1]
      /\ firsts \in [1 .. NumChunks -> F] /\ seconds \in [1 .. NumChunks -> F]
  BY <1>2, DigitsAre, DigitsInField
<1> HIDE DEF firsts, seconds
<1>4. r.equal \in [1 .. NumChunks -> F]
  BY <1>1, FieldInt
<1>5. r.dummy \in [1 .. NumChunks -> F]
  <2>1. ASSUME NEW i \in 1 .. NumChunks, firsts[i] # seconds[i]
        PROVE  Reciprocal(Sub(seconds[i], firsts[i])) \in F
    <3>1. PICK f \in 0 .. ChunkSize - 1, s \in 0 .. ChunkSize - 1 : f = firsts[i] /\ s = seconds[i]
      BY <1>3
    <3>2. Sub(s, f) \in F /\ Sub(s, f) # 0
      BY <2>1, <3>1, ChunkDifference
    <3>3. Sub(s, f) \in 1 .. P - 1
      BY <3>2, Order DEF F
    <3> QED
      BY <3>1, <3>3, ReciprocalIs
  <2> QED
    BY <1>1, <2>1, FieldInt
<1>6. Accepted(r)
  BY <1>1, ComparisonComplete, GateOf DEF r
<1>8. r.bits \in [1 .. ChunkBits + 1 -> F]
  <2>1. Add(ChunkSize, diff) \in Int
    <3>0. diff \in F
      BY <1>2, <1>3, MostSignificantInField DEF diff
    <3>1. diff \in Int /\ ChunkSize \in Int
      BY <1>2, <3>0, FieldInt
    <3> QED
      BY <3>1, FieldClosed, FieldInt
  <2>2. 2 \in Nat \ {0}
    OBVIOUS
  <2>3. Digits(Add(ChunkSize, diff), 2, ChunkBits + 1) \in [1 .. ChunkBits + 1 -> F]
    BY <1>2, <2>1, <2>2, DigitsInField
  <2> QED
    BY <1>1, <2>3
<1>9. Row(r)
  BY <1>1, <1>3, <1>4, <1>5, <1>8 DEF Row, ComparisonRow
<1> QED
  BY <1>6, <1>9 DEF Filled, r

(***************************************************************************)
(* Filling a row.                                                          *)
(***************************************************************************)
GatesInv == row # Unfilled => Filled(row)

LEMMA GenerateStep ==
    ASSUME Generate
    PROVE  Filled(row')
<1>1. CASE \E x, y, z \in Word : row' = ArithmeticGenerator(x, y, z)
  BY <1>1, ArithmeticFilled
<1>2. CASE \E addends \in [1 .. NumAddends -> Word], carry \in Carry :
             row' = AddManyGenerator(addends, carry)
  BY <1>2, AddManyFilled
<1>3. CASE \E x, y \in Word, borrow \in Bit : row' = SubtractionGenerator(x, y, borrow)
  BY <1>3, SubtractionFilled
<1>4. CASE \E input \in F : row' = RangeCheckGenerator(input)
  BY <1>4, RangeCheckFilled
<1>5. CASE \E first, second \in 0 .. Pow(ChunkSize, NumChunks) - 1 :
             row' = ComparisonGenerator(first, second)
  BY <1>5, ComparisonFilled
<1> QED
  BY <1>1, <1>2, <1>3, <1>4, <1>5, Zenon DEF Generate

LEMMA ChooseArithmeticStep ==
    ASSUME ChooseArithmetic
    PROVE  Filled(row')
<1>1. PICK x, y, z \in Word, limbs \in [1 .. 2 * NumLimbs -> Limb], inverse \in F :
        row' = [gate |-> "arithmetic", by |-> "any", x |-> x, y |-> y, z |-> z,
                low |-> Combine(LowLimbs(limbs), LimbBase),
                high |-> Combine(HighLimbs(limbs), LimbBase),
                inverse |-> inverse, limbs |-> limbs]
  BY Zenon DEF ChooseArithmetic
<1>2. limbs \in [1 .. 2 * NumLimbs -> F]
  BY DEF Limb, RangeChecked
<1> QED
  BY <1>1, <1>2 DEF Filled, Row, ArithmeticRow

LEMMA ChooseAddManyStep ==
    ASSUME ChooseAddMany
    PROVE  Filled(row')
<1>1. PICK addends \in [1 .. NumAddends -> Word], carry \in Carry,
           limbs \in [1 .. NumLimbs + CarryLimbs -> Limb] :
        row' = [gate |-> "add_many", by |-> "any", addends |-> addends, carry |-> carry,
                result |-> Combine(LowLimbs(limbs), LimbBase),
                carryOut |-> Combine(HighLimbs(limbs), LimbBase), limbs |-> limbs]
  BY Zenon DEF ChooseAddMany
<1>2. limbs \in [1 .. NumLimbs + CarryLimbs -> F]
  BY DEF Limb, RangeChecked
<1> QED
  BY <1>1, <1>2 DEF Filled, Row, AddManyRow

LEMMA ChooseSubtractionStep ==
    ASSUME ChooseSubtraction
    PROVE  Filled(row')
<1>1. PICK x, y \in Word, borrow \in Bit, borrowOut \in F, limbs \in [1 .. NumLimbs -> Limb] :
        row' = [gate |-> "subtraction", by |-> "any", x |-> x, y |-> y, borrow |-> borrow,
                result |-> Combine(limbs, LimbBase), borrowOut |-> borrowOut, limbs |-> limbs]
  BY Zenon DEF ChooseSubtraction
<1>2. limbs \in [1 .. NumLimbs -> F]
  BY DEF Limb, RangeChecked
<1> QED
  BY <1>1, <1>2 DEF Filled, Row, SubtractionRow

LEMMA ChooseRangeCheckStep ==
    ASSUME ChooseRangeCheck
    PROVE  Filled(row')
<1>1. PICK input \in F, limbs \in [1 .. NumLimbs -> Limb] :
        row' = [gate |-> "range_check", by |-> "any", input |-> input, limbs |-> limbs]
  BY Zenon DEF ChooseRangeCheck
<1>2. limbs \in [1 .. NumLimbs -> F]
  BY DEF Limb, RangeChecked
<1> QED
  BY <1>1, <1>2 DEF Filled, Row, RangeCheckRow

LEMMA ChooseComparisonStep ==
    ASSUME ChooseComparison
    PROVE  Filled(row')
<1>1. PICK firsts \in [1 .. NumChunks -> RangeChecked(ChunkSize)],
           seconds \in [1 .. NumChunks -> RangeChecked(ChunkSize)],
           dummy \in [1 .. NumChunks -> F], bits \in [1 .. ChunkBits + 1 -> Bit] :
        row' = ComparisonOf(firsts, seconds, dummy, bits)
  BY Zenon DEF ChooseComparison
<1>2. /\ firsts \in [1 .. NumChunks -> F] /\ seconds \in [1 .. NumChunks -> F]
      /\ bits \in [1 .. ChunkBits + 1 -> F]
  BY FieldInt DEF RangeChecked, Bit
<1>3. EqualWires(firsts, seconds, dummy) \in [1 .. NumChunks -> F]
  <2>1. ASSUME NEW i \in 1 .. NumChunks
        PROVE  Sub(1, Mul(Sub(seconds[i], firsts[i]), dummy[i])) \in F
    <3>1. firsts[i] \in Int /\ seconds[i] \in Int /\ dummy[i] \in Int /\ 1 \in Int
      BY <1>2, FieldInt
    <3>2. Sub(seconds[i], firsts[i]) \in Int
      BY <3>1, FieldClosed, FieldInt
    <3>3. Mul(Sub(seconds[i], firsts[i]), dummy[i]) \in Int
      BY <3>1, <3>2, FieldClosed, FieldInt
    <3> QED
      BY <3>1, <3>3, FieldClosed
  <2> QED
    BY <2>1 DEF EqualWires
<1> QED
  BY <1>1, <1>2, <1>3 DEF Filled, Row, ComparisonRow, ComparisonOf

\* The invariant: a filled row has wires in the field, and one that a
\* generator filled from inputs in range is accepted.
LEMMA RowsAreFilled == GatesSpec => []GatesInv
<1>1. GatesInit => GatesInv
  BY DEF GatesInit, GatesInv
<1>2. GatesInv /\ [GatesNext]_row => GatesInv'
  <2>1. ASSUME GatesNext
        PROVE  GatesInv'
    BY <2>1, GenerateStep, ChooseArithmeticStep, ChooseAddManyStep, ChooseSubtractionStep,
       ChooseRangeCheckStep, ChooseComparisonStep DEF GatesNext, GatesInv
  <2>2. ASSUME GatesInv, UNCHANGED row
        PROVE  GatesInv'
    BY <2>2 DEF GatesInv
  <2> QED
    BY <2>1, <2>2
<1> QED
  BY <1>1, <1>2, PTL DEF GatesSpec

\* Every row that the constraints of a U32 gate, the range check or the
\* comparison accept has the outputs that the operation names, whatever
\* values fill its wires and for every size of the words, the limbs, the
\* chunks and the number of addends: eval_unfiltered of the gates rules out
\* every other output.
THEOREM AcceptedRowsAreCorrect ==
    GatesSpec => []AcceptedRowsCorrect
<1>1. GatesInv => AcceptedRowsCorrect
  BY RowsSound DEF GatesInv, Filled, AcceptedRowsCorrect
<1> QED
  BY <1>1, RowsAreFilled, PTL

\* Every row that run_once of a gate's generator fills from inputs in range
\* satisfies the gate's constraints, for every size of the words, the limbs,
\* the chunks and the number of addends.
THEOREM GeneratedRowsAreAccepted ==
    GatesSpec => []GeneratedRowsAccepted
<1>1. GatesInv => GeneratedRowsAccepted
  BY DEF GatesInv, Filled, GeneratedRowsAccepted
<1> QED
  BY <1>1, RowsAreFilled, PTL

(***************************************************************************)
(* The public inputs of a final proof.                                     *)
(***************************************************************************)
LEMMA Inputs ==
    /\ InputBase \in Nat \ {0}
    /\ CompressionFactor \in Nat \ {0} /\ RootLimbs \in Nat /\ Rest \in Nat
    /\ CompressionFactor <= RootLimbs /\ RootLimbs < 2 * CompressionFactor
    /\ Rest = RootLimbs - CompressionFactor
BY InputsAssumption, PowPositive DEF InputBase, Rest

\* f[i] is the number that the first i limbs make up.
Accumulates(f, limbs, n) ==
  f[0] = 0 /\ \A i \in 1 .. n : f[i] = f[i - 1] * InputBase + limbs[i]

LEMMA BigEndianFunction ==
    ASSUME NEW n \in Nat, NEW limbs \in [1 .. n -> Int]
    PROVE  \E f \in [0 .. n -> Int] : Accumulates(f, limbs, n) /\ BigEndian(limbs) = f[n]
<1> DEFINE Body(g) == [i \in 0 .. n |-> IF i = 0 THEN 0 ELSE g[i - 1] * InputBase + limbs[i]]
           step == [i \in 1 .. n |-> [y \in Int |-> y * InputBase + limbs[i]]]
           value == CHOOSE g : g = Body(g)
<1>1. step \in [1 .. n -> [Int -> Int]] /\ 0 \in Int
  BY Inputs
<1>2. \A i \in 1 .. n, y \in Int : step[i][y] = y * InputBase + limbs[i]
  OBVIOUS
<1> HIDE DEF step
<1>3. PICK f \in [0 .. n -> Int] : Iterates(f, n, 0, step)
  BY <1>1, Recursion, Zenon
<1>4. f[0] = 0 /\ \A i \in 1 .. n : f[i] = f[i - 1] * InputBase + limbs[i]
  <2>1. \A i \in 1 .. n : i - 1 \in 0 .. n
    OBVIOUS
  <2> QED
    BY <1>2, <1>3, <2>1 DEF Iterates
<1>5. f = Body(f)
  BY <1>4
<1>6. value = Body(value)
  BY <1>5, Zenon
<1>7. BigEndian(limbs) = value[n]
  <2>1. Len(limbs) = n
    BY LengthIs
  <2> QED
    BY <2>1, Zenon DEF BigEndian
<1> HIDE DEF value
<1> DEFINE A == {i \in 0 .. n : value[i] = f[i]}
<1>8. 0 \in A
  BY <1>4, <1>6
<1>9. ASSUME NEW i \in 1 .. n, i - 1 \in A
      PROVE  i \in A
  <2>1. i \in 0 .. n /\ i # 0
    OBVIOUS
  <2>2. value[i] = value[i - 1] * InputBase + limbs[i]
    BY <1>6, <2>1
  <2> QED
    BY <1>4, <1>9, <2>1, <2>2
<1> HIDE DEF A
<1>10. n \in A
  <2>1. \A i \in 0 .. n : i \in A
    BY <1>8, <1>9, UpTo
  <2> QED
    BY <2>1
<1> QED
  BY <1>4, <1>7, <1>10 DEF A, Accumulates

\* tail is the m limbs after the first n; f at n + i is made up of f at n and g.
Follows(tail, limbs, n, m) == \A i \in 1 .. m : tail[i] = limbs[n + i] /\ tail[i] \in Int
Prolongs(f, g, n, m) == \A i \in 0 .. m : f[n + i] = f[n] * Pow(InputBase, i) + g[i]
Same(s, t, k, n) == \A i \in k .. n : s[i] = t[i]

\* The limbs from n on continue the number that the limbs below n make up.
LEMMA AccumulateSplit ==
    ASSUME NEW n \in Nat, NEW m \in Nat, NEW f \in [0 .. n + m -> Int], NEW g \in [0 .. m -> Int],
           NEW limbs, NEW tail, Accumulates(f, limbs, n + m), Accumulates(g, tail, m),
           Follows(tail, limbs, n, m)
    PROVE  Prolongs(f, g, n, m)
<1> DEFINE A == {i \in 0 .. m : f[n + i] = f[n] * Pow(InputBase, i) + g[i]}
<1>0. PICK b \in Int : b = InputBase
  BY Inputs
<1>1. 0 \in A
  <2>1. Pow(b, 0) = 1
    BY PowZero
  <2>2. g[0] = 0 /\ f[n] \in Int /\ n + 0 = n
    BY DEF Accumulates
  <2> QED
    BY <1>0, <2>1, <2>2
<1>2. ASSUME NEW i \in 1 .. m, i - 1 \in A
      PROVE  i \in A
  <2>1. i - 1 \in Nat /\ (i - 1) + 1 = i /\ n + i \in 1 .. n + m /\ (n + i) - 1 = n + (i - 1)
        /\ n + (i - 1) \in 0 .. n + m /\ i - 1 \in 0 .. m /\ n \in 0 .. n + m /\ i \in 0 .. m
    OBVIOUS
  <2>2. Pow(b, i) = b * Pow(b, i - 1)
    BY <2>1, PowStep
  <2>3. PICK p \in Int, x \in Int, y \in Int, z \in Int, t \in Int :
          p = Pow(b, i - 1) /\ x = f[n] /\ y = f[n + (i - 1)] /\ z = g[i - 1] /\ t = tail[i]
    BY <2>1, PowInt DEF Follows
  <2>4. f[n + i] = y * b + t
    BY <1>0, <2>1, <2>3 DEF Accumulates, Follows
  <2>5. g[i] = z * b + t
    BY <1>0, <2>1, <2>3 DEF Accumulates
  <2>6. y = x * p + z
    BY <1>0, <1>2, <2>3
  <2>7. y * b + t = x * (b * p) + (z * b + t)
    BY <2>6
  <2> QED
    BY <1>0, <2>1, <2>2, <2>3, <2>4, <2>5, <2>7
<1> HIDE DEF A
<1>3. \A i \in 0 .. m : i \in A
  BY <1>1, <1>2, UpTo
<1> QED
  BY <1>3 DEF A, Prolongs

LEMMA AccumulateAgree ==
    ASSUME NEW n \in Nat, NEW f, NEW g, NEW limbs, NEW others,
           Accumulates(f, limbs, n), Accumulates(g, others, n),
           Same(limbs, others, 1, n)
    PROVE  Same(f, g, 0, n)
<1> DEFINE A == {i \in 0 .. n : f[i] = g[i]}
<1>1. 0 \in A
  BY DEF Accumulates
<1>2. ASSUME NEW i \in 1 .. n, i - 1 \in A
      PROVE  i \in A
  <2>1. f[i] = f[i - 1] * InputBase + limbs[i] /\ g[i] = g[i - 1] * InputBase + others[i]
    BY DEF Accumulates
  <2> QED
    BY <1>2, <2>1 DEF Same
<1> HIDE DEF A
<1>3. \A i \in 0 .. n : i \in A
  BY <1>1, <1>2, UpTo
<1> QED
  BY <1>3 DEF A, Same

LEMMA AccumulateRange ==
    ASSUME NEW n \in Nat, NEW f \in [0 .. n -> Int], NEW limbs,
           Accumulates(f, limbs, n), AreDigits(limbs, InputBase, n)
    PROVE  \A i \in 0 .. n : f[i] \in 0 .. Pow(InputBase, i) - 1
<1> DEFINE A == {i \in 0 .. n : f[i] \in 0 .. Pow(InputBase, i) - 1}
<1>0. PICK b \in Nat \ {0} : b = InputBase
  BY Inputs
<1>1. 0 \in A
  <2>1. Pow(b, 0) = 1
    BY PowZero
  <2> QED
    BY <1>0, <2>1 DEF Accumulates
<1>2. ASSUME NEW i \in 1 .. n, i - 1 \in A
      PROVE  i \in A
  <2>1. i - 1 \in Nat /\ (i - 1) + 1 = i /\ i \in 0 .. n
    OBVIOUS
  <2>2. Pow(b, i) = b * Pow(b, i - 1)
    BY <2>1, PowStep
  <2>3. PICK p \in Nat \ {0} : p = Pow(b, i - 1)
    BY <2>1, PowPositive
  <2>4. PICK v \in 0 .. p - 1 : v = f[i - 1]
    BY <1>0, <1>2, <2>3
  <2>5. PICK d \in 0 .. b - 1 : d = limbs[i]
    BY <1>0 DEF AreDigits
  <2>6. f[i] = v * b + d
    BY <1>0, <2>4, <2>5 DEF Accumulates
  <2>7. v * b + d \in 0 .. b * p - 1
    <3>1. v * b >= 0 /\ (p - 1 - v) * b >= 0
      OBVIOUS
    <3>2. (p - 1 - v) * b = b * p - b - v * b
      OBVIOUS
    <3> QED
      BY <3>1, <3>2
  <2> QED
    BY <1>0, <2>1, <2>2, <2>3, <2>6, <2>7
<1> HIDE DEF A
<1>3. \A i \in 0 .. n : i \in A
  BY <1>1, <1>2, UpTo
<1> QED
  BY <1>3 DEF A

\* Division by a power of the base drops limbs, the remainder is the lowest.
LEMMA AccumulateDigits ==
    ASSUME NEW n \in Nat, NEW f \in [0 .. n -> Int], NEW limbs,
           Accumulates(f, limbs, n), AreDigits(limbs, InputBase, n)
    PROVE  \A j \in 1 .. n : (f[n] \div Pow(InputBase, n - j)) % InputBase = limbs[j]
<1> DEFINE A == {k \in 0 .. n : f[n] \div Pow(InputBase, k) = f[n - k]}
<1>0. PICK b \in Nat \ {0} : b = InputBase
  BY Inputs
<1>a. ASSUME NEW j \in 1 .. n
      PROVE  f[j] \div b = f[j - 1] /\ f[j] % b = limbs[j]
  <2>1. PICK v \in Int, d \in 0 .. b - 1 : v = f[j - 1] /\ d = limbs[j]
    BY <1>0 DEF AreDigits
  <2>2. f[j] = b * v + d
    BY <1>0, <2>1 DEF Accumulates
  <2>3. (b * v + d) \div b = v /\ (b * v + d) % b = d
    BY DivModIs
  <2> QED
    BY <2>1, <2>2, <2>3
<1>1. 0 \in A
  <2>1. Pow(b, 0) = 1
    BY PowZero
  <2>2. f[n] \in Int
    OBVIOUS
  <2> QED
    BY <1>0, <2>1, <2>2
<1>2. ASSUME NEW k \in 1 .. n, k - 1 \in A
      PROVE  k \in A
  <2>1. k - 1 \in Nat /\ (k - 1) + 1 = k /\ k \in 0 .. n /\ n - (k - 1) \in 1 .. n
        /\ (n - (k - 1)) - 1 = n - k
    OBVIOUS
  <2>2. PICK p \in Nat \ {0} : p = Pow(b, k - 1)
    BY <2>1, PowPositive
  <2>3. Pow(b, k) = b * p
    BY <2>1, <2>2, PowStep
  <2>4. PICK x \in Int : x = f[n]
    OBVIOUS
  <2>5. x \div (p * b) = (x \div p) \div b
    BY DivDiv
  <2>6. x \div p = f[n - (k - 1)]
    BY <1>0, <1>2, <2>2, <2>4
  <2>7. f[n - (k - 1)] \div b = f[n - k]
    BY <1>a, <2>1
  <2>8. p * b = b * p
    OBVIOUS
  <2> QED
    BY <1>0, <2>1, <2>3, <2>4, <2>5, <2>6, <2>7, <2>8
<1> HIDE DEF A
<1>3. \A k \in 0 .. n : k \in A
  BY <1>1, <1>2, UpTo
<1>4. ASSUME NEW j \in 1 .. n
      PROVE  (f[n] \div Pow(InputBase, n - j)) % InputBase = limbs[j]
  <2>1. n - j \in 0 .. n /\ n - (n - j) = j
    OBVIOUS
  <2>2. f[n] \div Pow(InputBase, n - j) = f[j]
    BY <1>3, <2>1 DEF A
  <2> QED
    BY <1>0, <1>a, <2>2
<1> QED
  BY <1>4

\* The limbs of the two public inputs that stand for a root and a number.
FirstLimbs(root) == [j \in 1 .. CompressionFactor |-> root[j]]
SecondLimbs(root, number) ==
  [j \in 1 .. CompressionFactor |->
     IF j <= Rest THEN root[CompressionFactor + j] ELSE IF j = Rest + 1 THEN number ELSE 0]

Limbs == 0 .. InputBase - 1

LEMMA Prefix ==
    ASSUME NEW n \in Nat, NEW k \in 0 .. n, NEW S, NEW s \in [1 .. n -> S]
    PROVE  SubSeq(s, 1, k) \in [1 .. k -> S] /\ \A j \in 1 .. k : SubSeq(s, 1, k)[j] = s[j]
<1>1. Len(s) = n /\ s \in Seq(S)
  BY LengthIs
<1>2. PICK p : p = SubSeq(s, 1, k)
  OBVIOUS
<1>3. p = [i \in 1 .. k |-> s[i]]
  BY <1>1, <1>2
<1>4. \A i \in 1 .. k : s[i] \in S
  OBVIOUS
<1>5. p \in [1 .. k -> S] /\ \A j \in 1 .. k : p[j] = s[j]
  BY <1>3, <1>4
<1> QED
  BY <1>2, <1>5

LEMMA LimbsAre ==
    ASSUME NEW root \in [1 .. RootLimbs -> Limbs], NEW number \in Limbs
    PROVE  /\ FirstLimbs(root) \in [1 .. CompressionFactor -> Limbs]
           /\ SecondLimbs(root, number) \in [1 .. CompressionFactor -> Limbs]
<1>1. 0 \in Limbs
  BY Inputs DEF Limbs
<1>2. \A j \in 1 .. CompressionFactor : root[j] \in Limbs
  BY Inputs
<1>3. \A j \in 1 .. CompressionFactor : j <= Rest => root[CompressionFactor + j] \in Limbs
  BY Inputs
<1> QED
  BY <1>1, <1>2, <1>3 DEF FirstLimbs, SecondLimbs

LEMMA CompressIs ==
    ASSUME NEW root \in [1 .. RootLimbs -> Limbs], NEW number \in Limbs
    PROVE  Compress(Append(root, number)) =
             <<BigEndian(FirstLimbs(root)), BigEndian(SecondLimbs(root, number))>>
<1> DEFINE inputs == Append(root, number)
           block(i) == [j \in 1 .. CompressionFactor |->
                          IF (i - 1) * CompressionFactor + j <= Len(inputs)
                          THEN inputs[(i - 1) * CompressionFactor + j] ELSE 0]
<1>1. /\ Len(inputs) = RootLimbs + 1 /\ inputs[RootLimbs + 1] = number
      /\ \A i \in 1 .. RootLimbs : inputs[i] = root[i]
  <2>1. root \in Seq(Limbs) /\ Len(root) = RootLimbs
    BY Inputs, LengthIs
  <2> QED
    BY <2>1
<1> HIDE DEF inputs
<1>2. (Len(inputs) + CompressionFactor - 1) \div CompressionFactor = 2
  <2>1. PICK c \in Nat \ {0}, r \in Nat : c = CompressionFactor /\ r = Rest
    BY Inputs
  <2>2. Len(inputs) + CompressionFactor - 1 = c * 2 + r /\ r \in 0 .. c - 1
    BY <1>1, <2>1, Inputs
  <2>3. (c * 2 + r) \div c = 2
    BY <2>2, DivModIs
  <2> QED
    BY <2>1, <2>2, <2>3
<1>3. block(1) = FirstLimbs(root)
  <2>1. ASSUME NEW j \in 1 .. CompressionFactor
        PROVE  (IF (1 - 1) * CompressionFactor + j <= Len(inputs)
                THEN inputs[(1 - 1) * CompressionFactor + j] ELSE 0) = root[j]
    <3>1. (1 - 1) * CompressionFactor + j = j /\ j \in 1 .. RootLimbs
      BY Inputs
    <3> QED
      BY <1>1, <3>1, Inputs
  <2> QED
    BY <2>1 DEF FirstLimbs
<1>4. block(2) = SecondLimbs(root, number)
  <2>1. ASSUME NEW j \in 1 .. CompressionFactor
        PROVE  (IF (2 - 1) * CompressionFactor + j <= Len(inputs)
                THEN inputs[(2 - 1) * CompressionFactor + j] ELSE 0) = SecondLimbs(root, number)[j]
    <3>1. (2 - 1) * CompressionFactor + j = CompressionFactor + j
      BY Inputs
    <3>2. CASE j <= Rest
      BY <1>1, <3>1, <3>2, Inputs DEF SecondLimbs
    <3>3. CASE j = Rest + 1
      BY <1>1, <3>1, <3>3, Inputs DEF SecondLimbs
    <3>4. CASE j > Rest + 1
      BY <1>1, <3>1, <3>4, Inputs DEF SecondLimbs
    <3> QED
      BY <3>2, <3>3, <3>4, Inputs
  <2> QED
    BY <2>1 DEF SecondLimbs
<1>5. Compress(inputs) = [i \in 1 .. 2 |-> BigEndian(block(i))]
  BY <1>2, Zenon DEF Compress
<1> HIDE DEF block
<1>6. [i \in 1 .. 2 |-> BigEndian(block(i))] = <<BigEndian(block(1)), BigEndian(block(2))>>
  OBVIOUS
<1> QED
  BY <1>3, <1>4, <1>5, <1>6 DEF inputs

LEMMA LimbsOfBigEndian ==
    ASSUME NEW limbs \in [1 .. CompressionFactor -> Limbs]
    PROVE  InputLimbs(BigEndian(limbs)) = limbs
<1>1. CompressionFactor \in Nat /\ limbs \in [1 .. CompressionFactor -> Int]
      /\ AreDigits(limbs, InputBase, CompressionFactor)
  BY Inputs DEF Limbs, AreDigits
<1>2. PICK f \in [0 .. CompressionFactor -> Int] :
        Accumulates(f, limbs, CompressionFactor) /\ BigEndian(limbs) = f[CompressionFactor]
  BY <1>1, BigEndianFunction, Zenon
<1>3. \A j \in 1 .. CompressionFactor :
        (f[CompressionFactor] \div Pow(InputBase, CompressionFactor - j)) % InputBase = limbs[j]
  BY <1>1, <1>2, AccumulateDigits
<1> QED
  BY <1>2, <1>3 DEF InputLimbs

\* The relayer reads the root and the number back.
LEMMA ParsedInputs ==
    ASSUME NEW root \in [1 .. RootLimbs -> Limbs], NEW number \in Limbs
    PROVE  FromPublicInputs(Compress(Append(root, number))) = [root |-> root, number |-> number]
<1> DEFINE first == FirstLimbs(root)
           second == SecondLimbs(root, number)
           inputs == Compress(Append(root, number))
<1>1. inputs[1] = BigEndian(first) /\ inputs[2] = BigEndian(second)
  BY CompressIs
<1>2. InputLimbs(inputs[1]) = first /\ InputLimbs(inputs[2]) = second
  BY <1>1, LimbsAre, LimbsOfBigEndian
<1>3. FromPublicInputs(inputs) = [root |-> first \o SubSeq(second, 1, Rest), number |-> second[Rest + 1]]
  BY <1>2 DEF FromPublicInputs
<1> HIDE DEF inputs
<1>4. second[Rest + 1] = number
  BY Inputs DEF SecondLimbs
<1>5. first \o SubSeq(second, 1, Rest) = root
  <2> DEFINE tail == SubSeq(second, 1, Rest)
  <2>1. first \in [1 .. CompressionFactor -> Limbs] /\ second \in [1 .. CompressionFactor -> Limbs]
    BY LimbsAre
  <2>a. \A j \in 1 .. CompressionFactor : first[j] = root[j]
    BY DEF FirstLimbs
  <2>b. \A j \in 1 .. Rest : second[j] = root[CompressionFactor + j]
    BY Inputs DEF SecondLimbs
  <2> HIDE DEF first, second
  <2>3. tail \in [1 .. Rest -> Limbs] /\ \A j \in 1 .. Rest : tail[j] = second[j]
    <3>1. CompressionFactor \in Nat /\ Rest \in 0 .. CompressionFactor
      BY Inputs
    <3> QED
      BY <2>1, <3>1, Prefix
  <2> HIDE DEF tail
  <2> HIDE DEF tail
  <2>4. CompressionFactor \in Nat /\ Rest \in Nat /\ RootLimbs \in Nat
        /\ RootLimbs = CompressionFactor + Rest
    BY Inputs
  <2>5. PICK u : u = first \o tail
    OBVIOUS
  <2>6. Joins(u, first, CompressionFactor, tail, Rest, Limbs)
    BY <2>1, <2>3, <2>4, <2>5, Concatenated, Zenon
  <2>7. ASSUME NEW i \in 1 .. RootLimbs
        PROVE  u[i] = root[i]
    <3>1. CASE i <= CompressionFactor
      BY <2>a, <2>4, <2>6, <3>1 DEF Joins
    <3>2. CASE i > CompressionFactor
      <4>1. PICK j \in 1 .. Rest : i = CompressionFactor + j
        <5>1. i - CompressionFactor \in 1 .. Rest /\ i = CompressionFactor + (i - CompressionFactor)
          BY <2>4, <3>2
        <5> QED
          BY <5>1
      <4> QED
        BY <2>3, <2>b, <2>6, <4>1 DEF Joins
    <3> QED
      BY <2>4, <3>1, <3>2
  <2>8. u = root
    BY <2>4, <2>6, <2>7 DEF Joins
  <2> QED
    BY <2>5, <2>8 DEF tail
<1> QED
  BY <1>3, <1>4, <1>5 DEF inputs

\* The contract rebuilds the same public inputs from the root and the number.
LEMMA BuiltInputs ==
    ASSUME NEW root \in [1 .. RootLimbs -> Limbs], NEW number \in Limbs
    PROVE  BuildPublicInputs(number, root) = Compress(Append(root, number))
<1> DEFINE first == FirstLimbs(root)
           second == SecondLimbs(root, number)
           tail == [i \in 1 .. Rest |-> root[CompressionFactor + i]]
           zeros == [i \in 1 .. CompressionFactor - Rest - 1 |-> 0]
<1>1. PICK c \in Nat, r \in Nat, z \in Nat, b \in Nat \ {0} :
        /\ c = CompressionFactor /\ r = Rest /\ z = CompressionFactor - Rest - 1 /\ b = InputBase
        /\ RootLimbs = c + r /\ c = (r + 1) + z
  <2>1. CompressionFactor - Rest - 1 \in Nat
    BY Inputs
  <2> QED
    BY <2>1, Inputs
<1>2. /\ root \in [1 .. c + r -> Int] /\ AreDigits(root, b, c + r)
      /\ first \in [1 .. c -> Int] /\ AreDigits(first, b, c)
      /\ second \in [1 .. c -> Int] /\ AreDigits(second, b, c)
      /\ tail \in [1 .. r -> Int] /\ AreDigits(tail, b, r)
      /\ zeros \in [1 .. z -> Int]
  <2>1. Limbs \subseteq Int
    BY Inputs DEF Limbs
  <2>2. root \in [1 .. c + r -> Limbs] /\ first \in [1 .. c -> Limbs] /\ second \in [1 .. c -> Limbs]
    BY <1>1, LimbsAre
  <2>3. tail \in [1 .. r -> Limbs]
    <3>1. \A i \in 1 .. r : c + i \in 1 .. c + r
      BY <1>1
    <3> QED
      BY <1>1, <2>2, <3>1
  <2>4. zeros \in [1 .. z -> Int]
    BY <1>1
  <2> HIDE DEF first, second, tail, zeros
  <2> QED
    BY <1>1, <2>1, <2>2, <2>3, <2>4 DEF Limbs, AreDigits
<1>3. /\ \A i \in 1 .. c : first[i] = root[0 + i] /\ first[i] \in Int
      /\ \A i \in 1 .. r : tail[i] = root[c + i] /\ tail[i] \in Int
      /\ \A i \in 1 .. r : tail[i] = second[0 + i]
      /\ second[r + 1] = number
      /\ \A i \in 1 .. z : zeros[i] = 0 /\ zeros[i] = second[(r + 1) + i]
  <2>1. \A i \in 1 .. c : first[i] = root[0 + i]
    BY <1>1 DEF FirstLimbs
  <2>2. \A i \in 1 .. r : tail[i] = root[c + i] /\ tail[i] = second[0 + i]
    BY <1>1 DEF SecondLimbs
  <2>3. second[r + 1] = number
    BY <1>1 DEF SecondLimbs
  <2>4. \A i \in 1 .. z : zeros[i] = 0 /\ zeros[i] = second[(r + 1) + i]
    BY <1>1 DEF SecondLimbs
  <2>5. (\A i \in 1 .. c : first[i] \in Int) /\ \A i \in 1 .. r : tail[i] \in Int
    <3> HIDE DEF first, second, tail, zeros
    <3> QED
      BY <1>2
  <2> HIDE DEF first, second, tail, zeros
  <2> QED
    BY <2>1, <2>2, <2>3, <2>4, <2>5
<1> HIDE DEF first, second, tail, zeros
<1>4. c + r \in Nat /\ 0 + c = c /\ 0 + r = r /\ r + 1 \in Nat /\ 0 \in Nat /\ (r + 1) + z = c
      /\ r \in 0 .. r /\ c \in 0 .. c /\ z \in 0 .. z /\ c \in 0 .. c + r
  BY <1>1
<1>5. PICK V \in [0 .. c + r -> Int] : Accumulates(V, root, c + r) /\ BigEndian(root) = V[c + r]
  BY <1>2, <1>4, BigEndianFunction, Zenon
<1>6. PICK f \in [0 .. c -> Int] : Accumulates(f, first, c) /\ BigEndian(first) = f[c]
  BY <1>2, BigEndianFunction, Zenon
<1>7. PICK h \in [0 .. c -> Int] : Accumulates(h, second, c) /\ BigEndian(second) = h[c]
  BY <1>2, BigEndianFunction, Zenon
<1>8. PICK g \in [0 .. r -> Int] : Accumulates(g, tail, r)
  BY <1>2, BigEndianFunction, Zenon
<1>9. V[c + r] = f[c] * Pow(b, r) + g[r] /\ V[c] = f[c]
  <2>1. Prolongs(V, g, c, r)
    <3>1. Follows(tail, root, c, r)
      BY <1>3 DEF Follows
    <3> QED
      BY <1>5, <1>8, <3>1, AccumulateSplit, Zenon
  <2>2. Same(V, f, 0, c)
    <3>1. Accumulates(V, root, c)
      BY <1>4, <1>5 DEF Accumulates
    <3>2. Same(root, first, 1, c)
      BY <1>3 DEF Same
    <3> QED
      BY <1>6, <3>1, <3>2, AccumulateAgree, Zenon
  <2> QED
    BY <1>1, <1>4, <2>1, <2>2 DEF Prolongs, Same
<1>10. h[c] = (g[r] * b + number) * Pow(b, z)
  <2>1. Same(h, g, 0, r)
    <3>1. Accumulates(h, second, r)
      BY <1>1, <1>7 DEF Accumulates
    <3>2. Same(second, tail, 1, r)
      BY <1>3 DEF Same
    <3> QED
      BY <1>8, <3>1, <3>2, AccumulateAgree, Zenon
  <2>2. h[r + 1] = h[r] * b + number
    <3>1. r + 1 \in 1 .. c /\ (r + 1) - 1 = r
      BY <1>1
    <3> QED
      BY <1>1, <1>3, <1>7, <3>1 DEF Accumulates
  <2> DEFINE o == [i \in 0 .. z |-> 0]
  <2>3. o \in [0 .. z -> Int] /\ Accumulates(o, zeros, z) /\ o[z] = 0
    <3>1. \A i \in 0 .. z : o[i] = 0
      OBVIOUS
    <3>2. o \in [0 .. z -> Int]
      OBVIOUS
    <3> HIDE DEF o
    <3>3. \A i \in 1 .. z : i - 1 \in 0 .. z /\ i \in 0 .. z
      OBVIOUS
    <3>4. 0 * b + 0 = 0 /\ 0 \in 0 .. z
      OBVIOUS
    <3> QED
      BY <1>1, <1>3, <1>4, <3>1, <3>2, <3>3, <3>4 DEF Accumulates
  <2> HIDE DEF o
  <2>4. Prolongs(h, o, r + 1, z)
    <3>1. h \in [0 .. (r + 1) + z -> Int] /\ Accumulates(h, second, (r + 1) + z)
      BY <1>4, <1>7
    <3>2. Follows(zeros, second, r + 1, z)
      BY <1>3 DEF Follows
    <3> QED
      BY <1>4, <2>3, <3>1, <3>2, AccumulateSplit, Zenon
  <2>5. h[c] = h[r + 1] * Pow(b, z) + 0
    BY <1>1, <1>4, <2>3, <2>4 DEF Prolongs
  <2>6. PICK x \in Int, p \in Int : x = h[r + 1] /\ p = Pow(b, z)
    <3>1. r + 1 \in 0 .. c
      BY <1>1
    <3>2. b \in Int /\ h[r + 1] \in Int
      BY <3>1
    <3>3. Pow(b, z) \in Int
      BY <3>2, PowInt
    <3> QED
      BY <3>2, <3>3
  <2> QED
    BY <1>4, <2>1, <2>2, <2>5, <2>6, SMTT(30) DEF Same
<1>11. PICK p \in Nat \ {0}, q \in Nat \ {0}, w \in Nat \ {0} :
         p = Pow(b, r) /\ q = Pow(b, c) /\ w = Pow(b, z)
  BY PowPositive
<1>12. PICK x \in 0 .. q - 1, y \in 0 .. p - 1 : x = f[c] /\ y = g[r]
  <2>1. f[c] \in 0 .. q - 1
    BY <1>1, <1>2, <1>4, <1>6, <1>11, AccumulateRange
  <2>2. g[r] \in 0 .. p - 1
    BY <1>1, <1>2, <1>4, <1>8, <1>11, AccumulateRange
  <2> QED
    BY <2>1, <2>2
<1>13. BigEndian(root) = p * x + y
  <2>1. x * p + y = p * x + y
    OBVIOUS
  <2> QED
    BY <1>5, <1>9, <1>11, <1>12, <2>1
<1>14. (p * x + y) \div p = x /\ (p * x + y) % p = y /\ x % q = x
  <2>1. x \in Int
    OBVIOUS
  <2>2. (p * x + y) \div p = x /\ (p * x + y) % p = y
    BY <2>1, DivModIs
  <2>3. x % q = x
    BY ModSmall
  <2> QED
    BY <2>2, <2>3
<1>15. PICK n \in 0 .. b - 1 : n = number
  BY <1>1 DEF Limbs
<1>16. n % b = n
  BY ModSmall
<1>17. Pow(b, CompressionFactor - Rest) = b * w
  <2>1. CompressionFactor - Rest = z + 1
    BY <1>1
  <2> QED
    BY <1>11, <2>1, PowStep
<1>18. (y * b + n) * w = n * w + y * (b * w)
  OBVIOUS
<1>19. BuildPublicInputs(number, root) = <<x, n * w + y * (b * w)>>
  BY <1>1, <1>11, <1>13, <1>14, <1>15, <1>16, <1>17, Zenon DEF BuildPublicInputs
<1> QED
  BY <1>6, <1>7, <1>10, <1>11, <1>12, <1>15, <1>18, <1>19, CompressIs DEF first, second

\* The contract keeps the low bits of the number.
LEMMA MaskedNumber ==
    ASSUME NEW root, NEW n \in Nat
    PROVE  n % InputBase \in Limbs /\ BuildPublicInputs(n, root) = BuildPublicInputs(n % InputBase, root)
<1>1. InputBase \in Nat \ {0}
  BY Inputs
<1>2. n % InputBase \in 0 .. InputBase - 1
  BY <1>1
<1>3. (n % InputBase) % InputBase = n % InputBase
  BY <1>1, <1>2
<1> QED
  BY <1>2, <1>3, Zenon DEF BuildPublicInputs, Limbs

\* A proof lets the contract store one root, the one the relayer reads back, under
\* every number with the bits that the relayer reads.
LEMMA StorableIs ==
    ASSUME NEW root \in [1 .. RootLimbs -> Limbs], NEW number \in Limbs, NEW proof,
           proof.inputs = Wrapped(Append(root, number))
    PROVE  /\ Storable(proof) = {n \in ContractNumbers : n % InputBase = number} \X {root}
           /\ FromPublicInputs(proof.inputs) = [root |-> root, number |-> number]
<1>1. proof.inputs = Compress(Append(root, number))
  BY DEF Wrapped
<1>2. FromPublicInputs(proof.inputs) = [root |-> root, number |-> number]
  BY <1>1, ParsedInputs
<1>3. ASSUME NEW r \in [1 .. RootLimbs -> Limbs], NEW n \in Limbs,
             BuildPublicInputs(n, r) = proof.inputs
      PROVE  r = root /\ n = number
  <2>1. FromPublicInputs(proof.inputs) = [root |-> r, number |-> n]
    BY <1>3, BuiltInputs, ParsedInputs
  <2> QED
    BY <1>2, <2>1
<1>4. BuildPublicInputs(number, root) = proof.inputs
  BY <1>1, BuiltInputs
<1>5. Storable(proof) =
        {pair \in ContractNumbers \X [1 .. RootLimbs -> Limbs] :
           BuildPublicInputs(pair[1], pair[2]) = proof.inputs}
  BY DEF Storable, Limbs
<1>6. \A n \in ContractNumbers : n \in Nat
  BY PowPositive, InputsAssumption DEF ContractNumbers
<1>7. ASSUME NEW n \in ContractNumbers, NEW r \in [1 .. RootLimbs -> Limbs]
      PROVE  BuildPublicInputs(n, r) = proof.inputs <=> n % InputBase = number /\ r = root
  <2>1. n % InputBase \in Limbs /\ BuildPublicInputs(n, r) = BuildPublicInputs(n % InputBase, r)
    BY <1>6, MaskedNumber
  <2> QED
    BY <1>3, <1>4, <2>1
<1>8. ASSUME NEW pair \in Storable(proof)
      PROVE  pair \in {n \in ContractNumbers : n % InputBase = number} \X {root}
  <2>1. PICK n \in ContractNumbers, r \in [1 .. RootLimbs -> Limbs] : pair = <<n, r>>
    BY <1>5
  <2>2. BuildPublicInputs(n, r) = proof.inputs
    BY <1>5, <2>1
  <2>3. n % InputBase = number /\ r = root
    BY <1>7, <2>2
  <2> QED
    BY <2>1, <2>3
<1>9. ASSUME NEW pair \in {n \in ContractNumbers : n % InputBase = number} \X {root}
      PROVE  pair \in Storable(proof)
  <2>1. PICK n \in ContractNumbers : pair = <<n, root>> /\ n % InputBase = number
    OBVIOUS
  <2>2. BuildPublicInputs(n, root) = proof.inputs
    BY <1>7, <2>1
  <2> QED
    BY <1>5, <2>1, <2>2
<1> QED
  BY <1>2, <1>8, <1>9

(****************************************************************************)
(* BlockFinality: what a final proof proves.                                *)
(****************************************************************************)
\* The positions of the set, up to a validator index, whose keys signed.
Signers(set, message, latest) ==
    {i \in 1 .. Len(set) : i - 1 <= latest /\ Signed(set[i], message)}

SignsFields == {"set", "message", "latest", "count", "zeroPadded"}
LatestFields == {"genesisId", "genesisSet", "id", "set", "zeroPadded"}

\* A chain of signatures over sets with zero padding counts members only, and
\* each of them at most once.
SignsInv(signs) ==
    /\ signs = [f \in SignsFields |-> signs[f]]
    /\ signs.set \in KnownSets
    /\ signs.message \in Votes
    /\ signs.latest \in Int
    /\ signs.count \in Nat
    /\ signs.zeroPadded \in BOOLEAN
    /\ signs.zeroPadded =>
         signs.count <= Cardinality(Signers(signs.set, signs.message, signs.latest))

\* What more than two thirds of the set of the chain's history precommitted.
OfHistory(message) ==
    /\ message.block \in Blocks
    /\ message.number = message.block.number
    /\ message.block.set = message.setId

FinalInv(final) ==
    /\ final.message \in Votes
    /\ final.zeroPadded \in BOOLEAN
    /\ final.zeroPadded /\ final.set = AuthoritySets[final.message.setId] => OfHistory(final.message)

\* A chain of set changes from the genesis set arrives at the set of its id.
LatestInv(latest) ==
    /\ latest = [f \in LatestFields |-> latest[f]]
    /\ latest.zeroPadded \in BOOLEAN
    /\ latest.zeroPadded /\ FromGenesis(latest) /\ latest.id \in DOMAIN AuthoritySets
         => latest.set = AuthoritySets[latest.id]

\* A proof has the public inputs of some block, a final one if its validator sets
\* have zero padding.
ProofInv(proof) ==
    /\ proof.zeroPadded \in BOOLEAN
    /\ \E root \in [1 .. RootLimbs -> Limbs], number \in Limbs :
         proof.inputs = Wrapped(Append(root, number))
    /\ proof.zeroPadded =>
         \E block \in Blocks : proof.inputs = Wrapped(Append(block.root, block.number))

FinalityFields == {"signs", "final", "latest", "proof", "gathered", "outcome"}

FinalityInv ==
    /\ finality = [f \in FinalityFields |-> finality[f]]
    /\ \A signs \in finality.signs : SignsInv(signs)
    /\ \A final \in finality.final : FinalInv(final)
    /\ \A latest \in finality.latest : LatestInv(latest)
    /\ \A proof \in finality.proof : ProofInv(proof)

LEMMA SignersFinite ==
    ASSUME NEW set \in KnownSets, NEW message, NEW latest
    PROVE  /\ Len(set) \in Nat /\ DOMAIN set = 1 .. Len(set)
           /\ IsFiniteSet(Signers(set, message, latest))
           /\ Cardinality(Signers(set, message, latest)) \in Nat
<1>1. Len(set) \in Nat /\ DOMAIN set = 1 .. Len(set)
  BY SetsAssumption
<1>2. IsFiniteSet(1 .. Len(set))
  BY <1>1, FS_Interval
<1>3. IsFiniteSet(Signers(set, message, latest))
  BY <1>2, FS_Subset DEF Signers
<1> QED
  BY <1>1, <1>3, FS_CardinalityType

\* One more signature at a later index is one more signer.
LEMMA SignersGrow ==
    ASSUME NEW set \in KnownSets, NEW message, NEW pad, NEW latest \in Int, NEW idx \in Int,
           Composable(set, pad, message, latest, idx), idx < Len(set)
    PROVE  Cardinality(Signers(set, message, idx)) >= Cardinality(Signers(set, message, latest)) + 1
<1> DEFINE old == Signers(set, message, latest)
           new == Signers(set, message, idx)
<1>1. Len(set) \in Nat /\ IsFiniteSet(old) /\ Cardinality(old) \in Nat
      /\ IsFiniteSet(new) /\ Cardinality(new) \in Nat
  BY SignersFinite
<1>2. idx \in 0 .. MaxValidators - 1 /\ idx >= latest + 1 /\ Signed(PaddedSet(set, pad)[idx], message)
  BY SetsAssumption DEF Composable, InOrder
<1>3. PaddedSet(set, pad)[idx] = set[idx + 1]
  BY <1>1, <1>2 DEF PaddedSet
<1>4. idx + 1 \in new
  BY <1>1, <1>2, <1>3, SetsAssumption DEF Signers
<1>5. idx + 1 \notin old
  BY <1>2, SetsAssumption DEF Signers
<1>6. old \subseteq new
  BY <1>2, <1>1, SetsAssumption DEF Signers
<1> HIDE DEF old, new
<1>7. IsFiniteSet(old \cup {idx + 1}) /\ Cardinality(old \cup {idx + 1}) = Cardinality(old) + 1
  BY <1>1, <1>5, FS_AddElement
<1>8. Cardinality(old \cup {idx + 1}) <= Cardinality(new)
  BY <1>1, <1>4, <1>6, FS_Subset
<1>9. Cardinality(new) >= Cardinality(old) + 1
  BY <1>1, <1>7, <1>8
<1> QED
  BY <1>9 DEF old, new

\* More than two thirds of a set of the history contain an honest member.
LEMMA QuorumIsHonest ==
    ASSUME NEW message \in Votes, NEW latest, NEW count \in Nat,
           NEW set \in KnownSets, set = AuthoritySets[message.setId],
           Enough(count, Len(set)),
           count <= Cardinality(Signers(set, message, latest)),
           message.vote = "precommit"
    PROVE  OfHistory(message)
<1> DEFINE signers == Signers(set, message, latest)
           faulty == {i \in DOMAIN set : set[i] \in Faulty}
<1>1. Len(set) \in Nat /\ DOMAIN set = 1 .. Len(set)
      /\ IsFiniteSet(signers) /\ Cardinality(signers) \in Nat
  BY SignersFinite
<1>2. message.setId \in DOMAIN AuthoritySets
  BY DEF Votes
<1>3. 3 * Cardinality(faulty) < Len(set)
  BY <1>2, FaultyAssumption
<1>4. IsFiniteSet(faulty)
  <2>1. IsFiniteSet(1 .. Len(set))
    BY <1>1, FS_Interval, 1 \in Int, Len(set) \in Int
  <2>2. faulty \subseteq 1 .. Len(set)
    BY <1>1
  <2> QED
    BY <2>1, <2>2, FS_Subset
<1>5. Cardinality(faulty) \in Nat
  BY <1>4, FS_CardinalityType
<1>6. 3 * count >= 2 * Len(set) + 1
  BY <1>1 DEF Enough
<1>7. ~(signers \subseteq faulty)
  <2> SUFFICES ASSUME signers \subseteq faulty PROVE FALSE
    OBVIOUS
  <2>1. Cardinality(signers) <= Cardinality(faulty)
    BY <1>4, FS_Subset
  <2> HIDE DEF signers, faulty
  <2>2. count <= Cardinality(signers)
    BY DEF signers
  <2> QED
    BY <1>1, <1>3, <1>5, <1>6, <2>1, <2>2
<1>8. PICK i \in signers : i \notin faulty
  BY <1>7
<1>9. Signed(set[i], message) /\ set[i] \notin Faulty
  BY <1>1, <1>8 DEF Signers
<1> QED
  BY <1>9 DEF Signed, Casts, OfHistory

LEMMA FinalityInitInv ==
    ASSUME FinalityInit
    PROVE  FinalityInv
<1>1. /\ finality = [f \in FinalityFields |-> finality[f]]
      /\ finality.signs = {} /\ finality.final = {}
      /\ finality.latest = {} /\ finality.proof = {}
  BY DEF FinalityInit, FinalityFields
<1> QED
  BY <1>1 DEF FinalityInv

\* Where the padding is zero, an index that is counted is that of a member:
\* there is no signature for the zero key.
LEMMA PaddingSignsNothing ==
    ASSUME NEW set \in KnownSets, NEW pad, NEW message, NEW latest, NEW idx,
           Composable(set, pad, message, latest, idx), ZeroPadded(set, pad)
    PROVE  idx < Len(set)
<1>1. Len(set) \in Nat /\ MaxValidators \in Nat
  BY SetsAssumption
<1>2. idx \in 0 .. MaxValidators - 1 /\ Signed(PaddedSet(set, pad)[idx], message)
  BY DEF Composable
<1>3. ZeroKey \notin Faulty
  BY FaultyAssumption, HistoryAssumption
<1>4. ~Signed(ZeroKey, message)
  BY <1>3 DEF Signed
<1>5. ASSUME ~(idx < Len(set))
      PROVE  FALSE
  <2>1. idx \in Len(set) .. MaxValidators - 1
    BY <1>1, <1>2, <1>5
  <2>2. PaddedSet(set, pad)[idx] = ZeroKey
    BY <2>1, Zenon DEF ZeroPadded
  <2> QED
    BY <1>2, <1>4, <2>2
<1> QED
  BY <1>5

LEMMA SignInitialStep ==
    ASSUME FinalityInv, SignInitial
    PROVE  FinalityInv'
<1>1. PICK set \in KnownSets, pad \in Faulty \cup {ZeroKey}, message \in Votes,
           idx \in 0 .. MaxValidators - 1 :
       /\ Composable(set, pad, message, NoSigns.latest, idx)
       /\ finality' = [finality EXCEPT
            !.signs = {[set |-> set, message |-> message, latest |-> idx,
                        count |-> NoSigns.count + 1, zeroPadded |-> ZeroPadded(set, pad)]}]
  BY Zenon DEF SignInitial
<1> DEFINE signs == [set |-> set, message |-> message, latest |-> idx,
                     count |-> NoSigns.count + 1, zeroPadded |-> ZeroPadded(set, pad)]
<1>2. idx \in Int /\ NoSigns.latest = -1 /\ NoSigns.count + 1 = 1
  BY SetsAssumption DEF NoSigns
<1>3. Cardinality(Signers(set, message, -1)) \in Nat
      /\ Cardinality(Signers(set, message, idx)) \in Nat
  BY SignersFinite
<1>4. idx < Len(set) =>
        Cardinality(Signers(set, message, idx)) >= Cardinality(Signers(set, message, -1)) + 1
  BY <1>1, <1>2, SignersGrow
<1>5. SignsInv(signs)
  <2>1. signs = [f \in SignsFields |-> signs[f]]
    BY DEF SignsFields
  <2>2. /\ signs.set = set /\ signs.message = message /\ signs.latest = idx
        /\ signs.count = 1 /\ signs.zeroPadded = ZeroPadded(set, pad)
    BY <1>2
  <2> HIDE DEF signs
  <2>3. ZeroPadded(set, pad) => 1 <= Cardinality(Signers(set, message, idx))
    BY <1>1, <1>3, <1>4, PaddingSignsNothing
  <2>4. signs.zeroPadded => signs.count <= Cardinality(Signers(signs.set, signs.message, signs.latest))
    BY <2>2, <2>3, Zenon
  <2>5. signs.zeroPadded \in BOOLEAN
    BY <2>2 DEF ZeroPadded
  <2>6. signs.set \in KnownSets /\ signs.message \in Votes /\ signs.latest \in Int /\ signs.count \in Nat
    BY <1>2, <2>2
  <2> QED
    BY <2>1, <2>4, <2>5, <2>6, Zenon DEF SignsInv
<1> HIDE DEF signs
<1>6. /\ finality' = [f \in FinalityFields |-> finality'[f]]
      /\ finality'.signs = {signs} /\ finality'.final = finality.final
      /\ finality'.latest = finality.latest /\ finality'.proof = finality.proof
  BY <1>1 DEF FinalityInv, FinalityFields, signs
<1> QED
  BY <1>5, <1>6 DEF FinalityInv

LEMMA SignRecursiveStep ==
    ASSUME FinalityInv, SignRecursive
    PROVE  FinalityInv'
<1>1. PICK old \in finality.signs, pad \in Faulty \cup {ZeroKey},
           idx \in 0 .. MaxValidators - 1 :
       /\ Composable(old.set, pad, old.message, old.latest, idx)
       /\ finality' = [finality EXCEPT
            !.signs = {[old EXCEPT !.latest = idx, !.count = @ + 1,
                                   !.zeroPadded = @ /\ ZeroPadded(old.set, pad)]}]
  BY Zenon DEF SignRecursive
<1> DEFINE signs == [old EXCEPT !.latest = idx, !.count = @ + 1,
                                !.zeroPadded = @ /\ ZeroPadded(old.set, pad)]
<1>2. SignsInv(old)
  BY DEF FinalityInv
<1>3. /\ signs.set = old.set /\ signs.message = old.message /\ signs.latest = idx
      /\ signs.count = old.count + 1 /\ signs.zeroPadded = (old.zeroPadded /\ ZeroPadded(old.set, pad))
      /\ signs = [f \in SignsFields |-> signs[f]]
  BY <1>2 DEF SignsInv, SignsFields
<1> HIDE DEF signs
<1>4. idx \in Int
  BY SetsAssumption
<1>5. /\ old.latest \in Int /\ old.set \in KnownSets
      /\ Cardinality(Signers(old.set, old.message, old.latest)) \in Nat
      /\ Cardinality(Signers(old.set, old.message, idx)) \in Nat
  BY <1>2, SignersFinite DEF SignsInv
<1>6. idx < Len(old.set) =>
        Cardinality(Signers(old.set, old.message, idx))
          >= Cardinality(Signers(old.set, old.message, old.latest)) + 1
  BY <1>1, <1>4, <1>5, SignersGrow
<1>8. SignsInv(signs)
  <2>1. old.zeroPadded /\ ZeroPadded(old.set, pad) =>
          old.count + 1 <= Cardinality(Signers(old.set, old.message, idx))
    <3>1. ZeroPadded(old.set, pad) => idx < Len(old.set)
      BY <1>1, <1>5, PaddingSignsNothing
    <3> QED
      BY <1>2, <1>5, <1>6, <3>1 DEF SignsInv
  <2>2. signs.zeroPadded => signs.count <= Cardinality(Signers(signs.set, signs.message, signs.latest))
    BY <1>3, <2>1, Zenon
  <2>3. signs.zeroPadded \in BOOLEAN
    BY <1>3
  <2>4. signs.set \in KnownSets /\ signs.message \in Votes /\ signs.latest \in Int /\ signs.count \in Nat
    BY <1>2, <1>3, <1>4 DEF SignsInv
  <2> QED
    BY <1>3, <2>2, <2>3, <2>4, Zenon DEF SignsInv
<1>9. /\ finality' = [f \in FinalityFields |-> finality'[f]]
      /\ finality'.signs = {signs} /\ finality'.final = finality.final
      /\ finality'.latest = finality.latest /\ finality'.proof = finality.proof
  BY <1>1 DEF FinalityInv, FinalityFields, signs
<1> QED
  BY <1>8, <1>9 DEF FinalityInv

LEMMA ProveFinalityStep ==
    ASSUME FinalityInv, ProveFinality
    PROVE  FinalityInv'
<1>1. PICK signs \in finality.signs :
     /\ Enough(signs.count, Len(signs.set))
     /\ signs.message.vote = "precommit"
     /\ finality' = [finality EXCEPT
          !.signs = {},
          !.final = {[set |-> signs.set, message |-> signs.message,
                      zeroPadded |-> signs.zeroPadded]}]
  BY Zenon DEF ProveFinality
<1> DEFINE final == [set |-> signs.set, message |-> signs.message,
                     zeroPadded |-> signs.zeroPadded]
<1>2. SignsInv(signs)
  BY DEF FinalityInv
<1>3. signs.zeroPadded /\ signs.set = AuthoritySets[signs.message.setId] => OfHistory(signs.message)
  BY <1>1, <1>2, QuorumIsHonest DEF SignsInv
<1>4. FinalInv(final)
  BY <1>2, <1>3 DEF SignsInv, FinalInv
<1> HIDE DEF final
<1>5. /\ finality' = [f \in FinalityFields |-> finality'[f]]
      /\ finality'.signs = {} /\ finality'.final = {final}
      /\ finality'.latest = finality.latest /\ finality'.proof = finality.proof
  BY <1>1 DEF FinalityInv, FinalityFields, final
<1> QED
  BY <1>4, <1>5 DEF FinalityInv

\* A final block of a set of the history names the set that follows.
LEMMA NextSetIsOfHistory ==
    ASSUME NEW final, FinalInv(final), final.zeroPadded,
           final.set = AuthoritySets[final.message.setId],
           final.message.setId + 1 \in DOMAIN AuthoritySets
    PROVE  NextSet(final).next = AuthoritySets[final.message.setId + 1]
BY HistoryAssumption DEF FinalInv, OfHistory, NextSet

LEMMA ProveGenesisStep ==
    ASSUME FinalityInv, ProveGenesis
    PROVE  FinalityInv'
<1>1. PICK final \in finality.final :
       finality' = [finality EXCEPT
          !.final = {},
          !.latest = {[genesisId |-> NextSet(final).id, genesisSet |-> NextSet(final).set,
                       id |-> NextSet(final).id + 1, set |-> NextSet(final).next,
                       zeroPadded |-> final.zeroPadded]}]
  BY Zenon DEF ProveGenesis
<1> DEFINE latest == [genesisId |-> NextSet(final).id, genesisSet |-> NextSet(final).set,
                      id |-> NextSet(final).id + 1, set |-> NextSet(final).next,
                      zeroPadded |-> final.zeroPadded]
<1>2. FinalInv(final)
  BY DEF FinalityInv
<1>3. NextSet(final).id = final.message.setId /\ NextSet(final).set = final.set
  BY DEF NextSet
<1>4. ASSUME final.zeroPadded, FromGenesis(latest), latest.id \in DOMAIN AuthoritySets
      PROVE  latest.set = AuthoritySets[latest.id]
  <2>1. final.message.setId = Genesis /\ final.set = AuthoritySets[final.message.setId]
    BY <1>3, <1>4 DEF FromGenesis
  <2>2. final.message.setId + 1 \in DOMAIN AuthoritySets
    BY <1>3, <1>4
  <2> QED
    BY <1>2, <1>3, <1>4, <2>1, <2>2, NextSetIsOfHistory
<1>5. LatestInv(latest)
  <2>1. latest = [f \in LatestFields |-> latest[f]]
    BY DEF LatestFields
  <2>2. latest.zeroPadded = final.zeroPadded
    OBVIOUS
  <2> HIDE DEF latest
  <2> QED
    BY <1>2, <1>4, <2>1, <2>2 DEF LatestInv, FinalInv
<1> HIDE DEF latest
<1>6. /\ finality' = [f \in FinalityFields |-> finality'[f]]
      /\ finality'.signs = finality.signs /\ finality'.final = {}
      /\ finality'.latest = {latest} /\ finality'.proof = finality.proof
  BY <1>1 DEF FinalityInv, FinalityFields, latest
<1> QED
  BY <1>5, <1>6 DEF FinalityInv

LEMMA ProveChangeStep ==
    ASSUME FinalityInv, ProveChange
    PROVE  FinalityInv'
<1>1. PICK final \in finality.final, old \in finality.latest :
        /\ Continues(old, NextSet(final).id, NextSet(final).set)
        /\ finality' = [finality EXCEPT
             !.final = {},
             !.latest = {[old EXCEPT !.id = NextSet(final).id + 1, !.set = NextSet(final).next,
                                     !.zeroPadded = @ /\ final.zeroPadded]}]
  BY Zenon DEF ProveChange
<1> DEFINE latest == [old EXCEPT !.id = NextSet(final).id + 1, !.set = NextSet(final).next,
                                 !.zeroPadded = @ /\ final.zeroPadded]
<1>2. FinalInv(final) /\ LatestInv(old)
  BY DEF FinalityInv
<1>3. NextSet(final).id = final.message.setId /\ NextSet(final).set = final.set
  BY DEF NextSet
<1>4. latest = [f \in LatestFields |-> latest[f]]
  BY <1>2 DEF LatestInv, LatestFields
<1>5. /\ latest.genesisId = old.genesisId /\ latest.genesisSet = old.genesisSet
      /\ latest.id = final.message.setId + 1 /\ latest.set = NextSet(final).next
      /\ latest.zeroPadded = (old.zeroPadded /\ final.zeroPadded)
  BY <1>2, <1>3 DEF LatestInv, LatestFields
<1> HIDE DEF latest
<1>6. ASSUME latest.zeroPadded, FromGenesis(latest), latest.id \in DOMAIN AuthoritySets
      PROVE  latest.set = AuthoritySets[latest.id]
  <2>1. old.zeroPadded /\ final.zeroPadded /\ FromGenesis(old)
    BY <1>2, <1>5, <1>6 DEF FromGenesis, LatestInv, FinalInv
  <2>2. old.id = final.message.setId /\ old.set = final.set
    BY <1>1, <1>3 DEF Continues
  <2>3. final.message.setId \in DOMAIN AuthoritySets
    BY <1>2 DEF FinalInv, Votes
  <2>4. final.set = AuthoritySets[final.message.setId]
    BY <1>2, <2>1, <2>2, <2>3 DEF LatestInv
  <2> QED
    BY <1>2, <1>5, <1>6, <2>1, <2>4, NextSetIsOfHistory
<1>7. LatestInv(latest)
  BY <1>2, <1>4, <1>5, <1>6 DEF LatestInv, FinalInv
<1>8. /\ finality' = [f \in FinalityFields |-> finality'[f]]
      /\ finality'.signs = finality.signs /\ finality'.final = {}
      /\ finality'.latest = {latest} /\ finality'.proof = finality.proof
  BY <1>1 DEF FinalityInv, FinalityFields, latest
<1> QED
  BY <1>7, <1>8 DEF FinalityInv

LEMMA ProveMessageSentStep ==
    ASSUME FinalityInv, ProveMessageSent
    PROVE  FinalityInv'
<1>1. PICK final \in finality.final, latest \in finality.latest :
     /\ Continues(latest, MessageSent(final).id, MessageSent(final).set)
     /\ FromGenesis(latest)
     /\ finality' = [finality EXCEPT
          !.final = {},
          !.proof = {[inputs |-> Wrapped(Append(MessageSent(final).root, MessageSent(final).number)),
                      zeroPadded |-> final.zeroPadded /\ latest.zeroPadded]}]
  BY Zenon DEF ProveMessageSent
<1> DEFINE block == final.message.block
           proof == [inputs |-> Wrapped(Append(MessageSent(final).root, MessageSent(final).number)),
                     zeroPadded |-> final.zeroPadded /\ latest.zeroPadded]
<1>2. FinalInv(final) /\ LatestInv(latest)
  BY DEF FinalityInv
<1>3. /\ MessageSent(final).id = final.message.setId /\ MessageSent(final).set = final.set
      /\ MessageSent(final).root = block.root /\ MessageSent(final).number = final.message.number
  BY DEF MessageSent
<1>4. ASSUME final.zeroPadded, latest.zeroPadded
      PROVE  block \in Blocks /\ proof.inputs = Wrapped(Append(block.root, block.number))
  <2>1. latest.id = final.message.setId /\ latest.set = final.set
    BY <1>1, <1>3 DEF Continues
  <2>2. final.message.setId \in DOMAIN AuthoritySets
    BY <1>2 DEF FinalInv, Votes
  <2>3. final.set = AuthoritySets[final.message.setId]
    BY <1>1, <1>2, <1>4, <2>1, <2>2 DEF LatestInv
  <2>4. OfHistory(final.message)
    BY <1>2, <1>4, <2>3 DEF FinalInv
  <2> QED
    BY <1>3, <2>4 DEF OfHistory
<1>5. ProofInv(proof)
  <2>1. proof.zeroPadded \in BOOLEAN /\ (proof.zeroPadded => final.zeroPadded /\ latest.zeroPadded)
    BY <1>2 DEF FinalInv, LatestInv
  <2>2. block.root \in [1 .. RootLimbs -> Limbs] /\ final.message.number \in Limbs
    BY <1>2, InputsAssumption DEF FinalInv, Votes, Limbs, InputBase
  <2>3. proof.inputs = Wrapped(Append(block.root, final.message.number))
    BY <1>3
  <2> QED
    BY <1>4, <2>1, <2>2, <2>3 DEF ProofInv
<1> HIDE DEF proof
<1>6. /\ finality' = [f \in FinalityFields |-> finality'[f]]
      /\ finality'.signs = finality.signs /\ finality'.final = {}
      /\ finality'.latest = finality.latest /\ finality'.proof = {proof}
  BY <1>1 DEF FinalityInv, FinalityFields, proof
<1> QED
  BY <1>5, <1>6 DEF FinalityInv

\* The prover that runs on gathered pre-commits keeps no proof.
LEMMA ProverStep ==
    ASSUME FinalityInv, Gather \/ RunProver \/ UNCHANGED finality
    PROVE  FinalityInv'
<1>1. /\ finality' = [f \in FinalityFields |-> finality'[f]]
      /\ finality'.signs = finality.signs /\ finality'.final = finality.final
      /\ finality'.latest = finality.latest /\ finality'.proof = finality.proof
  <2>1. CASE Gather
    BY <2>1 DEF Gather, FinalityInv, FinalityFields
  <2>2. CASE RunProver
    BY <2>2 DEF RunProver, FinalityInv, FinalityFields
  <2>3. CASE UNCHANGED finality
    BY <2>3 DEF FinalityInv
  <2> QED
    BY <2>1, <2>2, <2>3
<1> QED
  BY <1>1 DEF FinalityInv

LEMMA FinalityInvariant == FinalitySpec => []FinalityInv
<1>1. FinalityInit => FinalityInv
  BY FinalityInitInv
<1>2. FinalityInv /\ [FinalityNext]_finality => FinalityInv'
  BY SignInitialStep, SignRecursiveStep, ProveFinalityStep, ProveGenesisStep, ProveChangeStep,
     ProveMessageSentStep, ProverStep DEF FinalityNext
<1> QED
  BY <1>1, <1>2, PTL DEF FinalitySpec

\* FinalProof::prove: whoever composes whichever proofs, from whichever
\* genesis, sets and signatures, a final proof over validator sets with zero
\* padding is one of a final block, as long as less than a third of every set
\* is faulty.
THEOREM FinalProofsAreOfFinalBlocks == FinalitySpec => []ProofsAreOfFinalBlocks
<1>1. FinalityInv => ProofsAreOfFinalBlocks
  BY DEF FinalityInv, ProofInv, ProofsAreOfFinalBlocks
<1> QED
  BY <1>1, FinalityInvariant, PTL

\* A final proof lets Relayer.submitMerkleRoot store exactly one root, under
\* exactly the uint256 numbers that agree in the low bits with the number that
\* the relayer reads back from the public inputs, and the pair that the relayer
\* reads is that of a final block if the padding was zero: the packing of the
\* gnark wrapper, its unpacking by the prover and its rebuilding by the contract
\* agree, for every number and width of the limbs.
THEOREM FinalProofsAreGenuine == FinalitySpec => []FinalProofGenuine
<1>1. ASSUME FinalityInv
      PROVE  FinalProofGenuine
  <2>1. ASSUME NEW proof \in finality.proof
        PROVE  LET parsed == FromPublicInputs(proof.inputs)
               IN /\ Storable(proof) = {n \in ContractNumbers : n % InputBase = parsed.number}
                                           \X {parsed.root}
                  /\ proof.zeroPadded =>
                       \E block \in Blocks : block.number = parsed.number /\ block.root = parsed.root
    <3>1. ProofInv(proof)
      BY <1>1 DEF FinalityInv
    <3>2. PICK root \in [1 .. RootLimbs -> Limbs], number \in Limbs :
            proof.inputs = Wrapped(Append(root, number))
      BY <3>1 DEF ProofInv
    <3>3. /\ Storable(proof) = {n \in ContractNumbers : n % InputBase = number} \X {root}
          /\ FromPublicInputs(proof.inputs) = [root |-> root, number |-> number]
      BY <3>2, StorableIs, Zenon
    <3>4. ASSUME proof.zeroPadded
          PROVE  \E block \in Blocks : block.number = number /\ block.root = root
      <4>1. PICK block \in Blocks : proof.inputs = Wrapped(Append(block.root, block.number))
        BY <3>1, <3>4 DEF ProofInv
      <4>2. block.root \in [1 .. RootLimbs -> Limbs] /\ block.number \in Limbs
        BY InputsAssumption DEF Limbs, InputBase
      <4>3. FromPublicInputs(proof.inputs) = [root |-> block.root, number |-> block.number]
        BY <4>1, <4>2, StorableIs, Zenon
      <4> QED
        BY <3>3, <4>3
    <3>5. /\ FromPublicInputs(proof.inputs).number = number
          /\ FromPublicInputs(proof.inputs).root = root
      BY <3>3
    <3> QED
      BY <3>3, <3>4, <3>5, Zenon
  <2> QED
    BY <2>1, Zenon DEF FinalProofGenuine
<1> QED
  BY <1>1, FinalityInvariant, PTL

(***************************************************************************)
(* BlockFinality: the prover that runs on gathered pre-commits.            *)
(***************************************************************************)
Below(R, S, i) == {k \in S : <<k, i>> \in R}

StrictOrder(R, S) ==
  /\ \A x, y \in S : <<x, y>> \in R => <<y, x>> \notin R
  /\ \A x, y, z \in S : <<x, y>> \in R /\ <<y, z>> \in R => <<x, z>> \in R
  /\ \A x, y \in S : x = y \/ <<x, y>> \in R \/ <<y, x>> \in R

LEMMA BelowIn ==
    ASSUME NEW S, IsFiniteSet(S), NEW R, StrictOrder(R, S), NEW i \in S
    PROVE  /\ IsFiniteSet(Below(R, S, i))
           /\ Cardinality(Below(R, S, i)) \in Nat
           /\ Cardinality(Below(R, S, i)) < Cardinality(S)
<1>1. Below(R, S, i) \in SUBSET S
  BY DEF Below
<1>2. Below(R, S, i) # S
  BY DEF Below, StrictOrder
<1>3. IsFiniteSet(Below(R, S, i)) /\ Cardinality(Below(R, S, i)) <= Cardinality(S)
      /\ Cardinality(S) # Cardinality(Below(R, S, i))
  BY <1>1, <1>2, FS_Subset
<1>4. Cardinality(Below(R, S, i)) \in Nat /\ Cardinality(S) \in Nat
  BY <1>3, FS_CardinalityType
<1> QED
  BY <1>3, <1>4

\* An element that comes before another has a lower rank.
LEMMA RankGrows ==
    ASSUME NEW S, IsFiniteSet(S), NEW R, StrictOrder(R, S), NEW i \in S, NEW j \in S, <<i, j>> \in R
    PROVE  Cardinality(Below(R, S, i)) < Cardinality(Below(R, S, j))
<1> DEFINE I == Below(R, S, i)
           J == Below(R, S, j)
<1>1. IsFiniteSet(J) /\ Cardinality(I) \in Nat /\ Cardinality(J) \in Nat
  BY BelowIn
<1>2. I \in SUBSET J
  BY DEF Below, StrictOrder
<1>3. I # J
  BY DEF Below, StrictOrder
<1> HIDE DEF I, J
<1>4. Cardinality(I) <= Cardinality(J) /\ Cardinality(J) # Cardinality(I)
  BY <1>1, <1>2, <1>3, FS_Subset
<1>5. Cardinality(I) < Cardinality(J)
  BY <1>1, <1>4
<1> QED
  BY <1>5 DEF I, J

\* Every rank is taken.
LEMMA RankExists ==
    ASSUME NEW S, IsFiniteSet(S), NEW R, StrictOrder(R, S), NEW n \in 0 .. Cardinality(S) - 1
    PROVE  \E i \in S : Cardinality(Below(R, S, i)) = n
<1>1. PICK c \in Nat : c = Cardinality(S)
  BY FS_CardinalityType
<1> DEFINE rank == [i \in S |-> Cardinality(Below(R, S, i))]
           T == 0 .. c - 1
<1>2. rank \in [S -> T]
  <2>1. ASSUME NEW i \in S PROVE Cardinality(Below(R, S, i)) \in T
    BY <1>1, BelowIn
  <2> QED
    BY <2>1
<1>3. ASSUME NEW i \in S, NEW j \in S, rank[i] = rank[j]
      PROVE  i = j
  <2>1. Cardinality(Below(R, S, i)) = Cardinality(Below(R, S, j))
        /\ Cardinality(Below(R, S, i)) \in Nat /\ Cardinality(Below(R, S, j)) \in Nat
    BY <1>3, BelowIn
  <2>2. <<i, j>> \notin R
    BY <2>1, RankGrows
  <2>3. <<j, i>> \notin R
    BY <2>1, RankGrows
  <2> QED
    BY <2>2, <2>3 DEF StrictOrder
<1>4. \A i \in S : rank[i] = Cardinality(Below(R, S, i))
  OBVIOUS
<1> HIDE DEF rank
<1>5. rank \in Injection(S, T)
  BY <1>2, <1>3 DEF Injection, IsInjective
<1>6. IsFiniteSet(T) /\ Cardinality(T) = c
  <2>1. 0 \in Int /\ c - 1 \in Int
    OBVIOUS
  <2>2. IsFiniteSet(T) /\ Cardinality(T) = IF 0 > c - 1 THEN 0 ELSE c - 1 - 0 + 1
    BY <2>1, FS_Interval
  <2> QED
    BY <2>2
<1>7. rank \in Surjection(S, T)
  <2> HIDE DEF T
  <2> QED
    BY <1>1, <1>5, <1>6, FS_Injection
<1>8. n \in T
  BY <1>1
<1> QED
  BY <1>4, <1>7, <1>8 DEF Surjection

LEMMA NthIs ==
    ASSUME NEW S, S \subseteq Int, IsFiniteSet(S), NEW n \in 1 .. Cardinality(S)
    PROVE  Nth(S, n) \in S /\ Cardinality({k \in S : k < Nth(S, n)}) = n - 1
<1> DEFINE R == {p \in S \X S : p[1] < p[2]}
<1>1. StrictOrder(R, S)
  <2>1. \A x, y \in S : <<x, y>> \in R <=> x < y
    OBVIOUS
  <2> HIDE DEF R
  <2> QED
    BY <2>1 DEF StrictOrder
<1>2. \A i \in S : Below(R, S, i) = {k \in S : k < i}
  BY DEF Below
<1> HIDE DEF R
<1>3. n - 1 \in 0 .. Cardinality(S) - 1
  BY FS_CardinalityType
<1>4. \E i \in S : Cardinality(Below(R, S, i)) = n - 1
  BY <1>1, <1>3, RankExists
<1>5. \E i \in S : Cardinality({k \in S : k < i}) = n - 1
  BY <1>2, <1>4
<1> QED
  BY <1>5 DEF Nth

\* Sorting: the value at n is that of an index with n - 1 ones before it.
SortIndex(indices, n) ==
  CHOOSE i \in DOMAIN indices :
     Cardinality({k \in DOMAIN indices : SortedBefore(indices, k, i)}) = n - 1

LEMMA SortIndexIs ==
    ASSUME NEW c \in Nat, NEW indices \in [1 .. c -> Int]
    PROVE  /\ Arranged(indices) = [n \in 1 .. c |-> indices[SortIndex(indices, n)]]
           /\ \A n \in 1 .. c : SortIndex(indices, n) \in 1 .. c
           /\ \A m, n \in 1 .. c : m < n => SortedBefore(indices, SortIndex(indices, m), SortIndex(indices, n))
<1> DEFINE S == 1 .. c
           R == {p \in S \X S : SortedBefore(indices, p[1], p[2])}
<1>0. DOMAIN indices = S /\ \A i \in S : indices[i] \in Int /\ i \in Int
  OBVIOUS
<1>1. IsFiniteSet(S) /\ Cardinality(S) = c
  <2>1. IsFiniteSet(1 .. c) /\ Cardinality(1 .. c) = IF 1 > c THEN 0 ELSE c - 1 + 1
    BY FS_Interval
  <2> QED
    BY <2>1
<1>2. \A x, y \in S : <<x, y>> \in R <=> SortedBefore(indices, x, y)
  OBVIOUS
<1> HIDE DEF R, S
<1>3. StrictOrder(R, S)
  <2>1. ASSUME NEW x \in S, NEW y \in S, <<x, y>> \in R
        PROVE  <<y, x>> \notin R
    BY <1>0, <1>2, <2>1, SMTT(30) DEF SortedBefore
  <2>2. ASSUME NEW x \in S, NEW y \in S, NEW z \in S, <<x, y>> \in R, <<y, z>> \in R
        PROVE  <<x, z>> \in R
    BY <1>0, <1>2, <2>2, SMTT(30) DEF SortedBefore
  <2>3. ASSUME NEW x \in S, NEW y \in S
        PROVE  x = y \/ <<x, y>> \in R \/ <<y, x>> \in R
    BY <1>0, <1>2, SMTT(30) DEF SortedBefore
  <2> QED
    BY <2>1, <2>2, <2>3 DEF StrictOrder
<1>4. \A i \in S : Below(R, S, i) = {k \in S : SortedBefore(indices, k, i)}
  BY <1>2 DEF Below
<1>5. ASSUME NEW n \in S
      PROVE  SortIndex(indices, n) \in S /\ Cardinality(Below(R, S, SortIndex(indices, n))) = n - 1
  <2>1. n - 1 \in 0 .. Cardinality(S) - 1
    BY <1>1 DEF S
  <2>2. \E i \in S : Cardinality(Below(R, S, i)) = n - 1
    BY <1>1, <1>3, <2>1, RankExists
  <2>3. PICK i \in S : Cardinality({k \in S : SortedBefore(indices, k, i)}) = n - 1
    BY <1>4, <2>2
  <2>4. SortIndex(indices, n) \in S
        /\ Cardinality({k \in S : SortedBefore(indices, k, SortIndex(indices, n))}) = n - 1
    BY <1>0, <2>3 DEF SortIndex
  <2> QED
    BY <1>4, <2>4
<1>6. ASSUME NEW m \in S, NEW n \in S, m < n
      PROVE  SortedBefore(indices, SortIndex(indices, m), SortIndex(indices, n))
  <2>1. PICK i \in S, j \in S : /\ i = SortIndex(indices, m) /\ j = SortIndex(indices, n)
                               /\ Cardinality(Below(R, S, i)) = m - 1
                               /\ Cardinality(Below(R, S, j)) = n - 1
    BY <1>5
  <2>2. m \in Int /\ n \in Int
    BY DEF S
  <2>3. i # j
    BY <1>6, <2>1, <2>2
  <2>4. <<j, i>> \notin R
    <3>1. SUFFICES ASSUME <<j, i>> \in R PROVE FALSE
      OBVIOUS
    <3>2. Cardinality(Below(R, S, j)) < Cardinality(Below(R, S, i))
      BY <1>1, <1>3, <3>1, RankGrows
    <3> QED
      BY <1>6, <2>1, <2>2, <3>2
  <2> QED
    BY <1>2, <1>3, <2>1, <2>3, <2>4 DEF StrictOrder
<1>7. Arranged(indices) = [n \in S |-> indices[SortIndex(indices, n)]]
  BY <1>0 DEF Arranged, SortIndex
<1> QED
  BY <1>5, <1>6, <1>7 DEF S

LEMMA WantedIs ==
    ASSUME NEW set, Len(set) \in Nat
    PROVE  /\ Wanted(set) \in Nat /\ 3 * Wanted(set) > 2 * Len(set)
           /\ Enough(Wanted(set), Len(set))
           /\ \A k \in Nat : 3 * k > 2 * Len(set) => k >= Wanted(set)
<1>1. PICK l \in Nat, x \in Nat : l = Len(set) /\ x = 2 * l
  OBVIOUS
<1>2. 3 \in Nat \ {0} /\ x \in Int
  OBVIOUS
<1>3. PICK q \in Int, r \in 0 .. 2 : x = 3 * q + r /\ x \div 3 = q
  BY <1>2, ModDiv
<1>4. Wanted(set) = q + 1
  BY <1>1, <1>3 DEF Wanted
<1> QED
  BY <1>1, <1>3, <1>4 DEF Enough

Found(set, preCommits) == {i \in DOMAIN preCommits : preCommits[i] \in Members(set)}

\* Places holds the positions in the set of the first c pre-commits found in it.
ProcessedAs(set, preCommits, S, Places, c) ==
  /\ S \subseteq Int /\ IsFiniteSet(S) /\ Cardinality(S) \in Nat
  /\ c = IF Cardinality(S) < Wanted(set) THEN Cardinality(S) ELSE Wanted(set)
  /\ Places \in [1 .. c -> 0 .. Len(set) - 1]
  /\ \A n \in 1 .. c : Nth(S, n) \in S /\ set[Places[n] + 1] = preCommits[Nth(S, n)]
  /\ \A m, n \in 1 .. c : Nth(S, m) = Nth(S, n) => m = n

LEMMA ProcessedIs ==
    ASSUME NEW set, set \in Seq(Members(set)), NEW K, NEW preCommits \in Seq(K)
    PROVE  \E c \in Nat :
             ProcessedAs(set, preCommits, Found(set, preCommits), Processed(set, preCommits), c)
<1> DEFINE S == Found(set, preCommits)
           c == IF Cardinality(S) < Wanted(set) THEN Cardinality(S) ELSE Wanted(set)
           Places == Processed(set, preCommits)
<1>1. Len(set) \in Nat /\ DOMAIN set = 1 .. Len(set) /\ Len(preCommits) \in Nat
      /\ DOMAIN preCommits = 1 .. Len(preCommits)
  OBVIOUS
<1>2. S \subseteq Int /\ IsFiniteSet(S) /\ Cardinality(S) \in Nat
  <2>1. S \subseteq 1 .. Len(preCommits)
    BY <1>1 DEF Found
  <2>2. IsFiniteSet(1 .. Len(preCommits)) /\ 1 .. Len(preCommits) \subseteq Int
    BY <1>1, FS_Interval
  <2> QED
    BY <2>1, <2>2, FS_Subset, FS_CardinalityType
<1>3. c \in Nat /\ c <= Cardinality(S)
  BY <1>1, <1>2, WantedIs
<1>4. Places = [n \in 1 .. c |-> Position(set, preCommits[Nth(S, n)]) - 1]
  BY DEF Processed, Found
<1> HIDE DEF Places, S
<1> HIDE DEF c
<1>5. ASSUME NEW n \in 1 .. c
      PROVE  Nth(S, n) \in S /\ Cardinality({k \in S : k < Nth(S, n)}) = n - 1
  <2>1. n \in 1 .. Cardinality(S)
    BY <1>2, <1>3
  <2> QED
    BY <1>2, <2>1, NthIs, Zenon
<1>6. ASSUME NEW n \in 1 .. c
      PROVE  /\ Position(set, preCommits[Nth(S, n)]) \in 1 .. Len(set)
             /\ set[Position(set, preCommits[Nth(S, n)])] = preCommits[Nth(S, n)]
  <2>1. preCommits[Nth(S, n)] \in Members(set)
    BY <1>5 DEF S, Found
  <2>2. \E j \in DOMAIN set : set[j] = preCommits[Nth(S, n)]
    BY <2>1 DEF Members
  <2> QED
    BY <1>1, <2>2 DEF Position
<1>7. \A n \in 1 .. c : Places[n] = Position(set, preCommits[Nth(S, n)]) - 1
  BY <1>4
<1>8. Places \in [1 .. c -> 0 .. Len(set) - 1]
  <2>1. ASSUME NEW n \in 1 .. c
        PROVE  Position(set, preCommits[Nth(S, n)]) - 1 \in 0 .. Len(set) - 1
    BY <1>1, <1>6
  <2> QED
    BY <1>4, <2>1
<1>9. ASSUME NEW n \in 1 .. c
      PROVE  set[Places[n] + 1] = preCommits[Nth(S, n)]
  <2>1. Places[n] + 1 = Position(set, preCommits[Nth(S, n)])
    BY <1>1, <1>6, <1>7
  <2> QED
    BY <1>6, <2>1
<1>10. ASSUME NEW m \in 1 .. c, NEW n \in 1 .. c, Nth(S, m) = Nth(S, n)
       PROVE  m = n
  <2>1. Cardinality({k \in S : k < Nth(S, m)}) = m - 1
    BY <1>5
  <2>2. Cardinality({k \in S : k < Nth(S, n)}) = n - 1
    BY <1>5
  <2>3. m - 1 = n - 1
    BY <1>10, <2>1, <2>2
  <2> QED
    BY <2>3
<1>11. c = IF Cardinality(S) < Wanted(set) THEN Cardinality(S) ELSE Wanted(set)
  BY DEF c
<1>12. ProcessedAs(set, preCommits, S, Places, c)
  BY <1>2, <1>5, <1>8, <1>9, <1>10, <1>11 DEF ProcessedAs
<1> QED
  BY <1>3, <1>12 DEF S, Places

LEMMA VotersFinite ==
    ASSUME NEW set, NEW preCommits, Len(preCommits) \in Nat,
           DOMAIN preCommits = 1 .. Len(preCommits)
    PROVE  /\ IsFiniteSet(Members(set) \cap Members(preCommits))
           /\ Cardinality(Members(set) \cap Members(preCommits)) \in Nat
<1> DEFINE D == 1 .. Len(preCommits)
           f == [i \in D |-> preCommits[i]]
<1>1. IsFiniteSet(D)
  BY FS_Interval
<1>2. f \in Surjection(D, Members(preCommits))
  BY DEF Surjection, Members
<1>3. IsFiniteSet(Members(preCommits))
  BY <1>1, <1>2, FS_Surjection
<1>4. Members(set) \cap Members(preCommits) \subseteq Members(preCommits)
  OBVIOUS
<1> QED
  BY <1>3, <1>4, FS_Subset, FS_CardinalityType

\* What the prover accepts holds the votes of more than two thirds.
LEMMA ProvedIsEnough ==
    ASSUME NEW set, set \in Seq(Members(set)), IsInjective(set), NEW K, NEW preCommits \in Seq(K),
           BlockFinalityProves(set, preCommits)
    PROVE  3 * Cardinality(Members(set) \cap Members(preCommits)) > 2 * Len(set)
<1> DEFINE S == Found(set, preCommits)
           Places == Processed(set, preCommits)
           voters == Members(set) \cap Members(preCommits)
           A == Arranged(Places)
<1>1. PICK c \in Nat : ProcessedAs(set, preCommits, S, Places, c)
  BY ProcessedIs
<1>2. Len(Places) = Wanted(set) /\ ChainAccepts(A)
  BY DEF BlockFinalityProves
<1>3. Len(set) \in Nat /\ DOMAIN set = 1 .. Len(set) /\ Len(preCommits) \in Nat
      /\ DOMAIN preCommits = 1 .. Len(preCommits)
  OBVIOUS
<1>4. S \subseteq DOMAIN preCommits /\ \A i \in S : preCommits[i] \in voters
  BY DEF Found, Members
<1> HIDE DEF S, Places, A
<1>5. Places \in [1 .. c -> 0 .. Len(set) - 1] /\ Len(Places) = c
  BY <1>1, LengthIs DEF ProcessedAs
<1>6. Places \in [1 .. c -> Int]
  BY <1>3, <1>5
<1>7. /\ A = [n \in 1 .. c |-> Places[SortIndex(Places, n)]]
      /\ \A n \in 1 .. c : SortIndex(Places, n) \in 1 .. c
  BY <1>6, SortIndexIs DEF A
<1>8. \A n \in 1 .. c : A[n] \in 0 .. Len(set) - 1 /\ set[A[n] + 1] \in voters
  <2>1. ASSUME NEW n \in 1 .. c
        PROVE  A[n] \in 0 .. Len(set) - 1 /\ set[A[n] + 1] \in voters
    <3>1. PICK i \in 1 .. c : i = SortIndex(Places, n) /\ A[n] = Places[i]
      BY <1>7
    <3>2. Nth(S, i) \in S /\ set[Places[i] + 1] = preCommits[Nth(S, i)]
      BY <1>1 DEF ProcessedAs
    <3> QED
      BY <1>4, <1>5, <3>1, <3>2
  <2> QED
    BY <2>1
<1>9. \A m, n \in 1 .. c : A[m] = A[n] => m = n
  <2> DEFINE Grows == {i \in 0 .. c : \A m \in 1 .. i - 1 : A[m] < A[i]}
  <2>1. 0 \in Grows
    OBVIOUS
  <2>2. ASSUME NEW i \in 1 .. c, i - 1 \in Grows
        PROVE  i \in Grows
    <3>1. i = 1 \/ A[i - 1] < A[i]
      <4>1. DOMAIN A = 1 .. c
        BY <1>7
      <4>2. InOrder(IF i = 1 THEN NoSigns.latest ELSE A[i - 1], A[i])
        BY <1>2, <4>1 DEF ChainAccepts
      <4>3. i # 1 => i - 1 \in 1 .. c
        OBVIOUS
      <4>4. A[i] \in Int /\ (i # 1 => A[i - 1] \in Int)
        BY <1>3, <1>8, <4>3
      <4> QED
        BY <4>2, <4>4 DEF InOrder
    <3>2. ASSUME NEW m \in 1 .. i - 1
          PROVE  A[m] < A[i]
      <4>1. m \in 1 .. c /\ i - 1 \in 1 .. c
        OBVIOUS
      <4>2. A[m] \in Int /\ A[i] \in Int /\ A[i - 1] \in Int
        BY <1>3, <1>8, <4>1
      <4>3. CASE m = i - 1
        BY <3>1, <4>1, <4>3
      <4>4. CASE m # i - 1
        <5>1. m \in 1 .. (i - 1) - 1
          BY <4>4
        <5>2. A[m] < A[i - 1]
          BY <2>2, <5>1
        <5> QED
          BY <3>1, <4>1, <4>2, <5>2
      <4> QED
        BY <4>3, <4>4
    <3> QED
      BY <3>2
  <2> HIDE DEF Grows
  <2>3. \A i \in 0 .. c : i \in Grows
    BY <2>1, <2>2, UpTo
  <2>4. ASSUME NEW m \in 1 .. c, NEW n \in 1 .. c, m < n
        PROVE  A[m] # A[n]
    <3>1. m \in 1 .. n - 1 /\ n \in 0 .. c
      BY <2>4
    <3>2. A[m] \in Int /\ A[n] \in Int
      BY <1>3, <1>8
    <3> QED
      BY <2>3, <3>1, <3>2 DEF Grows
  <2> QED
    BY <2>4
<1> DEFINE f == [n \in 1 .. c |-> set[A[n] + 1]]
<1>10. f \in Injection(1 .. c, voters)
  <2>1. f \in [1 .. c -> voters]
    BY <1>8
  <2>2. ASSUME NEW m \in 1 .. c, NEW n \in 1 .. c, f[m] = f[n]
        PROVE  m = n
    <3>1. A[m] \in Int /\ A[n] \in Int /\ A[m] + 1 \in DOMAIN set /\ A[n] + 1 \in DOMAIN set
      BY <1>3, <1>8
    <3>2. A[m] + 1 = A[n] + 1
      BY <2>2, <3>1 DEF IsInjective
    <3> QED
      BY <1>9, <3>1, <3>2
  <2> HIDE DEF f
  <2> QED
    BY <2>1, <2>2 DEF Injection, IsInjective
<1> HIDE DEF f
<1>11. IsFiniteSet(voters) /\ Cardinality(voters) \in Nat
  BY <1>3, VotersFinite
<1>12. Cardinality(1 .. c) = c
  <2>1. Cardinality(1 .. c) = IF 1 > c THEN 0 ELSE c - 1 + 1
    BY FS_Interval
  <2> QED
    BY <2>1
<1> HIDE DEF voters
<1>13. c <= Cardinality(voters)
  BY <1>10, <1>11, <1>12, FS_Injection
<1>14. c = Wanted(set) /\ 3 * Wanted(set) > 2 * Len(set)
  BY <1>2, <1>3, <1>5, WantedIs
<1>15. 3 * Cardinality(voters) > 2 * Len(set)
  BY <1>3, <1>11, <1>13, <1>14
<1> QED
  BY <1>15 DEF voters

\* The prover accepts the distinct votes of more than two thirds.
LEMMA EnoughIsProved ==
    ASSUME NEW set, set \in Seq(Members(set)), NEW K, NEW preCommits \in Seq(K),
           \A i, j \in DOMAIN preCommits : preCommits[i] = preCommits[j] => i = j,
           3 * Cardinality(Members(set) \cap Members(preCommits)) > 2 * Len(set)
    PROVE  BlockFinalityProves(set, preCommits)
<1> DEFINE S == Found(set, preCommits)
           Places == Processed(set, preCommits)
           voters == Members(set) \cap Members(preCommits)
           A == Arranged(Places)
<1>1. PICK c \in Nat : ProcessedAs(set, preCommits, S, Places, c)
  BY ProcessedIs
<1>2. Len(set) \in Nat /\ DOMAIN set = 1 .. Len(set) /\ Len(preCommits) \in Nat
      /\ DOMAIN preCommits = 1 .. Len(preCommits)
  OBVIOUS
<1>3. IsFiniteSet(voters) /\ Cardinality(voters) \in Nat
  BY <1>2, VotersFinite
<1>4. Cardinality(voters) <= Cardinality(S)
  <2> DEFINE f == [i \in S |-> preCommits[i]]
  <2>1. f \in [S -> voters]
    BY DEF Found, Members
  <2>2. \A key \in voters : \E i \in S : f[i] = key
    BY DEF Found, Members
  <2> HIDE DEF f
  <2>3. f \in Surjection(S, voters)
    BY <2>1, <2>2 DEF Surjection
  <2>4. IsFiniteSet(S)
    BY <1>1 DEF ProcessedAs
  <2> HIDE DEF S, voters
  <2> QED
    BY <2>3, <2>4, FS_Surjection
<1>5. S \subseteq DOMAIN preCommits
  BY DEF Found
<1>6. 3 * Cardinality(voters) > 2 * Len(set)
  OBVIOUS
<1> HIDE DEF S, Places, A, voters
<1>7. c = Wanted(set)
  <2>1. Cardinality(S) \in Nat
        /\ c = IF Cardinality(S) < Wanted(set) THEN Cardinality(S) ELSE Wanted(set)
    BY <1>1 DEF ProcessedAs
  <2>2. 3 * Cardinality(S) > 2 * Len(set)
    BY <1>2, <1>3, <1>4, <1>6, <2>1
  <2>3. Cardinality(S) >= Wanted(set) /\ Wanted(set) \in Nat
    BY <1>2, <2>1, <2>2, WantedIs
  <2> QED
    BY <2>1, <2>3
<1>8. Places \in [1 .. c -> 0 .. Len(set) - 1] /\ Len(Places) = c
  BY <1>1, LengthIs DEF ProcessedAs
<1>9. Places \in [1 .. c -> Int]
  BY <1>2, <1>8
<1>10. \A m, n \in 1 .. c : Places[m] = Places[n] => m = n
  <2>1. ASSUME NEW m \in 1 .. c, NEW n \in 1 .. c, Places[m] = Places[n]
        PROVE  m = n
    <3>1. /\ Nth(S, m) \in S /\ set[Places[m] + 1] = preCommits[Nth(S, m)]
          /\ Nth(S, n) \in S /\ set[Places[n] + 1] = preCommits[Nth(S, n)]
          /\ (Nth(S, m) = Nth(S, n) => m = n)
      BY <1>1 DEF ProcessedAs
    <3>2. preCommits[Nth(S, m)] = preCommits[Nth(S, n)]
      BY <2>1, <3>1
    <3> QED
      BY <1>5, <3>1, <3>2
  <2> QED
    BY <2>1
<1>11. /\ A = [n \in 1 .. c |-> Places[SortIndex(Places, n)]]
       /\ \A n \in 1 .. c : SortIndex(Places, n) \in 1 .. c
       /\ \A m, n \in 1 .. c : m < n => SortedBefore(Places, SortIndex(Places, m), SortIndex(Places, n))
  BY <1>9, SortIndexIs DEF A
<1>12. ChainAccepts(A)
  <2>1. ASSUME NEW i \in 1 .. c
        PROVE  InOrder(IF i = 1 THEN NoSigns.latest ELSE A[i - 1], A[i])
    <3>1. PICK k \in 1 .. c : k = SortIndex(Places, i) /\ A[i] = Places[k]
      BY <1>11
    <3>2. Places[k] \in Int /\ Places[k] >= 0
      BY <1>2, <1>8
    <3>3. CASE i = 1
      BY <3>1, <3>2, <3>3 DEF InOrder, NoSigns
    <3>4. CASE i # 1
      <4>1. i - 1 \in 1 .. c /\ i - 1 < i
        BY <3>4
      <4>2. PICK j \in 1 .. c : j = SortIndex(Places, i - 1) /\ A[i - 1] = Places[j]
        BY <1>11, <4>1
      <4>3. SortedBefore(Places, j, k)
        BY <1>11, <3>1, <4>1, <4>2
      <4>4. Places[j] \in Int
        BY <1>9
      <4>5. Places[j] < Places[k]
        BY <1>10, <4>3 DEF SortedBefore
      <4> QED
        BY <3>1, <3>2, <3>4, <4>2, <4>4, <4>5 DEF InOrder
    <3> QED
      BY <3>3, <3>4
  <2>2. DOMAIN A = 1 .. c
    BY <1>11
  <2> QED
    BY <2>1, <2>2 DEF ChainAccepts
<1>13. Enough(Len(Places), Len(set)) /\ Len(Places) = Wanted(set)
  BY <1>2, <1>7, <1>8, WantedIs
<1> QED
  BY <1>12, <1>13 DEF BlockFinalityProves, A, Places

Keys == Faulty \cup Members(AuthoritySets[Genesis])

\* The outcome is that of the prover on the pre-commits gathered so far.
OutcomeInv ==
    /\ finality = [f \in {"signs", "final", "latest", "proof", "gathered", "outcome"} |-> finality[f]]
    /\ finality.gathered \in Seq(Keys)
    /\ finality.outcome = "proof" => BlockFinalityProves(AuthoritySets[Genesis], finality.gathered)
    /\ finality.outcome = "panic" => ~BlockFinalityProves(AuthoritySets[Genesis], finality.gathered)

LEMMA ComposingKeepsOutcome ==
    ASSUME OutcomeInv,
           SignInitial \/ SignRecursive \/ ProveFinality \/ ProveGenesis \/ ProveChange
             \/ ProveMessageSent \/ UNCHANGED finality
    PROVE  OutcomeInv'
<1> DEFINE fields == {"signs", "final", "latest", "proof", "gathered", "outcome"}
<1>1. /\ finality' = [f \in fields |-> finality'[f]]
      /\ finality'.gathered = finality.gathered /\ finality'.outcome = finality.outcome
  <2>1. CASE SignInitial
    BY <2>1 DEF OutcomeInv, SignInitial
  <2>2. CASE SignRecursive
    BY <2>2 DEF OutcomeInv, SignRecursive
  <2>3. CASE ProveFinality
    BY <2>3 DEF OutcomeInv, ProveFinality
  <2>4. CASE ProveGenesis
    BY <2>4 DEF OutcomeInv, ProveGenesis
  <2>5. CASE ProveChange
    BY <2>5 DEF OutcomeInv, ProveChange
  <2>6. CASE ProveMessageSent
    BY <2>6 DEF OutcomeInv, ProveMessageSent
  <2>7. CASE UNCHANGED finality
    BY <2>7 DEF OutcomeInv
  <2> QED
    BY <2>1, <2>2, <2>3, <2>4, <2>5, <2>6, <2>7
<1> QED
  BY <1>1 DEF OutcomeInv

LEMMA GatherKeepsOutcome ==
    ASSUME OutcomeInv, Gather
    PROVE  OutcomeInv'
<1>1. PICK key \in Keys :
        finality.outcome = "none" /\ finality' = [finality EXCEPT !.gathered = Append(@, key)]
  BY Zenon DEF Gather, Keys
<1>2. /\ finality' = [f \in {"signs", "final", "latest", "proof", "gathered", "outcome"} |-> finality'[f]]
      /\ finality'.gathered = Append(finality.gathered, key) /\ finality'.outcome = "none"
  BY <1>1 DEF OutcomeInv
<1>3. Append(finality.gathered, key) \in Seq(Keys)
  BY DEF OutcomeInv
<1> QED
  BY <1>2, <1>3 DEF OutcomeInv

LEMMA RunKeepsOutcome ==
    ASSUME OutcomeInv, RunProver
    PROVE  OutcomeInv'
<1>1. /\ finality' = [f \in {"signs", "final", "latest", "proof", "gathered", "outcome"} |-> finality'[f]]
      /\ finality'.gathered = finality.gathered
      /\ finality'.outcome = IF BlockFinalityProves(AuthoritySets[Genesis], finality.gathered)
                             THEN "proof" ELSE "panic"
  BY DEF OutcomeInv, RunProver
<1> QED
  BY <1>1 DEF OutcomeInv

\* BlockFinality::prove succeeds on every justification in which more than two
\* thirds of the set vote once, in whatever order the pre-commits come and
\* whoever else is among them, and never without the votes of more than two
\* thirds, for every authority set.
THEOREM ProverNeedsTwoThirds == FinalitySpec => []DistinctPreCommitsSuffice
<1>1. FinalityInit => OutcomeInv
  BY DEF FinalityInit, OutcomeInv
<1>2. OutcomeInv /\ [FinalityNext]_finality => OutcomeInv'
  BY ComposingKeepsOutcome, GatherKeepsOutcome, RunKeepsOutcome DEF FinalityNext
<1>3. OutcomeInv => DistinctPreCommitsSuffice
  <2> DEFINE set == AuthoritySets[Genesis]
             enough == 3 * Cardinality(Members(set) \cap Members(finality.gathered)) > 2 * Len(set)
  <2>1. SUFFICES ASSUME OutcomeInv
                 PROVE  DistinctPreCommitsSuffice
    OBVIOUS
  <2>2. set \in Seq(Members(set)) /\ IsInjective(set) /\ finality.gathered \in Seq(Keys)
    BY <2>1, HistoryAssumption, SetsAssumption, FaultyAssumption DEF KnownSets, OutcomeInv
  <2>3. finality.outcome = "proof" => enough
    BY <2>1, <2>2, ProvedIsEnough DEF OutcomeInv
  <2>4. ASSUME finality.outcome = "panic",
               \A i, j \in DOMAIN finality.gathered :
                  finality.gathered[i] = finality.gathered[j] => i = j
        PROVE  ~enough
    BY <2>1, <2>2, <2>4, EnoughIsProved DEF OutcomeInv
  <2> QED
    BY <2>3, <2>4 DEF DistinctPreCommitsSuffice
<1> QED
  BY <1>1, <1>2, <1>3, PTL DEF FinalitySpec

(***************************************************************************)
(* Big integers: sums of digits.                                           *)
(***************************************************************************)
\* How digit i adds to the value of those below it.
GrowsAt(s, base, i) ==
  /\ ValueOf(s, base, i - 1) \in Int /\ s[i] \in Int
  /\ Pow(base, i - 1) \in Nat \ {0} /\ Pow(base, i) = base * Pow(base, i - 1)
  /\ ValueOf(s, base, i) = ValueOf(s, base, i - 1) + s[i] * Pow(base, i - 1)

Grows(s, base, n) == \A i \in 1 .. n : GrowsAt(s, base, i)

LEMMA ValueGrows ==
    ASSUME NEW base \in Nat \ {0}, NEW n \in Nat, NEW s, Digital(s, n)
    PROVE  Grows(s, base, n)
<1>1. ASSUME NEW i \in 1 .. n
      PROVE  GrowsAt(s, base, i)
  <2>1. i \in Nat \ {0} /\ i - 1 \in Nat /\ (i - 1) + 1 = i /\ base \in Int
    OBVIOUS
  <2>2. Digital(s, i) /\ Digital(s, i - 1) /\ s[i] \in Int
    BY DEF Digital
  <2> QED
    BY <2>1, <2>2, ValueInt, ValueStep, PowStep, PowPositive DEF GrowsAt
<1> QED
  BY <1>1 DEF Grows

\* Zeros above the digits.
LEMMA ValuePad ==
    ASSUME NEW base \in Nat \ {0}, NEW n \in Nat, NEW m \in Nat, n <= m, NEW s, Digital(s, m),
           \A i \in n + 1 .. m : s[i] = 0
    PROVE  ValueOf(s, base, m) = ValueOf(s, base, n)
<1>g. Grows(s, base, m)
  BY ValueGrows
<1> DEFINE A == {i \in 0 .. m : i >= n => ValueOf(s, base, i) = ValueOf(s, base, n)}
<1>1. 0 \in A
  OBVIOUS
<1>2. ASSUME NEW i \in 1 .. m, i - 1 \in A
      PROVE  i \in A
  <2>g. GrowsAt(s, base, i)
    BY <1>g DEF Grows
  <2>1. CASE i <= n
    BY <2>1
  <2>2. CASE i > n
    <3>1. s[i] = 0 /\ i - 1 >= n
      BY <2>2
    <3>2. PICK v \in Int, p \in Int : v = ValueOf(s, base, i - 1) /\ p = Pow(base, i - 1)
                                    /\ ValueOf(s, base, i) = v + s[i] * p
      BY <2>g DEF GrowsAt
    <3>3. ValueOf(s, base, i) = v
      BY <3>1, <3>2
    <3> QED
      BY <1>2, <3>1, <3>2, <3>3
  <2> QED
    BY <2>1, <2>2
<1> HIDE DEF A
<1>3. m \in A
  <2>1. \A i \in 0 .. m : i \in A
    BY <1>1, <1>2, UpTo
  <2> QED
    BY <2>1
<1> QED
  BY <1>3 DEF A

\* u is the sum of s and t, digit by digit.
SumsUp(u, s, t, n) == \A i \in 1 .. n : u[i] = s[i] + t[i]

LEMMA ValueAdd ==
    ASSUME NEW base \in Nat \ {0}, NEW n \in Nat, NEW s, NEW t, NEW u,
           Digital(s, n), Digital(t, n), SumsUp(u, s, t, n)
    PROVE  ValueOf(u, base, n) = ValueOf(s, base, n) + ValueOf(t, base, n)
<1>0. Digital(u, n)
  BY DEF Digital, SumsUp
<1>g. Grows(s, base, n) /\ Grows(t, base, n) /\ Grows(u, base, n)
  BY <1>0, ValueGrows
<1> DEFINE A == {i \in 0 .. n : ValueOf(u, base, i) = ValueOf(s, base, i) + ValueOf(t, base, i)}
<1>1. 0 \in A
  BY ValueZero
<1>2. ASSUME NEW i \in 1 .. n, i - 1 \in A
      PROVE  i \in A
  <2>g. GrowsAt(s, base, i) /\ GrowsAt(t, base, i) /\ GrowsAt(u, base, i)
    BY <1>g DEF Grows
  <2>1. PICK p \in Int : p = Pow(base, i - 1)
    BY <1>0, <2>g DEF GrowsAt
  <2>2. PICK v \in Int, x \in Int : v = ValueOf(s, base, i - 1) /\ x = s[i]
                                    /\ ValueOf(s, base, i) = v + x * p
    BY <2>1, <2>g DEF GrowsAt
  <2>3. PICK w \in Int, y \in Int : w = ValueOf(t, base, i - 1) /\ y = t[i]
                                    /\ ValueOf(t, base, i) = w + y * p
    BY <2>1, <2>g DEF GrowsAt
  <2>4. u[i] = x + y /\ ValueOf(u, base, i - 1) = v + w
    BY <1>2, <2>2, <2>3 DEF SumsUp
  <2>5. ValueOf(u, base, i) = (v + w) + (x + y) * p
    BY <1>0, <2>1, <2>4, <2>g DEF GrowsAt
  <2>6. (x + y) * p = x * p + y * p
    OBVIOUS
  <2> QED
    BY <2>2, <2>3, <2>5, <2>6
<1> HIDE DEF A
<1>3. n \in A
  <2>1. \A i \in 0 .. n : i \in A
    BY <1>1, <1>2, UpTo
  <2> QED
    BY <2>1
<1> QED
  BY <1>3 DEF A

\* u is s, every digit multiplied by c.
Scales(u, s, c, n) == \A i \in 1 .. n : u[i] = c * s[i]

LEMMA ValueScale ==
    ASSUME NEW base \in Nat \ {0}, NEW n \in Nat, NEW c \in Int, NEW s, NEW u,
           Digital(s, n), Scales(u, s, c, n)
    PROVE  ValueOf(u, base, n) = c * ValueOf(s, base, n)
<1>0. Digital(u, n)
  BY DEF Digital, Scales
<1>g. Grows(s, base, n) /\ Grows(u, base, n)
  BY <1>0, ValueGrows
<1> DEFINE A == {i \in 0 .. n : ValueOf(u, base, i) = c * ValueOf(s, base, i)}
<1>1. 0 \in A
  BY ValueZero
<1>2. ASSUME NEW i \in 1 .. n, i - 1 \in A
      PROVE  i \in A
  <2>g. GrowsAt(s, base, i) /\ GrowsAt(u, base, i)
    BY <1>g DEF Grows
  <2>1. PICK p \in Int : p = Pow(base, i - 1)
    BY <1>0, <2>g DEF GrowsAt
  <2>2. PICK v \in Int, x \in Int : v = ValueOf(s, base, i - 1) /\ x = s[i]
                                    /\ ValueOf(s, base, i) = v + x * p
    BY <2>1, <2>g DEF GrowsAt
  <2>4. u[i] = c * x /\ ValueOf(u, base, i - 1) = c * v
    BY <1>2, <2>2 DEF Scales
  <2>5. ValueOf(u, base, i) = c * v + (c * x) * p
    BY <1>0, <2>1, <2>4, <2>g DEF GrowsAt
  <2>6. c * (v + x * p) = c * v + (c * x) * p
    OBVIOUS
  <2> QED
    BY <2>2, <2>5, <2>6
<1> HIDE DEF A
<1>3. n \in A
  <2>1. \A i \in 0 .. n : i \in A
    BY <1>1, <1>2, UpTo
  <2> QED
    BY <2>1
<1> QED
  BY <1>3 DEF A

\* u is s above m zeros.
Raises(u, s, m, n) ==
  /\ \A i \in 1 .. m : u[i] = 0
  /\ \A i \in 1 .. n : u[m + i] = s[i]

LEMMA ValueRaise ==
    ASSUME NEW base \in Nat \ {0}, NEW n \in Nat, NEW m \in Nat, NEW s, NEW u,
           Digital(s, n), Raises(u, s, m, n)
    PROVE  ValueOf(u, base, m + n) = Pow(base, m) * ValueOf(s, base, n)
<1>0. Digital(u, m + n) /\ m + n \in Nat
  <2>1. ASSUME NEW i \in 1 .. m + n PROVE u[i] \in Int
    <3>1. CASE i <= m
      BY <3>1 DEF Raises
    <3>2. CASE i > m
      <4>1. PICK j \in 1 .. n : i = m + j
        <5>1. i - m \in 1 .. n /\ i = m + (i - m)
          BY <3>2
        <5> QED
          BY <5>1
      <4> QED
        BY <4>1 DEF Raises, Digital
    <3> QED
      BY <3>1, <3>2
  <2> QED
    BY <2>1 DEF Digital
<1>z. base \in Int
  OBVIOUS
<1>g. Grows(s, base, n) /\ Grows(u, base, m + n)
  BY <1>0, ValueGrows
<1>p. PICK q \in Int : q = Pow(base, m)
  BY <1>z, PowInt
<1> DEFINE A == {i \in 0 .. n : ValueOf(u, base, m + i) = q * ValueOf(s, base, i)}
<1>1. 0 \in A
  <2>1. ValueOf(u, base, m) = ValueOf(u, base, 0)
    <3>1. Digital(u, m)
      BY <1>0 DEF Digital
    <3>2. 0 <= m /\ 0 \in Nat /\ \A i \in 0 + 1 .. m : u[i] = 0
      BY DEF Raises
    <3> QED
      BY <3>1, <3>2, ValuePad
  <2>2. m + 0 = m /\ q * 0 = 0
    OBVIOUS
  <2> QED
    BY <1>z, <2>1, <2>2, ValueZero
<1>2. ASSUME NEW i \in 1 .. n, i - 1 \in A
      PROVE  i \in A
  <2>g. GrowsAt(s, base, i)
    BY <1>g DEF Grows
  <2>1. PICK k \in 1 .. m + n : k = m + i
    OBVIOUS
  <2>2. PICK p \in Int : p = Pow(base, i - 1)
    BY <2>g DEF GrowsAt
  <2>3. PICK v \in Int, x \in Int : v = ValueOf(s, base, i - 1) /\ x = s[i]
                                    /\ ValueOf(s, base, i) = v + x * p
    BY <2>2, <2>g DEF GrowsAt
  <2>4. u[k] = x /\ ValueOf(u, base, k - 1) = q * v
    <3>1. k - 1 = m + (i - 1)
      BY <2>1
    <3> QED
      BY <1>2, <2>1, <2>3, <3>1 DEF Raises
  <2>5. Pow(base, k - 1) = q * p
    <3>1. k - 1 = m + (i - 1) /\ i - 1 \in Nat
      BY <2>1
    <3> QED
      BY <1>z, <1>p, <2>2, <3>1, PowAdd
  <2>6. ValueOf(u, base, k) = q * v + x * (q * p)
    <3>1. GrowsAt(u, base, k)
      BY <1>g DEF Grows
    <3> QED
      BY <2>4, <2>5, <3>1 DEF GrowsAt
  <2>7. q * (v + x * p) = q * v + x * (q * p)
    OBVIOUS
  <2> QED
    BY <2>1, <2>3, <2>6, <2>7
<1> HIDE DEF A
<1>3. n \in A
  <2>1. \A i \in 0 .. n : i \in A
    BY <1>1, <1>2, UpTo
  <2> QED
    BY <2>1
<1> QED
  BY <1>3, <1>p DEF A

\* Digits that stand for the same number are the same.
LEMMA ValueUnique ==
    ASSUME NEW base \in Nat \ {0}, NEW n \in Nat, NEW s, NEW t,
           AreDigits(s, base, n), AreDigits(t, base, n),
           ValueOf(s, base, n) = ValueOf(t, base, n)
    PROVE  \A i \in 1 .. n : s[i] = t[i]
<1> DEFINE A == {j \in 0 .. n : /\ ValueOf(s, base, n - j) = ValueOf(t, base, n - j)
                                /\ \A i \in n - j + 1 .. n : s[i] = t[i]}
<1>0. Digital(s, n) /\ Digital(t, n)
  BY DEF AreDigits, Digital
<1>g. Grows(s, base, n) /\ Grows(t, base, n)
  BY <1>0, ValueGrows
<1>1. 0 \in A
  OBVIOUS
<1>2. ASSUME NEW j \in 1 .. n, j - 1 \in A
      PROVE  j \in A
  <2>1. PICK k \in 1 .. n : k = n - (j - 1) /\ k - 1 = n - j
    OBVIOUS
  <2>g. GrowsAt(s, base, k) /\ GrowsAt(t, base, k)
    BY <1>g DEF Grows
  <2>2. k \in Nat /\ k - 1 \in Nat /\ k - 1 \in 0 .. n
    BY <2>1
  <2>3. AreDigits(s, base, k - 1) /\ AreDigits(t, base, k - 1)
    BY <2>2, DigitsRestrict
  <2>4. PICK p \in Nat \ {0} : p = Pow(base, k - 1)
    BY <1>0, <2>g DEF GrowsAt
  <2>5. PICK v \in 0 .. p - 1, x \in Int : v = ValueOf(s, base, k - 1) /\ x = s[k]
                                    /\ ValueOf(s, base, k) = v + x * p
    <3>1. ValueOf(s, base, k - 1) \in 0 .. p - 1
      BY <2>2, <2>3, <2>4, ValueRange
    <3> QED
      BY <1>0, <2>4, <3>1, <2>g DEF GrowsAt
  <2>6. PICK w \in 0 .. p - 1, y \in Int : w = ValueOf(t, base, k - 1) /\ y = t[k]
                                    /\ ValueOf(t, base, k) = w + y * p
    <3>1. ValueOf(t, base, k - 1) \in 0 .. p - 1
      BY <2>2, <2>3, <2>4, ValueRange
    <3> QED
      BY <1>0, <2>4, <3>1, <2>g DEF GrowsAt
  <2>7. v + x * p = w + y * p
    BY <1>2, <2>1, <2>5, <2>6
  <2>8. x = y /\ v = w
    <3>1. (p * x + v) % p = v /\ (p * x + v) \div p = x
      BY DivModIs
    <3>2. (p * y + w) % p = w /\ (p * y + w) \div p = y
      BY DivModIs
    <3>3. p * x + v = v + x * p /\ p * y + w = w + y * p
      OBVIOUS
    <3> QED
      BY <2>7, <3>1, <3>2, <3>3
  <2>9. ASSUME NEW i \in n - j + 1 .. n PROVE s[i] = t[i]
    <3>1. i = k \/ i \in n - (j - 1) + 1 .. n
      BY <2>1
    <3> QED
      BY <1>2, <2>5, <2>6, <2>8, <3>1
  <2> QED
    BY <2>1, <2>5, <2>6, <2>8, <2>9
<1> HIDE DEF A
<1>3. n \in A
  <2>1. \A i \in 0 .. n : i \in A
    BY <1>1, <1>2, UpTo
  <2> QED
    BY <2>1
<1>4. n - n + 1 = 1
  OBVIOUS
<1> QED
  BY <1>3, <1>4 DEF A

(***************************************************************************)
(* Big integers: limbs.                                                    *)
(***************************************************************************)
LEMMA WordIs ==
    B \in Nat \ {0} /\ B >= 4 /\ Word = 0 .. B - 1 /\ Word \subseteq Nat /\ 0 \in Word /\ 1 \in Word
BY Sizes DEF Word

LEMMA LimbsAreDigits ==
    ASSUME NEW a \in Seq(Word)
    PROVE  \E m \in Nat : /\ m = Len(a) /\ a \in [1 .. m -> Word]
                          /\ AreDigits(a, B, m) /\ Digital(a, m)
                          /\ Value(a) = ValueOf(a, B, m) /\ Value(a) \in 0 .. Pow(B, m) - 1
<1>1. PICK m \in Nat : m = Len(a)
  OBVIOUS
<1>2. a \in [1 .. m -> Word]
  BY <1>1
<1>3. AreDigits(a, B, m) /\ Digital(a, m)
  BY <1>2, WordIs DEF AreDigits, Digital
<1>4. Value(a) = ValueOf(a, B, m)
  BY <1>1 DEF Value, ValueOf
<1>5. ValueOf(a, B, m) \in 0 .. Pow(B, m) - 1
  BY <1>3, WordIs, ValueRange
<1> QED
  BY <1>1, <1>2, <1>3, <1>4, <1>5

LEMMA ValueNat ==
    ASSUME NEW a \in Seq(Word)
    PROVE  Value(a) \in Nat /\ Len(a) \in Nat /\ Pow(B, Len(a)) \in Nat \ {0}
           /\ Value(a) < Pow(B, Len(a))
<1>1. PICK m \in Nat : m = Len(a) /\ Value(a) \in 0 .. Pow(B, m) - 1
  BY LimbsAreDigits
<1>2. Pow(B, m) \in Nat \ {0}
  BY WordIs, PowPositive
<1> QED
  BY <1>1, <1>2

\* The limbs of a with zeros up to n of them.
Padded(a, n) == [i \in 1 .. n |-> LimbAt(a, i)]

LEMMA PaddedIs ==
    ASSUME NEW a \in Seq(Word), NEW n \in Nat, Len(a) <= n
    PROVE  /\ AreDigits(Padded(a, n), B, n) /\ Digital(Padded(a, n), n)
           /\ \A i \in 1 .. n : Padded(a, n)[i] = LimbAt(a, i) /\ LimbAt(a, i) \in Word
           /\ ValueOf(Padded(a, n), B, n) = Value(a)
<1>1. PICK m \in Nat : /\ m = Len(a) /\ a \in [1 .. m -> Word] /\ Digital(a, m)
                       /\ Value(a) = ValueOf(a, B, m)
  BY LimbsAreDigits
<1>2. \A i \in 1 .. n : LimbAt(a, i) = IF i <= m THEN a[i] ELSE 0
  BY <1>1 DEF LimbAt
<1>3. \A i \in 1 .. n : LimbAt(a, i) \in Word
  <2>1. ASSUME NEW i \in 1 .. n PROVE LimbAt(a, i) \in Word
    <3>1. CASE i <= m
      <4>1. i \in 1 .. m
        BY <3>1
      <4> QED
        BY <1>1, <1>2, <3>1, <4>1
    <3>2. CASE ~(i <= m)
      BY <1>2, <3>2, WordIs
    <3> QED
      BY <3>1, <3>2
  <2> QED
    BY <2>1
<1>4. PICK t : t = Padded(a, n)
  OBVIOUS
<1>5. \A i \in 1 .. n : t[i] = LimbAt(a, i)
  BY <1>4 DEF Padded
<1>6. AreDigits(t, B, n) /\ Digital(t, n)
  BY <1>3, <1>5, WordIs DEF AreDigits, Digital
<1>7. ValueOf(t, B, n) = ValueOf(t, B, m)
  <2>1. m <= n /\ \A i \in m + 1 .. n : t[i] = 0
    BY <1>1, <1>2, <1>5
  <2> QED
    BY <1>6, <2>1, WordIs, ValuePad
<1>8. ValueOf(a, B, m) = ValueOf(t, B, m)
  <2>1. \A i \in 1 .. m : t[i] = a[i]
    BY <1>1, <1>2, <1>5
  <2>2. B \in Int
    BY WordIs
  <2> QED
    BY <1>1, <2>1, <2>2, ValueAgree
<1> QED
  BY <1>1, <1>3, <1>4, <1>5, <1>6, <1>7, <1>8

LEMMA MaxLenIs ==
    ASSUME NEW a \in Seq(Word), NEW b \in Seq(Word)
    PROVE  /\ MaxLen(a, b) \in Nat /\ Len(a) <= MaxLen(a, b) /\ Len(b) <= MaxLen(a, b)
           /\ MaxLen(a, b) \in {Len(a), Len(b)}
BY DEF MaxLen

\* connect_biguint asserts that two numbers are equal.
LEMMA ConnectIs ==
    ASSUME NEW a \in Seq(Word), NEW b \in Seq(Word)
    PROVE  ConnectBiguint(a, b) <=> Value(a) = Value(b)
<1>1. PICK n \in Nat : n = MaxLen(a, b) /\ Len(a) <= n /\ Len(b) <= n
  BY MaxLenIs
<1>2. PICK s : /\ AreDigits(s, B, n) /\ Digital(s, n) /\ ValueOf(s, B, n) = Value(a)
               /\ \A i \in 1 .. n : s[i] = LimbAt(a, i)
  BY <1>1, PaddedIs
<1>3. PICK t : /\ AreDigits(t, B, n) /\ Digital(t, n) /\ ValueOf(t, B, n) = Value(b)
               /\ \A i \in 1 .. n : t[i] = LimbAt(b, i)
  BY <1>1, PaddedIs
<1>4. ConnectBiguint(a, b) <=> \A i \in 1 .. n : s[i] = t[i]
  BY <1>1, <1>2, <1>3 DEF ConnectBiguint
<1>5. ASSUME \A i \in 1 .. n : s[i] = t[i] PROVE Value(a) = Value(b)
  <2>1. B \in Int /\ \A i \in 1 .. n : t[i] = s[i]
    BY <1>5, WordIs
  <2> QED
    BY <1>2, <1>3, <2>1, ValueAgree
<1>6. ASSUME Value(a) = Value(b) PROVE \A i \in 1 .. n : s[i] = t[i]
  BY <1>2, <1>3, <1>6, WordIs, ValueUnique
<1> QED
  BY <1>4, <1>5, <1>6

(***************************************************************************)
(* Big integers: the sum of columns.                                       *)
(***************************************************************************)
Carries(f, sums, n) == f[0] = 0 /\ \A i \in 1 .. n : f[i] = (sums[i] + f[i - 1]) \div B

LEMMA DivNat ==
    ASSUME NEW x \in Nat
    PROVE  x \div B \in Nat /\ x % B \in Word /\ x = B * (x \div B) + (x % B)
<1>1. PICK b \in Nat \ {0} : b = B /\ Word = 0 .. b - 1
  BY WordIs
<1>2. PICK q \in Int, r \in 0 .. b - 1 : x = b * q + r /\ x % b = r /\ x \div b = q
  BY ModDiv
<1>3. q >= 0
  <2>1. q <= -1 => b * q <= -b
    OBVIOUS
  <2> QED
    BY <1>2, <2>1
<1> QED
  BY <1>1, <1>2, <1>3

LEMMA ColumnsFunction ==
    ASSUME NEW n \in Nat, NEW sums \in [1 .. n -> Nat]
    PROVE  \E f \in [0 .. n -> Nat] :
             /\ Carries(f, sums, n)
             /\ AddColumns(sums)
                  = [i \in 1 .. n + 1 |-> IF i > n THEN f[n] ELSE (sums[i] + f[i - 1]) % B]
<1> DEFINE Body(g) == [i \in 0 .. n |-> IF i = 0 THEN 0 ELSE (sums[i] + g[i - 1]) \div B]
           step == [i \in 1 .. n |-> [y \in Nat |-> (sums[i] + y) \div B]]
           carry == CHOOSE g : g = Body(g)
           Result(g) == [i \in 1 .. n + 1 |-> IF i > n THEN g[n] ELSE (sums[i] + g[i - 1]) % B]
<1>0. Len(sums) = n
  BY LengthIs
<1>1. step \in [1 .. n -> [Nat -> Nat]] /\ 0 \in Nat
  <2>1. ASSUME NEW i \in 1 .. n, NEW y \in Nat PROVE (sums[i] + y) \div B \in Nat
    <3>1. sums[i] + y \in Nat
      OBVIOUS
    <3> QED
      BY <3>1, DivNat
  <2> QED
    BY <2>1
<1>2. \A i \in 1 .. n, y \in Nat : step[i][y] = (sums[i] + y) \div B
  OBVIOUS
<1> HIDE DEF step
<1>3. PICK f \in [0 .. n -> Nat] : Iterates(f, n, 0, step)
  BY <1>1, RecursionIn, Zenon
<1>4. f[0] = 0 /\ \A i \in 1 .. n : f[i] = (sums[i] + f[i - 1]) \div B
  <2>1. \A i \in 1 .. n : i - 1 \in 0 .. n
    OBVIOUS
  <2> QED
    BY <1>2, <1>3, <2>1 DEF Iterates
<1>5. f = Body(f)
  BY <1>4
<1>6. carry = Body(carry)
  BY <1>5, Zenon
<1>7. AddColumns(sums) = Result(carry)
  BY <1>0 DEF AddColumns
<1> HIDE DEF carry
<1> DEFINE A == {i \in 0 .. n : carry[i] = f[i]}
<1>8. 0 \in A
  BY <1>4, <1>6
<1>9. ASSUME NEW i \in 1 .. n, i - 1 \in A
      PROVE  i \in A
  <2>1. i \in 0 .. n /\ i # 0
    OBVIOUS
  <2>2. carry[i] = (sums[i] + carry[i - 1]) \div B
    BY <1>6, <2>1
  <2> QED
    BY <1>4, <1>9, <2>1, <2>2
<1> HIDE DEF A
<1>10. \A i \in 0 .. n : i \in A
  BY <1>8, <1>9, UpTo
<1>11. \A i \in 0 .. n : carry[i] = f[i]
  BY <1>10 DEF A
<1>12. Result(carry) = Result(f)
  <2>1. \A i \in 1 .. n + 1 : i > n \/ i - 1 \in 0 .. n
    OBVIOUS
  <2>2. n \in 0 .. n
    OBVIOUS
  <2> QED
    BY <1>11, <2>1, <2>2
<1> QED
  BY <1>4, <1>7, <1>12 DEF Carries

\* The carries make words of the sums and change nothing else.
LEMMA ColumnsValue ==
    ASSUME NEW n \in Nat, NEW sums \in [1 .. n -> Nat], ValueOf(sums, B, n) < Pow(B, n + 1)
    PROVE  /\ AddColumns(sums) \in Seq(Word) /\ Len(AddColumns(sums)) = n + 1
           /\ Value(AddColumns(sums)) = ValueOf(sums, B, n)
<1>1. PICK f \in [0 .. n -> Nat] :
             /\ Carries(f, sums, n)
             /\ AddColumns(sums)
                  = [i \in 1 .. n + 1 |-> IF i > n THEN f[n] ELSE (sums[i] + f[i - 1]) % B]
  BY ColumnsFunction
<1>2. PICK r : r = AddColumns(sums)
  OBVIOUS
<1>3. r = [i \in 1 .. n + 1 |-> IF i > n THEN f[n] ELSE (sums[i] + f[i - 1]) % B]
  BY <1>1, <1>2
<1>4. /\ \A i \in 1 .. n : r[i] = (sums[i] + f[i - 1]) % B
      /\ r[n + 1] = f[n]
  BY <1>3
<1>5. \A i \in 1 .. n : f[i - 1] \in Nat /\ sums[i] + f[i - 1] \in Nat
  <2>1. \A i \in 1 .. n : i - 1 \in 0 .. n
    OBVIOUS
  <2> QED
    BY <2>1
<1>6. AreDigits(r, B, n) /\ r[n + 1] \in Nat
  <2>1. \A i \in 1 .. n : r[i] \in Word
    BY <1>4, <1>5, DivNat
  <2>2. n \in 0 .. n
    OBVIOUS
  <2> QED
    BY <1>4, <2>1, <2>2, WordIs DEF AreDigits
<1>7. Digital(r, n + 1) /\ Digital(r, n) /\ Digital(sums, n)
  <2>1. \A i \in 1 .. n + 1 : i \in 1 .. n \/ i = n + 1
    OBVIOUS
  <2> QED
    BY <1>6, <2>1, WordIs DEF Digital, AreDigits
<1> DEFINE A == {i \in 0 .. n : ValueOf(r, B, i) + f[i] * Pow(B, i) = ValueOf(sums, B, i)}
<1>b. PICK base \in Nat \ {0} : base = B /\ base \in Int
  BY WordIs
<1>g. Grows(r, B, n + 1) /\ Grows(r, B, n) /\ Grows(sums, B, n)
  <2>1. n + 1 \in Nat
    OBVIOUS
  <2> QED
    BY <1>7, <1>b, <2>1, ValueGrows
<1>8. 0 \in A
  <2>1. f[0] = 0 /\ ValueOf(r, B, 0) = 0 /\ ValueOf(sums, B, 0) = 0 /\ Pow(B, 0) = 1
    BY <1>1, <1>b, ValueZero, PowZero DEF Carries
  <2> QED
    BY <2>1
<1>9. ASSUME NEW i \in 1 .. n, i - 1 \in A
      PROVE  i \in A
  <2>g. GrowsAt(r, B, i) /\ GrowsAt(sums, B, i)
    BY <1>g DEF Grows
  <2>1. PICK p \in Int : p = Pow(B, i - 1) /\ Pow(B, i) = base * p
    BY <1>7, <1>b, <2>g DEF GrowsAt
  <2>2. PICK v \in Int, x \in Int : v = ValueOf(r, B, i - 1) /\ x = r[i]
                                    /\ ValueOf(r, B, i) = v + x * p
    BY <1>7, <1>b, <2>1, <2>g DEF GrowsAt
  <2>3. PICK w \in Int, y \in Int : w = ValueOf(sums, B, i - 1) /\ y = sums[i]
                                    /\ ValueOf(sums, B, i) = w + y * p
    BY <1>7, <1>b, <2>1, <2>g DEF GrowsAt
  <2>4. PICK c \in Int, d \in Int : c = f[i - 1] /\ d = f[i]
    OBVIOUS
  <2>5. y + c = base * d + x
    <3>1. d = (y + c) \div B /\ x = (y + c) % B /\ y + c \in Nat
      BY <1>1, <1>4, <1>5, <2>2, <2>3, <2>4 DEF Carries
    <3> QED
      BY <1>b, <3>1, DivNat
  <2>6. v + c * p = w
    BY <1>9, <2>1, <2>2, <2>3, <2>4
  <2>7. (v + x * p) + d * (base * p) = w + y * p
    <3>1. (base * d + x) * p = d * (base * p) + x * p
      OBVIOUS
    <3>2. (y + c) * p = y * p + c * p
      OBVIOUS
    <3> QED
      BY <2>5, <2>6, <3>1, <3>2
  <2> QED
    BY <2>1, <2>2, <2>3, <2>4, <2>7
<1> HIDE DEF A
<1>10. ValueOf(r, B, n) + f[n] * Pow(B, n) = ValueOf(sums, B, n)
  <2>1. \A i \in 0 .. n : i \in A
    BY <1>8, <1>9, UpTo
  <2>2. n \in 0 .. n
    OBVIOUS
  <2> QED
    BY <2>1, <2>2 DEF A
<1>11. PICK k \in Nat : k = n + 1 /\ k - 1 = n /\ k \in 1 .. k
  OBVIOUS
<1>12. ValueOf(r, B, k) = ValueOf(r, B, n) + f[n] * Pow(B, n)
  <2>1. GrowsAt(r, B, k)
    BY <1>11, <1>g DEF Grows
  <2> QED
    BY <1>4, <1>11, <2>1 DEF GrowsAt
<1>13. r[n + 1] \in Word
  <2>1. PICK p \in Nat \ {0} : p = Pow(B, n) /\ Pow(B, n + 1) = base * p
    BY <1>b, PowPositive, PowStep
  <2>2. PICK v \in Nat : v = ValueOf(r, B, n)
    <3>1. ValueOf(r, B, n) \in 0 .. p - 1
      BY <1>6, <1>b, <2>1, ValueRange
    <3> QED
      BY <3>1
  <2>3. PICK c \in Nat : c = f[n]
    <3>1. n \in 0 .. n
      OBVIOUS
    <3> QED
      BY <3>1
  <2>4. v + c * p < base * p
    BY <1>10, <2>1, <2>2, <2>3
  <2>5. c < base
    <3>1. c >= base => (c - base) * p >= 0
      OBVIOUS
    <3>2. (c - base) * p = c * p - base * p
      OBVIOUS
    <3> QED
      BY <2>4, <3>1, <3>2
  <2> QED
    BY <1>4, <1>b, <2>3, <2>5, WordIs
<1>14. r \in [1 .. k -> Word]
  <2>1. \A i \in 1 .. k : r[i] \in Word
    <3>1. \A i \in 1 .. k : i \in 1 .. n \/ i = n + 1
      BY <1>11
    <3> QED
      BY <1>6, <1>13, <3>1, WordIs DEF AreDigits
  <2>2. r = [i \in 1 .. k |-> r[i]]
    BY <1>3, <1>11
  <2> QED
    BY <2>1, <2>2
<1>15. r \in Seq(Word) /\ Len(r) = k
  BY <1>14, LengthIs
<1>16. Value(r) = ValueOf(r, B, k)
  BY <1>15, LimbsAreDigits
<1> QED
  BY <1>2, <1>10, <1>11, <1>12, <1>15, <1>16

LEMMA AddIs ==
    ASSUME NEW a \in Seq(Word), NEW b \in Seq(Word)
    PROVE  /\ AddBiguint(a, b) \in Seq(Word) /\ Len(AddBiguint(a, b)) = MaxLen(a, b) + 1
           /\ Value(AddBiguint(a, b)) = Value(a) + Value(b)
<1>1. PICK n \in Nat : n = MaxLen(a, b) /\ Len(a) <= n /\ Len(b) <= n
  BY MaxLenIs
<1>2. PICK s : /\ AreDigits(s, B, n) /\ Digital(s, n) /\ ValueOf(s, B, n) = Value(a)
               /\ \A i \in 1 .. n : s[i] = LimbAt(a, i) /\ LimbAt(a, i) \in Word
  BY <1>1, PaddedIs
<1>3. PICK t : /\ AreDigits(t, B, n) /\ Digital(t, n) /\ ValueOf(t, B, n) = Value(b)
               /\ \A i \in 1 .. n : t[i] = LimbAt(b, i) /\ LimbAt(b, i) \in Word
  BY <1>1, PaddedIs
<1>4. PICK sums : sums = [i \in 1 .. n |-> LimbAt(a, i) + LimbAt(b, i)]
  OBVIOUS
<1>5. sums \in [1 .. n -> Nat] /\ SumsUp(sums, s, t, n)
  <2>1. \A i \in 1 .. n : LimbAt(a, i) + LimbAt(b, i) \in Nat
    BY <1>2, <1>3, WordIs
  <2> QED
    BY <1>2, <1>3, <1>4, <2>1 DEF SumsUp
<1>6. ValueOf(sums, B, n) = Value(a) + Value(b)
  BY <1>2, <1>3, <1>5, WordIs, ValueAdd
<1>7. ValueOf(sums, B, n) < Pow(B, n + 1)
  <2>1. PICK p \in Nat \ {0}, base \in Nat : p = Pow(B, n) /\ base = B /\ base >= 4
                                             /\ Pow(B, n + 1) = base * p
    <3>1. B \in Int /\ B \in Nat \ {0} /\ B >= 4
      BY WordIs
    <3> QED
      BY <3>1, PowPositive, PowStep
  <2>2. Value(a) \in 0 .. p - 1 /\ Value(b) \in 0 .. p - 1
    BY <1>2, <1>3, <2>1, WordIs, ValueRange
  <2>3. base * p >= 2 * p
    <3>1. (base - 2) * p >= 0 /\ (base - 2) * p = base * p - 2 * p
      BY <2>1
    <3> QED
      BY <3>1
  <2> QED
    BY <1>6, <2>1, <2>2, <2>3
<1>8. AddBiguint(a, b) = AddColumns(sums)
  BY <1>1, <1>4 DEF AddBiguint
<1> QED
  BY <1>1, <1>5, <1>6, <1>7, <1>8, ColumnsValue

(***************************************************************************)
(* Big integers: subtraction and comparison.                               *)
(***************************************************************************)
Borrows(f, a, b, n) ==
  f[0] = 0 /\ \A i \in 1 .. n : f[i] = IF LimbAt(b, i) + f[i - 1] > LimbAt(a, i) THEN 1 ELSE 0

LEMMA SubFunction ==
    ASSUME NEW a \in Seq(Word), NEW b \in Seq(Word), NEW n \in Nat, n = MaxLen(a, b)
    PROVE  \E f \in [0 .. n -> Bit] :
             /\ Borrows(f, a, b, n)
             /\ SubBiguint(a, b) = [i \in 1 .. n |-> (LimbAt(a, i) - LimbAt(b, i) - f[i - 1]) % B]
<1> DEFINE Body(g) == [i \in 0 .. n |->
                         IF i = 0 THEN 0 ELSE IF LimbAt(b, i) + g[i - 1] > LimbAt(a, i) THEN 1 ELSE 0]
           step == [i \in 1 .. n |-> [y \in Bit |-> IF LimbAt(b, i) + y > LimbAt(a, i) THEN 1 ELSE 0]]
           borrow == CHOOSE g : g = Body(g)
           Result(g) == [i \in 1 .. n |-> (LimbAt(a, i) - LimbAt(b, i) - g[i - 1]) % B]
<1>1. step \in [1 .. n -> [Bit -> Bit]] /\ 0 \in Bit
  BY DEF Bit
<1>2. \A i \in 1 .. n, y \in Bit : step[i][y] = IF LimbAt(b, i) + y > LimbAt(a, i) THEN 1 ELSE 0
  OBVIOUS
<1> HIDE DEF step
<1>3. PICK f \in [0 .. n -> Bit] : Iterates(f, n, 0, step)
  BY <1>1, RecursionIn, Zenon
<1>4. f[0] = 0 /\ \A i \in 1 .. n : f[i] = IF LimbAt(b, i) + f[i - 1] > LimbAt(a, i) THEN 1 ELSE 0
  <2>1. \A i \in 1 .. n : i - 1 \in 0 .. n
    OBVIOUS
  <2> QED
    BY <1>2, <1>3, <2>1 DEF Iterates
<1>5. f = Body(f)
  BY <1>4
<1>6. borrow = Body(borrow)
  BY <1>5, Zenon
<1>7. SubBiguint(a, b) = Result(borrow)
  BY DEF SubBiguint
<1> HIDE DEF borrow
<1> DEFINE A == {i \in 0 .. n : borrow[i] = f[i]}
<1>8. 0 \in A
  BY <1>4, <1>6
<1>9. ASSUME NEW i \in 1 .. n, i - 1 \in A
      PROVE  i \in A
  <2>1. i \in 0 .. n /\ i # 0
    OBVIOUS
  <2>2. borrow[i] = IF LimbAt(b, i) + borrow[i - 1] > LimbAt(a, i) THEN 1 ELSE 0
    BY <1>6, <2>1
  <2> QED
    BY <1>4, <1>9, <2>1, <2>2
<1> HIDE DEF A
<1>10. \A i \in 0 .. n : i \in A
  BY <1>8, <1>9, UpTo
<1>11. \A i \in 1 .. n : borrow[i - 1] = f[i - 1]
  <2>1. \A i \in 1 .. n : i - 1 \in 0 .. n
    OBVIOUS
  <2> QED
    BY <1>10, <2>1 DEF A
<1>12. Result(borrow) = Result(f)
  BY <1>11
<1> QED
  BY <1>4, <1>7, <1>12 DEF Borrows

LEMMA BorrowWord ==
    ASSUME NEW x \in Word, NEW y \in Word, NEW c \in Bit, NEW d, d = IF y + c > x THEN 1 ELSE 0
    PROVE  /\ (x - y - c) % B \in Word /\ d \in Bit
           /\ (x - y - c) % B = x - y - c + B * d
<1>1. PICK b \in Nat \ {0} : b = B /\ Word = 0 .. b - 1
  BY WordIs
<1>2. c \in {0, 1} /\ d \in {0, 1}
  BY DEF Bit
<1>3. CASE y + c > x
  <2>1. PICK r \in 0 .. b - 1 : r = x - y - c + b
    BY <1>1, <1>2, <1>3
  <2>2. (b * (-1) + r) % b = r
    BY ModIs
  <2>3. b * (-1) + r = x - y - c /\ d = 1 /\ r = x - y - c + b * d
    BY <1>1, <1>2, <1>3, <2>1
  <2> QED
    BY <1>1, <1>2, <2>2, <2>3 DEF Bit
<1>4. CASE ~(y + c > x)
  <2>1. PICK r \in 0 .. b - 1 : r = x - y - c
    BY <1>1, <1>2, <1>4
  <2>2. r % b = r
    BY ModSmall
  <2>3. d = 0 /\ r = x - y - c + b * d
    BY <1>1, <1>2, <1>4, <2>1
  <2> QED
    BY <1>1, <1>2, <2>1, <2>2, <2>3 DEF Bit
<1> QED
  BY <1>3, <1>4

\* The difference, up to a borrow that is dropped.
LEMMA SubIs ==
    ASSUME NEW a \in Seq(Word), NEW b \in Seq(Word)
    PROVE  /\ SubBiguint(a, b) \in Seq(Word) /\ Len(SubBiguint(a, b)) = MaxLen(a, b)
           /\ \E d \in Bit : Value(SubBiguint(a, b)) = Value(a) - Value(b) + d * Pow(B, MaxLen(a, b))
<1>1. PICK n \in Nat : n = MaxLen(a, b) /\ Len(a) <= n /\ Len(b) <= n
  BY MaxLenIs
<1>2. PICK s : /\ AreDigits(s, B, n) /\ Digital(s, n) /\ ValueOf(s, B, n) = Value(a)
               /\ \A i \in 1 .. n : s[i] = LimbAt(a, i) /\ LimbAt(a, i) \in Word
  BY <1>1, PaddedIs
<1>3. PICK t : /\ AreDigits(t, B, n) /\ Digital(t, n) /\ ValueOf(t, B, n) = Value(b)
               /\ \A i \in 1 .. n : t[i] = LimbAt(b, i) /\ LimbAt(b, i) \in Word
  BY <1>1, PaddedIs
<1>4. PICK f \in [0 .. n -> Bit] :
             /\ Borrows(f, a, b, n)
             /\ SubBiguint(a, b) = [i \in 1 .. n |-> (LimbAt(a, i) - LimbAt(b, i) - f[i - 1]) % B]
  BY <1>1, SubFunction
<1>5. PICK r : r = SubBiguint(a, b)
  OBVIOUS
<1>6. r = [i \in 1 .. n |-> (LimbAt(a, i) - LimbAt(b, i) - f[i - 1]) % B]
  BY <1>4, <1>5
<1>7. ASSUME NEW i \in 1 .. n
      PROVE  /\ r[i] \in Word /\ f[i - 1] \in Bit /\ f[i] \in Bit
             /\ r[i] = s[i] - t[i] - f[i - 1] + B * f[i]
  <2>1. i - 1 \in 0 .. n /\ i \in 0 .. n
    OBVIOUS
  <2>2. PICK x \in Word, y \in Word, c \in Bit, d \in Bit :
           x = s[i] /\ y = t[i] /\ c = f[i - 1] /\ d = f[i]
    BY <1>2, <1>3, <2>1
  <2>3. d = (IF y + c > x THEN 1 ELSE 0) /\ r[i] = (x - y - c) % B
    BY <1>2, <1>3, <1>4, <1>6, <2>2 DEF Borrows
  <2> QED
    BY <2>2, <2>3, BorrowWord
<1>8. r \in [1 .. n -> Word]
  BY <1>6, <1>7
<1>9. r \in Seq(Word) /\ Len(r) = n
  BY <1>8, LengthIs
<1>10. Digital(r, n) /\ Value(r) = ValueOf(r, B, n)
  BY <1>9, LimbsAreDigits
<1>b. PICK base \in Nat \ {0} : base = B /\ base \in Int
  BY WordIs
<1>g. Grows(r, B, n) /\ Grows(s, B, n) /\ Grows(t, B, n)
  BY <1>2, <1>3, <1>10, <1>b, ValueGrows
<1> DEFINE A == {i \in 0 .. n : ValueOf(r, B, i) = ValueOf(s, B, i) - ValueOf(t, B, i) + f[i] * Pow(B, i)}
<1>11. 0 \in A
  <2>1. f[0] = 0 /\ ValueOf(r, B, 0) = 0 /\ ValueOf(s, B, 0) = 0 /\ ValueOf(t, B, 0) = 0
        /\ Pow(B, 0) = 1
    BY <1>4, <1>b, ValueZero, PowZero DEF Borrows
  <2> QED
    BY <2>1
<1>12. ASSUME NEW i \in 1 .. n, i - 1 \in A
       PROVE  i \in A
  <2>g. GrowsAt(r, B, i) /\ GrowsAt(s, B, i) /\ GrowsAt(t, B, i)
    BY <1>g DEF Grows
  <2>1. PICK p \in Int : p = Pow(B, i - 1) /\ Pow(B, i) = base * p
    BY <1>10, <1>b, <2>g DEF GrowsAt
  <2>2. PICK v \in Int, x \in Int : v = ValueOf(s, B, i - 1) /\ x = s[i]
                                    /\ ValueOf(s, B, i) = v + x * p
    BY <1>2, <1>b, <2>1, <2>g DEF GrowsAt
  <2>3. PICK w \in Int, y \in Int : w = ValueOf(t, B, i - 1) /\ y = t[i]
                                    /\ ValueOf(t, B, i) = w + y * p
    BY <1>3, <1>b, <2>1, <2>g DEF GrowsAt
  <2>4. PICK u \in Int, z \in Int : u = ValueOf(r, B, i - 1) /\ z = r[i]
                                    /\ ValueOf(r, B, i) = u + z * p
    BY <1>10, <1>b, <2>1, <2>g DEF GrowsAt
  <2>5. PICK c \in Int, d \in Int : c = f[i - 1] /\ d = f[i]
    BY <1>7 DEF Bit
  <2>6. z = x - y - c + base * d
    BY <1>7, <1>b, <2>2, <2>3, <2>4, <2>5
  <2>7. u = v - w + c * p
    BY <1>12, <2>1, <2>2, <2>3, <2>4, <2>5
  <2>8. u + z * p = (v + x * p) - (w + y * p) + d * (base * p)
    <3>1. (x - y - c + base * d) * p = x * p - y * p - c * p + d * (base * p)
      OBVIOUS
    <3> QED
      BY <2>6, <2>7, <3>1
  <2> QED
    BY <2>1, <2>2, <2>3, <2>4, <2>5, <2>8
<1> HIDE DEF A
<1>13. ValueOf(r, B, n) = ValueOf(s, B, n) - ValueOf(t, B, n) + f[n] * Pow(B, n) /\ f[n] \in Bit
  <2>1. \A i \in 0 .. n : i \in A
    BY <1>11, <1>12, UpTo
  <2>2. n \in 0 .. n
    OBVIOUS
  <2> QED
    BY <2>1, <2>2 DEF A
<1> QED
  BY <1>1, <1>2, <1>3, <1>5, <1>9, <1>10, <1>13

\* No borrow is dropped when the difference is not negative.
LEMMA SubNatural ==
    ASSUME NEW a \in Seq(Word), NEW b \in Seq(Word), Value(b) <= Value(a)
    PROVE  Value(SubBiguint(a, b)) = Value(a) - Value(b)
<1>1. PICK r \in Seq(Word) : r = SubBiguint(a, b) /\ Len(r) = MaxLen(a, b)
  BY SubIs
<1>2. PICK v \in Nat, w \in Nat : v = Value(a) /\ w = Value(b) /\ w <= v
  BY ValueNat
<1>3. PICK p \in Nat \ {0}, u \in Nat : p = Pow(B, MaxLen(a, b)) /\ u = Value(r) /\ u < p
  BY <1>1, ValueNat
<1>4. PICK d \in Bit : u = v - w + d * p
  BY <1>1, <1>2, <1>3, SubIs
<1>5. d = 0
  <2>1. d = 1 => d * p = p
    OBVIOUS
  <2> QED
    BY <1>2, <1>3, <1>4, <2>1 DEF Bit
<1> QED
  BY <1>1, <1>2, <1>3, <1>4, <1>5

Compares(f, a, b, n) ==
  /\ f[0] = TRUE
  /\ \A i \in 1 .. n :
       f[i] = (\/ LimbAt(a, i) <= LimbAt(b, i) /\ LimbAt(b, i) <= LimbAt(a, i) /\ f[i - 1]
               \/ ~(LimbAt(b, i) <= LimbAt(a, i)))

LEMMA CmpFunction ==
    ASSUME NEW a \in Seq(Word), NEW b \in Seq(Word), NEW n \in Nat, n = MaxLen(a, b)
    PROVE  \E f \in [0 .. n -> BOOLEAN] : Compares(f, a, b, n) /\ CmpBiguint(a, b) = f[n]
<1> DEFINE Lower(i, y) == \/ LimbAt(a, i) <= LimbAt(b, i) /\ LimbAt(b, i) <= LimbAt(a, i) /\ y
                          \/ ~(LimbAt(b, i) <= LimbAt(a, i))
           Body(g) == [i \in 0 .. n |-> IF i = 0 THEN TRUE ELSE Lower(i, g[i - 1])]
           step == [i \in 1 .. n |-> [y \in BOOLEAN |-> Lower(i, y)]]
           result == CHOOSE g : g = Body(g)
<1>1. step \in [1 .. n -> [BOOLEAN -> BOOLEAN]] /\ TRUE \in BOOLEAN
  OBVIOUS
<1>2. \A i \in 1 .. n, y \in BOOLEAN : step[i][y] = Lower(i, y)
  OBVIOUS
<1> HIDE DEF step
<1>3. PICK f \in [0 .. n -> BOOLEAN] : Iterates(f, n, TRUE, step)
  BY <1>1, RecursionIn, Zenon
<1>4. f[0] = TRUE /\ \A i \in 1 .. n : f[i] = Lower(i, f[i - 1])
  <2>1. \A i \in 1 .. n : i - 1 \in 0 .. n
    OBVIOUS
  <2>2. f[0] = TRUE /\ \A i \in 1 .. n : f[i] = step[i][f[i - 1]]
    BY <1>3, Zenon DEF Iterates
  <2>3. \A i \in 1 .. n : f[i - 1] \in BOOLEAN
    BY <2>1, Zenon
  <2> QED
    BY <1>2, <2>2, <2>3, Zenon
<1>5. f = Body(f)
  BY <1>4
<1>6. result = Body(result)
  BY <1>5, Zenon
<1>7. CmpBiguint(a, b) = result[n]
  BY DEF CmpBiguint
<1> HIDE DEF result
<1> DEFINE A == {i \in 0 .. n : result[i] = f[i]}
<1>8. 0 \in A
  <2>1. 0 \in 0 .. n
    OBVIOUS
  <2>2. result[0] = TRUE
    BY <1>6, <2>1, Zenon
  <2> QED
    BY <1>4, <2>1, <2>2, Zenon
<1>9. ASSUME NEW i \in 1 .. n, i - 1 \in A
      PROVE  i \in A
  <2>1. i \in 0 .. n /\ i # 0
    OBVIOUS
  <2>2. result[i] = Lower(i, result[i - 1])
    BY <1>6, <2>1
  <2> QED
    BY <1>4, <1>9, <2>1, <2>2
<1> HIDE DEF A
<1>10. result[n] = f[n]
  <2>1. \A i \in 0 .. n : i \in A
    BY <1>8, <1>9, UpTo
  <2>2. n \in 0 .. n
    OBVIOUS
  <2> QED
    BY <2>1, <2>2 DEF A
<1> QED
  BY <1>4, <1>7, <1>10 DEF Compares

\* cmp_biguint compares numbers, whatever their lengths.
LEMMA CmpIs ==
    ASSUME NEW a \in Seq(Word), NEW b \in Seq(Word)
    PROVE  CmpBiguint(a, b) <=> Value(a) <= Value(b)
<1>1. PICK n \in Nat : n = MaxLen(a, b) /\ Len(a) <= n /\ Len(b) <= n
  BY MaxLenIs
<1>2. PICK s : /\ AreDigits(s, B, n) /\ Digital(s, n) /\ ValueOf(s, B, n) = Value(a)
               /\ \A i \in 1 .. n : s[i] = LimbAt(a, i) /\ LimbAt(a, i) \in Word
  BY <1>1, PaddedIs
<1>3. PICK t : /\ AreDigits(t, B, n) /\ Digital(t, n) /\ ValueOf(t, B, n) = Value(b)
               /\ \A i \in 1 .. n : t[i] = LimbAt(b, i) /\ LimbAt(b, i) \in Word
  BY <1>1, PaddedIs
<1>4. PICK f \in [0 .. n -> BOOLEAN] : Compares(f, a, b, n) /\ CmpBiguint(a, b) = f[n]
  BY <1>1, CmpFunction
<1>b. PICK base \in Nat \ {0} : base = B /\ base \in Int
  BY WordIs
<1>g. Grows(s, B, n) /\ Grows(t, B, n)
  BY <1>2, <1>3, <1>b, ValueGrows
<1> DEFINE A == {i \in 0 .. n : f[i] <=> ValueOf(s, B, i) <= ValueOf(t, B, i)}
<1>5. 0 \in A
  <2>1. f[0] /\ ValueOf(s, B, 0) = 0 /\ ValueOf(t, B, 0) = 0
    BY <1>4, <1>b, ValueZero DEF Compares
  <2> QED
    BY <2>1
<1>6. ASSUME NEW i \in 1 .. n, i - 1 \in A
      PROVE  i \in A
  <2>g. GrowsAt(s, B, i) /\ GrowsAt(t, B, i)
    BY <1>g DEF Grows
  <2>1. PICK p \in Nat \ {0} : p = Pow(B, i - 1)
    BY <1>2, <1>b, <2>g DEF GrowsAt
  <2>0. i - 1 \in Nat /\ i - 1 \in 0 .. n
    OBVIOUS
  <2>2. PICK v \in 0 .. p - 1, x \in Int : v = ValueOf(s, B, i - 1) /\ x = s[i]
                                    /\ ValueOf(s, B, i) = v + x * p
    <3>1. AreDigits(s, B, i - 1)
      BY <1>2, <1>b, <2>0, DigitsRestrict
    <3>2. ValueOf(s, B, i - 1) \in 0 .. p - 1
      BY <1>b, <2>0, <2>1, <3>1, ValueRange
    <3> QED
      BY <1>2, <1>b, <2>1, <3>2, <2>g DEF GrowsAt
  <2>3. PICK w \in 0 .. p - 1, y \in Int : w = ValueOf(t, B, i - 1) /\ y = t[i]
                                    /\ ValueOf(t, B, i) = w + y * p
    <3>1. AreDigits(t, B, i - 1)
      BY <1>3, <1>b, <2>0, DigitsRestrict
    <3>2. ValueOf(t, B, i - 1) \in 0 .. p - 1
      BY <1>b, <2>0, <2>1, <3>1, ValueRange
    <3> QED
      BY <1>3, <1>b, <2>1, <3>2, <2>g DEF GrowsAt
  <2>4. f[i] <=> (x <= y /\ y <= x /\ f[i - 1]) \/ ~(y <= x)
    BY <1>2, <1>3, <1>4, <2>2, <2>3 DEF Compares
  <2>5. f[i - 1] <=> v <= w
    BY <1>6, <2>2, <2>3
  <2>6. CASE x = y
    <3>1. f[i] <=> v <= w
      BY <2>4, <2>5, <2>6
    <3>2. v <= w <=> v + x * p <= w + y * p
      BY <2>6
    <3> QED
      BY <2>2, <2>3, <3>1, <3>2
  <2>7. CASE x < y
    <3>1. (y - x - 1) * p >= 0 /\ (y - x - 1) * p = y * p - x * p - p
      BY <2>7
    <3>2. v + x * p <= w + y * p
      BY <3>1
    <3>3. f[i]
      BY <2>4, <2>7
    <3> QED
      BY <2>2, <2>3, <3>2, <3>3
  <2>8. CASE y < x
    <3>1. (x - y - 1) * p >= 0 /\ (x - y - 1) * p = x * p - y * p - p
      BY <2>8
    <3>2. ~(v + x * p <= w + y * p)
      BY <3>1
    <3>3. ~f[i]
      BY <2>4, <2>8
    <3> QED
      BY <2>2, <2>3, <3>2, <3>3
  <2> QED
    BY <2>6, <2>7, <2>8
<1> HIDE DEF A
<1>7. n \in A
  <2>1. \A i \in 0 .. n : i \in A
    BY <1>5, <1>6, UpTo
  <2> QED
    BY <2>1
<1> QED
  BY <1>2, <1>3, <1>4, <1>7 DEF A

(***************************************************************************)
(* Big integers: multiplication.                                           *)
(***************************************************************************)
LEMMA PowOne ==
    ASSUME NEW n \in Nat
    PROVE  Pow(1, n) = 1
<1> DEFINE A == {i \in 0 .. n : Pow(1, i) = 1}
<1>1. 0 \in A
  BY PowZero
<1>2. ASSUME NEW i \in 1 .. n, i - 1 \in A
      PROVE  i \in A
  <2>1. i - 1 \in Nat /\ (i - 1) + 1 = i /\ 1 \in Int
    OBVIOUS
  <2>2. Pow(1, i) = 1 * Pow(1, i - 1)
    BY <2>1, PowStep
  <2> QED
    BY <1>2, <2>1, <2>2
<1> HIDE DEF A
<1>3. n \in A
  <2>1. \A i \in 0 .. n : i \in A
    BY <1>1, <1>2, UpTo
  <2> QED
    BY <2>1
<1> QED
  BY <1>3 DEF A

\* A sum is a number to the base 1.
LEMMA SumIs ==
    ASSUME NEW n \in Nat, NEW words \in [1 .. n -> Int]
    PROVE  SumOf(words) = ValueOf(words, 1, n)
<1> DEFINE Body(g) == [i \in 0 .. n |-> IF i = 0 THEN 0 ELSE g[i - 1] + words[i]]
           sum == CHOOSE g : g = Body(g)
<1>0. Len(words) = n /\ Digital(words, n) /\ 1 \in Int
  BY LengthIs DEF Digital
<1>1. PICK f \in [0 .. n -> Int] : Adds(f, words, 1, n) /\ ValueOf(words, 1, n) = f[n]
  BY <1>0, ValueFunction, Zenon
<1>2. f[0] = 0 /\ \A i \in 1 .. n : f[i] = f[i - 1] + words[i]
  <2>1. ASSUME NEW i \in 1 .. n PROVE f[i] = f[i - 1] + words[i]
    <3>1. i - 1 \in Nat
      OBVIOUS
    <3>2. Pow(1, i - 1) = 1
      BY <3>1, PowOne
    <3>3. f[i] = f[i - 1] + words[i] * 1
      BY <1>1, <3>2 DEF Adds
    <3> QED
      BY <3>3
  <2> QED
    BY <1>1, <2>1 DEF Adds
<1>3. f = Body(f)
  BY <1>2
<1>4. sum = Body(sum)
  BY <1>3, Zenon
<1>5. SumOf(words) = sum[n]
  BY <1>0 DEF SumOf
<1> HIDE DEF sum
<1> DEFINE A == {i \in 0 .. n : sum[i] = f[i]}
<1>6. 0 \in A
  BY <1>2, <1>4
<1>7. ASSUME NEW i \in 1 .. n, i - 1 \in A
      PROVE  i \in A
  <2>1. i \in 0 .. n /\ i # 0
    OBVIOUS
  <2>2. sum[i] = sum[i - 1] + words[i]
    BY <1>4, <2>1
  <2> QED
    BY <1>2, <1>7, <2>1, <2>2
<1> HIDE DEF A
<1>8. n \in A
  <2>1. \A i \in 0 .. n : i \in A
    BY <1>6, <1>7, UpTo
  <2> QED
    BY <2>1
<1> QED
  BY <1>1, <1>5, <1>8 DEF A

LEMMA ValueNonneg ==
    ASSUME NEW base \in Nat \ {0}, NEW n \in Nat, NEW s, \A i \in 1 .. n : s[i] \in Nat
    PROVE  ValueOf(s, base, n) \in Nat
<1>0. Digital(s, n)
  BY DEF Digital
<1>g. Grows(s, base, n)
  BY <1>0, ValueGrows
<1> DEFINE A == {i \in 0 .. n : ValueOf(s, base, i) \in Nat}
<1>1. 0 \in A
  BY ValueZero
<1>2. ASSUME NEW i \in 1 .. n, i - 1 \in A
      PROVE  i \in A
  <2>g. GrowsAt(s, base, i)
    BY <1>g DEF Grows
  <2>1. PICK v \in Nat, x \in Nat, p \in Nat :
           v = ValueOf(s, base, i - 1) /\ x = s[i] /\ p = Pow(base, i - 1)
           /\ ValueOf(s, base, i) = v + x * p
    BY <1>0, <1>2, <2>g DEF GrowsAt
  <2>2. v + x * p \in Nat
    OBVIOUS
  <2> QED
    BY <2>1, <2>2
<1> HIDE DEF A
<1>3. n \in A
  <2>1. \A i \in 0 .. n : i \in A
    BY <1>1, <1>2, UpTo
  <2> QED
    BY <2>1
<1> QED
  BY <1>3 DEF A

\* The words of a product of two limbs.
LEMMA ProductIs ==
    ASSUME NEW x \in Word, NEW y \in Word
    PROVE  /\ (x * y) % B \in Nat /\ (x * y) \div B \in Nat
           /\ x * y = B * ((x * y) \div B) + ((x * y) % B)
<1>1. x \in Nat /\ y \in Nat
  BY WordIs
<1>2. x * y \in Nat
  BY <1>1
<1> QED
  BY <1>2, DivNat, WordIs

\* The products of one limb x with the limbs of b.
LEMMA WordProducts ==
    ASSUME NEW n \in Nat, NEW b \in [1 .. n -> Word], NEW x \in Word, NEW low, NEW high,
           \A i \in 1 .. n : low[i] = (x * b[i]) % B, \A i \in 1 .. n : high[i] = (x * b[i]) \div B
    PROVE  /\ Digital(low, n) /\ Digital(high, n)
           /\ ValueOf(low, B, n) + B * ValueOf(high, B, n) = x * ValueOf(b, B, n)
<1> DEFINE prod == [i \in 1 .. n |-> x * b[i]]
           raised == [i \in 1 .. n |-> B * high[i]]
<1>1. Digital(low, n) /\ Digital(high, n) /\ Digital(b, n)
  <2>1. ASSUME NEW i \in 1 .. n PROVE low[i] \in Int /\ high[i] \in Int /\ b[i] \in Int
    <3>1. PICK y \in Word : y = b[i]
      OBVIOUS
    <3>2. low[i] = (x * y) % B /\ high[i] = (x * y) \div B
      BY <3>1
    <3>3. (x * y) % B \in Nat /\ (x * y) \div B \in Nat
      BY ProductIs
    <3> QED
      BY <3>1, <3>2, <3>3, WordIs
  <2> QED
    BY <2>1 DEF Digital
<1>2. Scales(raised, high, B, n) /\ Scales(prod, b, x, n)
  BY DEF Scales
<1>3. SumsUp(prod, raised, low, n)
  <2>1. ASSUME NEW i \in 1 .. n PROVE prod[i] = raised[i] + low[i]
    <3>1. prod[i] = x * b[i] /\ raised[i] = B * high[i] /\ b[i] \in Word
      OBVIOUS
    <3> QED
      BY <3>1, ProductIs
  <2> QED
    BY <2>1 DEF SumsUp
<1>4. B \in Nat \ {0} /\ B \in Int /\ x \in Int
  BY WordIs
<1>5. Digital(raised, n)
  BY <1>1, <1>4 DEF Digital
<1> HIDE DEF prod, raised
<1>6. ValueOf(prod, B, n) = ValueOf(raised, B, n) + ValueOf(low, B, n)
  BY <1>1, <1>3, <1>4, <1>5, ValueAdd
<1>7. ValueOf(prod, B, n) = x * ValueOf(b, B, n)
  BY <1>1, <1>2, <1>4, ValueScale
<1>8. ValueOf(raised, B, n) = B * ValueOf(high, B, n)
  BY <1>1, <1>2, <1>4, ValueScale
<1>9. ValueOf(low, B, n) \in Int /\ ValueOf(raised, B, n) \in Int
  BY <1>1, <1>4, <1>5, ValueInt
<1> QED
  BY <1>1, <1>6, <1>7, <1>8, <1>9

\* What limb j of a adds to the columns.
LimbRow(a, b, j, n) == [k \in 1 .. n |-> ProductWords(a, b, j, k)]

LEMMA RowValue ==
    ASSUME NEW m \in Nat, NEW n \in Nat, NEW a \in [1 .. m -> Word], NEW b \in [1 .. n -> Word],
           NEW j \in 1 .. m
    PROVE  /\ \A k \in 1 .. m + n : LimbRow(a, b, j, m + n)[k] \in Nat
           /\ ValueOf(LimbRow(a, b, j, m + n), B, m + n) = a[j] * Pow(B, j - 1) * ValueOf(b, B, n)
<1>0. Len(b) = n
  BY LengthIs
<1>1. PICK x \in Word : x = a[j]
  OBVIOUS
<1>2. PICK N \in Nat : N = m + n
  OBVIOUS
<1> DEFINE low == [i \in 1 .. n |-> (x * b[i]) % B]
           high == [i \in 1 .. n |-> (x * b[i]) \div B]
           lows == [k \in 1 .. N |-> IF k - j + 1 \in 1 .. n THEN low[k - j + 1] ELSE 0]
           highs == [k \in 1 .. N |-> IF k - j \in 1 .. n THEN high[k - j] ELSE 0]
           line == LimbRow(a, b, j, N)
<1>3. \A i \in 1 .. n : low[i] \in Nat /\ high[i] \in Nat
  BY ProductIs
<1>4. \A k \in 1 .. N : line[k] = lows[k] + highs[k]
  BY <1>0, <1>1 DEF LimbRow, ProductWords
<1>5. /\ Digital(low, n) /\ Digital(high, n)
      /\ ValueOf(low, B, n) + B * ValueOf(high, B, n) = x * ValueOf(b, B, n)
  <2>1. \A i \in 1 .. n : low[i] = (x * b[i]) % B
    OBVIOUS
  <2>2. \A i \in 1 .. n : high[i] = (x * b[i]) \div B
    OBVIOUS
  <2> HIDE DEF low, high
  <2> QED
    BY <2>1, <2>2, WordProducts
<1> HIDE DEF low, high
<1>6. PICK z \in Nat : z = j - 1
  OBVIOUS
<1>7. Raises(lows, low, z, n) /\ \A k \in z + n + 1 .. N : lows[k] = 0
  BY <1>2, <1>6 DEF Raises
<1>8. Raises(highs, high, j, n) /\ \A k \in j + n + 1 .. N : highs[k] = 0
  BY <1>2 DEF Raises
<1>9. (\A k \in 1 .. N : lows[k] \in Nat) /\ (\A k \in 1 .. N : highs[k] \in Nat)
  BY <1>3
<1>10. z + n <= N /\ j + n <= N /\ z + n \in Nat /\ j + n \in Nat /\ j \in Nat
  BY <1>2, <1>6
<1> HIDE DEF lows, highs, line
<1>11. Digital(lows, N) /\ Digital(highs, N) /\ SumsUp(line, lows, highs, N)
  BY <1>4, <1>9 DEF Digital, SumsUp
<1>b. PICK base \in Nat \ {0} : base = B /\ base \in Int
  BY WordIs
<1>12. ValueOf(lows, B, N) = Pow(B, z) * ValueOf(low, B, n)
  <2>1. ValueOf(lows, B, N) = ValueOf(lows, B, z + n)
    BY <1>b, <1>7, <1>10, <1>11, ValuePad
  <2>2. ValueOf(lows, B, z + n) = Pow(B, z) * ValueOf(low, B, n)
    BY <1>b, <1>5, <1>7, ValueRaise
  <2> QED
    BY <2>1, <2>2
<1>13. ValueOf(highs, B, N) = Pow(B, j) * ValueOf(high, B, n)
  <2>1. ValueOf(highs, B, N) = ValueOf(highs, B, j + n)
    BY <1>b, <1>8, <1>10, <1>11, ValuePad
  <2>2. ValueOf(highs, B, j + n) = Pow(B, j) * ValueOf(high, B, n)
    BY <1>b, <1>5, <1>8, <1>10, ValueRaise
  <2> QED
    BY <2>1, <2>2
<1>14. ValueOf(line, B, N) = ValueOf(lows, B, N) + ValueOf(highs, B, N)
  BY <1>b, <1>11, ValueAdd
<1>15. PICK p \in Int : p = Pow(B, z) /\ Pow(B, j) = base * p
  <2>1. z + 1 = j
    BY <1>6
  <2> QED
    BY <1>b, <2>1, PowStep, PowInt
<1>16. PICK l \in Int, h \in Int, v \in Int :
          l = ValueOf(low, B, n) /\ h = ValueOf(high, B, n) /\ v = ValueOf(b, B, n)
  <2>1. Digital(b, n)
    BY WordIs DEF Digital
  <2> QED
    BY <1>b, <1>5, <2>1, ValueInt
<1>17. x \in Int /\ l + base * h = x * v
  BY <1>b, <1>5, <1>16, WordIs
<1>18. p * l + (base * p) * h = x * p * v
  <2>1. p * l + (base * p) * h = p * (l + base * h)
    OBVIOUS
  <2>2. p * (x * v) = x * p * v
    BY <1>17
  <2> QED
    BY <1>17, <2>1, <2>2
<1>19. ValueOf(line, B, N) = x * p * v
  BY <1>12, <1>13, <1>14, <1>15, <1>16, <1>18
<1>20. \A k \in 1 .. N : line[k] \in Nat
  BY <1>4, <1>9
<1> QED
  BY <1>1, <1>2, <1>6, <1>15, <1>16, <1>19, <1>20 DEF line

\* What the first j limbs of a add to the columns.
Part(a, b, m, j, n) == [k \in 1 .. n |-> ValueOf([i \in 1 .. m |-> ProductWords(a, b, i, k)], 1, j)]

LEMMA PartValue ==
    ASSUME NEW m \in Nat, NEW n \in Nat, NEW a \in [1 .. m -> Word], NEW b \in [1 .. n -> Word]
    PROVE  ValueOf(Part(a, b, m, m, m + n), B, m + n) = ValueOf(a, B, m) * ValueOf(b, B, n)
<1>1. PICK N \in Nat : N = m + n
  OBVIOUS
<1>b. PICK base \in Nat \ {0} : base = B /\ base \in Int
  BY WordIs
<1>2. PICK v \in Int : v = ValueOf(b, B, n)
  <2>1. Digital(b, n)
    BY WordIs DEF Digital
  <2> QED
    BY <1>b, <2>1, ValueInt
<1>3. Digital(a, m)
  BY WordIs DEF Digital
<1>g. Grows(a, B, m)
  BY <1>b, <1>3, ValueGrows
<1>4. ASSUME NEW k \in 1 .. N, NEW j \in 0 .. m
      PROVE  Part(a, b, m, j, N)[k] \in Int
  <2> DEFINE column == [i \in 1 .. m |-> ProductWords(a, b, i, k)]
  <2>1. \A i \in 1 .. m : column[i] \in Nat
    <3>1. ASSUME NEW i \in 1 .. m PROVE column[i] \in Nat
      <4>1. LimbRow(a, b, i, N)[k] \in Nat
        BY <1>1, RowValue
      <4> QED
        BY <4>1 DEF LimbRow
    <3> QED
      BY <3>1
  <2>2. Digital(column, j)
    BY <2>1 DEF Digital
  <2> HIDE DEF column
  <2>3. ValueOf(column, 1, j) \in Int
    BY <2>2, ValueInt
  <2> QED
    BY <2>3 DEF Part, column
<1>5. ASSUME NEW k \in 1 .. N, NEW j \in 1 .. m
      PROVE  Part(a, b, m, j, N)[k] = Part(a, b, m, j - 1, N)[k] + LimbRow(a, b, j, N)[k]
  <2> DEFINE column == [i \in 1 .. m |-> ProductWords(a, b, i, k)]
  <2>1. \A i \in 1 .. m : column[i] = LimbRow(a, b, i, N)[k] /\ column[i] \in Int
    <3>1. ASSUME NEW i \in 1 .. m PROVE column[i] = LimbRow(a, b, i, N)[k] /\ column[i] \in Int
      <4>1. LimbRow(a, b, i, N)[k] \in Nat
        BY <1>1, RowValue
      <4>2. column[i] = LimbRow(a, b, i, N)[k]
        BY DEF LimbRow
      <4> QED
        BY <4>1, <4>2
    <3> QED
      BY <3>1
  <2>2. Part(a, b, m, j, N)[k] = ValueOf(column, 1, j) /\ Part(a, b, m, j - 1, N)[k] = ValueOf(column, 1, j - 1)
    BY DEF Part
  <2> HIDE DEF column
  <2>3. Digital(column, m)
    BY <2>1 DEF Digital
  <2>4. ValueOf(column, 1, j) = ValueOf(column, 1, j - 1) + column[j] * Pow(1, j - 1)
    <3>1. Grows(column, 1, m)
      BY <2>3, ValueGrows
    <3> QED
      BY <3>1 DEF Grows, GrowsAt
  <2>5. Pow(1, j - 1) = 1
    <3>1. j - 1 \in Nat
      OBVIOUS
    <3> QED
      BY <3>1, PowOne
  <2>6. column[j] * 1 = column[j]
    BY <2>1
  <2> QED
    BY <2>1, <2>2, <2>4, <2>5, <2>6
<1> DEFINE A == {j \in 0 .. m : ValueOf(Part(a, b, m, j, N), B, N) = ValueOf(a, B, j) * v}
<1>6. 0 \in A
  <2>1. PICK t : t = Part(a, b, m, 0, N)
    OBVIOUS
  <2>2. \A k \in 1 .. N : t[k] = 0
    BY <2>1, ValueZero DEF Part
  <2>3. ValueOf(t, B, N) = ValueOf(t, B, 0)
    <3>1. Digital(t, N) /\ \A k \in 0 + 1 .. N : t[k] = 0
      BY <2>2 DEF Digital
    <3>2. 0 \in Nat /\ 0 <= N
      OBVIOUS
    <3> QED
      BY <1>b, <3>1, <3>2, ValuePad
  <2>4. ValueOf(t, B, 0) = 0 /\ ValueOf(a, B, 0) = 0
    BY <1>b, ValueZero
  <2> QED
    BY <2>1, <2>3, <2>4
<1>7. ASSUME NEW j \in 1 .. m, j - 1 \in A
      PROVE  j \in A
  <2>g. GrowsAt(a, B, j)
    BY <1>g DEF Grows
  <2>1. PICK s, t, u : s = Part(a, b, m, j - 1, N) /\ t = LimbRow(a, b, j, N) /\ u = Part(a, b, m, j, N)
    OBVIOUS
  <2>2. Digital(s, N) /\ Digital(t, N) /\ SumsUp(u, s, t, N)
    <3>1. j - 1 \in 0 .. m
      OBVIOUS
    <3>2. \A k \in 1 .. N : t[k] \in Nat
      BY <1>1, <2>1, RowValue
    <3> QED
      BY <1>4, <1>5, <2>1, <3>1, <3>2 DEF Digital, SumsUp
  <2>3. ValueOf(u, B, N) = ValueOf(s, B, N) + ValueOf(t, B, N)
    BY <1>b, <2>2, ValueAdd
  <2>4. PICK w \in Int, x \in Int, p \in Int :
           w = ValueOf(a, B, j - 1) /\ x = a[j] /\ p = Pow(B, j - 1) /\ ValueOf(a, B, j) = w + x * p
    BY <1>b, <1>3, <2>g, SMTT(30) DEF GrowsAt
  <2>5. ValueOf(t, B, N) = x * p * v
    BY <1>1, <1>2, <2>1, <2>4, RowValue
  <2>6. ValueOf(s, B, N) = w * v
    BY <1>7, <2>1, <2>4
  <2>7. (w + x * p) * v = w * v + x * p * v
    OBVIOUS
  <2> QED
    BY <2>1, <2>3, <2>4, <2>5, <2>6, <2>7
<1> HIDE DEF A
<1>8. m \in A
  <2>1. \A i \in 0 .. m : i \in A
    BY <1>6, <1>7, UpTo
  <2> QED
    BY <2>1
<1> QED
  BY <1>1, <1>2, <1>8 DEF A

LEMMA MulIs ==
    ASSUME NEW a \in Seq(Word), NEW b \in Seq(Word)
    PROVE  MulBiguint(a, b) \in Seq(Word) /\ Value(MulBiguint(a, b)) = Value(a) * Value(b)
<1>1. PICK m \in Nat : m = Len(a) /\ a \in [1 .. m -> Word] /\ Value(a) = ValueOf(a, B, m)
                       /\ Value(a) \in 0 .. Pow(B, m) - 1
  BY LimbsAreDigits
<1>2. PICK n \in Nat : n = Len(b) /\ b \in [1 .. n -> Word] /\ Value(b) = ValueOf(b, B, n)
                       /\ Value(b) \in 0 .. Pow(B, n) - 1
  BY LimbsAreDigits
<1>3. PICK N \in Nat : N = m + n
  OBVIOUS
<1> DEFINE Column(k) == [i \in 1 .. m |-> ProductWords(a, b, i, k)]
           sums == [k \in 1 .. N |-> SumOf(Column(k))]
<1>4. ASSUME NEW k \in 1 .. N
      PROVE  /\ SumOf(Column(k)) = Part(a, b, m, m, N)[k]
             /\ SumOf(Column(k)) \in Nat
  <2> DEFINE column == Column(k)
  <2>1. \A i \in 1 .. m : column[i] \in Nat
    <3>1. ASSUME NEW i \in 1 .. m PROVE column[i] \in Nat
      <4>1. LimbRow(a, b, i, N)[k] \in Nat
        BY <1>1, <1>2, <1>3, RowValue
      <4> QED
        BY <4>1 DEF LimbRow
    <3> QED
      BY <3>1
  <2>2. column \in [1 .. m -> Int]
    BY <2>1
  <2>3. Part(a, b, m, m, N)[k] = ValueOf(column, 1, m)
    BY DEF Part
  <2> HIDE DEF column
  <2>4. SumOf(column) = ValueOf(column, 1, m)
    BY <2>2, SumIs
  <2>5. ValueOf(column, 1, m) \in Nat
    BY <2>1, ValueNonneg
  <2> QED
    BY <2>3, <2>4, <2>5 DEF column
<1>5. MulBiguint(a, b) = AddColumns(sums)
  BY <1>1, <1>2, <1>3 DEF MulBiguint
<1>6. sums \in [1 .. N -> Nat] /\ sums = Part(a, b, m, m, N)
  BY <1>4 DEF Part
<1> HIDE DEF sums
<1>7. ValueOf(sums, B, N) = Value(a) * Value(b)
  <2>1. ValueOf(Part(a, b, m, m, m + n), B, m + n) = ValueOf(a, B, m) * ValueOf(b, B, n)
    BY <1>1, <1>2, PartValue, Zenon
  <2> QED
    BY <1>1, <1>2, <1>3, <1>6, <2>1
<1>8. ValueOf(sums, B, N) < Pow(B, N + 1)
  <2>1. PICK p \in Nat \ {0}, q \in Nat \ {0}, base \in Nat :
           p = Pow(B, m) /\ q = Pow(B, n) /\ base = B /\ base >= 4
    BY WordIs, PowPositive
  <2>2. Pow(B, N + 1) = base * (p * q)
    <3>1. B \in Int
      BY WordIs
    <3>2. Pow(B, N) = p * q
      BY <1>3, <2>1, <3>1, PowAdd
    <3> QED
      BY <2>1, <3>1, <3>2, PowStep
  <2>3. PICK v \in 0 .. p - 1, w \in 0 .. q - 1 : v = Value(a) /\ w = Value(b)
    BY <1>1, <1>2, <2>1
  <2>4. v * w < base * (p * q)
    <3>1. (p - v) * w >= 0 /\ (p - v) * w = p * w - v * w
      OBVIOUS
    <3>2. (q - w) * p >= 1 /\ (q - w) * p = p * q - p * w
      OBVIOUS
    <3>3. PICK r \in Nat : r = p * q
      OBVIOUS
    <3>4. base * r >= r
      <4>1. (base - 1) * r >= 0 /\ (base - 1) * r = base * r - r
        BY <2>1
      <4> QED
        BY <4>1
    <3> QED
      BY <3>1, <3>2, <3>3, <3>4
  <2> QED
    BY <1>7, <2>2, <2>3, <2>4
<1> QED
  BY <1>5, <1>6, <1>7, <1>8, ColumnsValue

\* mul_biguint_by_bool selects a number or zero.
LEMMA MaskIs ==
    ASSUME NEW a \in Seq(Word), NEW bit \in Bit
    PROVE  Mask(a, bit) \in Seq(Word) /\ Len(Mask(a, bit)) = Len(a) /\ Value(Mask(a, bit)) = bit * Value(a)
<1>1. PICK m \in Nat : m = Len(a) /\ a \in [1 .. m -> Word] /\ Value(a) = ValueOf(a, B, m) /\ Digital(a, m)
  BY LimbsAreDigits
<1>2. PICK r : r = Mask(a, bit)
  OBVIOUS
<1>3. r = [i \in 1 .. m |-> a[i] * bit]
  BY <1>1, <1>2 DEF Mask
<1>4. \A i \in 1 .. m : a[i] * bit \in Word /\ a[i] * bit = bit * a[i]
  <2>1. ASSUME NEW i \in 1 .. m PROVE a[i] * bit \in Word /\ a[i] * bit = bit * a[i]
    <3>1. PICK x \in Nat : x = a[i] /\ x \in Word
      BY <1>1, WordIs
    <3>2. x * bit \in {0, x} /\ x * bit = bit * x
      BY DEF Bit
    <3> QED
      BY <3>1, <3>2, WordIs
  <2> QED
    BY <2>1
<1>5. r \in [1 .. m -> Word] /\ Scales(r, a, bit, m)
  BY <1>3, <1>4 DEF Scales
<1>6. r \in Seq(Word) /\ Len(r) = m
  BY <1>5, LengthIs
<1>7. Value(r) = ValueOf(r, B, m)
  BY <1>6, LimbsAreDigits
<1>8. bit \in Int
  BY DEF Bit
<1>9. ValueOf(r, B, m) = bit * ValueOf(a, B, m)
  BY <1>1, <1>5, <1>8, WordIs, ValueScale
<1> QED
  BY <1>1, <1>2, <1>6, <1>7, <1>9

(***************************************************************************)
(* Big integers: the limbs of a number.                                    *)
(***************************************************************************)
LEMMA ResizedIs ==
    ASSUME NEW n \in Nat, NEW v \in Int
    PROVE  /\ Resized(v, n) \in Seq(Word) /\ Len(Resized(v, n)) = n
           /\ v \in 0 .. Pow(B, n) - 1 => Value(Resized(v, n)) = v
<1>1. PICK r : r = Resized(v, n) /\ r = Digits(v, B, n)
  BY DEF Resized
<1>2. B \in Nat \ {0} /\ Word = 0 .. B - 1
  BY WordIs
<1>3. r \in [1 .. n -> Word]
  <2>1. Digits(v, B, n) \in [1 .. n -> 0 .. B - 1]
    BY <1>2, DigitsAre
  <2> QED
    BY <1>1, <1>2, <2>1
<1>4. r \in Seq(Word) /\ Len(r) = n
  BY <1>3, LengthIs
<1>5. Value(r) = ValueOf(r, B, n)
  BY <1>4, LimbsAreDigits
<1>6. ValueOf(r, B, n) = v % Pow(B, n)
  BY <1>1, <1>2, DigitsValue
<1>7. Pow(B, n) \in Nat \ {0}
  BY <1>2, PowPositive
<1>8. v \in 0 .. Pow(B, n) - 1 => v % Pow(B, n) = v
  BY <1>7, ModSmall
<1> QED
  BY <1>1, <1>4, <1>5, <1>6, <1>8

LEMMA PowGrows ==
    ASSUME NEW n \in Nat
    PROVE  n < Pow(B, n)
<1>b. PICK base \in Nat \ {0} : base = B /\ base >= 4 /\ base \in Int
  BY WordIs
<1> DEFINE A == {i \in 0 .. n : i < Pow(B, i)}
<1>1. 0 \in A
  BY <1>b, PowZero
<1>2. ASSUME NEW i \in 1 .. n, i - 1 \in A
      PROVE  i \in A
  <2>1. i - 1 \in Nat /\ (i - 1) + 1 = i
    OBVIOUS
  <2>2. PICK p \in Nat \ {0} : p = Pow(B, i - 1) /\ Pow(B, i) = base * p
    <3>1. Pow(B, i - 1) \in Nat \ {0}
      BY <1>b, <2>1, PowPositive
    <3>2. Pow(B, i) = base * Pow(B, i - 1)
      BY <1>b, <2>1, PowStep
    <3> QED
      BY <3>1, <3>2
  <2>3. i - 1 < p
    BY <1>2, <2>2
  <2>4. base * p >= 2 * p
    <3>1. (base - 2) * p >= 0 /\ (base - 2) * p = base * p - 2 * p
      BY <1>b
    <3> QED
      BY <3>1
  <2> QED
    BY <2>2, <2>3, <2>4
<1> HIDE DEF A
<1>3. n \in A
  <2>1. \A i \in 0 .. n : i \in A
    BY <1>1, <1>2, UpTo
  <2> QED
    BY <2>1
<1> QED
  BY <1>3 DEF A

LEMMA NumDigitsIs ==
    ASSUME NEW v \in Nat
    PROVE  /\ NumDigits(v) \in Nat
           /\ v < Pow(B, NumDigits(v))
           /\ NumDigits(v) = 0 \/ v >= Pow(B, NumDigits(v) - 1)
<1> DEFINE S == {n \in Nat : v < Pow(B, n)}
           Right(n) == v < Pow(B, n) /\ (n = 0 \/ v >= Pow(B, n - 1))
<1>1. v \in S
  BY PowGrows
<1>2. S \subseteq Nat /\ S # {}
  BY <1>1
<1>3. PICK n \in S : \A m \in S : n <= m
  BY <1>2, LeastNatural
<1>4. n \in Nat /\ v < Pow(B, n) /\ n <= v
  BY <1>1, <1>3
<1>5. n = 0 \/ v >= Pow(B, n - 1)
  <2>1. CASE n # 0
    <3>1. n - 1 \in Nat /\ n - 1 \notin S
      BY <1>3, <1>4, <2>1
    <3>2. ~(v < Pow(B, n - 1))
      BY <3>1
    <3>3. B \in Nat \ {0}
      BY WordIs
    <3>4. Pow(B, n - 1) \in Nat
      BY <3>1, <3>3, PowPositive
    <3> QED
      BY <3>2, <3>4
  <2> QED
    BY <2>1
<1>6. \E k \in 0 .. v + 1 : Right(k)
  <2>1. n \in 0 .. v + 1
    BY <1>4
  <2> QED
    BY <1>4, <1>5, <2>1
<1>7. NumDigits(v) = CHOOSE k \in 0 .. v + 1 : Right(k)
  BY DEF NumDigits
<1> HIDE DEF S, Right
<1>8. NumDigits(v) \in 0 .. v + 1 /\ Right(NumDigits(v))
  BY <1>6, <1>7, Zenon
<1> QED
  BY <1>8 DEF Right

LEMMA ConstantIs ==
    ASSUME NEW v \in Nat
    PROVE  ConstantBiguint(v) \in Seq(Word) /\ Len(ConstantBiguint(v)) = NumDigits(v)
           /\ Value(ConstantBiguint(v)) = v
<1>1. PICK n \in Nat : n = NumDigits(v) /\ v < Pow(B, n)
  BY NumDigitsIs
<1>2. Pow(B, n) \in Nat
  BY WordIs, PowPositive
<1>3. ConstantBiguint(v) = Resized(v, n) /\ v \in Int /\ v \in 0 .. Pow(B, n) - 1
  BY <1>1, <1>2 DEF ConstantBiguint, Resized
<1> QED
  BY <1>1, <1>3, ResizedIs

(***************************************************************************)
(* Non-native arithmetic: what the constraints of a row say.               *)
(***************************************************************************)
LEMMA ModulusIs ==
    /\ Modulus \in Nat \ {0} /\ Modulus >= 2
    /\ ModulusLimbs \in Seq(Word) /\ Len(ModulusLimbs) = NNLimbs /\ Value(ModulusLimbs) = Modulus
    /\ NNLimbs \in Nat \ {0}
    /\ Modulus < Pow(B, NNLimbs) /\ Modulus >= Pow(B, NNLimbs - 1)
    /\ Pow(B, NNLimbs - 1) \in Nat \ {0} /\ Pow(B, NNLimbs) = B * Pow(B, NNLimbs - 1)
<1>1. Modulus \in Nat /\ Modulus \in Nat \ {0} /\ Modulus >= 2
  BY NonNativeAssumption
<1>2. PICK n \in Nat : n = NNLimbs /\ Modulus < Pow(B, n) /\ (n = 0 \/ Modulus >= Pow(B, n - 1))
  BY <1>1, NumDigitsIs DEF NNLimbs
<1>3. B \in Int /\ B \in Nat \ {0}
  BY WordIs
<1>4. n # 0
  <2>1. Pow(B, 0) = 1
    BY <1>3, PowZero
  <2> QED
    BY <1>1, <1>2, <2>1
<1>5. n - 1 \in Nat /\ (n - 1) + 1 = n
  BY <1>4
<1>6. Pow(B, n - 1) \in Nat \ {0}
  BY <1>3, <1>5, PowPositive
<1>7. Pow(B, n) = B * Pow(B, n - 1)
  BY <1>3, <1>5, PowStep
<1>8. ModulusLimbs \in Seq(Word) /\ Len(ModulusLimbs) = NNLimbs /\ Value(ModulusLimbs) = Modulus
  BY <1>1, ConstantIs DEF ModulusLimbs, NNLimbs
<1> QED
  BY <1>1, <1>2, <1>4, <1>6, <1>7, <1>8

LEMMA PowMonotone ==
    ASSUME NEW m \in Nat, NEW n \in Nat, m <= n
    PROVE  Pow(B, m) <= Pow(B, n)
<1>1. PICK k \in Nat : n = m + k
  <2>1. n - m \in Nat /\ n = m + (n - m)
    OBVIOUS
  <2> QED
    BY <2>1
<1>2. B \in Int /\ B \in Nat \ {0}
  BY WordIs
<1>3. PICK p \in Nat \ {0}, q \in Nat \ {0} : p = Pow(B, m) /\ q = Pow(B, k)
  BY <1>2, PowPositive
<1>4. Pow(B, n) = p * q
  BY <1>1, <1>2, <1>3, PowAdd
<1>5. p * (q - 1) >= 0 /\ p * (q - 1) = p * q - p
  OBVIOUS
<1> QED
  BY <1>3, <1>4, <1>5

\* AddNonnative relates numbers, not limbs.
LEMMA AddNonnativeIs ==
    ASSUME NEW a \in Seq(Word), NEW b \in Seq(Word), NEW sum \in Seq(Word), NEW overflow \in Bit
    PROVE  AddNonnative(a, b, sum, overflow)
             <=> Value(a) + Value(b) = Value(sum) + overflow * Modulus /\ Value(sum) <= Modulus
<1>1. PICK x \in Seq(Word) : x = AddBiguint(a, b) /\ Value(x) = Value(a) + Value(b)
  BY AddIs
<1>2. PICK y \in Seq(Word) : y = Mask(ModulusLimbs, overflow) /\ Value(y) = overflow * Modulus
  BY MaskIs, ModulusIs
<1>3. PICK z \in Seq(Word) : z = AddBiguint(sum, y) /\ Value(z) = Value(sum) + Value(y)
  BY AddIs
<1>4. ConnectBiguint(x, z) <=> Value(x) = Value(z)
  BY ConnectIs
<1>5. CmpBiguint(sum, ModulusLimbs) <=> Value(sum) <= Modulus
  BY CmpIs, ModulusIs
<1> QED
  BY <1>1, <1>2, <1>3, <1>4, <1>5 DEF AddNonnative

LEMMA SingleLimb ==
    ASSUME NEW w \in Word
    PROVE  <<w>> \in Seq(Word) /\ Value(<<w>>) = w
<1>1. PICK s : s = <<w>>
  OBVIOUS
<1>2. s \in Seq(Word) /\ Len(s) = 1 /\ s[1] = w
  BY <1>1
<1>3. Value(s) = ValueOf(s, B, 1) /\ Digital(s, 1)
  BY <1>2, LimbsAreDigits
<1>4. B \in Int /\ B \in Nat \ {0} /\ w \in Nat
  BY WordIs
<1>5. ValueOf(s, B, 0) = 0 /\ Pow(B, 0) = 1
  BY <1>4, ValueZero, PowZero
<1>6. GrowsAt(s, B, 1)
  <2>1. Grows(s, B, 1)
    BY <1>3, <1>4, ValueGrows
  <2> QED
    BY <2>1 DEF Grows
<1>7. ValueOf(s, B, 1) = 0 + w * 1
  <2>1. ValueOf(s, B, 1) = ValueOf(s, B, 1 - 1) + s[1] * Pow(B, 1 - 1)
    BY <1>6 DEF GrowsAt
  <2>2. 1 - 1 = 0
    OBVIOUS
  <2> QED
    BY <1>2, <1>5, <2>1, <2>2
<1> QED
  BY <1>1, <1>2, <1>3, <1>4, <1>7

LEMMA NoLimbs ==
    <<>> \in Seq(Word) /\ Value(<<>>) = 0 /\ Len(<<>>) = 0
<1>1. PICK s : s = <<>>
  OBVIOUS
<1>2. s \in Seq(Word) /\ Len(s) = 0
  BY <1>1
<1>3. Value(s) = ValueOf(s, B, 0)
  BY <1>2, LimbsAreDigits
<1>4. ValueOf(s, B, 0) = 0
  BY WordIs, ValueZero
<1> QED
  BY <1>1, <1>2, <1>3, <1>4

\* add_biguint over three summands.
LEMMA AddAllIs ==
    ASSUME NEW a \in Seq(Word), NEW b \in Seq(Word), NEW c \in Seq(Word)
    PROVE  AddAll(<<a, b, c>>) \in Seq(Word)
           /\ Value(AddAll(<<a, b, c>>)) = Value(a) + Value(b) + Value(c)
<1>1. PICK s : s = <<a, b, c>>
  OBVIOUS
<1>2. Len(s) = 3 /\ s[1] = a /\ s[2] = b /\ s[3] = c
  BY <1>1
<1> DEFINE x1 == AddBiguint(<<>>, a)
           x2 == AddBiguint(x1, b)
           x3 == AddBiguint(x2, c)
           f == [i \in 0 .. 3 |-> IF i = 0 THEN <<>> ELSE IF i = 1 THEN x1 ELSE IF i = 2 THEN x2 ELSE x3]
           Body(g) == [i \in 0 .. 3 |-> IF i = 0 THEN <<>> ELSE AddBiguint(g[i - 1], s[i])]
           sum == CHOOSE g : g = Body(g)
<1>3. f = Body(f)
  <2>1. ASSUME NEW i \in 0 .. 3 PROVE f[i] = Body(f)[i]
    <3>1. CASE i = 0
      BY <3>1
    <3>2. CASE i = 1
      BY <1>2, <3>2
    <3>3. CASE i = 2
      BY <1>2, <3>3
    <3>4. CASE i = 3
      BY <1>2, <3>4
    <3> QED
      BY <3>1, <3>2, <3>3, <3>4
  <2> HIDE DEF x1, x2, x3
  <2> QED
    BY <2>1
<1>4. sum = Body(sum)
  BY <1>3, Zenon
<1>5. AddAll(s) = sum[3]
  BY <1>2 DEF AddAll
<1> HIDE DEF sum, f, x1, x2, x3
<1>6. sum[0] = <<>>
  BY <1>4
<1>7. sum[1] = AddBiguint(sum[0], s[1])
  BY <1>4
<1>8. sum[2] = AddBiguint(sum[1], s[2])
  BY <1>4
<1>9. sum[3] = AddBiguint(sum[2], s[3])
  BY <1>4
<1>10. sum[1] \in Seq(Word) /\ Value(sum[1]) = Value(a)
  <2>1. PICK e \in Seq(Word) : e = sum[0] /\ Value(e) = 0
    BY <1>6, NoLimbs
  <2>2. AddBiguint(e, a) \in Seq(Word) /\ Value(AddBiguint(e, a)) = Value(e) + Value(a)
    BY AddIs
  <2>3. Value(a) \in Nat
    BY ValueNat
  <2> QED
    BY <1>2, <1>7, <2>1, <2>2, <2>3
<1>11. sum[2] \in Seq(Word) /\ Value(sum[2]) = Value(a) + Value(b)
  BY <1>2, <1>8, <1>10, AddIs
<1>12. sum[3] \in Seq(Word) /\ Value(sum[3]) = Value(a) + Value(b) + Value(c)
  BY <1>2, <1>9, <1>11, AddIs
<1> QED
  BY <1>1, <1>5, <1>12

LEMMA AddManyIs ==
    ASSUME NEW a \in Seq(Word), NEW b \in Seq(Word), NEW c \in Seq(Word), NEW sum \in Seq(Word),
           NEW overflow \in Word
    PROVE  AddManyNonnative(<<a, b, c>>, sum, overflow)
             <=> /\ Value(a) + Value(b) + Value(c) = Value(sum) + Modulus * overflow
                 /\ Value(sum) <= Modulus
<1>1. PICK x \in Seq(Word) : x = AddAll(<<a, b, c>>) /\ Value(x) = Value(a) + Value(b) + Value(c)
  BY AddAllIs
<1>2. PICK w \in Seq(Word) : w = <<overflow>> /\ Value(w) = overflow
  BY SingleLimb
<1>3. PICK y \in Seq(Word) : y = MulBiguint(ModulusLimbs, w) /\ Value(y) = Modulus * Value(w)
  BY MulIs, ModulusIs
<1>4. PICK z \in Seq(Word) : z = AddBiguint(sum, y) /\ Value(z) = Value(sum) + Value(y)
  BY AddIs
<1>5. ConnectBiguint(x, z) <=> Value(x) = Value(z)
  BY ConnectIs
<1>6. CmpBiguint(sum, ModulusLimbs) <=> Value(sum) <= Modulus
  BY CmpIs, ModulusIs
<1> QED
  BY <1>1, <1>2, <1>3, <1>4, <1>5, <1>6 DEF AddManyNonnative

LEMMA MulNonnativeIs ==
    ASSUME NEW a \in Seq(Word), NEW b \in Seq(Word), NEW prod \in Seq(Word), NEW overflow \in Seq(Word)
    PROVE  MulNonnative(a, b, prod, overflow)
             <=> Value(a) * Value(b) = Value(prod) + Modulus * Value(overflow)
<1>1. PICK x \in Seq(Word) : x = MulBiguint(a, b) /\ Value(x) = Value(a) * Value(b)
  BY MulIs
<1>2. PICK y \in Seq(Word) : y = MulBiguint(ModulusLimbs, overflow) /\ Value(y) = Modulus * Value(overflow)
  BY MulIs, ModulusIs
<1>3. PICK z \in Seq(Word) : z = AddBiguint(prod, y) /\ Value(z) = Value(prod) + Value(y)
  BY AddIs
<1>4. ConnectBiguint(x, z) <=> Value(x) = Value(z)
  BY ConnectIs
<1> QED
  BY <1>1, <1>2, <1>3, <1>4 DEF MulNonnative

LEMMA InvNonnativeIs ==
    ASSUME NEW x \in Seq(Word), NEW inv \in Seq(Word), NEW div \in Seq(Word)
    PROVE  InvNonnative(x, inv, div) <=> Value(x) * Value(inv) = Modulus * Value(div) + 1
<1>1. PICK u \in Seq(Word) : u = MulBiguint(x, inv) /\ Value(u) = Value(x) * Value(inv)
  BY MulIs
<1>2. PICK y \in Seq(Word) : y = MulBiguint(ModulusLimbs, div) /\ Value(y) = Modulus * Value(div)
  BY MulIs, ModulusIs
<1>3. PICK w \in Seq(Word) : w = ConstantBiguint(1) /\ Value(w) = 1
  BY ConstantIs
<1>4. PICK z \in Seq(Word) : z = AddBiguint(y, w) /\ Value(z) = Value(y) + Value(w)
  BY AddIs
<1>5. ConnectBiguint(u, z) <=> Value(u) = Value(z)
  BY ConnectIs
<1> QED
  BY <1>1, <1>2, <1>3, <1>4, <1>5 DEF InvNonnative

LEMMA DivRemIs ==
    ASSUME NEW a \in Seq(Word), NEW div \in Seq(Word), NEW rem \in Seq(Word)
    PROVE  DivRemConstraints(a, ModulusLimbs, div, rem)
             <=> Value(a) = Value(div) * Modulus + Value(rem) /\ Value(rem) < Modulus
<1>1. PICK y \in Seq(Word) : y = MulBiguint(div, ModulusLimbs) /\ Value(y) = Value(div) * Modulus
  BY MulIs, ModulusIs
<1>2. PICK z \in Seq(Word) : z = AddBiguint(y, rem) /\ Value(z) = Value(y) + Value(rem)
  BY AddIs
<1>3. ConnectBiguint(a, z) <=> Value(a) = Value(z)
  BY ConnectIs
<1>4. CmpBiguint(ModulusLimbs, rem) <=> Modulus <= Value(rem)
  BY CmpIs, ModulusIs
<1>5. Modulus \in Nat /\ Value(rem) \in Nat
  BY ModulusIs, ValueNat
<1>6. ~(Modulus <= Value(rem)) <=> Value(rem) < Modulus
  BY <1>5
<1> QED
  BY <1>1, <1>2, <1>3, <1>4, <1>6 DEF DivRemConstraints

\* A borrow that sub_biguint drops would make the difference larger than a.
LEMMA SubNonnativeIs ==
    ASSUME NEW a \in Seq(Word), NEW b \in Seq(Word), NEW diff \in Seq(Word), NEW overflow \in Bit,
           Len(a) <= NNLimbs, Len(diff) = NNLimbs
    PROVE  SubNonnative(a, b, diff, overflow)
             <=> Value(a) = Value(diff) + Value(b) - overflow * Modulus
<1>1. PICK x \in Seq(Word) : x = AddBiguint(diff, b) /\ Value(x) = Value(diff) + Value(b)
                             /\ Len(x) = MaxLen(diff, b) + 1
  BY AddIs
<1>2. PICK y \in Seq(Word) : y = Mask(ModulusLimbs, overflow) /\ Value(y) = overflow * Modulus
  BY MaskIs, ModulusIs
<1>3. PICK z \in Seq(Word) : z = SubBiguint(x, y) /\ Len(z) = MaxLen(x, y)
  BY SubIs
<1>4. PICK d \in Bit : Value(z) = Value(x) - Value(y) + d * Pow(B, MaxLen(x, y))
  BY <1>3, SubIs
<1>5. SubNonnative(a, b, diff, overflow) <=> Value(a) = Value(z)
  BY <1>1, <1>2, <1>3, ConnectIs DEF SubNonnative
<1>6. PICK va \in Nat, vx \in Nat, vy \in Nat, vz \in Nat :
         va = Value(a) /\ vx = Value(x) /\ vy = Value(y) /\ vz = Value(z)
  BY ValueNat
<1>7. PICK p \in Nat \ {0}, q \in Nat \ {0}, base \in Nat :
         /\ p = Pow(B, NNLimbs) /\ q = Pow(B, MaxLen(x, y)) /\ base = B /\ base >= 4
         /\ base * p <= q
  <2>1. NNLimbs \in Nat /\ NNLimbs + 1 \in Nat /\ MaxLen(x, y) \in Nat /\ NNLimbs + 1 <= MaxLen(x, y)
    <3>1. MaxLen(x, y) \in Nat /\ Len(x) <= MaxLen(x, y)
      BY MaxLenIs
    <3>2. MaxLen(diff, b) \in Nat /\ NNLimbs <= MaxLen(diff, b)
      BY MaxLenIs
    <3> QED
      BY <1>1, <3>1, <3>2, ModulusIs
  <2>2. B \in Int /\ B \in Nat \ {0} /\ B >= 4
    BY WordIs
  <2>3. Pow(B, NNLimbs) \in Nat \ {0} /\ Pow(B, MaxLen(x, y)) \in Nat \ {0}
    BY <2>1, <2>2, PowPositive
  <2>4. Pow(B, NNLimbs + 1) = B * Pow(B, NNLimbs)
    BY <2>1, <2>2, PowStep
  <2>5. Pow(B, NNLimbs + 1) <= Pow(B, MaxLen(x, y))
    BY <2>1, PowMonotone
  <2> QED
    BY <2>2, <2>3, <2>4, <2>5
<1>8. va < p
  <2>1. Len(a) \in Nat /\ NNLimbs \in Nat /\ Value(a) < Pow(B, Len(a)) /\ Pow(B, Len(a)) \in Nat
    BY ValueNat, ModulusIs
  <2>2. Pow(B, Len(a)) <= Pow(B, NNLimbs)
    BY <2>1, PowMonotone
  <2> QED
    <3>1. PICK r \in Nat : r = Pow(B, Len(a)) /\ va < r
      BY <1>6, <2>1
    <3>2. r <= p
      BY <1>7, <2>2, <3>1
    <3> QED
      BY <3>1, <3>2
<1>9. vy < p
  <2>1. vy \in {0, Modulus}
    BY <1>2, <1>6, ModulusIs DEF Bit
  <2> QED
    BY <1>7, <2>1, ModulusIs
<1>10. vz = vx - vy + d * q
  BY <1>4, <1>6, <1>7
<1>11. d = 0 \/ (d = 1 /\ d * q = q)
  BY DEF Bit
<1>12. base * p >= 2 * p
  <2>1. (base - 2) * p >= 0 /\ (base - 2) * p = base * p - 2 * p
    BY <1>7, SMTT(30)
  <2> QED
    BY <2>1
<1>13. va = vz <=> va = vx - vy
  <2>1. CASE d = 0
    BY <1>10, <2>1
  <2>2. CASE d = 1 /\ d * q = q
    <3>0. vz = vx - vy + q
      BY <1>10, <2>2
    <3>1. vz >= q - vy
      BY <3>0
    <3>2. vz > va
      <4>1. 2 * p <= q
        BY <1>7, <1>12
      <4> QED
        BY <1>8, <1>9, <3>1, <4>1
    <3>3. vx < vy
      <4>1. vz < q
        <5>1. Value(z) < Pow(B, Len(z))
          BY ValueNat
        <5> QED
          BY <1>3, <1>6, <1>7, <5>1
      <4> QED
        BY <3>0, <4>1
    <3> QED
      BY <3>2, <3>3
  <2> QED
    BY <1>11, <2>1, <2>2
<1>14. vx - vy = Value(diff) + Value(b) - overflow * Modulus
  <2>1. PICK vd \in Nat, vb \in Nat : vd = Value(diff) /\ vb = Value(b)
    BY ValueNat
  <2>2. vx = vd + vb /\ vy = overflow * Modulus
    BY <1>1, <1>2, <1>6, <2>1
  <2> QED
    BY <2>1, <2>2
<1>15. Value(a) = Value(z) <=> Value(a) = Value(diff) + Value(b) - overflow * Modulus
  BY <1>6, <1>13, <1>14
<1> QED
  BY <1>5, <1>15

(***************************************************************************)
(* Non-native arithmetic: residues.                                        *)
(***************************************************************************)
SumsTo(x, y, z, k, m) == x + y = z + k * m

LEMMA CongruentSum ==
    ASSUME NEW m \in Nat \ {0}, NEW x \in Int, NEW y \in Int, NEW z \in Int, NEW k \in Int,
           SumsTo(x, y, z, k, m)
    PROVE  z % m = ((x % m) + y) % m
<1>1. ((x % m) + y) % m = (x + y) % m
  BY ModAdd
<1>2. (m * k + z) % m = z % m
  BY ModShift
<1>3. m * k + z = x + y
  BY DEF SumsTo
<1> QED
  BY <1>1, <1>2, <1>3

MultipliesTo(x, y, z, k, m) == x * y = z + m * k

LEMMA CongruentProduct ==
    ASSUME NEW m \in Nat \ {0}, NEW x \in Int, NEW y \in Int, NEW z \in Int, NEW k \in Int,
           MultipliesTo(x, y, z, k, m)
    PROVE  z % m = ((x % m) * y) % m
<1>1. ((x % m) * y) % m = (x * y) % m
  BY ModMul
<1>2. (m * k + z) % m = z % m
  BY ModShift
<1>3. m * k + z = x * y
  BY DEF MultipliesTo
<1> QED
  BY <1>1, <1>2, <1>3

\* A residue has one inverse.
LEMMA InverseUnique ==
    ASSUME NEW m \in Nat \ {0}, NEW x \in Int, NEW y \in 0 .. m - 1, NEW z \in 0 .. m - 1,
           (x * y) % m = 1, (x * z) % m = 1
    PROVE  y = z
<1>1. PICK u \in Int, w \in Int, t \in Int : u = x * y /\ w = x * z /\ t = u * z /\ t = w * y
  <2>1. x * y \in Int /\ x * z \in Int /\ (x * y) * z \in Int /\ (x * y) * z = (x * z) * y
    OBVIOUS
  <2> QED
    BY <2>1
<1>0. y \in Int /\ z \in Int
  OBVIOUS
<1>2. ((u % m) * z) % m = (u * z) % m /\ ((w % m) * y) % m = (w * y) % m
  BY <1>0, ModMul
<1>3. (1 * z) % m = t % m /\ (1 * y) % m = t % m
  BY <1>1, <1>2
<1>4. 1 * z = z /\ 1 * y = y
  OBVIOUS
<1>5. z % m = z /\ y % m = y
  BY ModSmall
<1> QED
  BY <1>3, <1>4, <1>5

LEMMA InverseChosen ==
    ASSUME NEW x \in Int, NEW y \in Elements, (x * y) % Modulus = 1
    PROVE  FieldInverse(x) = y
<1>1. PICK e : e = FieldInverse(x)
  OBVIOUS
<1>2. e \in Elements /\ (x * e) % Modulus = 1
  BY <1>1, Zenon DEF FieldInverse
<1>3. Modulus \in Nat \ {0} /\ Elements = 0 .. Modulus - 1
  BY ModulusIs DEF Elements
<1> QED
  BY <1>1, <1>2, <1>3, InverseUnique

LEMMA InverseExists ==
    ASSUME NEW x \in Elements, x # 0
    PROVE  FieldInverse(x) \in Elements /\ (x * FieldInverse(x)) % Modulus = 1
<1>1. Modulus \in Nat /\ x \in 1 .. Modulus - 1
  BY ModulusIs DEF Elements
<1>2. PICK y \in 1 .. Modulus - 1 : (x * y) % Modulus = 1
  BY <1>1, NonNativeAssumption
<1>3. y \in Elements
  BY <1>1 DEF Elements
<1> QED
  BY <1>2, <1>3, Zenon DEF FieldInverse

LEMMA InverseResidue ==
    ASSUME NEW x \in Int, NEW y \in Int, NEW k \in Int, x * y = Modulus * k + 1
    PROVE  FieldInverse(x % Modulus) = y % Modulus
<1>1. PICK m \in Nat \ {0} : m = Modulus /\ m >= 2
  BY ModulusIs
<1>2. PICK r \in 0 .. m - 1, w \in 0 .. m - 1 : r = x % m /\ w = y % m
  BY ModRange
<1>0. r \in Int /\ w \in Int
  OBVIOUS
<1>3. (r * y) % m = (x * y) % m
  BY <1>2, ModMul
<1>4. (w * r) % m = (y * r) % m
  BY <1>0, <1>2, ModMul
<1>5. w * r = r * w /\ y * r = r * y
  OBVIOUS
<1>6. (m * k + 1) % m = 1
  BY <1>1, ModIs
<1>7. (r * w) % m = 1
  BY <1>1, <1>3, <1>4, <1>5, <1>6
<1>8. r \in Int /\ w \in Elements
  BY <1>1 DEF Elements
<1> QED
  BY <1>1, <1>2, <1>7, <1>8, InverseChosen

(***************************************************************************)
(* Non-native arithmetic: the rows.                                        *)
(***************************************************************************)

\* An element in all its limbs.
ElementLimbs(a) == a \in Seq(Word) /\ Len(a) = NNLimbs

\* Limbs that stand for a residue.
Holds(a, v) == ElementLimbs(a) /\ v \in Elements /\ Value(a) % Modulus = v

LEMMA HoldsNumbers ==
    ASSUME NEW a, NEW v, Holds(a, v)
    PROVE  \E x \in Nat, m \in Nat \ {0} :
              x = Value(a) /\ m = Modulus /\ m >= 2 /\ v = x % m /\ v \in Int /\ x < Pow(B, NNLimbs)
BY ValueNat, ModulusIs DEF Holds, ElementLimbs, Elements

LEMMA ResizedElement ==
    ASSUME NEW x \in 0 .. Modulus
    PROVE  ElementLimbs(Resized(x, NNLimbs)) /\ Value(Resized(x, NNLimbs)) = x
<1>1. PICK m \in Nat, n \in Nat, p \in Nat : m = Modulus /\ n = NNLimbs /\ p = Pow(B, n) /\ m < p
  <2>1. NNLimbs \in Nat /\ Pow(B, NNLimbs) \in Nat
    BY ModulusIs, WordIs, PowPositive
  <2> QED
    BY <2>1, ModulusIs
<1>2. x \in Int /\ x \in 0 .. Pow(B, n) - 1
  BY <1>1
<1> QED
  BY <1>1, <1>2, ResizedIs DEF ElementLimbs

LEMMA ConstantsAre ==
    ASSUME NEW b \in Constants
    PROVE  b \in Seq(Word) /\ Value(b) \in Elements
<1>1. PICK v \in Elements : b = Resized(v, NNLimbs) \/ b = ConstantBiguint(v)
  BY DEF Constants
<1>2. v \in Nat /\ v \in 0 .. Modulus
  BY ModulusIs DEF Elements
<1>3. CASE b = Resized(v, NNLimbs)
  BY <1>2, <1>3, ResizedElement DEF ElementLimbs
<1>4. CASE b = ConstantBiguint(v)
  BY <1>2, <1>4, ConstantIs
<1> QED
  BY <1>1, <1>3, <1>4

LEMMA AllLimbsAre ==
    ASSUME NEW n \in Nat, NEW a \in AllLimbs(n)
    PROVE  a \in Seq(Word) /\ Len(a) = n
BY LengthIs DEF AllLimbs

LEMMA ReducedIs ==
    ASSUME NEW a \in Seq(Word)
    PROVE  /\ Reduced(a) \in 0 .. Modulus - 1 /\ Reduced(a) \in Int
           /\ Value(a) < Modulus => Reduced(a) = Value(a)
<1>1. PICK m \in Nat \ {0}, x \in Nat : m = Modulus /\ x = Value(a)
  BY ModulusIs, ValueNat
<1>2. x % m \in 0 .. m - 1
  BY ModRange
<1>3. x < m => x % m = x
  <2>1. ASSUME x < m PROVE x % m = x
    <3>1. x \in 0 .. m - 1
      BY <2>1
    <3> QED
      BY <3>1, ModSmall
  <2> QED
    BY <2>1
<1> QED
  BY <1>1, <1>2, <1>3 DEF Reduced

\* Sums.
LEMMA SumSound ==
    ASSUME NEW a, NEW v, Holds(a, v), NEW b \in Seq(Word), NEW r \in Seq(Word), NEW overflow \in Bit,
           AddNonnative(a, b, r, overflow)
    PROVE  Value(r) % Modulus = (v + Value(b)) % Modulus
<1>1. PICK x \in Nat, m \in Nat \ {0} : x = Value(a) /\ m = Modulus /\ v = x % m
  BY HoldsNumbers
<1>2. PICK y \in Nat, z \in Nat : y = Value(b) /\ z = Value(r)
  BY ValueNat
<1>3. PICK k \in Int : k = overflow
  BY DEF Bit
<1>4. a \in Seq(Word)
  BY DEF Holds, ElementLimbs
<1>5. SumsTo(x, y, z, k, m)
  BY <1>1, <1>2, <1>3, <1>4, AddNonnativeIs DEF SumsTo
<1>6. z % m = ((x % m) + y) % m
  <2>1. x \in Int /\ y \in Int /\ z \in Int
    OBVIOUS
  <2> QED
    BY <1>5, <2>1, CongruentSum
<1> QED
  BY <1>1, <1>2, <1>6

LEMMA AddGenerated ==
    ASSUME NEW a \in Seq(Word), NEW b \in Seq(Word), Value(b) < Modulus,
           NEW g, g = AddGenerator(a, b), NEW r, r = Resized(g[1], NNLimbs)
    PROVE  /\ ElementLimbs(r) /\ g[2] \in Bit
           /\ Value(a) < Modulus => AddNonnative(a, b, r, g[2])
<1>0. PICK m \in Nat : m = Modulus
  BY ModulusIs
<1>1. PICK x \in 0 .. m - 1, y \in 0 .. m - 1 :
         m = Modulus /\ x = Reduced(a) /\ y = Reduced(b) /\ y = Value(b)
         /\ (Value(a) < Modulus => x = Value(a))
  BY <1>0, ReducedIs
<1>2. PICK s \in 0 .. m, c \in {0, 1} : g[1] = s /\ g[2] = c /\ x + y = s + c * m
  <2>1. CASE x + y > m
    <3>1. g[1] = x + y - m /\ g[2] = 1
      BY <1>1, <2>1 DEF AddGenerator
    <3>2. x + y - m \in 0 .. m /\ x + y = (x + y - m) + 1 * m
      BY <2>1
    <3> QED
      BY <3>1, <3>2
  <2>2. CASE ~(x + y > m)
    <3>1. g[1] = x + y /\ g[2] = 0
      BY <1>1, <2>2 DEF AddGenerator
    <3>2. x + y \in 0 .. m /\ x + y = (x + y) + 0 * m
      BY <2>2
    <3> QED
      BY <3>1, <3>2
  <2> QED
    BY <2>1, <2>2
<1>3. ElementLimbs(r) /\ Value(r) = s /\ r \in Seq(Word)
  BY <1>1, <1>2, ResizedElement DEF ElementLimbs
<1>4. c \in Bit
  BY DEF Bit
<1>5. ASSUME Value(a) < Modulus PROVE AddNonnative(a, b, r, c)
  <2>1. Value(a) + Value(b) = Value(r) + c * Modulus /\ Value(r) <= Modulus
    BY <1>1, <1>2, <1>3, <1>5
  <2> QED
    BY <1>3, <1>4, <2>1, AddNonnativeIs
<1> QED
  BY <1>2, <1>3, <1>4, <1>5

LEMMA SumsSound ==
    ASSUME NEW a, NEW v, Holds(a, v), NEW b \in Seq(Word), NEW r \in Seq(Word), NEW overflow \in Word,
           AddManyNonnative(<<a, b, b>>, r, overflow)
    PROVE  Value(r) % Modulus = (v + 2 * Value(b)) % Modulus
<1>1. PICK x \in Nat, m \in Nat \ {0} : x = Value(a) /\ m = Modulus /\ v = x % m
  BY HoldsNumbers
<1>2. PICK y \in Nat, z \in Nat : y = Value(b) /\ z = Value(r)
  BY ValueNat
<1>3. PICK k \in Int : k = overflow
  BY WordIs
<1>4. a \in Seq(Word)
  BY DEF Holds, ElementLimbs
<1>5. x + y + y = z + m * k
  <2>1. Value(a) + Value(b) + Value(b) = Value(r) + Modulus * overflow
    BY <1>4, AddManyIs
  <2> QED
    BY <1>1, <1>2, <1>3, <2>1
<1>6. z % m = ((x % m) + 2 * y) % m
  <2>1. PICK w \in Int : w = 2 * y
    OBVIOUS
  <2>2. x \in Int /\ z \in Int /\ SumsTo(x, w, z, k, m)
    BY <1>5, <2>1 DEF SumsTo
  <2>3. z % m = ((x % m) + w) % m
    BY <2>2, CongruentSum
  <2> QED
    BY <2>1, <2>3
<1>7. (x % m) + 2 * y = v + 2 * Value(b)
  BY <1>1, <1>2
<1> QED
  BY <1>1, <1>2, <1>6, <1>7

\* SumReduced of three.
LEMMA SumOfThree ==
    ASSUME NEW x \in Int, NEW y \in Int, NEW z \in Int, NEW words,
           words = [i \in 1 .. 3 |-> IF i = 1 THEN x ELSE IF i = 2 THEN y ELSE z]
    PROVE  SumOf(words) = x + y + z
<1>1. words \in [1 .. 3 -> Int] /\ words[1] = x /\ words[2] = y /\ words[3] = z
  OBVIOUS
<1>2. Digital(words, 3)
  BY <1>1 DEF Digital
<1>3. Grows(words, 1, 3)
  BY <1>2, ValueGrows
<1>4. GrowsAt(words, 1, 1) /\ GrowsAt(words, 1, 2) /\ GrowsAt(words, 1, 3)
  BY <1>3 DEF Grows
<1>5. Pow(1, 0) = 1 /\ Pow(1, 1) = 1 /\ Pow(1, 2) = 1
  BY PowOne
<1>6. ValueOf(words, 1, 0) = 0
  BY ValueZero
<1>7. ValueOf(words, 1, 1) = x
  <2>1. 1 - 1 = 0 /\ 0 + x * 1 = x
    OBVIOUS
  <2> QED
    BY <1>1, <1>4, <1>5, <1>6, <2>1 DEF GrowsAt
<1>8. ValueOf(words, 1, 2) = x + y
  <2>1. 2 - 1 = 1 /\ x + y * 1 = x + y
    OBVIOUS
  <2> QED
    BY <1>1, <1>4, <1>5, <1>7, <2>1 DEF GrowsAt
<1>9. ValueOf(words, 1, 3) = x + y + z
  <2>1. 3 - 1 = 2 /\ (x + y) + z * 1 = x + y + z
    OBVIOUS
  <2> QED
    BY <1>1, <1>4, <1>5, <1>8, <2>1 DEF GrowsAt
<1>10. SumOf(words) = ValueOf(words, 1, 3)
  BY <1>1, SumIs
<1> QED
  BY <1>9, <1>10

\* A sum of three that is not below the modulus overflows into one word.
LEMMA SumsGenerated ==
    ASSUME NEW a \in Seq(Word), NEW b \in Seq(Word), Value(b) < Modulus,
           NEW g, g = MultipleAddsGenerator(<<a, b, b>>), NEW r, r = Resized(g[1], NNLimbs)
    PROVE  /\ ElementLimbs(r) /\ g[2] \in Word
           /\ Value(a) < Modulus => AddManyNonnative(<<a, b, b>>, r, g[2])
<1>0. PICK m \in Nat \ {0} : m = Modulus
  BY ModulusIs
<1>1. PICK x \in 0 .. m - 1, y \in 0 .. m - 1 :
         x = Reduced(a) /\ y = Reduced(b) /\ y = Value(b) /\ (Value(a) < Modulus => x = Value(a))
  BY <1>0, ReducedIs
<1>2. SumReduced(<<a, b, b>>) = x + y + y
  <2>1. PICK s : s = <<a, b, b>>
    OBVIOUS
  <2>2. Len(s) = 3 /\ s[1] = a /\ s[2] = b /\ s[3] = b
    BY <2>1
  <2>3. PICK words : words = [i \in 1 .. 3 |-> Reduced(s[i])]
    OBVIOUS
  <2>4. words = [i \in 1 .. 3 |-> IF i = 1 THEN x ELSE IF i = 2 THEN y ELSE y]
    <3>1. ASSUME NEW i \in 1 .. 3
          PROVE  Reduced(s[i]) = IF i = 1 THEN x ELSE IF i = 2 THEN y ELSE y
      <4>1. i = 1 \/ i = 2 \/ i = 3
        OBVIOUS
      <4> QED
        BY <1>1, <2>2, <4>1
    <3> QED
      BY <2>3, <3>1
  <2>5. x \in Int /\ y \in Int
    OBVIOUS
  <2>6. SumOf(words) = x + y + y
    BY <2>4, <2>5, SumOfThree
  <2> QED
    BY <2>1, <2>2, <2>3, <2>6 DEF SumReduced
<1>3. PICK w \in Int : w = x + y + y
  OBVIOUS
<1>4. PICK q \in Int, z \in 0 .. m - 1 : w = m * q + z /\ w % m = z /\ w \div m = q
  BY ModDiv
<1>5. g[1] = z /\ g[2] = q
  BY <1>0, <1>2, <1>3, <1>4 DEF MultipleAddsGenerator
<1>6. q \in 0 .. 2
  <2>1. q <= -1 => m * q <= -m
    OBVIOUS
  <2>2. q >= 3 => m * q >= 3 * m
    OBVIOUS
  <2> QED
    BY <1>3, <1>4, <2>1, <2>2
<1>7. q \in Word
  BY <1>6, WordIs
<1>8. ElementLimbs(r) /\ Value(r) = z /\ r \in Seq(Word)
  <2>1. z \in 0 .. Modulus
    BY <1>0
  <2> QED
    BY <1>5, <2>1, ResizedElement DEF ElementLimbs
<1>9. ASSUME Value(a) < Modulus PROVE AddManyNonnative(<<a, b, b>>, r, q)
  <2>1. x = Value(a) /\ x + y + y = z + m * q /\ z <= m
    <3>1. x = Value(a)
      BY <1>1, <1>9
    <3>2. x + y + y = z + m * q /\ z <= m
      BY <1>3, <1>4
    <3> QED
      BY <3>1, <3>2
  <2>2. /\ Value(a) + Value(b) + Value(b) = Value(r) + Modulus * q
        /\ Value(r) <= Modulus
    BY <1>0, <1>1, <1>8, <2>1
  <2> QED
    BY <1>7, <1>8, <2>2, AddManyIs
<1> QED
  BY <1>5, <1>7, <1>8, <1>9

\* Differences.
LEMMA DifferenceSound ==
    ASSUME NEW a, NEW v, Holds(a, v), NEW b \in Seq(Word), NEW r, ElementLimbs(r), NEW overflow \in Bit,
           SubNonnative(a, b, r, overflow)
    PROVE  Value(r) % Modulus = (v - Value(b)) % Modulus
<1>1. PICK x \in Nat, m \in Nat \ {0} : x = Value(a) /\ m = Modulus /\ v = x % m /\ v \in Int
  BY HoldsNumbers
<1>2. PICK y \in Nat, z \in Nat : y = Value(b) /\ z = Value(r)
  BY ValueNat DEF ElementLimbs
<1>3. PICK k \in Int : k = overflow
  BY DEF Bit
<1>4. a \in Seq(Word) /\ Len(a) <= NNLimbs /\ r \in Seq(Word) /\ Len(r) = NNLimbs
  BY ModulusIs DEF Holds, ElementLimbs
<1>5. x = z + y - k * m
  <2>1. Value(a) = Value(r) + Value(b) - overflow * Modulus
    BY <1>4, SubNonnativeIs
  <2> QED
    BY <1>1, <1>2, <1>3, <2>1
<1>6. PICK w \in Int, c \in Int : w = -y /\ c = -k
  OBVIOUS
<1>7. x \in Int /\ z \in Int /\ SumsTo(x, w, z, c, m)
  <2>1. (-k) * m = -(k * m)
    OBVIOUS
  <2> QED
    BY <1>5, <1>6, <2>1 DEF SumsTo
<1>8. z % m = ((x % m) + w) % m
  BY <1>7, CongruentSum
<1>9. (x % m) + w = v - Value(b)
  BY <1>1, <1>2, <1>6
<1> QED
  BY <1>1, <1>2, <1>8, <1>9

LEMMA NegationSound ==
    ASSUME NEW a, NEW v, Holds(a, v), NEW r, ElementLimbs(r), NEW overflow \in Bit,
           SubNonnative(<<>>, a, r, overflow)
    PROVE  Value(r) % Modulus = (0 - v) % Modulus
<1>1. PICK x \in Nat, m \in Nat \ {0} : x = Value(a) /\ m = Modulus /\ v = x % m /\ v \in Int
  BY HoldsNumbers
<1>2. PICK z \in Nat : z = Value(r)
  BY ValueNat DEF ElementLimbs
<1>3. PICK k \in Int : k = overflow
  BY DEF Bit
<1>4. a \in Seq(Word) /\ r \in Seq(Word) /\ Len(r) = NNLimbs
  BY DEF Holds, ElementLimbs
<1>5. 0 = z + x - k * m
  <2>1. PICK e : e = <<>> /\ e \in Seq(Word) /\ Value(e) = 0 /\ Len(e) = 0
    BY NoLimbs, Zenon
  <2>2. Value(e) = Value(r) + Value(a) - overflow * Modulus
    <3>1. SubNonnative(e, a, r, overflow)
      BY <2>1, Zenon
    <3>2. Len(e) <= NNLimbs
      BY <2>1, ModulusIs
    <3> QED
      BY <1>4, <2>1, <3>1, <3>2, SubNonnativeIs
  <2> QED
    BY <1>1, <1>2, <1>3, <2>1, <2>2
<1>6. PICK u \in Int, c \in Int : u = -1 /\ c = -k
  OBVIOUS
<1>7. x \in Int /\ z \in Int /\ MultipliesTo(x, u, z, c, m)
  <2>1. m * (-k) = -(k * m)
    OBVIOUS
  <2> QED
    BY <1>5, <1>6, <2>1 DEF MultipliesTo
<1>8. z % m = ((x % m) * u) % m
  BY <1>7, CongruentProduct, ZenonT(30)
<1>9. (x % m) * u = 0 - v
  BY <1>1, <1>6
<1> QED
  BY <1>1, <1>2, <1>8, <1>9

LEMMA DifferenceGenerated ==
    ASSUME NEW a \in Seq(Word), NEW b \in Seq(Word), Len(a) <= NNLimbs,
           NEW g, g = SubGenerator(a, b), NEW r, r = Resized(g[1], NNLimbs)
    PROVE  /\ ElementLimbs(r) /\ g[2] \in Bit
           /\ Value(a) < Modulus /\ Value(b) < Modulus => SubNonnative(a, b, r, g[2])
<1>0. PICK m \in Nat \ {0} : m = Modulus
  BY ModulusIs
<1>1. PICK x \in 0 .. m - 1, y \in 0 .. m - 1 :
         x = Reduced(a) /\ y = Reduced(b)
         /\ (Value(a) < Modulus => x = Value(a)) /\ (Value(b) < Modulus => y = Value(b))
  BY <1>0, ReducedIs
<1>2. PICK s \in 0 .. m, c \in {0, 1} : g[1] = s /\ g[2] = c /\ x = s + y - c * m
  <2>1. CASE x >= y
    <3>1. g[1] = x - y /\ g[2] = 0
      BY <1>1, <2>1 DEF SubGenerator
    <3>2. x - y \in 0 .. m /\ x = (x - y) + y - 0 * m
      BY <2>1
    <3> QED
      BY <3>1, <3>2
  <2>2. CASE ~(x >= y)
    <3>1. g[1] = m + x - y /\ g[2] = 1
      BY <1>0, <1>1, <2>2 DEF SubGenerator
    <3>2. m + x - y \in 0 .. m /\ x = (m + x - y) + y - 1 * m
      BY <2>2
    <3> QED
      BY <3>1, <3>2
  <2> QED
    BY <2>1, <2>2
<1>3. ElementLimbs(r) /\ Value(r) = s /\ r \in Seq(Word) /\ Len(r) = NNLimbs
  BY <1>0, <1>2, ResizedElement DEF ElementLimbs
<1>4. c \in Bit
  BY DEF Bit
<1>5. ASSUME Value(a) < Modulus, Value(b) < Modulus PROVE SubNonnative(a, b, r, c)
  <2>1. Value(a) = Value(r) + Value(b) - c * Modulus
    BY <1>0, <1>1, <1>2, <1>3, <1>5
  <2> QED
    BY <1>3, <1>4, <2>1, SubNonnativeIs
<1> QED
  BY <1>2, <1>3, <1>4, <1>5

\* Products.
LEMMA ProductSound ==
    ASSUME NEW a, NEW v, Holds(a, v), NEW b \in Seq(Word), NEW r \in Seq(Word), NEW overflow \in Seq(Word),
           MulNonnative(a, b, r, overflow)
    PROVE  Value(r) % Modulus = (v * Value(b)) % Modulus
<1>1. PICK x \in Nat, m \in Nat \ {0} : x = Value(a) /\ m = Modulus /\ v = x % m
  BY HoldsNumbers
<1>2. PICK y \in Nat, z \in Nat, k \in Nat : y = Value(b) /\ z = Value(r) /\ k = Value(overflow)
  BY ValueNat
<1>3. a \in Seq(Word)
  BY DEF Holds, ElementLimbs
<1>4. MultipliesTo(x, y, z, k, m)
  <2>1. Value(a) * Value(b) = Value(r) + Modulus * Value(overflow)
    BY <1>3, MulNonnativeIs
  <2> QED
    BY <1>1, <1>2, <2>1 DEF MultipliesTo
<1>5. x \in Int /\ y \in Int /\ z \in Int /\ k \in Int
  OBVIOUS
<1>6. z % m = ((x % m) * y) % m
  BY <1>4, <1>5, CongruentProduct
<1> QED
  BY <1>1, <1>2, <1>6

\* The quotient of a product of reduced operands has no more limbs than b.
LEMMA ProductGenerated ==
    ASSUME NEW a, ElementLimbs(a), NEW b \in Seq(Word), Value(b) < Modulus,
           NEW g, g = MulGenerator(a, b), NEW r, r = Resized(g[1], NNLimbs),
           NEW o, o = Resized(g[2], MulOverflowLimbs(a, b))
    PROVE  /\ ElementLimbs(r) /\ o \in Seq(Word)
           /\ Value(a) < Modulus => MulNonnative(a, b, r, o)
<1>0. PICK m \in Nat \ {0} : m = Modulus
  BY ModulusIs
<1>a. a \in Seq(Word) /\ Len(a) = NNLimbs
  BY DEF ElementLimbs
<1>1. PICK x \in 0 .. m - 1, y \in 0 .. m - 1 :
         x = Reduced(a) /\ y = Reduced(b) /\ y = Value(b) /\ (Value(a) < Modulus => x = Value(a))
  BY <1>0, <1>a, ReducedIs
<1>2. PICK w \in Nat : w = x * y
  OBVIOUS
<1>3. PICK q \in Int, z \in 0 .. m - 1 : w = m * q + z /\ w % m = z /\ w \div m = q
  BY ModDiv
<1>4. g[1] = z /\ g[2] = q
  BY <1>0, <1>1, <1>2, <1>3 DEF MulGenerator
<1>5. q \in 0 .. y
  <2>1. q <= -1 => m * q <= -m
    OBVIOUS
  <2>2. w <= m * y
    <3>1. (m - x) * y >= 0 /\ (m - x) * y = m * y - x * y
      OBVIOUS
    <3> QED
      BY <1>2, <3>1
  <2>3. q >= y + 1 => m * q >= m * y + m
    <3>1. ASSUME q >= y + 1 PROVE m * q >= m * y + m
      <4>1. m * (q - y - 1) >= 0 /\ m * (q - y - 1) = m * q - m * y - m
        BY <3>1
      <4> QED
        BY <4>1
    <3> QED
      BY <3>1
  <2>4. PICK mq \in Int, my \in Int : mq = m * q /\ my = m * y
    OBVIOUS
  <2> QED
    BY <1>3, <2>1, <2>2, <2>3, <2>4
<1>6. MulOverflowLimbs(a, b) = Len(b) /\ Len(b) \in Nat /\ y < Pow(B, Len(b)) /\ Pow(B, Len(b)) \in Nat
  <2>1. Len(b) \in Nat /\ NNLimbs \in Nat /\ Value(b) < Pow(B, Len(b)) /\ Pow(B, Len(b)) \in Nat
    BY ValueNat, ModulusIs
  <2> QED
    BY <1>1, <1>a, <2>1 DEF MulOverflowLimbs
<1>7. o \in Seq(Word) /\ Value(o) = q
  <2>1. q \in 0 .. Pow(B, Len(b)) - 1
    BY <1>5, <1>6
  <2> QED
    BY <1>4, <1>6, <2>1, ResizedIs
<1>8. ElementLimbs(r) /\ Value(r) = z /\ r \in Seq(Word)
  <2>1. z \in 0 .. Modulus
    BY <1>0
  <2> QED
    BY <1>4, <2>1, ResizedElement DEF ElementLimbs
<1>9. ASSUME Value(a) < Modulus PROVE MulNonnative(a, b, r, o)
  <2>1. x * y = z + m * q
    BY <1>2, <1>3
  <2>2. Value(a) * Value(b) = Value(r) + Modulus * Value(o)
    BY <1>0, <1>1, <1>7, <1>8, <1>9, <2>1
  <2> QED
    BY <1>7, <1>8, <1>a, <2>2, MulNonnativeIs
<1> QED
  BY <1>7, <1>8, <1>9

\* Inverses.
LEMMA InverseSound ==
    ASSUME NEW a, NEW v, Holds(a, v), NEW r \in Seq(Word), NEW div \in Seq(Word), InvNonnative(a, r, div)
    PROVE  FieldInverse(v) \in Int /\ Value(r) % Modulus = FieldInverse(v) % Modulus
<1>1. PICK x \in Nat, m \in Nat \ {0} : x = Value(a) /\ m = Modulus /\ v = x % m
  BY HoldsNumbers
<1>2. PICK y \in Nat, k \in Nat : y = Value(r) /\ k = Value(div)
  BY ValueNat
<1>3. a \in Seq(Word)
  BY DEF Holds, ElementLimbs
<1>4. x * y = m * k + 1
  <2>1. Value(a) * Value(r) = Modulus * Value(div) + 1
    BY <1>3, InvNonnativeIs
  <2> QED
    BY <1>1, <1>2, <2>1
<1>5. FieldInverse(x % Modulus) = y % Modulus
  <2>1. x \in Int /\ y \in Int /\ k \in Int /\ x * y = Modulus * k + 1
    BY <1>1, <1>4
  <2> QED
    BY <2>1, InverseResidue
<1>6. y % m \in 0 .. m - 1
  BY ModRange
<1>7. (y % m) % m = y % m
  BY <1>6, ModSmall
<1> QED
  BY <1>1, <1>2, <1>5, <1>6, <1>7

LEMMA InverseGenerated ==
    ASSUME NEW a, ElementLimbs(a), Reduced(a) # 0,
           NEW g, g = InvGenerator(a), NEW r, r = Resized(g[1], NNLimbs), NEW d, d = Resized(g[2], NNLimbs)
    PROVE  /\ ElementLimbs(r) /\ d \in Seq(Word)
           /\ Value(a) < Modulus => InvNonnative(a, r, d)
<1>0. PICK m \in Nat \ {0} : m = Modulus /\ m < Pow(B, NNLimbs)
  BY ModulusIs
<1>a. a \in Seq(Word)
  BY DEF ElementLimbs
<1>1. PICK x \in 0 .. m - 1 : x = Reduced(a) /\ (Value(a) < Modulus => x = Value(a)) /\ x # 0
  BY <1>0, <1>a, ReducedIs
<1>2. PICK y \in 0 .. m - 1 : y = FieldInverse(x) /\ (x * y) % m = 1
  <2>1. x \in Elements
    BY <1>0 DEF Elements
  <2> QED
    BY <1>0, <1>1, <2>1, InverseExists DEF Elements
<1>3. PICK w \in Nat : w = x * y
  OBVIOUS
<1>4. PICK q \in Int, z \in 0 .. m - 1 : w = m * q + z /\ w % m = z /\ w \div m = q
  BY ModDiv
<1>5. g[1] = y /\ g[2] = q /\ z = 1
  BY <1>0, <1>1, <1>2, <1>3, <1>4 DEF InvGenerator
<1>6. q \in 0 .. y
  <2>1. q <= -1 => m * q <= -m
    OBVIOUS
  <2>2. w <= m * y
    <3>1. (m - x) * y >= 0 /\ (m - x) * y = m * y - x * y
      OBVIOUS
    <3> QED
      BY <1>3, <3>1
  <2>3. q >= y + 1 => m * q >= m * y + m
    <3>1. ASSUME q >= y + 1 PROVE m * q >= m * y + m
      <4>1. m * (q - y - 1) >= 0 /\ m * (q - y - 1) = m * q - m * y - m
        BY <3>1
      <4> QED
        BY <4>1
    <3> QED
      BY <3>1
  <2>4. PICK mq \in Int, my \in Int : mq = m * q /\ my = m * y
    OBVIOUS
  <2> QED
    BY <1>4, <2>1, <2>2, <2>3, <2>4
<1>7. d \in Seq(Word) /\ Value(d) = q
  <2>1. q \in 0 .. Modulus
    BY <1>0, <1>6
  <2> QED
    BY <1>5, <2>1, ResizedElement DEF ElementLimbs
<1>8. ElementLimbs(r) /\ Value(r) = y /\ r \in Seq(Word)
  <2>1. y \in 0 .. Modulus
    BY <1>0
  <2> QED
    BY <1>5, <2>1, ResizedElement DEF ElementLimbs
<1>9. ASSUME Value(a) < Modulus PROVE InvNonnative(a, r, d)
  <2>1. x * y = m * q + 1
    BY <1>3, <1>4, <1>5
  <2>2. Value(a) * Value(r) = Modulus * Value(d) + 1
    BY <1>0, <1>1, <1>7, <1>8, <1>9, <2>1
  <2> QED
    BY <1>7, <1>8, <1>a, <2>2, InvNonnativeIs
<1> QED
  BY <1>7, <1>8, <1>9

\* reduce.
LEMMA ReduceSound ==
    ASSUME NEW a, NEW v, Holds(a, v), NEW div \in Seq(Word), NEW rem \in Seq(Word),
           DivRemConstraints(a, ModulusLimbs, div, rem)
    PROVE  Value(rem) % Modulus = v % Modulus
<1>1. PICK x \in Nat, m \in Nat \ {0} : x = Value(a) /\ m = Modulus /\ v = x % m
  BY HoldsNumbers
<1>2. PICK z \in Nat, k \in Nat : z = Value(rem) /\ k = Value(div)
  BY ValueNat
<1>3. a \in Seq(Word)
  BY DEF Holds, ElementLimbs
<1>4. x = k * m + z
  <2>1. Value(a) = Value(div) * Modulus + Value(rem)
    BY <1>3, DivRemIs
  <2> QED
    BY <1>1, <1>2, <2>1
<1>5. (m * k + z) % m = z % m
  <2>1. k \in Int /\ z \in Int
    OBVIOUS
  <2> QED
    BY <2>1, ModShift, Zenon
<1>6. m * k + z = x
  BY <1>4
<1>7. x % m \in 0 .. m - 1
  BY ModRange
<1>8. (x % m) % m = x % m
  BY <1>7, ModSmall
<1> QED
  BY <1>1, <1>2, <1>5, <1>6, <1>8

\* The quotient has one limb, which is enough for any limbs of an element.
LEMMA ReduceGenerated ==
    ASSUME NEW a, ElementLimbs(a), NEW g, g = DivRemGenerator(a, ModulusLimbs),
           NEW r, r = Resized(g[2], NNLimbs), NEW d, d = Resized(g[1], DivLimbs(a, ModulusLimbs))
    PROVE  ElementLimbs(r) /\ d \in Seq(Word) /\ DivRemConstraints(a, ModulusLimbs, d, r)
<1>0. PICK m \in Nat \ {0}, p \in Nat \ {0}, base \in Nat \ {0} :
         m = Modulus /\ p = Pow(B, NNLimbs - 1) /\ base = B /\ m >= p /\ Pow(B, NNLimbs) = base * p
  BY ModulusIs, WordIs
<1>a. a \in Seq(Word) /\ Len(a) = NNLimbs
  BY DEF ElementLimbs
<1>1. PICK x \in Nat : x = Value(a) /\ x < base * p
  BY <1>0, <1>a, ValueNat
<1>2. PICK q \in Int, z \in 0 .. m - 1 : x = m * q + z /\ x % m = z /\ x \div m = q
  BY ModDiv
<1>3. g[1] = q /\ g[2] = z
  BY <1>0, <1>1, <1>2, ModulusIs DEF DivRemGenerator
<1>4. q \in 0 .. base - 1
  <2>1. q <= -1 => m * q <= -m
    OBVIOUS
  <2>2. ASSUME q >= base PROVE FALSE
    <3>1. m * (q - base) >= 0 /\ m * (q - base) = m * q - m * base
      BY <2>2
    <3>2. (m - p) * base >= 0 /\ (m - p) * base = m * base - base * p
      BY <1>0
    <3>3. PICK mq \in Int, mb \in Int, bp \in Int : mq = m * q /\ mb = m * base /\ bp = base * p
      OBVIOUS
    <3> QED
      BY <1>1, <1>2, <3>1, <3>2, <3>3
  <2> QED
    BY <1>2, <2>1, <2>2
<1>5. DivLimbs(a, ModulusLimbs) = 1
  BY <1>a, ModulusIs DEF DivLimbs
<1>6. Pow(B, 1) = base
  <2>1. B \in Int /\ 0 \in Nat /\ 0 + 1 = 1
    BY WordIs
  <2>2. Pow(B, 0) = 1
    BY <2>1, PowZero
  <2>3. Pow(B, 0 + 1) = B * Pow(B, 0)
    BY <2>1, PowStep
  <2> QED
    BY <1>0, <2>1, <2>2, <2>3
<1>7. d \in Seq(Word) /\ Value(d) = q
  <2>1. q \in 0 .. Pow(B, 1) - 1 /\ 1 \in Nat
    BY <1>4, <1>6
  <2> QED
    BY <1>3, <1>5, <2>1, ResizedIs
<1>8. ElementLimbs(r) /\ Value(r) = z /\ r \in Seq(Word)
  <2>1. z \in 0 .. Modulus
    BY <1>0
  <2> QED
    BY <1>3, <2>1, ResizedElement DEF ElementLimbs
<1>9. Value(a) = Value(d) * Modulus + Value(r) /\ Value(r) < Modulus
  <2>1. x = q * m + z /\ z < m
    BY <1>2
  <2> QED
    BY <1>0, <1>1, <1>7, <1>8, <2>1
<1> QED
  BY <1>7, <1>8, <1>9, <1>a, DivRemIs

\* if_nonnative: the sum of one operand and zero.
LEMMA SelectSound ==
    ASSUME NEW a, NEW v, Holds(a, v), NEW b \in Seq(Word), NEW bit \in Bit, NEW r \in Seq(Word),
           NEW overflow \in Bit, AddNonnative(Mask(a, bit), Mask(b, 1 - bit), r, overflow)
    PROVE  Value(r) % Modulus = (IF bit = 1 THEN v ELSE Value(b)) % Modulus
<1>1. PICK x \in Nat, m \in Nat \ {0} : x = Value(a) /\ m = Modulus /\ v = x % m
  BY HoldsNumbers
<1>2. PICK y \in Nat, z \in Nat, k \in Int : y = Value(b) /\ z = Value(r) /\ k = overflow
  BY ValueNat DEF Bit
<1>3. a \in Seq(Word) /\ 1 - bit \in Bit
  BY DEF Holds, ElementLimbs, Bit
<1>4. bit * x + (1 - bit) * y = z + k * m
  <2>1. PICK s \in Seq(Word), t \in Seq(Word) :
           s = Mask(a, bit) /\ t = Mask(b, 1 - bit)
           /\ Value(s) = bit * Value(a) /\ Value(t) = (1 - bit) * Value(b)
    BY <1>3, MaskIs
  <2>2. Value(s) + Value(t) = Value(r) + overflow * Modulus
    BY <2>1, AddNonnativeIs
  <2> QED
    BY <1>1, <1>2, <2>1, <2>2
<1>5. (m * k + z) % m = z % m
  <2>1. k \in Int /\ z \in Int
    OBVIOUS
  <2> QED
    BY <2>1, ModShift, Zenon
<1>6. x % m \in 0 .. m - 1
  BY ModRange
<1>7. (x % m) % m = x % m
  BY <1>6, ModSmall
<1>8. CASE bit = 1
  <2>1. x = m * k + z
    BY <1>4, <1>8
  <2> QED
    BY <1>1, <1>2, <1>5, <1>7, <1>8, <2>1
<1>9. CASE bit = 0
  <2>1. y = m * k + z
    BY <1>4, <1>9
  <2> QED
    BY <1>1, <1>2, <1>5, <1>9, <2>1
<1> QED
  BY <1>8, <1>9 DEF Bit

(***************************************************************************)
(* Non-native arithmetic: the chain.                                       *)
(***************************************************************************)
NNInv ==
  /\ ElementLimbs(operand)
  /\ residue \in Elements
  /\ ChainComputesResidue
  /\ RejectedOnlyUnreduced

LEMMA ChainHolds ==
    ASSUME NNInv, Ready
    PROVE  Holds(operand, residue) /\ residue \in Int /\ operand \in Seq(Word) /\ Len(operand) = NNLimbs
           /\ Value(operand) \in Nat
<1>1. Holds(operand, residue)
  BY DEF NNInv, Ready, Holds, ChainComputesResidue
<1>2. residue \in Int /\ operand \in Seq(Word) /\ Len(operand) = NNLimbs
  BY ModulusIs DEF NNInv, ElementLimbs, Elements
<1> QED
  BY <1>1, <1>2, ValueNat

LEMMA FillKeeps ==
    ASSUME NEW by, NEW outcome, NEW r, ElementLimbs(r), NEW value \in Int, NEW unreduced \in BOOLEAN,
           Fill(by, outcome, r, value, unreduced),
           outcome = "accepted" => Value(r) % Modulus = value % Modulus,
           outcome = "rejected" => unreduced
    PROVE  NNInv'
<1>1. operand' = r /\ residue' = value % Modulus
      /\ filled' = [by |-> by, outcome |-> outcome, unreduced |-> unreduced]
  BY DEF Fill
<1>2. filled'.outcome = outcome /\ filled'.unreduced = unreduced
  BY <1>1
<1>3. ElementLimbs(operand)'
  BY <1>1 DEF ElementLimbs
<1>4. (residue \in Elements)'
  BY <1>1, ModulusIs, ModRange DEF Elements
<1>5. ChainComputesResidue'
  BY <1>1, <1>2 DEF ChainComputesResidue
<1>6. RejectedOnlyUnreduced'
  BY <1>2 DEF RejectedOnlyUnreduced
<1> QED
  BY <1>3, <1>4, <1>5, <1>6 DEF NNInv

LEMMA GeneratedKeeps ==
    ASSUME NEW r, ElementLimbs(r), NEW accepted \in BOOLEAN, NEW value \in Int, NEW used,
           Generated(r, accepted, value, used),
           accepted => Value(r) % Modulus = value % Modulus,
           accepted \/ \E a \in used : Value(a) >= Modulus
    PROVE  NNInv'
<1>1. PICK outcome : outcome = IF accepted THEN "accepted" ELSE "rejected"
  OBVIOUS
<1>2. PICK unreduced \in BOOLEAN : unreduced = \E a \in used : Value(a) >= Modulus
  OBVIOUS
<1>3. Fill("generator", outcome, r, value, unreduced)
  BY <1>1, <1>2 DEF Generated
<1>4. outcome = "accepted" => Value(r) % Modulus = value % Modulus
  BY <1>1
<1>5. outcome = "rejected" => unreduced
  BY <1>1, <1>2
<1> QED
  BY <1>3, <1>4, <1>5, FillKeeps

LEMMA ChosenKeeps ==
    ASSUME NEW r, ElementLimbs(r), NEW value \in Int, Chosen(r, value),
           Value(r) % Modulus = value % Modulus
    PROVE  NNInv'
<1>0. PICK outcome : outcome = "accepted"
  OBVIOUS
<1>1. PICK unreduced \in BOOLEAN : outcome = "accepted" /\ unreduced = FALSE
  BY <1>0
<1>2. Fill("any", outcome, r, value, unreduced)
  BY <1>1 DEF Chosen
<1>3. outcome # "rejected"
  BY <1>1
<1> QED
  BY <1>2, <1>3, FillKeeps

LEMMA PanicsKeeps ==
    ASSUME NNInv, Ready, Panics
    PROVE  NNInv'
<1>0. PICK outcome : outcome = "panic"
  OBVIOUS
<1>1. PICK unreduced \in BOOLEAN : outcome = "panic" /\ unreduced = FALSE
  BY <1>0
<1>2. Fill("generator", outcome, operand, residue, unreduced)
  BY <1>1 DEF Panics
<1>3. outcome # "rejected" /\ outcome # "accepted"
  BY <1>1
<1>4. ElementLimbs(operand) /\ residue \in Int
  BY ChainHolds DEF NNInv
<1> QED
  BY <1>2, <1>3, <1>4, FillKeeps

\* The disjuncts of GenerateRow.
GenerateSum(b) ==
  LET g == AddGenerator(operand, b) r == Resized(g[1], NNLimbs)
  IN Generated(r, AddNonnative(operand, b, r, g[2]), residue + Value(b), {operand})

GenerateDifference(b) ==
  LET g == SubGenerator(operand, b) r == Resized(g[1], NNLimbs)
  IN Generated(r, SubNonnative(operand, b, r, g[2]), residue - Value(b), {operand})

GenerateProduct(b) ==
  LET g == MulGenerator(operand, b) r == Resized(g[1], NNLimbs)
  IN Generated(r, MulNonnative(operand, b, r, Resized(g[2], MulOverflowLimbs(operand, b))),
               residue * Value(b), {operand})

GenerateSelection(b, bit) ==
  LET x == Mask(operand, bit) y == Mask(b, 1 - bit)
      g == AddGenerator(x, y) r == Resized(g[1], NNLimbs)
  IN Generated(r, AddNonnative(x, y, r, g[2]), IF bit = 1 THEN residue ELSE Value(b), {x})

GenerateSums(b) ==
  LET s == <<operand, b, b>> g == MultipleAddsGenerator(s) r == Resized(g[1], NNLimbs)
  IN IF g[2] = 0 THEN Panics
     ELSE Generated(r, AddManyNonnative(s, r, g[2]), residue + 2 * Value(b), {operand})

LEMMA SumKeeps ==
    ASSUME NNInv, Ready, NEW b \in Constants, GenerateSum(b)
    PROVE  NNInv'
<1>1. Holds(operand, residue) /\ residue \in Int /\ operand \in Seq(Word) /\ Value(operand) \in Nat
  BY ChainHolds
<1>2. b \in Seq(Word) /\ Value(b) \in Int /\ Value(b) < Modulus /\ Modulus \in Nat
  BY ConstantsAre, ModulusIs DEF Elements
<1>3. PICK g : g = AddGenerator(operand, b)
  OBVIOUS
<1>4. PICK r : r = Resized(g[1], NNLimbs)
  OBVIOUS
<1>5. PICK accepted \in BOOLEAN : accepted = AddNonnative(operand, b, r, g[2])
  BY DEF AddNonnative
<1>6. Generated(r, accepted, residue + Value(b), {operand})
  BY <1>3, <1>4, <1>5 DEF GenerateSum
<1>7. ElementLimbs(r) /\ g[2] \in Bit /\ r \in Seq(Word) /\ (Value(operand) < Modulus => accepted)
  BY <1>1, <1>2, <1>3, <1>4, <1>5, AddGenerated DEF ElementLimbs
<1>8. accepted => Value(r) % Modulus = (residue + Value(b)) % Modulus
  BY <1>1, <1>2, <1>5, <1>7, SumSound
<1>9. accepted \/ \E a \in {operand} : Value(a) >= Modulus
  BY <1>1, <1>2, <1>7
<1>10. residue + Value(b) \in Int
  BY <1>1, <1>2
<1> QED
  BY <1>6, <1>7, <1>8, <1>9, <1>10, GeneratedKeeps

LEMMA DifferenceKeeps ==
    ASSUME NNInv, Ready, NEW b \in Constants, GenerateDifference(b)
    PROVE  NNInv'
<1>1. Holds(operand, residue) /\ residue \in Int /\ operand \in Seq(Word) /\ Value(operand) \in Nat
      /\ Len(operand) <= NNLimbs
  BY ChainHolds, ModulusIs
<1>2. b \in Seq(Word) /\ Value(b) \in Int /\ Value(b) < Modulus /\ Modulus \in Nat
  BY ConstantsAre, ModulusIs DEF Elements
<1>3. PICK g : g = SubGenerator(operand, b)
  OBVIOUS
<1>4. PICK r : r = Resized(g[1], NNLimbs)
  OBVIOUS
<1>5. PICK accepted \in BOOLEAN : accepted = SubNonnative(operand, b, r, g[2])
  BY DEF SubNonnative, ConnectBiguint
<1>6. Generated(r, accepted, residue - Value(b), {operand})
  BY <1>3, <1>4, <1>5 DEF GenerateDifference
<1>7. ElementLimbs(r) /\ g[2] \in Bit /\ (Value(operand) < Modulus => accepted)
  BY <1>1, <1>2, <1>3, <1>4, <1>5, DifferenceGenerated
<1>8. accepted => Value(r) % Modulus = (residue - Value(b)) % Modulus
  BY <1>1, <1>2, <1>5, <1>7, DifferenceSound
<1>9. accepted \/ \E a \in {operand} : Value(a) >= Modulus
  BY <1>1, <1>2, <1>7
<1>10. residue - Value(b) \in Int
  BY <1>1, <1>2
<1> QED
  BY <1>6, <1>7, <1>8, <1>9, <1>10, GeneratedKeeps

LEMMA ProductKeeps ==
    ASSUME NNInv, Ready, NEW b \in Constants, GenerateProduct(b)
    PROVE  NNInv'
<1>1. Holds(operand, residue) /\ residue \in Int /\ Value(operand) \in Nat /\ ElementLimbs(operand)
  BY ChainHolds DEF Holds
<1>2. b \in Seq(Word) /\ Value(b) \in Int /\ Value(b) < Modulus /\ Modulus \in Nat
  BY ConstantsAre, ModulusIs DEF Elements
<1>3. PICK g : g = MulGenerator(operand, b)
  OBVIOUS
<1>4. PICK r, o : r = Resized(g[1], NNLimbs) /\ o = Resized(g[2], MulOverflowLimbs(operand, b))
  OBVIOUS
<1>5. PICK accepted \in BOOLEAN : accepted = MulNonnative(operand, b, r, o)
  BY DEF MulNonnative, ConnectBiguint
<1>6. Generated(r, accepted, residue * Value(b), {operand})
  BY <1>3, <1>4, <1>5 DEF GenerateProduct
<1>7. ElementLimbs(r) /\ r \in Seq(Word) /\ o \in Seq(Word) /\ (Value(operand) < Modulus => accepted)
  BY <1>1, <1>2, <1>3, <1>4, <1>5, ProductGenerated DEF ElementLimbs
<1>8. accepted => Value(r) % Modulus = (residue * Value(b)) % Modulus
  <2>1. ASSUME accepted PROVE Value(r) % Modulus = (residue * Value(b)) % Modulus
    <3>1. MulNonnative(operand, b, r, o)
      BY <1>5, <2>1
    <3> QED
      BY <1>1, <1>2, <1>7, <3>1, ProductSound, ZenonT(30)
  <2> QED
    BY <2>1
<1>9. accepted \/ \E a \in {operand} : Value(a) >= Modulus
  BY <1>1, <1>2, <1>7
<1>10. residue * Value(b) \in Int
  BY <1>1, <1>2
<1> QED
  BY <1>6, <1>7, <1>8, <1>9, <1>10, GeneratedKeeps

LEMMA SelectionKeeps ==
    ASSUME NNInv, Ready, NEW b \in Constants, NEW bit \in Bit, GenerateSelection(b, bit)
    PROVE  NNInv'
<1>1. Holds(operand, residue) /\ residue \in Int /\ operand \in Seq(Word) /\ Value(operand) \in Nat
  BY ChainHolds
<1>2. b \in Seq(Word) /\ Value(b) \in Nat /\ Value(b) < Modulus /\ Modulus \in Nat \ {0}
  BY ConstantsAre, ModulusIs DEF Elements
<1>3. PICK x, y : x = Mask(operand, bit) /\ y = Mask(b, 1 - bit)
  OBVIOUS
<1>4. x \in Seq(Word) /\ y \in Seq(Word) /\ Value(x) \in Nat /\ Value(y) < Modulus
  <2>1. 1 - bit \in Bit
    BY DEF Bit
  <2>2. x \in Seq(Word) /\ y \in Seq(Word) /\ Value(y) = (1 - bit) * Value(b)
    BY <1>1, <1>2, <1>3, <2>1, MaskIs
  <2>3. Value(y) \in {0, Value(b)}
    BY <1>2, <2>2 DEF Bit
  <2> QED
    BY <1>2, <2>2, <2>3, ValueNat
<1>5. PICK g : g = AddGenerator(x, y)
  OBVIOUS
<1>6. PICK r : r = Resized(g[1], NNLimbs)
  OBVIOUS
<1>7. PICK accepted \in BOOLEAN : accepted = AddNonnative(x, y, r, g[2])
  BY DEF AddNonnative
<1>8. PICK value : value = IF bit = 1 THEN residue ELSE Value(b)
  OBVIOUS
<1>9. Generated(r, accepted, value, {x})
  BY <1>3, <1>5, <1>6, <1>7, <1>8 DEF GenerateSelection
<1>10. ElementLimbs(r) /\ r \in Seq(Word) /\ g[2] \in Bit /\ (Value(x) < Modulus => accepted)
  BY <1>4, <1>5, <1>6, <1>7, AddGenerated DEF ElementLimbs
<1>11. accepted => Value(r) % Modulus = value % Modulus
  BY <1>1, <1>2, <1>3, <1>7, <1>8, <1>10, SelectSound
<1>12. accepted \/ \E a \in {x} : Value(a) >= Modulus
  BY <1>2, <1>4, <1>10
<1>13. value \in Int
  BY <1>1, <1>2, <1>8
<1> QED
  BY <1>9, <1>10, <1>11, <1>12, <1>13, GeneratedKeeps

LEMMA SumsKeeps ==
    ASSUME NNInv, Ready, NEW b \in Constants, GenerateSums(b)
    PROVE  NNInv'
<1>1. Holds(operand, residue) /\ residue \in Int /\ operand \in Seq(Word) /\ Value(operand) \in Nat
  BY ChainHolds
<1>2. b \in Seq(Word) /\ Value(b) \in Int /\ Value(b) < Modulus /\ Modulus \in Nat
  BY ConstantsAre, ModulusIs DEF Elements
<1>3. PICK g : g = MultipleAddsGenerator(<<operand, b, b>>)
  OBVIOUS
<1>4. PICK r : r = Resized(g[1], NNLimbs)
  OBVIOUS
<1>5. PICK accepted \in BOOLEAN : accepted = AddManyNonnative(<<operand, b, b>>, r, g[2])
  BY DEF AddManyNonnative
<1>6. CASE g[2] = 0
  <2>1. Panics
    BY <1>3, <1>6 DEF GenerateSums
  <2> QED
    BY <2>1, PanicsKeeps
<1>7. CASE g[2] # 0
  <2>1. Generated(r, accepted, residue + 2 * Value(b), {operand})
    BY <1>3, <1>4, <1>5, <1>7 DEF GenerateSums
  <2>2. ElementLimbs(r) /\ r \in Seq(Word) /\ g[2] \in Word /\ (Value(operand) < Modulus => accepted)
    BY <1>1, <1>2, <1>3, <1>4, <1>5, SumsGenerated DEF ElementLimbs
  <2>3. accepted => Value(r) % Modulus = (residue + 2 * Value(b)) % Modulus
    BY <1>1, <1>2, <1>5, <2>2, SumsSound
  <2>4. accepted \/ \E a \in {operand} : Value(a) >= Modulus
    BY <1>1, <1>2, <2>2
  <2>5. residue + 2 * Value(b) \in Int
    BY <1>1, <1>2
  <2> QED
    BY <2>1, <2>2, <2>3, <2>4, <2>5, GeneratedKeeps
<1> QED
  BY <1>6, <1>7

LEMMA GenerateRowKeeps ==
    ASSUME NNInv, GenerateRow
    PROVE  NNInv'
<1>1. Ready
  BY DEF GenerateRow
<1>2. PICK b \in Constants :
        \/ GenerateSum(b) \/ GenerateDifference(b) \/ GenerateProduct(b)
        \/ \E bit \in Bit : GenerateSelection(b, bit)
        \/ GenerateSums(b)
  BY Zenon DEF GenerateRow, GenerateSum, GenerateDifference, GenerateProduct, GenerateSelection, GenerateSums
<1> QED
  BY <1>1, <1>2, SumKeeps, DifferenceKeeps, ProductKeeps, SelectionKeeps, SumsKeeps

\* The disjuncts of GenerateUnaryRow.
GenerateNegation ==
  LET g == SubGenerator(<<>>, operand) r == Resized(g[1], NNLimbs)
  IN Generated(r, SubNonnative(<<>>, operand, r, g[2]), 0 - residue, {operand})

GenerateInverse ==
  IF Reduced(operand) = 0 THEN Panics
  ELSE LET g == InvGenerator(operand) n == Len(operand) r == Resized(g[1], n)
       IN Generated(r, InvNonnative(operand, r, Resized(g[2], n)), FieldInverse(residue), {operand})

GenerateReduced ==
  LET g == DivRemGenerator(operand, ModulusLimbs) r == Resized(g[2], NNLimbs)
  IN Generated(r, DivRemConstraints(operand, ModulusLimbs,
                                    Resized(g[1], DivLimbs(operand, ModulusLimbs)), r),
               residue, {})

LEMMA NegationKeeps ==
    ASSUME NNInv, Ready, GenerateNegation
    PROVE  NNInv'
<1>1. Holds(operand, residue) /\ residue \in Int /\ operand \in Seq(Word) /\ Value(operand) \in Nat
      /\ Modulus \in Nat \ {0}
  BY ChainHolds, ModulusIs
<1>2. PICK e : e = <<>> /\ e \in Seq(Word) /\ Value(e) = 0 /\ Len(e) = 0
  BY NoLimbs, Zenon
<1>3. PICK g : g = SubGenerator(e, operand)
  OBVIOUS
<1>4. PICK r : r = Resized(g[1], NNLimbs)
  OBVIOUS
<1>5. PICK accepted \in BOOLEAN : accepted = SubNonnative(e, operand, r, g[2])
  BY DEF SubNonnative, ConnectBiguint
<1>6. Generated(r, accepted, 0 - residue, {operand})
  BY <1>2, <1>3, <1>4, <1>5, Zenon DEF GenerateNegation
<1>7. ElementLimbs(r) /\ g[2] \in Bit /\ (Value(operand) < Modulus => accepted)
  <2>1. Len(e) <= NNLimbs /\ Value(e) < Modulus
    BY <1>1, <1>2, ModulusIs
  <2> QED
    BY <1>1, <1>2, <1>3, <1>4, <1>5, <2>1, DifferenceGenerated
<1>8. accepted => Value(r) % Modulus = (0 - residue) % Modulus
  <2>1. ASSUME accepted PROVE Value(r) % Modulus = (0 - residue) % Modulus
    <3>1. SubNonnative(<<>>, operand, r, g[2])
      BY <1>2, <1>5, <2>1, Zenon
    <3> QED
      BY <1>1, <1>7, <3>1, NegationSound, Zenon
  <2> QED
    BY <2>1
<1>9. accepted \/ \E a \in {operand} : Value(a) >= Modulus
  BY <1>1, <1>7
<1>10. 0 - residue \in Int
  BY <1>1
<1> QED
  BY <1>6, <1>7, <1>8, <1>9, <1>10, GeneratedKeeps

LEMMA InverseKeeps ==
    ASSUME NNInv, Ready, GenerateInverse
    PROVE  NNInv'
<1>1. Holds(operand, residue) /\ residue \in Elements /\ operand \in Seq(Word) /\ Value(operand) \in Nat
      /\ Modulus \in Nat /\ ElementLimbs(operand) /\ Len(operand) = NNLimbs
  BY ChainHolds, ModulusIs DEF Holds
<1>2. CASE Reduced(operand) = 0
  <2>1. Panics
    BY <1>2 DEF GenerateInverse
  <2> QED
    BY <2>1, PanicsKeeps
<1>3. CASE Reduced(operand) # 0
  <2>1. PICK g : g = InvGenerator(operand)
    OBVIOUS
  <2>2. PICK r, d : r = Resized(g[1], NNLimbs) /\ d = Resized(g[2], NNLimbs)
    OBVIOUS
  <2>3. PICK accepted \in BOOLEAN : accepted = InvNonnative(operand, r, d)
    BY DEF InvNonnative, ConnectBiguint
  <2>4. Generated(r, accepted, FieldInverse(residue), {operand})
    BY <1>1, <1>3, <2>1, <2>2, <2>3 DEF GenerateInverse
  <2>5. ElementLimbs(r) /\ r \in Seq(Word) /\ d \in Seq(Word) /\ (Value(operand) < Modulus => accepted)
    BY <1>1, <1>3, <2>1, <2>2, <2>3, InverseGenerated DEF ElementLimbs
  <2>6. accepted => Value(r) % Modulus = FieldInverse(residue) % Modulus
    BY <1>1, <2>3, <2>5, InverseSound
  <2>7. accepted \/ \E a \in {operand} : Value(a) >= Modulus
    BY <1>1, <2>5
  <2>8. FieldInverse(residue) \in Int
    <3>1. residue # 0
      BY <1>1, <1>3 DEF Holds, Reduced
    <3> QED
      BY <1>1, <3>1, InverseExists DEF Elements
  <2> QED
    BY <2>4, <2>5, <2>6, <2>7, <2>8, GeneratedKeeps
<1> QED
  BY <1>2, <1>3

LEMMA ReducedKeeps ==
    ASSUME NNInv, Ready, GenerateReduced
    PROVE  NNInv'
<1>1. Holds(operand, residue) /\ residue \in Int /\ ElementLimbs(operand)
  BY ChainHolds DEF Holds
<1>2. PICK g : g = DivRemGenerator(operand, ModulusLimbs)
  OBVIOUS
<1>3. PICK r, d : r = Resized(g[2], NNLimbs) /\ d = Resized(g[1], DivLimbs(operand, ModulusLimbs))
  OBVIOUS
<1>4. PICK accepted \in BOOLEAN : accepted = DivRemConstraints(operand, ModulusLimbs, d, r)
  BY DEF DivRemConstraints
<1>5. Generated(r, accepted, residue, {})
  BY <1>2, <1>3, <1>4 DEF GenerateReduced
<1>6. ElementLimbs(r) /\ r \in Seq(Word) /\ d \in Seq(Word) /\ accepted
  BY <1>1, <1>2, <1>3, <1>4, ReduceGenerated DEF ElementLimbs
<1>7. Value(r) % Modulus = residue % Modulus
  BY <1>1, <1>4, <1>6, ReduceSound
<1> QED
  BY <1>1, <1>5, <1>6, <1>7, GeneratedKeeps

LEMMA GenerateUnaryRowKeeps ==
    ASSUME NNInv, GenerateUnaryRow
    PROVE  NNInv'
<1>1. Ready /\ (GenerateNegation \/ GenerateInverse \/ GenerateReduced)
  BY Zenon DEF GenerateUnaryRow, GenerateNegation, GenerateInverse, GenerateReduced
<1> QED
  BY <1>1, NegationKeeps, InverseKeeps, ReducedKeeps

LEMMA ChooseRowKeeps ==
    ASSUME NNInv, ChooseRow
    PROVE  NNInv'
<1>0. Ready
  BY DEF ChooseRow
<1>1. Holds(operand, residue) /\ residue \in Int /\ Len(operand) = NNLimbs /\ NNLimbs \in Nat
  BY <1>0, ChainHolds, ModulusIs
<1>2. PICK b \in AllLimbs(NNLimbs), r \in AllLimbs(NNLimbs) :
       \/ \E overflow \in Bit :
            AddNonnative(operand, b, r, overflow) /\ Chosen(r, residue + Value(b))
       \/ \E overflow \in Bit :
            SubNonnative(operand, b, r, overflow) /\ Chosen(r, residue - Value(b))
       \/ \E overflow \in AllLimbs(MulOverflowLimbs(operand, b)) :
            MulNonnative(operand, b, r, overflow) /\ Chosen(r, residue * Value(b))
       \/ \E overflow \in Word :
            AddManyNonnative(<<operand, b, b>>, r, overflow) /\ Chosen(r, residue + 2 * Value(b))
  BY Zenon DEF ChooseRow
<1>3. /\ b \in Seq(Word) /\ Len(b) = NNLimbs /\ Value(b) \in Nat
      /\ ElementLimbs(r) /\ r \in Seq(Word)
  BY <1>1, AllLimbsAre, ValueNat DEF ElementLimbs
<1>4. residue + Value(b) \in Int /\ residue - Value(b) \in Int /\ residue * Value(b) \in Int
      /\ residue + 2 * Value(b) \in Int
  BY <1>1, <1>3
<1>5. ASSUME NEW overflow \in Bit,
             AddNonnative(operand, b, r, overflow) /\ Chosen(r, residue + Value(b))
      PROVE  NNInv'
  <2>1. Value(r) % Modulus = (residue + Value(b)) % Modulus
    BY <1>1, <1>3, <1>5, SumSound, Zenon
  <2> QED
    BY <1>3, <1>4, <1>5, <2>1, ChosenKeeps
<1>6. ASSUME NEW overflow \in Bit,
             SubNonnative(operand, b, r, overflow) /\ Chosen(r, residue - Value(b))
      PROVE  NNInv'
  <2>1. Value(r) % Modulus = (residue - Value(b)) % Modulus
    BY <1>1, <1>3, <1>6, DifferenceSound, Zenon
  <2> QED
    BY <1>3, <1>4, <1>6, <2>1, ChosenKeeps
<1>7. ASSUME NEW overflow \in AllLimbs(MulOverflowLimbs(operand, b)),
             MulNonnative(operand, b, r, overflow) /\ Chosen(r, residue * Value(b))
      PROVE  NNInv'
  <2>1. MulOverflowLimbs(operand, b) \in Nat
    BY <1>1, <1>3 DEF MulOverflowLimbs
  <2>2. overflow \in Seq(Word)
    BY <2>1, AllLimbsAre
  <2>3. Value(r) % Modulus = (residue * Value(b)) % Modulus
    BY <1>1, <1>3, <1>7, <2>2, ProductSound, ZenonT(30)
  <2> QED
    BY <1>3, <1>4, <1>7, <2>3, ChosenKeeps
<1>8. ASSUME NEW overflow \in Word,
             AddManyNonnative(<<operand, b, b>>, r, overflow) /\ Chosen(r, residue + 2 * Value(b))
      PROVE  NNInv'
  <2>1. Value(r) % Modulus = (residue + 2 * Value(b)) % Modulus
    BY <1>1, <1>3, <1>8, SumsSound, Zenon
  <2> QED
    BY <1>3, <1>4, <1>8, <2>1, ChosenKeeps
<1> QED
  BY <1>2, <1>5, <1>6, <1>7, <1>8, Zenon

LEMMA ChooseUnaryRowKeeps ==
    ASSUME NNInv, ChooseUnaryRow
    PROVE  NNInv'
<1>0. Ready
  BY DEF ChooseUnaryRow
<1>1. Holds(operand, residue) /\ residue \in Int /\ Len(operand) = NNLimbs /\ NNLimbs \in Nat
  BY <1>0, ChainHolds, ModulusIs
<1>2. PICK r \in AllLimbs(NNLimbs) :
       \/ \E overflow \in Bit :
            SubNonnative(<<>>, operand, r, overflow) /\ Chosen(r, 0 - residue)
       \/ \E div \in AllLimbs(Len(operand)) :
            InvNonnative(operand, r, div) /\ Chosen(r, FieldInverse(residue))
       \/ \E div \in AllLimbs(DivLimbs(operand, ModulusLimbs)) :
            DivRemConstraints(operand, ModulusLimbs, div, r) /\ Chosen(r, residue)
  BY Zenon DEF ChooseUnaryRow
<1>3. ElementLimbs(r) /\ r \in Seq(Word)
  BY <1>1, AllLimbsAre DEF ElementLimbs
<1>4. ASSUME NEW overflow \in Bit,
             SubNonnative(<<>>, operand, r, overflow) /\ Chosen(r, 0 - residue)
      PROVE  NNInv'
  <2>1. Value(r) % Modulus = (0 - residue) % Modulus
    BY <1>1, <1>3, <1>4, NegationSound, Zenon
  <2>2. 0 - residue \in Int
    BY <1>1
  <2>3. Chosen(r, 0 - residue)
    BY <1>4
  <2> QED
    BY <1>3, <2>1, <2>2, <2>3, ChosenKeeps
<1>5. ASSUME NEW div \in AllLimbs(Len(operand)),
             InvNonnative(operand, r, div) /\ Chosen(r, FieldInverse(residue))
      PROVE  NNInv'
  <2>1. div \in Seq(Word)
    BY <1>1, AllLimbsAre
  <2>2. FieldInverse(residue) \in Int /\ Value(r) % Modulus = FieldInverse(residue) % Modulus
    BY <1>1, <1>3, <1>5, <2>1, InverseSound, Zenon
  <2> QED
    BY <1>3, <1>5, <2>2, ChosenKeeps
<1>6. ASSUME NEW div \in AllLimbs(DivLimbs(operand, ModulusLimbs)),
             DivRemConstraints(operand, ModulusLimbs, div, r) /\ Chosen(r, residue)
      PROVE  NNInv'
  <2>1. DivLimbs(operand, ModulusLimbs) = 1
    BY <1>1, ModulusIs DEF DivLimbs
  <2>2. div \in Seq(Word)
    BY <2>1, AllLimbsAre
  <2>3. Value(r) % Modulus = residue % Modulus
    BY <1>1, <1>3, <1>6, <2>2, ReduceSound, Zenon
  <2> QED
    BY <1>1, <1>3, <1>6, <2>3, ChosenKeeps
<1> QED
  BY <1>2, <1>4, <1>5, <1>6, Zenon

LEMMA ChainStarts ==
    ASSUME NNInit
    PROVE  NNInv
<1>1. PICK v \in Elements : operand = Resized(v, NNLimbs) /\ residue = v
  BY DEF NNInit
<1>2. v \in 0 .. Modulus - 1 /\ v \in 0 .. Modulus /\ Modulus \in Nat \ {0}
  BY ModulusIs DEF Elements
<1>3. ElementLimbs(operand) /\ Value(operand) = v
  BY <1>1, <1>2, ResizedElement
<1>4. v % Modulus = v
  BY <1>2, ModSmall
<1>5. filled.outcome = "accepted"
  BY DEF NNInit
<1> QED
  BY <1>1, <1>3, <1>4, <1>5 DEF NNInv, ChainComputesResidue, RejectedOnlyUnreduced

LEMMA ChainStutters ==
    ASSUME NNInv, UNCHANGED nnVars
    PROVE  NNInv'
BY DEF NNInv, nnVars, ElementLimbs, ChainComputesResidue, RejectedOnlyUnreduced

\* The inductive invariant of a chain of operations on non-native elements
\* (circuits/plonky2_ed25519, gadgets/nonnative.rs).
THEOREM ChainInvariant == NNSpec => []NNInv
<1>1. NNInit => NNInv
  BY ChainStarts
<1>2. NNInv /\ [NNNext]_nnVars => NNInv'
  BY GenerateRowKeeps, GenerateUnaryRowKeeps, ChooseRowKeeps, ChooseUnaryRowKeeps, ChainStutters
     DEF NNNext
<1> QED
  BY <1>1, <1>2, PTL DEF NNSpec

\* Whoever fills the witnesses, and whatever the modulus and the word size,
\* the limbs of an accepted chain stand for the residue the operations
\* compute: the constraints of add_nonnative, add_many_nonnative,
\* sub_nonnative, mul_nonnative, inv_nonnative, neg_nonnative, if_nonnative
\* and reduce are sound.
THEOREM ChainsComputeResidues == NNSpec => []ChainComputesResidue
<1>1. NNInv => ChainComputesResidue
  BY DEF NNInv
<1> QED
  BY <1>1, ChainInvariant, PTL

\* Whatever the modulus and the word size, the constraints reject what a
\* generator writes only where an operand was not reduced.
THEOREM RejectionsAreUnreduced == NNSpec => []RejectedOnlyUnreduced
<1>1. NNInv => RejectedOnlyUnreduced
  BY DEF NNInv
<1> QED
  BY <1>1, ChainInvariant, PTL
=============================================================================
