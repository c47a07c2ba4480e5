---------------------------- MODULE Codec_proofs ----------------------------
(***************************************************************************)
(* Proofs about Codec, for words and digits of any number of bits, any     *)
(* base, frames of any size, any parameters and any values.                *)
(***************************************************************************)
EXTENDS Codec, SequenceTheorems, FiniteSetTheorems, WellFoundedInduction, TLAPS

-----------------------------------------------------------------------------
(* Induction *)

\* A set of natural numbers has a least element.
LEMMA LeastNatural ==
  ASSUME NEW T, T \subseteq Nat, T # {}
  PROVE  \E x \in T : \A y \in T : x <= y
<1> DEFINE Rel == OpToRel(<, Nat)
<1>1. IsWellFoundedOn(Rel, Nat)
  BY NatLessThanWellFounded
<1>2. \A x, y \in Nat : y < x => <<y, x>> \in Rel
  BY DEF OpToRel
<1> HIDE DEF Rel
<1>3. \E x \in T : \A y \in T : ~ (<<y, x>> \in Rel)
  BY <1>1, WFMin
<1>4. PICK x \in T : \A y \in T : ~ (<<y, x>> \in Rel)
  BY <1>3
<1>5. ASSUME NEW y \in T PROVE x <= y
  <2>1. x \in Nat /\ y \in Nat
    OBVIOUS
  <2>2. ~(y < x)
    BY <1>2, <1>4, <2>1
  <2>3. QED
    BY <2>1, <2>2
<1>6. QED
  BY <1>5

\* Induction on a set of numbers, in place of a predicate.
LEMMA SetInduction ==
  ASSUME NEW T, 0 \in T, \A n \in Nat : n \in T => n + 1 \in T
  PROVE  Nat \subseteq T
<1> SUFFICES ASSUME Nat \ T # {} PROVE FALSE
  OBVIOUS
<1>1. PICK x \in Nat \ T : \A y \in Nat \ T : x <= y
  BY LeastNatural
<1>2. x # 0 /\ x - 1 \in Nat
  BY <1>1
<1>3. x - 1 \in T
  BY <1>1, <1>2
<1>4. x - 1 + 1 = x
  BY <1>2
<1>5. QED
  BY <1>1, <1>2, <1>3, <1>4

\* The same up to a bound.
LEMMA BoundedInduction ==
  ASSUME NEW m \in Nat, NEW T, 0 \in T, \A n \in 1 .. m : n - 1 \in T => n \in T
  PROVE  0 .. m \subseteq T
<1> DEFINE U == {n \in Nat : n <= m => n \in T}
<1>1. 0 \in U
  OBVIOUS
<1>2. ASSUME NEW n \in Nat, n \in U PROVE n + 1 \in U
  <2>1. SUFFICES ASSUME n + 1 <= m PROVE n + 1 \in T
    OBVIOUS
  <2>2. n \in T /\ n + 1 \in 1 .. m /\ n + 1 - 1 = n
    BY <1>2, <2>1
  <2>3. QED
    BY <2>2
<1> HIDE DEF U
<1>3. Nat \subseteq U
  BY <1>1, <1>2, SetInduction
<1>4. QED
  BY <1>3 DEF U

\* Downwards from a bound.
LEMMA DownInduction ==
  ASSUME NEW m \in Nat, NEW T, m \in T, \A n \in 1 .. m : n \in T => n - 1 \in T
  PROVE  0 .. m \subseteq T
<1> DEFINE U == {n \in 0 .. m : m - n \in T}
<1>1. 0 \in U
  OBVIOUS
<1>2. ASSUME NEW n \in 1 .. m, n - 1 \in U PROVE n \in U
  <2>1. m - (n - 1) \in T /\ m - (n - 1) \in 1 .. m /\ m - (n - 1) - 1 = m - n /\ n \in 0 .. m
    BY <1>2
  <2>2. QED
    BY <2>1
<1> HIDE DEF U
<1>3. 0 .. m \subseteq U
  BY <1>1, <1>2, BoundedInduction
<1>4. ASSUME NEW n \in 0 .. m PROVE n \in T
  <2>1. m - n \in 0 .. m /\ m - (m - n) = n
    OBVIOUS
  <2>2. m - n \in U
    BY <1>3, <2>1
  <2>3. QED
    BY <2>1, <2>2 DEF U
<1>5. QED
  BY <1>4

-----------------------------------------------------------------------------
(* Loops over numbers *)

\* g holds the values of a loop from c: step[n][x] is what round n makes of x.
IsLoop(g, m, V, c, step) ==
  g \in [0 .. m -> V] /\ g[0] = c /\ \A n \in 1 .. m : g[n] = step[n][g[n - 1]]

\* A loop has values.
LEMMA LoopExists ==
  ASSUME NEW m \in Nat, NEW V, NEW c \in V, NEW step \in [1 .. m -> [V -> V]]
  PROVE  \E g : IsLoop(g, m, V, c, step)
<1> DEFINE Is(g, k) == /\ g \in [0 .. k -> V]
                       /\ g[0] = c
                       /\ \A n \in 1 .. k : g[n] = step[n][g[n - 1]]
           T == {k \in 0 .. m : \E g : Is(g, k)}
<1>1. 0 \in T
  <2>1. Is([n \in 0 .. 0 |-> c], 0) /\ 0 \in 0 .. m
    OBVIOUS
  <2> HIDE DEF Is
  <2>2. QED
    BY <2>1
<1>2. ASSUME NEW k \in 1 .. m, k - 1 \in T PROVE k \in T
  <2>0. \E g : Is(g, k - 1)
    BY <1>2
  <2>1. PICK g : /\ g \in [0 .. k - 1 -> V]
                 /\ g[0] = c
                 /\ \A n \in 1 .. k - 1 : g[n] = step[n][g[n - 1]]
    BY <2>0
  <2> DEFINE h == [n \in 0 .. k |-> IF n = k THEN step[k][g[k - 1]] ELSE g[n]]
  <2>2. g[k - 1] \in V /\ step[k][g[k - 1]] \in V
    BY <2>1
  <2>3. \A n \in 0 .. k - 1 : h[n] = g[n] /\ g[n] \in V
    BY <2>1
  <2>4. h[k] = step[k][g[k - 1]]
    OBVIOUS
  <2>5. h \in [0 .. k -> V]
    BY <2>1, <2>2
  <2> HIDE DEF h
  <2>6. ASSUME NEW n \in 1 .. k PROVE h[n] = step[n][h[n - 1]]
    <3>1. n - 1 \in 0 .. k - 1 /\ h[n - 1] = g[n - 1]
      BY <2>3
    <3>2. CASE n = k
      BY <2>4, <3>1, <3>2
    <3>3. CASE n # k
      <4>1. n \in 1 .. k - 1 /\ n \in 0 .. k - 1
        BY <3>3
      <4>2. g[n] = step[n][g[n - 1]] /\ h[n] = g[n]
        BY <2>1, <2>3, <4>1
      <4>3. QED
        BY <3>1, <4>2
    <3>4. QED
      BY <3>2, <3>3
  <2>7. h[0] = c
    <3>1. 0 \in 0 .. k - 1
      OBVIOUS
    <3>2. QED
      BY <2>1, <2>3, <3>1
  <2>8. Is(h, k) /\ k \in 0 .. m
    BY <2>5, <2>6, <2>7
  <2> HIDE DEF Is
  <2>9. QED
    BY <2>8
<1> HIDE DEF T
<1>3. 0 .. m \subseteq T
  BY <1>1, <1>2, BoundedInduction
<1>4. m \in T
  BY <1>3
<1> HIDE DEF Is
<1>5. \E g : Is(g, m)
  BY <1>4, Zenon DEF T
<1>6. QED
  BY <1>5 DEF Is, IsLoop

\* The values of a loop are determined by its rounds.
LEMMA LoopUnique ==
  ASSUME NEW m \in Nat, NEW step, NEW f, NEW g, f[0] = g[0],
         \A n \in 1 .. m : f[n] = step[n][f[n - 1]],
         \A n \in 1 .. m : g[n] = step[n][g[n - 1]]
  PROVE  \A n \in 0 .. m : f[n] = g[n]
<1> DEFINE T == {n \in 0 .. m : f[n] = g[n]}
<1>1. 0 \in T
  OBVIOUS
<1>2. ASSUME NEW n \in 1 .. m, n - 1 \in T PROVE n \in T
  <2>1. f[n - 1] = g[n - 1] /\ n \in 0 .. m
    BY <1>2
  <2>2. QED
    BY <2>1
<1> HIDE DEF T
<1>3. 0 .. m \subseteq T
  BY <1>1, <1>2, BoundedInduction
<1>4. QED
  BY <1>3 DEF T

-----------------------------------------------------------------------------
(* Powers *)

IsPower(g, b, m) ==
  g \in [0 .. m -> Int] /\ g = [k \in 0 .. m |-> IF k = 0 THEN 1 ELSE b * g[k - 1]]

LEMMA PowerLoop ==
  ASSUME NEW b \in Int, NEW m \in Nat
  PROVE  \E g : IsPower(g, b, m) /\ Power(b, m) = g[m]
<1> DEFINE step == [n \in 1 .. m |-> [x \in Int |-> b * x]]
           Is(g) == g = [k \in 0 .. m |-> IF k = 0 THEN 1 ELSE b * g[k - 1]]
<1>1. \A n \in 1 .. m, x \in Int : step[n][x] = b * x
  OBVIOUS
<1>2. step \in [1 .. m -> [Int -> Int]]
  OBVIOUS
<1> HIDE DEF step
<1>3. 1 \in Int
  OBVIOUS
<1>4. \E g : IsLoop(g, m, Int, 1, step)
  BY <1>2, <1>3, LoopExists
<1>5. PICK g \in [0 .. m -> Int] : g[0] = 1 /\ \A n \in 1 .. m : g[n] = step[n][g[n - 1]]
  BY <1>4 DEF IsLoop
<1>6. Is(g)
  <2>1. ASSUME NEW k \in 0 .. m PROVE g[k] = IF k = 0 THEN 1 ELSE b * g[k - 1]
    <3>1. CASE k = 0
      BY <1>5, <3>1
    <3>2. CASE k # 0
      <4>1. k \in 1 .. m /\ k - 1 \in 0 .. m
        BY <3>2
      <4>2. g[k - 1] \in Int
        BY <4>1
      <4>3. QED
        BY <1>1, <1>5, <3>2, <4>1, <4>2
    <3>3. QED
      BY <3>1, <3>2
  <2>2. g = [k \in 0 .. m |-> g[k]]
    OBVIOUS
  <2>3. QED
    BY <2>1, <2>2
<1> DEFINE p == CHOOSE h : Is(h)
<1>7. Is(p)
  BY <1>6
<1>8. Power(b, m) = p[m]
  BY DEF Power
<1> HIDE DEF p
<1>9. p \in [0 .. m -> Int]
  <2>1. p = [k \in 0 .. m |-> p[k]] /\ p[0] = 1
    BY <1>7
  <2>2. \A n \in 1 .. m : p[n] = b * p[n - 1]
    BY <1>7
  <2> DEFINE T == {n \in 0 .. m : p[n] \in Int}
  <2>3. 0 \in T
    BY <2>1
  <2>4. ASSUME NEW n \in 1 .. m, n - 1 \in T PROVE n \in T
    BY <2>2, <2>4
  <2> HIDE DEF T
  <2>5. 0 .. m \subseteq T
    BY <2>3, <2>4, BoundedInduction
  <2>6. QED
    BY <2>1, <2>5 DEF T
<1>10. QED
  BY <1>7, <1>8, <1>9 DEF IsPower

\* Powers by recursion.
LEMMA PowerFacts ==
  ASSUME NEW b \in Int
  PROVE  /\ Power(b, 0) = 1
         /\ \A n \in Nat : Power(b, n) \in Int /\ Power(b, n + 1) = b * Power(b, n)
<1>1. Power(b, 0) = 1
  <2>1. PICK g : IsPower(g, b, 0) /\ Power(b, 0) = g[0]
    BY PowerLoop
  <2>2. QED
    BY <2>1 DEF IsPower
<1>2. ASSUME NEW n \in Nat
      PROVE  Power(b, n) \in Int /\ Power(b, n + 1) = b * Power(b, n)
  <2>1. PICK g : IsPower(g, b, n) /\ Power(b, n) = g[n]
    BY PowerLoop
  <2>2. PICK h : IsPower(h, b, n + 1) /\ Power(b, n + 1) = h[n + 1]
    BY PowerLoop
  <2>3. /\ g[0] = 1 /\ \A k \in 1 .. n : g[k] = b * g[k - 1]
        /\ h[0] = 1 /\ \A k \in 1 .. n + 1 : h[k] = b * h[k - 1]
        /\ \A k \in 0 .. n : g[k] \in Int /\ h[k] \in Int
    BY <2>1, <2>2 DEF IsPower
  <2> DEFINE T == {k \in 0 .. n : g[k] = h[k]}
  <2>4. 0 \in T
    BY <2>3
  <2>5. ASSUME NEW k \in 1 .. n, k - 1 \in T PROVE k \in T
    BY <2>3, <2>5
  <2> HIDE DEF T
  <2>6. n \in T
    BY <2>4, <2>5, BoundedInduction
  <2>7. g[n] = h[n] /\ h[n + 1] = b * h[n] /\ g[n] \in Int
    <3>1. n + 1 \in 1 .. n + 1 /\ n + 1 - 1 = n /\ n \in 0 .. n
      OBVIOUS
    <3>2. h[n + 1] = b * h[n + 1 - 1]
      BY <2>3, <3>1
    <3>3. QED
      BY <2>3, <2>6, <3>1, <3>2 DEF T
  <2>8. QED
    BY <2>1, <2>2, <2>7
<1>3. QED
  BY <1>1, <1>2

\* Powers of a positive number are positive, and powers add up.
LEMMA PowerPositive ==
  ASSUME NEW b \in Nat \ {0}, NEW n \in Nat
  PROVE  Power(b, n) \in Nat \ {0}
<1> DEFINE T == {k \in Nat : Power(b, k) \in Nat \ {0}}
<1>1. 0 \in T
  <2>1. Power(b, 0) = 1 /\ 1 \in Nat \ {0}
    BY PowerFacts
  <2>2. QED
    BY <2>1
<1>2. ASSUME NEW k \in Nat, k \in T PROVE k + 1 \in T
  <2>1. Power(b, k + 1) = b * Power(b, k)
    BY PowerFacts
  <2>2. \A x \in Nat \ {0} : b * x \in Nat \ {0}
    OBVIOUS
  <2>3. QED
    BY <1>2, <2>1, <2>2
<1> HIDE DEF T
<1>3. n \in T
  BY <1>1, <1>2, SetInduction
<1>4. QED
  BY <1>3 DEF T

LEMMA PowersOfTwo == \A n \in Nat : Power(2, n) \in Nat \ {0}
<1>1. 2 \in Nat \ {0}
  OBVIOUS
<1>2. QED
  BY <1>1, PowerPositive

LEMMA PowerSum ==
  ASSUME NEW b \in Nat \ {0}, NEW m \in Nat, NEW n \in Nat
  PROVE  Power(b, m + n) = Power(b, m) * Power(b, n)
<1> DEFINE T == {k \in Nat : Power(b, m + k) = Power(b, m) * Power(b, k)}
<1>0. Power(b, m) \in Nat
  BY PowerPositive
<1>1. 0 \in T
  BY <1>0, PowerFacts
<1>2. ASSUME NEW k \in Nat, k \in T PROVE k + 1 \in T
  <2>1. Power(b, k + 1) = b * Power(b, k) /\ Power(b, k) \in Int
    BY PowerFacts
  <2>2. Power(b, m + k + 1) = b * Power(b, m + k) /\ m + (k + 1) = m + k + 1
    BY PowerFacts
  <2>3. Power(b, m + k) = Power(b, m) * Power(b, k)
    BY <1>2
  <2>4. \A x, y \in Int : b * (x * y) = x * (b * y)
    OBVIOUS
  <2>5. b * (Power(b, m) * Power(b, k)) = Power(b, m) * (b * Power(b, k))
    BY <1>0, <2>1, <2>4
  <2>6. Power(b, m + (k + 1)) = Power(b, m) * Power(b, k + 1)
    BY <2>1, <2>2, <2>3, <2>5
  <2>7. QED
    BY <2>6
<1> HIDE DEF T
<1>3. n \in T
  BY <1>1, <1>2, SetInduction
<1>4. QED
  BY <1>3 DEF T

-----------------------------------------------------------------------------
(* Division *)

LEMMA DivMod ==
  ASSUME NEW x \in Int, NEW d \in Nat \ {0}
  PROVE  /\ x \div d \in Int /\ x % d \in 0 .. d - 1
         /\ x = d * (x \div d) + (x % d)
  OBVIOUS

LEMMA DivUnique ==
  ASSUME NEW x \in Int, NEW d \in Nat \ {0}, NEW q \in Int, NEW r \in 0 .. d - 1, x = d * q + r
  PROVE  x \div d = q /\ x % d = r
<1> DEFINE p == x \div d
           s == x % d
<1>1. p \in Int /\ s \in 0 .. d - 1 /\ x = d * p + s
  BY DivMod
<1> HIDE DEF p, s
<1>2. d * (p - q) = r - s
  <2>1. \A a, b, c \in Int : a * (b - c) = a * b - a * c
    OBVIOUS
  <2>2. d * (p - q) = d * p - d * q
    BY <1>1, <2>1
  <2>3. QED
    BY <1>1, <2>2
<1>3. p - q = 0
  <2>1. CASE p - q >= 1
    <3>1. \A a, b \in Int : a > 0 /\ b >= 1 => a * b >= a
      OBVIOUS
    <3>2. d * (p - q) >= d
      BY <1>1, <2>1, <3>1
    <3>3. QED
      BY <1>1, <1>2, <3>2
  <2>2. CASE p - q <= -1
    <3>1. \A a, b \in Int : a > 0 /\ b <= -1 => a * b <= -a
      OBVIOUS
    <3>2. d * (p - q) <= -d
      BY <1>1, <2>2, <3>1
    <3>3. QED
      BY <1>1, <1>2, <3>2
  <2>3. QED
    BY <1>1, <2>1, <2>2
<1>4. p = q /\ s = r
  BY <1>1, <1>2, <1>3
<1>5. QED
  BY <1>4 DEF p, s

LEMMA DivDiv ==
  ASSUME NEW x \in Int, NEW a \in Nat \ {0}, NEW b \in Nat \ {0}
  PROVE  (x \div a) \div b = x \div (a * b)
<1> DEFINE q == x \div a
           r == x % a
           p == q \div b
           s == q % b
<1>1. q \in Int /\ r \in 0 .. a - 1 /\ x = a * q + r
  BY DivMod
<1> HIDE DEF q, r
<1>2. p \in Int /\ s \in 0 .. b - 1 /\ q = b * p + s
  BY <1>1, DivMod
<1> HIDE DEF p, s
<1>3. \A i, j, k, l \in Int : i * (j * k + l) = (i * j) * k + i * l
  OBVIOUS
<1>4. x = (a * b) * p + (a * s + r)
  BY <1>1, <1>2, <1>3
<1>5. a * s + r \in 0 .. a * b - 1
  <2>1. \A i, j, k \in Int : i > 0 /\ 0 <= j /\ j <= k - 1 => 0 <= i * j /\ i * j <= i * k - i
    OBVIOUS
  <2>2. 0 <= a * s /\ a * s <= a * b - a
    BY <1>2, <2>1
  <2>3. a * s \in Int /\ a * b \in Int
    BY <1>2
  <2>4. QED
    BY <1>1, <2>2, <2>3
<1>6. a * b \in Nat \ {0} /\ x \in Int
  OBVIOUS
<1>7. x \div (a * b) = p
  BY <1>2, <1>4, <1>5, <1>6, DivUnique
<1>8. QED
  BY <1>7 DEF p, q

\* What is a multiple of d apart leaves the same remainder.
LEMMA ModShift ==
  ASSUME NEW x \in Int, NEW k \in Int, NEW d \in Nat \ {0}
  PROVE  (x + k * d) % d = x % d /\ (x + k * d) \div d = x \div d + k
<1> DEFINE q == x \div d
           r == x % d
<1>1. q \in Int /\ r \in 0 .. d - 1 /\ x = d * q + r
  BY DivMod
<1> HIDE DEF q, r
<1>2. \A i, j, l \in Int : i * j + l * i = i * (j + l)
  OBVIOUS
<1>3. d * q + k * d = d * (q + k)
  BY <1>1, <1>2
<1>4. x + k * d = d * (q + k) + r /\ x + k * d \in Int /\ q + k \in Int
  BY <1>1, <1>3
<1> DEFINE y == x + k * d
<1>5. y = d * (q + k) + r /\ y \in Int
  BY <1>4
<1> HIDE DEF y
<1>6. y \div d = q + k /\ y % d = r
  BY <1>1, <1>4, <1>5, DivUnique
<1>7. QED
  BY <1>6 DEF y, q, r

\* Small numbers
LEMMA DivSmall ==
  ASSUME NEW d \in Nat \ {0}, NEW x \in 0 .. d - 1
  PROVE  x \div d = 0 /\ x % d = x
<1>1. x = d * 0 + x /\ x \in Int /\ 0 \in Int
  OBVIOUS
<1>2. QED
  BY <1>1, DivUnique

-----------------------------------------------------------------------------
(* Digits *)

\* What the loop over digits computes.
LEMMA RunningFacts ==
  ASSUME NEW digits, NEW radix, NEW m \in Nat, Len(digits) = m,
         \A n \in 1 .. m : digits[n] \in Int /\ radix[n] \in Int
  PROVE  /\ Running(digits, radix) \in [0 .. m -> Int]
         /\ Running(digits, radix)[0] = 0
         /\ \A n \in 1 .. m : Running(digits, radix)[n]
                               = Running(digits, radix)[n - 1] * radix[n] + digits[n]
<1> DEFINE step == [n \in 1 .. m |-> [x \in Int |-> x * radix[n] + digits[n]]]
           Is(g) == g = [n \in 0 .. Len(digits) |-> IF n = 0 THEN 0 ELSE g[n - 1] * radix[n] + digits[n]]
<1>1. \A n \in 1 .. m, x \in Int : step[n][x] = x * radix[n] + digits[n]
  OBVIOUS
<1>2. step \in [1 .. m -> [Int -> Int]]
  OBVIOUS
<1> HIDE DEF step
<1>3. 0 \in Int
  OBVIOUS
<1>4. \E g : IsLoop(g, m, Int, 0, step)
  BY <1>2, <1>3, LoopExists
<1>5. PICK g \in [0 .. m -> Int] : g[0] = 0 /\ \A n \in 1 .. m : g[n] = step[n][g[n - 1]]
  BY <1>4 DEF IsLoop
<1>6. Is(g)
  <2>1. ASSUME NEW n \in 0 .. m PROVE g[n] = IF n = 0 THEN 0 ELSE g[n - 1] * radix[n] + digits[n]
    <3>1. CASE n = 0
      BY <1>5, <3>1
    <3>2. CASE n # 0
      <4>1. n \in 1 .. m /\ n - 1 \in 0 .. m
        BY <3>2
      <4>2. g[n - 1] \in Int
        BY <4>1
      <4>3. QED
        BY <1>1, <1>5, <3>2, <4>1, <4>2
    <3>3. QED
      BY <3>1, <3>2
  <2>2. g = [n \in 0 .. m |-> g[n]]
    OBVIOUS
  <2>3. QED
    BY <2>1, <2>2
<1> DEFINE p == CHOOSE h : Is(h)
<1>7. Is(p)
  BY <1>6
<1>8. Running(digits, radix) = p
  BY DEF Running
<1> HIDE DEF p
<1>9. p = [n \in 0 .. m |-> p[n]] /\ p[0] = 0 /\ \A n \in 1 .. m : p[n] = p[n - 1] * radix[n] + digits[n]
  <2>1. p = [n \in 0 .. m |-> p[n]] /\ p[0] = 0
    BY <1>7
  <2>2. ASSUME NEW n \in 1 .. m PROVE p[n] = p[n - 1] * radix[n] + digits[n]
    <3>1. n \in 0 .. m /\ n # 0
      OBVIOUS
    <3>2. QED
      BY <1>7, <3>1
  <2>3. QED
    BY <2>1, <2>2
<1>10. \A n \in 0 .. m : p[n] \in Int
  <2> DEFINE T == {n \in 0 .. m : p[n] \in Int}
  <2>1. 0 \in T
    BY <1>9
  <2>2. ASSUME NEW n \in 1 .. m, n - 1 \in T PROVE n \in T
    <3>1. p[n - 1] \in Int /\ radix[n] \in Int /\ digits[n] \in Int
      BY <2>2
    <3>2. \A x, y, z \in Int : x * y + z \in Int
      OBVIOUS
    <3>3. p[n - 1] * radix[n] + digits[n] \in Int
      BY <3>1, <3>2
    <3>4. p[n] = p[n - 1] * radix[n] + digits[n]
      BY <1>9
    <3>5. p[n] \in Int
      BY <3>3, <3>4
    <3>6. QED
      BY <3>5
  <2> HIDE DEF T
  <2>3. 0 .. m \subseteq T
    BY <2>1, <2>2, BoundedInduction
  <2>4. QED
    BY <2>3 DEF T
<1>11. p \in [0 .. m -> Int]
  BY <1>9, <1>10
<1>12. QED
  BY <1>8, <1>9, <1>11

IsRunning(g, digits, radix, m) ==
  g \in [0 .. m -> Int] /\ g[0] = 0 /\ \A n \in 1 .. m : g[n] = g[n - 1] * radix[n] + digits[n]

AreNumbers(digits, radix, m) ==
  Len(digits) = m /\ \A n \in 1 .. m : digits[n] \in Int /\ radix[n] \in Int

LEMMA RunningIs ==
  ASSUME NEW digits, NEW radix, NEW m \in Nat, AreNumbers(digits, radix, m)
  PROVE  IsRunning(Running(digits, radix), digits, radix, m)
<1>1. Len(digits) = m /\ \A n \in 1 .. m : digits[n] \in Int /\ radix[n] \in Int
  BY DEF AreNumbers
<1>2. QED
  BY <1>1, RunningFacts DEF IsRunning

\* The weights of the digits: the last one counts for 1, each other one for the
\* next one's weight times the next one's radix.
IsWeight(weight, radix, m) ==
  /\ weight \in [0 .. m -> Nat \ {0}] /\ weight[m] = 1
  /\ \A n \in 1 .. m : radix[n] \in Nat \ {0} /\ weight[n - 1] = weight[n] * radix[n]

AreDigits(digits, v, weight, radix, m) ==
  /\ v \in 0 .. weight[0] - 1 /\ Len(digits) = m
  /\ \A n \in 1 .. m : digits[n] = (v \div weight[n]) % radix[n]

\* The digits of a number make up that number.
LEMMA NumberOfDigits ==
  ASSUME NEW m \in Nat, NEW radix, NEW weight, IsWeight(weight, radix, m),
         NEW digits, NEW v, AreDigits(digits, v, weight, radix, m)
  PROVE  /\ \A n \in 1 .. m : digits[n] \in 0 .. radix[n] - 1
         /\ \A n \in 0 .. m : Running(digits, radix)[n] = v \div weight[n]
         /\ Running(digits, radix)[m] = v
<1>0. /\ v \in 0 .. weight[0] - 1 /\ Len(digits) = m
      /\ \A n \in 1 .. m : digits[n] = (v \div weight[n]) % radix[n]
  BY DEF AreDigits
<1>1. weight[0] \in Nat \ {0} /\ v \in Int
  BY <1>0 DEF IsWeight
<1>2. ASSUME NEW n \in 1 .. m
      PROVE  /\ radix[n] \in Nat \ {0} /\ weight[n] \in Nat \ {0} /\ v \div weight[n] \in Int
             /\ digits[n] \in 0 .. radix[n] - 1
             /\ v \div weight[n] = (v \div weight[n - 1]) * radix[n] + digits[n]
  <2>1. radix[n] \in Nat \ {0} /\ weight[n] \in Nat \ {0} /\ weight[n - 1] = weight[n] * radix[n]
    BY DEF IsWeight
  <2> DEFINE q == v \div weight[n]
  <2>2. q \in Int
    BY <1>1, <2>1, DivMod
  <2>3. q \div radix[n] = v \div weight[n - 1]
    BY <1>1, <2>1, DivDiv
  <2>4. digits[n] = q % radix[n]
    BY <1>0
  <2> HIDE DEF q
  <2>5. /\ q \div radix[n] \in Int /\ q % radix[n] \in 0 .. radix[n] - 1
        /\ q = radix[n] * (q \div radix[n]) + (q % radix[n])
    BY <2>1, <2>2, DivMod
  <2> DEFINE i == q \div radix[n]
  <2>6. i \in Int /\ q = radix[n] * i + digits[n]
    BY <2>4, <2>5
  <2> HIDE DEF i
  <2>7. q = i * radix[n] + digits[n]
    BY <2>1, <2>6
  <2>8. QED
    BY <2>1, <2>2, <2>3, <2>4, <2>5, <2>7 DEF q, i
<1>3. \A n \in 1 .. m : digits[n] \in Int /\ radix[n] \in Int
  BY <1>2
<1> DEFINE R == Running(digits, radix)
<1>4. R[0] = 0 /\ \A n \in 1 .. m : R[n] = R[n - 1] * radix[n] + digits[n]
  BY <1>0, <1>3, RunningFacts
<1> HIDE DEF R
<1> DEFINE T == {n \in 0 .. m : R[n] = v \div weight[n]}
<1>5. 0 \in T
  BY <1>0, <1>1, <1>4, DivSmall
<1>6. ASSUME NEW n \in 1 .. m, n - 1 \in T PROVE n \in T
  BY <1>2, <1>4, <1>6
<1>7. 0 .. m \subseteq T
  <2> HIDE DEF T
  <2>1. QED
    BY <1>5, <1>6, BoundedInduction
<1>8. v \div weight[m] = v
  <2>1. weight[m] = 1 /\ v = 1 * v + 0 /\ 0 \in 0 .. 1 - 1
    BY <1>1 DEF IsWeight
  <2>2. QED
    BY <1>1, <2>1, DivUnique
<1>9. QED
  BY <1>2, <1>7, <1>8 DEF R

\* A number has the digits it is made up of.
LEMMA DigitsOfNumber ==
  ASSUME NEW m \in Nat, NEW radix, NEW weight, IsWeight(weight, radix, m),
         NEW digits, Len(digits) = m, \A n \in 1 .. m : digits[n] \in 0 .. radix[n] - 1
  PROVE  /\ Running(digits, radix)[m] \in 0 .. weight[0] - 1
         /\ \A n \in 1 .. m : (Running(digits, radix)[m] \div weight[n]) % radix[n] = digits[n]
<1>1. \A n \in 1 .. m : digits[n] \in Int /\ radix[n] \in Int /\ radix[n] \in Nat \ {0}
  BY DEF IsWeight
<1> DEFINE R == Running(digits, radix)
           v == R[m]
<1>2. R \in [0 .. m -> Int] /\ R[0] = 0 /\ \A n \in 1 .. m : R[n] = R[n - 1] * radix[n] + digits[n]
  BY <1>1, RunningFacts
<1> HIDE DEF R
<1>3. v \in Int
  BY <1>2
<1> HIDE DEF v
<1>4. \A n \in 0 .. m : weight[n] \in Nat \ {0}
  BY DEF IsWeight
<1>5. ASSUME NEW n \in 1 .. m
      PROVE  R[n] \div radix[n] = R[n - 1] /\ R[n] % radix[n] = digits[n]
  <2>1. n - 1 \in 0 .. m /\ n \in 0 .. m
    OBVIOUS
  <2>2. R[n] \in Int /\ R[n - 1] \in Int
    BY <1>2, <2>1
  <2>3. R[n] = radix[n] * R[n - 1] + digits[n]
    BY <1>1, <1>2, <2>2
  <2> DEFINE x == R[n]
             y == R[n - 1]
             d == radix[n]
             r == digits[n]
  <2>4. x \in Int /\ y \in Int /\ d \in Nat \ {0} /\ r \in 0 .. d - 1 /\ x = d * y + r
    BY <1>1, <2>2, <2>3
  <2> HIDE DEF x, y, d, r
  <2>5. x \div d = y /\ x % d = r
    BY <2>4, DivUnique
  <2>6. QED
    BY <2>5 DEF x, y, d, r
<1> DEFINE T == {n \in 0 .. m : v \div weight[n] = R[n]}
<1>6. m \in T
  <2>1. weight[m] = 1 /\ v = 1 * v + 0 /\ 0 \in 0 .. 1 - 1
    BY <1>3 DEF IsWeight
  <2>2. v \div weight[m] = v
    BY <1>3, <2>1, DivUnique
  <2>3. QED
    BY <2>2 DEF v
<1>7. ASSUME NEW n \in 1 .. m, n \in T PROVE n - 1 \in T
  <2>1. weight[n - 1] = weight[n] * radix[n] /\ n \in 0 .. m /\ n - 1 \in 0 .. m
    BY DEF IsWeight
  <2>2. (v \div weight[n]) \div radix[n] = v \div (weight[n] * radix[n])
    BY <1>1, <1>3, <1>4, <2>1, DivDiv
  <2>3. v \div weight[n - 1] = R[n] \div radix[n]
    BY <1>7, <2>1, <2>2
  <2>4. v \div weight[n - 1] = R[n - 1]
    BY <1>5, <2>3
  <2>5. QED
    BY <2>1, <2>4
<1>8. 0 .. m \subseteq T
  <2> HIDE DEF T
  <2>1. QED
    BY <1>6, <1>7, DownInduction
<1>9. v \in 0 .. weight[0] - 1
  <2>1. v \div weight[0] = 0
    BY <1>2, <1>8
  <2>2. weight[0] \in Nat \ {0}
    BY <1>4
  <2>3. /\ v % weight[0] \in 0 .. weight[0] - 1
        /\ v = weight[0] * (v \div weight[0]) + (v % weight[0])
    BY <1>3, <2>2, DivMod
  <2> DEFINE r == v % weight[0]
             w == weight[0]
  <2>4. w \in Nat \ {0} /\ r \in 0 .. w - 1 /\ v = w * 0 + r
    BY <2>1, <2>2, <2>3
  <2> HIDE DEF r, w
  <2>5. v \in 0 .. w - 1
    BY <2>4
  <2>6. QED
    BY <2>5 DEF w
<1>10. ASSUME NEW n \in 1 .. m PROVE (v \div weight[n]) % radix[n] = digits[n]
  BY <1>5, <1>8
<1>11. QED
  BY <1>9, <1>10 DEF v, R

LEMMA PowerWeight ==
  ASSUME NEW b \in Nat \ {0}, NEW c \in Nat
  PROVE  IsWeight([n \in 0 .. c |-> Power(b, c - n)], [n \in 1 .. c |-> b], c)
<1> DEFINE weight == [n \in 0 .. c |-> Power(b, c - n)]
           radix == [n \in 1 .. c |-> b]
<1>1. \A n \in 0 .. c : c - n \in Nat /\ weight[n] = Power(b, c - n)
  OBVIOUS
<1>2. \A n \in 0 .. c : weight[n] \in Nat \ {0}
  BY <1>1, PowerPositive
<1>3. weight[c] = 1
  <2>1. c - c = 0
    OBVIOUS
  <2>2. Power(b, 0) = 1 /\ c \in 0 .. c
    BY PowerFacts
  <2>3. QED
    BY <1>1, <2>1, <2>2
<1>4. ASSUME NEW n \in 1 .. c PROVE weight[n - 1] = weight[n] * b
  <2>1. n \in 0 .. c /\ n - 1 \in 0 .. c /\ c - (n - 1) = (c - n) + 1 /\ c - n \in Nat
    OBVIOUS
  <2>2. Power(b, (c - n) + 1) = b * Power(b, c - n) /\ Power(b, c - n) \in Int
    BY <2>1, PowerFacts
  <2>3. weight[n - 1] = b * weight[n] /\ weight[n] \in Int
    BY <1>1, <2>1, <2>2
  <2> HIDE DEF weight
  <2>4. QED
    BY <2>3
<1>5. weight = [n \in 0 .. c |-> weight[n]] /\ \A n \in 1 .. c : radix[n] = b
  OBVIOUS
<1> HIDE DEF weight, radix
<1>6. IsWeight(weight, radix, c)
  BY <1>2, <1>3, <1>4, <1>5 DEF IsWeight
<1>7. QED
  BY <1>6 DEF weight, radix

\* The digits of a small enough number, in base b, make it up.
LEMMA NumberRoundTrip ==
  ASSUME NEW b \in Nat \ {0}, NEW c \in Nat, NEW v \in 0 .. Power(b, c) - 1
  PROVE  /\ DigitsOf(v, b, c) \in [1 .. c -> 0 .. b - 1]
         /\ \A n \in 1 .. c : DigitsOf(v, b, c)[n] = (v \div Power(b, c - n)) % b
         /\ Number(DigitsOf(v, b, c), b) = v
<1> DEFINE weight == [n \in 0 .. c |-> Power(b, c - n)]
           radix == [n \in 1 .. c |-> b]
           digits == DigitsOf(v, b, c)
<1>1. IsWeight(weight, radix, c)
  BY PowerWeight
<1>2. Len(digits) = c /\ DOMAIN digits = 1 .. c /\ digits = [n \in 1 .. c |-> digits[n]]
  BY DEF DigitsOf
<1>3. \A n \in 1 .. c : digits[n] = (v \div weight[n]) % radix[n] /\ radix[n] = b
  BY DEF DigitsOf
<1>4. weight[0] = Power(b, c) /\ \A n \in 1 .. c : weight[n] = Power(b, c - n)
  <2>1. 0 \in 0 .. c /\ c - 0 = c
    OBVIOUS
  <2>2. QED
    BY <2>1
<1>5. radix = [n \in DOMAIN digits |-> b]
  BY <1>2
<1> HIDE DEF weight, radix, digits
<1>6. v \in 0 .. weight[0] - 1
  BY <1>4
<1>7. /\ \A n \in 1 .. c : digits[n] \in 0 .. radix[n] - 1
      /\ Running(digits, radix)[c] = v
  <2>1. AreDigits(digits, v, weight, radix, c)
    BY <1>2, <1>3, <1>6 DEF AreDigits
  <2>2. QED
    BY <1>1, <2>1, NumberOfDigits
<1>8. digits \in [1 .. c -> 0 .. b - 1]
  BY <1>2, <1>3, <1>7
<1>9. Number(digits, b) = v
  BY <1>2, <1>5, <1>7 DEF Number
<1>10. \A n \in 1 .. c : digits[n] = (v \div Power(b, c - n)) % b
  BY <1>3, <1>4
<1>11. QED
  BY <1>8, <1>9, <1>10 DEF digits

\* And digits less than b are those of the number they make up.
LEMMA DigitsRoundTrip ==
  ASSUME NEW b \in Nat \ {0}, NEW c \in Nat, NEW digits \in [1 .. c -> 0 .. b - 1]
  PROVE  /\ Number(digits, b) \in 0 .. Power(b, c) - 1
         /\ DigitsOf(Number(digits, b), b, c) = digits
<1> DEFINE weight == [n \in 0 .. c |-> Power(b, c - n)]
           radix == [n \in 1 .. c |-> b]
           v == Number(digits, b)
<1>1. IsWeight(weight, radix, c)
  BY PowerWeight
<1>2. Len(digits) = c /\ DOMAIN digits = 1 .. c /\ digits = [n \in 1 .. c |-> digits[n]]
  OBVIOUS
<1>3. \A n \in 1 .. c : radix[n] = b /\ weight[n] = Power(b, c - n)
  OBVIOUS
<1>4. weight[0] = Power(b, c)
  <2>1. 0 \in 0 .. c /\ c - 0 = c
    OBVIOUS
  <2>2. QED
    BY <2>1
<1>5. radix = [n \in DOMAIN digits |-> b]
  BY <1>2
<1> HIDE DEF weight, radix
<1>6. v = Running(digits, radix)[c]
  BY <1>2, <1>5 DEF Number
<1>7. \A n \in 1 .. c : digits[n] \in 0 .. radix[n] - 1
  BY <1>3
<1>8. /\ Running(digits, radix)[c] \in 0 .. weight[0] - 1
      /\ \A n \in 1 .. c : (Running(digits, radix)[c] \div weight[n]) % radix[n] = digits[n]
  BY <1>1, <1>2, <1>7, DigitsOfNumber
<1> HIDE DEF v
<1>9. v \in 0 .. Power(b, c) - 1 /\ \A n \in 1 .. c : (v \div Power(b, c - n)) % b = digits[n]
  BY <1>3, <1>4, <1>6, <1>8
<1>10. DigitsOf(v, b, c) = digits
  <2> DEFINE e == DigitsOf(v, b, c)
  <2>1. e = [n \in 1 .. c |-> e[n]] /\ \A n \in 1 .. c : e[n] = (v \div Power(b, c - n)) % b
    BY DEF DigitsOf
  <2> HIDE DEF e
  <2>2. \A n \in 1 .. c : e[n] = digits[n]
    BY <1>9, <2>1
  <2>3. e = digits
    BY <1>2, <2>1, <2>2
  <2>4. QED
    BY <2>3 DEF e
<1>11. QED
  BY <1>9, <1>10 DEF v

-----------------------------------------------------------------------------
(* Bit ranges *)

Sound(segs) == segs \in Seq(Segment) /\ \A n \in DOMAIN segs : InRange(segs[n])

LEMMA MinMax ==
  ASSUME NEW a \in Int, NEW b \in Int
  PROVE  /\ Min({a, b}) = IF a <= b THEN a ELSE b
         /\ Max({a, b}) = IF a <= b THEN b ELSE a
  BY DEF Min, Max

LEMMA RangeFacts ==
  ASSUME NEW s, InRange(s)
  PROVE  /\ Low(s) \in 1 .. WordBits /\ High(s) \in Low(s) .. WordBits
         /\ Width(s) = High(s) - Low(s) + 1 /\ Width(s) \in Nat \ {0}
         /\ BitsOf(s) = Low(s) .. High(s)
<1> DEFINE a == s.lsb
           b == s.msb
<1>1. a \in 1 .. WordBits /\ b \in 1 .. WordBits /\ WordBits \in Nat /\ a \in Int /\ b \in Int
  BY SizesAssumption DEF InRange
<1>2. Low(s) = Min({a, b}) /\ High(s) = Max({a, b})
  BY DEF Low, High
<1> HIDE DEF a, b
<1>3. Low(s) = (IF a <= b THEN a ELSE b) /\ High(s) = (IF a <= b THEN b ELSE a)
  BY <1>1, <1>2, MinMax
<1>4. Low(s) \in 1 .. WordBits /\ High(s) \in Low(s) .. WordBits
  BY <1>1, <1>3
<1>5. QED
  BY <1>1, <1>4 DEF Width, BitsOf

\* The number of bits below each segment
LEMMA ShiftFacts ==
  ASSUME NEW segs, Sound(segs)
  PROVE  /\ TotalWidth(segs) = Shift(segs, 0) /\ Shift(segs, Len(segs)) = 0
         /\ \A n \in 0 .. Len(segs) : Shift(segs, n) \in Nat
         /\ \A n \in 1 .. Len(segs) : /\ Width(segs[n]) \in Nat \ {0}
                                      /\ Shift(segs, n - 1) = Shift(segs, n) + Width(segs[n])
<1> DEFINE m == Len(segs)
           w == Widths(segs)
           one == [n \in DOMAIN w |-> 1]
<1>1. m \in Nat /\ DOMAIN segs = 1 .. m
  BY DEF Sound
<1>2. \A n \in 1 .. m : w[n] = Width(segs[n]) /\ w[n] \in Nat \ {0} /\ one[n] = 1
  BY <1>1, RangeFacts DEF Sound, Widths
<1>3. Len(w) = m
  BY <1>1 DEF Widths
<1> DEFINE S == Sums(w)
<1>4. S = Running(w, one)
  BY DEF Sums
<1>5. TotalWidth(segs) = S[m] /\ \A n : Shift(segs, n) = S[m] - S[n]
  BY <1>3 DEF TotalWidth, Sum, Shift
<1> HIDE DEF m, w, one, S
<1>6. \A n \in 1 .. m : w[n] \in Int /\ one[n] \in Int
  BY <1>2
<1>7. S \in [0 .. m -> Int] /\ S[0] = 0 /\ \A n \in 1 .. m : S[n] = S[n - 1] * one[n] + w[n]
  BY <1>1, <1>3, <1>4, <1>6, RunningFacts
<1>8. ASSUME NEW n \in 1 .. m PROVE S[n] = S[n - 1] + w[n]
  <2>1. n - 1 \in 0 .. m /\ S[n - 1] \in Int /\ w[n] \in Int
    BY <1>1, <1>2, <1>7
  <2>2. S[n] = S[n - 1] * one[n] + w[n] /\ one[n] = 1
    BY <1>2, <1>7
  <2>3. S[n] = S[n - 1] * 1 + w[n]
    BY <2>2
  <2>4. QED
    BY <2>1, <2>3
<1>9. ASSUME NEW n \in 1 .. m PROVE Shift(segs, n - 1) = Shift(segs, n) + w[n]
  <2>1. S[n - 1] \in Int /\ S[n] \in Int /\ S[m] \in Int /\ w[n] \in Int
    BY <1>1, <1>2, <1>7
  <2>2. QED
    BY <1>5, <1>8, <2>1
<1> DEFINE T == {n \in 0 .. m : Shift(segs, n) \in Nat}
<1>10. Shift(segs, m) = 0 /\ Shift(segs, 0) = TotalWidth(segs)
  BY <1>1, <1>5, <1>7
<1>11. m \in T
  BY <1>1, <1>10
<1>12. ASSUME NEW n \in 1 .. m, n \in T PROVE n - 1 \in T
  BY <1>1, <1>2, <1>9, <1>12
<1>13. 0 .. m \subseteq T
  <2> HIDE DEF T
  <2>1. QED
    BY <1>1, <1>11, <1>12, DownInduction
<1>14. QED
  BY <1>2, <1>9, <1>10, <1>13 DEF m

LEMMA TotalWidthPositive ==
  ASSUME NEW segs, Sound(segs), segs # <<>>
  PROVE  TotalWidth(segs) \in Nat \ {0}
<1>1. Len(segs) \in Nat \ {0}
  BY DEF Sound
<1>2. 1 \in 1 .. Len(segs) /\ 0 \in 0 .. Len(segs) /\ 1 \in 0 .. Len(segs) /\ 1 - 1 = 0
  BY <1>1
<1>3. /\ TotalWidth(segs) = Shift(segs, 0) /\ Shift(segs, 1) \in Nat
      /\ Width(segs[1]) \in Nat \ {0} /\ Shift(segs, 1 - 1) = Shift(segs, 1) + Width(segs[1])
  BY <1>2, ShiftFacts
<1>4. QED
  BY <1>2, <1>3

\* What is split over segments is assembled again.
LEMMA SplitRoundTrip ==
  ASSUME NEW segs, Sound(segs), NEW v \in 0 .. Power(2, TotalWidth(segs)) - 1
  PROVE  /\ DOMAIN Split(v, segs) = DOMAIN segs
         /\ \A n \in DOMAIN segs : Split(v, segs)[n] \in 0 .. Power(2, Width(segs[n])) - 1
         /\ Assemble(Split(v, segs), segs) = v
<1> DEFINE m == Len(segs)
           parts == Split(v, segs)
           weight == [n \in 0 .. m |-> Power(2, Shift(segs, n))]
           radix == [n \in DOMAIN segs |-> Power(2, Width(segs[n]))]
<1>1. m \in Nat /\ DOMAIN segs = 1 .. m
  BY DEF Sound
<1>2. /\ TotalWidth(segs) = Shift(segs, 0) /\ Shift(segs, m) = 0
      /\ \A n \in 0 .. m : Shift(segs, n) \in Nat
      /\ \A n \in 1 .. m : /\ Width(segs[n]) \in Nat \ {0}
                           /\ Shift(segs, n - 1) = Shift(segs, n) + Width(segs[n])
  BY ShiftFacts
<1>3. \A n \in 0 .. m : weight[n] = Power(2, Shift(segs, n)) /\ weight[n] \in Nat \ {0}
  BY <1>2, PowerPositive
<1>4. \A n \in 1 .. m : radix[n] = Power(2, Width(segs[n])) /\ radix[n] \in Nat \ {0}
  <2>1. ASSUME NEW n \in 1 .. m
        PROVE  radix[n] = Power(2, Width(segs[n])) /\ radix[n] \in Nat \ {0}
    <3>1. radix[n] = Power(2, Width(segs[n])) /\ Width(segs[n]) \in Nat
      BY <1>1, <1>2
    <3> HIDE DEF radix
    <3>2. QED
      BY <3>1, PowersOfTwo
  <2>2. QED
    BY <2>1
<1>5. weight = [n \in 0 .. m |-> weight[n]]
  OBVIOUS
<1>6. /\ DOMAIN parts = 1 .. m /\ Len(parts) = m
      /\ \A n \in 1 .. m : parts[n] = (v \div Power(2, Shift(segs, n))) % Power(2, Width(segs[n]))
  BY <1>1 DEF Split
<1>7. Assemble(parts, segs) = Running(parts, radix)[m]
  BY DEF Assemble
<1> HIDE DEF m, parts, weight, radix
<1>8. ASSUME NEW n \in 1 .. m PROVE weight[n - 1] = weight[n] * radix[n]
  <2>1. n \in 0 .. m /\ n - 1 \in 0 .. m
    BY <1>1
  <2>2. Power(2, Shift(segs, n) + Width(segs[n])) = Power(2, Shift(segs, n)) * Power(2, Width(segs[n]))
    BY <1>2, <2>1, PowerSum
  <2>3. QED
    BY <1>2, <1>3, <1>4, <2>1, <2>2
<1>9. IsWeight(weight, radix, m)
  <2>1. weight[m] = 1
    <3>1. m \in 0 .. m /\ Power(2, 0) = 1
      BY <1>1, PowerFacts
    <3>2. QED
      BY <1>2, <1>3, <3>1
  <2>2. QED
    BY <1>3, <1>4, <1>5, <1>8, <2>1 DEF IsWeight
<1>10. AreDigits(parts, v, weight, radix, m)
  <2>1. weight[0] = Power(2, TotalWidth(segs))
    BY <1>1, <1>2, <1>3
  <2>2. v \in 0 .. weight[0] - 1
    BY <2>1
  <2>3. \A n \in 1 .. m : parts[n] = (v \div weight[n]) % radix[n]
    BY <1>3, <1>4, <1>6
  <2>4. QED
    BY <1>6, <2>2, <2>3 DEF AreDigits
<1>11. /\ \A n \in 1 .. m : parts[n] \in 0 .. radix[n] - 1
       /\ Running(parts, radix)[m] = v
  BY <1>1, <1>9, <1>10, NumberOfDigits
<1>12. QED
  BY <1>1, <1>4, <1>6, <1>7, <1>11 DEF parts

\* The digit in place k, in base d
Field(w, k, d) == (w \div k) % d

Written(w, k, d, part) == w + (part - Field(w, k, d)) * k

\* Place l is above the digit in place k.
Above(l, k, d, c) == l = (k * d) * c

KeepsAbove(x, w, k, d) ==
  \A l, c \in Nat \ {0} : Above(l, k, d, c) => \A b : Field(x, l, b) = Field(w, l, b)

\* A field of a word in place k, with room for d values: writing it changes
\* the field, and nothing above it.
LEMMA FieldWritten ==
  ASSUME NEW w \in Int, NEW k \in Nat \ {0}, NEW d \in Nat \ {0}, NEW part \in 0 .. d - 1,
         NEW x, x = Written(w, k, d, part)
  PROVE  /\ x \in Int /\ Field(x, k, d) = part
         /\ KeepsAbove(x, w, k, d)
<1> DEFINE q == w \div k
           old == q % d
           high == q \div d
<1>1. q \in Int
  BY DivMod
<1>2. old \in 0 .. d - 1 /\ high \in Int /\ q = d * high + old
  <2> HIDE DEF q
  <2>1. QED
    BY <1>1, DivMod
<1>3. x = w + (part - old) * k
  BY DEF Written, Field
<1> HIDE DEF old, high
<1> DEFINE c == part - old
<1>4. c \in Int /\ x = w + c * k
  BY <1>2, <1>3
<1>5. c * k \in Int
  BY <1>4
<1>6. x \in Int
  BY <1>4, <1>5
<1>7. (w + c * k) \div k = w \div k + c
  <2> HIDE DEF c
  <2>1. QED
    BY <1>4, ModShift
<1>8. x \div k = q + c
  BY <1>4, <1>7
<1> HIDE DEF q
<1>9. q + c = d * high + part /\ q + c \in Int
  BY <1>1, <1>2
<1>10. (q + c) \div d = high /\ (q + c) % d = part
  <2> DEFINE y == q + c
  <2>1. y \in Int /\ y = d * high + part
    BY <1>9
  <2> HIDE DEF y
  <2>2. y \div d = high /\ y % d = part
    BY <1>2, <2>1, DivUnique
  <2>3. QED
    BY <2>2 DEF y
<1>11. \A y \in Int, a, b, e \in Nat \ {0} :
         y \div ((a * b) * e) = ((y \div a) \div b) \div e
  <2> TAKE y \in Int, a, b, e \in Nat \ {0}
  <2>1. a * b \in Nat \ {0}
    OBVIOUS
  <2>2. (y \div a) \div b = y \div (a * b)
    BY DivDiv
  <2> DEFINE i == a * b
  <2> HIDE DEF i
  <2>3. i \in Nat \ {0}
    BY <2>1 DEF i
  <2>4. (y \div i) \div e = y \div (i * e)
    BY <2>3, DivDiv
  <2>5. QED
    BY <2>2, <2>4 DEF i
<1>12. ASSUME NEW l \in Nat \ {0}, NEW e \in Nat \ {0}, l = (k * d) * e PROVE x \div l = w \div l
  <2>1. (x \div k) \div d = (w \div k) \div d
    BY <1>8, <1>10 DEF high, q
  <2>2. x \div ((k * d) * e) = ((x \div k) \div d) \div e
    BY <1>6, <1>11
  <2>3. w \div ((k * d) * e) = ((w \div k) \div d) \div e
    BY <1>11
  <2>4. QED
    BY <1>12, <2>1, <2>2, <2>3
<1>13. QED
  BY <1>6, <1>8, <1>10, <1>12 DEF Field, Above, KeepsAbove

\* Nor anything below it.
LEMMA LowerField ==
  ASSUME NEW w \in Int, NEW c \in Int, NEW k \in Nat \ {0}, NEW d \in Nat \ {0}, NEW e \in Nat \ {0},
         NEW l, Above(l, k, d, e), NEW x, x = w + c * l
  PROVE  Field(x, k, d) = Field(w, k, d)
<1> DEFINE i == (c * e) * d
           q == w \div k
<1>1. c * e \in Int /\ i \in Int /\ q \in Int
  BY DivMod
<1>2. c * ((k * d) * e) = i * k
  <2>1. \A y, a, b, z \in Int : y * ((a * b) * z) = ((y * z) * b) * a
    OBVIOUS
  <2>2. QED
    BY <2>1
<1>3. (w + i * k) \div k = q + i
  <2> HIDE DEF i
  <2>1. QED
    BY <1>1, ModShift DEF q
<1>4. (q + (c * e) * d) % d = q % d
  <2> DEFINE j == c * e
  <2>1. j \in Int
    OBVIOUS
  <2> HIDE DEF j, q
  <2>2. (q + j * d) % d = q % d
    BY <1>1, <2>1, ModShift
  <2>3. QED
    BY <2>2 DEF j
<1>5. x = w + i * k
  BY <1>2 DEF Above
<1>6. QED
  BY <1>3, <1>4, <1>5 DEF Field

\* Writing a range of bits changes that range and no other.
LEMMA BitsWritten ==
  ASSUME NEW w \in Int, NEW s, InRange(s), NEW part \in 0 .. Power(2, Width(s)) - 1
  PROVE  /\ InsertBits(w, s, part) \in Int
         /\ ExtractBits(InsertBits(w, s, part), s) = part
         /\ \A t : InRange(t) /\ BitsOf(s) \cap BitsOf(t) = {}
                   => ExtractBits(InsertBits(w, s, part), t) = ExtractBits(w, t)
<1> DEFINE k == Power(2, Low(s) - 1)
           d == Power(2, Width(s))
           x == InsertBits(w, s, part)
<1>1. /\ Low(s) \in 1 .. WordBits /\ High(s) \in Low(s) .. WordBits
      /\ Width(s) = High(s) - Low(s) + 1 /\ Width(s) \in Nat \ {0}
      /\ BitsOf(s) = Low(s) .. High(s) /\ WordBits \in Nat
  BY RangeFacts, SizesAssumption
<1>2. Low(s) - 1 \in Nat /\ Width(s) \in Nat
  BY <1>1
<1>3. k \in Nat \ {0} /\ d \in Nat \ {0}
  BY <1>2, PowersOfTwo
<1>4. x = Written(w, k, d, part) /\ part \in 0 .. d - 1
  BY DEF InsertBits, ExtractBits, Written, Field
<1>5. ExtractBits(x, s) = Field(x, k, d)
  BY DEF ExtractBits, Field
<1> HIDE DEF x, k, d
<1>6. /\ x \in Int /\ Field(x, k, d) = part
      /\ KeepsAbove(x, w, k, d)
  BY <1>3, <1>4, FieldWritten
<1>7. ASSUME NEW t, InRange(t), BitsOf(s) \cap BitsOf(t) = {}
      PROVE  ExtractBits(x, t) = ExtractBits(w, t)
  <2> DEFINE l == Power(2, Low(t) - 1)
             b == Power(2, Width(t))
  <2>1. /\ Low(t) \in 1 .. WordBits /\ High(t) \in Low(t) .. WordBits
        /\ Width(t) = High(t) - Low(t) + 1 /\ Width(t) \in Nat \ {0}
        /\ BitsOf(t) = Low(t) .. High(t)
    BY <1>7, RangeFacts
  <2>2. Low(t) - 1 \in Nat /\ Width(t) \in Nat
    BY <1>1, <2>1
  <2>3. l \in Nat \ {0} /\ b \in Nat \ {0}
    BY <2>2, PowersOfTwo
  <2>4. ExtractBits(x, t) = Field(x, l, b) /\ ExtractBits(w, t) = Field(w, l, b)
    BY DEF ExtractBits, Field
  <2>5. High(t) < Low(s) \/ High(s) < Low(t)
    BY <1>1, <1>7, <2>1
  <2>6. CASE High(t) < Low(s)
    <3> DEFINE e == Power(2, Low(s) - 1 - High(t))
    <3>1. Low(s) - 1 - High(t) \in Nat /\ Low(t) - 1 + Width(t) = High(t) /\ High(t) \in Nat
      BY <1>1, <2>1, <2>6
    <3>2. High(t) + (Low(s) - 1 - High(t)) = Low(s) - 1
      BY <1>1, <2>1
    <3>3. Power(2, Low(t) - 1 + Width(t)) = l * b
      BY <2>2, PowerSum
    <3>4. Power(2, High(t) + (Low(s) - 1 - High(t))) = Power(2, High(t)) * e
      BY <3>1, PowerSum
    <3>5. Above(k, l, b, e)
      BY <3>1, <3>2, <3>3, <3>4 DEF k, Above
    <3>6. e \in Nat \ {0}
      BY <3>1, PowersOfTwo
    <3> DEFINE c == part - Field(w, k, d)
    <3>7. c \in Int /\ x = w + c * k
      <4> DEFINE q == w \div k
      <4>1. q \in Int
        BY <1>3, DivMod
      <4>2. q % d \in Int
        <5> HIDE DEF q
        <5>1. q % d \in 0 .. d - 1
          BY <1>3, <4>1, DivMod
        <5>2. QED
          BY <1>3, <5>1
      <4>3. part \in Int
        BY <1>3, <1>4
      <4>4. QED
        BY <1>4, <4>2, <4>3 DEF Written, Field
    <3> HIDE DEF c, e, l, b
    <3>8. Field(x, l, b) = Field(w, l, b)
      BY <2>3, <3>5, <3>6, <3>7, LowerField
    <3>9. QED
      BY <2>4, <3>8
  <2>7. CASE High(s) < Low(t)
    <3> DEFINE e == Power(2, Low(t) - 1 - High(s))
    <3>0. Low(t) \in Int /\ Low(s) \in Int /\ High(s) \in Int /\ High(s) >= 1
      BY <1>1, <2>1
    <3>1. Low(t) - 1 - High(s) \in Nat /\ Low(s) - 1 + Width(s) = High(s) /\ High(s) \in Nat
      BY <1>1, <2>7, <3>0
    <3>2. High(s) + (Low(t) - 1 - High(s)) = Low(t) - 1
      BY <1>1, <2>1
    <3>3. Power(2, Low(s) - 1 + Width(s)) = k * d
      BY <1>2, PowerSum DEF k, d
    <3>4. Power(2, High(s) + (Low(t) - 1 - High(s))) = Power(2, High(s)) * e
      BY <3>1, PowerSum
    <3>5. Above(l, k, d, e)
      BY <3>1, <3>2, <3>3, <3>4 DEF Above
    <3>6. e \in Nat \ {0}
      BY <3>1, PowersOfTwo
    <3> HIDE DEF e, l, b
    <3>7. Field(x, l, b) = Field(w, l, b)
      BY <1>6, <2>3, <3>5, <3>6 DEF KeepsAbove
    <3>8. QED
      BY <2>4, <3>7
  <2>8. QED
    BY <2>5, <2>6, <2>7
<1>8. QED
  BY <1>5, <1>6, <1>7 DEF x

-----------------------------------------------------------------------------
(* Encodings *)

\* What the assumptions say of a parameter.
IsParameter(p) ==
  /\ p.resolution \in Int /\ p.offset \in Int
  /\ p.occurrences \in Seq(Seq(Segment))

LEMMA BaseFacts ==
  /\ Nibble \in Nat \ {0} /\ Base \in 2 .. Nibble /\ Base \in Nat \ {0}
  /\ DigitBits \in Nat \ {0} /\ None \notin Int
<1>1. DigitBits \in Nat \ {0} /\ Base \in 2 .. Power(2, DigitBits) /\ None \notin Int
  BY SizesAssumption
<1>2. Nibble \in Nat \ {0}
  BY <1>1, PowersOfTwo DEF Nibble
<1>3. QED
  BY <1>1, <1>2 DEF Nibble

LEMMA SignedRoundTrip ==
  ASSUME NEW v \in Int, NEW w \in Nat \ {0}, ToTwosComplement(v, w) # None
  PROVE  /\ ToTwosComplement(v, w) \in 0 .. Power(2, w) - 1
         /\ TwosComplement(ToTwosComplement(v, w), w) = v
<1> DEFINE h == Power(2, w - 1)
           d == Power(2, w)
           x == v % d
<1>1. h \in Nat \ {0} /\ d = 2 * h /\ d \in Nat \ {0}
  <2>1. w - 1 \in Nat /\ w - 1 + 1 = w
    OBVIOUS
  <2>2. Power(2, w - 1 + 1) = 2 * Power(2, w - 1)
    BY <2>1, PowerFacts
  <2>3. Power(2, w - 1) \in Nat \ {0}
    BY <2>1, PowersOfTwo
  <2>4. QED
    BY <2>1, <2>2, <2>3
<1>2. v \in -h .. h - 1 /\ ToTwosComplement(v, w) = x
  BY DEF ToTwosComplement
<1>3. TwosComplement(x, w) = IF x >= h THEN x - d ELSE x
  BY DEF TwosComplement
<1> HIDE DEF h, d
<1>4. CASE v >= 0
  <2>1. v = d * 0 + v /\ v \in 0 .. d - 1 /\ 0 \in Int
    BY <1>1, <1>2, <1>4
  <2>2. x = v
    BY <1>1, <2>1, DivUnique
  <2>3. QED
    BY <1>1, <1>2, <1>3, <2>1, <2>2 DEF d
<1>5. CASE v < 0
  <2>1. v = d * (-1) + (v + d) /\ v + d \in 0 .. d - 1 /\ -1 \in Int /\ v + d >= h
    BY <1>1, <1>2, <1>5
  <2>2. x = v + d
    BY <1>1, <2>1, DivUnique
  <2> HIDE DEF x
  <2>3. TwosComplement(x, w) = v
    BY <1>1, <1>3, <2>1, <2>2
  <2>4. QED
    BY <1>2, <2>1, <2>2, <2>3 DEF d
<1>6. QED
  BY <1>4, <1>5

LEMMA DigitCountPositive ==
  ASSUME NEW w \in Nat \ {0}
  PROVE  DigitCount(w) \in Nat \ {0}
<1> DEFINE d == DigitBits
           x == w + d - 1
           q == x \div d
           r == x % d
<1>1. d \in Nat \ {0} /\ x \in Int /\ x >= d
  BY BaseFacts
<1> HIDE DEF d, x
<1>2. q \in Int /\ r \in 0 .. d - 1 /\ x = d * q + r
  BY <1>1, DivMod
<1> HIDE DEF q, r
<1>3. q >= 1
  <2>1. SUFFICES ASSUME q <= 0 PROVE FALSE
    BY <1>2
  <2>2. \A i, j \in Int : i > 0 /\ j <= 0 => i * j <= 0
    OBVIOUS
  <2>3. d * q <= 0
    BY <1>1, <1>2, <2>1, <2>2
  <2>4. d * q \in Int
    BY <1>1, <1>2
  <2>5. QED
    BY <1>1, <1>2, <2>3, <2>4
<1>4. DigitCount(w) = q
  BY DEF DigitCount, q, x, d
<1>5. QED
  BY <1>2, <1>3, <1>4

\* What is encoded as digits is decoded.
LEMMA BcdRoundTrip ==
  ASSUME NEW v \in Int, NEW w \in Nat \ {0}, EncodeBcd(v, w) # None
  PROVE  /\ EncodeBcd(v, w) \in 0 .. Power(2, w) - 1
         /\ DecodeBcd(EncodeBcd(v, w), w) = v
<1> DEFINE c == DigitCount(w)
           digits == DigitsOf(v, Base, c)
           packed == Number(digits, Nibble)
<1>1. c \in Nat
  BY DigitCountPositive
<1>2. v \in 0 .. Power(Base, c) - 1 /\ packed < Power(2, w) /\ EncodeBcd(v, w) = packed
  BY DEF EncodeBcd, FitsDigits
<1>3. DecodeBcd(packed, w) =
        IF \E n \in DOMAIN DigitsOf(packed, Nibble, c) : DigitsOf(packed, Nibble, c)[n] >= Base
        THEN None ELSE Number(DigitsOf(packed, Nibble, c), Base)
  BY DEF DecodeBcd
<1> HIDE DEF c
<1>4. digits \in [1 .. c -> 0 .. Base - 1] /\ Number(digits, Base) = v
  BY <1>1, <1>2, BaseFacts, NumberRoundTrip
<1> HIDE DEF digits
<1>5. digits \in [1 .. c -> 0 .. Nibble - 1]
  BY <1>4, BaseFacts
<1>6. packed \in 0 .. Power(Nibble, c) - 1 /\ DigitsOf(packed, Nibble, c) = digits
  BY <1>1, <1>5, BaseFacts, DigitsRoundTrip
<1>7. packed \in Nat
  <2>1. Power(Nibble, c) \in Nat
    BY <1>1, BaseFacts, PowerPositive
  <2>2. QED
    BY <1>6, <2>1
<1> HIDE DEF packed
<1>8. \A n \in DOMAIN digits : ~(digits[n] >= Base)
  BY <1>4, BaseFacts
<1>9. DecodeBcd(packed, w) = v
  BY <1>3, <1>4, <1>6, <1>8
<1>10. packed \in 0 .. Power(2, w) - 1
  <2>1. Power(2, w) \in Nat
    BY PowersOfTwo
  <2>2. QED
    BY <1>2, <1>7, <2>1
<1>11. QED
  BY <1>2, <1>9, <1>10

\* A number of one digit has no other ones.
LEMMA OneDigit ==
  ASSUME NEW b \in Nat \ {0}, NEW c \in Nat \ {0}, NEW v \in 0 .. b - 1
  PROVE  /\ v \in 0 .. Power(b, c) - 1
         /\ DigitsOf(v, b, c) = [n \in 1 .. c |-> IF n = c THEN v ELSE 0]
<1>1. ASSUME NEW n \in Nat \ {0} PROVE Power(b, n) \in Nat \ {0} /\ v \in 0 .. Power(b, n) - 1
  <2>1. n - 1 \in Nat /\ n - 1 + 1 = n
    OBVIOUS
  <2>2. Power(b, n - 1 + 1) = b * Power(b, n - 1) /\ Power(b, n - 1) \in Nat \ {0}
    BY <2>1, PowerFacts, PowerPositive
  <2> DEFINE i == Power(b, n - 1)
             j == Power(b, n)
  <2>3. i \in Nat \ {0} /\ j = b * i
    BY <2>1, <2>2
  <2> HIDE DEF i, j
  <2>4. \A x, y \in Nat \ {0} : x * y >= x /\ x * y \in Nat
    OBVIOUS
  <2>5. j \in Nat /\ j >= b
    BY <2>3, <2>4
  <2>6. QED
    BY <2>5 DEF j
<1>2. ASSUME NEW n \in 1 .. c
      PROVE  (v \div Power(b, c - n)) % b = IF n = c THEN v ELSE 0
  <2>1. CASE n = c
    <3>1. c - n = 0 /\ Power(b, 0) = 1
      BY <2>1, PowerFacts
    <3>2. v = 1 * v + 0 /\ 0 \in 0 .. 1 - 1 /\ v \in Int
      OBVIOUS
    <3>3. v \div 1 = v
      BY <3>2, DivUnique
    <3>4. v % b = v
      BY DivSmall
    <3>5. QED
      BY <2>1, <3>1, <3>3, <3>4
  <2>2. CASE n # c
    <3>1. c - n \in Nat \ {0}
      BY <2>2
    <3>2. v \div Power(b, c - n) = 0
      BY <1>1, <3>1, DivSmall
    <3>3. 0 % b = 0
      <4>1. 0 \in 0 .. b - 1
        OBVIOUS
      <4>2. QED
        BY <4>1, DivSmall
    <3>4. QED
      BY <2>2, <3>2, <3>3
  <2>3. QED
    BY <2>1, <2>2
<1>3. DigitsOf(v, b, c) = [n \in 1 .. c |-> (v \div Power(b, c - n)) % b]
  BY DEF DigitsOf
<1>4. QED
  BY <1>1, <1>2, <1>3

LEMMA DecodeDigit ==
  ASSUME NEW w \in Nat \ {0}, NEW v \in 0 .. Base - 1
  PROVE  DecodeBcd(v, w) = v
<1> DEFINE c == DigitCount(w)
           digits == DigitsOf(v, Nibble, c)
<1>1. c \in Nat \ {0}
  BY DigitCountPositive
<1>2. DecodeBcd(v, w) = IF \E n \in DOMAIN digits : digits[n] >= Base THEN None ELSE Number(digits, Base)
  BY DEF DecodeBcd
<1> HIDE DEF c
<1>3. v \in 0 .. Nibble - 1
  BY BaseFacts
<1>4. digits = [n \in 1 .. c |-> IF n = c THEN v ELSE 0]
  BY <1>1, <1>3, BaseFacts, OneDigit
<1>5. v \in 0 .. Power(Base, c) - 1 /\ DigitsOf(v, Base, c) = digits
  BY <1>1, <1>4, BaseFacts, OneDigit
<1>6. Number(digits, Base) = v
  BY <1>1, <1>5, BaseFacts, NumberRoundTrip
<1> HIDE DEF digits
<1>7. \A n \in DOMAIN digits : ~(digits[n] >= Base)
  BY <1>4, BaseFacts
<1>8. QED
  BY <1>2, <1>6, <1>7

\* A value is rounded to the nearest pattern.
LEMMA Rounded ==
  ASSUME NEW p, IsParameter(p), p.resolution # 0, NEW value \in Int, NEW unit \in Nat \ {0}
  PROVE  /\ InvertLinear(p, value, unit) \in Int
         /\ unit * InvertLinear(p, value, unit) \in Int
         /\ 2 * Abs(ApplyLinear(p, unit * InvertLinear(p, value, unit)) - value)
              <= Abs(p.resolution) * unit
<1> DEFINE res == p.resolution
           off == p.offset
           a == Abs(res)
           d == a * unit
           n == IF res < 0 THEN off - value ELSE value - off
           q == n \div d
           m == n % d
           k == InvertLinear(p, value, unit)
<1>1. res \in Int /\ res # 0 /\ off \in Int
  BY DEF IsParameter
<1> HIDE DEF res, off
<1>2. a \in Nat \ {0} /\ (res < 0 => a = -res) /\ (res > 0 => a = res)
  BY <1>1 DEF Abs
<1> HIDE DEF a
<1>3. d \in Nat \ {0} /\ n \in Int
  BY <1>1, <1>2
<1>4. k = IF 2 * m > d \/ (2 * m = d /\ q % 2 = 1) THEN q + 1 ELSE q
  BY <1>1 DEF InvertLinear, res, off, a
<1> HIDE DEF k
<1>5. q \in Int /\ m \in 0 .. d - 1 /\ n = d * q + m
  <2> HIDE DEF d, n
  <2>1. QED
    BY <1>3, DivMod
<1> DEFINE e == d * k
<1>6. k \in Int /\ 2 * (e - n) <= d /\ 2 * (n - e) <= d /\ e \in Int
  <2> HIDE DEF q, m, d, n
  <2>1. CASE k = q
    <3>1. 2 * m <= d
      BY <1>3, <1>4, <1>5, <2>1
    <3>2. e = n - m /\ k \in Int
      BY <1>3, <1>5, <2>1
    <3> HIDE DEF e
    <3>3. QED
      BY <1>3, <1>5, <3>1, <3>2
  <2>2. CASE k = q + 1
    <3>1. 2 * m >= d
      BY <1>3, <1>4, <1>5, <2>2
    <3>2. d * (q + 1) = d * q + d
      BY <1>3, <1>5
    <3>3. e = n - m + d /\ k \in Int
      BY <1>3, <1>5, <2>2, <3>2
    <3> HIDE DEF e
    <3>4. QED
      BY <1>3, <1>5, <3>1, <3>3
  <2>3. QED
    BY <1>4, <2>1, <2>2
<1>7. unit * k \in Int
  BY <1>6
<1> DEFINE x == ApplyLinear(p, unit * k) - value
<1>8. x = ((unit * k) * res + off) - value
  BY DEF ApplyLinear, res, off
<1> HIDE DEF x
<1>9. \A i, j, l \in Int : (i * j) * l = (l * i) * j
  OBVIOUS
<1>10. (unit * k) * res = (res * unit) * k
  BY <1>1, <1>6, <1>9
<1>11. CASE res < 0
  <2>1. res = -a /\ n = off - value
    BY <1>1, <1>2, <1>11
  <2>2. \A i, j, l \in Int : ((-i) * j) * l = -((i * j) * l)
    OBVIOUS
  <2>3. (res * unit) * k = -e
    BY <1>2, <1>6, <2>1, <2>2
  <2>4. x = n - e
    BY <1>1, <1>6, <1>8, <1>10, <2>1, <2>3
  <2> HIDE DEF e, n, d
  <2>5. 2 * Abs(x) <= d
    BY <1>3, <1>6, <2>4 DEF Abs
  <2>6. QED
    BY <1>6, <1>7, <2>5 DEF x, k, d, a, res
<1>12. CASE res > 0
  <2>1. res = a /\ n = value - off
    BY <1>1, <1>2, <1>12
  <2>2. (res * unit) * k = e
    BY <2>1
  <2>3. x = e - n
    BY <1>1, <1>6, <1>8, <1>10, <2>1, <2>2
  <2> HIDE DEF e, n, d
  <2>4. 2 * Abs(x) <= d
    BY <1>3, <1>6, <2>3 DEF Abs
  <2>5. QED
    BY <1>6, <1>7, <2>4 DEF x, k, d, a, res
<1>13. QED
  BY <1>1, <1>11, <1>12

LEMMA LeastOf ==
  ASSUME NEW m \in Nat \ {0}, NEW f \in [1 .. m -> Int]
  PROVE  \E j \in 1 .. m : \A n \in 1 .. m : f[j] <= f[n]
<1> DEFINE T == {k \in 0 .. m : k = 0 \/ \E j \in 1 .. k : \A n \in 1 .. k : f[j] <= f[n]}
<1>1. 0 \in T
  OBVIOUS
<1>2. ASSUME NEW k \in 1 .. m, k - 1 \in T PROVE k \in T
  <2>1. CASE k = 1
    BY <2>1
  <2>2. CASE k # 1
    <3>1. PICK j \in 1 .. k - 1 : \A n \in 1 .. k - 1 : f[j] <= f[n]
      BY <1>2, <2>2
    <3>2. f[j] \in Int /\ f[k] \in Int /\ j \in 1 .. k /\ \A n \in 1 .. k : n \in 1 .. k - 1 \/ n = k
      OBVIOUS
    <3>3. CASE f[j] <= f[k]
      BY <3>1, <3>2, <3>3
    <3>4. CASE f[k] < f[j]
      <4>1. \A n \in 1 .. k : f[n] \in Int
        OBVIOUS
      <4>2. \A n \in 1 .. k : f[k] <= f[n]
        BY <3>1, <3>2, <3>4, <4>1
      <4>3. QED
        BY <4>2
    <3>5. QED
      BY <3>2, <3>3, <3>4
  <2>3. QED
    BY <2>1, <2>2
<1>3. m \in T
  <2> HIDE DEF T
  <2>1. m \in Nat /\ m \in 0 .. m
    OBVIOUS
  <2>2. 0 .. m \subseteq T
    BY <1>1, <1>2, <2>1, BoundedInduction
  <2>3. QED
    BY <2>1, <2>2
<1>4. QED
  BY <1>3

Unit(segs) == Min({segs[n].weight : n \in DOMAIN segs})

LEMMA UnitType ==
  ASSUME NEW segs, Sound(segs), segs # <<>>, \A n \in DOMAIN segs : segs[n].weight # None
  PROVE  Unit(segs) \in Int /\ \A n \in DOMAIN segs : segs[n].weight \in Int
<1> DEFINE m == Len(segs)
           f == [n \in 1 .. m |-> segs[n].weight]
           S == {segs[n].weight : n \in DOMAIN segs}
<1>1. m \in Nat \ {0} /\ DOMAIN segs = 1 .. m
  BY DEF Sound
<1>2. ASSUME NEW n \in DOMAIN segs PROVE segs[n].weight \in Int
  <2>1. segs[n] \in Segment
    BY DEF Sound
  <2>2. QED
    BY <2>1 DEF Segment
<1>3. f \in [1 .. m -> Int]
  BY <1>1, <1>2
<1>4. \E j \in 1 .. m : \A n \in 1 .. m : f[j] <= f[n]
  <2> HIDE DEF m, f
  <2>1. QED
    BY <1>1, <1>3, LeastOf
<1>5. \E x \in S : \A y \in S : x <= y
  BY <1>1, <1>4
<1>6. S \subseteq Int
  BY <1>2
<1> HIDE DEF S
<1>7. Min(S) \in S
  BY <1>5 DEF Min
<1>8. QED
  BY <1>2, <1>6, <1>7 DEF Unit, S

\* Each term is a digit of v with the weight that its place gives it.
AreTerms(terms, v, b, c, unit) ==
  /\ Len(terms) = c /\ DOMAIN terms = 1 .. c
  /\ \A n \in 1 .. c : terms[n] = DigitsOf(v, b, c)[n] * (unit * Power(b, c - n))

\* Digits that are weighted by a ladder of powers make up their number.
LEMMA Ladder ==
  ASSUME NEW b \in Nat \ {0}, NEW c \in Nat, NEW v \in 0 .. Power(b, c) - 1, NEW unit \in Int,
         NEW terms, AreTerms(terms, v, b, c, unit)
  PROVE  \A total : total = unit * v => Sum(terms) = total
<1> DEFINE digits == DigitsOf(v, b, c)
           weight == [n \in 0 .. c |-> Power(b, c - n)]
           radix == [n \in 1 .. c |-> b]
           one == [n \in DOMAIN terms |-> 1]
           R == Running(digits, radix)
           S == Sums(terms)
<1>0. /\ Len(terms) = c /\ DOMAIN terms = 1 .. c
      /\ \A n \in 1 .. c : terms[n] = digits[n] * (unit * Power(b, c - n))
  BY DEF AreTerms
<1>1. digits \in [1 .. c -> 0 .. b - 1] /\ Number(digits, b) = v
  BY NumberRoundTrip
<1>2. Len(digits) = c /\ DOMAIN digits = 1 .. c
  BY <1>1
<1>3. R[c] = v
  BY <1>1, <1>2 DEF Number
<1>4. \A n \in 0 .. c : weight[n] \in Int /\ weight[n] = Power(b, c - n)
  <2>1. ASSUME NEW n \in 0 .. c PROVE Power(b, c - n) \in Nat
    <3>1. c - n \in Nat
      OBVIOUS
    <3>2. QED
      BY <3>1, PowerPositive
  <2>2. QED
    BY <2>1
<1>5. IsWeight(weight, radix, c)
  BY PowerWeight
<1>6. \A n \in 1 .. c : radix[n] = b /\ one[n] = 1 /\ radix[n] \in Int /\ one[n] \in Int
  BY <1>0
<1>7. S = Running(terms, one) /\ Sum(terms) = S[c]
  BY <1>0 DEF Sums, Sum
<1>8. \A n \in 1 .. c : digits[n] \in Int /\ terms[n] = digits[n] * (unit * weight[n])
  BY <1>0, <1>1, <1>4
<1> HIDE DEF digits, weight, radix, one, R, S
<1>9. \A n \in 1 .. c : /\ weight[n - 1] = weight[n] * b /\ weight[n] \in Int
                        /\ terms[n] \in Int
  <2>1. ASSUME NEW n \in 1 .. c
        PROVE  weight[n - 1] = weight[n] * b /\ weight[n] \in Int /\ terms[n] \in Int
    <3>1. weight[n - 1] = weight[n] * b
      BY <1>5, <1>6 DEF IsWeight
    <3>2. weight[n] \in Int /\ digits[n] \in Int
      BY <1>4, <1>8
    <3>3. \A x, y, z \in Int : x * (y * z) \in Int
      OBVIOUS
    <3>4. digits[n] * (unit * weight[n]) \in Int
      BY <3>2, <3>3
    <3>5. QED
      BY <1>8, <3>1, <3>2, <3>4
  <2>2. QED
    BY <2>1
<1>10. R \in [0 .. c -> Int] /\ R[0] = 0 /\ \A n \in 1 .. c : R[n] = R[n - 1] * radix[n] + digits[n]
  <2>1. AreNumbers(digits, radix, c)
    BY <1>2, <1>6, <1>8 DEF AreNumbers
  <2>2. IsRunning(R, digits, radix, c)
    BY <2>1, RunningIs DEF R
  <2>3. QED
    BY <2>2 DEF IsRunning
<1>11. S \in [0 .. c -> Int] /\ S[0] = 0 /\ \A n \in 1 .. c : S[n] = S[n - 1] * one[n] + terms[n]
  <2>1. AreNumbers(terms, one, c)
    BY <1>0, <1>6, <1>9 DEF AreNumbers
  <2>2. IsRunning(S, terms, one, c)
    BY <1>7, <2>1, RunningIs
  <2>3. QED
    BY <2>2 DEF IsRunning
<1> DEFINE T == {n \in 0 .. c : S[n] = (unit * weight[n]) * R[n]}
<1>12. 0 \in T
  BY <1>4, <1>10, <1>11
<1>13. ASSUME NEW n \in 1 .. c, n - 1 \in T PROVE n \in T
  <2> DEFINE w == weight[n]
             d == digits[n]
             r == R[n - 1]
  <2>1. n - 1 \in 0 .. c /\ w \in Int /\ d \in Int /\ r \in Int /\ S[n - 1] \in Int
    BY <1>8, <1>9, <1>10, <1>11
  <2>2. S[n] = S[n - 1] + d * (unit * w)
    <3>1. S[n] = S[n - 1] * one[n] + terms[n] /\ one[n] = 1
      BY <1>6, <1>11
    <3>2. terms[n] = d * (unit * w)
      BY <1>8
    <3>3. \A x \in Int : x * 1 = x
      OBVIOUS
    <3>4. QED
      BY <2>1, <3>1, <3>2, <3>3
  <2>3. S[n - 1] = (unit * (w * b)) * r
    BY <1>9, <1>13
  <2>4. R[n] = r * b + d
    BY <1>6, <1>10
  <2> HIDE DEF w, d, r
  <2>5. \A u, x, y, i, j \in Int : (u * (x * y)) * i + j * (u * x) = (u * x) * (i * y + j)
    OBVIOUS
  <2>6. S[n] = (unit * w) * (r * b + d)
    BY <2>1, <2>2, <2>3, <2>5
  <2>7. QED
    BY <2>4, <2>6 DEF w
<1>14. c \in T
  <2> HIDE DEF T
  <2>1. 0 .. c \subseteq T
    BY <1>12, <1>13, BoundedInduction
  <2>2. c \in 0 .. c
    OBVIOUS
  <2>3. QED
    BY <2>1, <2>2
<1>15. weight[c] = 1
  BY <1>5 DEF IsWeight
<1>16. QED
  BY <1>3, <1>7, <1>14, <1>15

\* A weighted value is decoded to its whole number of units.
LEMMA WeightedRoundTrip ==
  ASSUME NEW p, IsParameter(p), NEW segs, Sound(segs), segs # <<>>, Weighted(p, segs),
         NEW value \in Int, WeightedBcdParts(p, segs, value) # None
  PROVE  /\ p.resolution # 0 /\ Unit(segs) \in Nat \ {0}
         /\ DOMAIN WeightedBcdParts(p, segs, value) = DOMAIN segs
         /\ \A n \in DOMAIN segs : WeightedBcdParts(p, segs, value)[n] \in 0 .. Power(2, Width(segs[n])) - 1
         /\ DecodeWeightedBcd(segs, WeightedBcdParts(p, segs, value))
              = Unit(segs) * InvertLinear(p, value, Unit(segs))
<1> DEFINE c == Len(segs)
           unit == Unit(segs)
           v == InvertLinear(p, value, unit)
           digits == DigitsOf(v, Base, c)
           parts == WeightedBcdParts(p, segs, value)
<1>1. c \in Nat /\ DOMAIN segs = 1 .. c
  BY DEF Sound
<1>2. /\ unit > 0 /\ p.resolution # 0 /\ v \in 0 .. Power(Base, c) - 1 /\ parts = digits
      /\ \A n \in DOMAIN segs : segs[n].weight = unit * Power(Base, c - n)
      /\ \A n \in DOMAIN segs : ~(digits[n] >= Power(2, Width(segs[n])))
  BY DEF WeightedBcdParts, Unit
<1>3. unit \in Int /\ \A n \in DOMAIN segs : segs[n].weight \in Int
  BY UnitType DEF Weighted
<1>4. unit \in Nat \ {0}
  BY <1>2, <1>3
<1> HIDE DEF c, unit, v, parts
<1>5. digits \in [1 .. c -> 0 .. Base - 1]
  BY <1>1, <1>2, BaseFacts, NumberRoundTrip
<1>6. DOMAIN digits = DOMAIN segs
  BY <1>1, <1>5
<1> DEFINE terms == [n \in DOMAIN segs |-> digits[n] * segs[n].weight]
<1>7. ASSUME NEW n \in DOMAIN segs
      PROVE  /\ digits[n] \in 0 .. Power(2, Width(segs[n])) - 1
             /\ DecodeBcd(digits[n], Width(segs[n])) = digits[n]
             /\ digits[n] # None
  <2>1. digits[n] \in 0 .. Base - 1
    BY <1>1, <1>5
  <2>2. Width(segs[n]) \in Nat \ {0}
    BY RangeFacts DEF Sound
  <2>3. Power(2, Width(segs[n])) \in Nat
    BY <2>2, PowersOfTwo
  <2>4. digits[n] \in 0 .. Power(2, Width(segs[n])) - 1
    <3> DEFINE d == digits[n]
               l == Power(2, Width(segs[n]))
    <3>1. d \in 0 .. Base - 1 /\ ~(d >= l) /\ l \in Nat
      BY <1>2, <2>1, <2>3
    <3> HIDE DEF d, l
    <3>2. d \in 0 .. l - 1
      BY <3>1, BaseFacts
    <3>3. QED
      BY <3>2 DEF d, l
  <2>5. DecodeBcd(digits[n], Width(segs[n])) = digits[n]
    BY <2>1, <2>2, DecodeDigit
  <2>6. digits[n] # None
    BY <2>1, BaseFacts
  <2>7. QED
    BY <2>4, <2>5, <2>6
<1> HIDE DEF digits
<1>8. DecodeWeightedBcd(segs, digits) = Sum(terms)
  <2>1. [n \in DOMAIN segs |-> DecodeBcd(digits[n], Width(segs[n])) * segs[n].weight] = terms
    BY <1>7
  <2> HIDE DEF terms
  <2>2. QED
    BY <1>7, <2>1 DEF DecodeWeightedBcd
<1>9. Len(terms) = c /\ DOMAIN terms = 1 .. c
  BY <1>1
<1>10. \A n \in 1 .. c : terms[n] = digits[n] * (unit * Power(Base, c - n))
  BY <1>1, <1>2
<1> HIDE DEF terms
<1>11. Sum(terms) = unit * v
  <2>1. AreTerms(terms, v, Base, c, unit)
    BY <1>9, <1>10 DEF AreTerms, digits
  <2>2. Base \in Nat \ {0} /\ v \in 0 .. Power(Base, c) - 1
    BY <1>2, BaseFacts
  <2>3. \A total : total = unit * v => Sum(terms) = total
    BY <1>1, <1>3, <2>1, <2>2, Ladder
  <2>4. QED
    BY <2>3
<1>12. QED
  BY <1>2, <1>4, <1>6, <1>7, <1>8, <1>11 DEF parts, unit, v

\* A pattern fits its field.
LEMMA UnsignedFits ==
  ASSUME NEW v, NEW w, ToUnsigned(v, w) # None
  PROVE  ToUnsigned(v, w) = v /\ v \in 0 .. Power(2, w) - 1
  BY DEF ToUnsigned

\* A pattern, where there is one, fits its field and is decoded to the value.
LEMMA PatternRoundTrip ==
  ASSUME NEW p, IsParameter(p), ~ResolutionError(p), NEW value \in Int,
         NEW w \in Nat \ {0}, Pattern(p, value, w) # None
  PROVE  /\ Pattern(p, value, w) \in 0 .. Power(2, w) - 1
         /\ p.type \in Numeric \cup {"raw", "discrete"}
         /\ p.type = "signed" => TwosComplement(Pattern(p, value, w), w) = InvertLinear(p, value, 1)
         /\ p.type = "bcd" => DecodeBcd(Pattern(p, value, w), w) = InvertLinear(p, value, 1)
         /\ p.type = "unsigned" => Pattern(p, value, w) = InvertLinear(p, value, 1)
         /\ p.type \in {"raw", "discrete"} => Pattern(p, value, w) = value
         /\ p.type = "discrete" => value \in {0, 1}
<1> DEFINE raw == InvertLinear(p, value, 1)
           x == Pattern(p, value, w)
<1>1. p.type \in Numeric => p.resolution # 0 /\ raw \in Int
  <2>1. 1 \in Nat \ {0}
    OBVIOUS
  <2>2. QED
    BY <2>1, Rounded DEF ResolutionError
<1>2. \/ p.type = "signed" /\ x = ToTwosComplement(raw, w)
      \/ p.type = "bcd" /\ x = EncodeBcd(raw, w)
      \/ p.type = "unsigned" /\ x = ToUnsigned(raw, w)
      \/ p.type = "raw" /\ x = ToUnsigned(value, w)
      \/ p.type = "discrete" /\ value \in {0, 1} /\ x = ToUnsigned(value, w)
  BY DEF Pattern, Numeric
<1>3. x # None
  OBVIOUS
<1> HIDE DEF raw, x
<1>4. CASE p.type = "signed"
  <2>1. x = ToTwosComplement(raw, w) /\ raw \in Int
    BY <1>1, <1>2, <1>4 DEF Numeric
  <2>2. x \in 0 .. Power(2, w) - 1 /\ TwosComplement(x, w) = raw
    BY <1>3, <2>1, SignedRoundTrip
  <2>3. QED
    BY <1>4, <2>2 DEF x, raw, Numeric
<1>5. CASE p.type = "bcd"
  <2>1. x = EncodeBcd(raw, w) /\ raw \in Int
    BY <1>1, <1>2, <1>5 DEF Numeric
  <2>2. x \in 0 .. Power(2, w) - 1 /\ DecodeBcd(x, w) = raw
    BY <1>3, <2>1, BcdRoundTrip
  <2>3. QED
    BY <1>5, <2>2 DEF x, raw, Numeric
<1>6. CASE p.type = "unsigned"
  <2>1. x = ToUnsigned(raw, w)
    BY <1>2, <1>6
  <2>2. x = raw /\ x \in 0 .. Power(2, w) - 1
    BY <1>3, <2>1, UnsignedFits
  <2>3. QED
    BY <1>6, <2>2 DEF x, raw, Numeric
<1>7. CASE p.type \in {"raw", "discrete"}
  <2>1. x = ToUnsigned(value, w) /\ (p.type = "discrete" => value \in {0, 1})
    BY <1>2, <1>7
  <2>2. x = value /\ x \in 0 .. Power(2, w) - 1
    BY <1>3, <2>1, UnsignedFits
  <2>3. QED
    BY <1>7, <2>1, <2>2 DEF x, Numeric
<1>8. QED
  BY <1>2, <1>4, <1>5, <1>6, <1>7

IsPartsOf(parts, segs) ==
  /\ DOMAIN parts = DOMAIN segs
  /\ \A n \in DOMAIN segs : parts[n] \in 0 .. Power(2, Width(segs[n])) - 1

\* The engineering value that parts hold is within half a step of value.
Within(p, segs, parts, value) ==
  /\ p.type # "unknown" /\ Decoded(p, segs, parts) # None
  /\ 2 * Abs(Engineering(p, Decoded(p, segs, parts)) - value) <= Step(p, segs)

\* The parts of a value, where there are some, fit their segments and are
\* decoded to within half a step of the value.
LEMMA PartsRoundTrip ==
  ASSUME NEW p, IsParameter(p), ~ResolutionError(p), NEW segs, Sound(segs),
         NEW value \in Int, Parts(p, segs, value) # None
  PROVE  /\ IsPartsOf(Parts(p, segs, value), segs)
         /\ Within(p, segs, Parts(p, segs, value), value)
<1> DEFINE parts == Parts(p, segs, value)
           x == Decoded(p, segs, parts)
<1>0. segs # <<>> /\ None \notin Int /\ p.resolution \in Int
  BY BaseFacts DEF Parts, IsParameter
<1>1. CASE Weighted(p, segs)
  <2> DEFINE u == Unit(segs)
             v == InvertLinear(p, value, u)
  <2>1. parts = WeightedBcdParts(p, segs, value) /\ parts # None
    BY <1>0, <1>1 DEF Parts
  <2>2. /\ p.resolution # 0 /\ u \in Nat \ {0}
        /\ IsPartsOf(parts, segs) /\ DecodeWeightedBcd(segs, parts) = u * v
    BY <1>0, <1>1, <2>1, WeightedRoundTrip DEF IsPartsOf
  <2> HIDE DEF parts, u
  <2>3. /\ u * v \in Int
        /\ 2 * Abs(ApplyLinear(p, u * v) - value) <= Abs(p.resolution) * u
    BY <2>2, Rounded
  <2>4. p.type = "bcd" /\ p.type \in Numeric /\ p.type # "unknown"
    BY <1>1 DEF Weighted, Numeric
  <2>5. x = u * v
    BY <1>1, <2>2, <2>4 DEF Decoded
  <2> HIDE DEF x, v
  <2>6. Engineering(p, x) = ApplyLinear(p, x)
    BY <2>4 DEF Engineering, Numeric
  <2>7. Step(p, segs) = Abs(p.resolution) * u
    BY <1>1, <2>4 DEF Step, Unit, u
  <2>8. Within(p, segs, parts, value)
    BY <1>0, <2>3, <2>4, <2>5, <2>6, <2>7 DEF Within, x
  <2>9. QED
    BY <2>2, <2>8 DEF parts
<1>2. CASE ~Weighted(p, segs)
  <2> DEFINE w == TotalWidth(segs)
             pattern == Pattern(p, value, w)
             k == InvertLinear(p, value, 1)
  <2>1. w \in Nat \ {0}
    BY <1>0, TotalWidthPositive
  <2>2. pattern # None /\ parts = Split(pattern, segs)
    BY <1>0, <1>2 DEF Parts
  <2> HIDE DEF w, parts
  <2>3. /\ pattern \in 0 .. Power(2, w) - 1
        /\ p.type \in Numeric \cup {"raw", "discrete"}
        /\ p.type = "signed" => TwosComplement(pattern, w) = k
        /\ p.type = "bcd" => DecodeBcd(pattern, w) = k
        /\ p.type = "unsigned" => pattern = k
        /\ p.type \in {"raw", "discrete"} => pattern = value
        /\ p.type = "discrete" => value \in {0, 1}
    BY <2>1, <2>2, PatternRoundTrip
  <2> HIDE DEF pattern, k
  <2>4. IsPartsOf(parts, segs) /\ Assemble(parts, segs) = pattern
    BY <2>2, <2>3, SplitRoundTrip DEF IsPartsOf, w
  <2>5. x = CASE p.type = "signed" -> TwosComplement(pattern, w)
              [] p.type = "bcd"    -> DecodeBcd(pattern, w)
              [] OTHER             -> pattern
    BY <1>2, <2>4 DEF Decoded, w
  <2> HIDE DEF x
  <2>6. CASE p.type \in Numeric
    <3>1. x = k
      BY <2>3, <2>5, <2>6 DEF Numeric
    <3>2. p.resolution # 0 /\ 1 \in Nat \ {0}
      BY <2>6 DEF ResolutionError
    <3>3. /\ k \in Int
          /\ 2 * Abs(ApplyLinear(p, 1 * k) - value) <= Abs(p.resolution) * 1
      BY <3>2, Rounded DEF k
    <3>4. 1 * k = k
      BY <3>3
    <3>5. Engineering(p, x) = ApplyLinear(p, x) /\ p.type # "unknown"
      BY <2>6 DEF Engineering, Numeric
    <3>6. Step(p, segs) = Abs(p.resolution) * 1
      BY <1>2, <2>6 DEF Step
    <3>7. Within(p, segs, parts, value)
      BY <1>0, <3>1, <3>3, <3>4, <3>5, <3>6 DEF Within, x
    <3>8. QED
      BY <2>4, <3>7 DEF parts
  <2>7. CASE p.type \in {"raw", "discrete"}
    <3>1. x = value
      BY <2>3, <2>5, <2>7
    <3>2. Engineering(p, x) = value
      BY <2>3, <2>7, <3>1 DEF Engineering, Numeric
    <3>3. Step(p, segs) = 0 /\ p.type # "unknown"
      BY <2>7 DEF Step, Numeric
    <3>4. 2 * Abs(value - value) <= 0
      BY DEF Abs
    <3>5. Within(p, segs, parts, value)
      BY <1>0, <3>1, <3>2, <3>3, <3>4 DEF Within, x
    <3>6. QED
      BY <2>4, <3>5 DEF parts
  <2>8. QED
    BY <2>3, <2>6, <2>7
<1>3. QED
  BY <1>1, <1>2

-----------------------------------------------------------------------------
(* Mappings *)

ParameterInv == parameter \in Parameters

LEMMA ParameterInvariant == Spec => []ParameterInv
<1>1. Init => ParameterInv
  BY DEF Init, ParameterInv
<1>2. ParameterInv /\ [Next]_vars => ParameterInv'
  BY DEF ParameterInv, Next, vars, BlankFrame, ApplyScenario, BuildEngineeringFrame,
     EncodeScenario, DropScenario, EncodeSignal
<1>3. QED
  BY <1>1, <1>2, PTL DEF Spec

LEMMA ParameterType ==
  ASSUME ParameterInv
  PROVE  Which = {1, 2} /\ \A i \in Which : IsParameter(parameter[i])
  BY ParametersAssumption DEF ParameterInv, Which, IsParameter

LEMMA OccurrenceType ==
  ASSUME NEW p, IsParameter(p), NEW occ \in DOMAIN p.occurrences
  PROVE  /\ p.occurrences[occ] \in Seq(Segment)
         /\ DOMAIN p.occurrences[occ] = 1 .. Len(p.occurrences[occ])
         /\ Len(p.occurrences[occ]) \in Nat
         /\ \A n \in DOMAIN p.occurrences[occ] : p.occurrences[occ][n] \in Segment
<1>1. p.occurrences \in Seq(Seq(Segment))
  BY DEF IsParameter
<1>2. p.occurrences[occ] \in Seq(Segment)
  BY <1>1
<1>3. QED
  BY <1>2

\* The segments of an occurrence agree when they all name the same subframes,
\* and there are some.
LEMMA AgreedFacts ==
  ASSUME NEW segs \in Seq(Segment)
  PROVE  /\ Agreed(segs) <=> /\ segs # <<>>
                             /\ \A n \in DOMAIN segs : segs[n].subframes = segs[1].subframes
                             /\ segs[1].subframes # {}
         /\ Cardinality(SubframeSets(segs)) > 1
              <=> \E m, n \in DOMAIN segs : segs[m].subframes # segs[n].subframes
<1> DEFINE S == SubframeSets(segs)
<1>1. DOMAIN segs = 1 .. Len(segs) /\ Len(segs) \in Nat
  OBVIOUS
<1>2. \A x : x \in S <=> \E n \in DOMAIN segs : x = segs[n].subframes
  BY DEF SubframeSets
<1>3. IsFiniteSet(S) /\ Cardinality(S) \in Nat
  <2>1. IsFiniteSet(DOMAIN segs)
    BY <1>1, FS_Interval
  <2> DEFINE of == [n \in DOMAIN segs |-> segs[n].subframes]
  <2>2. of \in Surjection(DOMAIN segs, S)
    BY <1>2 DEF Surjection
  <2> HIDE DEF S, of
  <2>3. IsFiniteSet(S)
    BY <2>1, <2>2, FS_Surjection
  <2>4. QED
    BY <2>3, FS_CardinalityType
<1> HIDE DEF S
<1>4. Cardinality(S) = 0 <=> S = {}
  BY <1>3, FS_EmptySet
<1>5. Cardinality(S) = 1 <=> \E x : S = {x}
  BY <1>3, FS_Singleton
<1>6. S = {} <=> segs = <<>>
  <2>1. segs = <<>> <=> Len(segs) = 0
    OBVIOUS
  <2>2. Len(segs) = 0 <=> DOMAIN segs = {}
    BY <1>1
  <2>3. QED
    BY <1>2, <2>1, <2>2
<1>7. segs # <<>> => 1 \in DOMAIN segs
  BY <1>1
<1>8. (\E x : S = {x}) <=> /\ segs # <<>>
                          /\ \A n \in DOMAIN segs : segs[n].subframes = segs[1].subframes
  <2>1. ASSUME NEW x, S = {x}
        PROVE  segs # <<>> /\ \A n \in DOMAIN segs : segs[n].subframes = segs[1].subframes
    <3>1. segs # <<>>
      BY <1>6, <2>1
    <3>2. \A n \in DOMAIN segs : segs[n].subframes = x
      BY <1>2, <2>1
    <3>3. QED
      BY <1>7, <3>1, <3>2
  <2>2. ASSUME segs # <<>>, \A n \in DOMAIN segs : segs[n].subframes = segs[1].subframes
        PROVE  S = {segs[1].subframes}
    BY <1>2, <1>7, <2>2
  <2>3. QED
    BY <2>1, <2>2
<1>9. Cardinality(S) > 1 <=> S # {} /\ ~ \E x : S = {x}
  <2> DEFINE c == Cardinality(S)
             one == \E x : S = {x}
  <2>1. c \in Nat /\ (c = 0 <=> S = {}) /\ (c = 1 <=> one)
    BY <1>3, <1>4, <1>5
  <2> HIDE DEF c, one
  <2>2. c > 1 <=> S # {} /\ ~one
    BY <2>1
  <2>3. QED
    BY <2>2 DEF c, one
<1>10. Agreed(segs) <=> Cardinality(S) = 1 /\ {} \notin S
  BY DEF Agreed, S
<1>11. Cardinality(SubframeSets(segs)) > 1 <=> Cardinality(S) > 1
  BY DEF S
<1>12. QED
  <2>1. Agreed(segs) <=> /\ segs # <<>>
                         /\ \A n \in DOMAIN segs : segs[n].subframes = segs[1].subframes
                         /\ segs[1].subframes # {}
    BY <1>2, <1>5, <1>7, <1>8, <1>10, Zenon
  <2>2. S # {} /\ ~(\E x : S = {x}) <=> \E m, n \in DOMAIN segs : segs[m].subframes # segs[n].subframes
    BY <1>2, <1>6, <1>7, <1>8, Zenon
  <2>3. QED
    BY <1>9, <1>11, <2>1, <2>2, Zenon

LEMMA InSegments ==
  ASSUME NEW p
  PROVE  \A s : s \in Segments(p) <=>
                  \E occ \in DOMAIN p.occurrences :
                    \E n \in DOMAIN p.occurrences[occ] : s = p.occurrences[occ][n]
  BY DEF Segments

\* A segment that can be read and written in the subframes it names
SoundSegment(s) ==
  /\ InRange(s) /\ s.word \in Words
  /\ s.subframes # {} /\ s.subframes \subseteq Subframes

\* A mapping without errors
LEMMA NoMappingErrors ==
  ASSUME NEW p, IsParameter(p)
  PROVE  ~MappingErrors(p) <=>
           /\ p.occurrences # <<>>
           /\ \A occ \in DOMAIN p.occurrences :
                /\ Agreed(p.occurrences[occ])
                /\ \A n \in DOMAIN p.occurrences[occ] : SoundSegment(p.occurrences[occ][n])
<1> DEFINE Occ == DOMAIN p.occurrences
           Bad == \E s \in Segments(p) : ~SoundSegment(s)
           Mixed(occ) == Cardinality(SubframeSets(p.occurrences[occ])) > 1
<1>1. MappingErrors(p) <=>
        p.occurrences = <<>> \/ (\E occ \in Occ : p.occurrences[occ] = <<>> \/ Mixed(occ)) \/ Bad
  BY DEF MappingErrors, SoundSegment
<1>2. Bad <=> \E occ \in Occ : \E n \in DOMAIN p.occurrences[occ] : ~SoundSegment(p.occurrences[occ][n])
  BY InSegments
<1> HIDE DEF Bad
<1>3. ASSUME NEW occ \in Occ
      PROVE  /\ p.occurrences[occ] = <<>> \/ Mixed(occ) => ~Agreed(p.occurrences[occ])
             /\ ~Agreed(p.occurrences[occ]) =>
                  \/ p.occurrences[occ] = <<>> \/ Mixed(occ)
                  \/ \E n \in DOMAIN p.occurrences[occ] : ~SoundSegment(p.occurrences[occ][n])
  <2> DEFINE segs == p.occurrences[occ]
  <2>1. segs \in Seq(Segment) /\ (segs # <<>> => 1 \in DOMAIN segs)
    BY OccurrenceType
  <2> HIDE DEF segs
  <2>2. Agreed(segs) <=> /\ segs # <<>>
                         /\ \A n \in DOMAIN segs : segs[n].subframes = segs[1].subframes
                         /\ segs[1].subframes # {}
    BY <2>1, AgreedFacts
  <2>3. Cardinality(SubframeSets(segs)) > 1
          <=> \E m, n \in DOMAIN segs : segs[m].subframes # segs[n].subframes
    BY <2>1, AgreedFacts
  <2>4. segs = <<>> \/ Cardinality(SubframeSets(segs)) > 1 => ~Agreed(segs)
    BY <2>2, <2>3, Zenon
  <2>5. ~Agreed(segs) => \/ segs = <<>> \/ Cardinality(SubframeSets(segs)) > 1
                         \/ \E n \in DOMAIN segs : ~SoundSegment(segs[n])
    BY <2>1, <2>2, <2>3, Zenon DEF SoundSegment
  <2>6. QED
    BY <2>4, <2>5 DEF segs
<1> HIDE DEF Mixed, Occ
<1>4. QED
  BY <1>1, <1>2, <1>3, Zenon DEF Occ

LEMMA SampleFacts ==
  ASSUME NEW f, NEW p, NEW occ, NEW sf
  PROVE  /\ DecodeSample(f, p, occ, sf).occurrence = occ
         /\ DecodeSample(f, p, occ, sf).subframe = sf
         /\ DecodeSample(f, p, occ, sf).status = "INVALID_MAPPING" <=> Unreadable(p.occurrences[occ], sf)
  BY DEF DecodeSample, Sample, Wrong

\* The samples of a parameter, by occurrence and subframe
LEMMA InParameter ==
  ASSUME NEW f, NEW p, p.occurrences # <<>>
  PROVE  \A s : s \in DecodeParameter(f, p) <=>
                  \E occ \in DOMAIN p.occurrences : s \in DecodeOccurrence(f, p, occ)
  BY DEF DecodeParameter

LEMMA InOccurrence ==
  ASSUME NEW f, NEW p, NEW occ
  PROVE  \A s : s \in DecodeOccurrence(f, p, occ) <=>
                  IF Agreed(p.occurrences[occ])
                  THEN \E sf \in p.occurrences[occ][1].subframes : s = DecodeSample(f, p, occ, sf)
                  ELSE s = Wrong(occ, 0, "INVALID_MAPPING")
  BY DEF DecodeOccurrence

\* The samples that come with one subframe of the live view
OfSubframe(f, p, occ, sf) ==
  IF ~Agreed(p.occurrences[occ])
  THEN IF sf = 1 THEN DecodeOccurrence(f, p, occ) ELSE {}
  ELSE IF sf \in p.occurrences[occ][1].subframes THEN {DecodeSample(f, p, occ, sf)} ELSE {}

LEMMA InSubframe ==
  ASSUME NEW f, NEW p, NEW sf, p.occurrences # <<>>
  PROVE  \A s : s \in DecodeSubframe(f, p, sf) <=>
                  \E occ \in DOMAIN p.occurrences : s \in OfSubframe(f, p, occ, sf)
  BY DEF DecodeSubframe, OfSubframe, ReportsErrors

\* A parameter has an invalid sample exactly when its mapping has an error.
LEMMA ErrorsForetold ==
  ASSUME NEW f, NEW p, IsParameter(p)
  PROVE  (\E s \in DecodeParameter(f, p) : s.status = "INVALID_MAPPING") <=> MappingErrors(p)
<1>1. CASE p.occurrences = <<>>
  <2>1. Wrong(0, 0, "INVALID_MAPPING") \in DecodeParameter(f, p)
    BY <1>1 DEF DecodeParameter
  <2>2. Wrong(0, 0, "INVALID_MAPPING").status = "INVALID_MAPPING"
    BY DEF Wrong, Sample
  <2>3. QED
    BY <1>1, <2>1, <2>2 DEF MappingErrors
<1>2. CASE p.occurrences # <<>>
  <2>1. ~MappingErrors(p) <=>
          \A occ \in DOMAIN p.occurrences :
            /\ Agreed(p.occurrences[occ])
            /\ \A n \in DOMAIN p.occurrences[occ] : SoundSegment(p.occurrences[occ][n])
    BY <1>2, NoMappingErrors
  <2>2. ASSUME NEW s \in DecodeParameter(f, p), s.status = "INVALID_MAPPING", ~MappingErrors(p)
        PROVE  FALSE
    <3>1. PICK occ \in DOMAIN p.occurrences : s \in DecodeOccurrence(f, p, occ)
      BY <1>2, <2>2, InParameter
    <3> DEFINE segs == p.occurrences[occ]
    <3>2. Agreed(segs) /\ \A n \in DOMAIN segs : SoundSegment(segs[n])
      BY <2>1, <2>2
    <3>3. PICK sf \in segs[1].subframes : s = DecodeSample(f, p, occ, sf)
      BY <3>1, <3>2, InOccurrence
    <3>4. Unreadable(segs, sf)
      BY <2>2, <3>3, SampleFacts
    <3>5. segs \in Seq(Segment) /\ segs # <<>> /\ 1 \in DOMAIN segs
      BY <3>2, OccurrenceType, AgreedFacts
    <3>6. sf \in Subframes
      BY <3>2, <3>5 DEF SoundSegment
    <3>7. QED
      BY <3>2, <3>4, <3>6 DEF Unreadable, SoundSegment
  <2>3. ASSUME MappingErrors(p)
        PROVE  \E s \in DecodeParameter(f, p) : s.status = "INVALID_MAPPING"
    <3>1. PICK occ \in DOMAIN p.occurrences :
            ~ /\ Agreed(p.occurrences[occ])
              /\ \A n \in DOMAIN p.occurrences[occ] : SoundSegment(p.occurrences[occ][n])
      BY <2>1, <2>3
    <3> DEFINE segs == p.occurrences[occ]
    <3>2. CASE ~Agreed(segs)
      <4>1. Wrong(occ, 0, "INVALID_MAPPING") \in DecodeParameter(f, p)
        BY <1>2, <3>2, InParameter, InOccurrence
      <4>2. Wrong(occ, 0, "INVALID_MAPPING").status = "INVALID_MAPPING"
        BY DEF Wrong, Sample
      <4>3. QED
        BY <4>1, <4>2
    <3>3. CASE Agreed(segs)
      <4>1. segs \in Seq(Segment)
        BY OccurrenceType
      <4>2. /\ segs[1].subframes # {}
            /\ \A n \in DOMAIN segs : segs[n].subframes = segs[1].subframes
        BY <3>3, <4>1, AgreedFacts
      <4>3. PICK n \in DOMAIN segs : ~SoundSegment(segs[n])
        BY <3>1, <3>3
      <4>4. PICK sf \in segs[1].subframes : Unreadable(segs, sf)
        BY <4>2, <4>3 DEF Unreadable, SoundSegment
      <4>5. DecodeSample(f, p, occ, sf) \in DecodeParameter(f, p)
        BY <1>2, <3>3, InParameter, InOccurrence
      <4>6. DecodeSample(f, p, occ, sf).status = "INVALID_MAPPING"
        BY <4>4, SampleFacts
      <4>7. QED
        BY <4>5, <4>6
    <3>4. QED
      BY <3>2, <3>3
  <2>4. QED
    BY <2>2, <2>3
<1>3. QED
  BY <1>1, <1>2

\* Subframe by subframe, the live view decodes what the whole frame holds.
LEMMA LiveIsWhole ==
  ASSUME NEW f, NEW p, IsParameter(p), \A s \in Segments(p) : s.subframes \subseteq Subframes
  PROVE  UNION {DecodeSubframe(f, p, sf) : sf \in Subframes} = DecodeParameter(f, p)
<1> DEFINE Live == UNION {DecodeSubframe(f, p, sf) : sf \in Subframes}
<1>0. 1 \in Subframes
  BY SizesAssumption DEF Subframes
<1>1. CASE p.occurrences = <<>>
  <2>1. \A sf \in Subframes : DecodeSubframe(f, p, sf) = IF sf = 1 THEN DecodeParameter(f, p) ELSE {}
    BY <1>1 DEF DecodeSubframe, ReportsErrors
  <2>2. \A s : s \in Live <=> \E sf \in Subframes : s \in DecodeSubframe(f, p, sf)
    OBVIOUS
  <2> HIDE DEF Live
  <2>3. \A s : s \in Live <=> s \in DecodeParameter(f, p)
    BY <1>0, <2>1, <2>2
  <2>4. Live = DecodeParameter(f, p)
    BY <2>3
  <2>5. QED
    BY <2>4 DEF Live
<1>2. CASE p.occurrences # <<>>
  <2> DEFINE Occ == DOMAIN p.occurrences
  <2>1. \A s : s \in Live <=> \E sf \in Subframes : s \in DecodeSubframe(f, p, sf)
    OBVIOUS
  <2> HIDE DEF Live
  <2>2. \A s : s \in Live <=> \E sf \in Subframes : \E occ \in Occ : s \in OfSubframe(f, p, occ, sf)
    BY <1>2, <2>1, InSubframe
  <2>3. ASSUME NEW occ \in Occ
        PROVE  \A s : s \in DecodeOccurrence(f, p, occ)
                        <=> \E sf \in Subframes : s \in OfSubframe(f, p, occ, sf)
    <3> DEFINE segs == p.occurrences[occ]
    <3>1. CASE ~Agreed(segs)
      BY <1>0, <3>1 DEF OfSubframe
    <3>2. CASE Agreed(segs)
      <4>1. segs \in Seq(Segment) /\ segs # <<>> /\ 1 \in DOMAIN segs
        BY <3>2, OccurrenceType, AgreedFacts
      <4>2. segs[1] \in Segments(p)
        BY <4>1, InSegments
      <4>3. segs[1].subframes \subseteq Subframes
        BY <4>2
      <4>4. \A s : s \in DecodeOccurrence(f, p, occ)
                     <=> \E sf \in segs[1].subframes : s = DecodeSample(f, p, occ, sf)
        BY <3>2, InOccurrence
      <4>5. \A sf : OfSubframe(f, p, occ, sf)
                      = IF sf \in segs[1].subframes THEN {DecodeSample(f, p, occ, sf)} ELSE {}
        BY <3>2 DEF OfSubframe
      <4>6. QED
        BY <4>3, <4>4, <4>5
    <3>3. QED
      BY <3>1, <3>2
  <2>4. \A s : s \in Live <=> s \in DecodeParameter(f, p)
    BY <1>2, <2>2, <2>3, InParameter
  <2>5. Live = DecodeParameter(f, p)
    BY <2>4
  <2>6. QED
    BY <2>5 DEF Live
<1>3. QED
  BY <1>1, <1>2

\* Three ideas of a mapping agree, in every state: the samples that are
\* INVALID_MAPPING, the validator's errors, and the live view.
THEOREM LiveViewAgrees == Spec => []LiveAgrees
<1>1. ParameterInv => LiveAgrees
  BY ParameterType, ErrorsForetold, LiveIsWhole DEF LiveAgrees
<1>2. QED
  BY <1>1, ParameterInvariant, PTL

-----------------------------------------------------------------------------
(* Encoding *)

Frames == [Subframes \X Words -> Int]

\* What a segment holds in a subframe
Holding(f, t, sf) == ExtractBits(f[<<sf, t.word>>], t)

\* Writing s writes bits of t in subframe sf.
Touches(s, t, sf, only) ==
  sf \in Selected(s, only) /\ s.word = t.word /\ BitsOf(s) \cap BitsOf(t) # {}

LEMMA SegmentWritten ==
  ASSUME NEW f \in Frames, NEW s, SoundSegment(s), NEW part \in 0 .. Power(2, Width(s)) - 1, NEW only
  PROVE  /\ Write(f, s, part, only) \in Frames
         /\ \A t, sf : SoundSegment(t) /\ sf \in Subframes /\ ~Touches(s, t, sf, only)
              => Holding(Write(f, s, part, only), t, sf) = Holding(f, t, sf)
         /\ \A sf \in Subframes : sf \in Selected(s, only)
              => Holding(Write(f, s, part, only), s, sf) = part
<1> DEFINE A == Subframes \X Words
           g == Write(f, s, part, only)
           Chosen(a) == a[1] \in Selected(s, only) /\ a[2] = s.word
<1>1. g = [a \in A |-> IF Chosen(a) THEN InsertBits(f[a], s, part) ELSE f[a]]
  BY DEF Write, Frames
<1>2. InRange(s) /\ s.word \in Words
  BY DEF SoundSegment
<1>3. \A a \in A : f[a] \in Int
  BY DEF Frames
<1>4. \A a \in A : InsertBits(f[a], s, part) \in Int
  BY <1>2, <1>3, BitsWritten
<1>5. g \in Frames
  BY <1>1, <1>3, <1>4 DEF Frames
<1> HIDE DEF g
<1>6. ASSUME NEW t, NEW sf \in Subframes, SoundSegment(t), ~Touches(s, t, sf, only)
      PROVE  Holding(g, t, sf) = Holding(f, t, sf)
  <2> DEFINE a == <<sf, t.word>>
  <2>1. a \in A /\ a[1] = sf /\ a[2] = t.word
    BY <1>6 DEF SoundSegment
  <2>2. f[a] \in Int
    BY <1>3, <2>1
  <2>3. g[a] = IF Chosen(a) THEN InsertBits(f[a], s, part) ELSE f[a]
    BY <1>1, <2>1
  <2>4. Holding(g, t, sf) = ExtractBits(g[a], t) /\ Holding(f, t, sf) = ExtractBits(f[a], t)
    BY DEF Holding
  <2>5. CASE ~Chosen(a)
    BY <2>3, <2>4, <2>5
  <2>6. CASE Chosen(a)
    <3>1. BitsOf(s) \cap BitsOf(t) = {} /\ InRange(t)
      BY <1>6, <2>1, <2>6 DEF Touches, SoundSegment
    <3>2. ExtractBits(InsertBits(f[a], s, part), t) = ExtractBits(f[a], t)
      BY <1>2, <2>2, <3>1, BitsWritten
    <3>3. QED
      BY <2>3, <2>4, <2>6, <3>2
  <2>7. QED
    BY <2>5, <2>6
<1>7. ASSUME NEW sf \in Subframes, sf \in Selected(s, only)
      PROVE  Holding(g, s, sf) = part
  <2> DEFINE a == <<sf, s.word>>
  <2>1. a \in A /\ a[1] = sf /\ a[2] = s.word
    BY <1>2
  <2>2. f[a] \in Int
    BY <1>3, <2>1
  <2>3. g[a] = InsertBits(f[a], s, part)
    BY <1>1, <1>7, <2>1
  <2>4. ExtractBits(InsertBits(f[a], s, part), s) = part
    BY <1>2, <2>2, BitsWritten
  <2>5. Holding(g, s, sf) = ExtractBits(g[a], s)
    BY DEF Holding
  <2>6. QED
    BY <2>3, <2>4, <2>5
<1>8. QED
  BY <1>5, <1>6, <1>7 DEF g

\* A mapping that can be written in all the subframes it names
Writable(segs) == segs \in Seq(Segment) /\ \A n \in DOMAIN segs : SoundSegment(segs[n])

LEMMA AllWritable ==
  ASSUME NEW segs, Writable(segs), NEW only
  PROVE  Unwritable(segs, only) = {}
  BY DEF Unwritable, Writable, SoundSegment, Selected

\* The frames while the segments of an occurrence are written
IsWriting(g, f, segs, parts, only) ==
  /\ g \in [0 .. Len(segs) -> Frames] /\ g[0] = f
  /\ \A n \in 1 .. Len(segs) : g[n] = Write(g[n - 1], segs[n], parts[n], only)

LEMMA WritingExists ==
  ASSUME NEW f \in Frames, NEW p, NEW segs, Writable(segs), NEW value, NEW only,
         Parts(p, segs, value) # None, IsPartsOf(Parts(p, segs, value), segs)
  PROVE  \E g : /\ IsWriting(g, f, segs, Parts(p, segs, value), only)
                /\ EncodeOccurrence(f, p, segs, value, only) = Result(g[Len(segs)], TRUE)
<1> DEFINE parts == Parts(p, segs, value)
           m == Len(segs)
           Is(g) == g = [n \in 0 .. m |-> IF n = 0 THEN f ELSE Write(g[n - 1], segs[n], parts[n], only)]
           step == [n \in 1 .. m |-> [x \in Frames |-> Write(x, segs[n], parts[n], only)]]
<1>1. m \in Nat /\ DOMAIN segs = 1 .. m
  BY DEF Writable
<1>2. ASSUME NEW n \in 1 .. m, NEW x \in Frames
      PROVE  Write(x, segs[n], parts[n], only) \in Frames
  <2>1. SoundSegment(segs[n]) /\ parts[n] \in 0 .. Power(2, Width(segs[n])) - 1
    BY <1>1 DEF Writable, IsPartsOf
  <2> HIDE DEF parts
  <2>2. QED
    BY <2>1, SegmentWritten
<1> DEFINE p0 == CHOOSE h : Is(h)
<1>3. EncodeOccurrence(f, p, segs, value, only) = Result(p0[m], TRUE)
  <2>1. Unwritable(segs, only) = {}
    BY AllWritable
  <2>2. QED
    BY <2>1, Zenon DEF EncodeOccurrence
<1> HIDE DEF parts, m
<1>4. \A n \in 1 .. m, x \in Frames : step[n][x] = Write(x, segs[n], parts[n], only)
  OBVIOUS
<1>5. step \in [1 .. m -> [Frames -> Frames]]
  BY <1>2
<1> HIDE DEF step
<1>6. \E g : IsLoop(g, m, Frames, f, step)
  BY <1>1, <1>5, LoopExists
<1>7. PICK g : IsLoop(g, m, Frames, f, step)
  BY <1>6
<1>8. Is(g)
  <2>1. g \in [0 .. m -> Frames] /\ g[0] = f /\ \A n \in 1 .. m : g[n] = step[n][g[n - 1]]
    BY <1>7 DEF IsLoop
  <2>2. ASSUME NEW n \in 0 .. m
        PROVE  g[n] = IF n = 0 THEN f ELSE Write(g[n - 1], segs[n], parts[n], only)
    <3>1. CASE n = 0
      BY <2>1, <3>1
    <3>2. CASE n # 0
      <4>1. n \in 1 .. m /\ n - 1 \in 0 .. m
        BY <1>1, <3>2
      <4>2. g[n - 1] \in Frames
        BY <2>1, <4>1
      <4>3. QED
        BY <1>4, <2>1, <3>2, <4>1, <4>2
    <3>3. QED
      BY <3>1, <3>2
  <2>3. g = [n \in 0 .. m |-> g[n]]
    BY <2>1
  <2>4. QED
    BY <2>2, <2>3
<1>9. Is(p0)
  BY <1>8
<1> HIDE DEF p0
<1>10. /\ p0 = [n \in 0 .. m |-> p0[n]] /\ p0[0] = f
       /\ \A n \in 1 .. m : p0[n] = Write(p0[n - 1], segs[n], parts[n], only)
  BY <1>1, <1>9
<1> DEFINE T == {n \in 0 .. m : p0[n] \in Frames}
<1>11. 0 \in T
  BY <1>1, <1>10
<1>12. ASSUME NEW n \in 1 .. m, n - 1 \in T PROVE n \in T
  <2>1. n \in 0 .. m /\ p0[n - 1] \in Frames
    BY <1>1, <1>12
  <2>2. p0[n] \in Frames
    BY <1>2, <1>10, <2>1
  <2>3. QED
    BY <2>1, <2>2
<1>13. 0 .. m \subseteq T
  <2> HIDE DEF T
  <2>1. QED
    BY <1>1, <1>11, <1>12, BoundedInduction
<1>14. p0 \in [0 .. m -> Frames]
  BY <1>10, <1>13
<1>15. IsWriting(p0, f, segs, parts, only)
  BY <1>10, <1>14 DEF IsWriting, m
<1>16. QED
  BY <1>3, <1>15 DEF parts, m

\* Encoding a value into an occurrence
LEMMA OccurrenceWritten ==
  ASSUME NEW f \in Frames, NEW p, IsParameter(p), ~ResolutionError(p),
         NEW segs, Writable(segs), NEW value \in Int, NEW only,
         NEW r, r = EncodeOccurrence(f, p, segs, value, only)
  PROVE  /\ r.frame \in Frames /\ r.ok \in BOOLEAN
         /\ r.ok => Parts(p, segs, value) # None
         /\ \A t : \A sf \in Subframes :
              SoundSegment(t) /\ (\A n \in DOMAIN segs : ~Touches(segs[n], t, sf, only))
              => Holding(r.frame, t, sf) = Holding(f, t, sf)
         /\ \A n \in DOMAIN segs : \A sf \in Subframes :
              /\ r.ok /\ sf \in Selected(segs[n], only)
              /\ \A k \in DOMAIN segs : k # n => ~Touches(segs[k], segs[n], sf, only)
              => Holding(r.frame, segs[n], sf) = Parts(p, segs, value)[n]
<1> DEFINE parts == Parts(p, segs, value)
           m == Len(segs)
<1>1. CASE parts = None
  <2>1. r = Result(f, FALSE)
    BY <1>1 DEF EncodeOccurrence
  <2>2. r.frame = f /\ r.ok = FALSE
    BY <2>1 DEF Result
  <2>3. QED
    BY <2>2
<1>2. CASE parts # None
  <2>1. m \in Nat /\ DOMAIN segs = 1 .. m
    BY DEF Writable
  <2>2. Sound(segs)
    BY DEF Sound, Writable, SoundSegment
  <2>3. IsPartsOf(parts, segs)
    BY <1>2, <2>2, PartsRoundTrip
  <2>4. PICK g : /\ IsWriting(g, f, segs, parts, only)
                 /\ r = Result(g[m], TRUE)
    BY <1>2, <2>3, WritingExists
  <2> HIDE DEF parts, m
  <2>5. /\ g \in [0 .. m -> Frames] /\ g[0] = f
        /\ \A n \in 1 .. m : g[n] = Write(g[n - 1], segs[n], parts[n], only)
    BY <2>4 DEF IsWriting, m
  <2>6. r.frame = g[m] /\ r.ok = TRUE /\ m \in 0 .. m
    BY <2>1, <2>4 DEF Result
  <2>7. ASSUME NEW n \in 1 .. m
        PROVE  /\ \A t, sf : SoundSegment(t) /\ sf \in Subframes /\ ~Touches(segs[n], t, sf, only)
                    => Holding(g[n], t, sf) = Holding(g[n - 1], t, sf)
               /\ \A sf \in Subframes : sf \in Selected(segs[n], only)
                    => Holding(g[n], segs[n], sf) = parts[n]
    <3>1. n - 1 \in 0 .. m /\ SoundSegment(segs[n]) /\ parts[n] \in 0 .. Power(2, Width(segs[n])) - 1
      BY <2>1, <2>3 DEF Writable, IsPartsOf
    <3>2. g[n - 1] \in Frames
      BY <2>5, <3>1
    <3> DEFINE h == g[n - 1]
               s == segs[n]
               part == parts[n]
    <3>3. g[n] = Write(h, s, part, only)
      BY <2>5
    <3>4. h \in Frames /\ SoundSegment(s) /\ part \in 0 .. Power(2, Width(s)) - 1
      BY <3>1, <3>2
    <3> HIDE DEF h, s, part
    <3>5. /\ \A t, sf : SoundSegment(t) /\ sf \in Subframes /\ ~Touches(s, t, sf, only)
               => Holding(Write(h, s, part, only), t, sf) = Holding(h, t, sf)
          /\ \A sf \in Subframes : sf \in Selected(s, only)
               => Holding(Write(h, s, part, only), s, sf) = part
      BY <3>4, SegmentWritten
    <3>6. QED
      BY <3>3, <3>5 DEF h, s, part
  <2>8. ASSUME NEW t, NEW sf \in Subframes, SoundSegment(t),
               \A n \in DOMAIN segs : ~Touches(segs[n], t, sf, only)
        PROVE  Holding(g[m], t, sf) = Holding(f, t, sf)
    <3> DEFINE T == {n \in 0 .. m : Holding(g[n], t, sf) = Holding(f, t, sf)}
    <3>1. 0 \in T
      BY <2>1, <2>5
    <3>2. ASSUME NEW n \in 1 .. m, n - 1 \in T PROVE n \in T
      <4>1. n \in 0 .. m /\ ~Touches(segs[n], t, sf, only)
        BY <2>1, <2>8
      <4>2. Holding(g[n], t, sf) = Holding(g[n - 1], t, sf)
        BY <2>7, <2>8, <4>1
      <4>3. QED
        BY <3>2, <4>1, <4>2
    <3>3. 0 .. m \subseteq T
      <4> HIDE DEF T
      <4>1. QED
        BY <2>1, <3>1, <3>2, BoundedInduction
    <3>4. QED
      BY <2>6, <3>3
  <2>9. ASSUME NEW n \in DOMAIN segs, NEW sf \in Subframes, sf \in Selected(segs[n], only),
               \A k \in DOMAIN segs : k # n => ~Touches(segs[k], segs[n], sf, only)
        PROVE  Holding(g[m], segs[n], sf) = parts[n]
    <3> DEFINE T == {k \in 0 .. m : k >= n => Holding(g[k], segs[n], sf) = parts[n]}
    <3>0. n \in 1 .. m /\ SoundSegment(segs[n]) /\ n \in Int
      BY <2>1 DEF Writable
    <3>1. 0 \in T
      BY <2>1, <3>0
    <3>2. ASSUME NEW k \in 1 .. m, k - 1 \in T PROVE k \in T
      <4>1. k \in 0 .. m /\ k \in Int
        BY <2>1
      <4>2. CASE k = n
        BY <2>7, <2>9, <4>1, <4>2
      <4>3. CASE k < n
        BY <3>0, <4>1, <4>3
      <4>4. CASE k > n
        <5>1. k - 1 >= n /\ k # n /\ k \in DOMAIN segs
          BY <2>1, <3>0, <4>1, <4>4
        <5>2. ~Touches(segs[k], segs[n], sf, only)
          BY <2>9, <5>1
        <5>3. Holding(g[k], segs[n], sf) = Holding(g[k - 1], segs[n], sf)
          BY <2>7, <3>0, <5>2
        <5>4. Holding(g[k - 1], segs[n], sf) = parts[n]
          BY <3>2, <5>1
        <5>5. QED
          BY <4>1, <5>3, <5>4
      <4>5. QED
        BY <3>0, <4>1, <4>2, <4>3, <4>4
    <3>3. 0 .. m \subseteq T
      <4> HIDE DEF T
      <4>1. QED
        BY <2>1, <3>1, <3>2, BoundedInduction
    <3>4. m \in T /\ m >= n
      BY <2>1, <2>6, <3>0, <3>3
    <3>5. QED
      BY <3>4
  <2>10. r.frame \in Frames
    BY <2>5, <2>6
  <2>11. QED
    BY <1>2, <2>6, <2>8, <2>9, <2>10 DEF parts
<1>3. QED
  BY <1>1, <1>2

LEMMA ApartFromItself ==
  ASSUME NEW p, ~OverlapsItself(p), NEW only, NEW sf,
         NEW occ \in DOMAIN p.occurrences, NEW n \in DOMAIN p.occurrences[occ],
         NEW other \in DOMAIN p.occurrences, NEW k \in DOMAIN p.occurrences[other],
         other # occ \/ k # n, sf \in Selected(p.occurrences[occ][n], only)
  PROVE  ~Touches(p.occurrences[other][k], p.occurrences[occ][n], sf, only)
<1> DEFINE a == <<other, k>>
           b == <<occ, n>>
           s == p.occurrences[other][k]
           t == p.occurrences[occ][n]
<1>1. a \in SegmentPlaces(p) /\ b \in SegmentPlaces(p)
  BY DEF SegmentPlaces
<1>2. a # b /\ p.occurrences[a[1]][a[2]] = s /\ p.occurrences[b[1]][b[2]] = t
  OBVIOUS
<1> HIDE DEF a, b, s, t
<1>3. ~ (s.word = t.word /\ s.subframes \cap t.subframes # {} /\ BitsOf(s) \cap BitsOf(t) # {})
  BY <1>1, <1>2 DEF OverlapsItself
<1>4. sf \in Selected(s, only) => sf \in s.subframes
  BY DEF Selected
<1>5. sf \in t.subframes
  BY DEF Selected, t
<1>6. ~Touches(s, t, sf, only)
  BY <1>3, <1>4, <1>5 DEF Touches
<1>7. QED
  BY <1>6 DEF s, t

LEMMA ValidatedFacts ==
  ASSUME NEW p, IsParameter(p), Validated(p)
  PROVE  /\ ~ResolutionError(p) /\ p.occurrences # <<>>
         /\ Len(p.occurrences) \in Nat /\ DOMAIN p.occurrences = 1 .. Len(p.occurrences)
         /\ \A occ \in DOMAIN p.occurrences :
              Agreed(p.occurrences[occ]) /\ Writable(p.occurrences[occ])
         /\ \A s \in Segments(p) : SoundSegment(s)
<1>1. ~ResolutionError(p) /\ ~MappingErrors(p)
  BY DEF Validated
<1>2. /\ p.occurrences # <<>>
      /\ \A occ \in DOMAIN p.occurrences :
           /\ Agreed(p.occurrences[occ])
           /\ \A n \in DOMAIN p.occurrences[occ] : SoundSegment(p.occurrences[occ][n])
  BY <1>1, NoMappingErrors
<1>3. \A occ \in DOMAIN p.occurrences : p.occurrences[occ] \in Seq(Segment)
  BY OccurrenceType
<1>4. p.occurrences \in Seq(Seq(Segment))
  BY DEF IsParameter
<1>5. \A s \in Segments(p) : SoundSegment(s)
  BY <1>2, InSegments
<1>6. QED
  BY <1>1, <1>2, <1>3, <1>4, <1>5 DEF Writable

Outcomes == [frame : Frames, ok : BOOLEAN]

\* The outcomes while a value is encoded into one occurrence after the other
IsEncoding(g, f, p, value, only) ==
  /\ g \in [0 .. Len(p.occurrences) -> Outcomes] /\ g[0] = Result(f, TRUE)
  /\ \A occ \in 1 .. Len(p.occurrences) :
       g[occ] = IF g[occ - 1].ok
                THEN EncodeOccurrence(g[occ - 1].frame, p, p.occurrences[occ], value, only)
                ELSE g[occ - 1]

LEMMA EncodingExists ==
  ASSUME NEW f \in Frames, NEW p, IsParameter(p), Validated(p), NEW value \in Int, NEW only
  PROVE  \E g : /\ IsEncoding(g, f, p, value, only)
                /\ EncodeIntoFrame(f, p, value, only) = g[Len(p.occurrences)]
<1> DEFINE m == Len(p.occurrences)
           c == Result(f, TRUE)
           After(x, occ) == IF x.ok THEN EncodeOccurrence(x.frame, p, p.occurrences[occ], value, only) ELSE x
           Is(g) == g = [occ \in 0 .. m |-> IF occ = 0 THEN Result(f, TRUE) ELSE After(g[occ - 1], occ)]
           step == [occ \in 1 .. m |-> [x \in Outcomes |-> After(x, occ)]]
           p0 == CHOOSE h : Is(h)
<1>1. /\ m \in Nat /\ DOMAIN p.occurrences = 1 .. m /\ p.occurrences # <<>> /\ ~ResolutionError(p)
      /\ \A occ \in 1 .. m : Writable(p.occurrences[occ])
  BY ValidatedFacts
<1>2. EncodeIntoFrame(f, p, value, only) = p0[m]
  BY <1>1, Zenon DEF EncodeIntoFrame
<1>3. c \in Outcomes
  BY DEF Result, Outcomes
<1> HIDE DEF m, c
<1>4. ASSUME NEW occ \in 1 .. m, NEW x \in Outcomes PROVE After(x, occ) \in Outcomes
  <2>1. x.frame \in Frames /\ x.ok \in BOOLEAN
    BY DEF Outcomes
  <2> DEFINE r == EncodeOccurrence(x.frame, p, p.occurrences[occ], value, only)
  <2>2. r.frame \in Frames /\ r.ok \in BOOLEAN
    BY <1>1, <2>1, OccurrenceWritten
  <2>3. r = Result(r.frame, r.ok)
    <3>1. \A a, b : Result(a, b) = Result(Result(a, b).frame, Result(a, b).ok)
      BY DEF Result
    <3>2. \E a, b : r = Result(a, b)
      BY Zenon DEF EncodeOccurrence
    <3> HIDE DEF r
    <3>3. QED
      BY <3>1, <3>2
  <2> HIDE DEF r
  <2>4. r \in Outcomes
    BY <2>2, <2>3 DEF Outcomes, Result
  <2>5. QED
    BY <2>4 DEF r
<1>5. \A occ \in 1 .. m, x \in Outcomes : step[occ][x] = After(x, occ)
  OBVIOUS
<1>6. step \in [1 .. m -> [Outcomes -> Outcomes]]
  <2> HIDE DEF After
  <2>1. QED
    BY <1>4
<1> HIDE DEF step
<1>7. \E g : IsLoop(g, m, Outcomes, c, step)
  BY <1>1, <1>3, <1>6, LoopExists
<1>8. PICK g : IsLoop(g, m, Outcomes, c, step)
  BY <1>7
<1>9. Is(g)
  <2>1. g \in [0 .. m -> Outcomes] /\ g[0] = c /\ \A occ \in 1 .. m : g[occ] = step[occ][g[occ - 1]]
    BY <1>8 DEF IsLoop
  <2>2. ASSUME NEW occ \in 0 .. m
        PROVE  g[occ] = IF occ = 0 THEN Result(f, TRUE) ELSE After(g[occ - 1], occ)
    <3>1. CASE occ = 0
      BY <2>1, <3>1 DEF c
    <3>2. CASE occ # 0
      <4>1. occ \in 1 .. m /\ occ - 1 \in 0 .. m
        BY <1>1, <3>2
      <4>2. g[occ - 1] \in Outcomes
        BY <2>1, <4>1
      <4> HIDE DEF After
      <4>3. QED
        BY <1>5, <2>1, <3>2, <4>1, <4>2
    <3>3. QED
      BY <3>1, <3>2
  <2>3. g = [occ \in 0 .. m |-> g[occ]]
    BY <2>1
  <2>4. QED
    BY <2>2, <2>3
<1>10. Is(p0)
  <2> HIDE DEF Is
  <2>1. QED
    BY <1>9
<1> HIDE DEF p0
<1>11. /\ p0 = [occ \in 0 .. m |-> p0[occ]] /\ p0[0] = c
       /\ \A occ \in 1 .. m : p0[occ] = After(p0[occ - 1], occ)
  <2> HIDE DEF After
  <2>1. p0 = [occ \in 0 .. m |-> p0[occ]] /\ 0 \in 0 .. m
    BY <1>1, <1>10
  <2>2. \A occ \in 0 .. m : p0[occ] = IF occ = 0 THEN Result(f, TRUE) ELSE After(p0[occ - 1], occ)
    BY <1>10
  <2>3. p0[0] = c
    BY <2>1, <2>2 DEF c
  <2>4. ASSUME NEW occ \in 1 .. m PROVE p0[occ] = After(p0[occ - 1], occ)
    <3>1. occ \in 0 .. m /\ occ # 0
      BY <1>1
    <3>2. QED
      BY <2>2, <3>1
  <2>5. QED
    BY <2>1, <2>3, <2>4
<1> DEFINE T == {occ \in 0 .. m : p0[occ] \in Outcomes}
<1>12. 0 \in T
  BY <1>1, <1>3, <1>11
<1>13. ASSUME NEW occ \in 1 .. m, occ - 1 \in T PROVE occ \in T
  <2>1. occ \in 0 .. m /\ p0[occ - 1] \in Outcomes
    BY <1>1, <1>13
  <2> HIDE DEF After
  <2>2. p0[occ] \in Outcomes
    BY <1>4, <1>11, <2>1
  <2>3. QED
    BY <2>1, <2>2
<1>14. 0 .. m \subseteq T
  <2> HIDE DEF T
  <2>1. QED
    BY <1>1, <1>12, <1>13, BoundedInduction
<1>15. p0 \in [0 .. m -> Outcomes]
  BY <1>11, <1>14
<1>16. IsEncoding(p0, f, p, value, only)
  BY <1>11, <1>15 DEF IsEncoding, m, c
<1>17. QED
  BY <1>2, <1>16 DEF m

\* The frame holds a value of a parameter in the segments that `only' selects.
HoldsValue(f, p, value, only) ==
  \A occ \in DOMAIN p.occurrences :
    LET segs == p.occurrences[occ]
    IN  /\ Parts(p, segs, value) # None
        /\ \A n \in DOMAIN segs : \A sf \in Subframes :
             sf \in Selected(segs[n], only) => Holding(f, segs[n], sf) = Parts(p, segs, value)[n]

\* Encoding a value into all occurrences of a parameter
LEMMA FrameEncoded ==
  ASSUME NEW f \in Frames, NEW p, IsParameter(p), Validated(p), NEW value \in Int, NEW only,
         NEW r, r = EncodeIntoFrame(f, p, value, only)
  PROVE  /\ r.frame \in Frames /\ r.ok \in BOOLEAN
         /\ \A t : \A sf \in Subframes :
              SoundSegment(t) /\ (\A s \in Segments(p) : ~Touches(s, t, sf, only))
              => Holding(r.frame, t, sf) = Holding(f, t, sf)
         /\ r.ok /\ ~OverlapsItself(p) => HoldsValue(r.frame, p, value, only)
<1> DEFINE m == Len(p.occurrences)
<1>1. /\ m \in Nat /\ DOMAIN p.occurrences = 1 .. m /\ ~ResolutionError(p)
      /\ \A occ \in 1 .. m : Writable(p.occurrences[occ])
  BY ValidatedFacts
<1>2. PICK g : IsEncoding(g, f, p, value, only) /\ r = g[m]
  BY EncodingExists
<1> HIDE DEF m
<1>3. /\ g \in [0 .. m -> Outcomes] /\ g[0] = Result(f, TRUE)
      /\ \A occ \in 1 .. m :
           g[occ] = IF g[occ - 1].ok
                    THEN EncodeOccurrence(g[occ - 1].frame, p, p.occurrences[occ], value, only)
                    ELSE g[occ - 1]
  BY <1>2 DEF IsEncoding, m
<1>4. \A occ \in 0 .. m : g[occ].frame \in Frames /\ g[occ].ok \in BOOLEAN
  BY <1>3 DEF Outcomes
<1>5. 0 \in 0 .. m /\ m \in 0 .. m /\ \A occ \in 1 .. m : occ - 1 \in 0 .. m /\ occ \in 0 .. m
  BY <1>1
<1>6. ASSUME NEW occ \in 1 .. m
      PROVE  /\ g[occ].ok => g[occ - 1].ok /\ Parts(p, p.occurrences[occ], value) # None
             /\ \A t : \A sf \in Subframes :
                  SoundSegment(t) /\ (\A k \in DOMAIN p.occurrences[occ] : ~Touches(p.occurrences[occ][k], t, sf, only))
                  => Holding(g[occ].frame, t, sf) = Holding(g[occ - 1].frame, t, sf)
             /\ \A n \in DOMAIN p.occurrences[occ] : \A sf \in Subframes :
                  /\ g[occ].ok /\ sf \in Selected(p.occurrences[occ][n], only)
                  /\ \A k \in DOMAIN p.occurrences[occ] :
                       k # n => ~Touches(p.occurrences[occ][k], p.occurrences[occ][n], sf, only)
                  => Holding(g[occ].frame, p.occurrences[occ][n], sf) = Parts(p, p.occurrences[occ], value)[n]
  <2> DEFINE segs == p.occurrences[occ]
             h == g[occ - 1].frame
             q == g[occ]
  <2>1. h \in Frames /\ Writable(segs) /\ g[occ - 1].ok \in BOOLEAN
    BY <1>1, <1>4, <1>5
  <2>2. CASE g[occ - 1].ok
    <3>1. q = EncodeOccurrence(h, p, segs, value, only)
      BY <1>3, <2>2
    <3> HIDE DEF segs, h, q
    <3>2. /\ q.ok => Parts(p, segs, value) # None
          /\ \A t : \A sf \in Subframes :
               SoundSegment(t) /\ (\A k \in DOMAIN segs : ~Touches(segs[k], t, sf, only))
               => Holding(q.frame, t, sf) = Holding(h, t, sf)
          /\ \A n \in DOMAIN segs : \A sf \in Subframes :
               /\ q.ok /\ sf \in Selected(segs[n], only)
               /\ \A k \in DOMAIN segs : k # n => ~Touches(segs[k], segs[n], sf, only)
               => Holding(q.frame, segs[n], sf) = Parts(p, segs, value)[n]
      BY <1>1, <2>1, <3>1, OccurrenceWritten
    <3>3. QED
      BY <2>2, <3>2 DEF segs, h, q
  <2>3. CASE ~g[occ - 1].ok
    <3>1. g[occ] = g[occ - 1]
      BY <1>3, <2>3
    <3>2. QED
      BY <2>3, <3>1
  <2>4. QED
    BY <2>2, <2>3
<1>7. ASSUME NEW t, NEW sf \in Subframes, SoundSegment(t), \A s \in Segments(p) : ~Touches(s, t, sf, only)
      PROVE  Holding(r.frame, t, sf) = Holding(f, t, sf)
  <2> DEFINE T == {occ \in 0 .. m : Holding(g[occ].frame, t, sf) = Holding(f, t, sf)}
  <2>1. 0 \in T
    BY <1>3, <1>5 DEF Result
  <2>2. ASSUME NEW occ \in 1 .. m, occ - 1 \in T PROVE occ \in T
    <3>1. \A k \in DOMAIN p.occurrences[occ] : ~Touches(p.occurrences[occ][k], t, sf, only)
      BY <1>1, <1>7, InSegments
    <3>2. Holding(g[occ].frame, t, sf) = Holding(g[occ - 1].frame, t, sf)
      BY <1>6, <1>7, <3>1
    <3>3. QED
      BY <1>5, <2>2, <3>2
  <2>3. 0 .. m \subseteq T
    <3> HIDE DEF T
    <3>1. QED
      BY <1>1, <2>1, <2>2, BoundedInduction
  <2>4. QED
    BY <1>2, <1>5, <2>3
<1>8. ASSUME r.ok PROVE \A occ \in 0 .. m : g[occ].ok
  <2> DEFINE T == {occ \in 0 .. m : g[occ].ok}
  <2>1. m \in T
    BY <1>2, <1>5, <1>8
  <2>2. ASSUME NEW occ \in 1 .. m, occ \in T PROVE occ - 1 \in T
    BY <1>5, <1>6, <2>2
  <2>3. 0 .. m \subseteq T
    <3> HIDE DEF T
    <3>1. QED
      BY <1>1, <2>1, <2>2, DownInduction
  <2>4. QED
    BY <2>3
<1>9. ASSUME r.ok, ~OverlapsItself(p), NEW occ \in 1 .. m, NEW n \in DOMAIN p.occurrences[occ],
             NEW sf \in Subframes, sf \in Selected(p.occurrences[occ][n], only)
      PROVE  Holding(r.frame, p.occurrences[occ][n], sf) = Parts(p, p.occurrences[occ], value)[n]
  <2> DEFINE t == p.occurrences[occ][n]
             part == Parts(p, p.occurrences[occ], value)[n]
             T == {i \in 0 .. m : i >= occ => Holding(g[i].frame, t, sf) = part}
  <2>0. SoundSegment(t) /\ occ \in Int
    BY <1>1 DEF Writable
  <2>1. 0 \in T
    BY <1>5
  <2>2. ASSUME NEW i \in 1 .. m, i - 1 \in T PROVE i \in T
    <3>1. i \in Int /\ i \in 0 .. m
      BY <1>1
    <3>2. CASE i < occ
      BY <2>0, <3>1, <3>2
    <3>3. CASE i = occ
      <4>1. \A k \in DOMAIN p.occurrences[occ] : k # n => ~Touches(p.occurrences[occ][k], t, sf, only)
        BY <1>1, <1>9, ApartFromItself
      <4>2. g[occ].ok
        BY <1>5, <1>8, <1>9
      <4>3. Holding(g[occ].frame, t, sf) = part
        BY <1>6, <1>9, <4>1, <4>2
      <4>4. QED
        BY <3>1, <3>3, <4>3
    <3>4. CASE i > occ
      <4>1. i # occ /\ i - 1 >= occ
        BY <2>0, <3>1, <3>4
      <4>2. \A k \in DOMAIN p.occurrences[i] : ~Touches(p.occurrences[i][k], t, sf, only)
        BY <1>1, <1>9, <4>1, ApartFromItself
      <4>3. Holding(g[i].frame, t, sf) = Holding(g[i - 1].frame, t, sf)
        BY <1>6, <2>0, <4>2
      <4>4. QED
        BY <2>2, <3>1, <4>1, <4>3
    <3>5. QED
      BY <2>0, <3>1, <3>2, <3>3, <3>4
  <2>3. 0 .. m \subseteq T
    <3> HIDE DEF T
    <3>1. QED
      BY <1>1, <2>1, <2>2, BoundedInduction
  <2>4. m \in T /\ m >= occ
    BY <1>1, <1>5, <2>0, <2>3
  <2>5. QED
    BY <1>2, <2>4
<1>10. ASSUME r.ok, ~OverlapsItself(p) PROVE HoldsValue(r.frame, p, value, only)
  <2>1. \A occ \in 1 .. m : Parts(p, p.occurrences[occ], value) # None
    BY <1>5, <1>6, <1>8, <1>10
  <2>2. QED
    BY <1>1, <1>9, <1>10, <2>1 DEF HoldsValue
<1>11. QED
  BY <1>2, <1>4, <1>5, <1>7, <1>10

-----------------------------------------------------------------------------
(* The closed loop *)

Clear ==
  /\ Validated(parameter[1]) /\ Validated(parameter[2])
  /\ ~Overlap(parameter[1], parameter[2])

Asked == [{1, 2} -> [Subframes -> Values \cup {None}]]

\* A sheet holds the values it was asked to hold.
SheetOK(sheet) ==
  /\ sheet.frame \in Frames /\ sheet.asked \in Asked
  /\ \A i \in {1, 2} : ~OverlapsItself(parameter[i]) =>
       \A sf \in Subframes :
         sheet.asked[i][sf] # None
         => HoldsValue(sheet.frame, parameter[i], sheet.asked[i][sf], {sf})

\* What is to be encoded: values for all subframes, or signals, each in a
\* subframe of its own that its parameter has no value for yet.
ScenarioTasks == [of : {1, 2}, only : {None}]
SignalTasks   == [of : {1, 2}, only : {{sf} : sf \in Subframes}]

TodoOK ==
  \/ todo \in Seq(ScenarioTasks)
  \/ /\ todo \in Seq(SignalTasks)
     /\ \A m, n \in DOMAIN todo : m # n => todo[m] # todo[n]
     /\ \A n \in DOMAIN todo : \A sf \in todo[n].only : draft.asked[todo[n].of][sf] = None

SheetsInv == ParameterInv /\ (Clear => SheetOK(shown) /\ SheetOK(draft) /\ TodoOK)

\* What a value of p is written over is another subframe's or another parameter's.
LEMMA StillHeld ==
  ASSUME NEW f \in Frames, NEW p, IsParameter(p), Validated(p), NEW value \in Int, NEW only,
         NEW r, r = EncodeIntoFrame(f, p, value, only),
         NEW q, IsParameter(q), Validated(q), NEW v, NEW sf \in Subframes, HoldsValue(f, q, v, {sf}),
         \A s \in Segments(p), t \in Segments(q) : sf \in t.subframes => ~Touches(s, t, sf, only)
  PROVE  HoldsValue(r.frame, q, v, {sf})
<1>1. \A t : \A x \in Subframes :
        SoundSegment(t) /\ (\A s \in Segments(p) : ~Touches(s, t, x, only))
        => Holding(r.frame, t, x) = Holding(f, t, x)
  BY FrameEncoded
<1>2. ASSUME NEW occ \in DOMAIN q.occurrences, NEW n \in DOMAIN q.occurrences[occ],
             NEW x \in Subframes, x \in Selected(q.occurrences[occ][n], {sf})
      PROVE  Holding(r.frame, q.occurrences[occ][n], x) = Parts(q, q.occurrences[occ], v)[n]
  <2> DEFINE t == q.occurrences[occ][n]
  <2>1. x = sf \/ {sf} = None
    BY <1>2 DEF Selected
  <2>2. {sf} # None
    BY SizesAssumption DEF Subframes
  <2>3. t \in Segments(q) /\ x \in t.subframes /\ x = sf
    BY <1>2, <2>1, <2>2, InSegments DEF Selected
  <2>4. SoundSegment(t)
    BY <2>3, ValidatedFacts
  <2>5. Holding(f, t, x) = Parts(q, q.occurrences[occ], v)[n]
    BY <1>2 DEF HoldsValue
  <2> HIDE DEF t
  <2>6. Holding(r.frame, t, x) = Holding(f, t, x)
    BY <1>1, <2>3, <2>4
  <2>7. QED
    BY <2>5, <2>6 DEF t
<1>3. QED
  BY <1>2 DEF HoldsValue

\* Parameters without an overlap do not write over each other.
LEMMA ApartFromEachOther ==
  ASSUME ParameterInv, Clear, NEW i \in {1, 2}, NEW j \in {1, 2}, i # j,
         NEW s \in Segments(parameter[i]), NEW t \in Segments(parameter[j]),
         NEW sf \in Subframes, sf \in t.subframes, NEW only
  PROVE  ~Touches(s, t, sf, only)
<1>1. ASSUME Touches(s, t, sf, only)
      PROVE  /\ s.word = t.word /\ sf \in s.subframes \cap t.subframes \cap Subframes
             /\ BitsOf(s) \cap BitsOf(t) # {}
  BY <1>1 DEF Touches, Selected
<1>2. CASE i = 1 /\ j = 2
  BY <1>1, <1>2 DEF Clear, Overlap
<1>3. CASE i = 2 /\ j = 1
  <2>1. s \in Segments(parameter[2]) /\ t \in Segments(parameter[1])
    BY <1>3
  <2>2. ASSUME Touches(s, t, sf, only) PROVE Overlap(parameter[1], parameter[2])
    <3>1. /\ t.word = s.word /\ t.subframes \cap s.subframes \cap Subframes # {}
          /\ BitsOf(t) \cap BitsOf(s) # {}
      BY <1>1, <2>2
    <3>2. QED
      BY <2>1, <3>1 DEF Overlap
  <2>3. QED
    BY <2>2 DEF Clear
<1>4. QED
  BY <1>2, <1>3

LEMMA ClearTypes ==
  ASSUME ParameterInv, Clear, NEW i \in {1, 2}
  PROVE  IsParameter(parameter[i]) /\ Validated(parameter[i])
  BY ParameterType DEF Clear

LEMMA AskType ==
  ASSUME NEW asked \in Asked, NEW task, task.of \in {1, 2}, NEW value \in Values
  PROVE  /\ Ask(asked, task, value) \in Asked
         /\ \A j \in {1, 2} : \A sf \in Subframes :
              Ask(asked, task, value)[j][sf]
                = IF j = task.of /\ (task.only = None \/ sf \in task.only) THEN value ELSE asked[j][sf]
<1> DEFINE i == task.of
           row == [sf \in Subframes |-> IF task.only = None \/ sf \in task.only THEN value ELSE asked[i][sf]]
<1>1. Ask(asked, task, value) = [asked EXCEPT ![i] = row]
  BY DEF Ask
<1>2. asked \in [{1, 2} -> [Subframes -> Values \cup {None}]] /\ i \in {1, 2}
  BY DEF Asked
<1>3. asked[i] \in [Subframes -> Values \cup {None}]
  BY <1>2
<1>4. row \in [Subframes -> Values \cup {None}]
  BY <1>3
<1>5. \A sf \in Subframes :
        row[sf] = IF task.only = None \/ sf \in task.only THEN value ELSE asked[i][sf]
  OBVIOUS
<1> HIDE DEF row, i
<1>6. [asked EXCEPT ![i] = row] \in Asked
  BY <1>2, <1>4 DEF Asked
<1>7. \A j \in {1, 2} : [asked EXCEPT ![i] = row][j] = IF j = i THEN row ELSE asked[j]
  BY <1>2
<1>8. QED
  BY <1>1, <1>5, <1>6, <1>7 DEF i

\* Encoding a value leaves the sheet right, in the subframes it is not for ...
LEMMA OthersStillHeld ==
  ASSUME ParameterInv, Clear, SheetOK(draft), NEW i \in {1, 2}, NEW only, NEW value \in Values,
         NEW r, r = EncodeIntoFrame(draft.frame, parameter[i], value, only),
         NEW j \in {1, 2}, ~OverlapsItself(parameter[j]), NEW sf \in Subframes,
         draft.asked[j][sf] # None, j # i \/ (only # None /\ sf \notin only)
  PROVE  HoldsValue(r.frame, parameter[j], draft.asked[j][sf], {sf})
<1> DEFINE f == draft.frame
           p == parameter[i]
           q == parameter[j]
           v == draft.asked[j][sf]
<1>1. /\ f \in Frames /\ HoldsValue(f, q, v, {sf})
  BY DEF SheetOK
<1>2. IsParameter(p) /\ Validated(p) /\ IsParameter(q) /\ Validated(q) /\ value \in Int
  BY ClearTypes, SizesAssumption
<1>3. \A s \in Segments(p), t \in Segments(q) : sf \in t.subframes => ~Touches(s, t, sf, only)
  <2>1. CASE j # i
    BY <2>1, ApartFromEachOther
  <2>2. CASE only # None /\ sf \notin only
    BY <2>2 DEF Touches, Selected
  <2>3. QED
    BY <2>1, <2>2
<1>4. r = EncodeIntoFrame(f, p, value, only)
  OBVIOUS
<1> HIDE DEF f, p, q, v
<1>5. HoldsValue(r.frame, q, v, {sf})
  BY <1>1, <1>2, <1>3, <1>4, StillHeld
<1>6. QED
  BY <1>5 DEF q, v

\* ... and in those it is for.
LEMMA ValueAsked ==
  ASSUME ParameterInv, Clear, SheetOK(draft),
         NEW task \in ScenarioTasks \cup SignalTasks, NEW value \in Values,
         NEW r, r = EncodeIntoFrame(draft.frame, parameter[task.of], value, task.only), r.ok
  PROVE  SheetOK(Sheet(r.frame, Ask(draft.asked, task, value)))
<1> DEFINE i == task.of
           only == task.only
           asked == Ask(draft.asked, task, value)
           sheet == Sheet(r.frame, asked)
<1>1. i \in {1, 2} /\ only \in {None} \cup {{sf} : sf \in Subframes}
  BY DEF ScenarioTasks, SignalTasks
<1>2. draft.frame \in Frames /\ draft.asked \in Asked
  BY DEF SheetOK
<1>3. /\ asked \in Asked
      /\ \A j \in {1, 2} : \A sf \in Subframes :
           asked[j][sf] = IF j = i /\ (only = None \/ sf \in only) THEN value ELSE draft.asked[j][sf]
  BY <1>1, <1>2, AskType
<1>4. sheet.frame = r.frame /\ sheet.asked = asked
  BY DEF Sheet
<1>5. IsParameter(parameter[i]) /\ Validated(parameter[i]) /\ value \in Int
  BY <1>1, ClearTypes, SizesAssumption
<1> HIDE DEF i, only, asked, sheet
<1>6. r = EncodeIntoFrame(draft.frame, parameter[i], value, only)
  BY DEF i, only
<1>7. /\ r.frame \in Frames
      /\ ~OverlapsItself(parameter[i]) => HoldsValue(r.frame, parameter[i], value, only)
  BY <1>2, <1>5, <1>6, FrameEncoded
<1>8. ASSUME NEW j \in {1, 2}, ~OverlapsItself(parameter[j]), NEW sf \in Subframes, asked[j][sf] # None
      PROVE  HoldsValue(r.frame, parameter[j], asked[j][sf], {sf})
  <2>1. CASE j = i /\ (only = None \/ sf \in only)
    <3>1. HoldsValue(r.frame, parameter[j], value, only) /\ asked[j][sf] = value
      BY <1>3, <1>7, <1>8, <2>1
    <3>2. only = None \/ only = {sf}
      BY <1>1, <2>1
    <3>3. \A s, x : x \in Selected(s, {sf}) => x \in Selected(s, only)
      BY <3>2 DEF Selected
    <3>4. HoldsValue(r.frame, parameter[j], value, {sf})
      BY <3>1, <3>3 DEF HoldsValue
    <3>5. QED
      BY <3>1, <3>4
  <2>2. CASE ~ (j = i /\ (only = None \/ sf \in only))
    <3>1. asked[j][sf] = draft.asked[j][sf] /\ (j # i \/ (only # None /\ sf \notin only))
      BY <1>3, <2>2
    <3>2. QED
      BY <1>1, <1>6, <1>8, <3>1, OthersStillHeld
  <2>3. QED
    BY <2>1, <2>2
<1>9. SheetOK(sheet)
  BY <1>3, <1>4, <1>7, <1>8 DEF SheetOK
<1>10. QED
  BY <1>9 DEF sheet, asked

\* A signal that is refused spoils only a subframe that was asked to hold nothing.
LEMMA SignalRefused ==
  ASSUME ParameterInv, Clear, SheetOK(draft), NEW task \in SignalTasks, NEW value \in Values,
         NEW r, r = EncodeIntoFrame(draft.frame, parameter[task.of], value, task.only),
         \A sf \in task.only : draft.asked[task.of][sf] = None
  PROVE  SheetOK(Sheet(r.frame, draft.asked))
<1> DEFINE i == task.of
           only == task.only
           sheet == Sheet(r.frame, draft.asked)
<1>1. i \in {1, 2} /\ only # None
  BY SizesAssumption DEF SignalTasks, Subframes
<1>2. draft.frame \in Frames /\ draft.asked \in Asked
  BY DEF SheetOK
<1>3. sheet.frame = r.frame /\ sheet.asked = draft.asked
  BY DEF Sheet
<1>4. IsParameter(parameter[i]) /\ Validated(parameter[i]) /\ value \in Int
  BY <1>1, ClearTypes, SizesAssumption
<1>5. r = EncodeIntoFrame(draft.frame, parameter[i], value, only)
  OBVIOUS
<1>6. \A sf \in only : draft.asked[i][sf] = None
  OBVIOUS
<1> HIDE DEF i, only, sheet
<1>7. r.frame \in Frames
  BY <1>2, <1>4, <1>5, FrameEncoded
<1>8. ASSUME NEW j \in {1, 2}, ~OverlapsItself(parameter[j]), NEW sf \in Subframes, draft.asked[j][sf] # None
      PROVE  HoldsValue(r.frame, parameter[j], draft.asked[j][sf], {sf})
  <2>1. j # i \/ sf \notin only
    BY <1>6, <1>8
  <2>2. QED
    BY <1>1, <1>5, <1>8, <2>1, OthersStillHeld
<1>9. SheetOK(sheet)
  BY <1>2, <1>3, <1>7, <1>8 DEF SheetOK
<1>10. QED
  BY <1>9 DEF sheet

LEMMA PartsAreFunctions ==
  ASSUME NEW p, NEW segs, NEW value, Parts(p, segs, value) # None
  PROVE  Parts(p, segs, value)
           = [n \in DOMAIN Parts(p, segs, value) |-> Parts(p, segs, value)[n]]
<1> DEFINE parts == Parts(p, segs, value)
<1>1. CASE Weighted(p, segs)
  <2>1. parts = WeightedBcdParts(p, segs, value)
    BY <1>1 DEF Parts
  <2>2. parts = DigitsOf(InvertLinear(p, value, Min({segs[n].weight : n \in DOMAIN segs})), Base, Len(segs))
    BY <2>1 DEF WeightedBcdParts
  <2>3. QED
    BY <2>2 DEF DigitsOf
<1>2. CASE ~Weighted(p, segs)
  <2>1. parts = Split(Pattern(p, value, TotalWidth(segs)), segs)
    BY <1>2 DEF Parts
  <2>2. QED
    BY <2>1 DEF Split
<1>3. QED
  BY <1>1, <1>2

\* A value that a sheet holds is decoded to within half a step of it.
LEMMA HeldIsDecoded ==
  ASSUME NEW f, NEW p, IsParameter(p), Validated(p), NEW v \in Int,
         NEW s \in DecodeParameter(f, p), HoldsValue(f, p, v, {s.subframe})
  PROVE  /\ s.status = "VALID"
         /\ 2 * Abs(s.engineering - v) <= Step(p, p.occurrences[s.occurrence])
<1>1. /\ ~ResolutionError(p) /\ p.occurrences # <<>>
      /\ \A occ \in DOMAIN p.occurrences : Agreed(p.occurrences[occ]) /\ Writable(p.occurrences[occ])
  BY ValidatedFacts
<1>2. PICK occ \in DOMAIN p.occurrences : s \in DecodeOccurrence(f, p, occ)
  BY <1>1, InParameter
<1> DEFINE segs == p.occurrences[occ]
           parts == Parts(p, segs, v)
<1>3. Agreed(segs) /\ Writable(segs)
  BY <1>1, <1>2
<1>4. PICK sf \in segs[1].subframes : s = DecodeSample(f, p, occ, sf)
  BY <1>2, <1>3, InOccurrence
<1>5. s.occurrence = occ /\ s.subframe = sf
  BY <1>4, SampleFacts
<1>6. /\ parts # None
      /\ \A n \in DOMAIN segs : \A x \in Subframes :
           x \in Selected(segs[n], {sf}) => Holding(f, segs[n], x) = parts[n]
  BY <1>2, <1>5 DEF HoldsValue
<1>7. segs \in Seq(Segment) /\ \A n \in DOMAIN segs : SoundSegment(segs[n])
  BY <1>3 DEF Writable
<1>8. segs # <<>> /\ \A n \in DOMAIN segs : segs[n].subframes = segs[1].subframes
  BY <1>3, <1>7, AgreedFacts
<1>9. Sound(segs)
  BY <1>7 DEF Sound, SoundSegment
<1>10. IsPartsOf(parts, segs) /\ Within(p, segs, parts, v)
  BY <1>1, <1>6, <1>9, PartsRoundTrip
<1>11. 1 \in DOMAIN segs
  BY <1>7, <1>8
<1>12. sf \in Subframes /\ \A n \in DOMAIN segs : sf \in segs[n].subframes
  BY <1>4, <1>7, <1>8, <1>11 DEF SoundSegment
<1>13. \A n \in DOMAIN segs : Holding(f, segs[n], sf) = parts[n]
  BY <1>6, <1>12 DEF Selected
<1>14. Read(f, segs, sf) = parts
  <2>1. DOMAIN parts = DOMAIN segs /\ parts = [n \in DOMAIN segs |-> parts[n]]
    BY <1>6, <1>10, PartsAreFunctions DEF IsPartsOf
  <2>2. QED
    BY <1>13, <2>1 DEF Read, Holding
<1>15. ~Unreadable(segs, sf)
  BY <1>7, <1>12 DEF Unreadable, SoundSegment
<1> HIDE DEF segs, parts
<1>16. s = Sample(occ, sf, "VALID", Decoded(p, segs, parts), Engineering(p, Decoded(p, segs, parts)))
  BY <1>4, <1>10, <1>14, <1>15 DEF DecodeSample, Within, segs
<1>17. s.status = "VALID" /\ s.engineering = Engineering(p, Decoded(p, segs, parts))
  BY <1>16 DEF Sample
<1>18. QED
  BY <1>5, <1>10, <1>17 DEF Within, segs

LEMMA SampledSubframe ==
  ASSUME NEW f, NEW p, IsParameter(p), Validated(p), NEW s \in DecodeParameter(f, p)
  PROVE  s.subframe \in Subframes
<1>1. /\ p.occurrences # <<>>
      /\ \A occ \in DOMAIN p.occurrences : Agreed(p.occurrences[occ]) /\ Writable(p.occurrences[occ])
  BY ValidatedFacts
<1>2. PICK occ \in DOMAIN p.occurrences : s \in DecodeOccurrence(f, p, occ)
  BY <1>1, InParameter
<1> DEFINE segs == p.occurrences[occ]
<1>3. Agreed(segs) /\ Writable(segs)
  BY <1>1, <1>2
<1>4. PICK sf \in segs[1].subframes : s = DecodeSample(f, p, occ, sf)
  BY <1>2, <1>3, InOccurrence
<1>5. segs \in Seq(Segment) /\ \A n \in DOMAIN segs : SoundSegment(segs[n])
  BY <1>3 DEF Writable
<1>6. segs # <<>>
  BY <1>3, <1>5, AgreedFacts
<1>7. 1 \in DOMAIN segs
  BY <1>5, <1>6
<1>8. sf \in Subframes
  BY <1>4, <1>5, <1>7 DEF SoundSegment
<1>9. QED
  BY <1>4, <1>8, SampleFacts

\* What the sheets hold is what the closed loop asks for.
LEMMA SheetsLoop ==
  ASSUME SheetsInv
  PROVE  ClosedLoop
<1> SUFFICES ASSUME Clear, NEW i \in Which, ~OverlapsItself(parameter[i]),
                    NEW s \in DecodeParameter(draft.frame, parameter[i]),
                    draft.asked[i][s.subframe] # None
             PROVE  /\ s.status = "VALID"
                    /\ 2 * Abs(s.engineering - draft.asked[i][s.subframe])
                         <= Step(parameter[i], parameter[i].occurrences[s.occurrence])
  BY DEF ClosedLoop, Clear
<1> DEFINE p == parameter[i]
           v == draft.asked[i][s.subframe]
<1>1. ParameterInv /\ i \in {1, 2} /\ SheetOK(draft)
  BY ParameterType DEF SheetsInv
<1>2. IsParameter(p) /\ Validated(p)
  BY <1>1, ClearTypes
<1>3. s.subframe \in Subframes
  BY <1>2, SampledSubframe
<1>4. HoldsValue(draft.frame, p, v, {s.subframe})
  BY <1>1, <1>3 DEF SheetOK
<1>5. v \in Int
  <2>1. v \in Values \cup {None}
    BY <1>1, <1>3 DEF SheetOK, Asked
  <2>2. QED
    BY <2>1, SizesAssumption
<1>6. s \in DecodeParameter(draft.frame, p)
  OBVIOUS
<1> HIDE DEF p, v
<1>7. QED
  <2>1. /\ s.status = "VALID"
        /\ 2 * Abs(s.engineering - v) <= Step(p, p.occurrences[s.occurrence])
    BY <1>2, <1>4, <1>5, <1>6, HeldIsDecoded
  <2>2. QED
    BY <2>1 DEF p, v

LEMMA BlankFrames ==
  /\ Blank \in Frames
  /\ \A w \in Received : AllWords(w) \in Frames
  /\ Unasked \in Asked
  /\ \A j \in {1, 2} : \A sf \in Subframes : Unasked[j][sf] = None
<1>1. SyncWord \in Int /\ Received \subseteq Int
  <2>1. Power(2, WordBits) \in Nat
    BY SizesAssumption, PowersOfTwo
  <2>2. 0 .. Power(2, WordBits) - 1 \subseteq Int
    BY <2>1
  <2>3. QED
    BY <2>2, SizesAssumption
<1>2. Blank \in Frames
  BY <1>1 DEF Blank, Frames
<1>3. \A w \in Received : AllWords(w) \in Frames
  BY <1>1 DEF AllWords, Frames
<1>4. QED
  BY <1>2, <1>3 DEF Unasked, Asked

LEMMA UnaskedSheet ==
  ASSUME NEW f \in Frames
  PROVE  SheetOK(Sheet(f, Unasked))
  BY BlankFrames DEF SheetOK, Sheet

LEMMA SheetsInit ==
  ASSUME Init
  PROVE  SheetsInv
<1>1. ParameterInv
  BY DEF Init, ParameterInv
<1>2. PICK f \in {Blank} \cup {AllWords(w) : w \in Received} : shown = Sheet(f, Unasked)
  BY DEF Init
<1>3. f \in Frames
  BY <1>2, BlankFrames
<1>4. SheetOK(shown) /\ SheetOK(draft)
  BY <1>2, <1>3, UnaskedSheet DEF Init
<1>5. TodoOK
  BY DEF TodoOK, Init
<1>6. QED
  BY <1>1, <1>4, <1>5 DEF SheetsInv

\* What a sheet holds is a matter of the dataframe alone.
LEMMA SheetsInvNext ==
  ASSUME SheetsInv, parameter' = parameter,
         NEW sheet, NEW next,
         shown' = sheet, draft' = next,
         Clear => SheetOK(sheet) /\ SheetOK(next),
         Clear => TodoOK'
  PROVE  SheetsInv'
<1>1. ParameterInv'
  BY DEF SheetsInv, ParameterInv
<1>2. Clear' <=> Clear
  BY DEF Clear
<1>3. ASSUME Clear PROVE SheetOK(shown)' /\ SheetOK(draft)'
  BY <1>3 DEF SheetOK
<1>4. QED
  BY <1>1, <1>2, <1>3 DEF SheetsInv

LEMMA EmptyTodo ==
  ASSUME todo' = <<>>
  PROVE  TodoOK'
  BY DEF TodoOK

LEMMA SheetsBlankFrame ==
  ASSUME SheetsInv, BlankFrame
  PROVE  SheetsInv'
<1>1. SheetOK(Sheet(Blank, Unasked))
  BY BlankFrames, UnaskedSheet
<1>2. todo' = <<>> /\ parameter' = parameter
      /\ shown' = Sheet(Blank, Unasked) /\ draft' = Sheet(Blank, Unasked)
  BY DEF BlankFrame
<1>3. QED
  BY <1>1, <1>2, EmptyTodo, SheetsInvNext

LEMMA SheetsApplyScenario ==
  ASSUME SheetsInv, NEW order \in Orders, NEW current \in BOOLEAN,
         ApplyScenario(order, current)
  PROVE  SheetsInv'
<1>1. SheetOK(Sheet(Blank, Unasked))
  BY BlankFrames, UnaskedSheet
<1> DEFINE next == IF current THEN shown ELSE Sheet(Blank, Unasked)
<1>2. parameter' = parameter /\ shown' = shown /\ draft' = next
      /\ todo' = [n \in DOMAIN order |-> Task(order[n], None)]
  BY DEF ApplyScenario
<1>3. Clear => SheetOK(shown) /\ SheetOK(next)
  BY <1>1 DEF SheetsInv
<1>4. TodoOK'
  <2>1. \A i \in {1, 2} : Task(i, None) \in ScenarioTasks
    BY DEF Task, ScenarioTasks
  <2>2. order \in Seq({1, 2})
    <3>1. <<1>> \in Seq({1, 2}) /\ <<2>> \in Seq({1, 2})
      OBVIOUS
    <3>2. <<1, 2>> \in Seq({1, 2}) /\ <<2, 1>> \in Seq({1, 2})
      OBVIOUS
    <3>3. QED
      BY <3>1, <3>2 DEF Orders
  <2>3. todo' \in Seq(ScenarioTasks)
    BY <1>2, <2>1, <2>2
  <2>4. QED
    BY <2>3 DEF TodoOK
<1> HIDE DEF next
<1>5. QED
  BY <1>2, <1>3, <1>4, SheetsInvNext

\* The signals: each parameter once in each subframe.
LEMMA SignalsApart ==
  ASSUME NEW m \in 1 .. 2 * SubframeCount, NEW n \in 1 .. 2 * SubframeCount
  PROVE  /\ ((n - 1) % 2) + 1 \in {1, 2} /\ ((n - 1) \div 2) + 1 \in Subframes
         /\ ((m - 1) % 2) + 1 = ((n - 1) % 2) + 1 /\ ((m - 1) \div 2) + 1 = ((n - 1) \div 2) + 1
            => m = n
  BY SizesAssumption DEF Subframes

LEMMA SheetsBuild ==
  ASSUME SheetsInv, BuildEngineeringFrame
  PROVE  SheetsInv'
<1> DEFINE of(n) == ((n - 1) % 2) + 1
           sf(n) == ((n - 1) \div 2) + 1
           count == 2 * SubframeCount
<1>1. SheetOK(Sheet(Blank, Unasked))
  BY BlankFrames, UnaskedSheet
<1>2. parameter' = parameter /\ shown' = shown /\ draft' = Sheet(Blank, Unasked)
      /\ todo' = [n \in 1 .. count |-> Task(of(n), {sf(n)})]
  BY DEF BuildEngineeringFrame
<1>3. Clear => SheetOK(shown)
  BY DEF SheetsInv
<1>4. TodoOK'
  <2>1. \A n \in 1 .. count : of(n) \in {1, 2} /\ sf(n) \in Subframes
    BY SignalsApart
  <2>2. \A m, n \in 1 .. count : of(m) = of(n) /\ sf(m) = sf(n) => m = n
    BY SignalsApart
  <2>3. count \in Nat
    BY SizesAssumption
  <2> HIDE DEF of, sf, count
  <2>4. \A n \in 1 .. count : Task(of(n), {sf(n)}) \in SignalTasks
    BY <2>1 DEF Task, SignalTasks
  <2>5. todo' \in Seq(SignalTasks)
    BY <1>2, <2>3, <2>4
  <2>6. DOMAIN todo' = 1 .. count
    BY <1>2
  <2>7. ASSUME NEW m \in DOMAIN todo', NEW n \in DOMAIN todo', todo'[m] = todo'[n]
        PROVE  m = n
    <3>1. Task(of(m), {sf(m)}) = Task(of(n), {sf(n)})
      BY <1>2, <2>6, <2>7
    <3>2. of(m) = of(n) /\ sf(m) = sf(n)
      BY <3>1 DEF Task
    <3>3. QED
      BY <2>2, <2>6, <3>2
  <2>8. \A n \in DOMAIN todo' : \A x \in todo'[n].only : draft'.asked[todo'[n].of][x] = None
    <3>1. ASSUME NEW n \in DOMAIN todo', NEW x \in todo'[n].only
          PROVE  draft'.asked[todo'[n].of][x] = None
      <4>1. todo'[n].of = of(n) /\ todo'[n].only = {sf(n)}
        BY <1>2, <2>6 DEF Task
      <4>2. draft'.asked = Unasked
        BY <1>2 DEF Sheet
      <4>3. QED
        BY <2>1, <2>6, <3>1, <4>1, <4>2, BlankFrames
    <3>2. QED
      BY <3>1
  <2>9. QED
    BY <2>5, <2>7, <2>8 DEF TodoOK
<1>5. QED
  BY <1>1, <1>2, <1>3, <1>4, SheetsInvNext

LEMMA SheetsEncodeScenario ==
  ASSUME SheetsInv, NEW value \in Values, EncodeScenario(value)
  PROVE  SheetsInv'
<1> DEFINE task == Head(todo)
           r == EncodeIntoFrame(draft.frame, parameter[task.of], value, task.only)
           next == Sheet(r.frame, Ask(draft.asked, task, value))
           sheet == IF Tail(todo) = <<>> THEN next ELSE shown
<1>1. /\ todo # <<>> /\ task.only = None /\ r.ok
      /\ parameter' = parameter /\ shown' = sheet /\ draft' = next /\ todo' = Tail(todo)
  BY DEF EncodeScenario, Outcome
<1>2. ASSUME Clear
      PROVE  SheetOK(sheet) /\ SheetOK(next) /\ TodoOK'
  <2>1. ParameterInv /\ SheetOK(shown) /\ SheetOK(draft) /\ TodoOK
    BY <1>2 DEF SheetsInv
  <2>2. todo \in Seq(ScenarioTasks)
    <3>1. ASSUME todo \in Seq(SignalTasks) PROVE FALSE
      <4>1. task \in SignalTasks
        BY <1>1, <3>1
      <4>2. QED
        BY <1>1, <4>1, SizesAssumption DEF SignalTasks, Subframes
    <3>2. QED
      BY <2>1, <3>1 DEF TodoOK
  <2>3. task \in ScenarioTasks /\ Tail(todo) \in Seq(ScenarioTasks)
    BY <1>1, <2>2
  <2>4. TodoOK'
    BY <1>1, <2>3 DEF TodoOK
  <2>5. task \in ScenarioTasks \cup SignalTasks
    BY <2>3
  <2>6. r = EncodeIntoFrame(draft.frame, parameter[task.of], value, task.only) /\ r.ok
    BY <1>1
  <2> HIDE DEF r, task
  <2>7. SheetOK(next)
    BY <1>2, <2>1, <2>5, <2>6, ValueAsked
  <2>8. QED
    BY <2>1, <2>4, <2>7
<1> HIDE DEF next, sheet
<1>3. QED
  BY <1>1, <1>2, SheetsInvNext

LEMMA SheetsDropScenario ==
  ASSUME SheetsInv, NEW value \in Values, DropScenario(value)
  PROVE  SheetsInv'
<1>1. parameter' = parameter /\ shown' = shown /\ draft' = shown /\ todo' = <<>>
  BY DEF DropScenario
<1>2. Clear => SheetOK(shown)
  BY DEF SheetsInv
<1>3. QED
  BY <1>1, <1>2, EmptyTodo, SheetsInvNext

LEMMA SameSignal ==
  ASSUME NEW t \in SignalTasks, NEW u \in SignalTasks, t.of = u.of, NEW sf \in t.only, sf \in u.only
  PROVE  t = u
<1>1. PICK x \in Subframes : t.only = {x}
  BY DEF SignalTasks
<1>2. PICK y \in Subframes : u.only = {y}
  BY DEF SignalTasks
<1>3. t.only = u.only
  BY <1>1, <1>2
<1>4. QED
  BY <1>3 DEF SignalTasks

LEMMA SignalsLeft ==
  ASSUME NEW list \in Seq(SignalTasks), NEW asked, todo' = list, draft'.asked = asked,
         \A m, n \in DOMAIN list : m # n => list[m] # list[n],
         \A n \in DOMAIN list : \A sf \in list[n].only : asked[list[n].of][sf] = None
  PROVE  TodoOK'
  BY DEF TodoOK

LEMMA SheetsEncodeSignal ==
  ASSUME SheetsInv, NEW value \in Values, EncodeSignal(value)
  PROVE  SheetsInv'
<1> DEFINE task == Head(todo)
           r == EncodeIntoFrame(draft.frame, parameter[task.of], value, task.only)
           asked == IF r.ok THEN Ask(draft.asked, task, value) ELSE draft.asked
           next == Sheet(r.frame, asked)
<1>1. /\ todo # <<>> /\ task.only # None
      /\ parameter' = parameter /\ shown' = shown /\ draft' = next /\ todo' = Tail(todo)
  BY DEF EncodeSignal, Outcome
<1>2. ASSUME Clear
      PROVE  SheetOK(shown) /\ SheetOK(next) /\ TodoOK'
  <2>1. ParameterInv /\ SheetOK(shown) /\ SheetOK(draft) /\ TodoOK /\ draft.asked \in Asked
    BY <1>2 DEF SheetsInv, SheetOK
  <2>2. todo \notin Seq(ScenarioTasks)
    <3>1. ASSUME todo \in Seq(ScenarioTasks) PROVE FALSE
      <4>1. task \in ScenarioTasks
        BY <1>1, <3>1
      <4>2. QED
        BY <1>1, <4>1 DEF ScenarioTasks
    <3>2. QED
      BY <3>1
  <2>3. /\ todo \in Seq(SignalTasks)
        /\ \A m, n \in DOMAIN todo : m # n => todo[m] # todo[n]
        /\ \A n \in DOMAIN todo : \A sf \in todo[n].only : draft.asked[todo[n].of][sf] = None
    BY <2>1, <2>2 DEF TodoOK
  <2>4. /\ Len(todo) \in Nat \ {0} /\ DOMAIN todo = 1 .. Len(todo)
        /\ 1 \in DOMAIN todo /\ task = todo[1] /\ task \in SignalTasks
    BY <1>1, <2>3
  <2>5. /\ Tail(todo) \in Seq(SignalTasks) /\ Len(Tail(todo)) = Len(todo) - 1
        /\ DOMAIN Tail(todo) = 1 .. (Len(todo) - 1)
        /\ \A n \in 1 .. (Len(todo) - 1) : Tail(todo)[n] = todo[n + 1]
    BY <1>1, <2>3
  <2>6. \A n \in DOMAIN Tail(todo) : n + 1 \in DOMAIN todo /\ n + 1 # 1 /\ Tail(todo)[n] = todo[n + 1]
    BY <2>4, <2>5
  <2>7. \A m, n \in DOMAIN Tail(todo) : m # n => Tail(todo)[m] # Tail(todo)[n]
    <3>1. \A m, n \in DOMAIN Tail(todo) : m # n => m + 1 # n + 1
      BY <2>4, <2>5
    <3>2. QED
      BY <2>3, <2>6, <3>1
  <2>8. \A n \in DOMAIN Tail(todo) : Tail(todo)[n] \in SignalTasks /\ Tail(todo)[n] # task
    BY <2>3, <2>4, <2>6
  <2>9. \A t \in SignalTasks : \A sf \in t.only : t # task => ~(t.of = task.of /\ sf \in task.only)
    BY <2>4, SameSignal
  <2>10. \A j \in {1, 2} : \A sf \in Subframes :
           ~(j = task.of /\ sf \in task.only) => asked[j][sf] = draft.asked[j][sf]
    <3>1. task.of \in {1, 2}
      BY <2>4 DEF SignalTasks
    <3>2. CASE r.ok
      <4>1. \A j \in {1, 2} : \A sf \in Subframes :
              Ask(draft.asked, task, value)[j][sf]
                = IF j = task.of /\ (task.only = None \/ sf \in task.only)
                  THEN value ELSE draft.asked[j][sf]
        BY <2>1, <3>1, AskType
      <4>2. QED
        BY <1>1, <3>2, <4>1
    <3>3. CASE ~r.ok
      BY <3>3
    <3>4. QED
      BY <3>2, <3>3
  <2>11. \A n \in DOMAIN Tail(todo) : \A sf \in Tail(todo)[n].only :
           asked[Tail(todo)[n].of][sf] = None
    <3>1. ASSUME NEW n \in DOMAIN Tail(todo), NEW sf \in Tail(todo)[n].only
          PROVE  asked[Tail(todo)[n].of][sf] = None
      <4> DEFINE t == Tail(todo)[n]
      <4>1. t \in SignalTasks /\ t # task
        BY <2>8
      <4>2. t.of \in {1, 2} /\ sf \in Subframes
        BY <4>1 DEF SignalTasks
      <4>3. draft.asked[t.of][sf] = None
        BY <2>3, <2>6
      <4>4. ~(t.of = task.of /\ sf \in task.only)
        BY <2>9, <4>1
      <4> HIDE DEF t, asked, task
      <4>5. asked[t.of][sf] = None
        BY <2>10, <4>2, <4>3, <4>4
      <4>6. QED
        BY <4>5 DEF t
    <3>2. QED
      BY <3>1
  <2>12. TodoOK'
    <3>1. draft'.asked = asked
      BY <1>1 DEF Sheet
    <3> DEFINE list == Tail(todo)
    <3>2. list \in Seq(SignalTasks) /\ todo' = list
      BY <1>1, <2>5
    <3>3. \A m, n \in DOMAIN list : m # n => list[m] # list[n]
      BY <2>7
    <3>4. \A n \in DOMAIN list : \A sf \in list[n].only : asked[list[n].of][sf] = None
      BY <2>11
    <3> HIDE DEF asked, list
    <3>5. QED
      BY <3>1, <3>2, <3>3, <3>4, SignalsLeft
  <2>13. \A sf \in task.only : draft.asked[task.of][sf] = None
    BY <2>3, <2>4
  <2>14. SheetOK(next)
    <3>1. r = EncodeIntoFrame(draft.frame, parameter[task.of], value, task.only)
      OBVIOUS
    <3>2. task \in ScenarioTasks \cup SignalTasks /\ task \in SignalTasks
      BY <2>4
    <3> HIDE DEF r, task
    <3>3. CASE r.ok
      BY <1>2, <2>1, <3>1, <3>2, <3>3, ValueAsked
    <3>4. CASE ~r.ok
      BY <1>2, <2>1, <2>13, <3>1, <3>2, <3>4, SignalRefused
    <3>5. QED
      BY <3>3, <3>4
  <2>15. QED
    BY <2>1, <2>12, <2>14
<1> HIDE DEF next
<1>3. QED
  BY <1>1, <1>2, SheetsInvNext

LEMMA SheetsNext ==
  ASSUME SheetsInv, [Next]_vars
  PROVE  SheetsInv'
<1>1. CASE BlankFrame
  BY <1>1, SheetsBlankFrame
<1>2. ASSUME NEW order \in Orders, NEW current \in BOOLEAN,
             ApplyScenario(order, current)
      PROVE  SheetsInv'
  BY <1>2, SheetsApplyScenario
<1>3. CASE BuildEngineeringFrame
  BY <1>3, SheetsBuild
<1>4. ASSUME NEW value \in Values, EncodeScenario(value)
      PROVE  SheetsInv'
  BY <1>4, SheetsEncodeScenario
<1>5. ASSUME NEW value \in Values, DropScenario(value)
      PROVE  SheetsInv'
  BY <1>5, SheetsDropScenario
<1>6. ASSUME NEW value \in Values, EncodeSignal(value)
      PROVE  SheetsInv'
  BY <1>6, SheetsEncodeSignal
<1>7. CASE UNCHANGED vars
  BY <1>7 DEF vars, SheetsInv, ParameterInv, Clear, SheetOK, TodoOK
<1>8. QED
  BY <1>1, <1>2, <1>3, <1>4, <1>5, <1>6, <1>7 DEF Next

\* The closed loop: whatever is encoded, in whichever order, by scenarios and
\* by signals, a parameter of a dataframe with no error and no overlap decodes
\* to within half a step of the value it was last asked to hold.
THEOREM LoopClosed == Spec => []ClosedLoop
<1>1. Init => SheetsInv
  BY SheetsInit
<1>2. SheetsInv /\ [Next]_vars => SheetsInv'
  BY SheetsNext
<1>3. SheetsInv => ClosedLoop
  BY SheetsLoop
<1>4. QED
  BY <1>1, <1>2, <1>3, PTL DEF Spec

=============================================================================
