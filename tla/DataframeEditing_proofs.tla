---------------------- MODULE DataframeEditing_proofs ----------------------
(***************************************************************************)
(* Proofs about DataframeEditing, for any files, any dataframes imported   *)
(* and every bound on steps: what an export leaves of the records it did   *)
(* not change, that what is saved is loaded as it was given, that a        *)
(* dataframe without errors is exported to a file that can be read, and    *)
(* that what is exported says, read back, what is shown.                   *)
(***************************************************************************)
EXTENDS DataframeEditing, SequenceTheorems, FiniteSetTheorems, TLAPS
LOCAL INSTANCE SequencesExt
LOCAL INSTANCE FiniteSetsExt

-----------------------------------------------------------------------------
(* Lists and finite sets *)

\* Of a finite set in a strict order, the n-th has n - 1 before it.
LEMMA NthInOrder ==
  ASSUME NEW R, IsFiniteSet(R), NEW B,
         \A q \in R : <<q, q>> \notin B,
         \A p, q, r \in R : <<p, q>> \in B /\ <<q, r>> \in B => <<p, r>> \in B,
         \A q, r \in R : q # r => <<q, r>> \in B \/ <<r, q>> \in B,
         NEW n \in 1..Cardinality(R)
  PROVE  \E r \in R : Cardinality({q \in R : <<q, r>> \in B}) = n - 1
<1> DEFINE C == Cardinality(R)
           preds(r) == {q \in R : <<q, r>> \in B}
           f == [r \in R |-> Cardinality(preds(r))]
<1>1. C \in Nat
  BY FS_CardinalityType
<1>2. ASSUME NEW r \in R
      PROVE  IsFiniteSet(preds(r)) /\ Cardinality(preds(r)) \in 0..(C - 1)
  <2>1. preds(r) \in SUBSET R /\ preds(r) # R
    OBVIOUS
  <2> HIDE DEF preds
  <2>2. IsFiniteSet(preds(r)) /\ Cardinality(preds(r)) <= C /\ Cardinality(preds(r)) # C
    BY <2>1, FS_Subset
  <2>3. Cardinality(preds(r)) \in Nat
    BY <2>2, FS_CardinalityType
  <2>4. QED
    BY <1>1, <2>2, <2>3
<1>3. ASSUME NEW q \in R, NEW r \in R, <<q, r>> \in B
      PROVE  f[q] # f[r]
  <2>1. preds(q) \in SUBSET preds(r) /\ q \in preds(r) /\ q \notin preds(q)
    BY <1>3
  <2>2. IsFiniteSet(preds(r))
    BY <1>2
  <2> HIDE DEF preds
  <2>3. Cardinality(preds(q)) # Cardinality(preds(r))
    BY <2>1, <2>2, FS_Subset
  <2>4. QED
    BY <2>3
<1>4. f \in [R -> 0..(C - 1)]
  BY <1>2
<1>5. \A q, r \in R : f[q] = f[r] => q = r
  BY <1>3
<1>6. IsFiniteSet(0..(C - 1)) /\ Cardinality(0..(C - 1)) = C
  <2>1. C - 1 \in Int /\ 0 \in Int
    BY <1>1
  <2>2. Cardinality(0..(C - 1)) = (IF 0 > C - 1 THEN 0 ELSE (C - 1) - 0 + 1)
    BY <2>1, FS_Interval
  <2>3. IsFiniteSet(0..(C - 1))
    BY <2>1, FS_Interval
  <2>4. QED
    BY <1>1, <2>2, <2>3
<1>7. \E r \in R : f[r] = n - 1
  <2> SUFFICES ASSUME \A r \in R : f[r] # n - 1 PROVE FALSE
    OBVIOUS
  <2> DEFINE others == (0..(C - 1)) \ {n - 1}
  <2>1. n - 1 \in 0..(C - 1)
    BY <1>1
  <2> HIDE DEF f, C
  <2>2. IsFiniteSet(others) /\ Cardinality(others) = C - 1
    <3> DEFINE I == 0..(C - 1)
    <3>1. IsFiniteSet(I) /\ Cardinality(I) = C /\ n - 1 \in I
      BY <1>6, <2>1
    <3> HIDE DEF I
    <3>2. IsFiniteSet(I \ {n - 1}) /\ Cardinality(I \ {n - 1}) = C - 1
      BY <3>1, FS_RemoveElement
    <3>3. QED
      BY <3>2 DEF I
  <2>3. f \in [R -> others]
    BY <1>4
  <2> HIDE DEF others
  <2>4. Cardinality(others) < Cardinality(R)
    BY <1>1, <2>2 DEF C
  <2>5. \E q, r \in R : q # r /\ f[q] = f[r]
    BY <2>2, <2>3, <2>4, FS_PigeonHole
  <2>6. QED
    BY <1>5, <2>5
<1>8. QED
  BY <1>7

\* Of a finite set in a strict order, one comes first.
LEMMA FirstInOrder ==
  ASSUME NEW R, IsFiniteSet(R), R # {}, NEW B,
         \A q \in R : <<q, q>> \notin B,
         \A p, q, r \in R : <<p, q>> \in B /\ <<q, r>> \in B => <<p, r>> \in B,
         \A q, r \in R : q # r => <<q, r>> \in B \/ <<r, q>> \in B
  PROVE  \E r \in R : \A q \in R : <<q, r>> \notin B
<1>1. Cardinality(R) \in Nat /\ Cardinality(R) # 0
  BY FS_CardinalityType, FS_EmptySet
<1>2. \A n \in 1..Cardinality(R) :
        \E r \in R : Cardinality({q \in R : <<q, r>> \in B}) = n - 1
  BY NthInOrder
<1>3. 1 \in 1..Cardinality(R) /\ 1 - 1 = 0
  BY <1>1
<1>4. PICK r \in R : Cardinality({q \in R : <<q, r>> \in B}) = 0
  BY <1>2, <1>3
<1> DEFINE before == {q \in R : <<q, r>> \in B}
<1>5. before \in SUBSET R /\ Cardinality(before) = 0
  BY <1>4
<1>6. before = {}
  <2> HIDE DEF before
  <2>1. IsFiniteSet(before)
    BY <1>5, FS_Subset
  <2>2. QED
    BY <1>5, <2>1, FS_EmptySet
<1>7. QED
  BY <1>6

\* Every set of naturals has a least.
LEMMA LeastNatural ==
  ASSUME NEW T, T \subseteq Nat, T # {}
  PROVE  \E x \in T : \A y \in T : x <= y
<1>1. PICK t : t \in T
  OBVIOUS
<1> DEFINE R == {x \in T : x <= t}
           B == {ab \in R \X R : ab[1] < ab[2]}
<1>2. t \in Nat /\ IsFiniteSet(R) /\ R \subseteq Nat /\ t \in R
  <2>1. R \in SUBSET Nat /\ t \in Nat /\ \A x \in R : x <= t
    BY <1>1
  <2>2. t \in R
    BY <1>1, <2>1
  <2> HIDE DEF R
  <2>3. QED
    BY <2>1, <2>2, FS_BoundedSetOfNaturals
<1>3. \A x \in T : x \notin R => t < x
  BY <1>1
<1> HIDE DEF R
<1>4. \A q, r \in R : <<q, r>> \in B <=> q < r
  OBVIOUS
<1> HIDE DEF B
<1>5. PICK x \in R : \A q \in R : <<q, x>> \notin B
  <2>1. /\ \A q \in R : <<q, q>> \notin B
        /\ \A p, q, r \in R : <<p, q>> \in B /\ <<q, r>> \in B => <<p, r>> \in B
        /\ \A q, r \in R : q # r => <<q, r>> \in B \/ <<r, q>> \in B
    BY <1>2, <1>4
  <2>2. QED
    BY <1>2, <2>1, FirstInOrder
<1>6. x \in T /\ x <= t
  BY DEF R
<1>7. ASSUME NEW y \in T PROVE x <= y
  <2>1. CASE y \in R
    <3>1. ~(y < x) /\ y \in Nat /\ x \in Nat
      BY <1>2, <1>4, <1>5, <2>1
    <3>2. QED
      BY <3>1
  <2>2. CASE y \notin R
    BY <1>2, <1>3, <1>6, <2>2
  <2>3. QED
    BY <2>1, <2>2
<1>8. QED
  BY <1>6, <1>7

\* Induction on a set of numbers, in place of a predicate.
LEMMA SetInduction ==
  ASSUME NEW T, 0 \in T, \A n \in Nat : n \in T => n + 1 \in T
  PROVE  Nat \subseteq T
<1> SUFFICES ASSUME Nat \ T # {} PROVE FALSE
  OBVIOUS
<1>1. PICK x \in Nat \ T : \A y \in Nat \ T : x <= y
  BY LeastNatural
<1>2. x # 0 /\ x - 1 \in Nat
  BY <1>1
<1>3. x - 1 \in T
  BY <1>1, <1>2
<1>4. QED
  BY <1>1, <1>2, <1>3

\* The lists of a list are joined one by one.
LEMMA FlattenSteps ==
  ASSUME NEW ss, Len(ss) \in Nat \ {0}
  PROVE  \E f : /\ FlattenSeq(ss) = f[Len(ss)] /\ f[1] = ss[1]
                /\ \A i \in 2..Len(ss) : f[i] = f[i - 1] \o ss[i]
<1> DEFINE n == Len(ss)
           next(f, i) == IF i = 1 THEN ss[i] ELSE f[i - 1] \o ss[i]
           f0 == CHOOSE f : f = [i \in 1..n |-> next(f, i)]
<1>2. n \in Nat \ {0}
  OBVIOUS
<1>1. FlattenSeq(ss) = f0[n]
  <2>1. n # 0
    OBVIOUS
  <2>2. QED
    BY ONLY <2>1 DEF FlattenSeq
<1> HIDE DEF next, f0, n
<1>3. \E f : f = [i \in 1..n |-> next(f, i)]
  <2> DEFINE T == {m \in Nat : \E f : f = [i \in 1..m |-> next(f, i)]}
  <2>1. 0 \in T
    <3>1. 1..0 = {}
      OBVIOUS
    <3> DEFINE g == [i \in {} |-> i]
    <3>2. g = [i \in {} |-> next(g, i)]
      OBVIOUS
    <3>3. QED
      BY <3>1, <3>2
  <2>2. ASSUME NEW m \in Nat, m \in T PROVE m + 1 \in T
    <3>1. PICK f : f = [i \in 1..m |-> next(f, i)]
      BY <2>2
    <3> DEFINE g == [i \in 1..(m + 1) |-> IF i = m + 1 THEN next(f, m + 1) ELSE f[i]]
    <3>2. ASSUME NEW i \in 1..(m + 1) PROVE g[i] = next(g, i)
      <4>1. i # 1 => g[i - 1] = f[i - 1]
        OBVIOUS
      <4>2. next(g, i) = next(f, i)
        BY <4>1 DEF next
      <4>3. i # m + 1 => f[i] = next(f, i)
        <5> HIDE DEF next
        <5>1. i # m + 1 => i \in 1..m
          OBVIOUS
        <5>2. QED
          BY <3>1, <5>1
      <4>4. QED
        BY <4>2, <4>3
    <3>3. g = [i \in 1..(m + 1) |-> next(g, i)]
      <4>1. g = [i \in 1..(m + 1) |-> g[i]]
        OBVIOUS
      <4> HIDE DEF g
      <4>2. QED
        BY <3>2, <4>1
    <3> HIDE DEF g
    <3>4. QED
      BY <3>3
  <2> HIDE DEF T
  <2>3. Nat \subseteq T
    BY <2>1, <2>2, SetInduction
  <2>4. n \in T
    BY <1>2, <2>3
  <2>5. QED
    BY <2>4 DEF T
<1>4. f0 = [i \in 1..n |-> next(f0, i)]
  BY <1>3 DEF f0
<1>5. \A i \in 1..n : f0[i] = next(f0, i)
  BY <1>4
<1>6. f0[1] = ss[1]
  <2>1. 1 \in 1..n
    BY <1>2
  <2>2. QED
    BY <1>5, <2>1 DEF next
<1>7. ASSUME NEW i \in 2..n PROVE f0[i] = f0[i - 1] \o ss[i]
  <2>1. i \in 1..n /\ i # 1
    BY <1>2
  <2>2. f0[i] = next(f0, i)
    BY <1>5, <2>1
  <2>3. QED
    BY <2>1, <2>2 DEF next
<1>8. QED
  BY <1>1, <1>6, <1>7 DEF n

\* The lists of a list, one after the other
LEMMA FlattenedList ==
  ASSUME NEW S, NEW ss \in Seq(Seq(S))
  PROVE  FlattenSeq(ss) \in Seq(S)
<1> DEFINE n == Len(ss)
<1>0. n \in Nat /\ \A i \in 1..n : ss[i] \in Seq(S)
  BY LenProperties, ElementOfSeq
<1>1. CASE n = 0
  <2>1. ss = << >>
    BY <1>1, EmptySeq
  <2>2. FlattenSeq(ss) = ss
    BY <1>1 DEF FlattenSeq
  <2>3. QED
    BY <2>1, <2>2, EmptySeq
<1>2. CASE n # 0
  <2>1. PICK f : FlattenSeq(ss) = f[n] /\ f[1] = ss[1] /\ \A i \in 2..n : f[i] = f[i - 1] \o ss[i]
    BY <1>0, <1>2, FlattenSteps
  <2> HIDE DEF n
  <2> DEFINE U == {m \in Nat : m + 1 \in 1..n => f[m + 1] \in Seq(S)}
  <2>2. 0 \in U
    BY <1>0, <2>1
  <2>3. ASSUME NEW m \in Nat, m \in U PROVE m + 1 \in U
    <3> SUFFICES ASSUME (m + 1) + 1 \in 1..n PROVE f[(m + 1) + 1] \in Seq(S)
      OBVIOUS
    <3>1. m + 1 \in 1..n /\ (m + 1) + 1 \in 2..n /\ ((m + 1) + 1) - 1 = m + 1
      BY <1>0
    <3>2. f[m + 1] \in Seq(S) /\ ss[(m + 1) + 1] \in Seq(S)
      BY <1>0, <2>3, <3>1
    <3>3. f[(m + 1) + 1] = f[m + 1] \o ss[(m + 1) + 1]
      BY <2>1, <3>1
    <3>4. QED
      BY <3>2, <3>3, ConcatProperties
  <2> HIDE DEF U
  <2>4. Nat \subseteq U
    BY <2>2, <2>3, SetInduction
  <2>5. n - 1 \in Nat /\ (n - 1) + 1 = n /\ n \in 1..n
    BY <1>0, <1>2 DEF n
  <2>6. f[n] \in Seq(S)
    BY <2>4, <2>5 DEF U
  <2>7. QED
    BY <2>1, <2>6
<1>3. QED
  BY <1>1, <1>2

\* What is known of a list
LEMMA ListFacts ==
  ASSUME NEW s, Listed(s)
  PROVE  /\ Len(s) \in Nat /\ DOMAIN s = 1..Len(s)
         /\ s = [k \in 1..Len(s) |-> s[k]]
<1> DEFINE S == {s[k] : k \in DOMAIN s}
<1>1. s \in Seq(S)
  BY DEF Listed
<1> HIDE DEF S
<1>2. Len(s) \in Nat /\ DOMAIN s = 1..Len(s) /\ s \in [1..Len(s) -> S]
  BY <1>1, LenProperties
<1>3. QED
  BY <1>2

\* Sequences are lists,
LEMMA SequenceListed ==
  ASSUME NEW S, NEW s \in Seq(S)
  PROVE  Listed(s) /\ \A k \in DOMAIN s : s[k] \in S
<1> DEFINE T == {s[k] : k \in DOMAIN s}
<1>1. Len(s) \in Nat /\ DOMAIN s = 1..Len(s) /\ s \in [1..Len(s) -> S]
  BY LenProperties
<1>2. s \in [1..Len(s) -> T]
  BY <1>1
<1>3. s \in Seq(T)
  <2> HIDE DEF T
  <2>1. s \in UNION {[1..n -> T] : n \in Nat}
    BY <1>1, <1>2
  <2>2. QED
    BY <2>1, SeqDef
<1>4. QED
  BY <1>1, <1>3 DEF Listed

\* and so is what is made place by place.
LEMMA MadeListed ==
  ASSUME NEW n \in Nat, NEW s, s = [k \in 1..n |-> s[k]]
  PROVE  Listed(s) /\ Len(s) = n /\ DOMAIN s = 1..n
<1> DEFINE T == {s[k] : k \in DOMAIN s}
<1>1. DOMAIN s = 1..n
  OBVIOUS
<1>2. s \in [1..n -> T]
  BY <1>1
<1>3. s \in Seq(T)
  <2> HIDE DEF T
  <2>1. s \in UNION {[1..m -> T] : m \in Nat}
    BY <1>2
  <2>2. QED
    BY <2>1, SeqDef
<1>4. Len(s) \in Nat /\ DOMAIN s = 1..Len(s)
  <2> HIDE DEF T
  <2>1. QED
    BY <1>3, LenProperties
<1>5. Len(s) = n
  <2>1. 1..Len(s) = 1..n
    BY <1>1, <1>4
  <2>2. QED
    BY <1>4, <2>1
<1>6. QED
  BY <1>1, <1>3, <1>5 DEF Listed

\* Equal in length and place by place, equal
LEMMA ListsEqual ==
  ASSUME NEW s, NEW t, Listed(s), Listed(t), Len(s) = Len(t), \A k \in DOMAIN s : s[k] = t[k]
  PROVE  s = t
<1>1. /\ s = [k \in 1..Len(s) |-> s[k]] /\ DOMAIN s = 1..Len(s)
      /\ t = [k \in 1..Len(t) |-> t[k]]
  BY ListFacts
<1>2. QED
  BY <1>1

\* A finite set has an n-th number,
LEMMA NthExists ==
  ASSUME NEW S, S \subseteq Int, IsFiniteSet(S), NEW k \in 1..Cardinality(S)
  PROVE  \E s \in S : Cardinality({t \in S : t < s}) = k - 1
<1> DEFINE B == {ab \in S \X S : ab[1] < ab[2]}
<1>1. \A q, r \in S : <<q, r>> \in B <=> q < r
  OBVIOUS
<1>2. /\ \A q \in S : <<q, q>> \notin B
      /\ \A p, q, r \in S : <<p, q>> \in B /\ <<q, r>> \in B => <<p, r>> \in B
      /\ \A q, r \in S : q # r => <<q, r>> \in B \/ <<r, q>> \in B
  <2> HIDE DEF B
  <2>1. QED
    BY <1>1
<1>3. \A s \in S : {q \in S : <<q, s>> \in B} = {t \in S : t < s}
  <2> HIDE DEF B
  <2>1. QED
    BY <1>1
<1> HIDE DEF B
<1>4. \E s \in S : Cardinality({q \in S : <<q, s>> \in B}) = k - 1
  <2>1. \A n \in 1..Cardinality(S) :
          \E r \in S : Cardinality({q \in S : <<q, r>> \in B}) = n - 1
    BY <1>2, NthInOrder
  <2>2. QED
    BY <2>1
<1>5. QED
  BY <1>3, <1>4

\* which is one of it.
LEMMA NthOfIn ==
  ASSUME NEW S, S \subseteq Int, IsFiniteSet(S), NEW k \in 1..Cardinality(S)
  PROVE  NthOf(S, k) \in S
<1>1. PICK s \in S : Cardinality({t \in S : t < s}) = k - 1
  BY NthExists
<1>2. QED
  BY <1>1 DEF NthOf

\* Every finite set of numbers has a greatest.
LEMMA MaxIn ==
  ASSUME NEW S, S \subseteq Int, IsFiniteSet(S), S # {}
  PROVE  Max(S) \in S /\ \A y \in S : y <= Max(S)
<1> DEFINE B == {ab \in S \X S : ab[1] > ab[2]}
<1>1. \A q, r \in S : <<q, r>> \in B <=> q > r
  OBVIOUS
<1>2. /\ \A q \in S : <<q, q>> \notin B
      /\ \A p, q, r \in S : <<p, q>> \in B /\ <<q, r>> \in B => <<p, r>> \in B
      /\ \A q, r \in S : q # r => <<q, r>> \in B \/ <<r, q>> \in B
  <2> HIDE DEF B
  <2>1. QED
    BY <1>1
<1> HIDE DEF B
<1>3. \E s \in S : \A q \in S : <<q, s>> \notin B
  BY <1>2, FirstInOrder
<1>4. \E s \in S : \A q \in S : s >= q
  <2>1. PICK s \in S : \A q \in S : <<q, s>> \notin B
    BY <1>3
  <2>2. ASSUME NEW q \in S PROVE s >= q
    <3>1. ~(q > s) /\ q \in Int /\ s \in Int
      BY <1>1, <2>1
    <3>2. QED
      BY <3>1
  <2>3. QED
    BY <2>2
<1>5. Max(S) \in S /\ \A y \in S : Max(S) >= y
  BY <1>4 DEF Max
<1>6. QED
  BY <1>5

\* What is as long as a sequence of a set is one.
LEMMA MadeOf ==
  ASSUME NEW S, NEW n \in Nat, NEW s, s = [k \in 1..n |-> s[k]], \A k \in 1..n : s[k] \in S
  PROVE  s \in Seq(S)
<1>1. s \in [1..n -> S]
  OBVIOUS
<1>2. s \in UNION {[1..m -> S] : m \in Nat}
  BY <1>1
<1>3. QED
  BY <1>2, SeqDef

\* One list after another
LEMMA JoinedLists ==
  ASSUME NEW s, NEW t, Listed(s), Listed(t)
  PROVE  /\ Listed(s \o t) /\ Len(s \o t) = Len(s) + Len(t)
         /\ \A k \in 1..Len(s) : (s \o t)[k] = s[k]
         /\ \A k \in 1..Len(t) : (s \o t)[Len(s) + k] = t[k]
<1> DEFINE S == {s[k] : k \in DOMAIN s} \cup {t[k] : k \in DOMAIN t}
           A == {s[k] : k \in DOMAIN s}
           B == {t[k] : k \in DOMAIN t}
<1>1. s \in Seq(A) /\ t \in Seq(B)
  BY DEF Listed
<1>2. A \subseteq S /\ B \subseteq S
  OBVIOUS
<1> HIDE DEF S, A, B
<1>3. s \in Seq(S) /\ t \in Seq(S)
  BY <1>1, <1>2
<1>4. s \o t \in Seq(S)
  BY <1>3
<1>5. Listed(s \o t)
  BY <1>4, SequenceListed
<1>6. QED
  BY <1>3, <1>5

\* An element after a list
LEMMA LengthenedList ==
  ASSUME NEW s, Listed(s), NEW x
  PROVE  /\ Listed(Append(s, x)) /\ Len(Append(s, x)) = Len(s) + 1
         /\ \A k \in 1..Len(s) : Append(s, x)[k] = s[k]
         /\ Append(s, x)[Len(s) + 1] = x
<1> DEFINE A == {s[k] : k \in DOMAIN s}
           S == A \cup {x}
<1>1. s \in Seq(A)
  BY DEF Listed
<1>2. A \subseteq S /\ x \in S
  OBVIOUS
<1> HIDE DEF S, A
<1>3. s \in Seq(S) /\ Append(s, x) \in Seq(S)
  BY <1>1, <1>2
<1>4. Listed(Append(s, x))
  BY <1>3, SequenceListed
<1>5. QED
  BY <1>2, <1>3, <1>4, AppendProperties

\* The empty list
LEMMA EmptyList == Listed(<<>>) /\ Len(<<>>) = 0 /\ DOMAIN <<>> = {}
BY DEF Listed

\* A slice of a list is one, of the same elements.
LEMMA SliceListed ==
  ASSUME NEW s, Listed(s), NEW m \in Nat \ {0}, NEW n \in Int, n <= Len(s)
  PROVE  /\ Listed(SubSeq(s, m, n))
         /\ \A k \in DOMAIN SubSeq(s, m, n) : \E i \in DOMAIN s : SubSeq(s, m, n)[k] = s[i]
<1> DEFINE S == {s[k] : k \in DOMAIN s}
           t == SubSeq(s, m, n)
<1>1. s \in Seq(S) /\ Len(s) \in Nat
  BY ListFacts DEF Listed
<1>2. \A x \in S : \E i \in DOMAIN s : x = s[i]
  OBVIOUS
<1> HIDE DEF S
<1>3. t \in Seq(S)
  BY <1>1
<1> HIDE DEF t
<1>4. Listed(t) /\ \A k \in DOMAIN t : t[k] \in S
  BY <1>3, SequenceListed
<1>5. QED
  BY <1>2, <1>4 DEF t

\* It has the elements from m to n.
LEMMA SliceFacts ==
  ASSUME NEW s, Listed(s), NEW m \in Nat \ {0}, NEW n \in Int, n <= Len(s)
  PROVE  /\ m <= n => Len(SubSeq(s, m, n)) = n - m + 1
         /\ n < m => Len(SubSeq(s, m, n)) = 0
         /\ \A k \in 1..(n - m + 1) : SubSeq(s, m, n)[k] = s[m + k - 1]
<1>1. Len(s) \in Nat /\ DOMAIN s = 1..Len(s)
  BY ListFacts
<1> DEFINE S == {s[k] : k \in DOMAIN s}
<1>2. \A i \in m..n : s[i] \in S
  BY <1>1
<1> HIDE DEF S
<1>3. QED
  BY <1>2, SubSeqProperties

\* A list with one place changed
LEMMA PlaceChanged ==
  ASSUME NEW s, Listed(s), NEW i \in DOMAIN s, NEW x
  PROVE  LET t == [s EXCEPT ![i] = x]
         IN  /\ Listed(t) /\ DOMAIN t = DOMAIN s /\ Len(t) = Len(s)
             /\ \A k \in DOMAIN s : t[k] = IF k = i THEN x ELSE s[k]
<1> DEFINE n == Len(s)
           t == [s EXCEPT ![i] = x]
<1>1. n \in Nat /\ DOMAIN s = 1..n
  BY ListFacts
<1>2. DOMAIN t = DOMAIN s /\ \A k \in DOMAIN s : t[k] = IF k = i THEN x ELSE s[k]
  OBVIOUS
<1>3. t = [k \in 1..n |-> t[k]]
  BY <1>1
<1> HIDE DEF t, n
<1>4. Listed(t) /\ Len(t) = n
  BY <1>1, <1>3, MadeListed
<1>5. QED
  BY <1>2, <1>4 DEF t, n

\* A list has finitely many values.
LEMMA ImageFinite ==
  ASSUME NEW n \in Nat, NEW f
  PROVE  IsFiniteSet({f[k] : k \in 1..n})
<1> DEFINE upto(m) == {f[k] : k \in 1..m}
           T == {m \in Nat : IsFiniteSet(upto(m))}
<1>1. 0 \in T
  <2>1. upto(0) = {}
    OBVIOUS
  <2>2. IsFiniteSet({})
    BY FS_EmptySet
  <2>3. QED
    BY <2>1, <2>2
<1>2. ASSUME NEW m \in Nat, m \in T PROVE m + 1 \in T
  <2>1. upto(m + 1) = upto(m) \cup {f[m + 1]}
    <3>1. 1..(m + 1) = (1..m) \cup {m + 1}
      OBVIOUS
    <3>2. QED
      BY <3>1
  <2>2. IsFiniteSet(upto(m))
    BY <1>2
  <2> HIDE DEF upto
  <2>3. IsFiniteSet(upto(m) \cup {f[m + 1]})
    BY <2>2, FS_AddElement
  <2>4. m + 1 \in Nat
    OBVIOUS
  <2>5. QED
    BY <2>1, <2>3, <2>4
<1> HIDE DEF T
<1>3. Nat \subseteq T
  BY <1>1, <1>2, SetInduction
<1>4. QED
  BY <1>3 DEF T

\* The smaller of two numbers
LEMMA MinOfTwo ==
  ASSUME NEW a \in Int, NEW b \in Int
  PROVE  LET m == Min({a, b}) IN m \in {a, b} /\ m <= a /\ m <= b
<1>1. \E x \in {a, b} : \A y \in {a, b} : x <= y
  OBVIOUS
<1>2. QED
  BY <1>1 DEF Min

\* There are finitely many subframes.
LEMMA SubframesFinite == IsFiniteSet(Subframes)
BY CodecAssumption, FS_Interval DEF Subframes

-----------------------------------------------------------------------------
(* Parameters that differ in stored selectors only *)

\* Alike but for the stored selectors
AlikeSegments(g, h) ==
  /\ g.sequence = h.sequence /\ g.subframes = h.subframes /\ g.word = h.word
  /\ g.lsb = h.lsb /\ g.msb = h.msb /\ g.weight = h.weight

AlikeOccurrences(o, u) ==
  /\ o.index = u.index /\ Len(o.segments) = Len(u.segments)
  /\ \A s \in 1..Len(o.segments) : AlikeSegments(o.segments[s], u.segments[s])

AlikeLists(os, us) ==
  /\ Listed(os) /\ Listed(us) /\ Len(os) = Len(us)
  /\ \A k \in 1..Len(os) : /\ IsOccurrence(os[k]) /\ IsOccurrence(us[k])
                           /\ AlikeOccurrences(os[k], us[k])

Alike(p, q) ==
  /\ p.name = q.name /\ p.source = q.source /\ p.type = q.type /\ p.scale = q.scale
  /\ p.states = q.states /\ p.record = q.record
  /\ AlikeLists(p.occurrences, q.occurrences)

\* A segment without its selector
LEMMA BareSegment ==
  ASSUME NEW g, g = Segment(g.sequence, g.subframes, g.word, g.lsb, g.msb, g.weight, g.raw)
  PROVE  [g EXCEPT !.raw = {}]
           = Segment(g.sequence, g.subframes, g.word, g.lsb, g.msb, g.weight, {})
<1> DEFINE bare(x) == [x EXCEPT !.raw = {}]
<1>1. \A a, b, c, d, e, f, r :
        bare(Segment(a, b, c, d, e, f, r)) = Segment(a, b, c, d, e, f, {})
  BY DEF Segment
<1> HIDE DEF bare
<1>2. bare(g) = Segment(g.sequence, g.subframes, g.word, g.lsb, g.msb, g.weight, {})
  BY <1>1
<1>3. QED
  BY <1>2 DEF bare

\* The canonical form of occurrences has no selectors.
LEMMA AlikeCanonically ==
  ASSUME NEW os, NEW us, AlikeLists(os, us)
  PROVE  Canonically(os) = Canonically(us)
<1> DEFINE bare(g) == [g EXCEPT !.raw = {}]
           bared(o) == [o EXCEPT !.segments = [s \in DOMAIN @ |-> bare(@[s])]]
<1>1. DOMAIN os = 1..Len(os) /\ DOMAIN us = 1..Len(os)
  BY ListFacts DEF AlikeLists
<1>2. ASSUME NEW k \in 1..Len(os) PROVE bared(os[k]) = bared(us[k])
  <2> DEFINE o == os[k]
             u == us[k]
  <2>1. IsOccurrence(o) /\ IsOccurrence(u) /\ AlikeOccurrences(o, u)
    BY DEF AlikeLists
  <2> HIDE DEF o, u
  <2>2. DOMAIN o.segments = 1..Len(o.segments) /\ DOMAIN u.segments = 1..Len(o.segments)
    BY <2>1, ListFacts DEF IsOccurrence, AlikeOccurrences
  <2>3. ASSUME NEW s \in 1..Len(o.segments) PROVE bare(o.segments[s]) = bare(u.segments[s])
    <3> DEFINE g == o.segments[s]
               h == u.segments[s]
    <3>1. IsSegment(g) /\ IsSegment(h) /\ AlikeSegments(g, h)
      BY <2>1, <2>2 DEF IsOccurrence, AlikeOccurrences
    <3> HIDE DEF g, h
    <3>2. bare(g) = Segment(g.sequence, g.subframes, g.word, g.lsb, g.msb, g.weight, {})
      BY <3>1, BareSegment DEF IsSegment
    <3>3. bare(h) = Segment(h.sequence, h.subframes, h.word, h.lsb, h.msb, h.weight, {})
      BY <3>1, BareSegment DEF IsSegment
    <3>4. bare(g) = bare(h)
      BY <3>1, <3>2, <3>3 DEF AlikeSegments
    <3>5. QED
      BY <3>4 DEF g, h
  <2> HIDE DEF bare
  <2>4. bared(o) = Occurrence(o.index, [s \in DOMAIN o.segments |-> bare(o.segments[s])])
    BY <2>1 DEF IsOccurrence, Occurrence
  <2>5. bared(u) = Occurrence(u.index, [s \in DOMAIN u.segments |-> bare(u.segments[s])])
    BY <2>1 DEF IsOccurrence, Occurrence
  <2>6. [s \in DOMAIN o.segments |-> bare(o.segments[s])] = [s \in DOMAIN u.segments |-> bare(u.segments[s])]
    BY <2>2, <2>3
  <2>7. o.index = u.index
    BY <2>1 DEF AlikeOccurrences
  <2> HIDE DEF bared
  <2>8. bared(o) = bared(u)
    BY <2>4, <2>5, <2>6, <2>7
  <2>9. QED
    BY <2>8 DEF o, u
<1>3. Canonically(os) = [k \in DOMAIN os |-> bared(os[k])] /\ Canonically(us) = [k \in DOMAIN us |-> bared(us[k])]
  BY DEF Canonically
<1> HIDE DEF bared
<1>4. QED
  BY <1>1, <1>2, <1>3

\* What is like one of two alike parameters is like the other.
LEMMA AlikeSame ==
  ASSUME NEW p, NEW q, Alike(p, q)
  PROVE  SameParameter(q, p) /\ \A r : SameParameter(p, r) <=> SameParameter(q, r)
<1>1. Canonically(p.occurrences) = Canonically(q.occurrences)
  BY AlikeCanonically DEF Alike
<1>2. QED
  BY <1>1 DEF Alike, SameParameter

\* Selected at the same places, lists stay alike.
LEMMA AlikeAmong ==
  ASSUME NEW os, NEW us, AlikeLists(os, us), NEW K \in SUBSET DOMAIN os
  PROVE  /\ AlikeLists(Among(os, K), Among(us, K))
         /\ \A k \in 1..Len(Among(os, K)) : NthOf(K, k) \in K /\ Among(os, K)[k] = os[NthOf(K, k)]
<1>1. K \in SUBSET (1..Len(os)) /\ Len(os) \in Nat
  BY ListFacts DEF AlikeLists
<1>2. IsFiniteSet(K) /\ Cardinality(K) \in Nat
  <2>1. IsFiniteSet(1..Len(os))
    BY <1>1, FS_Interval
  <2>2. IsFiniteSet(K)
    BY <1>1, <2>1, FS_Subset
  <2>3. QED
    BY <2>2, FS_CardinalityType
<1> DEFINE n == Cardinality(K)
           a == Among(os, K)
           b == Among(us, K)
<1>3. a = [k \in 1..n |-> os[NthOf(K, k)]] /\ b = [k \in 1..n |-> us[NthOf(K, k)]]
  BY DEF Among
<1>4. \A k \in 1..n : NthOf(K, k) \in K
  BY <1>1, <1>2, NthOfIn
<1> HIDE DEF a, b
<1>5. n \in Nat /\ a = [k \in 1..n |-> a[k]] /\ b = [k \in 1..n |-> b[k]]
  BY <1>2, <1>3
<1> HIDE DEF n
<1>6. Listed(a) /\ Len(a) = n /\ Listed(b) /\ Len(b) = n
  BY <1>5, MadeListed
<1>7. ASSUME NEW k \in 1..n
      PROVE  IsOccurrence(a[k]) /\ IsOccurrence(b[k]) /\ AlikeOccurrences(a[k], b[k])
  <2>1. NthOf(K, k) \in 1..Len(os)
    BY <1>1, <1>4
  <2>2. a[k] = os[NthOf(K, k)] /\ b[k] = us[NthOf(K, k)]
    BY <1>3
  <2>3. QED
    BY <2>1, <2>2 DEF AlikeLists
<1>8. QED
  BY <1>3, <1>4, <1>6, <1>7 DEF AlikeLists, a, b

\* A location of the writer is that of a like segment.
LEMMA AlikeLocation ==
  ASSUME NEW g, NEW h, AlikeSegments(g, h), NEW x, NEW wps
  PROVE  Location(g, x, wps) = Location(h, x, wps)
BY DEF AlikeSegments, Location

\* The parts of an occurrence from the last
LEMMA ReversedParts ==
  ASSUME NEW o, IsOccurrence(o)
  PROVE  LET P == Reverse(o.segments)
         IN  /\ Listed(P) /\ Len(P) = Len(o.segments) /\ DOMAIN P = 1..Len(o.segments)
             /\ \A i \in 1..Len(o.segments) :
                  /\ Len(o.segments) - i + 1 \in 1..Len(o.segments)
                  /\ P[i] = o.segments[Len(o.segments) - i + 1]
<1> DEFINE n == Len(o.segments)
           P == Reverse(o.segments)
<1>1. n \in Nat
  BY ListFacts DEF IsOccurrence
<1>2. P = [i \in 1..n |-> o.segments[n - i + 1]]
  BY DEF Reverse
<1> HIDE DEF P, n
<1>3. P = [i \in 1..n |-> P[i]]
  BY <1>2
<1>4. Listed(P) /\ Len(P) = n /\ DOMAIN P = 1..n
  BY <1>1, <1>3, MadeListed
<1>5. \A i \in 1..n : n - i + 1 \in 1..n /\ P[i] = o.segments[n - i + 1]
  BY <1>1, <1>2
<1>6. QED
  BY <1>4, <1>5 DEF P, n

\* Alike occurrences are written as the same samples.
LEMMA AlikeSamples ==
  ASSUME NEW o, NEW u, IsOccurrence(o), IsOccurrence(u), AlikeOccurrences(o, u), o.segments # <<>>,
         NEW sf, NEW uniform, NEW wps
  PROVE  SamplesAt(o, sf, uniform, wps) = SamplesAt(u, sf, uniform, wps)
<1> DEFINE n == Len(o.segments)
           P == Reverse(o.segments)
           Q == Reverse(u.segments)
<1>1. /\ Listed(P) /\ Listed(Q) /\ DOMAIN P = 1..n /\ DOMAIN Q = 1..n
      /\ \A i \in 1..n : AlikeSegments(P[i], Q[i])
  <2>1. Len(u.segments) = n
    BY DEF AlikeOccurrences
  <2>2. \A i \in 1..n : n - i + 1 \in 1..n /\ P[i] = o.segments[n - i + 1]
    BY ReversedParts
  <2>3. \A i \in 1..n : Q[i] = u.segments[n - i + 1]
    BY <2>1, ReversedParts
  <2>4. Listed(P) /\ Listed(Q) /\ DOMAIN P = 1..n /\ DOMAIN Q = 1..n
    BY <2>1, ReversedParts
  <2> HIDE DEF P, Q
  <2>5. ASSUME NEW i \in 1..n PROVE AlikeSegments(P[i], Q[i])
    BY <2>2, <2>3 DEF AlikeOccurrences
  <2>6. QED
    BY <2>4, <2>5
<1>2. n \in Nat \ {0}
  <2>1. n \in Nat /\ o.segments = [k \in 1..n |-> o.segments[k]]
    BY ListFacts DEF IsOccurrence
  <2>2. n = 0 => o.segments = <<>>
    BY <2>1
  <2>3. QED
    BY <2>1, <2>2
<1> DEFINE nth(parts, k) == [i \in DOMAIN parts |-> NthOf(parts[i].subframes, k)]
           begins(parts, k) == Min({nth(parts, k)[i] : i \in DOMAIN parts})
           ks(parts) == {k \in 1..Cardinality(parts[1].subframes) : begins(parts, k) = sf}
           here(parts) == Among(parts, {i \in DOMAIN parts : sf \in parts[i].subframes})
           apart(parts) == [i \in DOMAIN here(parts) |-> Location(here(parts)[i], sf, wps)]
           sample(parts, k) == [i \in DOMAIN parts |-> Location(parts[i], nth(parts, k)[i], wps)]
           together(parts) ==
             FlattenSeq([j \in 1..Cardinality(ks(parts)) |-> sample(parts, NthOf(ks(parts), j))])
           samples(parts) == IF ~uniform THEN apart(parts) ELSE together(parts)
<1>3. SamplesAt(o, sf, uniform, wps) = samples(P) /\ SamplesAt(u, sf, uniform, wps) = samples(Q)
  BY Zenon DEF SamplesAt
<1> HIDE DEF P, Q
<1>4. \A i \in 1..n : P[i].subframes = Q[i].subframes
  BY <1>1 DEF AlikeSegments
<1>5. \A i \in 1..n : \A x : Location(P[i], x, wps) = Location(Q[i], x, wps)
  BY <1>1, AlikeLocation
<1>6. \A k : nth(P, k) = nth(Q, k)
  BY <1>1, <1>4
<1>16. DOMAIN P = DOMAIN Q
  BY <1>1
<1> HIDE DEF nth
<1>7. \A k : sample(P, k) = sample(Q, k)
  BY <1>1, <1>5, <1>6
<1> HIDE DEF sample
<1>8. \A k : begins(P, k) = begins(Q, k)
  <2> TAKE k
  <2>1. nth(P, k) = nth(Q, k)
    BY <1>6
  <2>2. {nth(P, k)[i] : i \in DOMAIN P} = {nth(Q, k)[i] : i \in DOMAIN Q}
    BY <1>16, <2>1, Zenon
  <2>3. QED
    BY <2>2, Zenon
<1> HIDE DEF begins
<1>9. ks(P) = ks(Q)
  <2>1. P[1].subframes = Q[1].subframes
    BY <1>2, <1>4
  <2>2. QED
    BY <2>1, <1>8
<1> HIDE DEF ks
<1>10. together(P) = together(Q)
  BY <1>7, <1>9
<1>11. apart(P) = apart(Q)
  <2> DEFINE K == {i \in 1..n : sf \in P[i].subframes}
  <2>1. here(P) = Among(P, K) /\ here(Q) = Among(Q, K)
    BY <1>1, <1>4
  <2>2. IsFiniteSet(K) /\ K \in SUBSET Int
    <3>1. K \in SUBSET (1..n) /\ IsFiniteSet(1..n)
      BY <1>2, FS_Interval
    <3> HIDE DEF K
    <3>2. IsFiniteSet(K)
      BY <3>1, FS_Subset
    <3>3. K \in SUBSET Int
      BY <1>2, <3>1
    <3>4. QED
      BY <3>2, <3>3
  <2>3. \A k \in 1..Cardinality(K) : NthOf(K, k) \in 1..n
    <3>1. \A k \in 1..Cardinality(K) : NthOf(K, k) \in K
      BY <2>2, NthOfIn
    <3>2. QED
      BY <3>1
  <2> HIDE DEF K
  <2>4. here(P) = [k \in 1..Cardinality(K) |-> P[NthOf(K, k)]]
        /\ here(Q) = [k \in 1..Cardinality(K) |-> Q[NthOf(K, k)]]
    BY <2>1, Zenon DEF Among
  <2> HIDE DEF here
  <2>5. QED
    BY <1>5, <2>3, <2>4
<1>12. QED
  BY <1>3, <1>10, <1>11

\* The facts of two alike occurrences
LEMMA AlikeFacts ==
  ASSUME NEW o, NEW u, IsOccurrence(o), IsOccurrence(u), AlikeOccurrences(o, u)
  PROVE  /\ Len(o.segments) \in Nat /\ Len(u.segments) = Len(o.segments)
         /\ DOMAIN o.segments = 1..Len(o.segments) /\ DOMAIN u.segments = 1..Len(o.segments)
         /\ o.segments = <<>> <=> Len(o.segments) = 0
         /\ u.segments = <<>> <=> Len(o.segments) = 0
<1>1. /\ Len(o.segments) \in Nat /\ DOMAIN o.segments = 1..Len(o.segments)
      /\ o.segments = [k \in 1..Len(o.segments) |-> o.segments[k]]
  BY ListFacts DEF IsOccurrence
<1>2. /\ DOMAIN u.segments = 1..Len(u.segments)
      /\ u.segments = [k \in 1..Len(u.segments) |-> u.segments[k]]
  BY ListFacts DEF IsOccurrence
<1>3. Len(u.segments) = Len(o.segments)
  BY DEF AlikeOccurrences
<1>4. Len(<<>>) = 0
  OBVIOUS
<1>5. \A s : s = [k \in 1..0 |-> s[k]] => s = <<>>
  OBVIOUS
<1>6. QED
  BY <1>1, <1>2, <1>3, <1>4, <1>5

\* Alike lists are of one shape.
LEMMA AlikeUniform ==
  ASSUME NEW os, NEW us, AlikeLists(os, us)
  PROVE  Uniform(os) <=> Uniform(us)
<1> DEFINE n == Len(os)
<1>1. DOMAIN os = 1..n /\ DOMAIN us = 1..n
  BY ListFacts DEF AlikeLists
<1>2. ASSUME NEW k \in 1..n
      PROVE  Len(os[k].segments) = Len(us[k].segments) /\ Spread(os[k]) = Spread(us[k])
  <2> DEFINE o == os[k]
             u == us[k]
  <2>1. IsOccurrence(o) /\ IsOccurrence(u) /\ AlikeOccurrences(o, u)
    BY DEF AlikeLists
  <2> HIDE DEF o, u
  <2>2. /\ DOMAIN o.segments = 1..Len(o.segments) /\ DOMAIN u.segments = 1..Len(o.segments)
        /\ Len(u.segments) = Len(o.segments)
    BY <2>1, AlikeFacts
  <2>3. \A s \in 1..Len(o.segments) : o.segments[s].subframes = u.segments[s].subframes
    BY <2>1 DEF AlikeOccurrences, AlikeSegments
  <2>4. Spread(o) = {Cardinality(o.segments[s].subframes) : s \in 1..Len(o.segments)}
    BY <2>2 DEF Spread
  <2>5. Spread(u) = {Cardinality(u.segments[s].subframes) : s \in 1..Len(o.segments)}
    BY <2>2 DEF Spread
  <2>6. Spread(o) = Spread(u)
    BY <2>3, <2>4, <2>5
  <2>7. QED
    BY <2>2, <2>6 DEF o, u
<1> HIDE DEF n
<1>3. {Len(os[k].segments) : k \in DOMAIN os} = {Len(us[k].segments) : k \in DOMAIN us}
  BY <1>1, <1>2
<1>4. QED
  BY <1>1, <1>2, <1>3 DEF Uniform

\* The occurrences that have segments
LEMMA AlikeWithSegments ==
  ASSUME NEW os, NEW us, AlikeLists(os, us)
  PROVE  /\ AlikeLists(WithSegments(os), WithSegments(us))
         /\ \A k \in 1..Len(WithSegments(os)) : WithSegments(os)[k].segments # <<>>
<1> DEFINE K == {k \in DOMAIN os : os[k].segments # <<>>}
           L == {k \in DOMAIN us : us[k].segments # <<>>}
<1>1. DOMAIN os = 1..Len(os) /\ DOMAIN us = 1..Len(os)
  BY ListFacts DEF AlikeLists
<1>2. ASSUME NEW k \in 1..Len(os) PROVE os[k].segments = <<>> <=> us[k].segments = <<>>
  BY AlikeFacts DEF AlikeLists
<1>3. L = K
  BY <1>1, <1>2
<1>4. WithSegments(os) = Among(os, K) /\ WithSegments(us) = Among(us, L)
  BY DEF WithSegments
<1>5. K \in SUBSET DOMAIN os
  OBVIOUS
<1>6. \A k \in K : os[k].segments # <<>>
  OBVIOUS
<1> HIDE DEF K, L
<1>7. QED
  BY <1>3, <1>4, <1>5, <1>6, AlikeAmong

\* Alike lists as those without segments and not, and by their first
LEMMA AlikeFirst ==
  ASSUME NEW os, NEW us, AlikeLists(os, us)
  PROVE  /\ os = <<>> <=> us = <<>>
         /\ os # <<>> => 1 \in 1..Len(os)
<1>1. /\ Len(os) \in Nat /\ os = [k \in 1..Len(os) |-> os[k]]
      /\ us = [k \in 1..Len(os) |-> us[k]]
  BY ListFacts DEF AlikeLists
<1>2. \A s : s = [k \in 1..0 |-> s[k]] => s = <<>>
  OBVIOUS
<1>3. Len(<<>>) = 0
  OBVIOUS
<1>4. us = <<>> => Len(os) = 0
  BY <1>3 DEF AlikeLists
<1>5. QED
  BY <1>1, <1>2, <1>3, <1>4

\* Alike parameters have as many parts to a sample,
LEMMA AlikeParts ==
  ASSUME NEW p, NEW q, Alike(p, q)
  PROVE  Parts(p) = Parts(q)
<1> DEFINE os == WithSegments(p.occurrences)
           us == WithSegments(q.occurrences)
<1>1. AlikeLists(os, us)
  BY AlikeWithSegments DEF Alike
<1>2. Parts(p) = (IF os = <<>> \/ ~Uniform(os) THEN 1 ELSE Len(os[1].segments))
  BY DEF Parts
<1>3. Parts(q) = (IF us = <<>> \/ ~Uniform(us) THEN 1 ELSE Len(us[1].segments))
  BY DEF Parts
<1> HIDE DEF os, us
<1>4. (Uniform(os) <=> Uniform(us)) /\ (os = <<>> <=> us = <<>>)
  BY <1>1, AlikeUniform, AlikeFirst
<1>5. os # <<>> => Len(os[1].segments) = Len(us[1].segments)
  BY <1>1, AlikeFirst DEF AlikeLists, AlikeOccurrences
<1>6. QED
  BY <1>2, <1>3, <1>4, <1>5

\* the digits of one weigh what those of the other do,
LEMMA AlikeWeights ==
  ASSUME NEW p, NEW q, Alike(p, q)
  PROVE  Weights(p) = Weights(q)
<1> DEFINE os == WithSegments(p.occurrences)
           us == WithSegments(q.occurrences)
           a == Weighted(os)
           b == Weighted(us)
           list(s) == LET parts == Reverse(s[1].segments) IN [i \in DOMAIN parts |-> parts[i].weight]
<1>1. AlikeLists(os, us)
  BY AlikeWithSegments DEF Alike
<1>2. Weights(p) = (IF a = <<>> \/ ~Uniform(os) THEN <<>> ELSE list(a))
  BY Zenon DEF Weights
<1>3. Weights(q) = (IF b = <<>> \/ ~Uniform(us) THEN <<>> ELSE list(b))
  BY Zenon DEF Weights
<1> HIDE DEF os, us, list
<1> DEFINE K == {k \in DOMAIN os : \A s \in DOMAIN os[k].segments : os[k].segments[s].weight # NoWeight}
           L == {k \in DOMAIN us : \A s \in DOMAIN us[k].segments : us[k].segments[s].weight # NoWeight}
<1>4. L = K
  <2>1. DOMAIN os = 1..Len(os) /\ DOMAIN us = 1..Len(os)
    BY <1>1, ListFacts DEF AlikeLists
  <2>2. ASSUME NEW k \in 1..Len(os)
        PROVE  (\A s \in DOMAIN os[k].segments : os[k].segments[s].weight # NoWeight)
               <=> (\A s \in DOMAIN us[k].segments : us[k].segments[s].weight # NoWeight)
    <3>1. IsOccurrence(os[k]) /\ IsOccurrence(us[k]) /\ AlikeOccurrences(os[k], us[k])
      BY <1>1 DEF AlikeLists
    <3>2. /\ DOMAIN os[k].segments = 1..Len(os[k].segments)
          /\ DOMAIN us[k].segments = 1..Len(os[k].segments)
      BY <3>1, AlikeFacts
    <3>3. \A s \in 1..Len(os[k].segments) : os[k].segments[s].weight = us[k].segments[s].weight
      BY <3>1 DEF AlikeOccurrences, AlikeSegments
    <3>4. QED
      BY <3>2, <3>3
  <2>3. QED
    BY <2>1, <2>2
<1>5. a = Among(os, K) /\ b = Among(us, L)
  BY DEF Weighted
<1>6. K \in SUBSET DOMAIN os
  OBVIOUS
<1> HIDE DEF a, b, K, L
<1>7. AlikeLists(a, b)
  BY <1>1, <1>4, <1>5, <1>6, AlikeAmong
<1>8. (Uniform(os) <=> Uniform(us)) /\ (a = <<>> <=> b = <<>>)
  BY <1>1, <1>7, AlikeUniform, AlikeFirst
<1>9. a # <<>> => list(a) = list(b)
  <2> SUFFICES ASSUME a # <<>> PROVE list(a) = list(b)
    OBVIOUS
  <2> DEFINE o == a[1]
             u == b[1]
             P == Reverse(o.segments)
             Q == Reverse(u.segments)
             n == Len(o.segments)
  <2>1. IsOccurrence(o) /\ IsOccurrence(u) /\ AlikeOccurrences(o, u)
    BY <1>7, AlikeFirst DEF AlikeLists
  <2>2. list(a) = [i \in DOMAIN P |-> P[i].weight] /\ list(b) = [i \in DOMAIN Q |-> Q[i].weight]
    BY Zenon DEF list
  <2> HIDE DEF o, u
  <2>3. Len(u.segments) = n
    BY <2>1, AlikeFacts
  <2>4. /\ DOMAIN P = 1..n
        /\ \A i \in 1..n : n - i + 1 \in 1..n /\ P[i] = o.segments[n - i + 1]
    BY <2>1, ReversedParts
  <2>5. DOMAIN Q = 1..n /\ \A i \in 1..n : Q[i] = u.segments[n - i + 1]
    BY <2>1, <2>3, ReversedParts
  <2> HIDE DEF P, Q
  <2>6. \A i \in 1..n : P[i].weight = Q[i].weight
    BY <2>1, <2>4, <2>5 DEF AlikeOccurrences, AlikeSegments
  <2>7. QED
    BY <2>2, <2>4, <2>5, <2>6
<1>10. QED
  BY <1>2, <1>3, <1>8, <1>9

\* and they are at the same places,
LEMMA AlikeLocations ==
  ASSUME NEW p, NEW q, Alike(p, q), NEW wps
  PROVE  Locations(p, wps) = Locations(q, wps)
<1> DEFINE os == WithSegments(p.occurrences)
           us == WithSegments(q.occurrences)
           within(s, sf) == [k \in DOMAIN s |-> SamplesAt(s[k], sf, Uniform(s), wps)]
           each(s) == [sf \in Subframes |-> FlattenSeq(within(s, sf))]
<1>1. /\ AlikeLists(os, us)
      /\ \A k \in 1..Len(os) : os[k].segments # <<>>
  BY AlikeWithSegments DEF Alike
<1>2. Locations(p, wps) = FlattenSeq(each(os))
  BY Zenon DEF Locations
<1>3. Locations(q, wps) = FlattenSeq(each(us))
  BY Zenon DEF Locations
<1> HIDE DEF os, us
<1>4. DOMAIN os = 1..Len(os) /\ DOMAIN us = 1..Len(os)
  BY <1>1, ListFacts DEF AlikeLists
<1>5. Uniform(os) = Uniform(us)
  <2>1. Uniform(os) <=> Uniform(us)
    BY <1>1, AlikeUniform
  <2>2. Uniform(os) \in BOOLEAN /\ Uniform(us) \in BOOLEAN
    BY DEF Uniform
  <2>3. QED
    BY <2>1, <2>2
<1>6. ASSUME NEW sf PROVE within(os, sf) = within(us, sf)
  <2>1. ASSUME NEW k \in 1..Len(os)
        PROVE  SamplesAt(os[k], sf, Uniform(os), wps) = SamplesAt(us[k], sf, Uniform(os), wps)
    BY <1>1, AlikeSamples DEF AlikeLists
  <2>2. QED
    BY <1>4, <1>5, <2>1
<1> HIDE DEF within
<1>7. each(os) = each(us)
  BY <1>6
<1>8. QED
  BY <1>2, <1>3, <1>7

\* so that they are written alike.
LEMMA AlikeRecord ==
  ASSUME NEW p, NEW q, Alike(p, q), NEW wps
  PROVE  Record(p, wps) = Record(q, wps)
<1>1. Generated(p, wps) = Generated(q, wps)
  <2>1. Parts(p) = Parts(q) /\ Weights(p) = Weights(q) /\ Locations(p, wps) = Locations(q, wps)
    BY AlikeParts, AlikeWeights, AlikeLocations
  <2>2. QED
    BY <2>1 DEF Alike, Generated
<1>2. \A r : StillMatches(p, r, wps) <=> StillMatches(q, r, wps)
  BY AlikeSame DEF StillMatches
<1>3. QED
  BY <1>1, <1>2 DEF Record, Alike

-----------------------------------------------------------------------------
(* Saved and loaded again *)

\* The occurrences as the rows hold them, and as they are built from these
StoredOccurrences(os) ==
  [k \in DOMAIN os |-> Occurrence(os[k].index,
                         [s \in DOMAIN os[k].segments |-> StoredSegment(os[k].segments[s])])]

LoadedOccurrences(os) ==
  [k \in DOMAIN os |-> Occurrence(os[k].index,
                         [s \in DOMAIN os[k].segments |-> LoadedSegment(os[k].segments[s])])]

\* A parameter with other occurrences
LEMMA OtherOccurrences ==
  ASSUME NEW p, NEW os,
         p = [id |-> p.id, name |-> p.name, source |-> p.source, type |-> p.type, scale |-> p.scale,
              states |-> p.states, occurrences |-> p.occurrences, record |-> p.record]
  PROVE  [p EXCEPT !.occurrences = os]
           = [id |-> p.id, name |-> p.name, source |-> p.source, type |-> p.type, scale |-> p.scale,
              states |-> p.states, occurrences |-> os, record |-> p.record]
<1> DEFINE other(x) == [x EXCEPT !.occurrences = os]
           with(a, b, c, d, e, f, g, h) ==
             [id |-> a, name |-> b, source |-> c, type |-> d, scale |-> e,
              states |-> f, occurrences |-> g, record |-> h]
<1>1. \A a, b, c, d, e, f, g, h :
        other(with(a, b, c, d, e, f, g, h)) = with(a, b, c, d, e, f, os, h)
  OBVIOUS
<1>2. p = with(p.id, p.name, p.source, p.type, p.scale, p.states, p.occurrences, p.record)
  OBVIOUS
<1> HIDE DEF other, with
<1>3. other(p) = with(p.id, p.name, p.source, p.type, p.scale, p.states, os, p.record)
  BY <1>1, <1>2
<1>4. QED
  BY <1>3 DEF other, with

\* A segment comes back with the subframes it has, and the selector it was
\* read with or, when it has none, its subframes.
LEMMA SegmentBack ==
  ASSUME NEW g, IsSegment(g)
  PROVE  LET h == LoadedSegment(StoredSegment(g)) IN IsSegment(h) /\ AlikeSegments(g, h)
<1> DEFINE sel == IF g.raw # {} THEN g.raw ELSE g.subframes
           h == LoadedSegment(StoredSegment(g))
<1>1. Decoded(sel) = g.subframes
  <2>1. CASE g.raw # {}
    BY <2>1 DEF IsSegment
  <2>2. CASE g.raw = {}
    <3>1. sel = g.subframes /\ sel # {0}
      BY <2>2 DEF IsSegment
    <3>2. QED
      BY <3>1 DEF Decoded
  <2>3. QED
    BY <2>1, <2>2
<1>2. h = Segment(g.sequence, Decoded(sel), g.word, g.lsb, g.msb, g.weight, sel)
  BY DEF StoredSegment, LoadedSegment
<1> HIDE DEF sel, h
<1>3. h = Segment(g.sequence, g.subframes, g.word, g.lsb, g.msb, g.weight, sel)
  BY <1>1, <1>2
<1>4. /\ h.sequence = g.sequence /\ h.subframes = g.subframes /\ h.word = g.word
      /\ h.lsb = g.lsb /\ h.msb = g.msb /\ h.weight = g.weight /\ h.raw = sel
  BY <1>3 DEF Segment
<1>5. IsSegment(h)
  BY <1>1, <1>3, <1>4 DEF IsSegment
<1>6. QED
  BY <1>4, <1>5 DEF AlikeSegments, h

\* So do the occurrences.
LEMMA OccurrencesBack ==
  ASSUME NEW os, Listed(os), \A k \in DOMAIN os : IsOccurrence(os[k])
  PROVE  AlikeLists(os, LoadedOccurrences(StoredOccurrences(os)))
<1> DEFINE n == Len(os)
           part(o) == [s \in DOMAIN o.segments |-> StoredSegment(o.segments[s])]
           stored == StoredOccurrences(os)
           us == LoadedOccurrences(stored)
<1>1. n \in Nat /\ DOMAIN os = 1..n
  BY ListFacts
<1>2. stored = [k \in 1..n |-> Occurrence(os[k].index, part(os[k]))]
  BY <1>1 DEF StoredOccurrences
<1>3. us = [k \in DOMAIN stored |->
              Occurrence(stored[k].index,
                [s \in DOMAIN stored[k].segments |-> LoadedSegment(stored[k].segments[s])])]
  BY DEF LoadedOccurrences
<1> HIDE DEF n, stored, us, part
<1>4. /\ DOMAIN stored = 1..n
      /\ \A k \in 1..n : stored[k].index = os[k].index /\ stored[k].segments = part(os[k])
  BY <1>2 DEF Occurrence
<1>5. DOMAIN us = 1..n /\ us = [k \in 1..n |-> us[k]]
  BY <1>3, <1>4
<1>6. Listed(us) /\ Len(us) = n
  BY <1>1, <1>5, MadeListed
<1>7. ASSUME NEW k \in 1..n
      PROVE  IsOccurrence(os[k]) /\ IsOccurrence(us[k]) /\ AlikeOccurrences(os[k], us[k])
  <2> DEFINE o == os[k]
             u == us[k]
             m == Len(o.segments)
             h(s) == LoadedSegment(StoredSegment(o.segments[s]))
  <2>1. IsOccurrence(o)
    BY <1>1
  <2>2. u = Occurrence(o.index, [s \in DOMAIN part(o) |-> LoadedSegment(part(o)[s])])
    BY <1>3, <1>4
  <2> HIDE DEF o, u
  <2>3. m \in Nat /\ DOMAIN o.segments = 1..m
    BY <2>1, ListFacts DEF IsOccurrence
  <2> HIDE DEF m
  <2>4. DOMAIN part(o) = 1..m /\ \A s \in 1..m : part(o)[s] = StoredSegment(o.segments[s])
    BY <2>3 DEF part
  <2>5. [s \in DOMAIN part(o) |-> LoadedSegment(part(o)[s])] = [s \in 1..m |-> h(s)]
    BY <2>4
  <2>6. \A s \in 1..m : IsSegment(h(s)) /\ AlikeSegments(o.segments[s], h(s))
    BY <2>1, <2>3, SegmentBack DEF IsOccurrence
  <2> HIDE DEF h
  <2>7. u = Occurrence(o.index, [s \in 1..m |-> h(s)])
    BY <2>2, <2>5
  <2>8. u.index = o.index /\ u.segments = [s \in 1..m |-> h(s)]
    BY <2>7 DEF Occurrence
  <2>9. /\ DOMAIN u.segments = 1..m /\ \A s \in 1..m : u.segments[s] = h(s)
        /\ u.segments = [s \in 1..m |-> u.segments[s]] /\ u = Occurrence(u.index, u.segments)
    BY <2>7, <2>8
  <2>10. Listed(u.segments) /\ Len(u.segments) = m
    BY <2>3, <2>9, MadeListed
  <2>11. IsOccurrence(u)
    BY <2>6, <2>9, <2>10 DEF IsOccurrence
  <2>12. AlikeOccurrences(o, u)
    BY <2>6, <2>8, <2>9, <2>10 DEF AlikeOccurrences, m
  <2>13. QED
    BY <2>1, <2>11, <2>12 DEF o, u
<1>8. QED
  BY <1>6, <1>7 DEF AlikeLists, n, us, stored

\* A parameter comes back alike.
LEMMA ParameterBack ==
  ASSUME NEW p, IsParameter(p)
  PROVE  LET q == LoadedParameter(StoredParameter(p))
         IN  q.id = p.id /\ Alike(p, q)
<1> DEFINE with(os) == [id |-> p.id, name |-> p.name, source |-> p.source, type |-> p.type,
                        scale |-> p.scale, states |-> p.states, occurrences |-> os, record |-> p.record]
           r == StoredParameter(p)
           q == LoadedParameter(r)
<1>1. r = [p EXCEPT !.occurrences = StoredOccurrences(p.occurrences)]
  BY Zenon DEF StoredParameter, StoredOccurrences
<1>2. q = [r EXCEPT !.occurrences = LoadedOccurrences(r.occurrences)]
  BY Zenon DEF LoadedParameter, LoadedOccurrences
<1> HIDE DEF r, q
<1>3. r = with(StoredOccurrences(p.occurrences))
  BY <1>1, OtherOccurrences DEF IsParameter
<1>4. /\ r.id = p.id /\ r.name = p.name /\ r.source = p.source /\ r.type = p.type /\ r.scale = p.scale
      /\ r.states = p.states /\ r.occurrences = StoredOccurrences(p.occurrences) /\ r.record = p.record
  BY <1>3
<1>5. q = with(LoadedOccurrences(r.occurrences))
  <2>1. r = [id |-> r.id, name |-> r.name, source |-> r.source, type |-> r.type, scale |-> r.scale,
             states |-> r.states, occurrences |-> r.occurrences, record |-> r.record]
    BY <1>3, <1>4
  <2>2. q = [id |-> r.id, name |-> r.name, source |-> r.source, type |-> r.type, scale |-> r.scale,
             states |-> r.states, occurrences |-> LoadedOccurrences(r.occurrences), record |-> r.record]
    BY <1>2, <2>1, OtherOccurrences
  <2>3. QED
    BY <2>2, <1>4
<1>6. /\ q.id = p.id /\ q.name = p.name /\ q.source = p.source /\ q.type = p.type /\ q.scale = p.scale
      /\ q.states = p.states /\ q.record = p.record
      /\ q.occurrences = LoadedOccurrences(StoredOccurrences(p.occurrences))
  BY <1>4, <1>5
<1>7. AlikeLists(p.occurrences, q.occurrences)
  BY <1>6, OccurrencesBack DEF IsParameter
<1>8. QED
  BY <1>6, <1>7 DEF Alike, q, r

\* A whole document is its dataframe when it is loaded again.
LEMMA DocumentBack ==
  ASSUME NEW d, IsDataframe(d)
  PROVE  LET loaded == LoadDataframe(StoredDocument(d))
         IN  /\ loaded.wps = d.wps /\ Len(loaded.parameters) = Len(d.parameters)
             /\ \A i \in DOMAIN d.parameters :
                  /\ loaded.parameters[i].id = d.parameters[i].id
                  /\ SameParameter(loaded.parameters[i], d.parameters[i])
                  /\ Record(loaded.parameters[i], d.wps) = Record(d.parameters[i], d.wps)
<1> DEFINE n == Len(d.parameters)
           row == StoredDocument(d)
           loaded == LoadDataframe(row)
           q(i) == LoadedParameter(StoredParameter(d.parameters[i]))
<1>1. n \in Nat /\ DOMAIN d.parameters = 1..n
  BY ListFacts DEF IsDataframe
<1>2. row.wps = d.wps /\ row.parameters = [i \in 1..n |-> StoredParameter(d.parameters[i])]
  BY <1>1 DEF StoredDocument
<1>3. loaded.wps = row.wps /\ loaded.parameters = [i \in DOMAIN row.parameters |-> LoadedParameter(row.parameters[i])]
  BY DEF LoadDataframe
<1> HIDE DEF n, row, loaded
<1>4. loaded.parameters = [i \in 1..n |-> q(i)]
  BY <1>2, <1>3
<1> HIDE DEF q
<1>5. Len(loaded.parameters) = n
  <2>1. loaded.parameters = [i \in 1..n |-> loaded.parameters[i]]
    BY <1>4
  <2>2. QED
    BY <1>1, <2>1, MadeListed
<1>6. ASSUME NEW i \in 1..n
      PROVE  /\ loaded.parameters[i].id = d.parameters[i].id
             /\ SameParameter(loaded.parameters[i], d.parameters[i])
             /\ Record(loaded.parameters[i], d.wps) = Record(d.parameters[i], d.wps)
  <2> DEFINE p == d.parameters[i]
  <2>1. IsParameter(p)
    BY <1>1 DEF IsDataframe
  <2> HIDE DEF p
  <2>2. q(i).id = p.id /\ Alike(p, q(i))
    BY <2>1, ParameterBack DEF q, p
  <2>3. SameParameter(q(i), p) /\ Record(p, d.wps) = Record(q(i), d.wps)
    BY <2>2, AlikeSame, AlikeRecord
  <2>4. loaded.parameters[i] = q(i)
    BY <1>4
  <2>5. QED
    BY <2>2, <2>3, <2>4 DEF p
<1>7. QED
  BY <1>1, <1>2, <1>3, <1>5, <1>6 DEF loaded, row, n

-----------------------------------------------------------------------------
(* Read from a file *)

\* A readable location is in subframes there are.
LEMMA PlaceWithin ==
  ASSUME NEW l, NEW wps, ~Unreadable(l, wps)
  PROVE  Place(l, wps).subframes \subseteq Subframes
BY DEF Unreadable, Place

\* So the samples of some places are lists of them.
LEMMA SamplesListed ==
  ASSUME NEW places, Listed(places), NEW parts \in Nat \ {0}
  PROVE  LET samples == InParts(places, parts)
         IN  /\ Listed(samples)
             /\ \A k \in DOMAIN samples :
                  /\ Listed(samples[k]) /\ Len(samples[k]) <= parts
                  /\ \A s \in DOMAIN samples[k] : \E i \in DOMAIN places : samples[k][s] = places[i]
<1> DEFINE m == Len(places)
           n == (m + parts - 1) \div parts
           from(k) == (k - 1) * parts + 1
           to(k) == Min({k * parts, m})
           samples == InParts(places, parts)
<1>1. m \in Nat
  BY ListFacts
<1>2. samples = [k \in 1..n |-> SubSeq(places, from(k), to(k))]
  BY Zenon DEF InParts
<1>3. n \in Nat
  <2>1. m + parts - 1 \in Nat
    BY <1>1
  <2>2. QED
    BY <2>1
<1> HIDE DEF n, samples
<1>4. ASSUME NEW k \in 1..n
      PROVE  from(k) \in Nat \ {0} /\ to(k) \in Int /\ to(k) <= m /\ to(k) - from(k) + 1 <= parts
  <2>1. k \in Nat /\ k - 1 \in Nat
    BY <1>3
  <2>2. (k - 1) * parts \in Nat /\ k * parts \in Int /\ k * parts = (k - 1) * parts + parts
    BY <2>1
  <2>3. to(k) \in Int /\ to(k) <= m /\ to(k) <= k * parts
    <3> DEFINE a == k * parts
    <3>1. a \in Int /\ to(k) = Min({a, m})
      BY <2>2
    <3> HIDE DEF a, to, m
    <3>2. Min({a, m}) \in {a, m} /\ Min({a, m}) <= m /\ Min({a, m}) <= a
      BY <1>1, <3>1, MinOfTwo
    <3>3. to(k) \in Int /\ to(k) <= m /\ to(k) <= a
      BY <1>1, <3>1, <3>2
    <3>4. QED
      BY <3>3 DEF a
  <2> DEFINE b == (k - 1) * parts
             c == k * parts
             t == to(k)
  <2>4. b \in Nat /\ c = b + parts /\ from(k) = b + 1 /\ t \in Int /\ t <= m /\ t <= c
    BY <2>2, <2>3
  <2> HIDE DEF b, c, t, from
  <2>5. QED
    BY <2>4 DEF t
<1> HIDE DEF from, to
<1>5. samples = [k \in 1..n |-> samples[k]]
  BY <1>2
<1>6. Listed(samples) /\ DOMAIN samples = 1..n
  BY <1>3, <1>5, MadeListed
<1>7. ASSUME NEW k \in 1..n
      PROVE  /\ Listed(samples[k]) /\ Len(samples[k]) <= parts
             /\ \A s \in DOMAIN samples[k] : \E i \in DOMAIN places : samples[k][s] = places[i]
  <2>1. samples[k] = SubSeq(places, from(k), to(k))
    BY <1>2
  <2> DEFINE t == SubSeq(places, from(k), to(k))
  <2>2. /\ from(k) \in Nat \ {0} /\ to(k) \in Int /\ to(k) <= Len(places)
        /\ to(k) - from(k) + 1 <= parts
    BY <1>4
  <2>3. /\ Listed(t) /\ Len(t) <= parts
        /\ \A s \in DOMAIN t : \E i \in DOMAIN places : t[s] = places[i]
    <3> DEFINE a == from(k)
               b == to(k)
    <3>1. /\ a \in Nat \ {0} /\ b \in Int /\ b <= Len(places) /\ b - a + 1 <= parts
          /\ t = SubSeq(places, a, b)
      BY <2>2
    <3> HIDE DEF a, b, t
    <3>2. LET u == SubSeq(places, a, b)
          IN  Listed(u) /\ \A s \in DOMAIN u : \E i \in DOMAIN places : u[s] = places[i]
      BY <3>1, SliceListed
    <3>3. Len(SubSeq(places, a, b)) <= parts
      BY <3>1, SliceFacts
    <3>4. QED
      BY <3>1, <3>2, <3>3
  <2> HIDE DEF t
  <2>4. samples[k] = t
    BY <2>1 DEF t
  <2>5. QED
    BY <2>3, <2>4
<1>8. QED
  BY <1>6, <1>7 DEF samples

\* What is read of samples within the subframes there are is an occurrence
\* for each shape.
LEMMA ReadOccurrences ==
  ASSUME NEW samples, NEW weights, Listed(samples),
         \A k \in DOMAIN samples :
           /\ Listed(samples[k])
           /\ \A s \in DOMAIN samples[k] : samples[k][s].subframes \subseteq Subframes
  PROVE  LET os == OccurrencesRead(samples, weights)
         IN  Listed(os) /\ \A k \in DOMAIN os : IsOccurrence(os[k])
<1> DEFINE firsts == {i \in DOMAIN samples : \A j \in 1..(i - 1) : Shape(samples[j]) # Shape(samples[i])}
           part(i, s) == Len(samples[i]) - s + 1
           inall(i, s) == UNION {samples[j][part(i, s)].subframes :
                                   j \in {k \in DOMAIN samples : Shape(samples[k]) = Shape(samples[i])}}
           segment(i, s) ==
             Segment(s, inall(i, s), samples[i][part(i, s)].word, samples[i][part(i, s)].lsb,
                     samples[i][part(i, s)].msb,
                     IF weights = <<>> THEN NoWeight ELSE weights[part(i, s)], inall(i, s))
           occurrence(i, k) == Occurrence(k, [s \in 1..Len(samples[i]) |-> segment(i, s)])
           os == OccurrencesRead(samples, weights)
           n == Cardinality(firsts)
<1>1. os = [k \in 1..n |-> occurrence(NthOf(firsts, k), k)]
  BY Zenon DEF OccurrencesRead
<1>2. firsts \in SUBSET DOMAIN samples
  OBVIOUS
<1> HIDE DEF firsts
<1>3. Len(samples) \in Nat /\ DOMAIN samples = 1..Len(samples)
  BY ListFacts
<1>4. IsFiniteSet(firsts) /\ n \in Nat
  <2>1. IsFiniteSet(1..Len(samples))
    BY <1>3, FS_Interval
  <2>2. IsFiniteSet(firsts)
    BY <1>2, <1>3, <2>1, FS_Subset
  <2>3. QED
    BY <2>2, FS_CardinalityType
<1>5. \A k \in 1..n : NthOf(firsts, k) \in DOMAIN samples
  <2>1. firsts \in SUBSET Int
    BY <1>2, <1>3
  <2>2. \A k \in 1..n : NthOf(firsts, k) \in firsts
    BY <1>4, <2>1, NthOfIn
  <2>3. QED
    BY <1>2, <2>2
<1> HIDE DEF n
<1>6. ASSUME NEW i \in DOMAIN samples, NEW s \in 1..Len(samples[i])
      PROVE  inall(i, s) \subseteq Subframes
  <2> SUFFICES ASSUME NEW j \in DOMAIN samples, Shape(samples[j]) = Shape(samples[i])
               PROVE  samples[j][part(i, s)].subframes \subseteq Subframes
    BY Zenon
  <2>1. Len(samples[i]) \in Nat /\ DOMAIN samples[i] = 1..Len(samples[i])
    BY ListFacts
  <2>2. DOMAIN samples[j] = DOMAIN samples[i]
    <3>1. DOMAIN Shape(samples[j]) = DOMAIN samples[j] /\ DOMAIN Shape(samples[i]) = DOMAIN samples[i]
      BY DEF Shape
    <3>2. QED
      BY <3>1
  <2>3. part(i, s) \in DOMAIN samples[j]
    <3>1. Len(samples[i]) - s + 1 \in 1..Len(samples[i])
      BY <2>1
    <3>2. QED
      BY <2>1, <2>2, <3>1
  <2> HIDE DEF part
  <2>4. QED
    BY <2>3
<1> HIDE DEF inall
<1>7. ASSUME NEW i \in DOMAIN samples, NEW s \in 1..Len(samples[i])
      PROVE  IsSegment(segment(i, s))
  <2> DEFINE g == segment(i, s)
             S == inall(i, s)
  <2>1. g = Segment(s, S, g.word, g.lsb, g.msb, g.weight, S) /\ g.sequence = s /\ g.subframes = S /\ g.raw = S
    BY DEF Segment
  <2>2. s \in Int
    <3>1. Len(samples[i]) \in Nat
      BY ListFacts
    <3>2. QED
      BY <3>1
  <2>3. 0 \notin S /\ S # {0}
    <3>1. S \subseteq Subframes /\ 0 \notin Subframes
      BY <1>6 DEF Subframes
    <3>2. QED
      BY <3>1
  <2>4. Decoded(S) = S
    BY <2>3 DEF Decoded
  <2>7. IsFiniteSet(S)
    <3>1. S \in SUBSET Subframes
      BY <1>6
    <3> HIDE DEF S
    <3>2. IsFiniteSet(1..SubframeCount)
      BY CodecAssumption, FS_Interval
    <3>3. QED
      BY <3>1, <3>2, FS_Subset DEF Subframes
  <2> HIDE DEF g, S
  <2>5. IsSegment(g)
    BY <2>1, <2>2, <2>3, <2>4, <2>7 DEF IsSegment
  <2>6. QED
    BY <2>5 DEF g
<1> HIDE DEF segment
<1>8. ASSUME NEW i \in DOMAIN samples, NEW k PROVE IsOccurrence(occurrence(i, k))
  <2> DEFINE m == Len(samples[i])
             segments == [s \in 1..m |-> segment(i, s)]
  <2>1. m \in Nat
    BY ListFacts
  <2>2. \A s \in 1..m : IsSegment(segments[s])
    BY <1>7
  <2>3. segments = [s \in 1..m |-> segments[s]] /\ occurrence(i, k) = Occurrence(k, segments)
    OBVIOUS
  <2> HIDE DEF m, segments, occurrence
  <2>4. Listed(segments) /\ DOMAIN segments = 1..m
    BY <2>1, <2>3, MadeListed
  <2>5. /\ occurrence(i, k).index = k /\ occurrence(i, k).segments = segments
    BY <2>3 DEF Occurrence
  <2>6. QED
    BY <2>2, <2>3, <2>4, <2>5 DEF IsOccurrence
<1> HIDE DEF os, occurrence
<1>9. \A k \in 1..n : IsOccurrence(os[k])
  BY <1>1, <1>5, <1>8
<1>10. Listed(os) /\ DOMAIN os = 1..n
  <2>1. os = [k \in 1..n |-> os[k]]
    BY <1>1
  <2>2. QED
    BY <1>4, <2>1, MadeListed
<1>11. QED
  BY <1>9, <1>10 DEF os

\* The first sample of each shape, the samples of the shape of one, and the
\* segment that is made of them
Firsts(samples) == {i \in DOMAIN samples : \A j \in 1..(i - 1) : Shape(samples[j]) # Shape(samples[i])}

OfShape(samples, i) == {k \in DOMAIN samples : Shape(samples[k]) = Shape(samples[i])}

SegmentRead(samples, weights, i, s) ==
  LET part == Len(samples[i]) - s + 1
      subframes == UNION {samples[j][part].subframes : j \in OfShape(samples, i)}
  IN  Segment(s, subframes, samples[i][part].word, samples[i][part].lsb, samples[i][part].msb,
              IF weights = <<>> THEN NoWeight ELSE weights[part], subframes)

\* An occurrence is read of each first sample.
LEMMA ReadOfFirsts ==
  ASSUME NEW samples, NEW weights, Listed(samples)
  PROVE  LET os == OccurrencesRead(samples, weights)
             F  == Firsts(samples)
         IN  /\ IsFiniteSet(F) /\ F \subseteq DOMAIN samples /\ F \subseteq Int
             /\ Cardinality(F) \in Nat /\ DOMAIN os = 1..Cardinality(F)
             /\ \A k \in DOMAIN os :
                  /\ NthOf(F, k) \in F
                  /\ os[k].segments = [s \in 1..Len(samples[NthOf(F, k)]) |->
                                         SegmentRead(samples, weights, NthOf(F, k), s)]
<1> DEFINE F == Firsts(samples)
           os == OccurrencesRead(samples, weights)
           n == Cardinality(F)
           occurrence(i, k) ==
             Occurrence(k, [s \in 1..Len(samples[i]) |-> SegmentRead(samples, weights, i, s)])
<1>1. os = [k \in 1..n |-> occurrence(NthOf(F, k), k)]
  BY Zenon DEF OccurrencesRead, Firsts, SegmentRead, OfShape
<1>2. F \in SUBSET DOMAIN samples
  BY DEF Firsts
<1> HIDE DEF os, F
<1>3. Len(samples) \in Nat /\ DOMAIN samples = 1..Len(samples)
  BY ListFacts
<1>4. IsFiniteSet(F) /\ n \in Nat /\ F \subseteq Int
  <2>1. IsFiniteSet(1..Len(samples))
    BY <1>3, FS_Interval
  <2>2. IsFiniteSet(F)
    BY <1>2, <1>3, <2>1, FS_Subset
  <2>3. QED
    BY <1>2, <1>3, <2>2, FS_CardinalityType
<1>5. \A k \in 1..n : NthOf(F, k) \in F
  BY <1>4, NthOfIn
<1> HIDE DEF n
<1>6. \A k \in 1..n : os[k] = occurrence(NthOf(F, k), k)
  BY <1>1
<1>7. \A i, k : occurrence(i, k).segments = [s \in 1..Len(samples[i]) |-> SegmentRead(samples, weights, i, s)]
  BY DEF Occurrence
<1> HIDE DEF occurrence
<1>8. DOMAIN os = 1..n
  BY <1>1
<1>9. QED
  BY <1>2, <1>4, <1>5, <1>6, <1>7, <1>8 DEF os, F, n

\* A table of states is read when two labels do not say it.
LEMMA StatesReadTable ==
  ASSUME NEW type, NEW slots, Listed(slots)
  PROVE  LET table == StatesRead(type, slots).table
         IN  Listed(table) /\ (table = <<>> \/ ~TwoValued(table))
<1>1. StatesRead(type, slots).table = IF type = "bcd" \/ TwoValued(slots) THEN <<>> ELSE slots
  BY DEF StatesRead
<1>2. QED
  BY <1>1, EmptyList

\* Each digit read has a weight, or none has.
LEMMA ReadWeighed ==
  ASSUME NEW samples, NEW weights, NEW type, NEW parts \in Nat, Listed(samples),
         \A k \in DOMAIN samples : Listed(samples[k]) /\ Len(samples[k]) <= parts,
         weights # <<>> => /\ type = "bcd"
                           /\ \A i \in 1..parts : weights[i] # NoWeight,
         NEW k \in DOMAIN OccurrencesRead(samples, weights)
  PROVE  Weighed(type, OccurrencesRead(samples, weights)[k])
<1> DEFINE F == Firsts(samples)
           o == OccurrencesRead(samples, weights)[k]
           i == NthOf(F, k)
           n == Len(samples[i])
<1>1. i \in DOMAIN samples /\ o.segments = [s \in 1..n |-> SegmentRead(samples, weights, i, s)]
  BY ReadOfFirsts
<1> HIDE DEF i, F, o
<1>2. n \in Nat /\ n <= parts
  BY <1>1, ListFacts
<1>3. ASSUME NEW s \in 1..n
      PROVE  SegmentRead(samples, weights, i, s).weight
               = IF weights = <<>> THEN NoWeight ELSE weights[n - s + 1]
  BY DEF SegmentRead, Segment
<1>4. \A s \in 1..n : n - s + 1 \in 1..parts
  BY <1>2
<1> HIDE DEF n
<1>5. DOMAIN o.segments = 1..n /\ \A s \in 1..n : o.segments[s] = SegmentRead(samples, weights, i, s)
  BY <1>1
<1>6. \A s \in 1..n : o.segments[s].weight # NoWeight <=> weights # <<>>
  BY <1>3, <1>4, <1>5
<1>7. Weighed(type, o)
  BY <1>5, <1>6 DEF Weighed
<1>8. QED
  BY <1>7 DEF o

\* A readable record is read into a parameter.
LEMMA RecordRead ==
  ASSUME NEW r, NEW k, NEW wps, IsRecord(r), RecordReadable(r, wps)
  PROVE  IsParameter(ParseRecord(r, k, wps))
<1> DEFINE type == Canonical(r.source)
           weights == IF type = "bcd" /\ Len(r.slots) = r.parts
                      THEN [i \in DOMAIN r.slots |-> r.slots[i].value] ELSE <<>>
           places == [i \in DOMAIN r.locations |-> Place(r.locations[i], wps)]
           samples == InParts(places, r.parts)
           os == OccurrencesRead(samples, weights)
           p == ParseRecord(r, k, wps)
           id == <<"adb", NoLabel, k>>
           states == StatesRead(type, r.slots)
<1>1. p = [id |-> id, name |-> r.name, source |-> r.source, type |-> type, scale |-> r.scale,
           states |-> states, occurrences |-> os, record |-> <<r>>]
  BY Zenon DEF ParseRecord
<1>2. Listed(places) /\ \A i \in DOMAIN places : places[i].subframes \subseteq Subframes
  <2>1. Len(r.locations) \in Nat /\ DOMAIN r.locations = 1..Len(r.locations)
    BY ListFacts DEF IsRecord
  <2>2. places = [i \in 1..Len(r.locations) |-> places[i]]
    BY <2>1
  <2>3. \A i \in DOMAIN r.locations : Place(r.locations[i], wps).subframes \subseteq Subframes
    BY PlaceWithin DEF RecordReadable
  <2>4. \A i \in DOMAIN r.locations : places[i] = Place(r.locations[i], wps)
    OBVIOUS
  <2> HIDE DEF places
  <2>5. Listed(places) /\ DOMAIN places = 1..Len(r.locations)
    BY <2>1, <2>2, MadeListed
  <2>6. QED
    BY <2>1, <2>3, <2>4, <2>5
<1> HIDE DEF places
<1>3. /\ Listed(samples)
      /\ \A i \in DOMAIN samples :
           /\ Listed(samples[i])
           /\ \A s \in DOMAIN samples[i] : samples[i][s].subframes \subseteq Subframes
  <2>1. r.parts \in Nat \ {0}
    BY DEF IsRecord
  <2>2. /\ Listed(samples)
        /\ \A i \in DOMAIN samples :
             /\ Listed(samples[i])
             /\ \A s \in DOMAIN samples[i] : \E j \in DOMAIN places : samples[i][s] = places[j]
    BY <1>2, <2>1, SamplesListed
  <2> HIDE DEF samples
  <2>3. QED
    BY <1>2, <2>2
<1>21. r.parts \in Nat /\ \A i \in DOMAIN samples : Len(samples[i]) <= r.parts
  BY <1>2, SamplesListed DEF IsRecord
<1> HIDE DEF samples
<1>22. weights # <<>> => type = "bcd" /\ \A i \in 1..r.parts : weights[i] # NoWeight
  <2>1. Len(r.slots) \in Nat /\ DOMAIN r.slots = 1..Len(r.slots)
    BY ListFacts DEF IsRecord
  <2>2. weights # <<>> => /\ type = "bcd" /\ Len(r.slots) = r.parts
                          /\ weights = [i \in DOMAIN r.slots |-> r.slots[i].value]
    OBVIOUS
  <2> HIDE DEF weights
  <2>3. QED
    BY <2>1, <2>2 DEF IsRecord
<1> HIDE DEF weights
<1>4. Listed(os) /\ \A i \in DOMAIN os : IsOccurrence(os[i])
  BY <1>3, ReadOccurrences
<1>23. \A i \in DOMAIN os : Weighed(type, os[i])
  <2> HIDE DEF type
  <2>1. QED
    BY <1>3, <1>21, <1>22, ReadWeighed
<1>24. Coherent(type, r.source, states, os)
  <2>1. Listed(states.table) /\ (states.table = <<>> \/ ~TwoValued(states.table))
    BY StatesReadTable DEF IsRecord
  <2> HIDE DEF states, os
  <2>2. QED
    BY <1>23, <2>1 DEF Coherent
<1> HIDE DEF os, p, type, id, states
<1>5. /\ p.id = id /\ p.name = r.name /\ p.source = r.source /\ p.type = type /\ p.scale = r.scale
      /\ p.states = states /\ p.occurrences = os /\ p.record = <<r>>
  BY <1>1
<1>6. p = [id |-> p.id, name |-> p.name, source |-> p.source, type |-> p.type, scale |-> p.scale,
           states |-> p.states, occurrences |-> p.occurrences, record |-> p.record]
  BY <1>1, <1>5
<1>7. p.record[1] = r /\ p.record = <<p.record[1]>>
  BY <1>5
<1>8. IsParameter(p)
  BY <1>4, <1>5, <1>6, <1>7, <1>24 DEF IsParameter
<1>9. QED
  BY <1>8 DEF p

\* A file that can be read is read into a dataframe.
LEMMA FileRead ==
  ASSUME NEW f, IsFile(f), FileReadable(f)
  PROVE  IsDataframe(ParseFile(f)) /\ ParseFile(f).wps > 0
<1> DEFINE n == Len(f.records)
           ps == [i \in DOMAIN f.records |-> ParseRecord(f.records[i], i, f.wps)]
           d == ParseFile(f)
<1>1. n \in Nat /\ DOMAIN f.records = 1..n
  BY ListFacts DEF IsFile
<1>2. f.wps \in Nat /\ f.wps > 0
  BY DEF IsFile, FileReadable
<1>3. \A i \in 1..n : IsParameter(ps[i])
  BY <1>1, RecordRead DEF IsFile, FileReadable
<1>4. ps = [i \in 1..n |-> ps[i]]
  BY <1>1
<1>5. d = [wps |-> f.wps, parameters |-> ps]
  BY DEF ParseFile
<1> HIDE DEF ps, d, n
<1>6. Listed(ps) /\ DOMAIN ps = 1..n
  BY <1>1, <1>4, MadeListed
<1>7. d.wps = f.wps /\ d.parameters = ps /\ d = [wps |-> d.wps, parameters |-> d.parameters]
  BY <1>5
<1>8. IsDataframe(d) /\ d.wps > 0
  BY <1>2, <1>3, <1>6, <1>7 DEF IsDataframe
<1>9. QED
  BY <1>8 DEF d

-----------------------------------------------------------------------------
(* What the editor makes *)

\* The rows of the mapping table
IsRow(r) ==
  /\ r = Row(r.occurrence, r.sequence, r.subframes, r.word, r.lsb, r.msb)
  /\ r.sequence \in Int /\ IsFiniteSet(r.subframes) /\ 0 \notin r.subframes

AreRows(rows) == Listed(rows) /\ \A r \in DOMAIN rows : IsRow(rows[r])

\* The table of a parameter has a row for each segment.
LEMMA SegmentRowsAre ==
  ASSUME NEW p, IsParameter(p)
  PROVE  AreRows(SegmentRows(p))
<1> DEFINE os == p.occurrences
           row(o, g) == Row(o.index, g.sequence, g.subframes, g.word, g.lsb, g.msb)
           within(o) == [s \in DOMAIN o.segments |-> row(o, o.segments[s])]
           ss == [k \in DOMAIN os |-> within(os[k])]
           S == UNION {{row(os[k], os[k].segments[s]) : s \in DOMAIN os[k].segments} : k \in DOMAIN os}
<1>1. SegmentRows(p) = FlattenSeq(ss)
  BY Zenon DEF SegmentRows
<1>2. Len(os) \in Nat /\ DOMAIN os = 1..Len(os) /\ \A k \in DOMAIN os : IsOccurrence(os[k])
  BY ListFacts DEF IsParameter
<1>3. \A x \in S : IsRow(x)
  <2> SUFFICES ASSUME NEW k \in DOMAIN os, NEW s \in DOMAIN os[k].segments
               PROVE  IsRow(row(os[k], os[k].segments[s]))
    OBVIOUS
  <2> DEFINE g == os[k].segments[s]
             x == row(os[k], g)
  <2>1. g.sequence \in Int /\ IsFiniteSet(g.subframes) /\ 0 \notin g.subframes
    BY <1>2 DEF IsOccurrence, IsSegment
  <2> HIDE DEF g
  <2>2. x = Row(x.occurrence, x.sequence, x.subframes, x.word, x.lsb, x.msb)
        /\ x.sequence = g.sequence /\ x.subframes = g.subframes
    BY DEF Row
  <2>3. IsRow(x)
    BY <2>1, <2>2 DEF IsRow
  <2>4. QED
    BY <2>3 DEF g
<1>4. ASSUME NEW k \in DOMAIN os PROVE within(os[k]) \in Seq(S)
  <2> DEFINE o == os[k]
             m == Len(o.segments)
             w == within(o)
  <2>1. m \in Nat /\ DOMAIN o.segments = 1..m
    BY <1>2, ListFacts DEF IsOccurrence
  <2>2. w = [s \in 1..m |-> w[s]]
    BY <2>1
  <2>3. \A s \in 1..m : w[s] \in S
    BY <2>1
  <2> HIDE DEF S, m, w
  <2>4. w \in Seq(S)
    BY <2>1, <2>2, <2>3, MadeOf
  <2>5. QED
    BY <2>4 DEF w
<1> HIDE DEF S, within, os
<1>5. ss \in Seq(Seq(S))
  <2>1. ss = [k \in 1..Len(os) |-> ss[k]] /\ \A k \in 1..Len(os) : ss[k] \in Seq(S)
    BY <1>2, <1>4
  <2> HIDE DEF ss
  <2>2. QED
    BY <1>2, <2>1, MadeOf
<1> HIDE DEF ss
<1>6. FlattenSeq(ss) \in Seq(S)
  BY <1>5, FlattenedList
<1>7. QED
  BY <1>1, <1>3, <1>6, SequenceListed DEF AreRows

\* The original of a row is a segment of the parameter, when it has one.
LEMMA OriginalIsSegment ==
  ASSUME NEW row, NEW previous, Listed(previous), \A k \in DOMAIN previous : IsOccurrence(previous[k]),
         NEW s \in OriginalOf(row, previous)
  PROVE  IsSegment(s)
<1> DEFINE matching(k) == {t \in DOMAIN previous[k].segments :
                             /\ previous[k].index = row.occurrence
                             /\ previous[k].segments[t].sequence = row.sequence}
           same == UNION {{k} \X matching(k) : k \in DOMAIN previous}
           isLast(ks) == \A lt \in same : lt[1] < ks[1] \/ (lt[1] = ks[1] /\ lt[2] <= ks[2])
           last == CHOOSE ks \in same : isLast(ks)
           K == {k \in DOMAIN previous : matching(k) # {}}
<1>1. OriginalOf(row, previous) = IF same = {} THEN {} ELSE {previous[last[1]].segments[last[2]]}
  BY Zenon DEF OriginalOf
<1>2. same # {} /\ s = previous[last[1]].segments[last[2]]
  BY <1>1
<1>3. \A lt \in same : lt[1] \in K /\ lt[2] \in matching(lt[1])
  OBVIOUS
<1>4. \A k \in K : \A t \in matching(k) : <<k, t>> \in same
  OBVIOUS
<1>5. K \in SUBSET DOMAIN previous
  OBVIOUS
<1>6. \A k \in K : matching(k) # {} /\ matching(k) \in SUBSET DOMAIN previous[k].segments
  OBVIOUS
<1> HIDE DEF K, matching, same
<1>7. Len(previous) \in Nat /\ DOMAIN previous = 1..Len(previous)
  BY ListFacts
<1>8. K # {}
  BY <1>2, <1>3
<1>9. K \subseteq Int /\ IsFiniteSet(K)
  <2>1. IsFiniteSet(1..Len(previous))
    BY <1>7, FS_Interval
  <2>2. IsFiniteSet(K)
    BY <1>5, <1>7, <2>1, FS_Subset
  <2>3. QED
    BY <1>5, <1>7, <2>2
<1> DEFINE k0 == Max(K)
           m == Len(previous[k0].segments)
           t0 == Max(matching(k0))
<1>10. k0 \in K /\ \A k \in K : k <= k0
  BY <1>8, <1>9, MaxIn
<1> HIDE DEF k0
<1>11. m \in Nat /\ DOMAIN previous[k0].segments = 1..m
  BY <1>5, <1>10, ListFacts DEF IsOccurrence
<1> HIDE DEF m
<1>12. t0 \in matching(k0) /\ \A t \in matching(k0) : t <= t0
  <2> DEFINE T == matching(k0)
  <2>1. T # {} /\ T \in SUBSET (1..m)
    BY <1>6, <1>10, <1>11
  <2> HIDE DEF T
  <2>2. IsFiniteSet(1..m)
    BY <1>11, FS_Interval
  <2>3. IsFiniteSet(T)
    BY <2>1, <2>2, FS_Subset
  <2>4. T \subseteq Int
    BY <1>11, <2>1
  <2>5. Max(T) \in T /\ \A t \in T : t <= Max(T)
    BY <2>1, <2>3, <2>4, MaxIn
  <2>6. QED
    BY <2>5 DEF T
<1> HIDE DEF t0
<1>13. \E ks \in same : isLast(ks)
  <2>1. <<k0, t0>> \in same
    BY <1>4, <1>10, <1>12
  <2>2. ASSUME NEW lt \in same
        PROVE  lt[1] < k0 \/ (lt[1] = k0 /\ lt[2] <= t0)
    <3>1. lt[1] \in K /\ lt[2] \in matching(lt[1])
      BY <1>3
    <3>2. lt[1] \in Int /\ k0 \in Int /\ lt[1] <= k0
      BY <1>9, <1>10, <3>1
    <3>3. lt[1] = k0 => lt[2] <= t0
      BY <1>12, <3>1
    <3>4. QED
      BY <3>2, <3>3
  <2>3. isLast(<<k0, t0>>)
    BY <2>2
  <2> HIDE DEF isLast
  <2>4. QED
    BY <2>1, <2>3
<1> HIDE DEF isLast
<1>14. last \in same
  BY <1>13
<1> HIDE DEF last
<1>15. last[1] \in DOMAIN previous /\ last[2] \in DOMAIN previous[last[1]].segments
  BY <1>3, <1>5, <1>6, <1>14
<1>16. QED
  BY <1>2, <1>15 DEF IsOccurrence

\* What the rows of the table are made into is occurrences.
LEMMA BuiltOccurrences ==
  ASSUME NEW rows, NEW previous, AreRows(rows),
         Listed(previous), \A k \in DOMAIN previous : IsOccurrence(previous[k])
  PROVE  LET os == BuildOccurrences(rows, previous)
         IN  Listed(os) /\ \A k \in DOMAIN os : IsOccurrence(os[k])
<1> DEFINE indexes == {rows[r].occurrence : r \in DOMAIN rows}
           key(r) == <<rows[r].sequence, r>>
           before(q, r) == key(q)[1] < key(r)[1] \/ (key(q)[1] = key(r)[1] /\ q < r)
           rowsOf(index) == {r \in DOMAIN rows : rows[r].occurrence = index}
           nth(index, n) == CHOOSE r \in rowsOf(index) :
                              Cardinality({q \in rowsOf(index) : before(q, r)}) = n - 1
           raw(r) == CarrySourceRaw(OriginalOf(rows[r], previous), rows[r].subframes)
           segment(r) == Segment(rows[r].sequence, rows[r].subframes, rows[r].word, rows[r].lsb,
                                 rows[r].msb, NoWeight, raw(r))
           occurrence(index) ==
             Occurrence(index, [n \in 1..Cardinality(rowsOf(index)) |-> segment(nth(index, n))])
           os == BuildOccurrences(rows, previous)
<1>1. os = [k \in 1..Cardinality(indexes) |-> occurrence(NthOf(indexes, k))]
  BY Zenon DEF BuildOccurrences
<1>2. Len(rows) \in Nat /\ DOMAIN rows = 1..Len(rows)
  BY ListFacts DEF AreRows
<1>3. \A r \in DOMAIN rows :
        rows[r].sequence \in Int /\ IsFiniteSet(rows[r].subframes) /\ 0 \notin rows[r].subframes
  BY DEF AreRows, IsRow
<1>4. Cardinality(indexes) \in Nat
  <2> DEFINE f == [r \in DOMAIN rows |-> rows[r].occurrence]
             image == {f[r] : r \in 1..Len(rows)}
  <2>1. indexes = image
    BY <1>2
  <2>2. IsFiniteSet(image)
    <3> HIDE DEF f
    <3>1. QED
      BY <1>2, ImageFinite
  <2> HIDE DEF indexes, image
  <2>3. QED
    BY <2>1, <2>2, FS_CardinalityType
<1>5. ASSUME NEW index
      PROVE  /\ Cardinality(rowsOf(index)) \in Nat
             /\ \A n \in 1..Cardinality(rowsOf(index)) : nth(index, n) \in DOMAIN rows
  <2> DEFINE R == rowsOf(index)
             B == {qr \in R \X R : before(qr[1], qr[2])}
             n0 == Cardinality(R)
  <2>1. R \in SUBSET DOMAIN rows
    OBVIOUS
  <2>2. \A q, r \in R : before(q, r) <=> (rows[q].sequence < rows[r].sequence
                                          \/ (rows[q].sequence = rows[r].sequence /\ q < r))
    OBVIOUS
  <2>3. \A q, r \in R : <<q, r>> \in B <=> before(q, r)
    OBVIOUS
  <2>4. \A n : nth(index, n) = CHOOSE r \in R : Cardinality({q \in R : before(q, r)}) = n - 1
    BY Zenon
  <2> HIDE DEF R, before, B, rowsOf, nth
  <2>5. \A r \in R : r \in Int /\ rows[r].sequence \in Int
    BY <1>2, <1>3, <2>1
  <2>6. IsFiniteSet(R) /\ n0 \in Nat
    <3>1. IsFiniteSet(1..Len(rows))
      BY <1>2, FS_Interval
    <3>2. IsFiniteSet(R)
      BY <1>2, <2>1, <3>1, FS_Subset
    <3>3. QED
      BY <3>2, FS_CardinalityType
  <2>7. /\ \A q \in R : <<q, q>> \notin B
        /\ \A p, q, r \in R : <<p, q>> \in B /\ <<q, r>> \in B => <<p, r>> \in B
        /\ \A q, r \in R : q # r => <<q, r>> \in B \/ <<r, q>> \in B
    BY <2>2, <2>3, <2>5
  <2>8. \A n \in 1..n0 : \E r \in R : Cardinality({q \in R : <<q, r>> \in B}) = n - 1
    BY <2>6, <2>7, NthInOrder
  <2>9. \A r \in R : {q \in R : <<q, r>> \in B} = {q \in R : before(q, r)}
    BY <2>3
  <2>10. \A n \in 1..n0 : \E r \in R : Cardinality({q \in R : before(q, r)}) = n - 1
    BY <2>8, <2>9
  <2>11. \A n \in 1..n0 : nth(index, n) \in R
    BY <2>4, <2>10
  <2>12. \A n \in 1..n0 : nth(index, n) \in DOMAIN rows
    BY <2>1, <2>11
  <2>13. QED
    BY <2>6, <2>12 DEF R, n0
<1> HIDE DEF indexes, key, before, rowsOf, nth
<1>6. ASSUME NEW r \in DOMAIN rows PROVE IsSegment(segment(r))
  <2> DEFINE S == rows[r].subframes
             w == raw(r)
             O == OriginalOf(rows[r], previous)
             g == segment(r)
  <2>1. w = IF O = {} THEN {}
            ELSE IF (CHOOSE s \in O : TRUE).subframes = S THEN (CHOOSE s \in O : TRUE).raw ELSE {}
    BY Zenon DEF CarrySourceRaw
  <2>2. \A s \in O : IsSegment(s)
    BY OriginalIsSegment
  <2> HIDE DEF O, w, raw
  <2>3. w = {} \/ Decoded(w) = S
    <3> DEFINE s == CHOOSE s \in O : TRUE
    <3>1. O # {} => s \in O
      OBVIOUS
    <3> HIDE DEF s
    <3>2. w = IF O = {} THEN {} ELSE IF s.subframes = S THEN s.raw ELSE {}
      BY <2>1 DEF s
    <3>3. O # {} => s.raw = {} \/ Decoded(s.raw) = s.subframes
      BY <2>2, <3>1 DEF IsSegment
    <3>4. QED
      BY <3>2, <3>3
  <2>4. g = Segment(rows[r].sequence, S, g.word, g.lsb, g.msb, g.weight, w)
        /\ g.sequence = rows[r].sequence /\ g.subframes = S /\ g.raw = w
    BY DEF Segment, w
  <2>5. g.sequence \in Int /\ IsFiniteSet(g.subframes) /\ 0 \notin g.subframes
    BY <1>3, <2>4
  <2> HIDE DEF g, S
  <2>6. IsSegment(g)
    BY <2>3, <2>4, <2>5 DEF IsSegment
  <2>7. QED
    BY <2>6 DEF g
<1> HIDE DEF segment
<1>7. ASSUME NEW index PROVE IsOccurrence(occurrence(index))
  <2> DEFINE m == Cardinality(rowsOf(index))
             segments == [n \in 1..m |-> segment(nth(index, n))]
  <2>1. m \in Nat
    BY <1>5
  <2>2. \A n \in 1..m : IsSegment(segments[n])
    BY <1>5, <1>6
  <2>3. segments = [n \in 1..m |-> segments[n]] /\ occurrence(index) = Occurrence(index, segments)
    OBVIOUS
  <2> HIDE DEF m, segments, occurrence
  <2>4. Listed(segments) /\ DOMAIN segments = 1..m
    BY <2>1, <2>3, MadeListed
  <2>5. occurrence(index).index = index /\ occurrence(index).segments = segments
    BY <2>3 DEF Occurrence
  <2>6. QED
    BY <2>2, <2>3, <2>4, <2>5 DEF IsOccurrence
<1> DEFINE N == Cardinality(indexes)
<1> HIDE DEF os, occurrence, N
<1>8. os = [k \in 1..N |-> os[k]]
  BY <1>1 DEF N
<1>9. Listed(os) /\ DOMAIN os = 1..N
  BY <1>4, <1>8, MadeListed DEF N
<1>10. \A k \in DOMAIN os : IsOccurrence(os[k])
  BY <1>1, <1>7
<1>11. QED
  BY <1>9, <1>10 DEF os

\* Rows as a sequence
LEMMA RowsSequence ==
  ASSUME NEW rows, AreRows(rows)
  PROVE  \E S : rows \in Seq(S) /\ \A x \in S : IsRow(x)
<1> DEFINE S == {rows[r] : r \in DOMAIN rows}
<1>1. rows \in Seq(S)
  BY DEF AreRows, Listed
<1>2. \A x \in S : IsRow(x)
  BY DEF AreRows
<1> HIDE DEF S
<1>3. QED
  BY <1>1, <1>2

\* A row of another word
LEMMA RowWord ==
  ASSUME NEW x, IsRow(x), NEW w
  PROVE  IsRow([x EXCEPT !.word = w])
<1> DEFINE with(y) == [y EXCEPT !.word = w]
<1>1. \A a, b, c, d, e, f : with(Row(a, b, c, d, e, f)) = Row(a, b, c, w, e, f)
  BY DEF Row
<1> HIDE DEF with
<1>2. with(x) = Row(x.occurrence, x.sequence, x.subframes, w, x.lsb, x.msb)
  BY <1>1 DEF IsRow
<1>3. \A a, b, c, d, e, f : b \in Int /\ IsFiniteSet(c) /\ 0 \notin c => IsRow(Row(a, b, c, d, e, f))
  BY DEF Row, IsRow
<1>4. IsRow(with(x))
  BY <1>2, <1>3 DEF IsRow
<1>5. QED
  BY <1>4 DEF with

\* or in other subframes
LEMMA RowSubframes ==
  ASSUME NEW x, IsRow(x), NEW S, IsFiniteSet(S), 0 \notin S
  PROVE  IsRow([x EXCEPT !.subframes = S])
<1> DEFINE with(y) == [y EXCEPT !.subframes = S]
<1>1. \A a, b, c, d, e, f : with(Row(a, b, c, d, e, f)) = Row(a, b, S, d, e, f)
  BY DEF Row
<1> HIDE DEF with
<1>2. with(x) = Row(x.occurrence, x.sequence, S, x.word, x.lsb, x.msb)
  BY <1>1 DEF IsRow
<1>3. \A a, b, c, d, e, f : b \in Int /\ IsFiniteSet(c) /\ 0 \notin c => IsRow(Row(a, b, c, d, e, f))
  BY DEF Row, IsRow
<1>4. IsRow(with(x))
  BY <1>2, <1>3 DEF IsRow
<1>5. QED
  BY <1>4 DEF with

\* What a user does to rows leaves rows.
LEMMA EditedRows ==
  ASSUME NEW rows, AreRows(rows), NEW edited \in RowEdits(rows)
  PROVE  AreRows(edited)
<1>1. PICK V : rows \in Seq(V) /\ \A x \in V : IsRow(x)
  BY RowsSequence
<1>2. ASSUME NEW x, IsRow(x) PROVE AreRows(Append(rows, x))
  <2> DEFINE T == V \cup {x}
  <2>1. rows \in Seq(T)
    BY <1>1
  <2>2. x \in T /\ \A y \in T : IsRow(y)
    BY <1>1, <1>2
  <2> HIDE DEF T
  <2>3. Append(rows, x) \in Seq(T)
    BY <2>1, <2>2, AppendProperties
  <2>4. QED
    BY <2>2, <2>3, SequenceListed DEF AreRows
<1>3. \A index, sequence : sequence \in Int => IsRow(NewRow(index, sequence))
  BY SubframesFinite DEF NewRow, Row, IsRow, Subframes
<1> DEFINE last == Max({0} \cup {rows[r].occurrence : r \in DOMAIN rows})
           sequences(index) ==
             {0} \cup {rows[r].sequence : r \in {q \in DOMAIN rows : rows[q].occurrence = index}}
           next(index) == Max(sequences(index)) + 1
<1> DEFINE removed == {RemoveAt(rows, r) : r \in DOMAIN rows}
           indexes == {rows[r].occurrence : r \in DOMAIN rows}
           appended == {Append(rows, NewRow(index, next(index))) : index \in indexes}
           reworded == {WithWord(rows, r, word) : r \in DOMAIN rows, word \in Words}
           moved == {WithSubframes(rows, r, S) : r \in DOMAIN rows, S \in {{1}, Subframes}}
<1>14. RowEdits(rows) = {rows} \cup removed \cup appended \cup {Append(rows, NewRow(last + 1, 1))}
                          \cup reworded \cup moved
  BY SMT DEF RowEdits
<1>24. \A x \in removed : \E r \in DOMAIN rows : x = RemoveAt(rows, r)
  BY Zenon
<1>34. \A x \in appended : \E index \in indexes : x = Append(rows, NewRow(index, next(index)))
  BY Zenon
<1>44. \A x \in reworded : \E r \in DOMAIN rows, word \in Words : x = WithWord(rows, r, word)
  BY SMT
<1>54. \A x \in moved : \E r \in DOMAIN rows, T \in {{1}, Subframes} : x = WithSubframes(rows, r, T)
  BY SMT
<1> HIDE DEF removed, indexes, appended, reworded, moved
<1>4. \/ edited = rows \/ edited \in removed \/ edited \in appended
      \/ edited = Append(rows, NewRow(last + 1, 1)) \/ edited \in reworded \/ edited \in moved
  BY <1>14
<1> HIDE DEF next, last
<1>5. ASSUME NEW r \in DOMAIN rows PROVE AreRows(RemoveAt(rows, r))
  <2>1. Len(rows) \in Nat /\ DOMAIN rows = 1..Len(rows)
    BY ListFacts DEF AreRows
  <2>2. SubSeq(rows, 1, r - 1) \in Seq(V)
    BY <1>1, <2>1
  <2>3. SubSeq(rows, r + 1, Len(rows)) \in Seq(V)
    BY <1>1, <2>1
  <2>4. RemoveAt(rows, r) \in Seq(V)
    BY <2>2, <2>3, ConcatProperties DEF RemoveAt
  <2>5. QED
    BY <1>1, <2>4, SequenceListed DEF AreRows
<1>6. ASSUME NEW index PROVE next(index) \in Int
  <2> DEFINE K == sequences(index)
             f == [r \in DOMAIN rows |-> IF rows[r].occurrence = index THEN rows[r].sequence ELSE 0]
             image == {f[r] : r \in 1..Len(rows)}
  <2>1. Len(rows) \in Nat /\ DOMAIN rows = 1..Len(rows) /\ \A r \in DOMAIN rows : rows[r].sequence \in Int
    BY ListFacts DEF AreRows, IsRow
  <2>2. K \in SUBSET (image \cup {0})
    BY <2>1
  <2>3. K \subseteq Int /\ K # {}
    BY <2>1
  <2>4. IsFiniteSet(image)
    <3> HIDE DEF f
    <3>1. QED
      BY <2>1, ImageFinite
  <2>5. next(index) = Max(K) + 1
    BY DEF next
  <2> HIDE DEF K, image
  <2>6. IsFiniteSet(image \cup {0})
    BY <2>4, FS_AddElement
  <2>7. IsFiniteSet(K)
    BY <2>2, <2>6, FS_Subset
  <2>8. Max(K) \in K
    BY <2>3, <2>7, MaxIn
  <2>9. Max(K) \in Int
    BY <2>3, <2>8
  <2>10. QED
    BY <2>5, <2>9
<1>7. ASSUME NEW r \in DOMAIN rows, NEW x, IsRow(x) PROVE AreRows([rows EXCEPT ![r] = x])
  BY <1>7, PlaceChanged DEF AreRows
<1>8. ASSUME NEW r \in DOMAIN rows, NEW w PROVE AreRows(WithWord(rows, r, w))
  <2>1. IsRow([rows[r] EXCEPT !.word = w])
    BY RowWord DEF AreRows
  <2>2. WithWord(rows, r, w) = [rows EXCEPT ![r] = [rows[r] EXCEPT !.word = w]]
    BY DEF WithWord
  <2>3. QED
    BY <1>7, <2>1, <2>2
<1>9. ASSUME NEW r \in DOMAIN rows, NEW T \in {{1}, Subframes} PROVE AreRows(WithSubframes(rows, r, T))
  <2>1. 0 \notin T /\ IsFiniteSet(T)
    <3>1. 0 \notin Subframes
      BY DEF Subframes
    <3>2. IsFiniteSet({1})
      BY FS_Singleton
    <3>3. QED
      BY <3>1, <3>2, SubframesFinite
  <2>2. IsRow([rows[r] EXCEPT !.subframes = T])
    BY <2>1, RowSubframes DEF AreRows
  <2>3. WithSubframes(rows, r, T) = [rows EXCEPT ![r] = [rows[r] EXCEPT !.subframes = T]]
    BY DEF WithSubframes
  <2>4. QED
    BY <1>7, <2>2, <2>3
<1>10. \A x \in removed : AreRows(x)
  BY <1>24, <1>5
<1>11. \A x \in appended : AreRows(x)
  BY <1>34, <1>2, <1>3, <1>6
<1>12. AreRows(Append(rows, NewRow(last + 1, 1)))
  BY <1>2, <1>3
<1>13. \A x \in reworded : AreRows(x)
  BY <1>44, <1>8
<1>15. \A x \in moved : AreRows(x)
  BY <1>54, <1>9
<1>16. QED
  BY <1>4, <1>10, <1>11, <1>12, <1>13, <1>15

\* A parameter of these parts
ParameterOf(id, name, source, type, scale, states, occurrences, record) ==
  [id |-> id, name |-> name, source |-> source, type |-> type, scale |-> scale,
   states |-> states, occurrences |-> occurrences, record |-> record]

\* Its parts make it one.
LEMMA PartsOfParameter ==
  ASSUME NEW a, NEW b, NEW c, NEW d, NEW e, NEW f, NEW g, NEW h,
         Coherent(d, c, f, g),
         Listed(g) /\ \A k \in DOMAIN g : IsOccurrence(g[k]),
         h = <<>> \/ (h = <<h[1]>> /\ IsRecord(h[1]))
  PROVE  IsParameter(ParameterOf(a, b, c, d, e, f, g, h))
<1> DEFINE p == ParameterOf(a, b, c, d, e, f, g, h)
<1>1. /\ p.id = a /\ p.name = b /\ p.source = c /\ p.type = d /\ p.scale = e /\ p.states = f
      /\ p.occurrences = g /\ p.record = h
      /\ p = [id |-> p.id, name |-> p.name, source |-> p.source, type |-> p.type, scale |-> p.scale,
              states |-> p.states, occurrences |-> p.occurrences, record |-> p.record]
  BY DEF ParameterOf
<1> HIDE DEF p
<1>2. IsParameter(p)
  BY <1>1 DEF IsParameter
<1>3. QED
  BY <1>2 DEF p

\* Labels in the rows 0 and 1 do not make a table one that two labels say.
LEMMA LabelledTable ==
  ASSUME NEW table, Listed(table), table # <<>>, ~TwoValued(table), NEW value, NEW label
  PROVE  LET t == Relabelled(table, value, label)
         IN  Listed(t) /\ t # <<>> /\ ~TwoValued(t)
<1> DEFINE n == Len(table)
           at == {i \in DOMAIN table : table[i].value = value}
           m == Min(at)
           relabelled == [table EXCEPT ![m].label = label]
           longer == Append(table, State(value, label))
<1>1. n \in Nat /\ DOMAIN table = 1..n
  BY ListFacts
<1>2. Relabelled(table, value, label)
        = IF at # {} THEN relabelled ELSE IF label = NoLabel THEN table ELSE longer
  BY Zenon DEF Relabelled
<1>3. n # 0
  BY <1>1, EmptyList, ListsEqual
<1>4. ASSUME at # {} PROVE Listed(relabelled) /\ relabelled # <<>> /\ ~TwoValued(relabelled)
  <2>1. m \in DOMAIN table
    <3>1. at \in SUBSET Nat /\ at \subseteq DOMAIN table
      BY <1>1
    <3> HIDE DEF at
    <3>2. PICK x \in at : \A y \in at : x <= y
      BY <1>4, <3>1, LeastNatural
    <3>3. m \in at
      BY <3>2 DEF Min
    <3>4. QED
      BY <3>1, <3>3
  <2> DEFINE x == [table[m] EXCEPT !.label = label]
  <2>2. relabelled = [table EXCEPT ![m] = x]
    OBVIOUS
  <2>3. x.value = table[m].value
    OBVIOUS
  <2> HIDE DEF x, m, relabelled
  <2>4. Listed(relabelled) /\ DOMAIN relabelled = DOMAIN table
        /\ \A k \in DOMAIN table : relabelled[k] = IF k = m THEN x ELSE table[k]
    BY <2>1, <2>2, PlaceChanged
  <2>5. \A k \in DOMAIN table : relabelled[k].value = table[k].value
    BY <2>3, <2>4
  <2>6. relabelled # <<>>
    BY <2>1, <2>4, EmptyList
  <2>7. QED
    BY <2>4, <2>5, <2>6 DEF TwoValued
<1>5. ASSUME at = {} PROVE Listed(longer) /\ longer # <<>> /\ ~TwoValued(longer)
  <2>1. /\ Listed(longer) /\ Len(longer) = n + 1
        /\ \A k \in 1..n : longer[k] = table[k]
    BY LengthenedList
  <2> HIDE DEF longer
  <2>2. DOMAIN longer = 1..(n + 1)
    BY <2>1, ListFacts
  <2>3. DOMAIN table \subseteq DOMAIN longer
    BY <1>1, <2>2
  <2>4. QED
    BY <1>1, <1>3, <2>1, <2>2, <2>3, EmptyList DEF TwoValued
<1> HIDE DEF at, relabelled, longer
<1>6. QED
  BY <1>2, <1>4, <1>5

\* Neither does the dialog.
LEMMA CarriedTable ==
  ASSUME NEW table, Listed(table), table = <<>> \/ ~TwoValued(table), NEW one, NEW zero
  PROVE  LET t == CarryStates(table, one, zero)
         IN  Listed(t) /\ (t = <<>> \/ ~TwoValued(t))
<1> DEFINE u == Relabelled(table, 1, one)
<1>1. table # <<>> => Listed(u) /\ u # <<>> /\ ~TwoValued(u)
  BY LabelledTable
<1>2. CarryStates(table, one, zero) = IF table = <<>> THEN table ELSE Relabelled(u, 0, zero)
  BY Zenon DEF CarryStates
<1> HIDE DEF u
<1>3. QED
  BY <1>1, <1>2, LabelledTable

\* The rows of the table have no digit weights.
LEMMA BuiltUnweighed ==
  ASSUME NEW rows, NEW previous, NEW type, NEW k \in DOMAIN BuildOccurrences(rows, previous)
  PROVE  Weighed(type, BuildOccurrences(rows, previous)[k])
<1> DEFINE indexes == {rows[r].occurrence : r \in DOMAIN rows}
           key(r) == <<rows[r].sequence, r>>
           before(q, r) == key(q)[1] < key(r)[1] \/ (key(q)[1] = key(r)[1] /\ q < r)
           rowsOf(index) == {r \in DOMAIN rows : rows[r].occurrence = index}
           nth(index, n) == CHOOSE r \in rowsOf(index) :
                              Cardinality({q \in rowsOf(index) : before(q, r)}) = n - 1
           segment(r) == Segment(rows[r].sequence, rows[r].subframes, rows[r].word, rows[r].lsb,
                                 rows[r].msb, NoWeight,
                                 CarrySourceRaw(OriginalOf(rows[r], previous), rows[r].subframes))
           segments(index) == [n \in 1..Cardinality(rowsOf(index)) |-> segment(nth(index, n))]
           os == BuildOccurrences(rows, previous)
<1>1. os = [j \in 1..Cardinality(indexes) |->
              Occurrence(NthOf(indexes, j), segments(NthOf(indexes, j)))]
  BY Zenon DEF BuildOccurrences
<1>2. \A r : segment(r).weight = NoWeight
  BY DEF Segment
<1> HIDE DEF segment, os, indexes, rowsOf, nth
<1>3. \A index : \A s \in DOMAIN segments(index) : segments(index)[s].weight = NoWeight
  BY <1>2
<1> HIDE DEF segments
<1>4. os[k].segments = segments(NthOf(indexes, k))
  BY <1>1 DEF Occurrence, os
<1>5. Weighed(type, os[k])
  BY <1>3, <1>4 DEF Weighed
<1>6. QED
  BY <1>5 DEF os

\* What OK commits for a parameter is one.
LEMMA CandidateIs ==
  ASSUME NEW p, IsParameter(p), NEW rows, AreRows(rows), NEW name, NEW source, NEW one
  PROVE  IsParameter(Candidate(p, name, source, one, rows))
<1> DEFINE states == [one |-> one, zero |-> p.states.zero,
                      table |-> CarryStates(p.states.table, one, p.states.zero)]
           os == BuildOccurrences(rows, p.occurrences)
           type == Canonical(source)
           scale == SixDigits(p.scale)
<1>1. Candidate(p, name, source, one, rows)
        = ParameterOf(p.id, name, source, type, scale, states, os, p.record)
  BY Zenon DEF Candidate, ParameterOf
<1>2. Listed(os) /\ \A k \in DOMAIN os : IsOccurrence(os[k])
  BY BuiltOccurrences DEF IsParameter
<1>3. p.record = <<>> \/ (p.record = <<p.record[1]>> /\ IsRecord(p.record[1]))
  BY DEF IsParameter
<1>6. Coherent(type, source, states, os)
  <2>1. Listed(states.table) /\ (states.table = <<>> \/ ~TwoValued(states.table))
    BY CarriedTable DEF IsParameter, Coherent
  <2>2. \A k \in DOMAIN os : Weighed(type, os[k])
    BY BuiltUnweighed
  <2> HIDE DEF os, states
  <2>3. QED
    BY <2>1, <2>2 DEF Coherent
<1> HIDE DEF os, states, type, scale
<1>4. IsParameter(ParameterOf(p.id, name, source, type, scale, states, os, p.record))
  BY <1>2, <1>3, <1>6, PartsOfParameter
<1>5. QED
  BY <1>1, <1>4

\* So is every candidate the dialog may commit.
LEMMA CandidatesAre ==
  ASSUME NEW p, IsParameter(p), NEW c \in Candidates(p)
  PROVE  IsParameter(c)
<1> DEFINE rows == SegmentRows(p)
<1>1. \/ \E r \in RowEdits(rows) : c = Candidate(p, p.name, p.source, p.states.one, r)
      \/ \E name \in Names : c = Candidate(p, <<name, 0>>, p.source, p.states.one, rows)
      \/ \E source \in Sources : c = Candidate(p, p.name, source, p.states.one, rows)
      \/ \E label \in Labels : c = Candidate(p, p.name, p.source, label, rows)
  BY DEF Candidates
<1>2. AreRows(rows)
  BY SegmentRowsAre
<1> HIDE DEF rows
<1>3. \A r \in RowEdits(rows) : AreRows(r)
  BY <1>2, EditedRows
<1>4. QED
  BY <1>1, <1>2, <1>3, CandidateIs

\* What the editor starts from is one too.
LEMMA BlankIs ==
  ASSUME NEW name, NEW source
  PROVE  IsParameter(Blank(name, source))
<1> DEFINE states == [one |-> NoLabel, zero |-> NoLabel, table |-> <<>>]
           p == ParameterOf(NoId, name, source, Canonical(source), 1, states, <<>>, <<>>)
           rows == <<NewRow(1, 1)>>
<1>1. Blank(name, source) = Candidate(p, name, source, NoLabel, rows)
  BY Zenon DEF Blank, ParameterOf
<1>2. IsParameter(p)
  <2>1. Listed(<<>>) /\ DOMAIN <<>> = {}
    BY EmptyList
  <2>2. Coherent(Canonical(source), source, states, <<>>)
    BY <2>1 DEF Coherent
  <2> HIDE DEF states
  <2>3. QED
    BY <2>1, <2>2, PartsOfParameter
<1>3. AreRows(rows)
  <2>1. IsRow(NewRow(1, 1))
    BY SubframesFinite DEF NewRow, Row, IsRow, Subframes
  <2>2. Listed(rows) /\ DOMAIN rows = {1} /\ rows[1] = NewRow(1, 1)
    BY DEF Listed
  <2> HIDE DEF rows
  <2>3. QED
    BY <2>1, <2>2 DEF AreRows
<1> HIDE DEF p, rows
<1>4. QED
  BY <1>1, <1>2, <1>3, CandidateIs

-----------------------------------------------------------------------------
(* Dataframes *)

\* The parameters of a dataframe
AreParameters(ps) == Listed(ps) /\ \A i \in DOMAIN ps : IsParameter(ps[i])

\* They and a rate make a dataframe.
LEMMA PartsOfDataframe ==
  ASSUME NEW wps \in Nat, NEW ps, AreParameters(ps)
  PROVE  IsDataframe([wps |-> wps, parameters |-> ps])
BY DEF IsDataframe, AreParameters

\* A dataframe of another rate
LEMMA OtherRate ==
  ASSUME NEW d, IsDataframe(d), NEW wps \in Nat
  PROVE  IsDataframe([d EXCEPT !.wps = wps]) /\ [d EXCEPT !.wps = wps].wps = wps
<1> DEFINE with(x) == [x EXCEPT !.wps = wps]
<1>1. \A a, b : with([wps |-> a, parameters |-> b]) = [wps |-> wps, parameters |-> b]
  OBVIOUS
<1> HIDE DEF with
<1>2. with(d) = [wps |-> wps, parameters |-> d.parameters]
  BY <1>1 DEF IsDataframe
<1>3. AreParameters(d.parameters)
  BY DEF IsDataframe, AreParameters
<1>4. IsDataframe(with(d)) /\ with(d).wps = wps
  BY <1>2, <1>3, PartsOfDataframe
<1>5. QED
  BY <1>4 DEF with

\* or other parameters
LEMMA OtherParameters ==
  ASSUME NEW d, IsDataframe(d), NEW ps, AreParameters(ps)
  PROVE  /\ IsDataframe([d EXCEPT !.parameters = ps])
         /\ [d EXCEPT !.parameters = ps].wps = d.wps /\ [d EXCEPT !.parameters = ps].parameters = ps
<1> DEFINE with(x) == [x EXCEPT !.parameters = ps]
<1>1. \A a, b : with([wps |-> a, parameters |-> b]) = [wps |-> a, parameters |-> ps]
  OBVIOUS
<1> HIDE DEF with
<1>2. with(d) = [wps |-> d.wps, parameters |-> ps] /\ d.wps \in Nat
  BY <1>1 DEF IsDataframe
<1>3. IsDataframe(with(d)) /\ with(d).wps = d.wps /\ with(d).parameters = ps
  BY <1>2, PartsOfDataframe
<1>4. QED
  BY <1>3 DEF with

\* Parameters as a sequence
LEMMA ParametersSequence ==
  ASSUME NEW ps, AreParameters(ps)
  PROVE  \E S : ps \in Seq(S) /\ \A x \in S : IsParameter(x)
<1> DEFINE S == {ps[i] : i \in DOMAIN ps}
<1>1. ps \in Seq(S)
  BY DEF AreParameters, Listed
<1>2. \A x \in S : IsParameter(x)
  BY DEF AreParameters
<1> HIDE DEF S
<1>3. QED
  BY <1>1, <1>2

\* Parameters stay so with one more at the end
LEMMA Appended ==
  ASSUME NEW ps, AreParameters(ps), NEW p, IsParameter(p)
  PROVE  AreParameters(Append(ps, p))
<1>1. PICK S : ps \in Seq(S) /\ \A x \in S : IsParameter(x)
  BY ParametersSequence
<1> DEFINE T == S \cup {p}
<1>2. ps \in Seq(T) /\ p \in T /\ \A x \in T : IsParameter(x)
  BY <1>1
<1> HIDE DEF T
<1>3. Append(ps, p) \in Seq(T)
  BY <1>2, AppendProperties
<1>4. QED
  BY <1>2, <1>3, SequenceListed DEF AreParameters

\* or after one of them,
LEMMA Inserted ==
  ASSUME NEW ps, AreParameters(ps), NEW i \in DOMAIN ps, NEW p, IsParameter(p)
  PROVE  AreParameters(InsertAt(ps, i + 1, p))
<1>1. PICK S : ps \in Seq(S) /\ \A x \in S : IsParameter(x)
  BY ParametersSequence
<1> DEFINE T == S \cup {p}
<1>2. ps \in Seq(T) /\ p \in T /\ \A x \in T : IsParameter(x)
  BY <1>1
<1> HIDE DEF T
<1>3. Len(ps) \in Nat /\ DOMAIN ps = 1..Len(ps)
  BY ListFacts DEF AreParameters
<1>4. SubSeq(ps, 1, (i + 1) - 1) \in Seq(T)
  BY <1>2, <1>3
<1>5. SubSeq(ps, i + 1, Len(ps)) \in Seq(T)
  BY <1>2, <1>3
<1>6. <<p>> \in Seq(T)
  BY <1>2
<1>7. InsertAt(ps, i + 1, p) \in Seq(T)
  BY <1>4, <1>5, <1>6, ConcatProperties DEF InsertAt
<1>8. QED
  BY <1>2, <1>7, SequenceListed DEF AreParameters

\* as some of them in their order,
LEMMA Selected ==
  ASSUME NEW ps, AreParameters(ps), NEW K \in SUBSET DOMAIN ps
  PROVE  AreParameters(Among(ps, K))
<1> DEFINE n == Cardinality(K)
           t == Among(ps, K)
<1>1. Len(ps) \in Nat /\ DOMAIN ps = 1..Len(ps)
  BY ListFacts DEF AreParameters
<1>2. IsFiniteSet(K) /\ n \in Nat
  <2>1. IsFiniteSet(1..Len(ps))
    BY <1>1, FS_Interval
  <2>2. IsFiniteSet(K)
    BY <1>1, <2>1, FS_Subset
  <2>3. QED
    BY <2>2, FS_CardinalityType
<1>3. \A k \in 1..n : NthOf(K, k) \in K
  <2>1. K \subseteq Int
    BY <1>1
  <2>2. QED
    BY <1>2, <2>1, NthOfIn
<1>4. t = [k \in 1..n |-> ps[NthOf(K, k)]]
  BY DEF Among
<1> HIDE DEF n, t
<1>5. t = [k \in 1..n |-> t[k]]
  BY <1>4
<1>6. Listed(t) /\ DOMAIN t = 1..n
  BY <1>2, <1>5, MadeListed
<1>7. \A k \in 1..n : IsParameter(t[k])
  BY <1>3, <1>4 DEF AreParameters
<1>8. QED
  BY <1>6, <1>7 DEF AreParameters, t

\* or with one in the place of another.
LEMMA Exchanged ==
  ASSUME NEW ps, AreParameters(ps), NEW i \in DOMAIN ps, NEW p, IsParameter(p)
  PROVE  /\ AreParameters([ps EXCEPT ![i] = p])
         /\ DOMAIN [ps EXCEPT ![i] = p] = DOMAIN ps
BY PlaceChanged DEF AreParameters

\* A candidate in its place
LEMMA WithParameterIs ==
  ASSUME NEW d, IsDataframe(d), NEW p, IsParameter(p)
  PROVE  IsDataframe(WithParameter(d, p)) /\ WithParameter(d, p).wps = d.wps
<1> DEFINE ps == d.parameters
           there == [i \in DOMAIN ps |-> IF ps[i].id = p.id THEN p ELSE ps[i]]
           new == IF \E i \in DOMAIN ps : ps[i].id = p.id THEN there ELSE Append(ps, p)
<1>1. WithParameter(d, p) = [d EXCEPT !.parameters = new]
  BY Zenon DEF WithParameter
<1>2. AreParameters(ps)
  BY DEF IsDataframe, AreParameters
<1> HIDE DEF ps
<1>3. AreParameters(there)
  <2>1. Len(ps) \in Nat /\ DOMAIN ps = 1..Len(ps)
    BY <1>2, ListFacts DEF AreParameters
  <2>2. there = [i \in 1..Len(ps) |-> there[i]]
    BY <2>1
  <2>3. \A i \in 1..Len(ps) : IsParameter(there[i])
    BY <1>2, <2>1 DEF AreParameters
  <2> HIDE DEF there
  <2>4. Listed(there) /\ DOMAIN there = 1..Len(ps)
    BY <2>1, <2>2, MadeListed
  <2>5. QED
    BY <2>3, <2>4 DEF AreParameters
<1>4. AreParameters(Append(ps, p))
  BY <1>2, Appended
<1>5. AreParameters(new)
  BY <1>3, <1>4
<1> HIDE DEF new
<1>6. QED
  BY <1>1, <1>5, OtherParameters

\* A copy of a parameter, and one with an id of its own
LEMMA CopyIs ==
  ASSUME NEW p, IsParameter(p), NEW name, NEW id
  PROVE  /\ IsParameter([p EXCEPT !.name = name, !.id = id, !.record = <<>>])
         /\ IsParameter([p EXCEPT !.id = id])
<1> DEFINE named(x) == [x EXCEPT !.name = name]
           numbered(x) == [x EXCEPT !.id = id]
           fresh(x) == [x EXCEPT !.record = <<>>]
           copy == [p EXCEPT !.name = name, !.id = id, !.record = <<>>]
<1>1. \A a, b, c, d, e, f, g, h :
        named(ParameterOf(a, b, c, d, e, f, g, h)) = ParameterOf(a, name, c, d, e, f, g, h)
  BY DEF ParameterOf
<1>2. \A a, b, c, d, e, f, g, h :
        numbered(ParameterOf(a, b, c, d, e, f, g, h)) = ParameterOf(id, b, c, d, e, f, g, h)
  BY DEF ParameterOf
<1>3. \A a, b, c, d, e, f, g, h :
        fresh(ParameterOf(a, b, c, d, e, f, g, h)) = ParameterOf(a, b, c, d, e, f, g, <<>>)
  BY DEF ParameterOf
<1>4. copy = fresh(numbered(named(p)))
  OBVIOUS
<1>5. p = ParameterOf(p.id, p.name, p.source, p.type, p.scale, p.states, p.occurrences, p.record)
  BY DEF IsParameter, ParameterOf
<1> HIDE DEF named, numbered, fresh, copy
<1>6. copy = ParameterOf(id, name, p.source, p.type, p.scale, p.states, p.occurrences, <<>>)
  BY <1>1, <1>2, <1>3, <1>4, <1>5
<1>7. numbered(p) = ParameterOf(id, p.name, p.source, p.type, p.scale, p.states, p.occurrences, p.record)
  BY <1>2, <1>5
<1>8. Listed(p.occurrences) /\ \A k \in DOMAIN p.occurrences : IsOccurrence(p.occurrences[k])
  BY DEF IsParameter
<1>9. /\ p.record = <<>> \/ (p.record = <<p.record[1]>> /\ IsRecord(p.record[1]))
      /\ Coherent(p.type, p.source, p.states, p.occurrences)
  BY DEF IsParameter
<1>10. IsParameter(ParameterOf(id, name, p.source, p.type, p.scale, p.states, p.occurrences, <<>>))
  BY <1>8, <1>9, PartsOfParameter
<1>11. IsParameter(ParameterOf(id, p.name, p.source, p.type, p.scale, p.states, p.occurrences, p.record))
  BY <1>8, <1>9, PartsOfParameter
<1>12. QED
  BY <1>6, <1>7, <1>10, <1>11 DEF copy, numbered

-----------------------------------------------------------------------------
(* Written to a file *)

\* The samples of an occurrence are a sequence of the places of its segments.
LEMMA SamplesSequence ==
  ASSUME NEW o, IsOccurrence(o), o.segments # <<>>, NEW sf, NEW uniform \in BOOLEAN, NEW wps,
         NEW X, NEW S, sf \in X,
         uniform => \A s \in DOMAIN o.segments :
                      \A k \in 1..Cardinality(o.segments[Len(o.segments)].subframes) :
                        NthOf(o.segments[s].subframes, k) \in X,
         \A s \in DOMAIN o.segments : \A x \in X : Location(o.segments[s], x, wps) \in S
  PROVE  SamplesAt(o, sf, uniform, wps) \in Seq(S)
<1> DEFINE n == Len(o.segments)
           P == Reverse(o.segments)
           nth(k) == [i \in DOMAIN P |-> NthOf(P[i].subframes, k)]
           begins(k) == Min({nth(k)[i] : i \in DOMAIN P})
           C == Cardinality(P[1].subframes)
           ks == {k \in 1..C : begins(k) = sf}
           K == {i \in DOMAIN P : sf \in P[i].subframes}
           here == Among(P, K)
           apart == [i \in DOMAIN here |-> Location(here[i], sf, wps)]
           sample(k) == [i \in DOMAIN P |-> Location(P[i], nth(k)[i], wps)]
           each == [j \in 1..Cardinality(ks) |-> sample(NthOf(ks, j))]
<1>1. SamplesAt(o, sf, uniform, wps) = IF ~uniform THEN apart ELSE FlattenSeq(each)
  BY Zenon DEF SamplesAt
<1>2. /\ DOMAIN P = 1..n
      /\ \A i \in 1..n : n - i + 1 \in 1..n /\ P[i] = o.segments[n - i + 1]
  BY ReversedParts
<1>3. n \in Nat \ {0} /\ DOMAIN o.segments = 1..n
  <2>1. n \in Nat /\ DOMAIN o.segments = 1..n /\ o.segments = [k \in 1..n |-> o.segments[k]]
    BY ListFacts DEF IsOccurrence
  <2>2. n = 0 => o.segments = <<>>
    BY <2>1
  <2>3. QED
    BY <2>1, <2>2
<1>4. P[1] = o.segments[n]
  <2>1. 1 \in 1..n /\ n - 1 + 1 = n
    BY <1>3
  <2>2. P[1] = o.segments[n - 1 + 1]
    BY <1>2, <2>1
  <2>3. QED
    BY <2>1, <2>2
<1> HIDE DEF P
<1>5. \A i \in 1..n : \A x \in X : Location(P[i], x, wps) \in S
  BY <1>2, <1>3
<1>6. CASE ~uniform
  <2>1. K \in SUBSET (1..n)
    BY <1>2
  <2> HIDE DEF K
  <2>2. IsFiniteSet(K) /\ Cardinality(K) \in Nat
    <3>1. IsFiniteSet(1..n)
      BY <1>3, FS_Interval
    <3>2. IsFiniteSet(K)
      BY <2>1, <3>1, FS_Subset
    <3>3. QED
      BY <3>2, FS_CardinalityType
  <2>3. \A i \in 1..Cardinality(K) : NthOf(K, i) \in 1..n
    <3>1. K \subseteq Int
      BY <1>3, <2>1
    <3>2. \A i \in 1..Cardinality(K) : NthOf(K, i) \in K
      BY <2>2, <3>1, NthOfIn
    <3>3. QED
      BY <2>1, <3>2
  <2>4. here = [i \in 1..Cardinality(K) |-> P[NthOf(K, i)]]
    BY DEF Among
  <2> HIDE DEF here
  <2>5. apart = [i \in 1..Cardinality(K) |-> apart[i]]
        /\ \A i \in 1..Cardinality(K) : apart[i] = Location(P[NthOf(K, i)], sf, wps)
    BY <2>4
  <2> HIDE DEF apart
  <2>6. \A i \in 1..Cardinality(K) : apart[i] \in S
    BY <1>5, <2>3, <2>5
  <2>7. apart \in Seq(S)
    BY <2>2, <2>5, <2>6, MadeOf
  <2>8. QED
    BY <1>1, <1>6, <2>7
<1>7. CASE uniform
  <2>1. C \in Nat
    <3>1. IsFiniteSet(P[1].subframes)
      BY <1>3, <1>4 DEF IsOccurrence, IsSegment
    <3>2. QED
      BY <3>1, FS_CardinalityType
  <2>2. ks \in SUBSET (1..C)
    OBVIOUS
  <2> HIDE DEF ks, begins
  <2>3. IsFiniteSet(ks) /\ Cardinality(ks) \in Nat
    <3>1. IsFiniteSet(1..C)
      BY <2>1, FS_Interval
    <3>2. IsFiniteSet(ks)
      BY <2>2, <3>1, FS_Subset
    <3>3. QED
      BY <3>2, FS_CardinalityType
  <2>4. \A j \in 1..Cardinality(ks) : NthOf(ks, j) \in 1..C
    <3>1. ks \subseteq Int
      BY <2>1, <2>2
    <3>2. \A j \in 1..Cardinality(ks) : NthOf(ks, j) \in ks
      BY <2>3, <3>1, NthOfIn
    <3>3. QED
      BY <2>2, <3>2
  <2>5. ASSUME NEW k \in 1..C PROVE sample(k) \in Seq(S)
    <3> DEFINE t == sample(k)
    <3>1. \A i \in 1..n : nth(k)[i] \in X
      <4>1. \A s \in 1..n : NthOf(o.segments[s].subframes, k) \in X
        BY <1>3, <1>4, <1>7
      <4>2. \A i \in 1..n : nth(k)[i] = NthOf(o.segments[n - i + 1].subframes, k)
        BY <1>2
      <4> HIDE DEF nth, n
      <4>3. QED
        BY <1>2, <4>1, <4>2
    <3>2. t = [i \in 1..n |-> t[i]] /\ \A i \in 1..n : t[i] = Location(P[i], nth(k)[i], wps)
      BY <1>2
    <3> HIDE DEF t, nth
    <3>3. \A i \in 1..n : t[i] \in S
      BY <1>5, <3>1, <3>2
    <3>4. t \in Seq(S)
      BY <1>3, <3>2, <3>3, MadeOf
    <3>5. QED
      BY <3>4 DEF t
  <2> HIDE DEF sample
  <2>6. each \in Seq(Seq(S))
    <3>1. each = [j \in 1..Cardinality(ks) |-> each[j]] /\ \A j \in 1..Cardinality(ks) : each[j] \in Seq(S)
      BY <2>4, <2>5
    <3> HIDE DEF each
    <3>2. QED
      BY <2>3, <3>1, MadeOf
  <2> HIDE DEF each
  <2>7. FlattenSeq(each) \in Seq(S)
    BY <2>6, FlattenedList
  <2>8. QED
    BY <1>1, <1>7, <2>7
<1>8. QED
  BY <1>6, <1>7

\* The occurrences with segments are some of the occurrences.
LEMMA WithSegmentsAre ==
  ASSUME NEW occurrences, Listed(occurrences), \A k \in DOMAIN occurrences : IsOccurrence(occurrences[k])
  PROVE  LET os == WithSegments(occurrences)
         IN  /\ Listed(os) /\ Len(os) \in Nat /\ DOMAIN os = 1..Len(os)
             /\ \A k \in DOMAIN os :
                  /\ IsOccurrence(os[k]) /\ os[k].segments # <<>>
                  /\ \E j \in DOMAIN occurrences : os[k] = occurrences[j]
<1> DEFINE os == WithSegments(occurrences)
           K == {k \in DOMAIN occurrences : occurrences[k].segments # <<>>}
<1>1. AlikeLists(occurrences, occurrences)
  BY ListFacts DEF AlikeLists, AlikeOccurrences, AlikeSegments
<1>2. AlikeLists(os, os) /\ \A k \in 1..Len(os) : os[k].segments # <<>>
  BY <1>1, AlikeWithSegments
<1>3. os = Among(occurrences, K) /\ K \in SUBSET DOMAIN occurrences
  BY DEF WithSegments
<1> HIDE DEF K, os
<1>4. \A k \in 1..Len(Among(occurrences, K)) :
        NthOf(K, k) \in K /\ Among(occurrences, K)[k] = occurrences[NthOf(K, k)]
  BY <1>1, <1>3, AlikeAmong
<1>5. \A k \in 1..Len(os) : \E j \in DOMAIN occurrences : os[k] = occurrences[j]
  BY <1>3, <1>4
<1>6. Len(os) \in Nat /\ DOMAIN os = 1..Len(os)
  BY <1>2, ListFacts DEF AlikeLists
<1>7. QED
  BY <1>2, <1>5, <1>6 DEF AlikeLists, os

\* The locations of a parameter are a sequence of the places of its segments.
LEMMA LocationsSequence ==
  ASSUME NEW p, IsParameter(p), NEW wps, NEW X, NEW S, Subframes \subseteq X,
         LET os == WithSegments(p.occurrences)
         IN  /\ Uniform(os) =>
                  \A k \in DOMAIN os : \A s \in DOMAIN os[k].segments :
                    \A n \in 1..Cardinality(os[k].segments[Len(os[k].segments)].subframes) :
                      NthOf(os[k].segments[s].subframes, n) \in X
             /\ \A k \in DOMAIN os : \A s \in DOMAIN os[k].segments :
                  \A x \in X : Location(os[k].segments[s], x, wps) \in S
  PROVE  Locations(p, wps) \in Seq(S)
<1> DEFINE os == WithSegments(p.occurrences)
           uniform == Uniform(os)
           within(sf) == [k \in DOMAIN os |-> SamplesAt(os[k], sf, uniform, wps)]
           each == [sf \in Subframes |-> FlattenSeq(within(sf))]
<1>1. Locations(p, wps) = FlattenSeq(each)
  BY Zenon DEF Locations
<1>2. /\ Len(os) \in Nat /\ DOMAIN os = 1..Len(os)
      /\ \A k \in DOMAIN os : IsOccurrence(os[k]) /\ os[k].segments # <<>>
  BY WithSegmentsAre DEF IsParameter
<1>3. uniform \in BOOLEAN
  BY DEF Uniform
<1> HIDE DEF os, uniform
<1>4. ASSUME NEW sf \in Subframes, NEW k \in DOMAIN os
      PROVE  SamplesAt(os[k], sf, uniform, wps) \in Seq(S)
  <2> DEFINE o == os[k]
  <2>1. IsOccurrence(o) /\ o.segments # <<>> /\ sf \in X
    BY <1>2
  <2>2. uniform => \A s \in DOMAIN o.segments :
                     \A n \in 1..Cardinality(o.segments[Len(o.segments)].subframes) :
                       NthOf(o.segments[s].subframes, n) \in X
    BY DEF os, uniform
  <2>3. \A s \in DOMAIN o.segments : \A x \in X : Location(o.segments[s], x, wps) \in S
    BY DEF os
  <2> HIDE DEF o
  <2>4. SamplesAt(o, sf, uniform, wps) \in Seq(S)
    BY <1>3, <2>1, <2>2, <2>3, SamplesSequence
  <2>5. QED
    BY <2>4 DEF o
<1>5. ASSUME NEW sf \in Subframes PROVE FlattenSeq(within(sf)) \in Seq(S)
  <2> DEFINE w == within(sf)
  <2>1. w = [k \in 1..Len(os) |-> w[k]] /\ \A k \in 1..Len(os) : w[k] \in Seq(S)
    BY <1>2, <1>4
  <2> HIDE DEF w
  <2>2. w \in Seq(Seq(S))
    BY <1>2, <2>1, MadeOf
  <2>3. FlattenSeq(w) \in Seq(S)
    BY <2>2, FlattenedList
  <2>4. QED
    BY <2>3 DEF w
<1> HIDE DEF within
<1>6. each \in Seq(Seq(S))
  <2>1. SubframeCount \in Nat /\ Subframes = 1..SubframeCount
    BY CodecAssumption DEF Subframes
  <2>2. each = [sf \in 1..SubframeCount |-> each[sf]] /\ \A sf \in 1..SubframeCount : each[sf] \in Seq(S)
    BY <1>5, <2>1
  <2> HIDE DEF each
  <2>3. QED
    BY <2>1, <2>2, MadeOf
<1> HIDE DEF each
<1>7. QED
  BY <1>1, <1>6, FlattenedList

\* So the locations of any parameter are a list.
LEMMA LocationsListed ==
  ASSUME NEW p, IsParameter(p), NEW wps
  PROVE  Listed(Locations(p, wps))
<1> DEFINE os == WithSegments(p.occurrences)
           some(k, s) == {NthOf(os[k].segments[s].subframes, n) : n \in Nat}
           X == Subframes \cup UNION {UNION {some(k, s) : s \in DOMAIN os[k].segments} : k \in DOMAIN os}
           places(k, s) == {Location(os[k].segments[s], x, wps) : x \in X}
           S == UNION {UNION {places(k, s) : s \in DOMAIN os[k].segments} : k \in DOMAIN os}
<1>1. Subframes \subseteq X
  OBVIOUS
<1>2. \A k \in DOMAIN os : \A s \in DOMAIN os[k].segments :
        \A n \in 1..Cardinality(os[k].segments[Len(os[k].segments)].subframes) :
          NthOf(os[k].segments[s].subframes, n) \in X
  <2> SUFFICES ASSUME NEW k \in DOMAIN os, NEW s \in DOMAIN os[k].segments,
                      NEW n \in 1..Cardinality(os[k].segments[Len(os[k].segments)].subframes)
               PROVE  NthOf(os[k].segments[s].subframes, n) \in X
    OBVIOUS
  <2>1. n \in Nat
    <3>1. /\ Listed(os) /\ DOMAIN os = 1..Len(os)
          /\ \A j \in DOMAIN os : IsOccurrence(os[j]) /\ os[j].segments # <<>>
      BY WithSegmentsAre DEF IsParameter
    <3> DEFINE o == os[k]
               m == Len(o.segments)
               g == o.segments[m]
    <3>2. IsOccurrence(o) /\ o.segments # <<>>
      BY <3>1
    <3> HIDE DEF o
    <3>3. m \in DOMAIN o.segments
      <4>1. m \in Nat /\ DOMAIN o.segments = 1..m /\ o.segments = [i \in 1..m |-> o.segments[i]]
        BY <3>2, ListFacts DEF IsOccurrence
      <4>2. m = 0 => o.segments = <<>>
        BY <4>1
      <4>3. QED
        BY <3>2, <4>1, <4>2
    <3>4. IsFiniteSet(g.subframes)
      BY <3>2, <3>3 DEF IsOccurrence, IsSegment
    <3>5. Cardinality(g.subframes) \in Nat
      BY <3>4, FS_CardinalityType
    <3>6. n \in 1..Cardinality(g.subframes)
      BY DEF o
    <3> HIDE DEF g
    <3>7. QED
      BY <3>5, <3>6
  <2>2. NthOf(os[k].segments[s].subframes, n) \in some(k, s)
    BY <2>1
  <2> HIDE DEF some, os
  <2>3. QED
    BY <2>2
<1> HIDE DEF X
<1>3. \A k \in DOMAIN os : \A s \in DOMAIN os[k].segments :
        \A x \in X : Location(os[k].segments[s], x, wps) \in S
  <2> HIDE DEF os
  <2>1. QED
    OBVIOUS
<1> HIDE DEF S
<1>4. Locations(p, wps) \in Seq(S)
  BY <1>1, <1>2, <1>3, LocationsSequence
<1>5. QED
  BY <1>4, SequenceListed

\* A parameter has a positive number of parts to a sample.
LEMMA PartsPositive ==
  ASSUME NEW p, IsParameter(p)
  PROVE  Parts(p) \in Nat \ {0}
<1> DEFINE os == WithSegments(p.occurrences)
<1>1. /\ Listed(os) /\ Len(os) \in Nat /\ DOMAIN os = 1..Len(os)
      /\ \A k \in DOMAIN os : IsOccurrence(os[k]) /\ os[k].segments # <<>>
  BY WithSegmentsAre DEF IsParameter
<1>2. Parts(p) = IF os = <<>> \/ ~Uniform(os) THEN 1 ELSE Len(os[1].segments)
  BY DEF Parts
<1> HIDE DEF os
<1>3. os # <<>> => 1 \in DOMAIN os
  <2>1. os = [k \in 1..Len(os) |-> os[k]]
    BY <1>1, ListFacts
  <2>2. Len(os) = 0 => os = <<>>
    BY <2>1
  <2>3. QED
    BY <1>1, <2>2
<1>4. ASSUME os # <<>> PROVE Len(os[1].segments) \in Nat \ {0}
  <2> DEFINE o == os[1]
  <2>1. IsOccurrence(o) /\ o.segments # <<>>
    BY <1>1, <1>3, <1>4
  <2> HIDE DEF o
  <2>2. Len(o.segments) \in Nat /\ o.segments = [i \in 1..Len(o.segments) |-> o.segments[i]]
    BY <2>1, ListFacts DEF IsOccurrence
  <2>3. Len(o.segments) = 0 => o.segments = <<>>
    BY <2>2
  <2>4. QED
    BY <2>1, <2>2, <2>3 DEF o
<1>5. QED
  BY <1>2, <1>4

\* The n-th of those at some places
LEMMA AmongFacts ==
  ASSUME NEW list, Listed(list), NEW K \in SUBSET DOMAIN list
  PROVE  /\ IsFiniteSet(K) /\ Cardinality(K) \in Nat /\ K \subseteq Int
         /\ Listed(Among(list, K)) /\ Len(Among(list, K)) = Cardinality(K)
         /\ DOMAIN Among(list, K) = 1..Cardinality(K)
         /\ \A n \in 1..Cardinality(K) : NthOf(K, n) \in K /\ Among(list, K)[n] = list[NthOf(K, n)]
<1> DEFINE n == Cardinality(K)
           t == Among(list, K)
<1>1. Len(list) \in Nat /\ DOMAIN list = 1..Len(list)
  BY ListFacts
<1>2. IsFiniteSet(K) /\ n \in Nat
  <2>1. IsFiniteSet(1..Len(list))
    BY <1>1, FS_Interval
  <2>2. IsFiniteSet(K)
    BY <1>1, <2>1, FS_Subset
  <2>3. QED
    BY <2>2, FS_CardinalityType
<1>3. K \subseteq Int
  BY <1>1
<1>4. \A k \in 1..n : NthOf(K, k) \in K
  BY <1>2, <1>3, NthOfIn
<1>5. t = [k \in 1..n |-> list[NthOf(K, k)]]
  BY DEF Among
<1> HIDE DEF t, n
<1>6. Listed(t) /\ Len(t) = n /\ DOMAIN t = 1..n
  <2>1. t = [k \in 1..n |-> t[k]]
    BY <1>5
  <2>2. QED
    BY <1>2, <2>1, MadeListed
<1>7. QED
  BY <1>2, <1>3, <1>4, <1>5, <1>6 DEF t, n

\* The type that a written type text says: AFDA's word for it, or what the
\* text of the parameter says
LEMMA TypeWritten ==
  ASSUME NEW type, NEW source, source \in AfdaTypes => Canonical(source) = type
  PROVE  LET said == Canonical(AfdaText(type, source))
         IN  /\ said = "bcd" <=> type = "bcd"
             /\ type \in {Canonical(t) : t \in AfdaTypes \cup {source}} => said = type
<1> DEFINE word == CHOOSE t \in AfdaTypes : Canonical(t) = type
           text == AfdaText(type, source)
<1>1. text = IF source \in AfdaTypes \/ \A t \in AfdaTypes : Canonical(t) # type THEN source ELSE word
  BY DEF AfdaText
<1>2. (\E t \in AfdaTypes : Canonical(t) = type) => word \in AfdaTypes /\ Canonical(word) = type
  OBVIOUS
<1>3. "BCD" \in AfdaTypes /\ Canonical("BCD") = "bcd"
  BY DEF AfdaTypes, Canonical
<1>4. Canonical(source) = "bcd" => source = "BCD"
  BY DEF Canonical
<1> HIDE DEF word, text
<1>5. CASE source \in AfdaTypes
  BY <1>1, <1>5 DEF text
<1>6. CASE source \notin AfdaTypes /\ \A t \in AfdaTypes : Canonical(t) # type
  <2>1. text = source /\ type # "bcd" /\ Canonical(source) # "bcd"
    BY <1>1, <1>3, <1>4, <1>6
  <2>2. type \in {Canonical(t) : t \in AfdaTypes \cup {source}} => Canonical(source) = type
    BY <1>6
  <2>3. QED
    BY <2>1, <2>2 DEF text
<1>7. CASE source \notin AfdaTypes /\ \E t \in AfdaTypes : Canonical(t) = type
  BY <1>1, <1>2, <1>7 DEF text
<1>8. QED
  BY <1>5, <1>6, <1>7

\* The occurrence whose weights are written, if any is, has one for each part.
LEMMA WeightsWritten ==
  ASSUME NEW p, IsParameter(p)
  PROVE  /\ Listed(Weights(p))
         /\ \A i \in DOMAIN Weights(p) : Weights(p)[i] # NoWeight
<1> DEFINE all == WithSegments(p.occurrences)
           K == {k \in DOMAIN all : \A s \in DOMAIN all[k].segments : all[k].segments[s].weight # NoWeight}
           os == Weighted(all)
           parts == Reverse(os[1].segments)
           written == [i \in DOMAIN parts |-> parts[i].weight]
<1>1. Weights(p) = IF os = <<>> \/ ~Uniform(all) THEN <<>> ELSE written
  BY Zenon DEF Weights
<1>2. Listed(all) /\ \A k \in DOMAIN all : IsOccurrence(all[k])
  BY WithSegmentsAre DEF IsParameter
<1>3. os = Among(all, K) /\ K \in SUBSET DOMAIN all
  BY DEF Weighted
<1>4. \A k \in K : \A s \in DOMAIN all[k].segments : all[k].segments[s].weight # NoWeight
  OBVIOUS
<1> HIDE DEF all, K, os
<1>5. /\ Listed(os)
      /\ \A k \in DOMAIN os : /\ IsOccurrence(os[k])
                              /\ \A s \in DOMAIN os[k].segments : os[k].segments[s].weight # NoWeight
  <2>1. /\ Listed(os) /\ DOMAIN os = 1..Cardinality(K)
        /\ \A n \in 1..Cardinality(K) : NthOf(K, n) \in K /\ os[n] = all[NthOf(K, n)]
    BY <1>2, <1>3, AmongFacts
  <2>2. QED
    BY <1>2, <1>3, <1>4, <2>1
<1>6. ASSUME os # <<>>
      PROVE  Listed(written) /\ \A i \in DOMAIN written : written[i] # NoWeight
  <2> DEFINE o == os[1]
             n == Len(o.segments)
  <2>1. 1 \in DOMAIN os
    BY <1>5, <1>6, ListFacts, EmptyList, ListsEqual
  <2>2. IsOccurrence(o) /\ \A s \in DOMAIN o.segments : o.segments[s].weight # NoWeight
    BY <1>5, <2>1
  <2>3. parts = Reverse(o.segments)
    OBVIOUS
  <2> HIDE DEF o
  <2>4. /\ DOMAIN parts = 1..n
        /\ \A i \in 1..n : n - i + 1 \in 1..n /\ parts[i] = o.segments[n - i + 1]
    BY <2>2, <2>3, ReversedParts
  <2>5. n \in Nat /\ DOMAIN o.segments = 1..n
    BY <2>2, ListFacts DEF IsOccurrence
  <2> HIDE DEF parts, n
  <2>6. written = [i \in 1..n |-> written[i]] /\ \A i \in 1..n : written[i] = parts[i].weight
    BY <2>4
  <2> HIDE DEF written
  <2>7. Listed(written) /\ DOMAIN written = 1..n
    BY <2>5, <2>6, MadeListed
  <2>8. ASSUME NEW i \in 1..n  PROVE written[i] # NoWeight
    <3>1. n - i + 1 \in DOMAIN o.segments
      BY <2>4, <2>5
    <3>2. o.segments[n - i + 1].weight # NoWeight
      BY <2>2, <3>1, Zenon
    <3>3. written[i] = o.segments[n - i + 1].weight
      BY <2>4, <2>6
    <3>4. QED
      BY <3>2, <3>3
  <2>9. QED
    BY <2>7, <2>8, Zenon
<1> HIDE DEF written
<1>7. QED
  BY <1>1, <1>6, EmptyList

\* The states written are a list.
LEMMA StatesListed ==
  ASSUME NEW states, Listed(states.table)
  PROVE  Listed(EffectiveStates(states))
<1>1. \A value, label : Listed(Implied(value, label))
  <2> SUFFICES ASSUME NEW value, NEW label PROVE Listed(Implied(value, label))
    OBVIOUS
  <2> DEFINE x == State(value, label)
             t == <<x>>
  <2>1. t = [k \in 1..1 |-> t[k]]
    <3> HIDE DEF x
    <3>1. QED
      OBVIOUS
  <2>3. Listed(t)
    <3> HIDE DEF t, x
    <3>1. QED
      BY <2>1, MadeListed
  <2>2. QED
    BY <2>3, EmptyList DEF Implied
<1>2. Listed(Implied(0, states.zero) \o Implied(1, states.one))
  BY <1>1, JoinedLists
<1>3. QED
  BY <1>2 DEF EffectiveStates

\* What is written of a parameter is a record,
LEMMA RecordIs ==
  ASSUME NEW p, IsParameter(p), NEW wps
  PROVE  IsRecord(Record(p, wps))
<1>1. IsRecord(Generated(p, wps))
  <2> DEFINE r == Generated(p, wps)
             weights == Weights(p)
             slots == [i \in DOMAIN weights |-> State(weights[i], NoLabel)]
  <2>1. r.parts = Parts(p) /\ r.locations = Locations(p, wps) /\ r.source = AfdaText(p.type, p.source)
    BY DEF Generated
  <2>2. /\ p.type = "discrete" => r.slots = EffectiveStates(p.states)
        /\ p.type = "bcd" => r.slots = slots
        /\ p.type \notin {"discrete", "bcd"} => r.slots = <<>>
    BY DEF Generated
  <2>3. Listed(weights) /\ \A i \in DOMAIN weights : weights[i] # NoWeight
    BY WeightsWritten
  <2> HIDE DEF weights
  <2>4. Len(weights) \in Nat /\ DOMAIN weights = 1..Len(weights)
    BY <2>3, ListFacts
  <2>5. Listed(slots) /\ DOMAIN slots = DOMAIN weights
    <3>1. slots = [i \in 1..Len(weights) |-> slots[i]]
      BY <2>4
    <3>2. DOMAIN slots = DOMAIN weights
      OBVIOUS
    <3> HIDE DEF slots
    <3>3. QED
      BY <2>4, <3>1, <3>2, MadeListed
  <2>6. \A i \in DOMAIN slots : slots[i].value # NoWeight
    BY <2>3 DEF State
  <2>7. Canonical(r.source) = "bcd" => p.type = "bcd"
    BY <2>1, TypeWritten DEF IsParameter, Coherent
  <2>8. Listed(EffectiveStates(p.states))
    BY StatesListed DEF IsParameter, Coherent
  <2> HIDE DEF r, slots
  <2>9. IsRecord(r)
    BY <2>1, <2>2, <2>5, <2>6, <2>7, <2>8, EmptyList, LocationsListed, PartsPositive DEF IsRecord
  <2>10. QED
    BY <2>9 DEF r
<1>2. p.record # <<>> => IsRecord(p.record[1])
  BY DEF IsParameter
<1>3. QED
  BY <1>1, <1>2 DEF Record

\* and of a dataframe, a file.
LEMMA FileWritten ==
  ASSUME NEW d, IsDataframe(d)
  PROVE  IsFile(AdbText(d))
<1> DEFINE n == Len(d.parameters)
           rs == [i \in DOMAIN d.parameters |-> Record(d.parameters[i], d.wps)]
           f == AdbText(d)
<1>1. n \in Nat /\ DOMAIN d.parameters = 1..n
  BY ListFacts DEF IsDataframe
<1>2. f = [wps |-> d.wps, records |-> rs]
  BY DEF AdbText
<1>3. rs = [i \in 1..n |-> rs[i]] /\ \A i \in 1..n : IsRecord(rs[i])
  BY <1>1, RecordIs DEF IsDataframe
<1> HIDE DEF rs, f, n
<1>4. Listed(rs) /\ DOMAIN rs = 1..n
  BY <1>1, <1>3, MadeListed
<1>5. f.wps = d.wps /\ f.records = rs /\ f = [wps |-> f.wps, records |-> f.records] /\ f.wps \in Int
  BY <1>2 DEF IsDataframe
<1>6. IsFile(f)
  BY <1>3, <1>4, <1>5 DEF IsFile
<1>7. QED
  BY <1>6 DEF f

\* What an export leaves, whole or short, is a file.
LEMMA ShortFile ==
  ASSUME NEW f, IsFile(f), NEW n \in Nat, n <= Len(f.records)
  PROVE  IsFile([f EXCEPT !.records = SubSeq(@, 1, n)])
<1> DEFINE rs == SubSeq(f.records, 1, n)
           with(x) == [x EXCEPT !.records = rs]
           g == with(f)
<1>1. \A a, b : with([wps |-> a, records |-> b]) = [wps |-> a, records |-> rs]
  <2> HIDE DEF rs
  <2>1. QED
    OBVIOUS
<1>2. /\ Listed(rs) /\ \A k \in DOMAIN rs : \E i \in DOMAIN f.records : rs[k] = f.records[i]
  <2> DEFINE r == f.records
  <2>1. Listed(r) /\ 1 \in Nat \ {0} /\ n \in Int /\ n <= Len(r)
    BY DEF IsFile
  <2> HIDE DEF r
  <2>2. LET t == SubSeq(r, 1, n) IN Listed(t) /\ \A k \in DOMAIN t : \E i \in DOMAIN r : t[k] = r[i]
    BY <2>1, SliceListed
  <2>3. QED
    BY <2>2 DEF r
<1>3. [f EXCEPT !.records = SubSeq(@, 1, n)] = g
  BY Zenon
<1> HIDE DEF with, rs
<1>4. g = [wps |-> f.wps, records |-> rs] /\ f.wps \in Int
  BY <1>1 DEF IsFile
<1> HIDE DEF g
<1>5. g.wps = f.wps /\ g.records = rs /\ g = [wps |-> g.wps, records |-> g.records]
  BY <1>4
<1>6. \A k \in DOMAIN rs : IsRecord(rs[k])
  BY <1>2 DEF IsFile
<1>7. IsFile(g)
  BY <1>2, <1>4, <1>5, <1>6 DEF IsFile
<1>8. QED
  BY <1>3, <1>7

\* Division of what is made of a quotient and a remainder
LEMMA Quotient ==
  ASSUME NEW n \in Nat \ {0}, NEW a \in Nat, NEW r \in 0..(n - 1), NEW x, x = a * n + r
  PROVE  x \in Nat /\ x \div n = a /\ x % n = r
<1> DEFINE b == a * n
           q == x \div n
<1>1. b \in Nat /\ r \in Nat /\ r < n /\ x = b + r
  OBVIOUS
<1>2. x \in Nat
  <2> HIDE DEF b
  <2>1. QED
    BY <1>1
<1>3. q \in Nat /\ q * n <= x /\ x < q * n + n /\ x % n = x - q * n
  <2>1. q \in Nat /\ q * n <= x /\ x < q * n + n
    BY <1>2
  <2>2. x % n = x - n * q
    BY <1>2
  <2>3. n * q = q * n
    BY <2>1
  <2>4. QED
    BY <2>1, <2>2, <2>3
<1>4. \A i, j \in Nat : i < j => i * n + n <= j * n
  <2> SUFFICES ASSUME NEW i \in Nat, NEW j \in Nat, i < j PROVE i * n + n <= j * n
    OBVIOUS
  <2> DEFINE m == j - i - 1
  <2>1. m \in Nat /\ j = i + 1 + m
    OBVIOUS
  <2> HIDE DEF m
  <2>2. m * n \in Nat /\ i * n \in Nat
    BY <2>1
  <2>3. j * n = i * n + n + m * n
    BY <2>1
  <2>4. QED
    BY <2>2, <2>3
<1> HIDE DEF q
<1>5. ~(q < a)
  <2>1. q < a => q * n + n <= b
    BY <1>3, <1>4
  <2> HIDE DEF b
  <2>2. QED
    BY <1>1, <1>3, <2>1
<1>6. ~(a < q)
  <2>1. a < q => b + n <= q * n
    BY <1>3, <1>4
  <2> HIDE DEF b
  <2>2. QED
    BY <1>1, <1>3, <2>1
<1>7. q = a
  BY <1>3, <1>5, <1>6
<1>8. x % n = r
  <2>1. x % n = x - b
    BY <1>3, <1>7
  <2> HIDE DEF b
  <2>2. QED
    BY <1>1, <2>1
<1>9. QED
  BY <1>2, <1>7, <1>8 DEF q

\* A word counted through the frame is in its subframe, at its place.
LEMMA SubframeOfWord ==
  ASSUME NEW wps \in Nat \ {0}, NEW sf \in Nat \ {0}, NEW w \in 1..wps
  PROVE  /\ AbsoluteWord(sf, w, wps) \in Int /\ AbsoluteWord(sf, w, wps) >= 1
         /\ SplitSubframe(AbsoluteWord(sf, w, wps), wps) = sf
         /\ SplitWord(AbsoluteWord(sf, w, wps), wps) = w
<1> DEFINE b == (sf - 1) * wps
           x == b + w
<1>1. sf - 1 \in Nat /\ w - 1 \in 0..(wps - 1) /\ w >= 1
  OBVIOUS
<1>2. b \in Nat
  BY <1>1
<1>3. x \in Int /\ x >= 1 /\ x - 1 = b + (w - 1)
  <2> HIDE DEF b
  <2>1. QED
    BY <1>1, <1>2
<1> HIDE DEF x
<1>4. (x - 1) \div wps = sf - 1 /\ (x - 1) % wps = w - 1
  <2> DEFINE a == sf - 1
             r == w - 1
             y == x - 1
  <2>1. a \in Nat /\ r \in 0..(wps - 1) /\ y = a * wps + r
    BY <1>1, <1>3
  <2> HIDE DEF a, r, y
  <2>2. y \div wps = a /\ y % wps = r
    BY <2>1, Quotient
  <2>3. QED
    BY <2>2 DEF a, r, y
<1>5. AbsoluteWord(sf, w, wps) = x
  BY DEF AbsoluteWord, x
<1>6. SplitSubframe(x, wps) = (sf - 1) + 1 /\ SplitWord(x, wps) = (w - 1) + 1
  BY <1>4 DEF SplitSubframe, SplitWord
<1>7. QED
  BY <1>3, <1>5, <1>6

\* Segments in one number of subframes are in as many as any of them.
LEMMA SpreadEven ==
  ASSUME NEW o, IsOccurrence(o), Cardinality(Spread(o)) = 1,
         NEW s \in DOMAIN o.segments, NEW t \in DOMAIN o.segments
  PROVE  Cardinality(o.segments[s].subframes) = Cardinality(o.segments[t].subframes)
<1> DEFINE n == Len(o.segments)
           f == [i \in 1..n |-> Cardinality(o.segments[i].subframes)]
           image == {f[i] : i \in 1..n}
<1>1. n \in Nat /\ DOMAIN o.segments = 1..n
  BY ListFacts DEF IsOccurrence
<1>2. Spread(o) = image
  BY <1>1 DEF Spread
<1>3. IsFiniteSet(image)
  <2> HIDE DEF f, n
  <2>1. QED
    BY <1>1, ImageFinite
<1> HIDE DEF image
<1>4. \E x : Spread(o) = {x}
  BY <1>2, <1>3, FS_Singleton
<1>5. Cardinality(o.segments[s].subframes) \in Spread(o) /\ Cardinality(o.segments[t].subframes) \in Spread(o)
  BY DEF Spread
<1>6. QED
  BY <1>4, <1>5

\* A parameter without structural errors
Sound(p, wps) ==
  \A k \in DOMAIN p.occurrences : \A s \in DOMAIN p.occurrences[k].segments :
    LET g == p.occurrences[k].segments[s]
    IN  g.word \in 1..wps /\ g.subframes \subseteq Subframes

\* Such a parameter is written at locations that can be read.
LEMMA LocationsReadable ==
  ASSUME NEW wps \in Nat \ {0}, NEW p, IsParameter(p), Sound(p, wps)
  PROVE  \A i \in DOMAIN Locations(p, wps) : ~Unreadable(Locations(p, wps)[i], wps)
<1> DEFINE os == WithSegments(p.occurrences)
           places(k, s) == {Location(os[k].segments[s], x, wps) : x \in Subframes}
           S == UNION {UNION {places(k, s) : s \in DOMAIN os[k].segments} : k \in DOMAIN os}
<1>1. /\ DOMAIN os = 1..Len(os) /\ Len(os) \in Nat
      /\ \A k \in DOMAIN os :
           /\ IsOccurrence(os[k]) /\ os[k].segments # <<>>
           /\ \E j \in DOMAIN p.occurrences : os[k] = p.occurrences[j]
  BY WithSegmentsAre DEF IsParameter
<1> HIDE DEF os
<1>2. \A k \in DOMAIN os : \A s \in DOMAIN os[k].segments :
        os[k].segments[s].word \in 1..wps /\ os[k].segments[s].subframes \subseteq Subframes
  BY <1>1 DEF Sound
<1>3. Uniform(os) =>
        \A k \in DOMAIN os : \A s \in DOMAIN os[k].segments :
          \A n \in 1..Cardinality(os[k].segments[Len(os[k].segments)].subframes) :
            NthOf(os[k].segments[s].subframes, n) \in Subframes
  <2> SUFFICES ASSUME Uniform(os), NEW k \in DOMAIN os, NEW s \in DOMAIN os[k].segments,
                      NEW n \in 1..Cardinality(os[k].segments[Len(os[k].segments)].subframes)
               PROVE  NthOf(os[k].segments[s].subframes, n) \in Subframes
    OBVIOUS
  <2> DEFINE o == os[k]
             m == Len(o.segments)
             T == o.segments[s].subframes
  <2>1. IsOccurrence(o) /\ Cardinality(Spread(o)) = 1
    BY <1>1 DEF Uniform
  <2>2. m \in DOMAIN o.segments
    <3>1. s \in DOMAIN o.segments
      OBVIOUS
    <3> HIDE DEF o
    <3>2. m \in Nat /\ DOMAIN o.segments = 1..m
      BY <2>1, ListFacts DEF IsOccurrence
    <3>3. QED
      BY <3>1, <3>2
  <2>3. Cardinality(o.segments[m].subframes) = Cardinality(T)
    BY <2>1, <2>2, SpreadEven
  <2>4. T \in SUBSET Subframes
    BY <1>2
  <2>5. n \in 1..Cardinality(T)
    BY <2>3
  <2> HIDE DEF T
  <2>6. IsFiniteSet(T) /\ T \subseteq Int
    <3>1. IsFiniteSet(T)
      BY <2>4, SubframesFinite, FS_Subset
    <3>2. Subframes \subseteq Int
      BY DEF Subframes
    <3>3. QED
      BY <2>4, <3>1, <3>2
  <2>7. NthOf(T, n) \in T
    BY <2>5, <2>6, NthOfIn
  <2>8. QED
    BY <2>4, <2>7 DEF T
<1>4. \A k \in DOMAIN os : \A s \in DOMAIN os[k].segments :
        \A x \in Subframes : Location(os[k].segments[s], x, wps) \in S
  OBVIOUS
<1>5. ASSUME NEW l \in S PROVE ~Unreadable(l, wps)
  <2>1. PICK k \in DOMAIN os : l \in UNION {places(k, s) : s \in DOMAIN os[k].segments}
    BY Zenon
  <2>2. PICK s \in DOMAIN os[k].segments : l \in places(k, s)
    BY <2>1, Zenon
  <2>3. PICK x \in Subframes : l = Location(os[k].segments[s], x, wps)
    BY <2>2
  <2> DEFINE g == os[k].segments[s]
             w == AbsoluteWord(x, g.word, wps)
  <2>4. g.word \in 1..wps
    BY <1>2
  <2> HIDE DEF g
  <2>5. x \in Nat \ {0}
    BY DEF Subframes
  <2>6. w \in Int /\ w >= 1 /\ SplitSubframe(w, wps) = x
    BY <2>4, <2>5, SubframeOfWord
  <2>7. l.word = w /\ l.selector = Subframes
    BY <2>3 DEF Location, g
  <2> HIDE DEF w
  <2>8. FrameAbsolute(l, wps)
    BY <2>7 DEF FrameAbsolute
  <2>9. QED
    BY <2>6, <2>7, <2>8 DEF Unreadable
<1> HIDE DEF S
<1>6. Locations(p, wps) \in Seq(S)
  <2>1. Subframes \subseteq Subframes
    OBVIOUS
  <2>2. QED
    BY <1>3, <1>4, <2>1, LocationsSequence DEF os
<1>7. \A i \in DOMAIN Locations(p, wps) : Locations(p, wps)[i] \in S
  BY <1>6, SequenceListed
<1>8. QED
  BY <1>5, <1>7

\* Without errors every parameter is sound.
LEMMA CleanSound ==
  ASSUME NEW d, Errors(Validate(d)) = {}, NEW i \in DOMAIN d.parameters
  PROVE  Sound(d.parameters[i], d.wps)
<1> DEFINE p == d.parameters[i]
           os == p.occurrences
           badWord == \E k \in DOMAIN os : \E s \in DOMAIN os[k].segments : BadWord(os[k].segments[s], d.wps)
           badSubframe == \E k \in DOMAIN os : \E s \in DOMAIN os[k].segments :
                            \/ os[k].segments[s].subframes = {}
                            \/ ~(os[k].segments[s].subframes \subseteq Subframes)
           words == When(badWord, "error", "structural.word_range", p.id)
           subframes == When(badSubframe, "error", "structural.subframe", p.id)
<1>1. words \subseteq Structural(p, d.wps) /\ subframes \subseteq Structural(p, d.wps)
  BY DEF Structural
<1>2. Structural(p, d.wps) \subseteq Validate(d)
  BY DEF Validate
<1>3. badWord => Issue("error", "structural.word_range", p.id, NoId) \in words
  BY DEF When
<1>4. badSubframe => Issue("error", "structural.subframe", p.id, NoId) \in subframes
  BY DEF When
<1> HIDE DEF words, subframes, badWord, badSubframe
<1>5. \A x \in Validate(d) : x.severity # "error"
  BY DEF Errors
<1>6. \A rule : Issue("error", rule, p.id, NoId).severity = "error"
  BY DEF Issue
<1>7. ~badWord /\ ~badSubframe
  BY <1>1, <1>2, <1>3, <1>4, <1>5, <1>6
<1>8. QED
  BY <1>7 DEF badWord, badSubframe, Sound, BadWord

\* A parameter as it was read still says what its record says, whatever
\* number it was read under, so it is written as that record.
LEMMA ReadWrittenBack ==
  ASSUME NEW r, NEW k, NEW wps, RecordReadable(r, wps)
  PROVE  Record(ParseRecord(r, k, wps), wps) = r
<1> DEFINE p == ParseRecord(r, k, wps)
           q == ParseRecord(r, 0, wps)
<1>1. /\ p.record = <<r>> /\ p.name = q.name /\ p.source = q.source /\ p.type = q.type
      /\ p.scale = q.scale /\ p.states = q.states /\ p.occurrences = q.occurrences
  BY DEF ParseRecord
<1> HIDE DEF p, q
<1>2. SameParameter(p, q)
  BY <1>1 DEF SameParameter
<1>3. p.record # <<>> /\ p.record[1] = r
  BY <1>1
<1>4. StillMatches(p, p.record[1], wps)
  BY <1>2, <1>3 DEF StillMatches, q
<1>5. QED
  BY <1>3, <1>4 DEF Record, p

\* Of two records that were read as one parameter, each is the other.
LEMMA ReadOnce ==
  ASSUME NEW r, NEW i, NEW s, NEW k, NEW wps, ParseRecord(r, i, wps) = ParseRecord(s, k, wps)
  PROVE  r = s
<1> DEFINE p == ParseRecord(r, i, wps)
           q == ParseRecord(s, k, wps)
<1>1. p.record = <<r>> /\ q.record = <<s>>
  BY DEF ParseRecord
<1> HIDE DEF p, q
<1>2. p = q
  BY DEF p, q
<1>3. <<r>>[1] = <<s>>[1]
  BY <1>1, <1>2
<1>4. QED
  BY <1>3

-----------------------------------------------------------------------------
(* The rows of the database *)

\* What the rows of the database hold
Rows(c, p, g) ==
  /\ Listed(c) /\ Listed(p) /\ Listed(g) /\ Len(g) = Len(c) + Len(p)
  /\ \A k \in 1..Len(g) :
       g[k].whole => /\ IsDataframe(g[k].document)
                     /\ (c \o p)[k] = StoredDocument(g[k].document)

\* A save adds a row of what it was given.
LEMMA SavedRows ==
  ASSUME Rows(committed, pending, given), NEW d, IsDataframe(d), SaveDataframe(d)
  PROVE  Rows(committed, pending, given)'
<1> DEFINE row == StoredDocument(d)
           g == [document |-> d, whole |-> TRUE]
           n == Len(given)
<1>1. committed' = Append(Documents, row) /\ pending' = <<>> /\ given' = Append(given, g)
  BY DEF SaveDataframe
<1>2. g.document = d
  OBVIOUS
<1>3. Listed(Documents) /\ Len(Documents) = n /\ n \in Nat
  BY JoinedLists, ListFacts DEF Rows, Documents
<1> HIDE DEF row, g, n
<1>4. /\ Listed(committed') /\ Len(committed') = n + 1
      /\ \A k \in 1..n : committed'[k] = Documents[k]
      /\ committed'[n + 1] = row
  BY <1>1, <1>3, LengthenedList
<1>5. /\ Listed(given') /\ Len(given') = n + 1
      /\ \A k \in 1..n : given'[k] = given[k]
      /\ given'[n + 1] = g
  BY <1>1, LengthenedList DEF Rows, n
<1>6. /\ Listed(pending') /\ Len(pending') = 0
      /\ \A k \in 1..(n + 1) : (committed' \o pending')[k] = committed'[k]
  <2>1. \A k \in 1..Len(committed') : (committed' \o <<>>)[k] = committed'[k]
    BY <1>4, EmptyList, JoinedLists
  <2>2. QED
    BY <1>1, <1>4, <2>1, EmptyList
<1>7. ASSUME NEW k \in 1..(n + 1), given'[k].whole
      PROVE  IsDataframe(given'[k].document) /\ (committed' \o pending')[k] = StoredDocument(given'[k].document)
  <2>1. CASE k = n + 1
    BY <1>2, <1>4, <1>5, <1>6, <2>1 DEF row
  <2>2. CASE k # n + 1
    <3>1. k \in 1..n
      BY <1>3, <2>2
    <3>2. given'[k] = given[k] /\ (committed' \o pending')[k] = Documents[k]
      BY <1>4, <1>5, <1>6, <3>1
    <3>3. IsDataframe(given[k].document) /\ Documents[k] = StoredDocument(given[k].document)
      BY <1>7, <3>1, <3>2 DEF Rows, n, Documents
    <3>4. QED
      BY <3>2, <3>3
  <2>3. QED
    BY <2>1, <2>2
<1>8. QED
  BY <1>3, <1>4, <1>5, <1>6, <1>7 DEF Rows

\* A save that fails adds one that is not whole.
LEMMA FailedRows ==
  ASSUME Rows(committed, pending, given), NEW d, NEW n0, SaveFails(d, n0)
  PROVE  Rows(committed, pending, given)'
<1> DEFINE row == StoredDocument([d EXCEPT !.parameters = SubSeq(@, 1, n0)])
           g == [document |-> d, whole |-> FALSE]
           n == Len(given)
           m == Len(committed)
<1>1. committed' = committed /\ pending' = Append(pending, row) /\ given' = Append(given, g)
  BY DEF SaveFails
<1>2. ~g.whole
  OBVIOUS
<1>3. n \in Nat /\ m \in Nat /\ Len(pending) \in Nat /\ n = m + Len(pending)
  BY ListFacts DEF Rows
<1> HIDE DEF row, g, n, m
<1>4. /\ Listed(pending') /\ Len(pending') = Len(pending) + 1
      /\ \A k \in 1..Len(pending) : pending'[k] = pending[k]
  BY <1>1, LengthenedList DEF Rows
<1>5. /\ Listed(given') /\ Len(given') = n + 1
      /\ \A k \in 1..n : given'[k] = given[k]
      /\ given'[n + 1] = g
  BY <1>1, LengthenedList DEF Rows, n
<1>6. ASSUME NEW k \in 1..n PROVE (committed' \o pending')[k] = (committed \o pending)[k]
  <2>1. CASE k \in 1..m
    BY <1>1, <1>4, <2>1, JoinedLists DEF Rows, m
  <2>2. CASE k \notin 1..m
    <3> DEFINE i == k - m
    <3>1. i \in 1..Len(pending) /\ k = m + i
      BY <1>3, <2>2
    <3> HIDE DEF i
    <3>2. (committed \o pending)[m + i] = pending[i]
      BY <3>1, JoinedLists DEF Rows, m
    <3>3. i \in 1..Len(pending')
      BY <1>3, <1>4, <3>1
    <3>4. (committed \o pending')[m + i] = pending'[i]
      BY <1>4, <3>3, JoinedLists DEF Rows, m
    <3>5. QED
      BY <1>1, <1>4, <3>1, <3>2, <3>4
  <2>3. QED
    BY <2>1, <2>2
<1>7. ASSUME NEW k \in 1..(n + 1), given'[k].whole
      PROVE  IsDataframe(given'[k].document) /\ (committed' \o pending')[k] = StoredDocument(given'[k].document)
  <2>1. k # n + 1
    BY <1>2, <1>5, <1>7
  <2>2. k \in 1..n
    BY <1>3, <2>1
  <2>3. given'[k] = given[k]
    BY <1>5, <2>2
  <2>4. QED
    BY <1>6, <1>7, <2>2, <2>3 DEF Rows, n
<1>8. QED
  BY <1>1, <1>3, <1>4, <1>5, <1>7 DEF Rows, m

\* A commit keeps the rows, and a rollback those committed.
LEMMA CommittedRows ==
  ASSUME Rows(committed, pending, given), SaveIssues \/ Reopen
  PROVE  Rows(committed, pending, given)'
<1>1. /\ Listed(Documents) /\ Len(Documents) = Len(given)
      /\ \A k \in 1..Len(committed) : Documents[k] = committed[k]
  BY JoinedLists DEF Rows, Documents
<1>2. Len(committed) \in Nat /\ Len(pending) \in Nat /\ Len(given) \in Nat
  BY ListFacts DEF Rows
<1>3. CASE SaveIssues
  <2>1. committed' = Documents /\ pending' = <<>> /\ given' = given
    BY <1>3 DEF SaveIssues
  <2>2. \A k \in 1..Len(Documents) : (Documents \o <<>>)[k] = Documents[k]
    BY <1>1, EmptyList, JoinedLists
  <2>3. QED
    BY <1>1, <1>2, <2>1, <2>2, EmptyList DEF Rows, Documents
<1>4. CASE Reopen
  <2> DEFINE n == Len(committed)
             h == SubSeq(given, 1, n)
  <2>1. committed' = committed /\ pending' = <<>> /\ given' = h
    BY <1>4 DEF Reopen
  <2>2. n \in Nat /\ n <= Len(given)
    BY <1>2 DEF Rows
  <2> HIDE DEF n
  <2>3. Listed(h) /\ Len(h) = n /\ \A k \in 1..n : h[k] = given[k]
    <3> DEFINE S == {given[k] : k \in DOMAIN given}
    <3>1. given \in Seq(S)
      BY DEF Rows, Listed
    <3> HIDE DEF S
    <3>2. h \in Seq(S) /\ Len(h) = n /\ \A k \in 1..n : h[k] = given[k]
      BY <2>2, <3>1
    <3> HIDE DEF h
    <3>3. QED
      BY <3>2, SequenceListed
  <2> HIDE DEF h
  <2>4. \A k \in 1..n : (committed \o <<>>)[k] = committed[k]
    BY EmptyList, JoinedLists DEF Rows, n
  <2>5. ASSUME NEW k \in 1..n, given'[k].whole
        PROVE  IsDataframe(given'[k].document) /\ (committed' \o pending')[k] = StoredDocument(given'[k].document)
    <3>1. given'[k] = given[k] /\ k \in 1..Len(given)
      BY <1>2, <2>1, <2>2, <2>3
    <3>2. (committed' \o pending')[k] = (committed \o pending)[k]
      BY <1>1, <2>1, <2>4 DEF Documents, n
    <3>3. QED
      BY <2>5, <3>1, <3>2 DEF Rows
  <2>6. QED
    BY <2>1, <2>2, <2>3, <2>5, EmptyList DEF Rows, n
<1>5. QED
  BY <1>3, <1>4

-----------------------------------------------------------------------------
(* The file of an unmodified dataframe *)

\* The file an unmodified dataframe came from or went to holds what is
\* written of it, or is the file it was opened from, untouched since.
InItsFile ==
  ~store.dirty /\ home \in Paths \ spoiled =>
    \/ files[home] = AdbText(d0)
    \/ files[home] = opened /\ d0 = ParseFile(opened)

\* The inductive invariant: with it, what was opened could be read.
IInv ==
  /\ DOMAIN files = Paths
  /\ opened = NoFile \/ FileReadable(opened)
  /\ InItsFile

\* Every file is as it was read in the beginning.
LEMMA InitFiles == Init => IInv
<1> SUFFICES ASSUME Init PROVE IInv
  OBVIOUS
<1>1. DOMAIN files = Paths /\ opened = NoFile /\ home \notin Paths
  BY FilesAssumption DEF Init
<1>2. QED
  BY <1>1 DEF IInv, InItsFile

\* Every operation keeps what the records and the files say of their origin.
LEMMA NextFiles == IInv /\ [Next]_vars => IInv'
<1> SUFFICES ASSUME IInv, [Next]_vars PROVE IInv'
  OBVIOUS
<1>1. ASSUME UNCHANGED editing PROVE IInv'
  BY <1>1 DEF IInv, InItsFile, editing, d0
<1>2. ASSUME NEW path \in Paths, OpenAdb(path) PROVE IInv'
  <2> DEFINE d == ParseFile(files[path])
  <2>1. /\ FileReadable(files[path]) /\ store' = Store(d, FALSE) /\ opened' = files[path]
        /\ home' = path /\ files' = files
    BY <1>2 DEF OpenAdb
  <2>2. store'.dataframe = d
    BY <2>1 DEF Store
  <2>3. files'[home'] = opened' /\ d0' = ParseFile(opened')
    BY <2>1, <2>2 DEF d0
  <2>4. QED
    BY <2>1, <2>3 DEF IInv, InItsFile
<1>3. ASSUME NEW d, NEW dirty, Replace(d, dirty) PROVE IInv'
  BY <1>3, FilesAssumption DEF Replace, IInv, InItsFile
<1>4. ASSUME NEW d, Commit(d) PROVE IInv'
  <2>1. store'.dirty = TRUE
    BY <1>4 DEF Commit, Store
  <2>2. UNCHANGED <<files, opened>>
    BY <1>4 DEF Commit
  <2>3. QED
    BY <2>1, <2>2 DEF IInv, InItsFile
<1>5. ASSUME NEW path \in Paths, ExportAdb(path) PROVE IInv'
  <2>1. /\ files' = [files EXCEPT ![path] = AdbText(d0)] /\ home' = path /\ opened' = opened
        /\ store' = [store EXCEPT !.dirty = FALSE]
    BY <1>5 DEF ExportAdb
  <2>2. d0' = d0
    BY <2>1 DEF d0
  <2>3. files'[home'] = AdbText(d0')
    BY <2>1, <2>2 DEF IInv
  <2>4. QED
    BY <2>1, <2>3 DEF IInv, InItsFile
<1>6. ASSUME NEW path \in Paths, ExportFails(path) PROVE IInv'
  <2>1. PICK content : files' = [files EXCEPT ![path] = content]
    BY <1>6 DEF ExportFails
  <2>2. spoiled' = spoiled \cup {path} /\ UNCHANGED <<store, home, opened>>
    BY <1>6 DEF ExportFails
  <2>3. home' \in Paths \ spoiled' => files'[home'] = files[home]
    BY <2>1, <2>2 DEF IInv
  <2>4. QED
    BY <2>1, <2>2, <2>3 DEF IInv, InItsFile, d0
<1>7. CASE Edit
  BY <1>4, <1>7 DEF Edit, UpdateMetadata, AddParameter, UpdateParameter, RemoveParameter,
                    DuplicateParameter, MoveParameter
<1>8. ASSUME NEW wps, NewDataframe(wps) PROVE IInv'
  BY <1>3, <1>8 DEF NewDataframe
<1>9. ASSUME NEW d, NEW dirty, TakeImported(d, dirty) PROVE IInv'
  BY <1>3, <1>9 DEF TakeImported
<1>10. ASSUME UNCHANGED <<store, files, home, opened, spoiled>> PROVE IInv'
  BY <1>10 DEF IInv, InItsFile, d0
<1>11. QED
  BY <1>1, <1>2, <1>5, <1>6, <1>7, <1>8, <1>9, <1>10 DEF Next, vars, editing

-----------------------------------------------------------------------------
(* The dataframe, and what it is made by *)

\* A new dataframe
LEMMA BlankDataframe == ASSUME NEW wps \in Nat PROVE IsDataframe([wps |-> wps, parameters |-> <<>>])
BY EmptyList, PartsOfDataframe DEF AreParameters

\* Two parameters change places.
LEMMA MovedIs ==
  ASSUME NEW d, IsDataframe(d), NEW i \in DOMAIN d.parameters, i + 1 \in DOMAIN d.parameters
  PROVE  LET e == [d EXCEPT !.parameters[i] = d.parameters[i + 1],
                            !.parameters[i + 1] = d.parameters[i]]
         IN  IsDataframe(e) /\ e.wps = d.wps
<1> DEFINE ps == d.parameters
           qs == [ps EXCEPT ![i] = ps[i + 1]]
           rs == [qs EXCEPT ![i + 1] = ps[i]]
           half == [d EXCEPT !.parameters = qs]
           moved == [d EXCEPT !.parameters[i] = d.parameters[i + 1],
                              !.parameters[i + 1] = d.parameters[i]]
<1>1. AreParameters(ps)
  BY DEF IsDataframe, AreParameters
<1>2. AreParameters(qs) /\ DOMAIN qs = DOMAIN ps
  BY <1>1, Exchanged DEF AreParameters
<1>3. AreParameters(rs)
  <2>1. IsParameter(ps[i])
    BY <1>1 DEF AreParameters
  <2> HIDE DEF qs
  <2>2. QED
    BY <1>2, <2>1, Exchanged
<1>4. half.parameters = qs /\ IsDataframe(half) /\ half.wps = d.wps
  <2> HIDE DEF qs
  <2>1. QED
    BY <1>2, OtherParameters
<1>5. moved = [half EXCEPT !.parameters[i + 1] = ps[i]]
  OBVIOUS
<1>6. moved = [half EXCEPT !.parameters = [half.parameters EXCEPT ![i + 1] = ps[i]]]
  <2> HIDE DEF half, ps
  <2>1. QED
    BY <1>5
<1> HIDE DEF half, moved
<1>7. moved = [half EXCEPT !.parameters = rs]
  BY <1>4, <1>6
<1> HIDE DEF rs
<1>8. IsDataframe(moved) /\ moved.wps = d.wps
  BY <1>3, <1>4, <1>7, OtherParameters
<1>9. QED
  BY <1>8 DEF moved

\* The dataframe an edit leaves
Edited ==
  /\ IsDataframe(d0') /\ d0'.wps > 0 /\ store'.issues = Validate(d0')
  /\ UNCHANGED <<files, home, repository>>

\* Every edit makes a dataframe of a dataframe, and judges it.
LEMMA EditWellMade ==
  ASSUME IsDataframe(d0), Loaded => d0.wps > 0, Edit
  PROVE  Edited
<1>1. ASSUME NEW d, IsDataframe(d), d0.wps > 0 => d.wps > 0, Commit(d) PROVE Edited
  <2>1. Loaded /\ store' = Store(d, TRUE) /\ UNCHANGED <<files, home, repository>>
    BY <1>1 DEF Commit
  <2>2. d0' = d /\ store'.issues = Validate(d)
    BY <2>1 DEF Store, d0
  <2>3. QED
    BY <1>1, <2>1, <2>2 DEF Edited
<1> DEFINE ps == d0.parameters
<1>2. AreParameters(ps)
  BY DEF IsDataframe, AreParameters
<1>3. CASE \E wps \in Rates : UpdateMetadata(wps)
  <2>1. PICK wps \in Rates : Commit([d0 EXCEPT !.wps = wps])
    BY <1>3 DEF UpdateMetadata
  <2>2. wps \in Nat /\ wps > 0
    BY EntriesAssumption
  <2>3. IsDataframe([d0 EXCEPT !.wps = wps]) /\ [d0 EXCEPT !.wps = wps].wps = wps
    BY <2>2, OtherRate
  <2>4. QED
    BY <1>1, <2>1, <2>2, <2>3
<1>4. CASE \E name \in Names, source \in Sources : AddParameter(<<name, 0>>, source)
  <2>1. PICK name, source : AddParameter(<<name, 0>>, source)
    BY <1>4
  <2> DEFINE n == <<name, 0>>
             p == [Blank(n, source) EXCEPT !.id = MakeParameterId(n, Ids(d0))]
             d == [d0 EXCEPT !.parameters = Append(@, p)]
  <2>2. Commit(d)
    BY <2>1, Zenon DEF AddParameter
  <2>3. IsParameter(p)
    BY BlankIs, CopyIs
  <2>4. d = [d0 EXCEPT !.parameters = Append(ps, p)]
    BY Zenon
  <2> HIDE DEF p
  <2>5. AreParameters(Append(ps, p))
    BY <1>2, <2>3, Appended
  <2>6. IsDataframe(d) /\ d.wps = d0.wps
    BY <2>4, <2>5, OtherParameters
  <2> HIDE DEF d
  <2>7. QED
    BY <1>1, <2>2, <2>6
<1>5. ASSUME NEW i \in DOMAIN ps, NEW c \in Candidates(ps[i]), UpdateParameter(i, c)
      PROVE  Edited
  <2>1. IsParameter(c)
    BY <1>2, CandidatesAre DEF AreParameters
  <2>2. IsDataframe(WithParameter(d0, c)) /\ WithParameter(d0, c).wps = d0.wps
    BY <2>1, WithParameterIs
  <2>3. Commit(WithParameter(d0, c))
    BY <1>5 DEF UpdateParameter
  <2>4. QED
    BY <1>1, <2>2, <2>3
<1>6. ASSUME NEW i \in DOMAIN ps, RemoveParameter(i)
      PROVE  Edited
  <2> DEFINE K == {k \in DOMAIN ps : ps[k].id # ps[i].id}
             d == [d0 EXCEPT !.parameters = Among(ps, K)]
  <2>1. Commit(d)
    BY <1>6, Zenon DEF RemoveParameter
  <2>2. AreParameters(Among(ps, K))
    BY <1>2, Selected
  <2>3. IsDataframe(d) /\ d.wps = d0.wps
    <3> HIDE DEF K
    <3>1. QED
      BY <2>2, OtherParameters
  <2> HIDE DEF d
  <2>4. QED
    BY <1>1, <2>1, <2>3
<1>7. ASSUME NEW i \in DOMAIN ps, DuplicateParameter(i)
      PROVE  Edited
  <2> DEFINE p == ps[i]
             name == <<p.name[1], p.name[2] + 1>>
             id == MakeParameterId(name, Ids(d0))
             clone == [p EXCEPT !.name = name, !.id = id, !.record = <<>>]
             d == [d0 EXCEPT !.parameters = InsertAt(ps, i + 1, clone)]
  <2>1. Commit(d)
    BY <1>7, Zenon DEF DuplicateParameter
  <2>2. IsParameter(p)
    BY <1>2 DEF AreParameters
  <2> HIDE DEF p, name, id
  <2>3. IsParameter(clone)
    BY <2>2, CopyIs
  <2> HIDE DEF clone
  <2>4. AreParameters(InsertAt(ps, i + 1, clone))
    BY <1>2, <2>3, Inserted
  <2>5. IsDataframe(d) /\ d.wps = d0.wps
    BY <2>4, OtherParameters
  <2> HIDE DEF d
  <2>6. QED
    BY <1>1, <2>1, <2>5
<1>8. ASSUME NEW i \in DOMAIN ps, MoveParameter(i)
      PROVE  Edited
  <2> DEFINE d == [d0 EXCEPT !.parameters[i] = d0.parameters[i + 1], !.parameters[i + 1] = d0.parameters[i]]
  <2>1. Commit(d) /\ i + 1 \in DOMAIN ps
    BY <1>8, Zenon DEF MoveParameter
  <2>2. IsDataframe(d) /\ d.wps = d0.wps
    BY <2>1, MovedIs
  <2> HIDE DEF d
  <2>3. QED
    BY <1>1, <2>1, <2>2
<1>9. QED
  BY <1>3, <1>4, <1>5, <1>6, <1>7, <1>8 DEF Edit

\* The dataframe, the files and the rows are what reading, editing and
\* writing make, and the issues are those of the dataframe.
Made ==
  /\ IsDataframe(d0)
  /\ Loaded => d0.wps > 0 /\ store.issues = Validate(d0)
  /\ home \in Paths => Loaded
  /\ \A path \in Paths : IsFile(files[path])
  /\ Rows(committed, pending, given)

\* So they are in the beginning.
LEMMA InitMade == Init => Made
<1> SUFFICES ASSUME Init PROVE Made
  OBVIOUS
<1>1. d0 = NoDataframe /\ home \notin Paths /\ ~Loaded
  BY FilesAssumption DEF Init, d0, Loaded
<1>2. IsDataframe(d0)
  BY <1>1, BlankDataframe DEF NoDataframe
<1>3. \A path \in Paths : IsFile(files[path])
  BY FilesAssumption DEF Init
<1>4. Rows(committed, pending, given)
  BY EmptyList DEF Init, InitRepository, Rows
<1>5. QED
  BY <1>1, <1>2, <1>3, <1>4 DEF Made

\* Every operation keeps what it works on well made.
LEMMA NextMade == IInv /\ Made /\ [Next]_vars => Made'
<1> SUFFICES ASSUME IInv, Made, [Next]_vars PROVE Made'
  OBVIOUS
<1>1. ASSUME UNCHANGED <<store, files, home, repository>> PROVE Made'
  BY <1>1 DEF Made, d0, Loaded, repository
<1>2. ASSUME IsDataframe(d0'), d0'.wps > 0, store'.issues = Validate(d0'),
             UNCHANGED <<files, repository>>
      PROVE  Made'
  <2>1. Loaded'
    BY <1>2 DEF Loaded, NoDataframe
  <2>2. QED
    BY <1>2, <2>1 DEF Made, repository
<1>3. ASSUME NEW path \in Paths, NEW f, IsFile(f), files' = [files EXCEPT ![path] = f], d0' = d0,
             store'.issues = store.issues, home' \in Paths => Loaded, UNCHANGED repository
      PROVE  Made'
  <2>1. \A q \in Paths : files'[q] = IF q = path THEN f ELSE files[q]
    BY <1>3 DEF IInv
  <2>2. QED
    BY <1>3, <2>1 DEF Made, Loaded, repository
<1>4. ASSUME NEW d, NEW dirty, IsDataframe(d), d.wps > 0, store' = Store(d, dirty),
             UNCHANGED <<files, repository>>
      PROVE  Made'
  <2>1. d0' = d /\ store'.issues = Validate(d)
    BY <1>4 DEF d0, Store
  <2>2. QED
    BY <1>2, <1>4, <2>1
<1>5. ASSUME NEW path \in Paths, OpenAdb(path) PROVE Made'
  <2>1. /\ FileReadable(files[path]) /\ store' = Store(ParseFile(files[path]), FALSE)
        /\ UNCHANGED <<files, repository>>
    BY <1>5 DEF OpenAdb
  <2>2. IsDataframe(ParseFile(files[path])) /\ ParseFile(files[path]).wps > 0
    BY <2>1, FileRead DEF Made
  <2>3. QED
    BY <1>4, <2>1, <2>2
<1>6. ASSUME NEW wps \in Rates, NewDataframe(wps) PROVE Made'
  <2> DEFINE d == [wps |-> wps, parameters |-> <<>>]
  <2>1. IsDataframe(d) /\ d.wps > 0
    BY EntriesAssumption, BlankDataframe
  <2>2. store' = Store(d, TRUE) /\ UNCHANGED <<files, repository>>
    BY <1>6 DEF NewDataframe, Replace
  <2> HIDE DEF d
  <2>3. QED
    BY <1>4, <2>1, <2>2
<1>7. ASSUME NEW d \in Imported, NEW dirty, TakeImported(d, dirty) PROVE Made'
  BY <1>4, <1>7, EntriesAssumption DEF TakeImported, Replace
<1>8. CASE Edit
  <2>1. Edited
    BY <1>8, EditWellMade DEF Made
  <2>2. QED
    BY <1>2, <2>1 DEF Edited
<1>9. ASSUME NEW path \in Paths, ExportAdb(path) PROVE Made'
  <2>1. /\ files' = [files EXCEPT ![path] = AdbText(d0)] /\ store' = [store EXCEPT !.dirty = FALSE]
        /\ Loaded /\ UNCHANGED repository
    BY <1>9 DEF ExportAdb
  <2>2. d0' = d0 /\ store'.issues = store.issues
    BY <2>1 DEF d0
  <2>3. IsFile(AdbText(d0))
    BY FileWritten DEF Made
  <2>4. QED
    BY <1>3, <2>1, <2>2, <2>3
<1>10. ASSUME NEW path \in Paths, ExportFails(path) PROVE Made'
  <2>1. PICK n \in 0..Len(d0.parameters) :
          files' = [files EXCEPT ![path] = IF n = 0 THEN NoFile
                                           ELSE [AdbText(d0) EXCEPT !.records = SubSeq(@, 1, n)]]
    BY <1>10 DEF ExportFails
  <2>2. Loaded /\ UNCHANGED <<store, home, repository>>
    BY <1>10 DEF ExportFails
  <2>3. IsFile(NoFile)
    BY EmptyList DEF NoFile, IsFile
  <2>4. IsFile([AdbText(d0) EXCEPT !.records = SubSeq(@, 1, n)])
    <3> DEFINE f == AdbText(d0)
    <3>1. IsFile(f)
      BY FileWritten DEF Made
    <3>2. Len(d0.parameters) \in Nat /\ Len(f.records) = Len(d0.parameters)
      <4>1. Len(d0.parameters) \in Nat /\ DOMAIN d0.parameters = 1..Len(d0.parameters)
        BY ListFacts DEF Made, IsDataframe
      <4>2. DOMAIN f.records = 1..Len(d0.parameters)
        BY <4>1 DEF AdbText
      <4> HIDE DEF f
      <4>3. Len(f.records) \in Nat /\ DOMAIN f.records = 1..Len(f.records)
        BY <3>1, ListFacts DEF IsFile
      <4>4. QED
        BY <4>1, <4>2, <4>3
    <3> HIDE DEF f
    <3>3. n \in Nat /\ n <= Len(f.records)
      BY <3>2
    <3>4. IsFile([f EXCEPT !.records = SubSeq(@, 1, n)])
      BY <3>1, <3>3, ShortFile
    <3>5. QED
      BY <3>4 DEF f
  <2> DEFINE short == [AdbText(d0) EXCEPT !.records = SubSeq(@, 1, n)]
             left == IF n = 0 THEN NoFile ELSE short
  <2> HIDE DEF short
  <2>5. IsFile(left)
    BY <2>3, <2>4 DEF short
  <2>6. files' = [files EXCEPT ![path] = left]
    BY <2>1 DEF short
  <2> HIDE DEF left
  <2>7. d0' = d0
    BY <2>2 DEF d0
  <2>8. QED
    BY <1>3, <2>2, <2>5, <2>6, <2>7
<1>11. ASSUME Rows(committed, pending, given)', UNCHANGED <<store, files, home>> PROVE Made'
  BY <1>11 DEF Made, d0, Loaded
<1>12. ASSUME SaveDataframe(d0), UNCHANGED <<store, files, home>> PROVE Made'
  BY <1>11, <1>12, SavedRows DEF Made
<1>13. ASSUME NEW n, SaveFails(d0, n), UNCHANGED <<store, files, home>> PROVE Made'
  BY <1>11, <1>13, FailedRows DEF Made
<1>14. ASSUME SaveIssues \/ Reopen, UNCHANGED <<store, files, home>> PROVE Made'
  BY <1>11, <1>14, CommittedRows DEF Made
<1>15. QED
  BY <1>1, <1>5, <1>6, <1>7, <1>8, <1>9, <1>10, <1>12, <1>13, <1>14 DEF Next, vars, editing

-----------------------------------------------------------------------------
(* The place of a number in a finite set *)

\* The less a number of a finite set, the fewer of the set are less.
LEMMA FewerBefore ==
  ASSUME NEW S, S \subseteq Int, IsFiniteSet(S), NEW x \in S, NEW y \in S, x < y
  PROVE  /\ Cardinality({t \in S : t < x}) \in Nat /\ Cardinality({t \in S : t < y}) \in Nat
         /\ Cardinality({t \in S : t < x}) < Cardinality({t \in S : t < y})
         /\ Cardinality({t \in S : t < y}) < Cardinality(S)
<1> DEFINE A == {t \in S : t < x}
           B == {t \in S : t < y}
<1>1. A \in SUBSET (B \ {x}) /\ x \in B /\ B \in SUBSET (S \ {y})
  <2>1. x \in Int /\ y \in Int /\ \A t \in S : t \in Int
    OBVIOUS
  <2>2. \A t \in A : t \in B \ {x}
    BY <2>1
  <2>3. \A t \in B : t \in S \ {y}
    BY <2>1
  <2>4. QED
    BY <2>2, <2>3
<1>2. IsFiniteSet(B) /\ B \in SUBSET S
  <2>1. B \in SUBSET S
    OBVIOUS
  <2>2. QED
    BY <2>1, FS_Subset
<1> HIDE DEF A, B
<1>3. IsFiniteSet(B \ {x}) /\ Cardinality(B \ {x}) = Cardinality(B) - 1
  BY <1>1, <1>2, FS_RemoveElement
<1>4. IsFiniteSet(S \ {y}) /\ Cardinality(S \ {y}) = Cardinality(S) - 1
  BY FS_RemoveElement
<1>5. IsFiniteSet(A) /\ Cardinality(A) <= Cardinality(B \ {x})
  BY <1>1, <1>3, FS_Subset
<1>6. Cardinality(B) <= Cardinality(S \ {y})
  BY <1>1, <1>4, FS_Subset
<1>7. Cardinality(A) \in Nat /\ Cardinality(B) \in Nat /\ Cardinality(S) \in Nat
  BY <1>2, <1>5, FS_CardinalityType
<1>8. QED
  BY <1>3, <1>4, <1>5, <1>6, <1>7 DEF A, B

\* The number that has n - 1 before it is the n-th.
LEMMA NthOfIs ==
  ASSUME NEW S, S \subseteq Int, IsFiniteSet(S), NEW x \in S, NEW n,
         Cardinality({t \in S : t < x}) = n - 1
  PROVE  NthOf(S, n) = x
<1> DEFINE before(z) == Cardinality({t \in S : t < z})
           y == NthOf(S, n)
<1>1. y = CHOOSE s \in S : before(s) = n - 1
  BY DEF NthOf
<1>2. before(x) = n - 1
  OBVIOUS
<1>3. \A u, v \in S : u < v => before(u) \in Nat /\ before(v) \in Nat /\ before(u) < before(v)
  BY FewerBefore
<1> HIDE DEF before
<1>4. y \in S /\ before(y) = n - 1
  BY <1>1, <1>2
<1> HIDE DEF y
<1>5. ~(x < y) /\ ~(y < x)
  BY <1>2, <1>3, <1>4
<1>6. x \in Int /\ y \in Int
  BY <1>4
<1>7. QED
  BY <1>5, <1>6 DEF y

\* Every number of a finite set is the n-th for one n.
LEMMA NthOfOnto ==
  ASSUME NEW S, S \subseteq Int, IsFiniteSet(S), NEW x \in S
  PROVE  LET n == Cardinality({t \in S : t < x}) + 1
         IN  /\ n \in 1..Cardinality(S) /\ NthOf(S, n) = x
             /\ \A m \in 1..Cardinality(S) : NthOf(S, m) = x => m = n
<1> DEFINE before(z) == {t \in S : t < z}
           n == Cardinality(before(x)) + 1
<1>1. IsFiniteSet(before(x)) /\ Cardinality(before(x)) <= Cardinality(S \ {x})
      /\ Cardinality(S \ {x}) = Cardinality(S) - 1
  <2>1. before(x) \in SUBSET (S \ {x})
    OBVIOUS
  <2> HIDE DEF before
  <2>2. IsFiniteSet(S \ {x}) /\ Cardinality(S \ {x}) = Cardinality(S) - 1
    BY FS_RemoveElement
  <2>3. QED
    BY <2>1, <2>2, FS_Subset
<1>2. Cardinality(before(x)) \in Nat /\ Cardinality(S) \in Nat
  BY <1>1, FS_CardinalityType
<1>3. n \in 1..Cardinality(S) /\ Cardinality(before(x)) = n - 1
  BY <1>1, <1>2
<1>4. NthOf(S, n) = x
  BY <1>3, NthOfIs
<1>5. ASSUME NEW m \in 1..Cardinality(S), NthOf(S, m) = x PROVE m = n
  <2> DEFINE B == {ab \in S \X S : ab[1] < ab[2]}
  <2>1. \E s \in S : Cardinality(before(s)) = m - 1
    BY NthExists
  <2>2. Cardinality(before(NthOf(S, m))) = m - 1
    BY <2>1 DEF NthOf
  <2>3. Cardinality(before(x)) = m - 1
    BY <1>5, <2>2
  <2> HIDE DEF before
  <2>4. QED
    BY <1>2, <1>3, <2>3
<1>6. QED
  BY <1>3, <1>4, <1>5

\* All of a list, in order
LEMMA AmongAll ==
  ASSUME NEW s, Listed(s)
  PROVE  Among(s, DOMAIN s) = s
<1> DEFINE n == Len(s)
           D == DOMAIN s
           t == Among(s, D)
<1>1. n \in Nat /\ D = 1..n
  BY ListFacts
<1>2. Cardinality(D) = n /\ IsFiniteSet(D)
  <2> HIDE DEF n, D
  <2>1. IsFiniteSet(1..n) /\ Cardinality(1..n) = n
    BY <1>1, FS_Interval
  <2>2. QED
    BY <1>1, <2>1
<1>3. D \in SUBSET DOMAIN s
  OBVIOUS
<1> HIDE DEF D, n
<1>4. /\ Listed(t) /\ Len(t) = n /\ DOMAIN t = 1..n
      /\ \A k \in 1..n : t[k] = s[NthOf(D, k)]
  BY <1>2, <1>3, AmongFacts
<1>5. ASSUME NEW k \in 1..n PROVE NthOf(D, k) = k
  <2>1. {x \in D : x < k} = 1..(k - 1)
    BY <1>1
  <2>2. Cardinality(1..(k - 1)) = k - 1
    BY <1>1, FS_Interval
  <2>3. k \in D /\ D \subseteq Int
    BY <1>1
  <2>4. QED
    BY <1>2, <2>1, <2>2, <2>3, NthOfIs
<1> HIDE DEF t
<1>6. t = s
  BY <1>1, <1>4, <1>5, ListsEqual DEF D, n
<1>7. QED
  BY <1>6 DEF t, D

-----------------------------------------------------------------------------
(* Lists made of blocks *)

\* The j-th block of n of a list
BlockOf(s, n, j) == [i \in 1..n |-> s[(j - 1) * n + i]]

\* A list made of blocks of n, of which B is the set
InBlocks(s, n, B) ==
  /\ Listed(s)
  /\ \E m \in Nat : Len(s) = m * n /\ B = {BlockOf(s, n, j) : j \in 1..m}

\* The place of an element of a block
LEMMA BlockPlace ==
  ASSUME NEW m \in Nat, NEW n \in Nat, NEW j \in 1..m, NEW i \in 1..n
  PROVE  (j - 1) * n + i \in 1..(m * n)
<1> DEFINE a == (j - 1) * n
           b == (m - j) * n
<1>1. j - 1 \in Nat /\ m - j \in Nat
  OBVIOUS
<1>2. a \in Nat /\ b \in Nat
  BY <1>1
<1>3. m * n = a + b + n
  BY <1>1
<1> HIDE DEF a, b
<1>4. a + i \in 1..(a + b + n)
  BY <1>2
<1>5. QED
  BY <1>3, <1>4 DEF a

\* The empty list has none, and a block is one.
LEMMA NoBlocks == ASSUME NEW n \in Nat PROVE InBlocks(<<>>, n, {})
<1>1. 1..0 = {}
  OBVIOUS
<1>2. Len(<<>>) = 0 * n /\ {} = {BlockOf(<<>>, n, j) : j \in 1..0}
  BY <1>1, EmptyList
<1>3. QED
  BY <1>2, EmptyList DEF InBlocks

LEMMA OneBlock ==
  ASSUME NEW s, Listed(s)
  PROVE  InBlocks(s, Len(s), {s})
<1> DEFINE n == Len(s)
<1>1. n \in Nat /\ s = [i \in 1..n |-> s[i]] /\ 1..1 = {1}
  BY ListFacts
<1> HIDE DEF n
<1>2. \A i \in 1..n : (1 - 1) * n + i = i
  BY <1>1
<1>3. BlockOf(s, n, 1) = s
  BY <1>1, <1>2 DEF BlockOf
<1>4. n = 1 * n /\ {s} = {BlockOf(s, n, j) : j \in 1..1}
  BY <1>1, <1>3
<1>5. QED
  BY <1>4 DEF InBlocks, n

\* Joined lists of blocks have the blocks of both.
LEMMA JoinedBlocks ==
  ASSUME NEW n \in Nat, NEW s, NEW t, NEW B, NEW C, InBlocks(s, n, B), InBlocks(t, n, C)
  PROVE  InBlocks(s \o t, n, B \cup C)
<1> DEFINE u == s \o t
<1>1. PICK k \in Nat : Len(s) = k * n /\ B = {BlockOf(s, n, j) : j \in 1..k}
  BY DEF InBlocks
<1>2. PICK m \in Nat : Len(t) = m * n /\ C = {BlockOf(t, n, j) : j \in 1..m}
  BY DEF InBlocks
<1>3. /\ Listed(u) /\ Len(u) = Len(s) + Len(t)
      /\ \A x \in 1..Len(s) : u[x] = s[x]
      /\ \A x \in 1..Len(t) : u[Len(s) + x] = t[x]
  BY JoinedLists DEF InBlocks
<1> HIDE DEF u
<1>4. k * n \in Nat /\ m * n \in Nat /\ (k + m) * n = k * n + m * n
  BY <1>1, <1>2
<1>5. ASSUME NEW j \in 1..k PROVE BlockOf(u, n, j) = BlockOf(s, n, j)
  <2>1. \A i \in 1..n : (j - 1) * n + i \in 1..(k * n)
    BY <1>1, BlockPlace
  <2>2. \A i \in 1..n : u[(j - 1) * n + i] = s[(j - 1) * n + i]
    BY <1>1, <1>3, <2>1
  <2>3. QED
    BY <2>2 DEF BlockOf
<1>6. ASSUME NEW j \in 1..m PROVE BlockOf(u, n, k + j) = BlockOf(t, n, j)
  <2>1. \A i \in 1..n : (j - 1) * n + i \in 1..(m * n)
    BY <1>2, BlockPlace
  <2> DEFINE a == k * n
             b == (j - 1) * n
  <2>2. a \in Nat /\ b \in Int /\ (k + j - 1) * n = a + b
    BY <1>4
  <2>3. \A i \in 1..n : b + i \in 1..Len(t) /\ (k + j - 1) * n + i = a + (b + i)
    <3>1. \A i \in 1..n : b + i \in 1..Len(t)
      BY <1>2, <2>1
    <3> HIDE DEF a, b
    <3>2. QED
      BY <2>2, <3>1
  <2>4. \A i \in 1..n : u[(k + j - 1) * n + i] = t[b + i]
    <3> HIDE DEF b
    <3>1. QED
      BY <1>1, <1>3, <2>3
  <2>5. QED
    BY <2>4 DEF BlockOf
<1>7. {BlockOf(u, n, j) : j \in 1..(k + m)} = B \cup C
  <2>1. ASSUME NEW x \in 1..(k + m) PROVE BlockOf(u, n, x) \in B \cup C
    <3>1. CASE x \in 1..k
      BY <1>1, <1>5, <3>1
    <3>2. CASE x \notin 1..k
      <4>1. x - k \in 1..m /\ k + (x - k) = x
        BY <1>1, <1>2, <3>2
      <4>2. BlockOf(u, n, x) = BlockOf(t, n, x - k)
        BY <1>6, <4>1
      <4>3. QED
        BY <1>2, <4>1, <4>2
    <3>3. QED
      BY <3>1, <3>2
  <2>2. ASSUME NEW b \in B PROVE \E x \in 1..(k + m) : b = BlockOf(u, n, x)
    <3>1. PICK j \in 1..k : b = BlockOf(s, n, j)
      BY <1>1
    <3>2. j \in 1..(k + m)
      BY <1>1, <1>2
    <3>3. QED
      BY <1>5, <3>1, <3>2
  <2>3. ASSUME NEW b \in C PROVE \E x \in 1..(k + m) : b = BlockOf(u, n, x)
    <3>1. PICK j \in 1..m : b = BlockOf(t, n, j)
      BY <1>2
    <3>2. k + j \in 1..(k + m)
      BY <1>1, <1>2
    <3>3. QED
      BY <1>6, <3>1, <3>2
  <2>4. QED
    BY <2>1, <2>2, <2>3
<1>8. k + m \in Nat /\ Len(u) = (k + m) * n
  BY <1>1, <1>2, <1>3, <1>4
<1>9. InBlocks(u, n, B \cup C)
  BY <1>3, <1>7, <1>8 DEF InBlocks
<1>10. QED
  BY <1>9 DEF u

\* Of lists of blocks one after the other, those of all
LEMMA FlattenedBlocks ==
  ASSUME NEW n \in Nat, NEW m \in Nat, NEW ss, ss = [k \in 1..m |-> ss[k]], NEW B,
         \A k \in 1..m : InBlocks(ss[k], n, B[k])
  PROVE  InBlocks(FlattenSeq(ss), n, UNION {B[k] : k \in 1..m})
<1> DEFINE U(k) == UNION {B[j] : j \in 1..k}
<1>1. Listed(ss) /\ Len(ss) = m
  BY MadeListed
<1>2. CASE m = 0
  <2>1. ss = << >>
    BY <1>1, <1>2, EmptyList, ListsEqual
  <2>2. FlattenSeq(ss) = ss
    <3>1. Len(ss) = 0
      BY <1>1, <1>2
    <3>2. QED
      BY <3>1 DEF FlattenSeq
  <2>3. UNION {B[k] : k \in 1..m} = {}
    BY <1>2
  <2>4. QED
    BY <2>1, <2>2, <2>3, NoBlocks
<1>3. CASE m # 0
  <2>8. Len(ss) \in Nat \ {0}
    BY <1>1, <1>3
  <2>9. \E f : /\ FlattenSeq(ss) = f[Len(ss)] /\ f[1] = ss[1]
                /\ \A i \in 2..Len(ss) : f[i] = f[i - 1] \o ss[i]
    BY <2>8, FlattenSteps, Zenon
  <2>1. PICK f : FlattenSeq(ss) = f[m] /\ f[1] = ss[1] /\ \A i \in 2..m : f[i] = f[i - 1] \o ss[i]
    BY <1>1, <2>9
  <2> DEFINE T == {k \in Nat : k + 1 \in 1..m => InBlocks(f[k + 1], n, U(k + 1))}
  <2>2. 0 \in T
    <3>1. 1..1 = {1} /\ U(1) = B[1]
      OBVIOUS
    <3> HIDE DEF U
    <3>2. 1 \in 1..m
      BY <1>3
    <3>3. QED
      BY <2>1, <3>1, <3>2
  <2>3. ASSUME NEW k \in Nat, k \in T PROVE k + 1 \in T
    <3> SUFFICES ASSUME (k + 1) + 1 \in 1..m PROVE InBlocks(f[(k + 1) + 1], n, U((k + 1) + 1))
      OBVIOUS
    <3>1. k + 1 \in 1..m /\ (k + 1) + 1 \in 2..m /\ ((k + 1) + 1) - 1 = k + 1
      OBVIOUS
    <3>2. InBlocks(f[k + 1], n, U(k + 1)) /\ InBlocks(ss[(k + 1) + 1], n, B[(k + 1) + 1])
      BY <2>3, <3>1
    <3>3. f[(k + 1) + 1] = f[k + 1] \o ss[(k + 1) + 1]
      BY <2>1, <3>1
    <3>4. U((k + 1) + 1) = U(k + 1) \cup B[(k + 1) + 1]
      <4>1. 1..((k + 1) + 1) = (1..(k + 1)) \cup {(k + 1) + 1}
        OBVIOUS
      <4>2. QED
        BY <4>1
    <3> HIDE DEF U, T
    <3>5. QED
      BY <3>2, <3>3, <3>4, JoinedBlocks
  <2> HIDE DEF T
  <2>4. Nat \subseteq T
    BY <2>2, <2>3, SetInduction
  <2> HIDE DEF U
  <2>5. m - 1 \in Nat /\ (m - 1) + 1 = m /\ m \in 1..m
    BY <1>3
  <2>6. InBlocks(f[m], n, U(m))
    BY <2>4, <2>5 DEF T
  <2>7. QED
    BY <2>1, <2>6 DEF U
<1>4. QED
  BY <1>2, <1>3

\* Blocks that are mapped place by place
LEMMA MappedBlocks ==
  ASSUME NEW n \in Nat, NEW s, NEW B, InBlocks(s, n, B), NEW t, NEW C,
         t = [x \in 1..Len(s) |-> t[x]],
         NEW f, \A x \in 1..Len(s) : t[x] = f[s[x]],
         C = {[i \in 1..n |-> f[b[i]]] : b \in B}
  PROVE  InBlocks(t, n, C)
<1>1. PICK m \in Nat : Len(s) = m * n /\ B = {BlockOf(s, n, j) : j \in 1..m}
  BY DEF InBlocks
<1>2. Len(s) \in Nat
  BY ListFacts DEF InBlocks
<1>3. Listed(t) /\ Len(t) = m * n
  BY <1>1, <1>2, MadeListed
<1>4. ASSUME NEW j \in 1..m PROVE BlockOf(t, n, j) = [i \in 1..n |-> f[BlockOf(s, n, j)[i]]]
  <2>1. \A i \in 1..n : (j - 1) * n + i \in 1..Len(s)
    BY <1>1, BlockPlace
  <2>2. \A i \in 1..n : t[(j - 1) * n + i] = f[s[(j - 1) * n + i]]
    BY <2>1
  <2>3. \A i \in 1..n : BlockOf(s, n, j)[i] = s[(j - 1) * n + i]
    BY DEF BlockOf
  <2>4. QED
    BY <2>2, <2>3 DEF BlockOf
<1>5. C = {BlockOf(t, n, j) : j \in 1..m}
  <2> DEFINE g(b) == [i \in 1..n |-> f[b[i]]]
  <2>1. C = {g(b) : b \in B} /\ \A j \in 1..m : BlockOf(t, n, j) = g(BlockOf(s, n, j))
    BY <1>4
  <2> HIDE DEF g
  <2>2. QED
    BY <1>1, <2>1
<1>6. QED
  BY <1>3, <1>5 DEF InBlocks

\* Reading parts of n gives the blocks back.
LEMMA PartsOfBlocks ==
  ASSUME NEW n \in Nat \ {0}, NEW s, NEW B, InBlocks(s, n, B)
  PROVE  LET t == InParts(s, n) IN Listed(t) /\ {t[j] : j \in DOMAIN t} = B
<1> DEFINE t == InParts(s, n)
           size == Len(s)
           from(k) == (k - 1) * n + 1
           to(k) == Min({k * n, size})
<1>1. PICK m \in Nat : size = m * n /\ B = {BlockOf(s, n, j) : j \in 1..m}
  BY DEF InBlocks
<1>2. t = [k \in 1..((size + n - 1) \div n) |-> SubSeq(s, from(k), to(k))]
  BY Zenon DEF InParts
<1>3. (size + n - 1) \div n = m
  <2> DEFINE r == n - 1
             y == size + n - 1
  <2>1. r \in 0..(n - 1) /\ y = m * n + r
    <3>1. m * n \in Nat
      BY <1>1
    <3>2. QED
      BY <1>1, <3>1
  <2> HIDE DEF r, y
  <2>2. y \div n = m
    BY <2>1, Quotient
  <2>3. QED
    BY <2>2 DEF y
<1>4. Listed(s) /\ size \in Nat
  BY ListFacts DEF InBlocks
<1> HIDE DEF size
<1>5. ASSUME NEW k \in 1..m PROVE SubSeq(s, from(k), to(k)) = BlockOf(s, n, k)
  <2> DEFINE a == (k - 1) * n
             c == k * n
             d == (m - k) * n
             u == SubSeq(s, a + 1, c)
  <2>1. a \in Nat /\ d \in Nat /\ c = a + n /\ size = c + d
    <3>1. k - 1 \in Nat /\ m - k \in Nat
      BY <1>1
    <3>2. a \in Nat /\ d \in Nat
      BY <3>1
    <3>3. c = a + n /\ m * n = c + d
      BY <1>1
    <3>4. QED
      BY <1>1, <3>2, <3>3
  <2>2. to(k) = c
    <3> HIDE DEF c, d, a
    <3>1. c \in Int /\ c <= size
      BY <2>1
    <3>2. Min({c, size}) = c
      <4>1. Min({c, size}) \in {c, size} /\ Min({c, size}) <= c /\ Min({c, size}) <= size
        BY <1>4, <3>1, MinOfTwo
      <4>2. QED
        BY <1>4, <3>1, <4>1
    <3>3. QED
      BY <3>2 DEF c
  <2>3. SubSeq(s, from(k), to(k)) = u
    BY <2>2
  <2> HIDE DEF from, to
  <2>4. /\ Len(u) = n /\ Listed(u)
        /\ \A i \in 1..n : u[i] = s[a + i]
    <3> DEFINE b == a + 1
    <3>1. b \in Nat \ {0} /\ c \in Int /\ c <= Len(s) /\ b <= c /\ c - b + 1 = n
      <4> HIDE DEF a, c, d
      <4>1. QED
        BY <2>1 DEF size
    <3>2. u = SubSeq(s, b, c)
      OBVIOUS
    <3> HIDE DEF b, c, u
    <3>3. Len(u) = n /\ Listed(u) /\ \A i \in 1..n : u[i] = s[b + i - 1]
      <4>1. Listed(SubSeq(s, b, c))
        BY <1>4, <3>1, SliceListed
      <4>2. Len(SubSeq(s, b, c)) = c - b + 1 /\ \A i \in 1..(c - b + 1) : SubSeq(s, b, c)[i] = s[b + i - 1]
        BY <1>4, <3>1, SliceFacts
      <4>3. QED
        BY <3>1, <3>2, <4>1, <4>2
    <3>4. \A i \in 1..n : b + i - 1 = a + i
      <4> HIDE DEF a
      <4>1. QED
        BY <2>1 DEF b
    <3>5. QED
      BY <3>3, <3>4
  <2>5. u = BlockOf(s, n, k)
    <3> DEFINE v == BlockOf(s, n, k)
    <3>1. v = [i \in 1..n |-> s[a + i]]
      BY DEF BlockOf
    <3> HIDE DEF u, v, a
    <3>2. Listed(v) /\ Len(v) = n /\ DOMAIN u = 1..n /\ \A i \in 1..n : v[i] = s[a + i]
      <4>1. v = [i \in 1..n |-> v[i]]
        BY <3>1
      <4>2. Listed(v) /\ Len(v) = n
        BY <4>1, MadeListed
      <4>3. DOMAIN u = 1..n
        BY <2>4, ListFacts
      <4>4. QED
        BY <3>1, <4>2, <4>3
    <3>3. u = v
      BY <2>4, <3>2, ListsEqual
    <3>4. QED
      BY <3>3 DEF v
  <2>6. QED
    BY <2>3, <2>5
<1> HIDE DEF from, to, t
<1>6. t = [k \in 1..m |-> t[k]] /\ \A k \in 1..m : t[k] = BlockOf(s, n, k)
  BY <1>2, <1>3, <1>5
<1>7. Listed(t) /\ DOMAIN t = 1..m
  BY <1>6, MadeListed
<1>8. QED
  BY <1>1, <1>6, <1>7 DEF t

-----------------------------------------------------------------------------
(* The samples of parts that lie together *)

\* The subframes of the first part
Where(o) == o.segments[1].subframes

\* An occurrence of n parts, all in the same subframes
Together(o, n, wps) ==
  /\ IsOccurrence(o) /\ Len(o.segments) = n
  /\ Where(o) \subseteq Subframes /\ Where(o) # {}
  /\ \A s \in 1..n : o.segments[s].subframes = Where(o) /\ o.segments[s].word \in 1..wps

\* Its sample in a subframe
SampleIn(o, n, sf, wps) == [i \in 1..n |-> Location(o.segments[n - i + 1], sf, wps)]

SamplesHere(o, n, sf, wps) == {SampleIn(o, n, x, wps) : x \in Where(o) \cap {sf}}

\* The subframes of parts that lie together
LEMMA WhereFacts ==
  ASSUME NEW o, NEW n, NEW wps, Together(o, n, wps)
  PROVE  /\ IsFiniteSet(Where(o)) /\ Where(o) \subseteq Int /\ Cardinality(Where(o)) \in Nat \ {0}
         /\ \A x \in Where(o) : x \in Nat \ {0}
<1>1. Where(o) \in SUBSET Subframes /\ Where(o) # {}
  BY DEF Together
<1>2. IsFiniteSet(Where(o))
  BY <1>1, SubframesFinite, FS_Subset
<1>3. Cardinality(Where(o)) \in Nat /\ Cardinality(Where(o)) # 0
  BY <1>1, <1>2, FS_CardinalityType, FS_EmptySet
<1>4. \A x \in Subframes : x \in Nat \ {0}
  BY CodecAssumption DEF Subframes
<1>5. QED
  BY <1>1, <1>2, <1>3, <1>4

\* Parts that lie together have a sample in each of their subframes.
LEMMA SamplesTogether ==
  ASSUME NEW o, NEW n \in Nat \ {0}, NEW wps, Together(o, n, wps), NEW sf
  PROVE  InBlocks(SamplesAt(o, sf, TRUE, wps), n, SamplesHere(o, n, sf, wps))
<1> DEFINE S == Where(o)
           parts == Reverse(o.segments)
           nth(k) == [i \in DOMAIN parts |-> NthOf(parts[i].subframes, k)]
           begins(k) == Min({nth(k)[i] : i \in DOMAIN parts})
           all == 1..Cardinality(parts[1].subframes)
           ks == {k \in all : begins(k) = sf}
           sample(k) == [i \in DOMAIN parts |-> Location(parts[i], nth(k)[i], wps)]
           m == Cardinality(ks)
           ss == [j \in 1..m |-> sample(NthOf(ks, j))]
           B == [j \in 1..m |-> {SampleIn(o, n, sf, wps)}]
<1>1. SamplesAt(o, sf, TRUE, wps) = FlattenSeq(ss)
  BY Zenon DEF SamplesAt
<1>2. /\ DOMAIN parts = 1..n
      /\ \A i \in 1..n : n - i + 1 \in 1..n /\ parts[i] = o.segments[n - i + 1]
  BY ReversedParts DEF Together
<1> HIDE DEF parts
<1>3. \A i \in 1..n : parts[i].subframes = S
  BY <1>2 DEF Together
<1> HIDE DEF S
<1>4. 1 \in 1..n /\ all = 1..Cardinality(S)
  <2>1. 1 \in 1..n
    OBVIOUS
  <2>2. QED
    BY <1>3, <2>1
<1>5. \A k : nth(k) = [i \in 1..n |-> NthOf(S, k)]
  BY <1>2, <1>3
<1>6. IsFiniteSet(S) /\ S \subseteq Int /\ Cardinality(S) \in Nat
  BY WhereFacts DEF S
<1> HIDE DEF nth
<1>7. ASSUME NEW k \in all PROVE begins(k) = NthOf(S, k)
  <2> DEFINE x == NthOf(S, k)
  <2>1. x \in Int
    BY <1>4, <1>6, NthOfIn
  <2>2. {nth(k)[i] : i \in DOMAIN parts} = {x}
    BY <1>2, <1>4, <1>5
  <2> HIDE DEF x
  <2>3. Min({x}) = x
    BY <2>1 DEF Min
  <2>4. begins(k) = x
    BY <2>2, <2>3
  <2>5. QED
    BY <2>4 DEF x
<1> HIDE DEF begins
<1>8. ks \in SUBSET all /\ \A k \in ks : NthOf(S, k) = sf
  BY <1>7
<1>9. IsFiniteSet(ks) /\ ks \subseteq Int
  <2>1. IsFiniteSet(all) /\ all \subseteq Int
    BY <1>4, <1>6, FS_Interval
  <2> HIDE DEF all, ks
  <2>2. QED
    BY <1>8, <2>1, FS_Subset
<1>10. sf \in S => m = 1
  <2> SUFFICES ASSUME sf \in S PROVE m = 1
    OBVIOUS
  <2> DEFINE k0 == Cardinality({t \in S : t < sf}) + 1
  <2>1. /\ k0 \in 1..Cardinality(S) /\ NthOf(S, k0) = sf
        /\ \A k \in 1..Cardinality(S) : NthOf(S, k) = sf => k = k0
    BY <1>6, NthOfOnto
  <2> HIDE DEF k0
  <2>2. ks = {k0}
    BY <1>4, <1>7, <1>8, <2>1
  <2>3. QED
    BY <2>2, FS_Singleton
<1>11. sf \notin S => m = 0
  <2>1. sf \notin S => ks = {}
    BY <1>4, <1>6, <1>8, NthOfIn
  <2>2. QED
    BY <2>1, FS_EmptySet
<1> HIDE DEF all, ks
<1>12. m \in Nat /\ \A j \in 1..m : NthOf(ks, j) \in ks
  BY <1>9, FS_CardinalityType, NthOfIn
<1>13. ASSUME NEW j \in 1..m PROVE ss[j] = SampleIn(o, n, sf, wps)
  <2> DEFINE k == NthOf(ks, j)
  <2>1. NthOf(S, k) = sf
    BY <1>8, <1>12
  <2>2. ss[j] = sample(k)
    OBVIOUS
  <2> HIDE DEF k, ss
  <2>3. sample(k) = [i \in 1..n |-> Location(parts[i], sf, wps)]
    BY <1>2, <1>5, <2>1
  <2>4. [i \in 1..n |-> Location(parts[i], sf, wps)] = SampleIn(o, n, sf, wps)
    BY <1>2 DEF SampleIn
  <2>5. QED
    BY <2>2, <2>3, <2>4
<1> HIDE DEF m
<1>14. InBlocks(SampleIn(o, n, sf, wps), n, {SampleIn(o, n, sf, wps)})
  <2> DEFINE b == SampleIn(o, n, sf, wps)
  <2>1. b = [i \in 1..n |-> b[i]]
    BY DEF SampleIn
  <2> HIDE DEF b
  <2>2. Listed(b) /\ Len(b) = n
    BY <2>1, MadeListed
  <2>3. InBlocks(b, n, {b})
    BY <2>2, OneBlock
  <2>4. QED
    BY <2>3 DEF b
<1>15. ss = [j \in 1..m |-> ss[j]] /\ \A j \in 1..m : B[j] = {SampleIn(o, n, sf, wps)}
  OBVIOUS
<1> HIDE DEF ss, B
<1>16. InBlocks(FlattenSeq(ss), n, UNION {B[j] : j \in 1..m})
  <2>1. \A j \in 1..m : InBlocks(ss[j], n, B[j])
    BY <1>13, <1>14, <1>15
  <2>2. QED
    BY <1>12, <1>15, <2>1, FlattenedBlocks
<1>17. UNION {B[j] : j \in 1..m} = SamplesHere(o, n, sf, wps)
  <2>1. CASE sf \in S
    <3>1. m = 1 /\ 1..1 = {1}
      BY <1>10, <2>1
    <3>2. UNION {B[j] : j \in 1..m} = {SampleIn(o, n, sf, wps)}
      BY <1>15, <3>1
    <3>3. S \cap {sf} = {sf}
      BY <2>1
    <3>4. SamplesHere(o, n, sf, wps) = {SampleIn(o, n, sf, wps)}
      BY <3>3 DEF SamplesHere, S
    <3>5. QED
      BY <3>2, <3>4
  <2>2. CASE sf \notin S
    <3>1. 1..m = {} /\ S \cap {sf} = {}
      BY <1>11, <2>2
    <3>2. SamplesHere(o, n, sf, wps) = {}
      BY <3>1 DEF SamplesHere, S
    <3>3. QED
      BY <3>1, <3>2
  <2>3. QED
    BY <2>1, <2>2
<1>18. QED
  BY <1>1, <1>16, <1>17 DEF S

\* Its samples, one in each of its subframes
SamplesIn(o, n, wps) == {SampleIn(o, n, sf, wps) : sf \in Where(o)}

\* A parameter of some occurrences, each of n parts that lie together
Even(p, n, wps) ==
  /\ IsParameter(p) /\ p.occurrences # <<>> /\ n \in Nat \ {0}
  /\ \A k \in DOMAIN p.occurrences : Together(p.occurrences[k], n, wps)

\* All occurrences of such a parameter are written, in one shape.
LEMMA EvenShape ==
  ASSUME NEW p, NEW n, NEW wps, Even(p, n, wps)
  PROVE  LET os == p.occurrences
         IN  /\ WithSegments(os) = os /\ Uniform(os) /\ Parts(p) = n
             /\ Len(os) \in Nat /\ DOMAIN os = 1..Len(os) /\ 1 \in 1..Len(os)
<1> DEFINE os == p.occurrences
<1>1. /\ Listed(os) /\ os # <<>> /\ n \in Nat \ {0}
      /\ \A k \in DOMAIN os : Together(os[k], n, wps)
  BY DEF Even, IsParameter
<1>2. WithSegments(os) = Among(os, {k \in DOMAIN os : os[k].segments # <<>>})
  BY DEF WithSegments
<1>3. Parts(p) = LET us == WithSegments(os) IN IF us = <<>> \/ ~Uniform(us) THEN 1 ELSE Len(us[1].segments)
  BY DEF Parts
<1> HIDE DEF os
<1>4. Len(os) \in Nat /\ DOMAIN os = 1..Len(os) /\ 1 \in 1..Len(os)
  BY <1>1, ListFacts, EmptyList, ListsEqual
<1>5. {k \in DOMAIN os : os[k].segments # <<>>} = DOMAIN os
  <2>1. \A k \in DOMAIN os : Len(os[k].segments) # 0
    BY <1>1 DEF Together
  <2>2. \A k \in DOMAIN os : os[k].segments # <<>>
    BY <2>1, EmptyList
  <2>3. QED
    BY <2>2
<1>6. WithSegments(os) = os
  BY <1>1, <1>2, <1>5, AmongAll
<1>7. {Len(os[k].segments) : k \in DOMAIN os} = {n}
  BY <1>1, <1>4 DEF Together
<1>8. ASSUME NEW k \in DOMAIN os PROVE Cardinality(Spread(os[k])) = 1
  <2> DEFINE o == os[k]
  <2>1. Together(o, n, wps)
    BY <1>1
  <2> HIDE DEF o
  <2>2. Listed(o.segments) /\ DOMAIN o.segments = 1..n /\ 1 \in 1..n
    BY <1>1, <2>1, ListFacts DEF Together, IsOccurrence
  <2>3. \A s \in 1..n : o.segments[s].subframes = Where(o)
    BY <2>1 DEF Together
  <2>4. Spread(o) = {Cardinality(Where(o))}
    BY <2>2, <2>3 DEF Spread
  <2>5. Cardinality(Spread(o)) = 1
    BY <2>4, FS_Singleton
  <2>6. QED
    BY <2>5 DEF o
<1>9. Uniform(os)
  <2>1. Cardinality({Len(os[k].segments) : k \in DOMAIN os}) = 1
    BY <1>7, FS_Singleton
  <2>2. QED
    BY <1>8, <2>1 DEF Uniform
<1>10. Len(os[1].segments) = n
  BY <1>1, <1>4 DEF Together
<1>11. QED
  BY <1>1, <1>3, <1>4, <1>6, <1>9, <1>10 DEF os

\* Its locations are the samples of its occurrences, one after the other.
LEMMA LocationsTogether ==
  ASSUME NEW p, NEW n, NEW wps, Even(p, n, wps)
  PROVE  LET os == p.occurrences
         IN  InBlocks(Locations(p, wps), n, UNION {SamplesIn(os[k], n, wps) : k \in DOMAIN os})
<1> DEFINE os == p.occurrences
           m == Len(os)
           at(sf) == [k \in 1..m |-> SamplesAt(os[k], sf, TRUE, wps)]
           outer == [sf \in 1..SubframeCount |-> FlattenSeq(at(sf))]
           found(sf) == [k \in 1..m |-> SamplesHere(os[k], n, sf, wps)]
           B == [sf \in 1..SubframeCount |-> UNION {found(sf)[k] : k \in 1..m}]
<1>1. /\ WithSegments(os) = os /\ Uniform(os)
      /\ m \in Nat /\ DOMAIN os = 1..m
  BY EvenShape
<1>2. Locations(p, wps) =
        LET us == WithSegments(os)
        IN  FlattenSeq([sf \in Subframes |-> FlattenSeq([k \in DOMAIN us |-> SamplesAt(us[k], sf, Uniform(us), wps)])])
  BY DEF Locations
<1>3. n \in Nat \ {0} /\ \A k \in 1..m : Together(os[k], n, wps)
  BY <1>1 DEF Even
<1> HIDE DEF os
<1>4. Uniform(os) = TRUE
  <2>1. Uniform(os) \in BOOLEAN
    BY DEF Uniform
  <2>2. QED
    BY <1>1, <2>1
<1> HIDE DEF m
<1>5. Locations(p, wps) = FlattenSeq(outer)
  <2>1. Locations(p, wps) =
          FlattenSeq([sf \in Subframes |-> FlattenSeq([k \in 1..m |-> SamplesAt(os[k], sf, TRUE, wps)])])
    BY <1>1, <1>2, <1>4
  <2>2. QED
    BY <2>1 DEF Subframes
<1>6. ASSUME NEW sf \in 1..SubframeCount PROVE InBlocks(outer[sf], n, B[sf])
  <2> DEFINE row == at(sf)
             C == found(sf)
  <2>1. /\ row = [k \in 1..m |-> row[k]] /\ \A k \in 1..m : row[k] = SamplesAt(os[k], sf, TRUE, wps)
        /\ \A k \in 1..m : C[k] = SamplesHere(os[k], n, sf, wps)
        /\ outer[sf] = FlattenSeq(row) /\ B[sf] = UNION {C[k] : k \in 1..m}
    OBVIOUS
  <2> HIDE DEF row, C, outer, B
  <2>2. ASSUME NEW k \in 1..m PROVE InBlocks(row[k], n, C[k])
    <3> DEFINE o == os[k]
    <3>1. Together(o, n, wps)
      BY <1>3
    <3>2. n \in Nat \ {0}
      BY <1>3
    <3> HIDE DEF o
    <3>3. InBlocks(SamplesAt(o, sf, TRUE, wps), n, SamplesHere(o, n, sf, wps))
      BY <3>1, <3>2, SamplesTogether
    <3>4. QED
      BY <2>1, <3>3 DEF o
  <2>3. InBlocks(FlattenSeq(row), n, UNION {C[k] : k \in 1..m})
    BY <1>1, <1>3, <2>1, <2>2, FlattenedBlocks
  <2>4. QED
    BY <2>1, <2>3
<1>7. UNION {B[sf] : sf \in 1..SubframeCount} = UNION {SamplesIn(os[k], n, wps) : k \in DOMAIN os}
  <2>1. ASSUME NEW sf \in 1..SubframeCount, NEW b \in B[sf]
        PROVE  \E k \in 1..m : b \in SamplesIn(os[k], n, wps)
    <3>1. PICK k \in 1..m : b \in SamplesHere(os[k], n, sf, wps)
      OBVIOUS
    <3>2. QED
      BY <3>1 DEF SamplesIn, SamplesHere
  <2>2. ASSUME NEW k \in 1..m, NEW b \in SamplesIn(os[k], n, wps)
        PROVE  \E sf \in 1..SubframeCount : b \in B[sf]
    <3>1. PICK sf \in Where(os[k]) : b = SampleIn(os[k], n, sf, wps)
      BY DEF SamplesIn
    <3>2. sf \in 1..SubframeCount
      BY <1>3 DEF Together, Subframes
    <3>3. b \in found(sf)[k]
      BY <3>1 DEF SamplesHere
    <3>4. b \in B[sf]
      BY <3>2, <3>3
    <3>5. QED
      BY <3>2, <3>4
  <2> HIDE DEF B
  <2>3. QED
    BY <1>1, <2>1, <2>2
<1>8. outer = [sf \in 1..SubframeCount |-> outer[sf]] /\ SubframeCount \in Nat
  BY CodecAssumption
<1> HIDE DEF outer, B
<1>9. InBlocks(FlattenSeq(outer), n, UNION {B[sf] : sf \in 1..SubframeCount})
  BY <1>3, <1>6, <1>8, FlattenedBlocks
<1>10. QED
  BY <1>5, <1>7, <1>9 DEF os

\* The place of a part in a subframe, and those of a sample
PlaceOf(g, sf) == [subframes |-> {sf}, word |-> g.word, lsb |-> g.lsb, msb |-> g.msb]

SamplePlace(o, n, sf) == [i \in 1..n |-> PlaceOf(o.segments[n - i + 1], sf)]

PlacesIn(o, n) == {SamplePlace(o, n, sf) : sf \in Where(o)}

\* A location written of a part is read as its place.
LEMMA PlaceBack ==
  ASSUME NEW wps \in Nat \ {0}, NEW sf \in Subframes, NEW g, g.word \in 1..wps
  PROVE  Place(Location(g, sf, wps), wps) = PlaceOf(g, sf)
<1> DEFINE l == Location(g, sf, wps)
           w == g.word
           a == AbsoluteWord(sf, w, wps)
<1>1. l.selector = Subframes /\ l.word = a /\ l.lsb = g.lsb /\ l.msb = g.msb
  BY DEF Location
<1>2. sf \in Nat \ {0}
  BY DEF Subframes
<1>3. SplitSubframe(a, wps) = sf /\ SplitWord(a, wps) = w
  <2>1. w \in 1..wps
    OBVIOUS
  <2> HIDE DEF w
  <2>2. QED
    BY <1>2, <2>1, SubframeOfWord
<1> HIDE DEF l, a
<1>4. FrameAbsolute(l, wps)
  BY <1>1 DEF FrameAbsolute
<1>5. Place(l, wps) = [subframes |-> {sf}, word |-> w, lsb |-> g.lsb, msb |-> g.msb]
  BY <1>1, <1>3, <1>4 DEF Place
<1>6. QED
  BY <1>5 DEF PlaceOf, l

\* So the locations of a parameter are read as the samples of its parts.
LEMMA PlacesTogether ==
  ASSUME NEW p, NEW n, NEW wps \in Nat \ {0}, Even(p, n, wps)
  PROVE  LET os == p.occurrences
             locations == Locations(p, wps)
             samples == InParts([k \in DOMAIN locations |-> Place(locations[k], wps)], n)
         IN  /\ Listed(samples)
             /\ {samples[j] : j \in DOMAIN samples} = UNION {PlacesIn(os[k], n) : k \in DOMAIN os}
<1> DEFINE os == p.occurrences
           s == Locations(p, wps)
           places == [k \in DOMAIN s |-> Place(s[k], wps)]
           B == UNION {SamplesIn(os[k], n, wps) : k \in DOMAIN os}
           L == {s[x] : x \in 1..Len(s)} \cup UNION {{b[i] : i \in 1..n} : b \in B}
           f == [l \in L |-> Place(l, wps)]
           g(b) == [i \in 1..n |-> f[b[i]]]
           C == {g(b) : b \in B}
           D == UNION {PlacesIn(os[k], n) : k \in DOMAIN os}
<1>1. n \in Nat \ {0} /\ \A k \in DOMAIN os : Together(os[k], n, wps)
  BY DEF Even
<1>2. InBlocks(s, n, B)
  BY LocationsTogether
<1> HIDE DEF s
<1>3. Len(s) \in Nat /\ DOMAIN s = 1..Len(s)
  BY <1>2, ListFacts DEF InBlocks
<1>4. InBlocks(places, n, C)
  <2>1. places = [x \in 1..Len(s) |-> places[x]] /\ \A x \in 1..Len(s) : places[x] = f[s[x]]
    BY <1>3
  <2>2. C = {[i \in 1..n |-> f[b[i]]] : b \in B}
    OBVIOUS
  <2> HIDE DEF places, f, B, C
  <2>3. QED
    BY <1>1, <1>2, <2>1, <2>2, MappedBlocks
<1>5. ASSUME NEW k \in DOMAIN os, NEW sf \in Where(os[k])
      PROVE  /\ SampleIn(os[k], n, sf, wps) \in B
             /\ g(SampleIn(os[k], n, sf, wps)) = SamplePlace(os[k], n, sf)
  <2> DEFINE o == os[k]
             b == SampleIn(o, n, sf, wps)
  <2>1. b \in SamplesIn(os[k], n, wps)
    BY DEF SamplesIn
  <2>2. b \in B
    BY <2>1
  <2>3. \A i \in 1..n : b[i] \in L
    BY <2>2
  <2>4. Together(o, n, wps) /\ sf \in Where(o)
    BY <1>1
  <2>5. g(b) = [i \in 1..n |-> Place(b[i], wps)]
    <3> HIDE DEF b, L
    <3>1. QED
      BY <2>3
  <2> HIDE DEF o, g, B
  <2>6. \A i \in 1..n : b[i] = Location(o.segments[n - i + 1], sf, wps)
    BY DEF SampleIn
  <2> HIDE DEF b
  <2>7. ASSUME NEW i \in 1..n PROVE Place(b[i], wps) = PlaceOf(o.segments[n - i + 1], sf)
    <3> DEFINE h == o.segments[n - i + 1]
    <3>1. n - i + 1 \in 1..n
      BY <1>1
    <3>2. h.word \in 1..wps /\ sf \in Subframes
      BY <2>4, <3>1 DEF Together
    <3>3. b[i] = Location(h, sf, wps)
      BY <2>6
    <3> HIDE DEF h
    <3>4. Place(b[i], wps) = PlaceOf(h, sf)
      BY <3>2, <3>3, PlaceBack
    <3>5. QED
      BY <3>4 DEF h
  <2>8. g(b) = SamplePlace(o, n, sf)
    BY <2>5, <2>7 DEF SamplePlace
  <2>9. QED
    BY <2>2, <2>8 DEF o, b
<1> HIDE DEF g
<1>6. C = D
  <2>1. ASSUME NEW c \in C PROVE c \in D
    <3>1. PICK b \in B : c = g(b)
      OBVIOUS
    <3>2. PICK k \in DOMAIN os : b \in SamplesIn(os[k], n, wps)
      OBVIOUS
    <3>3. PICK sf \in Where(os[k]) : b = SampleIn(os[k], n, sf, wps)
      BY <3>2 DEF SamplesIn
    <3>4. c = SamplePlace(os[k], n, sf)
      BY <1>5, <3>1, <3>3
    <3>5. c \in PlacesIn(os[k], n)
      BY <3>4 DEF PlacesIn
    <3>6. QED
      BY <3>5
  <2>2. ASSUME NEW c \in D PROVE c \in C
    <3>1. PICK k \in DOMAIN os : c \in PlacesIn(os[k], n)
      OBVIOUS
    <3>2. PICK sf \in Where(os[k]) : c = SamplePlace(os[k], n, sf)
      BY <3>1 DEF PlacesIn
    <3> DEFINE b == SampleIn(os[k], n, sf, wps)
    <3>3. b \in B /\ c = g(b)
      BY <1>5, <3>2
    <3> HIDE DEF b, B
    <3>4. QED
      BY <3>3
  <2> HIDE DEF C, D
  <2>3. QED
    BY <2>1, <2>2
<1> HIDE DEF C, D, places
<1>7. /\ Listed(InParts(places, n))
      /\ {InParts(places, n)[j] : j \in DOMAIN InParts(places, n)} = C
  BY <1>1, <1>4, PartsOfBlocks, Zenon
<1>8. QED
  BY <1>6, <1>7 DEF D, places, s

-----------------------------------------------------------------------------
(* The values of parts that lie together *)

\* A value taken in a subframe
ValueIn(o, n, x) ==
  [s \in 1..n |-> <<x, o.segments[s].word, o.segments[s].lsb, o.segments[s].msb, o.segments[s].weight>>]

\* An occurrence whose parts are in the same subframes has a value in each.
LEMMA OccurrenceValues ==
  ASSUME NEW o, NEW n \in Nat \ {0}, DOMAIN o.segments = 1..n,
         NEW T, IsFiniteSet(T), T \subseteq Int,
         \A s \in 1..n : o.segments[s].subframes = T
  PROVE  SamplesOfOccurrence(o) = {ValueIn(o, n, x) : x \in T}
<1> DEFINE c == Cardinality(T)
           value(k) == [s \in DOMAIN o.segments |->
                          LET g == o.segments[s] IN <<NthOf(g.subframes, k), g.word, g.lsb, g.msb, g.weight>>]
<1>1. Spread(o) = {c} /\ c \in Nat
  <2>1. 1 \in 1..n
    OBVIOUS
  <2>2. Spread(o) = {c}
    BY <2>1 DEF Spread
  <2>3. QED
    BY <2>2, FS_CardinalityType
<1>2. Min(Spread(o)) = c
  <2> HIDE DEF c
  <2>1. Min({c}) = c
    BY <1>1 DEF Min
  <2>2. QED
    BY <1>1, <2>1
<1>3. SamplesOfOccurrence(o) = {value(k) : k \in 1..c}
  <2>1. SamplesOfOccurrence(o) = {value(k) : k \in 1..Min(Spread(o))}
    BY DEF SamplesOfOccurrence
  <2>2. QED
    BY <1>2, <2>1
<1>4. \A k : value(k) = ValueIn(o, n, NthOf(T, k))
  <2> SUFFICES ASSUME NEW k PROVE value(k) = ValueIn(o, n, NthOf(T, k))
    OBVIOUS
  <2>1. value(k) = [s \in 1..n |-> <<NthOf(o.segments[s].subframes, k), o.segments[s].word,
                                     o.segments[s].lsb, o.segments[s].msb, o.segments[s].weight>>]
    OBVIOUS
  <2>2. QED
    BY <2>1 DEF ValueIn
<1> HIDE DEF value
<1>5. ASSUME NEW k \in 1..c PROVE NthOf(T, k) \in T
  BY <1>5, NthOfIn
<1>6. ASSUME NEW x \in T PROVE \E k \in 1..c : x = NthOf(T, k)
  <2> DEFINE k == Cardinality({t \in T : t < x}) + 1
  <2>1. k \in 1..c /\ NthOf(T, k) = x
    BY NthOfOnto
  <2> HIDE DEF k, c
  <2>2. QED
    BY <2>1
<1> HIDE DEF c
<1>7. QED
  BY <1>3, <1>4, <1>5, <1>6

\* The value read of a sample in a subframe, and those of all samples
WeightRead(weights, part) == IF weights = <<>> THEN NoWeight ELSE weights[part]

ValueRead(sample, x, n, weights) ==
  [s \in 1..n |-> <<x, sample[n - s + 1].word, sample[n - s + 1].lsb, sample[n - s + 1].msb,
                    WeightRead(weights, n - s + 1)>>]

\* Samples of n parts, each in the one subframe that "at" says
Single(samples, n, at) ==
  /\ Listed(samples) /\ n \in Nat \ {0}
  /\ \A j \in DOMAIN samples :
       /\ Listed(samples[j]) /\ Len(samples[j]) = n /\ at[j] \in Int
       /\ \A i \in 1..n : samples[j][i].subframes = {at[j]}

At(at, K) == {at[j] : j \in K}

\* A segment read of such a sample is where the samples of its shape are,
\* and says what each of them says.
LEMMA SegmentReadOf ==
  ASSUME NEW samples, NEW n, NEW at, Single(samples, n, at), NEW weights,
         NEW i \in DOMAIN samples, NEW s \in 1..n
  PROVE  LET g == SegmentRead(samples, weights, i, s)
         IN  /\ g.subframes = At(at, OfShape(samples, i))
             /\ g.weight = WeightRead(weights, n - s + 1)
             /\ \A j \in OfShape(samples, i) :
                  /\ g.word = samples[j][n - s + 1].word
                  /\ g.lsb = samples[j][n - s + 1].lsb
                  /\ g.msb = samples[j][n - s + 1].msb
<1> DEFINE q == n - s + 1
           g == SegmentRead(samples, weights, i, s)
           K == OfShape(samples, i)
<1>1. q \in 1..n /\ Len(samples[i]) = n
  BY DEF Single
<1>2. K \subseteq DOMAIN samples /\ \A j \in K : Shape(samples[j]) = Shape(samples[i])
  BY DEF OfShape
<1>3. /\ g.subframes = UNION {samples[j][q].subframes : j \in K}
      /\ g.word = samples[i][q].word /\ g.lsb = samples[i][q].lsb /\ g.msb = samples[i][q].msb
      /\ g.weight = WeightRead(weights, q)
  BY <1>1 DEF SegmentRead, Segment, WeightRead
<1> HIDE DEF q, g, K
<1>4. \A j \in K : samples[j][q].subframes = {at[j]}
  BY <1>1, <1>2 DEF Single
<1>5. g.subframes = At(at, K)
  BY <1>3, <1>4 DEF At
<1>6. ASSUME NEW j \in K
      PROVE  /\ samples[j][q].word = samples[i][q].word
             /\ samples[j][q].lsb = samples[i][q].lsb
             /\ samples[j][q].msb = samples[i][q].msb
  <2>1. \A x \in DOMAIN samples : DOMAIN samples[x] = 1..n
    BY ListFacts DEF Single
  <2>2. q \in DOMAIN samples[j] /\ q \in DOMAIN samples[i]
    BY <1>1, <1>2, <2>1
  <2>3. Shape(samples[j])[q] = Shape(samples[i])[q]
    BY <1>2
  <2>4. \A sample : q \in DOMAIN sample =>
          Shape(sample)[q] = <<sample[q].word, sample[q].lsb, sample[q].msb>>
    BY DEF Shape
  <2>5. <<samples[j][q].word, samples[j][q].lsb, samples[j][q].msb>>
          = <<samples[i][q].word, samples[i][q].lsb, samples[i][q].msb>>
    BY <2>2, <2>3, <2>4
  <2>6. QED
    BY <2>5
<1>7. QED
  BY <1>3, <1>5, <1>6 DEF q, g, K

\* The values of the occurrences read of such samples are theirs.
LEMMA ValuesRead ==
  ASSUME NEW samples, NEW n, NEW at, Single(samples, n, at), NEW weights
  PROVE  LET us == OccurrencesRead(samples, weights)
         IN  UNION {SamplesOfOccurrence(us[k]) : k \in DOMAIN us}
               = {ValueRead(samples[j], at[j], n, weights) : j \in DOMAIN samples}
<1> DEFINE us == OccurrencesRead(samples, weights)
           F == Firsts(samples)
           K(i) == OfShape(samples, i)
           T(i) == {at[j] : j \in K(i)}
           value(j) == ValueRead(samples[j], at[j], n, weights)
<1>1. Listed(samples) /\ n \in Nat \ {0} /\ Len(samples) \in Nat /\ DOMAIN samples = 1..Len(samples)
      /\ \A j \in DOMAIN samples : Len(samples[j]) = n /\ at[j] \in Int
  BY ListFacts DEF Single
<1>2. /\ IsFiniteSet(F) /\ F \subseteq DOMAIN samples /\ F \subseteq Int
      /\ DOMAIN us = 1..Cardinality(F)
      /\ \A k \in DOMAIN us :
           /\ NthOf(F, k) \in F
           /\ us[k].segments = [s \in 1..Len(samples[NthOf(F, k)]) |->
                                  SegmentRead(samples, weights, NthOf(F, k), s)]
  BY <1>1, ReadOfFirsts
<1> HIDE DEF us
<1>3. ASSUME NEW k \in DOMAIN us
      PROVE  SamplesOfOccurrence(us[k]) = {value(j) : j \in K(NthOf(F, k))}
  <2> DEFINE i == NthOf(F, k)
             o == us[k]
             R == T(i)
  <2>1. i \in DOMAIN samples /\ o.segments = [s \in 1..n |-> SegmentRead(samples, weights, i, s)]
    BY <1>1, <1>2
  <2>2. K(i) \subseteq DOMAIN samples
    BY DEF OfShape
  <2>3. IsFiniteSet(R) /\ R \subseteq Int
    <3>1. IsFiniteSet({at[j] : j \in 1..Len(samples)})
      BY <1>1, ImageFinite
    <3> DEFINE A == {at[j] : j \in 1..Len(samples)}
    <3>2. R \in SUBSET A
      BY <1>1, <2>2
    <3>4. A \subseteq Int
      BY <1>1
    <3> HIDE DEF R, A
    <3>3. IsFiniteSet(R)
      BY <3>1, <3>2, FS_Subset DEF A
    <3>5. QED
      BY <3>2, <3>3, <3>4
  <2> HIDE DEF i, o
  <2>4. DOMAIN o.segments = 1..n
    BY <2>1
  <2>5. ASSUME NEW s \in 1..n
        PROVE  LET g == o.segments[s]
               IN  /\ g.subframes = R /\ g.weight = WeightRead(weights, n - s + 1)
                   /\ \A j \in K(i) :
                        /\ g.word = samples[j][n - s + 1].word
                        /\ g.lsb = samples[j][n - s + 1].lsb
                        /\ g.msb = samples[j][n - s + 1].msb
    <3> DEFINE g == SegmentRead(samples, weights, i, s)
    <3>1. o.segments[s] = g
      BY <2>1
    <3>2. /\ g.subframes = At(at, OfShape(samples, i))
          /\ g.weight = WeightRead(weights, n - s + 1)
          /\ \A j \in OfShape(samples, i) :
               /\ g.word = samples[j][n - s + 1].word
               /\ g.lsb = samples[j][n - s + 1].lsb
               /\ g.msb = samples[j][n - s + 1].msb
      BY <2>1, SegmentReadOf
    <3> HIDE DEF g
    <3>3. g.subframes = R
      BY <3>2 DEF At
    <3>4. QED
      BY <3>1, <3>2, <3>3
  <2> HIDE DEF R
  <2>6. SamplesOfOccurrence(o) = {ValueIn(o, n, x) : x \in R}
    <3>1. \A s \in 1..n : o.segments[s].subframes = R
      BY <2>5
    <3>2. QED
      BY <1>1, <2>3, <2>4, <3>1, OccurrenceValues
  <2>7. ASSUME NEW j \in K(i) PROVE ValueIn(o, n, at[j]) = value(j)
    BY <2>5 DEF ValueIn, ValueRead
  <2>8. R = {at[j] : j \in K(i)}
    BY DEF R
  <2> HIDE DEF value, K
  <2>9. QED
    BY <2>6, <2>7, <2>8 DEF o, i
<1>4. ASSUME NEW j \in DOMAIN samples PROVE \E k \in DOMAIN us : j \in K(NthOf(F, k))
  <2> DEFINE E == {x \in 1..Len(samples) : Shape(samples[x]) = Shape(samples[j])}
  <2>1. E \subseteq Nat /\ j \in E
    BY <1>1
  <2>2. PICK i \in E : \A y \in E : i <= y
    <3> HIDE DEF E
    <3>1. \E i \in E : \A y \in E : i <= y
      BY <2>1, LeastNatural
    <3>2. QED
      BY <3>1
  <2>3. i \in F
    <3>1. i \in DOMAIN samples
      BY <1>1
    <3>2. \A x \in 1..(i - 1) : x \notin E /\ x \in 1..Len(samples)
      BY <1>1, <2>1, <2>2
    <3>3. \A x \in 1..(i - 1) : Shape(samples[x]) # Shape(samples[i])
      BY <3>2
    <3>4. QED
      BY <3>1, <3>3 DEF Firsts
  <2>4. j \in K(i)
    BY DEF OfShape
  <2> DEFINE k == Cardinality({t \in F : t < i}) + 1
  <2>5. k \in 1..Cardinality(F) /\ NthOf(F, k) = i
    BY <1>2, <2>3, NthOfOnto
  <2> HIDE DEF k, K, F
  <2>6. QED
    BY <1>2, <2>4, <2>5
<1>5. \A i : K(i) \subseteq DOMAIN samples
  BY DEF OfShape
<1> HIDE DEF K, F, value
<1>6. UNION {SamplesOfOccurrence(us[k]) : k \in DOMAIN us} = {value(j) : j \in DOMAIN samples}
  <2>1. ASSUME NEW k \in DOMAIN us, NEW v \in SamplesOfOccurrence(us[k])
        PROVE  \E j \in DOMAIN samples : v = value(j)
    BY <1>3, <1>5
  <2>2. ASSUME NEW j \in DOMAIN samples
        PROVE  \E k \in DOMAIN us : value(j) \in SamplesOfOccurrence(us[k])
    BY <1>3, <1>4
  <2>3. QED
    BY <2>1, <2>2
<1>7. QED
  BY <1>6 DEF us, value

\* The samples read of the locations of a parameter
SamplesBack(p, n, wps) ==
  LET locations == Locations(p, wps)
  IN  InParts([k \in DOMAIN locations |-> Place(locations[k], wps)], n)

\* Read with the weights of its parts, it has the values it had.
LEMMA ValuesBack ==
  ASSUME NEW p, NEW n, NEW wps \in Nat \ {0}, Even(p, n, wps), NEW weights,
         \A k \in DOMAIN p.occurrences : \A s \in 1..n :
           p.occurrences[k].segments[s].weight = WeightRead(weights, n - s + 1)
  PROVE  LET us == OccurrencesRead(SamplesBack(p, n, wps), weights)
         IN  UNION {SamplesOfOccurrence(us[k]) : k \in DOMAIN us} = Samples(p)
<1> DEFINE os == p.occurrences
           samples == SamplesBack(p, n, wps)
           us == OccurrencesRead(samples, weights)
           at == [j \in DOMAIN samples |-> CHOOSE x \in samples[j][1].subframes : TRUE]
           value(j) == ValueRead(samples[j], at[j], n, weights)
<1>1. n \in Nat \ {0} /\ 1 \in 1..n /\ \A k \in DOMAIN os : Together(os[k], n, wps)
  BY DEF Even
<1>2. Listed(samples) /\ {samples[j] : j \in DOMAIN samples} = UNION {PlacesIn(os[k], n) : k \in DOMAIN os}
  BY PlacesTogether DEF SamplesBack
<1>3. \A k \in DOMAIN os : \A s \in 1..n : os[k].segments[s].weight = WeightRead(weights, n - s + 1)
  OBVIOUS
<1>4. Samples(p) = UNION {SamplesOfOccurrence(os[k]) : k \in DOMAIN os}
  BY DEF Samples
<1> HIDE DEF os, samples
<1>5. ASSUME NEW k \in DOMAIN os, NEW sf \in Where(os[k])
      PROVE  LET b == SamplePlace(os[k], n, sf)
             IN  /\ Listed(b) /\ Len(b) = n /\ \A i \in 1..n : b[i].subframes = {sf}
                 /\ ValueRead(b, sf, n, weights) = ValueIn(os[k], n, sf)
  <2> DEFINE o == os[k]
             b == SamplePlace(o, n, sf)
  <2>1. b = [i \in 1..n |-> b[i]] /\ \A i \in 1..n : b[i] = PlaceOf(o.segments[n - i + 1], sf)
    BY DEF SamplePlace
  <2>2. \A s \in 1..n : o.segments[s].weight = WeightRead(weights, n - s + 1)
    BY <1>3
  <2> HIDE DEF b, o
  <2>3. Listed(b) /\ Len(b) = n
    BY <1>1, <2>1, MadeListed
  <2>4. \A i \in 1..n : b[i].subframes = {sf}
    BY <2>1 DEF PlaceOf
  <2>5. ASSUME NEW s \in 1..n
        PROVE  <<sf, b[n - s + 1].word, b[n - s + 1].lsb, b[n - s + 1].msb, WeightRead(weights, n - s + 1)>>
                 = <<sf, o.segments[s].word, o.segments[s].lsb, o.segments[s].msb, o.segments[s].weight>>
    <3>1. n - s + 1 \in 1..n /\ n - (n - s + 1) + 1 = s
      BY <1>1
    <3>2. b[n - s + 1] = PlaceOf(o.segments[s], sf)
      BY <2>1, <3>1
    <3>3. QED
      BY <2>2, <3>2 DEF PlaceOf
  <2>6. ValueRead(b, sf, n, weights) = ValueIn(o, n, sf)
    BY <2>5 DEF ValueRead, ValueIn
  <2>7. QED
    BY <2>3, <2>4, <2>6 DEF b, o
<1>6. ASSUME NEW j \in DOMAIN samples
      PROVE  \E k \in DOMAIN os : \E sf \in Where(os[k]) :
               samples[j] = SamplePlace(os[k], n, sf) /\ at[j] = sf
  <2>1. PICK k \in DOMAIN os : samples[j] \in PlacesIn(os[k], n)
    BY <1>2
  <2>2. PICK sf \in Where(os[k]) : samples[j] = SamplePlace(os[k], n, sf)
    BY <2>1 DEF PlacesIn
  <2>3. samples[j][1].subframes = {sf}
    BY <1>1, <1>5, <2>2
  <2>4. at[j] = sf
    BY <2>3
  <2>5. QED
    BY <2>2, <2>4
<1> HIDE DEF at
<1>7. Single(samples, n, at)
  <2>1. ASSUME NEW j \in DOMAIN samples
        PROVE  /\ Listed(samples[j]) /\ Len(samples[j]) = n /\ at[j] \in Int
               /\ \A i \in 1..n : samples[j][i].subframes = {at[j]}
    <3>1. PICK k \in DOMAIN os : \E sf \in Where(os[k]) :
            samples[j] = SamplePlace(os[k], n, sf) /\ at[j] = sf
      BY <1>6
    <3>2. PICK sf \in Where(os[k]) : samples[j] = SamplePlace(os[k], n, sf) /\ at[j] = sf
      BY <3>1
    <3>3. sf \in Int
      BY <1>1 DEF Together, Subframes
    <3>4. QED
      BY <1>5, <3>2, <3>3
  <2>2. QED
    BY <1>1, <1>2, <2>1 DEF Single
<1>8. UNION {SamplesOfOccurrence(us[k]) : k \in DOMAIN us} = {value(j) : j \in DOMAIN samples}
  BY <1>7, ValuesRead
<1>9. ASSUME NEW k \in DOMAIN os PROVE SamplesOfOccurrence(os[k]) = {ValueIn(os[k], n, x) : x \in Where(os[k])}
  <2> DEFINE o == os[k]
  <2>1. Together(o, n, wps)
    BY <1>1
  <2> HIDE DEF o
  <2>2. DOMAIN o.segments = 1..n /\ \A s \in 1..n : o.segments[s].subframes = Where(o)
    BY <2>1, ListFacts DEF Together, IsOccurrence
  <2>3. IsFiniteSet(Where(o)) /\ Where(o) \subseteq Int
    BY <2>1, WhereFacts
  <2> DEFINE W == Where(o)
  <2> HIDE DEF W
  <2>4. SamplesOfOccurrence(o) = {ValueIn(o, n, x) : x \in W}
    BY <1>1, <2>2, <2>3, OccurrenceValues DEF W
  <2>5. QED
    BY <2>4 DEF W, o
<1>10. {value(j) : j \in DOMAIN samples} = UNION {SamplesOfOccurrence(os[k]) : k \in DOMAIN os}
  <2>1. ASSUME NEW j \in DOMAIN samples
        PROVE  \E k \in DOMAIN os : value(j) \in SamplesOfOccurrence(os[k])
    <3>1. PICK k \in DOMAIN os : \E sf \in Where(os[k]) :
            samples[j] = SamplePlace(os[k], n, sf) /\ at[j] = sf
      BY <1>6
    <3>2. PICK sf \in Where(os[k]) : samples[j] = SamplePlace(os[k], n, sf) /\ at[j] = sf
      BY <3>1
    <3>3. value(j) = ValueIn(os[k], n, sf)
      BY <1>5, <3>2
    <3> HIDE DEF value
    <3>4. QED
      BY <1>9, <3>3
  <2>2. ASSUME NEW k \in DOMAIN os, NEW v \in SamplesOfOccurrence(os[k])
        PROVE  \E j \in DOMAIN samples : v = value(j)
    <3>1. PICK sf \in Where(os[k]) : v = ValueIn(os[k], n, sf)
      BY <1>9
    <3> DEFINE b == SamplePlace(os[k], n, sf)
    <3>2. b \in UNION {PlacesIn(os[y], n) : y \in DOMAIN os}
      BY DEF PlacesIn
    <3>3. PICK j \in DOMAIN samples : samples[j] = b
      BY <1>2, <3>2
    <3>4. samples[j][1].subframes = {sf}
      BY <1>1, <1>5, <3>3
    <3>5. at[j] = sf
      BY <3>4 DEF at
    <3>6. ValueRead(b, sf, n, weights) = v
      BY <1>5, <3>1
    <3> HIDE DEF b
    <3>7. QED
      BY <3>3, <3>5, <3>6
  <2> HIDE DEF value
  <2>3. QED
    BY <2>1, <2>2
<1>11. QED
  BY <1>4, <1>8, <1>10 DEF samples, os

-----------------------------------------------------------------------------
(* Parameters without errors *)

\* A list of no more than one value has one at every place.
LEMMA OneValue ==
  ASSUME NEW n \in Nat, NEW f, ~(Cardinality({f[k] : k \in 1..n}) > 1),
         NEW j \in 1..n, NEW k \in 1..n
  PROVE  f[j] = f[k]
<1> DEFINE V == {f[x] : x \in 1..n}
<1>1. IsFiniteSet(V)
  BY ImageFinite
<1>2. f[j] \in V /\ f[k] \in V
  OBVIOUS
<1>3. ~(Cardinality(V) > 1)
  OBVIOUS
<1> HIDE DEF V
<1>4. Cardinality(V) \in Nat /\ (Cardinality(V) = 0 => V = {})
  BY <1>1, FS_CardinalityType, FS_EmptySet
<1>5. Cardinality(V) = 1
  BY <1>2, <1>3, <1>4
<1>6. \E x : V = {x}
  BY <1>1, <1>5, FS_Singleton
<1>7. QED
  BY <1>2, <1>6

\* A parameter without errors, of occurrences of one shape, has its parts
\* together.
LEMMA ExpressibleEven ==
  ASSUME NEW d, IsDataframe(d), NEW i \in DOMAIN d.parameters,
         \A x \in Errors(Validate(d)) : x.id # d.parameters[i].id,
         Uniform(d.parameters[i].occurrences)
  PROVE  \E n \in Nat \ {0} : Even(d.parameters[i], n, d.wps)
<1> DEFINE p == d.parameters[i]
           os == p.occurrences
           wps == d.wps
           bare == os = <<>> \/ \E k \in DOMAIN os : os[k].segments = <<>>
           badWord == \E k \in DOMAIN os : \E s \in DOMAIN os[k].segments : BadWord(os[k].segments[s], wps)
           badSubframe == \E k \in DOMAIN os : \E s \in DOMAIN os[k].segments :
                            \/ os[k].segments[s].subframes = {}
                            \/ ~(os[k].segments[s].subframes \subseteq Subframes)
           apart(k) == Cardinality({os[k].segments[s].subframes : s \in DOMAIN os[k].segments}) > 1
           someApart == \E k \in DOMAIN os : apart(k)
           mappings == When(bare, "error", "structural.mapping_empty", p.id)
           words == When(badWord, "error", "structural.word_range", p.id)
           subframes == When(badSubframe, "error", "structural.subframe", p.id)
           scattered == When(someApart, "error", "mapping.subframe_consistency", p.id)
<1>1. /\ mappings \subseteq Structural(p, wps) /\ words \subseteq Structural(p, wps)
      /\ subframes \subseteq Structural(p, wps)
  BY DEF Structural
<1>2. scattered \subseteq Mapping(p)
  BY DEF Mapping
<1>3. Structural(p, wps) \subseteq Validate(d) /\ Mapping(p) \subseteq Validate(d)
  BY DEF Validate
<1>4. /\ bare => Issue("error", "structural.mapping_empty", p.id, NoId) \in mappings
      /\ badWord => Issue("error", "structural.word_range", p.id, NoId) \in words
      /\ badSubframe => Issue("error", "structural.subframe", p.id, NoId) \in subframes
      /\ someApart => Issue("error", "mapping.subframe_consistency", p.id, NoId) \in scattered
  BY DEF When
<1> HIDE DEF mappings, words, subframes, scattered, bare, badWord, badSubframe, someApart
<1>5. \A rule : Issue("error", rule, p.id, NoId) \notin Validate(d)
  <2>1. \A rule : /\ Issue("error", rule, p.id, NoId).severity = "error"
                  /\ Issue("error", rule, p.id, NoId).id = p.id
    BY DEF Issue
  <2>2. QED
    BY <2>1 DEF Errors
<1>6. ~bare /\ ~badWord /\ ~badSubframe /\ ~someApart
  BY <1>1, <1>2, <1>3, <1>4, <1>5
<1>7. /\ os # <<>>
      /\ \A k \in DOMAIN os :
           /\ os[k].segments # <<>> /\ ~apart(k)
           /\ \A s \in DOMAIN os[k].segments :
                /\ os[k].segments[s].word \in 1..wps
                /\ os[k].segments[s].subframes # {}
                /\ os[k].segments[s].subframes \subseteq Subframes
  BY <1>6 DEF bare, badWord, badSubframe, someApart, BadWord
<1>8. IsParameter(p) /\ Listed(os) /\ \A k \in DOMAIN os : IsOccurrence(os[k])
  BY DEF IsDataframe, IsParameter
<1>9. Cardinality({Len(os[k].segments) : k \in DOMAIN os}) = 1
  BY DEF Uniform
<1> HIDE DEF os, wps
<1>10. Len(os) \in Nat /\ DOMAIN os = 1..Len(os) /\ 1 \in 1..Len(os)
  BY <1>7, <1>8, ListFacts, EmptyList, ListsEqual
<1> DEFINE n == Len(os[1].segments)
<1>11. \A k \in DOMAIN os : Len(os[k].segments) = n
  <2> DEFINE f == [k \in 1..Len(os) |-> Len(os[k].segments)]
             m == Len(os)
  <2>1. {Len(os[k].segments) : k \in DOMAIN os} = {f[k] : k \in 1..m}
    BY <1>10
  <2>2. ~(Cardinality({f[k] : k \in 1..m}) > 1)
    <3>1. Cardinality({f[k] : k \in 1..m}) = 1
      BY <1>9, <2>1
    <3> DEFINE c == Cardinality({f[k] : k \in 1..m})
    <3> HIDE DEF c
    <3>2. c = 1
      BY <3>1 DEF c
    <3>3. ~(c > 1)
      BY <3>2
    <3>4. QED
      BY <3>3 DEF c
  <2>3. \A k \in 1..m : f[k] = Len(os[k].segments)
    OBVIOUS
  <2>4. m \in Nat /\ 1 \in 1..m
    BY <1>10
  <2> HIDE DEF f, m
  <2>5. \A k \in 1..m : f[k] = f[1]
    BY <2>2, <2>4, OneValue
  <2>6. QED
    BY <1>10, <2>3, <2>4, <2>5 DEF m
<1>12. n \in Nat \ {0}
  <2> DEFINE o == os[1]
  <2>1. Listed(o.segments) /\ o.segments # <<>>
    BY <1>7, <1>8, <1>10 DEF IsOccurrence
  <2> HIDE DEF o
  <2>2. Len(o.segments) \in Nat \ {0}
    BY <2>1, ListFacts, EmptyList, ListsEqual
  <2>3. QED
    BY <2>2 DEF o
<1> HIDE DEF n
<1>13. ASSUME NEW k \in DOMAIN os PROVE Together(os[k], n, wps)
  <2> DEFINE o == os[k]
  <2>1. /\ IsOccurrence(o) /\ Len(o.segments) = n
        /\ ~(Cardinality({o.segments[s].subframes : s \in DOMAIN o.segments}) > 1)
        /\ \A s \in DOMAIN o.segments : /\ o.segments[s].word \in 1..wps
                                        /\ o.segments[s].subframes # {}
                                        /\ o.segments[s].subframes \subseteq Subframes
    BY <1>7, <1>8, <1>11
  <2> HIDE DEF o
  <2>2. DOMAIN o.segments = 1..n /\ 1 \in 1..n
    BY <1>12, <2>1, ListFacts DEF IsOccurrence
  <2> DEFINE f == [s \in 1..n |-> o.segments[s].subframes]
  <2>3. {o.segments[s].subframes : s \in DOMAIN o.segments} = {f[s] : s \in 1..n}
    BY <2>2
  <2>4. ~(Cardinality({f[s] : s \in 1..n}) > 1)
    BY <2>1, <2>3
  <2>5. \A s \in 1..n : f[s] = o.segments[s].subframes
    OBVIOUS
  <2> HIDE DEF f
  <2>6. \A s \in 1..n : f[s] = f[1]
    BY <1>12, <2>2, <2>4, OneValue
  <2>7. \A s \in 1..n : o.segments[s].subframes = Where(o)
    BY <2>2, <2>5, <2>6 DEF Where
  <2>8. Together(o, n, wps)
    BY <2>1, <2>2, <2>7 DEF Together
  <2>9. QED
    BY <2>8 DEF o
<1>14. Even(p, n, wps)
  BY <1>7, <1>8, <1>12, <1>13 DEF Even, os
<1>15. QED
  BY <1>12, <1>14 DEF wps

-----------------------------------------------------------------------------
(* Digit weights and states *)

\* The weights of an occurrence
WeightsOf(o) == [s \in DOMAIN o.segments |-> o.segments[s].weight]

\* The weights that are read when a parameter is written
WeightsBack(p, n) ==
  IF p.type = "bcd" /\ Len(Weights(p)) = n THEN Weights(p) ELSE <<>>

\* All weights of the occurrences of such a parameter are the same.
LEMMA OneWeighing ==
  ASSUME NEW p, NEW n, NEW wps, Even(p, n, wps),
         Cardinality({WeightsOf(p.occurrences[k]) : k \in DOMAIN p.occurrences}) = 1
  PROVE  \A k \in DOMAIN p.occurrences : \A s \in 1..n :
           p.occurrences[k].segments[s].weight = p.occurrences[1].segments[s].weight
<1> DEFINE os == p.occurrences
           m == Len(os)
           f == [k \in 1..m |-> WeightsOf(os[k])]
<1>1. m \in Nat /\ DOMAIN os = 1..m /\ 1 \in 1..m
  BY EvenShape
<1>2. \A k \in DOMAIN os : DOMAIN os[k].segments = 1..n
  BY ListFacts DEF Even, Together, IsOccurrence
<1>3. Cardinality({WeightsOf(os[k]) : k \in DOMAIN os}) = 1
  OBVIOUS
<1> HIDE DEF os, m
<1>4. {WeightsOf(os[k]) : k \in DOMAIN os} = {f[k] : k \in 1..m}
  BY <1>1
<1>5. ~(Cardinality({f[k] : k \in 1..m}) > 1)
  <2> DEFINE c == Cardinality({f[k] : k \in 1..m})
  <2>1. c = 1
    BY <1>3, <1>4
  <2> HIDE DEF c
  <2>2. ~(c > 1)
    BY <2>1
  <2>3. QED
    BY <2>2 DEF c
<1>6. \A k \in 1..m : f[k] = WeightsOf(os[k])
  OBVIOUS
<1> HIDE DEF f
<1>7. \A k \in 1..m : f[k] = f[1]
  BY <1>1, <1>5, OneValue
<1>8. ASSUME NEW k \in DOMAIN os, NEW s \in 1..n
      PROVE  os[k].segments[s].weight = os[1].segments[s].weight
  <2>1. WeightsOf(os[k])[s] = WeightsOf(os[1])[s]
    BY <1>1, <1>6, <1>7
  <2>2. \A x \in DOMAIN os : WeightsOf(os[x])[s] = os[x].segments[s].weight
    BY <1>2 DEF WeightsOf
  <2>3. QED
    BY <1>1, <2>1, <2>2
<1>9. QED
  BY <1>8 DEF os

\* Where every digit of the occurrences has a weight, those of the first are
\* written, and where none has, none is.
LEMMA WeightsTogether ==
  ASSUME NEW p, NEW n, NEW wps, Even(p, n, wps)
  PROVE  LET os == p.occurrences
         IN  /\ (\A k \in DOMAIN os : \A s \in 1..n : os[k].segments[s].weight # NoWeight) =>
                  /\ Listed(Weights(p)) /\ Len(Weights(p)) = n
                  /\ \A s \in 1..n : Weights(p)[n - s + 1] = os[1].segments[s].weight
             /\ (\A k \in DOMAIN os : \A s \in 1..n : os[k].segments[s].weight = NoWeight) =>
                  Weights(p) = <<>>
<1> DEFINE os == p.occurrences
           K == {k \in DOMAIN os : \A s \in DOMAIN os[k].segments : os[k].segments[s].weight # NoWeight}
           ws == Weighted(os)
           parts == Reverse(ws[1].segments)
           written == [i \in DOMAIN parts |-> parts[i].weight]
<1>1. WithSegments(os) = os /\ Uniform(os) /\ DOMAIN os = 1..Len(os) /\ 1 \in DOMAIN os
  BY EvenShape
<1>2. Weights(p) = IF ws = <<>> THEN <<>> ELSE written
  <2>1. Weights(p) = LET us == Weighted(WithSegments(os))
                     IN  IF us = <<>> \/ ~Uniform(WithSegments(os)) THEN <<>>
                         ELSE LET ps == Reverse(us[1].segments) IN [i \in DOMAIN ps |-> ps[i].weight]
    BY DEF Weights
  <2> HIDE DEF os
  <2>2. QED
    BY <1>1, <2>1
<1>3. ws = Among(os, K) /\ K \in SUBSET DOMAIN os
  BY DEF Weighted
<1>4. Listed(os) /\ \A k \in DOMAIN os : IsOccurrence(os[k]) /\ Len(os[k].segments) = n
  BY DEF Even, IsParameter, Together
<1>5. n \in Nat \ {0} /\ 1 \in 1..n
  BY DEF Even
<1>6. \A k \in DOMAIN os : DOMAIN os[k].segments = 1..n
  BY <1>4, ListFacts DEF IsOccurrence
<1> HIDE DEF os
<1>7. ASSUME \A k \in DOMAIN os : \A s \in 1..n : os[k].segments[s].weight # NoWeight
      PROVE  /\ Listed(Weights(p)) /\ Len(Weights(p)) = n
             /\ \A s \in 1..n : Weights(p)[n - s + 1] = os[1].segments[s].weight
  <2>1. K = DOMAIN os
    BY <1>6, <1>7
  <2>2. ws = os /\ os # <<>>
    BY <1>1, <1>3, <1>4, <2>1, AmongAll, EmptyList
  <2> DEFINE o == os[1]
  <2>3. parts = Reverse(o.segments) /\ IsOccurrence(o) /\ Len(o.segments) = n
    BY <1>1, <1>4, <2>2
  <2> HIDE DEF o, K, ws
  <2>4. DOMAIN parts = 1..n /\ \A i \in 1..n : parts[i] = o.segments[n - i + 1]
    BY <2>3, ReversedParts
  <2>5. Weights(p) = written
    BY <1>2, <2>2
  <2> HIDE DEF parts
  <2>6. written = [i \in 1..n |-> written[i]] /\ \A i \in 1..n : written[i] = o.segments[n - i + 1].weight
    BY <2>4
  <2> HIDE DEF written
  <2>7. Listed(written) /\ Len(written) = n
    BY <1>5, <2>6, MadeListed
  <2>8. ASSUME NEW s \in 1..n PROVE written[n - s + 1] = o.segments[s].weight
    <3>1. n - s + 1 \in 1..n /\ n - (n - s + 1) + 1 = s
      BY <1>5
    <3>2. QED
      BY <2>6, <3>1
  <2>9. QED
    BY <2>5, <2>7, <2>8 DEF o
<1>8. ASSUME \A k \in DOMAIN os : \A s \in 1..n : os[k].segments[s].weight = NoWeight
      PROVE  Weights(p) = <<>>
  <2>1. K = {}
    BY <1>5, <1>6, <1>8
  <2>2. Listed(ws) /\ Len(ws) = 0
    <3>1. Listed(ws) /\ Len(ws) = Cardinality(K)
      BY <1>3, <1>4, AmongFacts
    <3>2. QED
      BY <2>1, <3>1, FS_EmptySet
  <2>3. ws = <<>>
    BY <2>2, EmptyList, ListsEqual, ListFacts
  <2>4. QED
    BY <1>2, <2>3
<1>9. QED
  BY <1>7, <1>8 DEF os

\* The weights read are those of the parts.
LEMMA WeightsRead ==
  ASSUME NEW p, NEW n, NEW wps, Even(p, n, wps),
         p.type = "bcd" => Cardinality({WeightsOf(p.occurrences[k]) : k \in DOMAIN p.occurrences}) = 1
  PROVE  \A k \in DOMAIN p.occurrences : \A s \in 1..n :
           p.occurrences[k].segments[s].weight = WeightRead(WeightsBack(p, n), n - s + 1)
<1> DEFINE os == p.occurrences
           none == \A k \in DOMAIN os : \A s \in 1..n : os[k].segments[s].weight = NoWeight
           every == \A k \in DOMAIN os : \A s \in 1..n : os[k].segments[s].weight # NoWeight
<1>1. n \in Nat \ {0} /\ 1 \in 1..n /\ 1 \in DOMAIN os
  <2>1. n \in Nat \ {0}
    BY DEF Even
  <2>2. 1 \in DOMAIN os
    BY EvenShape
  <2>3. QED
    BY <2>1, <2>2
<1>2. \A k \in DOMAIN os : DOMAIN os[k].segments = 1..n
  BY ListFacts DEF Even, Together, IsOccurrence
<1>3. \A k \in DOMAIN os : \A s, t \in 1..n :
        os[k].segments[s].weight # NoWeight => p.type = "bcd" /\ os[k].segments[t].weight # NoWeight
  <2>1. \A k \in DOMAIN os : Weighed(p.type, os[k])
    BY DEF Even, IsParameter, Coherent
  <2>2. QED
    BY <1>2, <2>1 DEF Weighed
<1>4. p.type = "bcd" =>
        \A k \in DOMAIN os : \A s \in 1..n : os[k].segments[s].weight = os[1].segments[s].weight
  BY OneWeighing
<1>5. none \/ every
  <2> SUFFICES ASSUME ~none PROVE every
    OBVIOUS
  <2>1. PICK k \in DOMAIN os : \E s \in 1..n : os[k].segments[s].weight # NoWeight
    OBVIOUS
  <2>2. p.type = "bcd" /\ \A t \in 1..n : os[k].segments[t].weight # NoWeight
    BY <1>3, <2>1
  <2>3. \A t \in 1..n : os[1].segments[t].weight # NoWeight
    BY <1>4, <2>2
  <2>4. QED
    BY <1>4, <2>2, <2>3
<1>6. CASE none
  <2>1. Weights(p) = <<>>
    BY <1>6, WeightsTogether
  <2>2. WeightsBack(p, n) = <<>>
    BY <1>1, <2>1, EmptyList DEF WeightsBack
  <2>3. QED
    BY <1>6, <2>2 DEF WeightRead
<1>7. CASE every
  <2>1. p.type = "bcd"
    BY <1>1, <1>3, <1>7
  <2>2. /\ Listed(Weights(p)) /\ Len(Weights(p)) = n
        /\ \A s \in 1..n : Weights(p)[n - s + 1] = os[1].segments[s].weight
    BY <1>7, WeightsTogether
  <2>3. WeightsBack(p, n) = Weights(p) /\ Weights(p) # <<>>
    BY <1>1, <2>1, <2>2, EmptyList DEF WeightsBack
  <2>4. QED
    BY <1>4, <2>1, <2>2, <2>3 DEF WeightRead
<1>8. QED
  BY <1>5, <1>6, <1>7

\* A label is read from the one state of its value, or not at all.
LEMMA LabelRead ==
  ASSUME NEW slots, Listed(slots), NEW value
  PROVE  /\ \A i \in DOMAIN slots :
              /\ slots[i].value = value /\ slots[i].label # NoLabel
              /\ \A j \in DOMAIN slots : slots[j].value = value => j = i
              => LabelFor(slots, value) = slots[i].label
         /\ (\A j \in DOMAIN slots : slots[j].value # value) => LabelFor(slots, value) = NoLabel
<1> DEFINE A == {i \in DOMAIN slots : slots[i].value = value /\ slots[i].label # NoLabel}
<1>1. LabelFor(slots, value) = IF A = {} THEN NoLabel ELSE slots[Min(A)].label
  BY DEF LabelFor
<1>2. ASSUME NEW i \in DOMAIN slots, slots[i].value = value, slots[i].label # NoLabel,
             \A j \in DOMAIN slots : slots[j].value = value => j = i
      PROVE  LabelFor(slots, value) = slots[i].label
  <2>1. A = {i}
    BY <1>2
  <2>2. i \in Int
    BY ListFacts
  <2>3. Min({i}) = i
    BY <2>2 DEF Min
  <2> HIDE DEF A
  <2>4. QED
    BY <1>1, <2>1, <2>3
<1>3. (\A j \in DOMAIN slots : slots[j].value # value) => LabelFor(slots, value) = NoLabel
  BY <1>1
<1>4. QED
  BY <1>2, <1>3

\* A list of one state
LEMMA SingleState ==
  ASSUME NEW x
  PROVE  LET t == <<x>> IN Listed(t) /\ Len(t) = 1 /\ t[1] = x
<1> DEFINE t == <<x>>
<1>1. t = [k \in 1..1 |-> t[k]] /\ t[1] = x
  OBVIOUS
<1> HIDE DEF t
<1>2. QED
  BY <1>1, MadeListed DEF t

\* States that two labels say are read back as those labels.
LEMMA LabelsBack ==
  ASSUME NEW zero, NEW one
  PROVE  LET slots == Implied(0, zero) \o Implied(1, one)
         IN  TwoValued(slots) /\ LabelFor(slots, 0) = zero /\ LabelFor(slots, 1) = one
<1> DEFINE a == Implied(0, zero)
           b == Implied(1, one)
           slots == a \o b
<1> SUFFICES TwoValued(slots) /\ LabelFor(slots, 0) = zero /\ LabelFor(slots, 1) = one
  OBVIOUS
<1>1. /\ Listed(a) /\ (zero = NoLabel => Len(a) = 0)
      /\ zero # NoLabel => Len(a) = 1 /\ a[1] = State(0, zero)
  BY EmptyList, SingleState DEF Implied
<1>2. /\ Listed(b) /\ (one = NoLabel => Len(b) = 0)
      /\ one # NoLabel => Len(b) = 1 /\ b[1] = State(1, one)
  BY EmptyList, SingleState DEF Implied
<1> HIDE DEF a, b
<1>3. /\ Listed(slots) /\ Len(slots) = Len(a) + Len(b)
      /\ \A k \in 1..Len(a) : slots[k] = a[k]
      /\ \A k \in 1..Len(b) : slots[Len(a) + k] = b[k]
  BY <1>1, <1>2, JoinedLists
<1> HIDE DEF slots
<1>4. DOMAIN slots = 1..Len(slots)
  BY <1>3, ListFacts
<1>5. /\ State(0, zero).value = 0 /\ State(0, zero).label = zero
      /\ State(1, one).value = 1 /\ State(1, one).label = one
  BY DEF State
<1>6. CASE zero = NoLabel /\ one = NoLabel
  <2>1. DOMAIN slots = {}
    BY <1>1, <1>2, <1>3, <1>4, <1>6
  <2>2. QED
    BY <1>3, <1>6, <2>1, LabelRead DEF TwoValued
<1>7. CASE zero # NoLabel /\ one = NoLabel
  <2>1. DOMAIN slots = {1} /\ slots[1] = State(0, zero)
    <3>1. Len(a) = 1 /\ a[1] = State(0, zero) /\ Len(b) = 0
      BY <1>1, <1>2, <1>7
    <3>2. Len(slots) = 1 /\ 1 \in 1..Len(a)
      BY <1>3, <3>1
    <3>3. slots[1] = a[1]
      BY <1>3, <3>2
    <3>4. DOMAIN slots = 1..1
      BY <1>4, <3>2
    <3>5. QED
      BY <3>1, <3>3, <3>4
  <2>2. TwoValued(slots)
    BY <1>5, <2>1 DEF TwoValued
  <2>3. LabelFor(slots, 0) = slots[1].label
    BY <1>3, <1>5, <1>7, <2>1, LabelRead
  <2>4. LabelFor(slots, 1) = NoLabel
    BY <1>3, <1>5, <2>1, LabelRead
  <2>5. QED
    BY <1>5, <1>7, <2>1, <2>2, <2>3, <2>4
<1>8. CASE zero = NoLabel /\ one # NoLabel
  <2>1. DOMAIN slots = {1} /\ slots[1] = State(1, one)
    <3>1. Len(b) = 1 /\ b[1] = State(1, one) /\ Len(a) = 0
      BY <1>1, <1>2, <1>8
    <3>2. Len(slots) = 1 /\ 1 \in 1..Len(b) /\ Len(a) + 1 = 1
      BY <1>3, <3>1
    <3>3. slots[1] = b[1]
      BY <1>3, <3>2
    <3>4. DOMAIN slots = 1..1
      BY <1>4, <3>2
    <3>5. QED
      BY <3>1, <3>3, <3>4
  <2>2. TwoValued(slots)
    BY <1>5, <2>1 DEF TwoValued
  <2>3. LabelFor(slots, 1) = slots[1].label
    BY <1>3, <1>5, <1>8, <2>1, LabelRead
  <2>4. LabelFor(slots, 0) = NoLabel
    BY <1>3, <1>5, <2>1, LabelRead
  <2>5. QED
    BY <1>5, <1>8, <2>1, <2>2, <2>3, <2>4
<1>9. CASE zero # NoLabel /\ one # NoLabel
  <2>1. DOMAIN slots = {1, 2} /\ slots[1] = State(0, zero) /\ slots[2] = State(1, one)
    <3>1. /\ Len(a) = 1 /\ a[1] = State(0, zero)
          /\ Len(b) = 1 /\ b[1] = State(1, one)
      BY <1>1, <1>2, <1>9
    <3>2. Len(slots) = 2 /\ 1 \in 1..Len(a) /\ 1 \in 1..Len(b) /\ Len(a) + 1 = 2
      BY <1>3, <3>1
    <3>3. slots[1] = a[1] /\ slots[2] = b[1]
      <4>1. slots[1] = a[1]
        BY <1>3, <3>2
      <4>2. slots[Len(a) + 1] = b[1]
        BY <1>3, <3>2
      <4>3. QED
        BY <3>2, <4>1, <4>2
    <3>4. DOMAIN slots = 1..2
      BY <1>4, <3>2
    <3>5. QED
      BY <3>1, <3>3, <3>4
  <2>2. TwoValued(slots)
    BY <1>5, <2>1 DEF TwoValued
  <2>3. LabelFor(slots, 0) = slots[1].label
    BY <1>3, <1>5, <1>9, <2>1, LabelRead
  <2>4. LabelFor(slots, 1) = slots[2].label
    BY <1>3, <1>5, <1>9, <2>1, LabelRead
  <2>5. QED
    BY <1>5, <2>1, <2>2, <2>3, <2>4
<1>10. QED
  BY <1>6, <1>7, <1>8, <1>9

\* The states of a discrete are read back.
LEMMA StatesBack ==
  ASSUME NEW states, states.table = <<>> \/ ~TwoValued(states.table)
  PROVE  EffectiveStates(StatesRead("discrete", EffectiveStates(states))) = EffectiveStates(states)
<1> DEFINE slots == EffectiveStates(states)
           back == StatesRead("discrete", slots)
<1>1. /\ back.one = LabelFor(slots, 1) /\ back.zero = LabelFor(slots, 0)
      /\ back.table = IF TwoValued(slots) THEN <<>> ELSE slots
  BY DEF StatesRead
<1> HIDE DEF back, slots
<1>2. CASE states.table # <<>>
  <2>1. slots = states.table
    BY <1>2 DEF slots, EffectiveStates
  <2>2. back.table = slots /\ slots # <<>>
    BY <1>1, <1>2, <2>1
  <2>3. EffectiveStates(back) = slots
    BY <2>2 DEF EffectiveStates
  <2>4. QED
    BY <2>3 DEF back, slots
<1>3. CASE states.table = <<>>
  <2>1. slots = Implied(0, states.zero) \o Implied(1, states.one)
    BY <1>3 DEF slots, EffectiveStates
  <2>2. TwoValued(slots) /\ LabelFor(slots, 0) = states.zero /\ LabelFor(slots, 1) = states.one
    BY <2>1, LabelsBack
  <2>3. EffectiveStates(back) = slots
    BY <1>1, <2>1, <2>2 DEF EffectiveStates
  <2>4. QED
    BY <2>3 DEF back, slots
<1>4. QED
  BY <1>2, <1>3

-----------------------------------------------------------------------------
(* A parameter read back *)

\* Occurrences alike in canonical form
LEMMA CanonicalAlike ==
  ASSUME NEW os, NEW us, Listed(os), Listed(us),
         \A k \in DOMAIN os : IsOccurrence(os[k]), \A k \in DOMAIN us : IsOccurrence(us[k]),
         Canonically(os) = Canonically(us)
  PROVE  /\ DOMAIN os = DOMAIN us
         /\ \A k \in DOMAIN os :
              /\ DOMAIN os[k].segments = DOMAIN us[k].segments
              /\ \A s \in DOMAIN os[k].segments : AlikeSegments(os[k].segments[s], us[k].segments[s])
<1> DEFINE bare(o) == [o EXCEPT !.segments = [s \in DOMAIN @ |-> [@[s] EXCEPT !.raw = {}]]]
<1>1. /\ Canonically(os) = [k \in DOMAIN os |-> bare(os[k])]
      /\ Canonically(us) = [k \in DOMAIN us |-> bare(us[k])]
  BY DEF Canonically
<1>2. ASSUME NEW o, IsOccurrence(o)
      PROVE  bare(o).segments = [s \in DOMAIN o.segments |-> [o.segments[s] EXCEPT !.raw = {}]]
  <2>1. o = [index |-> o.index, segments |-> o.segments]
    BY <1>2 DEF IsOccurrence, Occurrence
  <2>2. "segments" \in DOMAIN o
    BY <2>1
  <2> DEFINE c == [s \in DOMAIN o.segments |-> [o.segments[s] EXCEPT !.raw = {}]]
  <2>3. bare(o) = [o EXCEPT !.segments = c]
    OBVIOUS
  <2> HIDE DEF c, bare
  <2>4. QED
    BY <2>2, <2>3 DEF c
<1> HIDE DEF bare
<1>3. DOMAIN os = DOMAIN us /\ \A k \in DOMAIN os : bare(os[k]) = bare(us[k])
  <2> DEFINE f == [k \in DOMAIN os |-> bare(os[k])]
             g == [k \in DOMAIN us |-> bare(us[k])]
  <2>1. f = g
    BY <1>1
  <2>2. DOMAIN f = DOMAIN os /\ DOMAIN g = DOMAIN us
    OBVIOUS
  <2>3. /\ \A k \in DOMAIN os : f[k] = bare(os[k])
        /\ \A k \in DOMAIN us : g[k] = bare(us[k])
    OBVIOUS
  <2> HIDE DEF f, g
  <2>4. QED
    BY <2>1, <2>2, <2>3
<1>4. ASSUME NEW k \in DOMAIN os
      PROVE  /\ DOMAIN os[k].segments = DOMAIN us[k].segments
             /\ \A s \in DOMAIN os[k].segments : AlikeSegments(os[k].segments[s], us[k].segments[s])
  <2> DEFINE a == os[k].segments
             b == us[k].segments
             f == [s \in DOMAIN a |-> [a[s] EXCEPT !.raw = {}]]
             g == [s \in DOMAIN b |-> [b[s] EXCEPT !.raw = {}]]
  <2>1. IsOccurrence(os[k]) /\ IsOccurrence(us[k])
    BY <1>3
  <2>2. f = g
    <3>1. bare(os[k]).segments = f
      BY <1>2, <2>1
    <3>2. bare(us[k]).segments = g
      BY <1>2, <2>1
    <3>3. bare(os[k]) = bare(us[k])
      BY <1>3
    <3> HIDE DEF f, g
    <3>4. QED
      BY <3>1, <3>2, <3>3
  <2>3. (\A s \in DOMAIN a : IsSegment(a[s])) /\ (\A s \in DOMAIN b : IsSegment(b[s]))
    BY <2>1 DEF IsOccurrence
  <2> HIDE DEF a, b
  <2>4. DOMAIN a = DOMAIN b /\ \A s \in DOMAIN a : [a[s] EXCEPT !.raw = {}] = [b[s] EXCEPT !.raw = {}]
    <3>1. /\ DOMAIN f = DOMAIN a /\ DOMAIN g = DOMAIN b
          /\ \A s \in DOMAIN a : f[s] = [a[s] EXCEPT !.raw = {}]
          /\ \A s \in DOMAIN b : g[s] = [b[s] EXCEPT !.raw = {}]
      OBVIOUS
    <3> HIDE DEF f, g
    <3>2. QED
      BY <2>2, <3>1
  <2>5. ASSUME NEW s \in DOMAIN a PROVE AlikeSegments(a[s], b[s])
    <3> DEFINE x == a[s]
               y == b[s]
    <3>1. /\ x = Segment(x.sequence, x.subframes, x.word, x.lsb, x.msb, x.weight, x.raw)
          /\ y = Segment(y.sequence, y.subframes, y.word, y.lsb, y.msb, y.weight, y.raw)
      BY <2>3, <2>4 DEF IsSegment
    <3>2. [x EXCEPT !.raw = {}] = [y EXCEPT !.raw = {}]
      BY <2>4
    <3> HIDE DEF x, y
    <3>3. Segment(x.sequence, x.subframes, x.word, x.lsb, x.msb, x.weight, {})
            = Segment(y.sequence, y.subframes, y.word, y.lsb, y.msb, y.weight, {})
      BY <3>1, <3>2, BareSegment
    <3>4. AlikeSegments(x, y)
      BY <3>3 DEF Segment, AlikeSegments
    <3>5. QED
      BY <3>4 DEF x, y
  <2>6. QED
    BY <2>4, <2>5 DEF a, b
<1>5. QED
  BY <1>3, <1>4

\* have the same values.
LEMMA CanonicalSamples ==
  ASSUME NEW p, NEW q, IsParameter(p), IsParameter(q),
         Canonically(p.occurrences) = Canonically(q.occurrences)
  PROVE  Samples(p) = Samples(q)
<1> DEFINE os == p.occurrences
           us == q.occurrences
<1>1. /\ Listed(os) /\ Listed(us) /\ Canonically(os) = Canonically(us)
      /\ \A k \in DOMAIN os : IsOccurrence(os[k])
      /\ \A k \in DOMAIN us : IsOccurrence(us[k])
  BY DEF IsParameter
<1>2. /\ Samples(p) = UNION {SamplesOfOccurrence(os[k]) : k \in DOMAIN os}
      /\ Samples(q) = UNION {SamplesOfOccurrence(us[k]) : k \in DOMAIN us}
  BY DEF Samples
<1> HIDE DEF os, us
<1>3. /\ DOMAIN os = DOMAIN us
      /\ \A k \in DOMAIN os :
           /\ DOMAIN os[k].segments = DOMAIN us[k].segments
           /\ \A s \in DOMAIN os[k].segments : AlikeSegments(os[k].segments[s], us[k].segments[s])
  BY <1>1, CanonicalAlike
<1>4. ASSUME NEW k \in DOMAIN os PROVE SamplesOfOccurrence(os[k]) = SamplesOfOccurrence(us[k])
  <2> DEFINE a == os[k].segments
             b == us[k].segments
             A(n) == [s \in DOMAIN a |-> <<NthOf(a[s].subframes, n), a[s].word, a[s].lsb, a[s].msb, a[s].weight>>]
             B(n) == [s \in DOMAIN b |-> <<NthOf(b[s].subframes, n), b[s].word, b[s].lsb, b[s].msb, b[s].weight>>]
  <2>1. /\ SamplesOfOccurrence(os[k]) = {A(n) : n \in 1..Min(Spread(os[k]))}
        /\ SamplesOfOccurrence(us[k]) = {B(n) : n \in 1..Min(Spread(us[k]))}
    BY DEF SamplesOfOccurrence
  <2>2. /\ Spread(os[k]) = {Cardinality(a[s].subframes) : s \in DOMAIN a}
        /\ Spread(us[k]) = {Cardinality(b[s].subframes) : s \in DOMAIN b}
    BY DEF Spread
  <2>3. DOMAIN a = DOMAIN b /\ \A s \in DOMAIN a : AlikeSegments(a[s], b[s])
    BY <1>3
  <2> HIDE DEF a, b
  <2>4. Spread(os[k]) = Spread(us[k])
    BY <2>2, <2>3 DEF AlikeSegments
  <2>5. \A n : A(n) = B(n)
    BY <2>3 DEF AlikeSegments
  <2> HIDE DEF A, B
  <2>6. QED
    BY <2>1, <2>4, <2>5
<1>5. QED
  BY <1>2, <1>3, <1>4

\* What a parameter read back says of one, its samples aside
SaysOf(q, p) ==
  /\ <<p.name, p.scale>> = <<q.name, q.scale>>
  /\ p.type \in {Canonical(t) : t \in AfdaTypes \cup {p.source}} => p.type = q.type
  /\ p.type = "discrete" => AsMap(EffectiveStates(p.states)) = AsMap(EffectiveStates(q.states))

\* A parameter of one number of digit weights
OneWeighed(p) ==
  p.type = "bcd" => Cardinality({WeightsOf(p.occurrences[k]) : k \in DOMAIN p.occurrences}) = 1

\* A record that a parameter still matches says what it says.
LEMMA MatchedBack ==
  ASSUME NEW p, IsParameter(p), NEW r, IsRecord(r), NEW wps, StillMatches(p, r, wps), NEW i
  PROVE  LET q == ParseRecord(r, i, wps) IN SaysOf(q, p) /\ Samples(p) = Samples(q)
<1> DEFINE q == ParseRecord(r, i, wps)
           q0 == ParseRecord(r, 0, wps)
<1>1. RecordReadable(r, wps) /\ SameParameter(p, q0)
  BY DEF StillMatches
<1>2. /\ q.name = q0.name /\ q.source = q0.source /\ q.type = q0.type /\ q.scale = q0.scale
      /\ q.states = q0.states /\ q.occurrences = q0.occurrences
  BY DEF ParseRecord
<1>3. IsParameter(q0)
  BY <1>1, RecordRead
<1> HIDE DEF q, q0
<1>4. Samples(p) = Samples(q0)
  BY <1>1, <1>3, CanonicalSamples DEF SameParameter
<1>5. Samples(q) = Samples(q0)
  BY <1>2 DEF Samples
<1>6. SaysOf(q, p)
  BY <1>1, <1>2 DEF SaysOf, SameParameter
<1>7. QED
  BY <1>4, <1>5, <1>6 DEF q

\* So does a record written anew.
LEMMA GeneratedBack ==
  ASSUME NEW p, IsParameter(p), NEW wps \in Nat \ {0}, NEW i
  PROVE  LET q == ParseRecord(Generated(p, wps), i, wps)
         IN  /\ SaysOf(q, p)
             /\ \A n \in Nat : Even(p, n, wps) /\ OneWeighed(p) => Samples(p) = Samples(q)
<1> DEFINE r == Generated(p, wps)
           q == ParseRecord(r, i, wps)
           type == Canonical(r.source)
<1> SUFFICES SaysOf(q, p) /\ \A n \in Nat : Even(p, n, wps) /\ OneWeighed(p) => Samples(p) = Samples(q)
  OBVIOUS
<1>1. /\ r.name = p.name /\ r.source = AfdaText(p.type, p.source) /\ r.scale = p.scale
      /\ r.parts = Parts(p) /\ r.locations = Locations(p, wps)
      /\ p.type = "discrete" => r.slots = EffectiveStates(p.states)
      /\ p.type = "bcd" => r.slots = [x \in DOMAIN Weights(p) |-> State(Weights(p)[x], NoLabel)]
  BY DEF Generated
<1> DEFINE weights == IF type = "bcd" /\ Len(r.slots) = r.parts
                      THEN [k \in DOMAIN r.slots |-> r.slots[k].value] ELSE <<>>
           places == [k \in DOMAIN r.locations |-> Place(r.locations[k], wps)]
<1>2. /\ q.name = r.name /\ q.scale = r.scale /\ q.type = type
      /\ q.states = StatesRead(type, r.slots)
      /\ q.occurrences = OccurrencesRead(InParts(places, r.parts), weights)
  BY DEF ParseRecord
<1>3. Coherent(p.type, p.source, p.states, p.occurrences)
  BY DEF IsParameter
<1>4. /\ type = "bcd" <=> p.type = "bcd"
      /\ p.type \in {Canonical(t) : t \in AfdaTypes \cup {p.source}} => type = p.type
  BY <1>1, <1>3, TypeWritten DEF Coherent
<1> HIDE DEF r, q
<1>5. SaysOf(q, p)
  <2>1. p.type = "discrete" => type = "discrete"
    <3>1. "Discrete" \in AfdaTypes /\ Canonical("Discrete") = "discrete"
      BY DEF AfdaTypes, Canonical
    <3>2. QED
      BY <1>4, <3>1
  <2>2. p.type = "discrete" => EffectiveStates(q.states) = EffectiveStates(p.states)
    BY <1>1, <1>2, <1>3, <2>1, StatesBack DEF Coherent
  <2> HIDE DEF type
  <2>3. QED
    BY <1>1, <1>2, <1>4, <2>2 DEF SaysOf
<1>6. ASSUME NEW n \in Nat, Even(p, n, wps), OneWeighed(p) PROVE Samples(p) = Samples(q)
  <2>1. n \in Nat \ {0} /\ Parts(p) = n
    <3>1. n \in Nat \ {0}
      BY <1>6 DEF Even
    <3>2. QED
      BY <1>6, <3>1, EvenShape
  <2>2. \A k \in DOMAIN p.occurrences : \A s \in 1..n :
          p.occurrences[k].segments[s].weight = WeightRead(WeightsBack(p, n), n - s + 1)
    BY <1>6, WeightsRead DEF OneWeighed
  <2>3. weights = WeightsBack(p, n)
    <3> DEFINE w == Weights(p)
               slots == [x \in DOMAIN w |-> State(w[x], NoLabel)]
    <3>1. Listed(w)
      BY WeightsWritten
    <3>2. p.type = "bcd" => r.slots = slots
      BY <1>1
    <3>3. WeightsBack(p, n) = IF p.type = "bcd" /\ Len(w) = n THEN w ELSE <<>>
      BY DEF WeightsBack
    <3> HIDE DEF w
    <3>4. Len(w) \in Nat /\ DOMAIN w = 1..Len(w) /\ w = [k \in 1..Len(w) |-> w[k]]
      BY <3>1, ListFacts
    <3>5. slots = [x \in 1..Len(w) |-> slots[x]] /\ \A x \in 1..Len(w) : slots[x].value = w[x]
      BY <3>4 DEF State
    <3> HIDE DEF slots
    <3>6. Len(slots) = Len(w) /\ DOMAIN slots = 1..Len(w)
      BY <3>4, <3>5, MadeListed
    <3>7. [k \in DOMAIN slots |-> slots[k].value] = w
      BY <3>4, <3>5, <3>6
    <3>8. CASE p.type = "bcd"
      <4>1. weights = IF Len(slots) = n THEN [k \in DOMAIN slots |-> slots[k].value] ELSE <<>>
        BY <1>1, <1>4, <2>1, <3>2, <3>8
      <4>2. QED
        BY <3>3, <3>6, <3>7, <3>8, <4>1
    <3>9. CASE p.type # "bcd"
      BY <1>4, <3>3, <3>9
    <3>10. QED
      BY <3>8, <3>9
  <2>4. InParts(places, r.parts) = SamplesBack(p, n, wps)
    BY <1>1, <2>1 DEF SamplesBack
  <2> HIDE DEF weights, places
  <2> DEFINE us == OccurrencesRead(SamplesBack(p, n, wps), WeightsBack(p, n))
  <2>5. q.occurrences = us
    BY <1>2, <2>3, <2>4
  <2>6. UNION {SamplesOfOccurrence(us[k]) : k \in DOMAIN us} = Samples(p)
    BY <1>6, <2>2, ValuesBack
  <2>7. Samples(q) = UNION {SamplesOfOccurrence(q.occurrences[k]) : k \in DOMAIN q.occurrences}
    BY DEF Samples
  <2> HIDE DEF us
  <2>8. QED
    BY <2>5, <2>6, <2>7
<1>7. QED
  BY <1>5, <1>6

\* A parameter is written as a record that says what it says.
LEMMA WrittenBack ==
  ASSUME NEW p, IsParameter(p), NEW wps \in Nat \ {0}, NEW i
  PROVE  LET q == ParseRecord(Record(p, wps), i, wps)
         IN  /\ SaysOf(q, p)
             /\ \A n \in Nat : Even(p, n, wps) /\ OneWeighed(p) => Samples(p) = Samples(q)
<1>1. CASE p.record # <<>> /\ StillMatches(p, p.record[1], wps)
  <2>1. Record(p, wps) = p.record[1]
    BY <1>1 DEF Record
  <2>2. IsRecord(p.record[1])
    BY <1>1 DEF IsParameter
  <2>3. QED
    BY <1>1, <2>1, <2>2, MatchedBack
<1>2. CASE ~(p.record # <<>> /\ StillMatches(p, p.record[1], wps))
  <2>1. Record(p, wps) = Generated(p, wps)
    BY <1>2 DEF Record
  <2>2. QED
    BY <2>1, GeneratedBack
<1>3. QED
  BY <1>1, <1>2

-----------------------------------------------------------------------------
(* What holds of every behaviour *)

\* Whatever was edited, added, moved, exported or failed to be, a parameter
\* that is as it was read is written back as the record it was read from, at
\* the place it now has.
THEOREM UntouchedVerbatim == Spec => []OthersVerbatim
<1>1. IInv => OthersVerbatim
  <2> SUFFICES ASSUME IInv, ~store.dirty, home \in Paths \ spoiled, d0.wps = opened.wps,
                      NEW i \in DOMAIN d0.parameters, NEW k \in DOMAIN opened.records,
                      d0.parameters[i] = ParseRecord(opened.records[k], k, opened.wps)
               PROVE  files[home].records[i] = opened.records[k]
    BY DEF OthersVerbatim
  <2>1. opened # NoFile
    BY DEF NoFile
  <2>2. RecordReadable(opened.records[k], opened.wps)
    BY <2>1 DEF IInv, FileReadable
  <2>3. CASE files[home] = AdbText(d0)
    <3>1. files[home].records[i] = Record(d0.parameters[i], d0.wps)
      BY <2>3 DEF AdbText
    <3>2. QED
      BY <2>2, <3>1, ReadWrittenBack
  <2>4. CASE files[home] = opened /\ d0 = ParseFile(opened)
    <3>1. d0.parameters[i] = ParseRecord(opened.records[i], i, opened.wps)
      BY <2>4 DEF ParseFile
    <3> DEFINE r == opened.records[i]
               s == opened.records[k]
    <3>2. ParseRecord(r, i, opened.wps) = ParseRecord(s, k, opened.wps)
      BY <3>1
    <3>3. files[home].records[i] = r
      BY <2>4
    <3> HIDE DEF r, s
    <3>4. r = s
      BY <3>2, ReadOnce
    <3>5. QED
      BY <3>3, <3>4 DEF s
  <2>5. QED
    BY <2>3, <2>4 DEF IInv, InItsFile
<1>2. QED
  BY <1>1, InitFiles, NextFiles, PTL DEF Spec

\* Whatever edits, loads, failed saves, commits and reopenings came between, a
\* document saved without an error is loaded as the dataframe it was saved
\* from: the same ids, parameters that say the same, and the same records to
\* export, though a stored selector stands for the subframes of a segment.
THEOREM StoredWhole == Spec => []StoredAsGiven
<1>1. Made => StoredAsGiven
  <2> SUFFICES ASSUME Made, NEW k \in DOMAIN given, given[k].whole
               PROVE  LET loaded == LoadDataframe(Documents[k])
                          d == given[k].document
                      IN  /\ loaded.wps = d.wps /\ Len(loaded.parameters) = Len(d.parameters)
                          /\ \A i \in DOMAIN d.parameters :
                               /\ loaded.parameters[i].id = d.parameters[i].id
                               /\ SameParameter(loaded.parameters[i], d.parameters[i])
                               /\ Record(loaded.parameters[i], d.wps) = Record(d.parameters[i], d.wps)
    BY Zenon DEF StoredAsGiven
  <2> DEFINE d == given[k].document
  <2>1. k \in 1..Len(given)
    BY ListFacts DEF Made, Rows
  <2>2. IsDataframe(d) /\ Documents[k] = StoredDocument(d)
    BY <2>1 DEF Made, Rows, Documents
  <2> HIDE DEF d
  <2>3. LET loaded == LoadDataframe(StoredDocument(d))
        IN  /\ loaded.wps = d.wps /\ Len(loaded.parameters) = Len(d.parameters)
            /\ \A i \in DOMAIN d.parameters :
                 /\ loaded.parameters[i].id = d.parameters[i].id
                 /\ SameParameter(loaded.parameters[i], d.parameters[i])
                 /\ Record(loaded.parameters[i], d.wps) = Record(d.parameters[i], d.wps)
    BY <2>2, DocumentBack
  <2>4. QED
    BY <2>2, <2>3 DEF d
<1>2. QED
  BY <1>1, InitFiles, NextFiles, InitMade, NextMade, PTL DEF Spec

\* Whatever was edited and wherever it was exported, the file of an unmodified
\* dataframe without errors can be opened again: no kept or generated record
\* has a location outside the frame.
THEOREM ExportReadable == Spec => []ReadableExport
<1>1. IInv /\ Made => ReadableExport
  <2> SUFFICES ASSUME IInv, Made, ~store.dirty, home \in Paths \ spoiled, Errors(store.issues) = {}
               PROVE  FileReadable(files[home])
    BY DEF ReadableExport
  <2>1. IsDataframe(d0) /\ d0.wps > 0 /\ store.issues = Validate(d0)
    BY DEF Made
  <2>2. d0.wps \in Nat \ {0}
    BY <2>1 DEF IsDataframe
  <2>3. CASE files[home] = AdbText(d0)
    <3>1. ASSUME NEW i \in DOMAIN d0.parameters
          PROVE  RecordReadable(Record(d0.parameters[i], d0.wps), d0.wps)
      <4> DEFINE p == d0.parameters[i]
      <4>1. IsParameter(p)
        BY <2>1 DEF IsDataframe
      <4>2. Sound(p, d0.wps)
        BY <2>1, CleanSound
      <4> HIDE DEF p
      <4>3. RecordReadable(Generated(p, d0.wps), d0.wps)
        <5>1. Generated(p, d0.wps).locations = Locations(p, d0.wps)
          BY DEF Generated
        <5>2. QED
          BY <2>2, <4>1, <4>2, <5>1, LocationsReadable DEF RecordReadable
      <4>4. RecordReadable(Record(p, d0.wps), d0.wps)
        BY <4>3 DEF Record, StillMatches
      <4>5. QED
        BY <4>4 DEF p
    <3>2. /\ files[home].wps = d0.wps /\ DOMAIN files[home].records = DOMAIN d0.parameters
          /\ \A i \in DOMAIN d0.parameters : files[home].records[i] = Record(d0.parameters[i], d0.wps)
      BY <2>3 DEF AdbText
    <3>3. QED
      BY <2>1, <3>1, <3>2 DEF FileReadable
  <2>4. CASE files[home] = opened /\ d0 = ParseFile(opened)
    <3>1. d0.wps = opened.wps
      BY <2>4 DEF ParseFile
    <3>2. opened # NoFile
      BY <2>1, <3>1 DEF NoFile
    <3>3. QED
      BY <2>4, <3>2 DEF IInv
  <2>5. QED
    BY <2>3, <2>4 DEF IInv, InItsFile
<1>2. QED
  BY <1>1, InitFiles, NextFiles, InitMade, NextMade, PTL DEF Spec

\* Whatever was loaded, edited, exported or failed to be, the file of an
\* unmodified dataframe, read back, has its parameters: their names, scales,
\* types and states, and the same bits with the same digit weights for every
\* parameter the format can hold.
THEOREM CleanIsWritten == Spec => []CleanMeansWritten
<1>1. IInv /\ Made => CleanMeansWritten
  <2> SUFFICES ASSUME IInv, Made, ~store.dirty, home \in Paths \ spoiled
               PROVE  LET back == ParseFile(files[home])
                      IN  /\ back.wps = d0.wps /\ Len(back.parameters) = Len(d0.parameters)
                          /\ \A i \in DOMAIN d0.parameters :
                               LET p == d0.parameters[i]  q == back.parameters[i]
                               IN  SaysOf(q, p) /\ (Expressible(p) => Samples(p) = Samples(q))
    BY DEF CleanMeansWritten, SaysOf
  <2> DEFINE f == files[home]
             back == ParseFile(f)
             ps == d0.parameters
  <2>1. IsDataframe(d0) /\ d0.wps > 0 /\ store.issues = Validate(d0)
    BY DEF Made
  <2>2. d0.wps \in Nat \ {0} /\ Listed(ps) /\ \A i \in DOMAIN ps : IsParameter(ps[i])
    BY <2>1 DEF IsDataframe
  <2>3. /\ back.wps = f.wps
        /\ back.parameters = [i \in DOMAIN f.records |-> ParseRecord(f.records[i], i, f.wps)]
    BY DEF ParseFile
  <2>4. CASE f = AdbText(d0)
    <3>1. f.wps = d0.wps /\ f.records = [i \in DOMAIN ps |-> Record(ps[i], d0.wps)]
      BY <2>4 DEF AdbText
    <3> HIDE DEF f, back, ps
    <3>2. back.parameters = [i \in DOMAIN ps |-> ParseRecord(Record(ps[i], d0.wps), i, d0.wps)]
      BY <2>3, <3>1
    <3>3. Len(back.parameters) = Len(ps)
      <4> DEFINE bs == back.parameters
                 m == Len(ps)
      <4>1. m \in Nat /\ DOMAIN ps = 1..m
        BY <2>2, ListFacts
      <4>2. bs = [i \in 1..m |-> bs[i]]
        BY <3>2, <4>1
      <4> HIDE DEF bs, m
      <4>3. Len(bs) = m
        BY <4>1, <4>2, MadeListed
      <4>4. QED
        BY <4>3 DEF bs, m
    <3>4. ASSUME NEW i \in DOMAIN ps
          PROVE  /\ SaysOf(back.parameters[i], ps[i])
                 /\ Expressible(ps[i]) => Samples(ps[i]) = Samples(back.parameters[i])
      <4> DEFINE p == ps[i]
                 q == back.parameters[i]
      <4>1. q = ParseRecord(Record(p, d0.wps), i, d0.wps)
        BY <3>2
      <4>2. IsParameter(p)
        BY <2>2
      <4>3. Expressible(p) => (\E n \in Nat \ {0} : Even(p, n, d0.wps)) /\ OneWeighed(p)
        <5> SUFFICES ASSUME Expressible(p) PROVE (\E n \in Nat \ {0} : Even(p, n, d0.wps)) /\ OneWeighed(p)
          OBVIOUS
        <5>1. \A x \in Errors(Validate(d0)) : x.id # d0.parameters[i].id
          BY <2>1 DEF Expressible, ps
        <5>2. Uniform(d0.parameters[i].occurrences) /\ i \in DOMAIN d0.parameters
          BY DEF Expressible, ps
        <5>3. \E n \in Nat \ {0} : Even(d0.parameters[i], n, d0.wps)
          BY <2>1, <5>1, <5>2, ExpressibleEven
        <5>4. OneWeighed(p)
          BY DEF Expressible, OneWeighed, WeightsOf
        <5>5. QED
          BY <5>3, <5>4 DEF ps
      <4> HIDE DEF p, q
      <4>4. /\ SaysOf(q, p)
            /\ \A n \in Nat : Even(p, n, d0.wps) /\ OneWeighed(p) => Samples(p) = Samples(q)
        BY <2>2, <4>1, <4>2, WrittenBack
      <4>5. Expressible(p) => Samples(p) = Samples(q)
        BY <4>3, <4>4
      <4>6. QED
        BY <4>4, <4>5 DEF p, q
    <3>5. QED
      BY <2>3, <3>1, <3>3, <3>4 DEF f, back, ps
  <2>5. CASE f = opened /\ d0 = ParseFile(opened)
    <3>1. back = d0
      BY <2>5
    <3>2. \A p : SaysOf(p, p)
      BY DEF SaysOf
    <3>3. QED
      BY <3>1, <3>2
  <2>6. QED
    BY <2>4, <2>5 DEF IInv, InItsFile
<1>2. QED
  BY <1>1, InitFiles, NextFiles, InitMade, NextMade, PTL DEF Spec
=============================================================================
