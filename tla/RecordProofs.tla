----------------------------- MODULE RecordProofs ----------------------------
(***************************************************************************)
(* Proofs about the capabilities that keep records and must not lose,      *)
(* repeat, mix up or miscount them: the audit log (Audit), archives        *)
(* (Archival), routes of keys (Sharding), values handed to plugins         *)
(* (Plugins), experiments (Chaos), what a configuration was loaded from    *)
(* (ConfigLoading), the ledger, the lock and the targets of migrations     *)
(* (Migration), compliance reports (Compliance), budgets (Cost), the turns *)
(* of backends and the window of requests (Traffic) and the cache (Cache). *)
(* Many rest on what FlattenSeq and SumFunction return for every sequence  *)
(* and every finite function, which is shown by induction: the set of the  *)
(* lengths, or cardinalities, for which it holds contains zero and, with   *)
(* every number, the next one (SetInduction).                              *)
(***************************************************************************)
EXTENDS Audit, Archival, Sharding, Plugins, Chaos, ConfigLoading, Migration, Compliance,
        Cost, Traffic, Cache, FiniteSetTheorems, FunctionTheorems, WellFoundedInduction, TLAPS

-----------------------------------------------------------------------------
(* Induction and sequences                                                 *)

\* Every non-empty set of naturals has a least element.
LEMMA LeastNat ==
  ASSUME NEW T, T \subseteq Nat, T # {}
  PROVE  \E x \in T : \A y \in T : x <= y
<1> DEFINE R == OpToRel(<, Nat)
<1>1. IsWellFoundedOn(R, Nat)
  BY NatLessThanWellFounded
<1>2. \A x, y \in Nat : y < x => <<y, x>> \in R
  BY DEF OpToRel
<1> HIDE DEF R
<1>3. \E x \in T : \A y \in T : ~(<<y, x>> \in R)
  BY <1>1, WFMin
<1>4. PICK x \in T : \A y \in T : ~(<<y, x>> \in R)
  BY <1>3
<1>5. ASSUME NEW y \in T PROVE x <= y
  <2>1. x \in Nat /\ y \in Nat
    OBVIOUS
  <2>2. ~(y < x)
    BY <1>2, <1>4, <2>1, Zenon
  <2> QED
    BY <2>1, <2>2
<1> QED
  BY <1>5

\* Induction on a set: none of its complement could be the least.
LEMMA SetInduction ==
  ASSUME NEW S, 0 \in S, \A n \in Nat : n \in S => n + 1 \in S
  PROVE  Nat \subseteq S
<1> DEFINE T == Nat \ S
<1> SUFFICES ASSUME T # {} PROVE FALSE
  OBVIOUS
<1>1. PICK x \in T : \A y \in T : x <= y
  BY LeastNat
<1>2. x # 0 /\ x \in Nat
  OBVIOUS
<1>3. x - 1 \in Nat /\ x - 1 \notin T
  BY <1>1, <1>2
<1> QED
  BY <1>2, <1>3

\* The partial results of FlattenSeq.
IsFlat(f, seqs, n) ==
  f = [i \in 1..n |-> IF i = 1 THEN seqs[i] ELSE f[i - 1] \o seqs[i]]

LEMMA FlatExists ==
  ASSUME NEW seqs
  PROVE  \A n \in Nat : \E f : IsFlat(f, seqs, n)
<1> DEFINE P == {n \in Nat : \E f : IsFlat(f, seqs, n)}
<1>1. 0 \in P
  <2> DEFINE g == [i \in 1..0 |-> seqs[i]]
  <2>1. IsFlat(g, seqs, 0)
    BY 1..0 = {} DEF IsFlat
  <2> QED BY <2>1
<1>2. ASSUME NEW n \in Nat, n \in P PROVE n + 1 \in P
  <2>1. PICK f : IsFlat(f, seqs, n)
    BY <1>2
  <2> DEFINE v == IF n + 1 = 1 THEN seqs[n+1] ELSE f[n] \o seqs[n+1]
             g == [i \in 1..(n+1) |-> IF i = n + 1 THEN v ELSE f[i]]
  <2>3. ASSUME NEW i \in 1..(n+1)
        PROVE  g[i] = IF i = 1 THEN seqs[i] ELSE g[i-1] \o seqs[i]
    <3>1. CASE i = n + 1
      <4>1. CASE n = 0
        BY <3>1, <4>1
      <4>2. CASE n # 0
        <5>1. g[i-1] = f[n] 
          BY <3>1, <4>2
        <5>2. g[i] = v /\ i # 1
          BY <3>1, <4>2
        <5> QED BY <5>1, <5>2, <3>1, <4>2
      <4> QED BY <4>1, <4>2
    <3>2. CASE i # n + 1
      <4>1. i \in 1..n /\ g[i] = f[i]
        BY <3>2
      <4>2. f[i] = IF i = 1 THEN seqs[i] ELSE f[i-1] \o seqs[i]
        BY <2>1, <4>1 DEF IsFlat
      <4>3. i # 1 => g[i-1] = f[i-1]
        BY <4>1
      <4> QED BY <4>1, <4>2, <4>3
    <3> QED BY <3>1, <3>2
  <2>4. IsFlat(g, seqs, n + 1)
    BY <2>3 DEF IsFlat
  <2> HIDE DEF g
  <2> QED BY <2>4
<1> HIDE DEF P
<1>3. Nat \subseteq P
  BY <1>1, <1>2, SetInduction
<1> QED BY <1>3 DEF P

LEMMA FlattenIsFlat ==
  ASSUME NEW seqs, Len(seqs) \in Nat \ {0}
  PROVE  \E f : IsFlat(f, seqs, Len(seqs)) /\ FlattenSeq(seqs) = f[Len(seqs)]
<1> DEFINE flatten == CHOOSE f : IsFlat(f, seqs, Len(seqs))
<1>1. IsFlat(flatten, seqs, Len(seqs))
  BY FlatExists
<1>2. FlattenSeq(seqs) = flatten[Len(seqs)]
  BY DEF FlattenSeq, IsFlat
<1> QED BY <1>1, <1>2

LEMMA SetOfConcat ==
  ASSUME NEW S, NEW s \in Seq(S), NEW t \in Seq(S)
  PROVE  ToSet(s \o t) = ToSet(s) \cup ToSet(t)
<1>1. /\ s \o t \in Seq(S) /\ Len(s \o t) = Len(s) + Len(t)
      /\ \A i \in 1..Len(s) : (s \o t)[i] = s[i]
      /\ \A i \in 1..Len(t) : (s \o t)[Len(s) + i] = t[i]
  OBVIOUS
<1>2. /\ DOMAIN s = 1..Len(s) /\ DOMAIN t = 1..Len(t)
      /\ DOMAIN (s \o t) = 1..(Len(s) + Len(t)) /\ Len(s) \in Nat /\ Len(t) \in Nat
  BY <1>1
<1>3. ASSUME NEW x \in ToSet(s \o t) PROVE x \in ToSet(s) \cup ToSet(t)
  <2>1. PICK i \in 1..(Len(s) + Len(t)) : (s \o t)[i] = x
    BY <1>2, <1>3 DEF ToSet
  <2>2. CASE i <= Len(s)
    BY <1>1, <1>2, <2>1, <2>2 DEF ToSet
  <2>3. CASE ~(i <= Len(s))
    <3>1. i - Len(s) \in 1..Len(t) /\ Len(s) + (i - Len(s)) = i
      BY <1>2, <2>1, <2>3
    <3>2. x = t[i - Len(s)]
      BY <1>1, <2>1, <3>1
    <3> QED
      BY <1>2, <3>1, <3>2 DEF ToSet
  <2> QED
    BY <2>2, <2>3
<1>4. ASSUME NEW x \in ToSet(s) PROVE x \in ToSet(s \o t)
  <2>1. PICK i \in 1..Len(s) : s[i] = x
    BY <1>2, <1>4 DEF ToSet
  <2>2. i \in 1..(Len(s) + Len(t)) /\ (s \o t)[i] = x
    BY <1>1, <1>2, <2>1
  <2> QED
    BY <1>2, <2>2 DEF ToSet
<1>5. ASSUME NEW x \in ToSet(t) PROVE x \in ToSet(s \o t)
  <2>1. PICK i \in 1..Len(t) : t[i] = x
    BY <1>2, <1>5 DEF ToSet
  <2>2. Len(s) + i \in 1..(Len(s) + Len(t)) /\ (s \o t)[Len(s) + i] = x
    BY <1>1, <1>2, <2>1
  <2> QED
    BY <1>2, <2>2 DEF ToSet
<1> QED
  BY <1>3, <1>4, <1>5

LEMMA SetOfAppend ==
  ASSUME NEW S, NEW s \in Seq(S), NEW x \in S
  PROVE  ToSet(Append(s, x)) = ToSet(s) \cup {x}
<1> DEFINE t == Append(s, x)
<1>1. /\ DOMAIN s = 1..Len(s) /\ DOMAIN t = 1..(Len(s) + 1) /\ Len(s) \in Nat
      /\ \A i \in 1..Len(s) : t[i] = s[i]
      /\ t[Len(s) + 1] = x
  OBVIOUS
<1> HIDE DEF t
<1>2. 1..(Len(s) + 1) = 1..Len(s) \cup {Len(s) + 1}
  BY <1>1
<1>3. ToSet(t) = ToSet(s) \cup {x}
  BY <1>1, <1>2 DEF ToSet
<1> QED
  BY <1>3 DEF t

\* What FlattenSeq returns has the elements of the sequences it joins.
LEMMA FlattenElements ==
  ASSUME NEW S, NEW seqs \in Seq(Seq(S))
  PROVE  /\ FlattenSeq(seqs) \in Seq(S)
         /\ \A x : x \in ToSet(FlattenSeq(seqs))
                  <=> \E i \in 1..Len(seqs) : x \in ToSet(seqs[i])
<1> DEFINE n == Len(seqs)
<1>0. n \in Nat /\ DOMAIN seqs = 1..n /\ \A i \in 1..n : seqs[i] \in Seq(S)
  OBVIOUS
<1>1. CASE n = 0
  <2>1. seqs = << >>
    BY <1>1
  <2>2. FlattenSeq(seqs) = << >>
    BY <1>1, <2>1 DEF FlattenSeq
  <2>3. ToSet(<< >>) = {} /\ 1..n = {}
    BY <1>1 DEF ToSet
  <2>4. << >> \in Seq(S)
    OBVIOUS
  <2> QED
    BY <2>2, <2>3, <2>4
<1>2. CASE n # 0
  <2>1. PICK f : IsFlat(f, seqs, n) /\ FlattenSeq(seqs) = f[n]
    BY <1>0, <1>2, FlattenIsFlat
  <2> DEFINE Good(k) ==
               /\ f[k] \in Seq(S)
               /\ \A x : x \in ToSet(f[k]) <=> \E i \in 1..k : x \in ToSet(seqs[i])
             Q == {k \in Nat : k \in 1..n => Good(k)}
  <2>2. 0 \in Q
    OBVIOUS
  <2>3. ASSUME NEW k \in Nat, k \in Q PROVE k + 1 \in Q
    <3> SUFFICES ASSUME k + 1 \in 1..n PROVE Good(k + 1)
      <4> HIDE DEF Good
      <4> QED
        OBVIOUS
    <3>1. f[k + 1] = IF k + 1 = 1 THEN seqs[k + 1] ELSE f[(k + 1) - 1] \o seqs[k + 1]
      BY <2>1 DEF IsFlat
    <3>2. CASE k = 0
      <4>1. f[1] = seqs[1] /\ seqs[1] \in Seq(S)
        BY <1>0, <3>1, <3>2
      <4>2. \A x : (\E i \in 1..1 : x \in ToSet(seqs[i])) <=> x \in ToSet(seqs[1])
        <5>1. 1..1 = {1}
          OBVIOUS
        <5> QED
          BY <5>1, Zenon
      <4> QED
        BY <3>2, <4>1, <4>2
    <3>3. CASE k # 0
      <4>1. f[k + 1] = f[k] \o seqs[k + 1] /\ seqs[k + 1] \in Seq(S) /\ k \in 1..n
        <5>1. k + 1 # 1 /\ (k + 1) - 1 = k /\ k \in 1..n
          BY <1>0, <3>3
        <5>2. f[k + 1] = f[k] \o seqs[k + 1]
          BY <3>1, <5>1, Zenon
        <5> QED
          BY <1>0, <5>1, <5>2
      <4>2. Good(k)
        BY <2>3, <4>1
      <4>3. /\ f[k + 1] \in Seq(S)
            /\ ToSet(f[k + 1]) = ToSet(f[k]) \cup ToSet(seqs[k + 1])
        BY <4>1, <4>2, SetOfConcat
      <4>4. 1..(k + 1) = 1..k \cup {k + 1}
        OBVIOUS
      <4>5. ASSUME NEW x
            PROVE  x \in ToSet(f[k + 1]) <=> \E i \in 1..(k + 1) : x \in ToSet(seqs[i])
        <5>1. x \in ToSet(f[k]) <=> \E i \in 1..k : x \in ToSet(seqs[i])
          BY <4>2
        <5>2. x \in ToSet(f[k + 1]) <=> x \in ToSet(f[k]) \/ x \in ToSet(seqs[k + 1])
          BY <4>3
        <5> QED
          BY <4>4, <5>1, <5>2, Zenon
      <4> QED
        BY <4>2, <4>3, <4>5
    <3> QED
      BY <3>2, <3>3
  <2> HIDE DEF Q
  <2>4. n \in Q
    BY <1>0, <2>2, <2>3, SetInduction
  <2>5. Good(n)
    BY <1>0, <1>2, <2>4 DEF Q
  <2> QED
    BY <2>1, <2>5
<1> QED
  BY <1>1, <1>2

-----------------------------------------------------------------------------
(* Sums                                                                    *)

Pick(s) == CHOOSE x \in s : TRUE
UpTo(S, n) == {s \in SUBSET S : Cardinality(s) <= n}

\* g is what SumFunctionOnSet computes for the subsets of S up to size n.
IsSum(g, f, D) ==
  g = [s \in D |-> IF s = {} THEN 0 ELSE f[Pick(s)] + g[s \ {Pick(s)}]]

LEMMA PickedOne ==
  ASSUME NEW s, IsFiniteSet(s), s # {}
  PROVE  /\ Pick(s) \in s /\ IsFiniteSet(s \ {Pick(s)})
         /\ Cardinality(s) \in Nat \ {0}
         /\ Cardinality(s \ {Pick(s)}) = Cardinality(s) - 1
<1>1. \E x : x \in s
  OBVIOUS
<1>2. Pick(s) \in s
  BY <1>1 DEF Pick
<1>3. Cardinality(s) \in Nat /\ Cardinality(s) # 0
  BY FS_CardinalityType, FS_EmptySet
<1> QED
  BY <1>2, <1>3, FS_RemoveElement

LEMMA SumExists ==
  ASSUME NEW f, NEW S, IsFiniteSet(S)
  PROVE  \A n \in Nat : \E g : IsSum(g, f, UpTo(S, n))
<1> DEFINE P == {n \in Nat : \E g : IsSum(g, f, UpTo(S, n))}
<1>1. 0 \in P
  <2> DEFINE g == [s \in UpTo(S, 0) |-> 0]
  <2>1. ASSUME NEW s \in UpTo(S, 0) PROVE s = {}
    <3>1. s \in SUBSET S /\ Cardinality(s) <= 0
      BY DEF UpTo
    <3>2. IsFiniteSet(s) /\ Cardinality(s) \in Nat
      BY <3>1, FS_Subset, FS_CardinalityType
    <3> QED
      BY <3>1, <3>2, FS_EmptySet
  <2>2. IsSum(g, f, UpTo(S, 0))
    BY <2>1 DEF IsSum
  <2> QED
    BY <2>2
<1>2. ASSUME NEW n \in Nat, n \in P PROVE n + 1 \in P
  <2>1. PICK h : IsSum(h, f, UpTo(S, n))
    BY <1>2
  <2> DEFINE g == [s \in UpTo(S, n + 1) |->
                     IF s = {} THEN 0 ELSE f[Pick(s)] + h[s \ {Pick(s)}]]
  <2>2. ASSUME NEW s \in UpTo(S, n + 1), s # {}
        PROVE  s \ {Pick(s)} \in UpTo(S, n)
    <3>1. s \in SUBSET S /\ Cardinality(s) <= n + 1
      BY DEF UpTo
    <3>2. IsFiniteSet(s)
      BY <3>1, FS_Subset
    <3>3. Cardinality(s) \in Nat /\ Cardinality(s \ {Pick(s)}) = Cardinality(s) - 1
      BY <2>2, <3>2, PickedOne
    <3>4. Cardinality(s \ {Pick(s)}) <= n
      BY <3>1, <3>3
    <3> QED
      BY <3>1, <3>4 DEF UpTo
  <2>3. UpTo(S, n) \subseteq UpTo(S, n + 1)
    <3> SUFFICES ASSUME NEW s \in UpTo(S, n) PROVE s \in UpTo(S, n + 1)
      OBVIOUS
    <3>1. s \in SUBSET S /\ Cardinality(s) <= n
      BY DEF UpTo
    <3>2. Cardinality(s) \in Nat
      BY <3>1, FS_Subset, FS_CardinalityType
    <3>3. Cardinality(s) <= n + 1
      BY <3>1, <3>2
    <3> QED
      BY <3>1, <3>3 DEF UpTo
  <2>4. ASSUME NEW s \in UpTo(S, n) PROVE g[s] = h[s]
    <3>1. h[s] = IF s = {} THEN 0 ELSE f[Pick(s)] + h[s \ {Pick(s)}]
      BY <2>1 DEF IsSum
    <3>2. g[s] = IF s = {} THEN 0 ELSE f[Pick(s)] + h[s \ {Pick(s)}]
      BY <2>3
    <3> QED
      BY <3>1, <3>2
  <2>5. ASSUME NEW s \in UpTo(S, n + 1)
        PROVE  g[s] = IF s = {} THEN 0 ELSE f[Pick(s)] + g[s \ {Pick(s)}]
    <3>1. g[s] = IF s = {} THEN 0 ELSE f[Pick(s)] + h[s \ {Pick(s)}]
      OBVIOUS
    <3> HIDE DEF g
    <3>2. s # {} => g[s \ {Pick(s)}] = h[s \ {Pick(s)}]
      BY <2>2, <2>4
    <3> QED
      BY <3>1, <3>2
  <2>6. IsSum(g, f, UpTo(S, n + 1))
    BY <2>5 DEF IsSum
  <2> HIDE DEF g
  <2> QED
    BY <2>6
<1> HIDE DEF P
<1>3. Nat \subseteq P
  BY <1>1, <1>2, SetInduction
<1> QED
  BY <1>3 DEF P

LEMMA SumIsSum ==
  ASSUME NEW f, NEW S, IsFiniteSet(S)
  PROVE  \E g : IsSum(g, f, SUBSET S) /\ SumFunctionOnSet(f, S) = g[S]
<1> DEFINE iter == CHOOSE g : IsSum(g, f, SUBSET S)
<1>1. \E g : IsSum(g, f, SUBSET S)
  <2>1. UpTo(S, Cardinality(S)) = SUBSET S
    BY FS_Subset DEF UpTo
  <2>2. Cardinality(S) \in Nat
    BY FS_CardinalityType
  <2>3. \E g : IsSum(g, f, UpTo(S, Cardinality(S)))
    BY <2>2, SumExists
  <2> QED
    BY <2>1, <2>3, Zenon
<1>2. IsSum(iter, f, SUBSET S)
  BY <1>1
<1>3. SumFunctionOnSet(f, S) = iter[S]
  BY DEF SumFunctionOnSet, FoldFunctionOnSet, MapThenFoldSet, IsSum, Pick
<1> QED
  BY <1>2, <1>3

LEMMA SumsAgree ==
  ASSUME NEW f, NEW S, NEW T, IsFiniteSet(S), NEW g, NEW h,
         IsSum(g, f, SUBSET S), IsSum(h, f, SUBSET T)
  PROVE  \A s \in SUBSET (S \cap T) : g[s] = h[s]
<1> DEFINE P == {n \in Nat : \A s \in SUBSET (S \cap T) : Cardinality(s) = n => g[s] = h[s]}
<1>1. ASSUME NEW s \in SUBSET (S \cap T)
      PROVE  /\ IsFiniteSet(s) /\ Cardinality(s) \in Nat
             /\ g[s] = IF s = {} THEN 0 ELSE f[Pick(s)] + g[s \ {Pick(s)}]
             /\ h[s] = IF s = {} THEN 0 ELSE f[Pick(s)] + h[s \ {Pick(s)}]
  <2>1. s \in SUBSET S /\ s \in SUBSET T
    OBVIOUS
  <2>2. IsFiniteSet(s) /\ Cardinality(s) \in Nat
    BY <2>1, FS_Subset, FS_CardinalityType
  <2>3. g[s] = IF s = {} THEN 0 ELSE f[Pick(s)] + g[s \ {Pick(s)}]
    BY <2>1 DEF IsSum
  <2>4. h[s] = IF s = {} THEN 0 ELSE f[Pick(s)] + h[s \ {Pick(s)}]
    BY <2>1 DEF IsSum
  <2> QED
    BY <2>2, <2>3, <2>4
<1>2. 0 \in P
  <2> SUFFICES ASSUME NEW s \in SUBSET (S \cap T), Cardinality(s) = 0 PROVE g[s] = h[s]
    OBVIOUS
  <2>1. s = {}
    BY <1>1, FS_EmptySet
  <2> QED
    BY <1>1, <2>1
<1>3. ASSUME NEW n \in Nat, n \in P PROVE n + 1 \in P
  <2> SUFFICES ASSUME NEW s \in SUBSET (S \cap T), Cardinality(s) = n + 1 PROVE g[s] = h[s]
    OBVIOUS
  <2>1. s # {}
    BY <1>1, FS_EmptySet
  <2> DEFINE r == s \ {Pick(s)}
  <2>2. Cardinality(r) = Cardinality(s) - 1
    BY <1>1, <2>1, PickedOne
  <2>3. r \in SUBSET (S \cap T) /\ Cardinality(r) = n
    BY <2>2
  <2>4. g[r] = h[r]
    BY <1>3, <2>3
  <2>5. g[s] = f[Pick(s)] + g[r] /\ h[s] = f[Pick(s)] + h[r]
    BY <1>1, <2>1
  <2> QED
    BY <2>4, <2>5
<1> HIDE DEF P
<1>4. Nat \subseteq P
  BY <1>2, <1>3, SetInduction
<1> QED
  BY <1>1, <1>4 DEF P

LEMMA SumOfNone ==
  ASSUME NEW f
  PROVE  SumFunctionOnSet(f, {}) = 0
<1>1. IsFiniteSet({})
  BY FS_EmptySet
<1>2. PICK g : IsSum(g, f, SUBSET {}) /\ SumFunctionOnSet(f, {}) = g[{}]
  BY <1>1, SumIsSum
<1> QED
  BY <1>2 DEF IsSum

LEMMA SumOfPicked ==
  ASSUME NEW f, NEW S, IsFiniteSet(S), S # {}
  PROVE  SumFunctionOnSet(f, S) = f[Pick(S)] + SumFunctionOnSet(f, S \ {Pick(S)})
<1> DEFINE T == S \ {Pick(S)}
<1>1. IsFiniteSet(T)
  BY PickedOne
<1> HIDE DEF T
<1>2. PICK g : IsSum(g, f, SUBSET S) /\ SumFunctionOnSet(f, S) = g[S]
  BY SumIsSum
<1>3. PICK h : IsSum(h, f, SUBSET T) /\ SumFunctionOnSet(f, T) = h[T]
  BY <1>1, SumIsSum
<1>4. T \in SUBSET (S \cap T)
  BY DEF T
<1>5. g[T] = h[T]
  BY <1>2, <1>3, <1>4, SumsAgree
<1>6. S \in SUBSET S
  OBVIOUS
<1>7. g[S] = f[Pick(S)] + g[T]
  BY <1>2, <1>6 DEF IsSum, T
<1> QED
  BY <1>2, <1>3, <1>5, <1>7 DEF T

\* Here and below the induction is on the size of the subsets of S.
LEMMA SumType ==
  ASSUME NEW f, NEW S, IsFiniteSet(S), \A x \in S : f[x] \in Nat
  PROVE  SumFunctionOnSet(f, S) \in Nat
<1> DEFINE P == {n \in Nat : \A s \in SUBSET S :
                   Cardinality(s) = n => SumFunctionOnSet(f, s) \in Nat}
<1>1. ASSUME NEW s \in SUBSET S PROVE IsFiniteSet(s) /\ Cardinality(s) \in Nat
  BY FS_Subset, FS_CardinalityType
<1>2. 0 \in P
  <2> SUFFICES ASSUME NEW s \in SUBSET S, Cardinality(s) = 0 PROVE SumFunctionOnSet(f, s) \in Nat
    OBVIOUS
  <2>1. s = {}
    BY <1>1, FS_EmptySet
  <2> QED
    BY <2>1, SumOfNone
<1>3. ASSUME NEW n \in Nat, n \in P PROVE n + 1 \in P
  <2> SUFFICES ASSUME NEW s \in SUBSET S, Cardinality(s) = n + 1 PROVE SumFunctionOnSet(f, s) \in Nat
    OBVIOUS
  <2>1. s # {} /\ IsFiniteSet(s)
    BY <1>1, FS_EmptySet
  <2> DEFINE r == s \ {Pick(s)}
  <2>2. Cardinality(r) = Cardinality(s) - 1 /\ Pick(s) \in s
    BY <2>1, PickedOne
  <2>3. r \in SUBSET S /\ Cardinality(r) = n
    BY <2>2
  <2>4. SumFunctionOnSet(f, r) \in Nat
    BY <1>3, <2>3
  <2>5. SumFunctionOnSet(f, s) = f[Pick(s)] + SumFunctionOnSet(f, r)
    BY <2>1, SumOfPicked
  <2>6. f[Pick(s)] \in Nat
    BY <2>2
  <2> QED
    BY <2>4, <2>5, <2>6
<1> HIDE DEF P
<1>4. Nat \subseteq P
  BY <1>2, <1>3, SetInduction
<1>5. S \in SUBSET S
  OBVIOUS
<1> QED
  BY <1>1, <1>4, <1>5 DEF P

LEMMA SumOfSame ==
  ASSUME NEW f, NEW h, NEW S, IsFiniteSet(S), \A x \in S : f[x] = h[x]
  PROVE  SumFunctionOnSet(f, S) = SumFunctionOnSet(h, S)
<1> DEFINE P == {n \in Nat : \A s \in SUBSET S :
                   Cardinality(s) = n => SumFunctionOnSet(f, s) = SumFunctionOnSet(h, s)}
<1>1. ASSUME NEW s \in SUBSET S PROVE IsFiniteSet(s) /\ Cardinality(s) \in Nat
  BY FS_Subset, FS_CardinalityType
<1>2. 0 \in P
  <2> SUFFICES ASSUME NEW s \in SUBSET S, Cardinality(s) = 0
               PROVE  SumFunctionOnSet(f, s) = SumFunctionOnSet(h, s)
    OBVIOUS
  <2>1. s = {}
    BY <1>1, FS_EmptySet
  <2>2. SumFunctionOnSet(f, {}) = 0 /\ SumFunctionOnSet(h, {}) = 0
    BY SumOfNone
  <2> QED
    BY <2>1, <2>2
<1>3. ASSUME NEW n \in Nat, n \in P PROVE n + 1 \in P
  <2> SUFFICES ASSUME NEW s \in SUBSET S, Cardinality(s) = n + 1
               PROVE  SumFunctionOnSet(f, s) = SumFunctionOnSet(h, s)
    OBVIOUS
  <2>1. s # {} /\ IsFiniteSet(s)
    BY <1>1, FS_EmptySet
  <2> DEFINE r == s \ {Pick(s)}
  <2>2. Cardinality(r) = Cardinality(s) - 1 /\ Pick(s) \in s
    BY <2>1, PickedOne
  <2>3. r \in SUBSET S /\ Cardinality(r) = n
    BY <2>2
  <2>4. SumFunctionOnSet(f, r) = SumFunctionOnSet(h, r)
    BY <1>3, <2>3
  <2>5. SumFunctionOnSet(f, s) = f[Pick(s)] + SumFunctionOnSet(f, r)
    BY <2>1, SumOfPicked
  <2>6. SumFunctionOnSet(h, s) = h[Pick(s)] + SumFunctionOnSet(h, r)
    BY <2>1, SumOfPicked
  <2>7. f[Pick(s)] = h[Pick(s)]
    BY <2>2
  <2> QED
    BY <2>4, <2>5, <2>6, <2>7
<1> HIDE DEF P
<1>4. Nat \subseteq P
  BY <1>2, <1>3, SetInduction
<1>5. S \in SUBSET S
  OBVIOUS
<1> QED
  BY <1>1, <1>4, <1>5 DEF P

\* Any element may be taken out first.
LEMMA SumRemove ==
  ASSUME NEW f, NEW S, IsFiniteSet(S), \A x \in S : f[x] \in Nat, NEW a \in S
  PROVE  SumFunctionOnSet(f, S) = f[a] + SumFunctionOnSet(f, S \ {a})
<1> DEFINE Sm(s) == SumFunctionOnSet(f, s)
           P == {n \in Nat : \A s \in SUBSET S : Cardinality(s) = n =>
                   \A x \in s : Sm(s) = f[x] + Sm(s \ {x})}
<1>1. ASSUME NEW s \in SUBSET S
      PROVE  IsFiniteSet(s) /\ Cardinality(s) \in Nat /\ Sm(s) \in Nat
  <2>1. IsFiniteSet(s) /\ \A x \in s : f[x] \in Nat
    BY FS_Subset
  <2> QED
    BY <2>1, SumType, FS_CardinalityType
<1>2. ASSUME NEW s \in SUBSET S, s # {}
      PROVE  Sm(s) = f[Pick(s)] + Sm(s \ {Pick(s)}) /\ Pick(s) \in s
             /\ Cardinality(s \ {Pick(s)}) = Cardinality(s) - 1
  BY <1>1, <1>2, SumOfPicked, PickedOne
<1> HIDE DEF Sm
<1>3. 0 \in P
  <2> SUFFICES ASSUME NEW s \in SUBSET S, Cardinality(s) = 0 PROVE s = {}
    OBVIOUS
  <2> QED
    BY <1>1, FS_EmptySet
<1>4. ASSUME NEW n \in Nat, n \in P PROVE n + 1 \in P
  <2> SUFFICES ASSUME NEW s \in SUBSET S, Cardinality(s) = n + 1, NEW x \in s
               PROVE  Sm(s) = f[x] + Sm(s \ {x})
    OBVIOUS
  <2> DEFINE p == Pick(s)
             r == s \ {p}
             t == s \ {x}
             u == r \ {x}
  <2>1. Sm(s) = f[p] + Sm(r) /\ p \in s /\ Cardinality(r) = n
    BY <1>2
  <2> HIDE DEF p
  <2>2. CASE x = p
    BY <2>1, <2>2
  <2>3. CASE x # p
    <3>1. x \in r /\ r \in SUBSET S /\ t \in SUBSET S /\ u \in SUBSET S /\ p \in t
      BY <2>1, <2>3
    <3>2. Sm(r) = f[x] + Sm(u)
      BY <1>4, <2>1, <3>1
    <3>3. Cardinality(t) = n
      <4>1. Cardinality(t) = Cardinality(s) - 1
        BY <1>1, FS_RemoveElement
      <4> QED
        BY <4>1
    <3>4. Sm(t) = f[p] + Sm(t \ {p})
      BY <1>4, <3>1, <3>3
    <3>5. t \ {p} = u
      OBVIOUS
    <3>6. Sm(u) \in Nat /\ f[p] \in Nat /\ f[x] \in Nat
      BY <1>1, <2>1, <3>1
    <3>7. Sm(t) = f[p] + Sm(u)
      BY <3>4, <3>5
    <3> HIDE DEF r, t, u
    <3> QED
      BY <2>1, <3>2, <3>6, <3>7 DEF t
  <2> QED
    BY <2>2, <2>3
<1> HIDE DEF P
<1>5. Nat \subseteq P
  BY <1>3, <1>4, SetInduction
<1>6. S \in SUBSET S
  OBVIOUS
<1>7. Sm(S) = f[a] + Sm(S \ {a})
  BY <1>1, <1>5, <1>6 DEF P
<1> QED
  BY <1>7 DEF Sm

\* A sum changes by as much as the one value that changes.
LEMMA SumChange ==
  ASSUME NEW f, NEW h, NEW S, IsFiniteSet(S), NEW a \in S,
         \A x \in S : f[x] \in Nat /\ h[x] \in Nat /\ (x # a => f[x] = h[x])
  PROVE  SumFunctionOnSet(h, S) + f[a] = SumFunctionOnSet(f, S) + h[a]
<1> DEFINE T == S \ {a}
<1>1. IsFiniteSet(T) /\ \A x \in T : f[x] = h[x] /\ f[x] \in Nat
  BY FS_Subset
<1>2. SumFunctionOnSet(f, T) = SumFunctionOnSet(h, T) /\ SumFunctionOnSet(f, T) \in Nat
  <2> HIDE DEF T
  <2> QED
    BY <1>1, SumOfSame, SumType
<1>3. SumFunctionOnSet(f, S) = f[a] + SumFunctionOnSet(f, T)
  BY SumRemove
<1>4. SumFunctionOnSet(h, S) = h[a] + SumFunctionOnSet(h, T)
  BY SumRemove
<1> QED
  BY <1>2, <1>3, <1>4

LEMMA SumOfZeros ==
  ASSUME NEW f, NEW S, IsFiniteSet(S), \A x \in S : f[x] = 0
  PROVE  SumFunctionOnSet(f, S) = 0
<1> DEFINE P == {n \in Nat : \A s \in SUBSET S :
                   Cardinality(s) = n => SumFunctionOnSet(f, s) = 0}
<1>1. ASSUME NEW s \in SUBSET S PROVE IsFiniteSet(s) /\ Cardinality(s) \in Nat
  BY FS_Subset, FS_CardinalityType
<1>2. 0 \in P
  <2> SUFFICES ASSUME NEW s \in SUBSET S, Cardinality(s) = 0 PROVE SumFunctionOnSet(f, s) = 0
    OBVIOUS
  <2>1. s = {}
    BY <1>1, FS_EmptySet
  <2> QED
    BY <2>1, SumOfNone
<1>3. ASSUME NEW n \in Nat, n \in P PROVE n + 1 \in P
  <2> SUFFICES ASSUME NEW s \in SUBSET S, Cardinality(s) = n + 1 PROVE SumFunctionOnSet(f, s) = 0
    OBVIOUS
  <2>1. s # {} /\ IsFiniteSet(s)
    BY <1>1, FS_EmptySet
  <2> DEFINE r == s \ {Pick(s)}
  <2>2. Cardinality(r) = Cardinality(s) - 1 /\ Pick(s) \in s
    BY <2>1, PickedOne
  <2>3. r \in SUBSET S /\ Cardinality(r) = n
    BY <2>2
  <2>4. SumFunctionOnSet(f, r) = 0
    BY <1>3, <2>3
  <2>5. SumFunctionOnSet(f, s) = f[Pick(s)] + SumFunctionOnSet(f, r)
    BY <2>1, SumOfPicked
  <2>6. f[Pick(s)] = 0
    BY <2>2
  <2> QED
    BY <2>4, <2>5, <2>6
<1> HIDE DEF P
<1>4. Nat \subseteq P
  BY <1>2, <1>3, SetInduction
<1>5. S \in SUBSET S
  OBVIOUS
<1> QED
  BY <1>1, <1>4, <1>5 DEF P

-----------------------------------------------------------------------------
(* audit-shim                                                              *)

AuditSpec == AuditInit /\ [][AuditNext]_auditVars

AuditEntry == [id : Nat, made : Nat]

\* The entries that stand alone on their line.
Whole(daily) ==
  {e \in AuditEntry : e # Half /\ \E i \in 1..Len(daily) : daily[i] = <<e>>}

LEMMA ReadElements ==
  ASSUME NEW files, NEW daily \in Seq(Seq(AuditEntry))
  PROVE  Read(files, daily) = files \cup Whole(daily)
<1>1. DOMAIN daily = 1..Len(daily) /\ \A i \in 1..Len(daily) : daily[i] \in Seq(AuditEntry)
  OBVIOUS
<1>2. ASSUME NEW i \in 1..Len(daily), NEW e
      PROVE  e \in Parsed(daily[i]) <=> e \in AuditEntry /\ e # Half /\ daily[i] = <<e>>
  <2>1. daily[i] \in Seq(AuditEntry)
    BY <1>1
  <2>2. CASE Len(daily[i]) = 1 /\ daily[i][1] # Half
    <3>1. Parsed(daily[i]) = {daily[i][1]}
      BY <2>2 DEF Parsed
    <3>2. daily[i] = <<daily[i][1]>> /\ daily[i][1] \in AuditEntry
      BY <2>1, <2>2
    <3>3. daily[i] = <<e>> => e = daily[i][1]
      OBVIOUS
    <3> QED
      BY <2>2, <3>1, <3>2, <3>3
  <2>3. CASE ~(Len(daily[i]) = 1 /\ daily[i][1] # Half)
    <3>1. Parsed(daily[i]) = {}
      BY <2>3 DEF Parsed
    <3>2. Len(<<e>>) = 1 /\ <<e>>[1] = e
      OBVIOUS
    <3>3. ~(e # Half /\ daily[i] = <<e>>)
      BY <2>3, <3>2, Zenon
    <3> QED
      BY <3>1, <3>3
  <2> QED
    BY <2>2, <2>3
<1>3. ASSUME NEW e
      PROVE  e \in UNION {Parsed(daily[i]) : i \in DOMAIN daily} <=> e \in Whole(daily)
  <2>1. e \in UNION {Parsed(daily[i]) : i \in DOMAIN daily}
          <=> \E i \in 1..Len(daily) : e \in Parsed(daily[i])
    BY <1>1, Zenon
  <2>2. e \in Whole(daily)
          <=> e \in AuditEntry /\ e # Half /\ \E i \in 1..Len(daily) : daily[i] = <<e>>
    BY DEF Whole
  <2>3. \A i \in 1..Len(daily) :
          e \in Parsed(daily[i]) <=> e \in AuditEntry /\ e # Half /\ daily[i] = <<e>>
    BY <1>2
  <2> QED
    BY <2>1, <2>2, <2>3
<1> QED
  BY <1>3 DEF Read

AuditTypes ==
  /\ entry_counter \in Nat /\ auditSerial \in Nat /\ entry_counter <= auditSerial
  /\ joined \in Nat /\ queued \in Nat /\ newline \in BOOLEAN /\ blindStart \in BOOLEAN
  /\ auditLog \in SUBSET AuditEntry /\ rotated \in SUBSET AuditEntry
  /\ dailyFile \in Seq(Seq(AuditEntry))
  /\ acknowledged \in SUBSET AuditEntry /\ IsFiniteSet(acknowledged)

Found == rotated \cup Whole(dailyFile)
Known == auditLog \cup Found

\* What is known or was acknowledged was made by now.
EntriesAreMade ==
  \A e \in Known \cup acknowledged : e.id <= auditSerial /\ e.made \in 1..auditSerial

\* A file without a newline at its end has a last line.
OpenLineExists == ~newline => Len(dailyFile) > 0

\* The joined lines pay for what the daily file alone has lost: what can be
\* read in the rotation files is not needed, and so may be lost as well.
JoinsPay == Cardinality(acknowledged \ Whole(dailyFile)) <= 2 * joined

\* The counter is past every id in use.
IdsAreCounted ==
  ~blindStart => /\ \A e \in Known : e.id <= entry_counter
                 /\ \A e, f \in Known : e.id = f.id => e = f

AuditIInv ==
  /\ AuditTypes /\ EntriesAreMade /\ OpenLineExists /\ JoinsPay /\ IdsAreCounted

LEMMA AuditInitOK == AuditInit => AuditIInv
<1> SUFFICES ASSUME AuditInit PROVE AuditIInv
  OBVIOUS
<1>1. /\ auditLog = {} /\ rotated = {} /\ dailyFile = << >> /\ acknowledged = {}
      /\ entry_counter = 0 /\ auditSerial = 0 /\ joined = 0 /\ queued = 0
      /\ newline = TRUE /\ blindStart = FALSE
  BY DEF AuditInit
<1>2. Whole(<< >>) = {}
  BY DEF Whole
<1>3. Known = {} /\ acknowledged = {} /\ Whole(dailyFile) = {}
  BY <1>1, <1>2 DEF Known, Found
<1>4. IsFiniteSet({}) /\ Cardinality({}) = 0
  BY FS_EmptySet
<1>5. AuditTypes
  <2>1. /\ entry_counter \in Nat /\ auditSerial \in Nat /\ entry_counter <= auditSerial
        /\ joined \in Nat /\ queued \in Nat
    BY <1>1
  <2>2. newline \in BOOLEAN /\ blindStart \in BOOLEAN
    BY <1>1, Zenon
  <2>3. /\ auditLog \in SUBSET AuditEntry /\ rotated \in SUBSET AuditEntry
        /\ dailyFile \in Seq(Seq(AuditEntry))
        /\ acknowledged \in SUBSET AuditEntry /\ IsFiniteSet(acknowledged)
    BY <1>1, <1>4
  <2> QED
    BY <2>1, <2>2, <2>3 DEF AuditTypes
<1>6. JoinsPay
  <2>1. acknowledged \ Whole(dailyFile) = {}
    BY <1>3
  <2> QED
    BY <1>1, <1>4, <2>1 DEF JoinsPay
<1>7. EntriesAreMade /\ OpenLineExists /\ IdsAreCounted
  BY <1>1, <1>3 DEF EntriesAreMade, OpenLineExists, IdsAreCounted
<1> QED
  BY <1>5, <1>6, <1>7 DEF AuditIInv

\* A text at the end of the daily file: what it adds and the one entry it may
\* spoil, if the last line is open.
LEMMA AppendedLines ==
  ASSUME AuditTypes, OpenLineExists, NEW text \in AuditEntry
  PROVE  /\ Appended(text) \in Seq(Seq(AuditEntry)) /\ Len(Appended(text)) > 0
         /\ Whole(Appended(text)) \subseteq Whole(dailyFile) \cup ({text} \ {Half})
         /\ newline => Whole(Appended(text)) = Whole(dailyFile) \cup ({text} \ {Half})
         /\ \E e : Whole(dailyFile) \ {e} \subseteq Whole(Appended(text))
<1> DEFINE n == Len(dailyFile)
           a == Appended(text)
<1>0. /\ n \in Nat /\ dailyFile \in Seq(Seq(AuditEntry))
      /\ \A i \in 1..n : dailyFile[i] \in Seq(AuditEntry)
      /\ <<text>> \in Seq(AuditEntry)
  BY DEF AuditTypes
<1>1. CASE newline
  <2>1. a = Append(dailyFile, <<text>>)
    BY <1>1 DEF Appended
  <2>2. /\ a \in Seq(Seq(AuditEntry)) /\ Len(a) = n + 1 /\ a[n + 1] = <<text>>
        /\ \A i \in 1..n : a[i] = dailyFile[i]
    BY <1>0, <2>1
  <2> HIDE DEF a
  <2>3. 1..Len(a) = 1..n \cup {n + 1}
    BY <1>0, <2>2
  <2>4. \A e : (\E i \in 1..Len(a) : a[i] = <<e>>)
                 <=> (\E i \in 1..n : dailyFile[i] = <<e>>) \/ <<text>> = <<e>>
    BY <2>2, <2>3, Zenon
  <2>5. Whole(a) = Whole(dailyFile) \cup ({text} \ {Half})
    BY <2>4 DEF Whole
  <2>6. Len(a) > 0 /\ Whole(dailyFile) \ {Half} \subseteq Whole(a)
    BY <1>0, <2>2, <2>5
  <2> QED
    BY <1>1, <2>2, <2>5, <2>6 DEF a
<1>2. CASE ~newline
  <2> DEFINE l == Append(dailyFile[n], text)
  <2>1. n > 0
    BY <1>2 DEF OpenLineExists
  <2>2. a = [dailyFile EXCEPT ![n] = l]
    BY <1>2 DEF Appended
  <2>3. l \in Seq(AuditEntry) /\ (\A e : l = <<e>> => e = text)
    <3>1. dailyFile[n] \in Seq(AuditEntry)
      BY <1>0, <2>1
    <3>2. l \in Seq(AuditEntry) /\ Len(l) = Len(dailyFile[n]) + 1
          /\ l[Len(dailyFile[n]) + 1] = text /\ Len(dailyFile[n]) \in Nat
      BY <3>1
    <3>3. ASSUME NEW e, l = <<e>> PROVE e = text
      <4> HIDE DEF l
      <4>1. Len(l) = 1 /\ l[1] = e
        BY <3>3
      <4> QED
        BY <3>2, <4>1
    <3> QED
      BY <3>2, <3>3
  <2> HIDE DEF l
  <2>4. /\ a \in Seq(Seq(AuditEntry)) /\ Len(a) = n /\ a[n] = l
        /\ \A i \in 1..n : i # n => a[i] = dailyFile[i]
    BY <1>0, <2>1, <2>2, <2>3
  <2> HIDE DEF a
  <2>5. Whole(a) \subseteq Whole(dailyFile) \cup ({text} \ {Half})
    BY <2>3, <2>4 DEF Whole
  <2>6. Whole(dailyFile) \ {dailyFile[n][1]} \subseteq Whole(a)
    <3> SUFFICES ASSUME NEW e \in Whole(dailyFile), e # dailyFile[n][1]
                 PROVE  e \in Whole(a)
      OBVIOUS
    <3>1. PICK i \in 1..n : dailyFile[i] = <<e>>
      BY DEF Whole
    <3>2. <<e>>[1] = e
      OBVIOUS
    <3>3. i # n
      BY <3>1, <3>2, Zenon
    <3>4. a[i] = <<e>> /\ i \in 1..Len(a)
      BY <2>4, <3>1, <3>3
    <3> QED
      BY <3>4 DEF Whole
  <2> QED
    BY <1>2, <2>1, <2>4, <2>5, <2>6 DEF a
<1> QED
  BY <1>1, <1>2 DEF AuditTypes

\* What a write leaves, whether its text is acknowledged or not: a text on a
\* line of its own costs nothing, one on an open line itself and one other.
LEMMA WrittenFile ==
  ASSUME AuditIInv, NEW text \in AuditEntry, WriteText(text),
         acknowledged' \subseteq acknowledged \cup ({text} \ {Half}),
         IsFiniteSet(acknowledged')
  PROVE  /\ dailyFile' \in Seq(Seq(AuditEntry)) /\ newline' \in BOOLEAN /\ joined' \in Nat
         /\ Whole(dailyFile') \subseteq Whole(dailyFile) \cup ({text} \ {Half})
         /\ OpenLineExists' /\ JoinsPay'
<1> USE DEF AuditIInv
<1> DEFINE owed == acknowledged \ Whole(dailyFile)
           owes == acknowledged' \ Whole(dailyFile')
<1>1. /\ dailyFile' = Appended(text) /\ newline' = FALSE
      /\ joined' = IF newline THEN joined ELSE joined + 1
  BY DEF WriteText
<1>2. /\ dailyFile' \in Seq(Seq(AuditEntry)) /\ Len(dailyFile') > 0
      /\ Whole(dailyFile') \subseteq Whole(dailyFile) \cup ({text} \ {Half})
      /\ newline => Whole(dailyFile') = Whole(dailyFile) \cup ({text} \ {Half})
      /\ \E e : Whole(dailyFile) \ {e} \subseteq Whole(dailyFile')
  BY <1>1, AppendedLines
<1>3. newline' \in BOOLEAN /\ OpenLineExists'
  <2>1. newline' \in BOOLEAN
    BY <1>1, Zenon
  <2> QED
    BY <1>2, <2>1 DEF OpenLineExists
<1>4. joined \in Nat /\ joined' \in Nat /\ newline \in BOOLEAN
  BY <1>1 DEF AuditTypes
<1>5. IsFiniteSet(owed) /\ Cardinality(owed) \in Nat /\ Cardinality(owed) <= 2 * joined
  <2>1. IsFiniteSet(acknowledged) /\ owed \subseteq acknowledged
    BY DEF AuditTypes
  <2>2. IsFiniteSet(owed)
    BY <2>1, FS_Subset
  <2> QED
    BY <2>2, FS_CardinalityType DEF JoinsPay
<1>6. IsFiniteSet(owes) /\ Cardinality(owes) \in Nat
  <2>1. owes \subseteq acknowledged'
    OBVIOUS
  <2>2. IsFiniteSet(owes)
    BY <2>1, FS_Subset
  <2> QED
    BY <2>2, FS_CardinalityType
<1>7. CASE newline
  <2>1. owes \subseteq owed
    BY <1>2, <1>7
  <2> HIDE DEF owed, owes
  <2>2. Cardinality(owes) <= Cardinality(owed)
    BY <1>5, <2>1, FS_Subset
  <2>3. Cardinality(owes) <= 2 * joined'
    BY <1>1, <1>4, <1>5, <1>6, <1>7, <2>2
  <2> QED
    BY <1>2, <1>3, <1>4, <2>3 DEF JoinsPay, owes
<1>8. CASE ~newline
  <2>1. PICK e : Whole(dailyFile) \ {e} \subseteq Whole(dailyFile')
    BY <1>2
  <2> DEFINE one == owed \cup {text}
             two == one \cup {e}
  <2>2. owes \subseteq two
    BY <2>1
  <2> HIDE DEF owed, owes
  <2>3. IsFiniteSet(one) /\ Cardinality(one) <= Cardinality(owed) + 1
        /\ Cardinality(one) \in Nat
    <3>1. /\ IsFiniteSet(owed \cup {text})
          /\ Cardinality(owed \cup {text})
               = IF text \in owed THEN Cardinality(owed) ELSE Cardinality(owed) + 1
      BY <1>5, FS_AddElement, Zenon
    <3> QED
      BY <1>5, <3>1
  <2> HIDE DEF one
  <2>4. IsFiniteSet(two) /\ Cardinality(two) <= Cardinality(one) + 1
        /\ Cardinality(two) \in Nat
    <3>1. /\ IsFiniteSet(one \cup {e})
          /\ Cardinality(one \cup {e})
               = IF e \in one THEN Cardinality(one) ELSE Cardinality(one) + 1
      BY <2>3, FS_AddElement, Zenon
    <3> QED
      BY <2>3, <3>1
  <2> HIDE DEF two
  <2>5. Cardinality(owes) <= Cardinality(two)
    BY <2>2, <2>4, FS_Subset
  <2>6. joined' = joined + 1
    BY <1>1, <1>8
  <2>7. Cardinality(owes) <= 2 * joined'
    BY <1>4, <1>5, <1>6, <2>3, <2>4, <2>5, <2>6
  <2> QED
    BY <1>2, <1>3, <1>4, <2>7 DEF JoinsPay, owes
<1> QED
  BY <1>4, <1>7, <1>8

LEMMA NewEntryIsNew ==
  ASSUME AuditTypes
  PROVE  /\ NewEntry \in AuditEntry /\ NewEntry # Half /\ Half \in AuditEntry
         /\ NewEntry.id = entry_counter + 1 /\ NewEntry.made = auditSerial + 1
<1>1. entry_counter + 1 \in Nat /\ auditSerial + 1 \in Nat /\ entry_counter + 1 # 0
  BY DEF AuditTypes
<1> QED
  BY <1>1 DEF NewEntry, Half, AuditEntry

\* A step that makes one entry.
LEMMA OneMore ==
  ASSUME AuditIInv,
         Known' \subseteq Known \cup {NewEntry},
         acknowledged' \subseteq acknowledged \cup {NewEntry},
         auditSerial' = auditSerial + 1, entry_counter' = entry_counter + 1,
         UNCHANGED blindStart
  PROVE  EntriesAreMade' /\ IdsAreCounted'
<1> USE DEF AuditIInv
<1>1. /\ NewEntry.id = entry_counter + 1 /\ NewEntry.made = auditSerial + 1
      /\ entry_counter \in Nat /\ auditSerial \in Nat /\ entry_counter <= auditSerial
      /\ Known \cup acknowledged \subseteq AuditEntry
  BY NewEntryIsNew DEF AuditTypes, Known, Found, Whole
<1>2. ASSUME NEW e \in Known' \cup acknowledged'
      PROVE  e.id <= auditSerial' /\ e.made \in 1..auditSerial'
  <2>1. CASE e = NewEntry
    BY <1>1, <2>1
  <2>2. CASE e \in Known \cup acknowledged
    <3>1. e.id <= auditSerial /\ e.made \in 1..auditSerial /\ e.id \in Nat
      BY <1>1, <2>2 DEF EntriesAreMade, AuditEntry
    <3> QED
      BY <1>1, <3>1
  <2> QED
    BY <1>2, <2>1, <2>2
<1>3. ASSUME ~blindStart', NEW e \in Known'
      PROVE  e.id <= entry_counter'
  <2>1. CASE e = NewEntry
    BY <1>1, <2>1
  <2>2. CASE e \in Known
    <3>1. e.id <= entry_counter /\ e.id \in Nat
      BY <1>1, <1>3, <2>2 DEF IdsAreCounted, AuditEntry
    <3> QED
      BY <1>1, <3>1
  <2> QED
    BY <1>3, <2>1, <2>2
<1>4. ASSUME ~blindStart', NEW e \in Known', NEW f \in Known', e.id = f.id
      PROVE  e = f
  <2>1. ~blindStart /\ \A g \in Known : g.id <= entry_counter /\ g.id \in Nat
    BY <1>1, <1>4 DEF IdsAreCounted, AuditEntry
  <2>2. \A g \in Known : g.id # NewEntry.id
    BY <1>1, <2>1
  <2> QED
    BY <1>4, <2>1, <2>2 DEF IdsAreCounted
<1> QED
  BY <1>2, <1>3, <1>4 DEF EntriesAreMade, IdsAreCounted

\* A step that makes none.
LEMMA NoneMore ==
  ASSUME AuditIInv, Known' \subseteq Known,
         UNCHANGED <<acknowledged, auditSerial, entry_counter, blindStart>>
  PROVE  EntriesAreMade' /\ IdsAreCounted'
<1>1. EntriesAreMade'
  BY DEF AuditIInv, EntriesAreMade
<1>2. IdsAreCounted'
  BY DEF AuditIInv, IdsAreCounted
<1> QED
  BY <1>1, <1>2

\* A rotation file holds nothing that was not there or in the log.
LEMMA RotatedTexts ==
  ASSUME NEW texts, RotateLog(texts)
  PROVE  rotated' \subseteq rotated \cup texts
BY DEF RotateLog

\* The steps that make an entry, with or without a text of it in the file.
LEMMA MadeStep ==
  ASSUME AuditIInv, NEW text \in {Half, NewEntry},
         CreateEntry, WriteText(text) \/ UNCHANGED <<dailyFile, newline, joined>>,
         acknowledged' = acknowledged
           \/ (WriteText(NewEntry) /\ acknowledged' = acknowledged \cup {NewEntry}),
         queued' \in Nat, UNCHANGED blindStart,
         auditLog' \subseteq auditLog \cup {NewEntry},
         rotated' \subseteq rotated \cup auditLog \cup {NewEntry}
  PROVE  AuditIInv'
<1> USE DEF AuditIInv
<1>1. /\ entry_counter' = entry_counter + 1 /\ auditSerial' = auditSerial + 1
      /\ blindStart' = blindStart
  BY DEF CreateEntry
<1>2. /\ NewEntry \in AuditEntry /\ NewEntry # Half /\ Half \in AuditEntry
      /\ text \in AuditEntry /\ {text} \ {Half} \subseteq {NewEntry}
  BY NewEntryIsNew
<1>3. acknowledged' \in SUBSET AuditEntry /\ IsFiniteSet(acknowledged')
  <2>1. acknowledged \in SUBSET AuditEntry /\ IsFiniteSet(acknowledged)
    BY DEF AuditTypes
  <2>2. IsFiniteSet(acknowledged \cup {NewEntry})
    BY <2>1, FS_AddElement, Zenon
  <2>3. acknowledged' \in {acknowledged, acknowledged \cup {NewEntry}}
    OBVIOUS
  <2> QED
    BY <1>2, <2>1, <2>2, <2>3
<1>4. /\ dailyFile' \in Seq(Seq(AuditEntry)) /\ newline' \in BOOLEAN /\ joined' \in Nat
      /\ Whole(dailyFile') \subseteq Whole(dailyFile) \cup {NewEntry}
      /\ OpenLineExists' /\ JoinsPay'
  <2>1. CASE WriteText(NewEntry)
    <3>1. acknowledged' \subseteq acknowledged \cup ({NewEntry} \ {Half})
      BY <1>2
    <3>2. {NewEntry} \ {Half} \subseteq {NewEntry}
      OBVIOUS
    <3> QED
      BY <1>2, <1>3, <2>1, <3>1, <3>2, WrittenFile
  <2>2. CASE WriteText(text) /\ acknowledged' = acknowledged
    <3>1. acknowledged' \subseteq acknowledged \cup ({text} \ {Half})
      BY <2>2
    <3> QED
      BY <1>2, <1>3, <2>2, <3>1, WrittenFile
  <2>3. CASE UNCHANGED <<dailyFile, newline, joined>> /\ acknowledged' = acknowledged
    BY <2>3 DEF AuditTypes, OpenLineExists, JoinsPay
  <2> QED
    BY <2>1, <2>2, <2>3
<1>5. Known' \subseteq Known \cup {NewEntry}
  BY <1>4 DEF Known, Found
<1>6. EntriesAreMade' /\ IdsAreCounted'
  BY <1>1, <1>5, OneMore
<1>7. AuditTypes'
  <2>1. /\ entry_counter' \in Nat /\ auditSerial' \in Nat /\ entry_counter' <= auditSerial'
    BY <1>1 DEF AuditTypes
  <2>2. blindStart' \in BOOLEAN
    BY <1>1 DEF AuditTypes
  <2>3. auditLog' \in SUBSET AuditEntry /\ rotated' \in SUBSET AuditEntry
    BY <1>2 DEF AuditTypes
  <2> QED
    BY <1>3, <1>4, <2>1, <2>2, <2>3 DEF AuditTypes
<1> QED
  BY <1>4, <1>6, <1>7

LEMMA LoggingStep ==
  ASSUME AuditIInv,
         LogNothing \/ LogWriteFails \/ LogWebhookFails \/ LogEntry \/ LogRotateFails
  PROVE  AuditIInv'
<1>0. queued \in Nat /\ queued + 1 \in Nat
  BY DEF AuditIInv, AuditTypes
<1> DEFINE log == auditLog \cup {NewEntry}
<1>1. CASE LogNothing
  <2>1. /\ CreateEntry /\ UNCHANGED <<dailyFile, newline, joined>>
        /\ queued' = queued /\ blindStart' = blindStart
        /\ auditLog' = auditLog /\ rotated' = rotated /\ acknowledged' = acknowledged
    BY <1>1 DEF LogNothing, fileVars
  <2> QED
    BY <1>0, <2>1, MadeStep
<1>2. CASE LogWriteFails
  <2>1. /\ CreateEntry /\ \E text \in {Half, NewEntry} : WriteText(text)
        /\ queued' = queued /\ blindStart' = blindStart
        /\ auditLog' = auditLog /\ rotated' = rotated /\ acknowledged' = acknowledged
    BY <1>2 DEF LogWriteFails
  <2>2. PICK text \in {Half, NewEntry} : WriteText(text)
    BY <2>1
  <2> QED
    BY <1>0, <2>1, <2>2, MadeStep
<1>3. CASE LogWebhookFails
  <2>1. /\ CreateEntry /\ WriteText(NewEntry)
        /\ queued' = queued + 1 /\ blindStart' = blindStart
        /\ auditLog' = auditLog /\ rotated' = rotated /\ acknowledged' = acknowledged
    BY <1>3 DEF LogWebhookFails, WriteToDisk
  <2> QED
    BY <1>0, <2>1, MadeStep
<1>4. CASE LogEntry
  <2>1. /\ CreateEntry /\ WriteText(NewEntry)
        /\ queued' = queued + 1 /\ blindStart' = blindStart
        /\ acknowledged' = acknowledged \cup {NewEntry}
        /\ \/ RotateLog(log) /\ auditLog' = {}
           \/ auditLog' = log /\ rotated' = rotated
    BY <1>4 DEF LogEntry, WriteToDisk
  <2>2. /\ auditLog' \subseteq auditLog \cup {NewEntry}
        /\ rotated' \subseteq rotated \cup auditLog \cup {NewEntry}
    BY <2>1, RotatedTexts
  <2> QED
    BY <1>0, <2>1, <2>2, MadeStep
<1>5. CASE LogRotateFails
  <2>1. /\ CreateEntry /\ WriteText(NewEntry)
        /\ queued' = queued + 1 /\ blindStart' = blindStart
        /\ acknowledged' = acknowledged /\ auditLog' = log
        /\ \E texts \in SUBSET log : RotateLog(texts)
    BY <1>5 DEF LogRotateFails, WriteToDisk
  <2>2. /\ auditLog' \subseteq auditLog \cup {NewEntry}
        /\ rotated' \subseteq rotated \cup auditLog \cup {NewEntry}
    BY <2>1, RotatedTexts
  <2> QED
    BY <1>0, <2>1, <2>2, MadeStep
<1> QED
  BY <1>1, <1>2, <1>3, <1>4, <1>5

\* A newline, a rotation and the clearing of the log.
LEMMA KeepingStep ==
  ASSUME AuditIInv, NEW t, NewlineEnds \/ ForceRotate \/ ClearLogBefore(t)
  PROVE  AuditIInv'
<1> USE DEF AuditIInv
<1>1. /\ UNCHANGED <<entry_counter, dailyFile, joined, auditSerial, acknowledged, blindStart>>
      /\ newline' \in {TRUE, newline} /\ queued' \in Nat
      /\ auditLog' \subseteq auditLog /\ rotated' \subseteq rotated \cup auditLog
  <2>0. queued \in Nat
    BY DEF AuditTypes
  <2>1. CASE NewlineEnds
    <3>1. newline' \in {TRUE, newline}
      BY <2>1, Zenon DEF NewlineEnds
    <3>2. /\ UNCHANGED <<entry_counter, dailyFile, joined, auditSerial, acknowledged, blindStart>>
          /\ queued' \in Nat /\ auditLog' = auditLog /\ rotated' = rotated
      BY <2>0, <2>1 DEF NewlineEnds
    <3> QED
      BY <3>1, <3>2
  <2>2. CASE ForceRotate
    <3>1. /\ UNCHANGED <<entry_counter, dailyFile, joined, auditSerial, acknowledged, blindStart>>
          /\ newline' = newline /\ queued' = queued
          /\ \/ RotateLog(auditLog) /\ auditLog' = {}
             \/ (\E texts \in SUBSET auditLog : RotateLog(texts)) /\ auditLog' = auditLog
      BY <2>2 DEF ForceRotate, fileVars
    <3>2. rotated' \subseteq rotated \cup auditLog /\ auditLog' \subseteq auditLog
      BY <3>1, RotatedTexts
    <3> QED
      BY <2>0, <3>1, <3>2
  <2>3. CASE ClearLogBefore(t)
    BY <2>0, <2>3 DEF ClearLogBefore, fileVars
  <2> QED
    BY <2>1, <2>2, <2>3
<1>2. Known' \subseteq Known
  BY <1>1 DEF Known, Found
<1>3. EntriesAreMade' /\ IdsAreCounted'
  BY <1>1, <1>2, NoneMore
<1>4. AuditTypes'
  <2>1. newline' \in BOOLEAN
    BY <1>1, Zenon DEF AuditTypes
  <2> QED
    BY <1>1, <2>1 DEF AuditTypes
<1>5. OpenLineExists' /\ JoinsPay'
  <2>1. ~newline' => ~newline
    BY <1>1, Zenon
  <2> QED
    BY <1>1, <2>1 DEF OpenLineExists, JoinsPay
<1> QED
  BY <1>3, <1>4, <1>5

\* The counter a start reads back is the highest id it finds.
LEMMA LoadedCounterIsMax ==
  ASSUME NEW readable \in SUBSET AuditEntry, NEW m \in Nat,
         \A e \in readable : e.id <= m
  PROVE  /\ LoadedCounter(readable) \in Nat /\ LoadedCounter(readable) <= m
         /\ \A e \in readable : e.id <= LoadedCounter(readable)
<1> DEFINE ids == {0} \cup {e.id : e \in readable}
           U == {k \in Nat : \A x \in ids : x <= k}
<1>2. ids \subseteq Nat /\ 0 \in ids /\ \A x \in ids : x <= m
  BY DEF AuditEntry
<1>3. \A e \in readable : e.id \in ids
  OBVIOUS
<1> HIDE DEF ids
<1>4. m \in U /\ U \subseteq Nat
  BY <1>2
<1>5. PICK k \in U : \A y \in U : k <= y
  BY <1>4, LeastNat
<1>6. k \in Nat /\ (\A x \in ids : x <= k) /\ k <= m
  BY <1>4, <1>5
<1>7. k \in ids
  <2> SUFFICES ASSUME k \notin ids PROVE FALSE
    OBVIOUS
  <2>1. k # 0 /\ k - 1 \in Nat
    BY <1>2, <1>6
  <2>2. \A x \in ids : x <= k - 1
    BY <1>2, <1>6
  <2>3. k - 1 \in U
    BY <2>1, <2>2
  <2> QED
    BY <1>5, <1>6, <2>1, <2>3
<1>8. LoadedCounter(readable) = Max(ids)
  BY DEF LoadedCounter, ids
<1>9. Max(ids) \in ids /\ \A y \in ids : Max(ids) >= y
  <2>1. \E x \in ids : \A y \in ids : x >= y
    <3>1. \A y \in ids : k >= y
      BY <1>2, <1>6
    <3> QED
      BY <1>7, <3>1
  <2> QED
    BY <2>1 DEF Max
<1> QED
  BY <1>2, <1>3, <1>8, <1>9

\* What the end of the process leaves in the daily file.
LEMMA CrashedFile ==
  ASSUME AuditIInv, AuditRestart
  PROVE  /\ dailyFile' \in Seq(Seq(AuditEntry)) /\ newline' \in BOOLEAN
         /\ joined' \in Nat /\ auditSerial' \in Nat /\ auditSerial <= auditSerial'
         /\ Whole(dailyFile') \subseteq Whole(dailyFile) \cup {NewEntry}
         /\ NewEntry \in Whole(dailyFile') \ Whole(dailyFile) => auditSerial' = auditSerial + 1
         /\ OpenLineExists' /\ JoinsPay'
<1> USE DEF AuditIInv
<1>0. /\ acknowledged' = acknowledged
      /\ \/ UNCHANGED <<dailyFile, newline, joined, auditSerial>>
         \/ /\ auditSerial' = auditSerial + 1
            /\ \E text \in {Half, NewEntry} : WriteText(text)
  BY DEF AuditRestart
<1>1. CASE UNCHANGED <<dailyFile, newline, joined, auditSerial>>
  <2>1. OpenLineExists' /\ JoinsPay'
    BY <1>0, <1>1 DEF OpenLineExists, JoinsPay
  <2> QED
    BY <1>1, <2>1 DEF AuditTypes
<1>2. CASE /\ auditSerial' = auditSerial + 1
           /\ \E text \in {Half, NewEntry} : WriteText(text)
  <2>1. PICK text \in {Half, NewEntry} : WriteText(text)
    BY <1>2
  <2>2. text \in AuditEntry /\ {text} \ {Half} \subseteq {NewEntry}
    BY NewEntryIsNew
  <2>3. /\ acknowledged' \subseteq acknowledged \cup ({text} \ {Half})
        /\ IsFiniteSet(acknowledged')
    BY <1>0 DEF AuditTypes
  <2>4. /\ dailyFile' \in Seq(Seq(AuditEntry)) /\ newline' \in BOOLEAN /\ joined' \in Nat
        /\ Whole(dailyFile') \subseteq Whole(dailyFile) \cup ({text} \ {Half})
        /\ OpenLineExists' /\ JoinsPay'
    BY <2>1, <2>2, <2>3, WrittenFile
  <2>5. auditSerial' \in Nat /\ auditSerial <= auditSerial'
    BY <1>2 DEF AuditTypes
  <2> QED
    BY <1>2, <2>2, <2>4, <2>5
<1> QED
  BY <1>0, <1>1, <1>2

LEMMA RestartStep ==
  ASSUME AuditIInv, AuditRestart
  PROVE  AuditIInv'
<1> USE DEF AuditIInv
<1>0. /\ rotated' = rotated /\ acknowledged' = acknowledged /\ queued' = 0
      /\ \/ /\ auditLog' = Read(rotated, dailyFile')
            /\ entry_counter' = LoadedCounter(auditLog')
            /\ blindStart' = blindStart
         \/ auditLog' = {} /\ entry_counter' = 0 /\ blindStart' = TRUE
  BY DEF AuditRestart
<1>1. /\ dailyFile' \in Seq(Seq(AuditEntry)) /\ newline' \in BOOLEAN
      /\ joined' \in Nat /\ auditSerial' \in Nat /\ auditSerial <= auditSerial'
      /\ Whole(dailyFile') \subseteq Whole(dailyFile) \cup {NewEntry}
      /\ NewEntry \in Whole(dailyFile') \ Whole(dailyFile) => auditSerial' = auditSerial + 1
      /\ OpenLineExists' /\ JoinsPay'
  BY CrashedFile
<1>2. /\ rotated' \in SUBSET AuditEntry /\ entry_counter \in Nat /\ auditSerial \in Nat
      /\ entry_counter <= auditSerial /\ acknowledged' \in SUBSET AuditEntry
      /\ IsFiniteSet(acknowledged') /\ queued' \in Nat
      /\ NewEntry.id = entry_counter + 1 /\ NewEntry.made = auditSerial + 1
  BY <1>0, NewEntryIsNew DEF AuditTypes
<1>3. Found' \subseteq Found \cup {NewEntry} /\ Found' \subseteq AuditEntry
  <2>1. Found' \subseteq Found \cup {NewEntry}
    BY <1>0, <1>1 DEF Found
  <2>2. Whole(dailyFile') \subseteq AuditEntry
    BY DEF Whole
  <2> QED
    BY <1>2, <2>1, <2>2 DEF Found
<1>4. ASSUME NEW e \in Found' \cup acknowledged'
      PROVE  e.id <= auditSerial' /\ e.made \in 1..auditSerial' /\ e.id \in Nat
  <2>0. e.id \in Nat
    BY <1>2, <1>3 DEF AuditEntry
  <2>1. CASE e \in Found \cup acknowledged
    <3>1. e.id <= auditSerial /\ e.made \in 1..auditSerial
      BY <2>1 DEF EntriesAreMade, Known
    <3> QED
      BY <1>1, <1>2, <2>0, <3>1
  <2>2. CASE e \notin Found \cup acknowledged
    <3>1. e = NewEntry /\ e \in Whole(dailyFile') \ Whole(dailyFile)
      BY <1>0, <1>3, <2>2 DEF Found
    <3>2. auditSerial' = auditSerial + 1
      BY <1>1, <3>1
    <3> QED
      BY <1>2, <3>1, <3>2
  <2> QED
    BY <2>1, <2>2
<1>5. CASE /\ auditLog' = Read(rotated, dailyFile')
           /\ entry_counter' = LoadedCounter(auditLog')
           /\ blindStart' = blindStart
  <2>1. auditLog' = Found' /\ auditLog' \in SUBSET AuditEntry
    <3>1. Read(rotated, dailyFile') = rotated \cup Whole(dailyFile')
      BY <1>1, ReadElements
    <3> QED
      BY <1>0, <1>3, <1>5, <3>1 DEF Found
  <2>2. Known' = Found'
    BY <2>1 DEF Known
  <2>3. \A e \in auditLog' : e.id <= auditSerial'
    BY <1>4, <2>1
  <2>4. /\ entry_counter' \in Nat /\ entry_counter' <= auditSerial'
        /\ \A e \in auditLog' : e.id <= entry_counter'
    BY <1>1, <1>5, <2>1, <2>3, LoadedCounterIsMax
  <2>5. AuditTypes'
    BY <1>1, <1>2, <1>5, <2>1, <2>4 DEF AuditTypes
  <2>6. EntriesAreMade'
    BY <1>4, <2>2 DEF EntriesAreMade
  <2>7. ASSUME ~blindStart', NEW e \in Found', NEW f \in Found', e.id = f.id
        PROVE  e = f
    <3>1. ~blindStart /\ \A g \in Found : g \in Known /\ g.id <= entry_counter /\ g.id \in Nat
      <4>1. Found \subseteq AuditEntry
        BY DEF Found, Whole, AuditTypes
      <4> QED
        BY <1>5, <2>7, <4>1 DEF IdsAreCounted, Known, AuditEntry
    <3>2. \A g \in Found : g.id # NewEntry.id
      BY <1>2, <3>1
    <3> QED
      BY <1>3, <2>7, <3>1, <3>2 DEF IdsAreCounted
  <2>8. IdsAreCounted'
    BY <2>1, <2>2, <2>4, <2>7 DEF IdsAreCounted
  <2> QED
    BY <1>1, <2>5, <2>6, <2>8
<1>6. CASE auditLog' = {} /\ entry_counter' = 0 /\ blindStart' = TRUE
  <2>2. Known' = Found'
    BY <1>6 DEF Known
  <2>3. AuditTypes'
    <3>1. entry_counter' \in Nat /\ entry_counter' <= auditSerial'
          /\ auditLog' \in SUBSET AuditEntry
      BY <1>1, <1>6
    <3>2. blindStart' \in BOOLEAN
      BY <1>6, Zenon
    <3> QED
      BY <1>1, <1>2, <3>1, <3>2 DEF AuditTypes
  <2>4. EntriesAreMade'
    BY <1>4, <2>2 DEF EntriesAreMade
  <2>5. IdsAreCounted'
    BY <1>6, Zenon DEF IdsAreCounted
  <2> QED
    BY <1>1, <2>3, <2>4, <2>5
<1> QED
  BY <1>0, <1>5, <1>6

LEMMA AuditStep == AuditIInv /\ [AuditNext]_auditVars => AuditIInv'
<1> SUFFICES ASSUME AuditIInv, [AuditNext]_auditVars PROVE AuditIInv'
  OBVIOUS
<1>1. CASE UNCHANGED auditVars
  <2>1. Known' = Known
    BY <1>1 DEF auditVars, fileVars, Known, Found
  <2> QED
    BY <1>1, <2>1 DEF auditVars, fileVars, AuditIInv, AuditTypes, EntriesAreMade,
                      OpenLineExists, JoinsPay, IdsAreCounted
<1>2. CASE AuditNext
  BY <1>2, LoggingStep, KeepingStep, RestartStep DEF AuditNext
<1> QED
  BY <1>1, <1>2

LEMMA AuditAlways == AuditSpec => []AuditIInv
BY AuditInitOK, AuditStep, PTL DEF AuditSpec

(* However the daily file is torn, by crashes, failed writes and newlines  *)
(* that are late or lost, and however often the log is rotated, cleared    *)
(* and read back, each text on an open line costs at most two of the       *)
(* entries log_entry has acknowledged, and nothing else costs any.         *)
THEOREM JoinedLinesCost == AuditSpec => []JoinedLinesCostTwo
<1>1. AuditIInv => JoinedLinesCostTwo
  <2> SUFFICES ASSUME AuditIInv PROVE JoinedLinesCostTwo
    OBVIOUS
  <2> USE DEF AuditIInv
  <2> DEFINE lost == acknowledged \ Readable
             owed == acknowledged \ Whole(dailyFile)
  <2>1. Readable = Found
    BY ReadElements DEF AuditTypes, Readable, Found
  <2>2. lost \subseteq owed /\ owed \subseteq acknowledged
    BY <2>1 DEF Found
  <2>3. IsFiniteSet(owed) /\ Cardinality(owed) <= 2 * joined /\ joined \in Nat
    BY <2>2, FS_Subset DEF JoinsPay, AuditTypes
  <2> HIDE DEF lost, owed
  <2>4. /\ Cardinality(lost) <= Cardinality(owed)
        /\ Cardinality(lost) \in Nat /\ Cardinality(owed) \in Nat
    BY <2>2, <2>3, FS_Subset, FS_CardinalityType
  <2>5. Cardinality(lost) <= 2 * joined
    BY <2>3, <2>4
  <2> QED
    BY <2>5 DEF JoinedLinesCostTwo, lost
<1> QED
  BY <1>1, AuditAlways, PTL

(* An id names one entry in all files, as long as every start could read   *)
(* them: the counter is past every id that was read back.                  *)
THEOREM IdsNameOne == AuditSpec => []IdsNameOneEntry
<1>1. AuditIInv => IdsNameOneEntry
  <2> SUFFICES ASSUME AuditIInv PROVE IdsNameOneEntry
    OBVIOUS
  <2> USE DEF AuditIInv
  <2>1. Readable \subseteq Known
    BY ReadElements DEF AuditTypes, Readable, Known, Found
  <2> QED
    BY <2>1 DEF IdsNameOneEntry, IdsAreCounted
<1> QED
  BY <1>1, AuditAlways, PTL

\* The positions in K of s, in order.
Chosen(s, K) == FlattenSeq([i \in DOMAIN s |-> IF i \in K THEN <<s[i]>> ELSE << >>])

\* h lists the positions in K up to n, and c the elements there.
Lists(h, c, s, K, n) ==
  /\ h \in [1..Len(c) -> Nat]
  /\ \A i \in 1..Len(c) : h[i] \in K /\ h[i] \in 1..n /\ c[i] = s[h[i]]
  /\ \A i, j \in 1..Len(c) : i < j => h[i] < h[j]
  /\ \A k \in K : k \in 1..n => \E i \in 1..Len(c) : h[i] = k

LEMMA ListsNone ==
  ASSUME NEW S, NEW h, NEW c \in Seq(S), NEW s, NEW K, NEW n \in Nat,
         Lists(h, c, s, K, n), n + 1 \notin K
  PROVE  Lists(h, c, s, K, n + 1)
<1>1. Len(c) \in Nat /\ \A k \in 1..(n + 1) : k \in 1..n \/ k = n + 1
  OBVIOUS
<1>2. \A k \in 1..n : k \in 1..(n + 1)
  OBVIOUS
<1> QED
  BY <1>1, <1>2, Zenon DEF Lists

LEMMA ListsOne ==
  ASSUME NEW S, NEW h, NEW c \in Seq(S), NEW s, NEW K, NEW n \in Nat,
         Lists(h, c, s, K, n), n + 1 \in K, s[n + 1] \in S
  PROVE  \E g : Lists(g, c \o <<s[n + 1]>>, s, K, n + 1)
<1> DEFINE m == Len(c)
           d == c \o <<s[n + 1]>>
           g == [i \in 1..(m + 1) |-> IF i = m + 1 THEN n + 1 ELSE h[i]]
<1>1. /\ m \in Nat /\ Len(d) = m + 1 /\ d[m + 1] = s[n + 1]
      /\ \A i \in 1..m : d[i] = c[i]
  OBVIOUS
<1>2. \A i \in 1..m : h[i] \in Nat /\ h[i] \in K /\ h[i] \in 1..n /\ c[i] = s[h[i]]
  BY DEF Lists
<1>3. g[m + 1] = n + 1 /\ \A i \in 1..m : g[i] = h[i]
  BY <1>1
<1>4. g \in [1..(m + 1) -> Nat]
  BY <1>1, <1>2
<1> HIDE DEF g, d, m
<1>5. ASSUME NEW i \in 1..(m + 1)
      PROVE  g[i] \in K /\ g[i] \in 1..(n + 1) /\ d[i] = s[g[i]]
  <2>1. CASE i = m + 1
    BY <1>1, <1>3, <2>1
  <2>2. CASE i \in 1..m
    BY <1>1, <1>2, <1>3, <2>2
  <2> QED
    BY <1>1, <2>1, <2>2
<1>6. ASSUME NEW i \in 1..(m + 1), NEW j \in 1..(m + 1), i < j
      PROVE  g[i] < g[j]
  <2>1. i \in 1..m
    BY <1>1, <1>6
  <2>2. CASE j = m + 1
    BY <1>2, <1>3, <2>1, <2>2
  <2>3. CASE j \in 1..m
    <3>1. h[i] < h[j]
      BY <1>6, <2>1, <2>3 DEF Lists, m
    <3> QED
      BY <1>3, <2>1, <2>3, <3>1
  <2> QED
    BY <1>1, <2>2, <2>3
<1>7. ASSUME NEW k \in K, k \in 1..(n + 1)
      PROVE  \E i \in 1..(m + 1) : g[i] = k
  <2>1. CASE k = n + 1
    <3>1. m + 1 \in 1..(m + 1)
      BY <1>1
    <3> QED
      BY <1>3, <2>1, <3>1
  <2>2. CASE k \in 1..n
    <3>1. PICK i \in 1..m : h[i] = k
      BY <2>2 DEF Lists, m
    <3>2. i \in 1..(m + 1) /\ g[i] = k
      BY <1>1, <1>3, <3>1
    <3> QED
      BY <3>2
  <2> QED
    BY <1>7, <2>1, <2>2
<1>8. Lists(g, d, s, K, n + 1)
  BY <1>1, <1>4, <1>5, <1>6, <1>7 DEF Lists
<1> QED
  BY <1>8 DEF d

\* What a filter keeps, and in which order.
LEMMA ChosenLists ==
  ASSUME NEW S, NEW s \in Seq(S), NEW K
  PROVE  Chosen(s, K) \in Seq(S) /\ \E h : Lists(h, Chosen(s, K), s, K, Len(s))
<1> DEFINE n == Len(s)
           Pick1(i) == IF i \in K THEN <<s[i]>> ELSE << >>
           seqs == [i \in DOMAIN s |-> Pick1(i)]
<1>1. n \in Nat /\ DOMAIN s = 1..n /\ \A i \in 1..n : s[i] \in S
  OBVIOUS
<1>2. \A i \in 1..n : Pick1(i) \in Seq(S)
  BY <1>1
<1>3. seqs \in [1..n -> Seq(S)] /\ \A i \in 1..n : seqs[i] = Pick1(i)
  BY <1>1, <1>2
<1>4. seqs \in Seq(Seq(S)) /\ Len(seqs) = n /\ Chosen(s, K) = FlattenSeq(seqs)
  BY <1>1, <1>3 DEF Chosen
<1>5. << >> \in Seq(S) /\ \E h : Lists(h, << >>, s, K, 0)
  <2>1. Lists([i \in 1..0 |-> 0], << >>, s, K, 0)
    BY DEF Lists
  <2> QED
    BY <2>1
<1>6. CASE n = 0
  <2>1. seqs = << >>
    BY <1>4, <1>6
  <2>2. Chosen(s, K) = << >>
    BY <1>4, <1>6, <2>1 DEF FlattenSeq
  <2> QED
    BY <1>5, <1>6, <2>2
<1>7. CASE n # 0
  <2>1. PICK f : IsFlat(f, seqs, n) /\ FlattenSeq(seqs) = f[n]
    BY <1>1, <1>4, <1>7, FlattenIsFlat
  <2> DEFINE Good(k) == f[k] \in Seq(S) /\ \E h : Lists(h, f[k], s, K, k)
             Q == {k \in Nat : k \in 1..n => Good(k)}
  <2> HIDE DEF seqs
  <2>2. 0 \in Q
    OBVIOUS
  <2>3. ASSUME NEW k \in Nat, k \in Q PROVE k + 1 \in Q
    <3> SUFFICES ASSUME k + 1 \in 1..n PROVE Good(k + 1)
      OBVIOUS
    <3> DEFINE c == IF k = 0 THEN << >> ELSE f[k]
    <3>1. f[k + 1] = IF k + 1 = 1 THEN seqs[k + 1] ELSE f[(k + 1) - 1] \o seqs[k + 1]
      BY <2>1 DEF IsFlat
    <3>2. seqs[k + 1] \in Seq(S) /\ seqs[k + 1] = Pick1(k + 1) /\ s[k + 1] \in S
      BY <1>1, <1>2, <1>3
    <3>3. c \in Seq(S) /\ \E h : Lists(h, c, s, K, k)
      <4>1. CASE k = 0
        BY <1>5, <4>1
      <4>2. CASE k # 0
        <5>1. k \in 1..n
          BY <1>1, <4>2
        <5> QED
          BY <2>3, <4>2, <5>1
      <4> QED
        BY <4>1, <4>2
    <3>4. f[k + 1] = c \o seqs[k + 1]
      <4>1. CASE k = 0
        BY <3>1, <3>2, <4>1
      <4>2. CASE k # 0
        <5>1. k + 1 # 1 /\ (k + 1) - 1 = k
          BY <4>2
        <5> QED
          BY <3>1, <4>2, <5>1, Zenon
      <4> QED
        BY <4>1, <4>2
    <3> HIDE DEF c
    <3>5. f[k + 1] \in Seq(S)
      BY <3>2, <3>3, <3>4
    <3>6. PICK h : Lists(h, c, s, K, k)
      BY <3>3
    <3>7. CASE k + 1 \in K
      <4>1. seqs[k + 1] = <<s[k + 1]>>
        BY <3>2, <3>7
      <4>2. \E g : Lists(g, c \o <<s[k + 1]>>, s, K, k + 1)
        BY <3>2, <3>3, <3>6, <3>7, ListsOne
      <4> QED
        BY <3>4, <3>5, <4>1, <4>2
    <3>8. CASE k + 1 \notin K
      <4>1. seqs[k + 1] = << >>
        BY <3>2, <3>8
      <4>2. f[k + 1] = c
        BY <3>3, <3>4, <4>1
      <4>3. Lists(h, c, s, K, k + 1)
        BY <3>3, <3>6, <3>8, ListsNone
      <4> QED
        BY <3>5, <4>2, <4>3
    <3> QED
      BY <3>7, <3>8
  <2> HIDE DEF Q
  <2>4. n \in Q
    BY <1>1, <2>2, <2>3, SetInduction
  <2>5. Good(n)
    BY <1>1, <1>7, <2>4 DEF Q
  <2> QED
    BY <1>4, <2>1, <2>5
<1> QED
  BY <1>6, <1>7

\* A filter that keeps the elements at K returns as many as there are.
LEMMA ChosenCount ==
  ASSUME NEW S, NEW s \in Seq(S), NEW K
  PROVE  Len(Chosen(s, K)) = Cardinality(K \cap 1..Len(s))
<1> DEFINE c == Chosen(s, K)
           m == Len(c)
           D == K \cap 1..Len(s)
<1>1. PICK h : Lists(h, c, s, K, Len(s))
  BY ChosenLists
<1>2. c \in Seq(S) /\ m \in Nat
  <2>1. c \in Seq(S)
    BY ChosenLists
  <2> HIDE DEF c
  <2> QED
    BY <2>1
<1> HIDE DEF c
<1>3. h \in [1..m -> D]
  BY <1>1 DEF Lists
<1>4. ASSUME NEW i \in 1..m, NEW j \in 1..m, h[i] = h[j] PROVE i = j
  <2>1. i \in Nat /\ j \in Nat /\ h[i] \in Nat /\ h[j] \in Nat
    BY <1>1, <1>2 DEF Lists
  <2>2. ~(i < j) /\ ~(j < i)
    BY <1>1, <1>4, <2>1 DEF Lists
  <2> QED
    BY <2>1, <2>2
<1>5. \A d \in D : \E i \in 1..m : h[i] = d
  BY <1>1 DEF Lists
<1>6. ExistsBijection(1..m, D)
  <2>1. h \in Injection(1..m, D)
    BY <1>3, <1>4 DEF Injection, IsInjective
  <2>2. h \in Surjection(1..m, D)
    BY <1>3, <1>5 DEF Surjection
  <2> QED
    BY <2>1, <2>2 DEF ExistsBijection, Bijection
<1>7. Cardinality(D) = m
  BY <1>2, <1>6, FS_CountingElements
<1> QED
  BY <1>7 DEF c

-----------------------------------------------------------------------------
(* archival-shim                                                           *)

ArchivalSpec == ArchivalInit /\ [][ArchivalNext]_archivalVars

Tier == {"Hot", "Warm", "Cold"}
LogRecord == [table : Table, number : Nat, data : Nat, at : Nat, tier : Tier, until : Nat]

ArchivalTypes ==
  /\ today \in Nat /\ sources \in Nat /\ counter \in Nat
  /\ archive_log \in Seq(LogRecord)

FileOf(r) == <<r.table, r.number>>

\* A logged record has a number of its own, at most the counter, and its file
\* holds its data.
RecordsHold ==
  /\ \A i \in 1..Len(archive_log) :
       LET r == archive_log[i]
       IN  /\ r.number <= counter
           /\ r.data # NoData => FileOf(r) \in DOMAIN archived
                                   /\ archived[FileOf(r)] = r.data
  /\ \A i, k \in 1..Len(archive_log) :
       i # k => archive_log[i].number # archive_log[k].number

ArchivalIInv == ArchivalTypes /\ RecordsHold

LEMMA ArchivalInitOK == ArchivalInit => ArchivalIInv
<1> SUFFICES ASSUME ArchivalInit PROVE ArchivalIInv
  OBVIOUS
<1>1. archive_log = << >> /\ Len(archive_log) = 0 /\ archive_log \in Seq(LogRecord)
  BY DEF ArchivalInit
<1> QED
  BY <1>1 DEF ArchivalInit, ArchivalIInv, ArchivalTypes, RecordsHold

LEMMA RecordTyped ==
  ASSUME ArchivalTypes, NEW t \in Table, NEW data \in Nat
  PROVE  /\ Record(t, data) \in LogRecord /\ FileOf(Record(t, data)) = <<t, counter + 1>>
         /\ Record(t, data).number = counter + 1 /\ Record(t, data).data = data
<1>1. /\ counter + 1 \in Nat /\ today \in Nat /\ today + RuleDays[t] \in Nat
      /\ RuleTier[t] \in Tier
  BY ArchivalAssumption DEF ArchivalTypes, Tier
<1> QED
  BY <1>1 DEF Record, LogRecord, NextNumber, FileOf

\* archive_batch, with what it leaves at the new file and what it logs.
LEMMA BatchStep ==
  ASSUME ArchivalIInv, NEW t \in Table, NEW data \in Nat,
         counter' = counter + 1, sources' = sources + 1, UNCHANGED today,
         \A f \in DOMAIN archived : f # <<t, counter + 1>> =>
            f \in DOMAIN archived' /\ archived'[f] = archived[f],
         \/ archive_log' = archive_log
         \/ /\ archive_log' = Append(archive_log, Record(t, data))
            /\ data # NoData => /\ <<t, counter + 1>> \in DOMAIN archived'
                                /\ archived'[<<t, counter + 1>>] = data
  PROVE  ArchivalIInv'
<1> USE DEF ArchivalIInv
<1> DEFINE n == Len(archive_log)
           new == Record(t, data)
<1>1. /\ n \in Nat /\ counter \in Nat /\ archive_log \in Seq(LogRecord)
      /\ \A i \in 1..n : archive_log[i] \in LogRecord /\ archive_log[i].number \in Nat
  <2>1. /\ n \in Nat /\ counter \in Nat /\ archive_log \in Seq(LogRecord)
        /\ \A i \in 1..n : archive_log[i] \in LogRecord
    BY DEF ArchivalTypes
  <2>2. \A r \in LogRecord : r.number \in Nat
    BY DEF LogRecord
  <2> QED
    BY <2>1, <2>2
<1>2. /\ new \in LogRecord /\ FileOf(new) = <<t, counter + 1>>
      /\ new.number = counter + 1 /\ new.data = data
  BY RecordTyped
<1> HIDE DEF new
<1>3. ASSUME NEW i \in 1..n
      PROVE  LET r == archive_log[i]
             IN  /\ r.number <= counter' /\ r.number # counter + 1
                 /\ r.data # NoData => FileOf(r) \in DOMAIN archived'
                                         /\ archived'[FileOf(r)] = r.data
  <2> DEFINE r == archive_log[i]
  <2>1. /\ r.number <= counter /\ r.number \in Nat
        /\ r.data # NoData => FileOf(r) \in DOMAIN archived
                                /\ archived[FileOf(r)] = r.data
    BY <1>1 DEF RecordsHold
  <2>2. r.number <= counter' /\ r.number # counter + 1
    BY <1>1, <2>1
  <2>3. FileOf(r) # <<t, counter + 1>>
    BY <2>2 DEF FileOf
  <2> HIDE DEF r
  <2>4. r.data # NoData => FileOf(r) \in DOMAIN archived'
                             /\ archived'[FileOf(r)] = r.data
    BY <2>1, <2>3
  <2> QED
    BY <2>2, <2>4 DEF r
<1>4. CASE archive_log' = archive_log
  <2>1. ArchivalTypes'
    BY <1>1, <1>4 DEF ArchivalTypes
  <2>2. RecordsHold'
    BY <1>3, <1>4 DEF RecordsHold
  <2> QED
    BY <2>1, <2>2
<1>5. CASE /\ archive_log' = Append(archive_log, new)
           /\ data # NoData => /\ <<t, counter + 1>> \in DOMAIN archived'
                               /\ archived'[<<t, counter + 1>>] = data
  <2>1. /\ archive_log' \in Seq(LogRecord) /\ Len(archive_log') = n + 1
        /\ archive_log'[n + 1] = new /\ \A i \in 1..n : archive_log'[i] = archive_log[i]
    BY <1>1, <1>2, <1>5
  <2>2. ArchivalTypes'
    BY <2>1 DEF ArchivalTypes
  <2>3. \A i \in 1..Len(archive_log') : i \in 1..n \/ i = n + 1
    BY <1>1, <2>1
  <2>4. ASSUME NEW i \in 1..Len(archive_log')
        PROVE  LET r == archive_log'[i]
               IN  /\ r.number <= counter'
                   /\ r.data # NoData => FileOf(r) \in DOMAIN archived'
                                           /\ archived'[FileOf(r)] = r.data
    <3>1. CASE i \in 1..n
      BY <1>3, <2>1, <3>1
    <3>2. CASE i = n + 1
      <4>1. archive_log'[i] = new
        BY <2>1, <3>2
      <4>2. new.number <= counter'
        BY <1>1, <1>2
      <4>3. data # NoData => FileOf(new) \in DOMAIN archived' /\ archived'[FileOf(new)] = data
        BY <1>2, <1>5, Zenon
      <4> QED
        BY <1>2, <4>1, <4>2, <4>3
    <3> QED
      BY <2>3, <3>1, <3>2
  <2>5. ASSUME NEW i \in 1..Len(archive_log'), NEW k \in 1..Len(archive_log'), i # k
        PROVE  archive_log'[i].number # archive_log'[k].number
    <3>1. CASE i \in 1..n /\ k \in 1..n
      BY <2>1, <2>5, <3>1 DEF RecordsHold
    <3>2. CASE i = n + 1 /\ k \in 1..n
      BY <1>2, <1>3, <2>1, <3>2
    <3>3. CASE i \in 1..n /\ k = n + 1
      BY <1>2, <1>3, <2>1, <3>3
    <3> QED
      BY <2>3, <2>5, <3>1, <3>2, <3>3
  <2>6. RecordsHold'
    BY <2>4, <2>5 DEF RecordsHold, FileOf
  <2> QED
    BY <2>2, <2>6
<1> QED
  BY <1>4, <1>5 DEF new

LEMMA PurgeStep ==
  ASSUME ArchivalIInv, PurgeExpired
  PROVE  ArchivalIInv'
<1> USE DEF ArchivalIInv
<1> DEFINE n == Len(archive_log)
           K == {i \in DOMAIN archive_log : ~is_retention_expired(archive_log[i])}
<1>1. UNCHANGED <<today, sources, counter, archived>>
  BY DEF PurgeExpired
<1>2. archive_log \in Seq(LogRecord) /\ n \in Nat
  BY DEF ArchivalTypes
<1>3. archive_log' = Chosen(archive_log, K)
  <2>1. \A i \in DOMAIN archive_log : i \in K <=> ~is_retention_expired(archive_log[i])
    OBVIOUS
  <2> HIDE DEF K
  <2>2. [i \in DOMAIN archive_log |->
            IF is_retention_expired(archive_log[i]) THEN <<>> ELSE <<archive_log[i]>>]
          = [i \in DOMAIN archive_log |-> IF i \in K THEN <<archive_log[i]>> ELSE << >>]
    BY <2>1
  <2> QED
    BY <2>2, Zenon DEF PurgeExpired, Chosen
<1> HIDE DEF K
<1>4. archive_log' \in Seq(LogRecord) /\ \E h : Lists(h, archive_log', archive_log, K, n)
  BY <1>2, <1>3, ChosenLists
<1>5. PICK h : Lists(h, archive_log', archive_log, K, n)
  BY <1>4
<1>6. ASSUME NEW i \in 1..Len(archive_log')
      PROVE  h[i] \in 1..n /\ archive_log'[i] = archive_log[h[i]] /\ h[i] \in Nat
  BY <1>5 DEF Lists
<1>7. ASSUME NEW i \in 1..Len(archive_log'), NEW k \in 1..Len(archive_log'), i # k
      PROVE  h[i] # h[k]
  <2>1. i < k \/ k < i
    BY <1>4, <1>7
  <2>2. h[i] < h[k] \/ h[k] < h[i]
    BY <1>5, <2>1 DEF Lists
  <2> QED
    BY <1>6, <2>2
<1>8. ArchivalTypes'
  BY <1>1, <1>4 DEF ArchivalTypes
<1>9. RecordsHold'
  <2>1. ASSUME NEW i \in 1..Len(archive_log')
        PROVE  LET r == archive_log'[i]
               IN  /\ r.number <= counter'
                   /\ r.data # NoData => FileOf(r) \in DOMAIN archived'
                                           /\ archived'[FileOf(r)] = r.data
    <3>1. PICK k \in 1..n : archive_log'[i] = archive_log[k]
      BY <1>6
    <3> DEFINE r == archive_log[k]
    <3>2. /\ r.number <= counter
          /\ r.data # NoData => FileOf(r) \in DOMAIN archived /\ archived[FileOf(r)] = r.data
      BY DEF RecordsHold
    <3> QED
      BY <1>1, <3>1, <3>2
  <2>2. ASSUME NEW i \in 1..Len(archive_log'), NEW k \in 1..Len(archive_log'), i # k
        PROVE  archive_log'[i].number # archive_log'[k].number
    BY <1>6, <1>7, <2>2 DEF RecordsHold
  <2> QED
    BY <2>1, <2>2 DEF RecordsHold, FileOf
<1> QED
  BY <1>8, <1>9

LEMMA LifecycleStep ==
  ASSUME ArchivalIInv, ApplyLifecycle
  PROVE  ArchivalIInv'
<1> USE DEF ArchivalIInv
<1> DEFINE n == Len(archive_log)
           Moved(r) == IF r.tier = "Hot" THEN [r EXCEPT !.tier = TierAt(today - r.at)] ELSE r
<1>1. /\ UNCHANGED <<today, sources, counter, archived>>
      /\ archive_log' = [i \in DOMAIN archive_log |-> Moved(archive_log[i])]
  BY DEF ApplyLifecycle
<1>2. /\ archive_log \in Seq(LogRecord) /\ n \in Nat /\ DOMAIN archive_log = 1..n
      /\ \A i \in 1..n : archive_log[i] \in LogRecord
  BY DEF ArchivalTypes
<1>3. ASSUME NEW r \in LogRecord
      PROVE  /\ Moved(r) \in LogRecord /\ Moved(r).number = r.number
             /\ Moved(r).data = r.data /\ Moved(r).table = r.table
  <2>1. \A age : TierAt(age) \in Tier
    BY DEF TierAt, Tier
  <2> QED
    BY <2>1 DEF LogRecord
<1> HIDE DEF Moved
<1>4. archive_log' \in [1..n -> LogRecord]
      /\ \A i \in 1..n : archive_log'[i] = Moved(archive_log[i])
  BY <1>1, <1>2, <1>3
<1>5. archive_log' \in Seq(LogRecord) /\ Len(archive_log') = n
  BY <1>2, <1>4
<1>6. ArchivalTypes'
  BY <1>1, <1>5 DEF ArchivalTypes
<1>7. \A i \in 1..n : /\ archive_log'[i].number = archive_log[i].number
                      /\ archive_log'[i].data = archive_log[i].data
                      /\ archive_log'[i].table = archive_log[i].table
  BY <1>2, <1>3, <1>4
<1>8. RecordsHold'
  <2>1. ASSUME NEW i \in 1..n
        PROVE  LET r == archive_log'[i]
               IN  /\ r.number <= counter'
                   /\ r.data # NoData => FileOf(r) \in DOMAIN archived'
                                           /\ archived'[FileOf(r)] = r.data
    <3>1. FileOf(archive_log'[i]) = FileOf(archive_log[i])
      BY <1>7 DEF FileOf
    <3> QED
      BY <1>1, <1>7, <3>1 DEF RecordsHold
  <2>2. ASSUME NEW i \in 1..n, NEW k \in 1..n, i # k
        PROVE  archive_log'[i].number # archive_log'[k].number
    BY <1>7, <2>2 DEF RecordsHold
  <2> QED
    BY <1>5, <2>1, <2>2 DEF RecordsHold, FileOf
<1> QED
  BY <1>6, <1>8

LEMMA ArchivalStep == ArchivalIInv /\ [ArchivalNext]_archivalVars => ArchivalIInv'
<1> SUFFICES ASSUME ArchivalIInv, [ArchivalNext]_archivalVars PROVE ArchivalIInv'
  OBVIOUS
<1> USE DEF ArchivalIInv
<1>0. sources \in Nat /\ sources + 1 \in Nat /\ NoData \in Nat
  BY DEF ArchivalTypes, NoData
<1>1. CASE UNCHANGED archivalVars
  BY <1>1 DEF archivalVars, ArchivalTypes, RecordsHold
<1>2. CASE DayPasses
  BY <1>2 DEF DayPasses, ArchivalTypes, RecordsHold
<1>3. CASE ArchivalRestart
  <2>1. archive_log' = << >> /\ Len(archive_log') = 0 /\ archive_log' \in Seq(LogRecord)
        /\ counter' = 0 /\ UNCHANGED <<today, sources>>
    BY <1>3 DEF ArchivalRestart
  <2> QED
    BY <2>1 DEF ArchivalTypes, RecordsHold
<1>4. ASSUME NEW t \in Table, ArchiveSource(t)
      PROVE  ArchivalIInv'
  <2>1. /\ counter' = counter + 1 /\ sources' = sources + 1 /\ UNCHANGED today
        /\ archive_log' = Append(archive_log, Record(t, sources + 1))
        /\ archived' = [f \in DOMAIN archived \cup {<<t, counter + 1>>} |->
                          IF f = <<t, counter + 1>> THEN sources + 1 ELSE archived[f]]
    BY <1>4 DEF ArchiveSource, WriteArchive, NextNumber
  <2>2. /\ \A f \in DOMAIN archived : f # <<t, counter + 1>> =>
              f \in DOMAIN archived' /\ archived'[f] = archived[f]
        /\ <<t, counter + 1>> \in DOMAIN archived'
        /\ archived'[<<t, counter + 1>>] = sources + 1
    BY <2>1
  <2> QED
    BY <1>0, <2>1, <2>2, BatchStep
<1>5. ASSUME NEW t \in Table, ArchiveFails(t)
      PROVE  ArchivalIInv'
  <2>1. /\ counter' = counter + 1 /\ sources' = sources + 1 /\ UNCHANGED <<today, archive_log>>
        /\ archived' = [f \in DOMAIN archived \cup {<<t, counter + 1>>} |->
                          IF f = <<t, counter + 1>> THEN NoData ELSE archived[f]]
    BY <1>5 DEF ArchiveFails, WriteArchive, NextNumber
  <2>2. \A f \in DOMAIN archived : f # <<t, counter + 1>> =>
              f \in DOMAIN archived' /\ archived'[f] = archived[f]
    BY <2>1
  <2> QED
    BY <1>0, <2>1, <2>2, BatchStep
<1>6. ASSUME NEW t \in Table, ArchiveMetadata(t)
      PROVE  ArchivalIInv'
  <2>1. /\ counter' = counter + 1 /\ sources' = sources + 1 /\ UNCHANGED <<today, archived>>
        /\ archive_log' = Append(archive_log, Record(t, NoData))
    BY <1>6 DEF ArchiveMetadata
  <2> QED
    BY <1>0, <2>1, BatchStep
<1>7. CASE ArchivalNext
  BY <1>2, <1>3, <1>4, <1>5, <1>6, <1>7, PurgeStep, LifecycleStep DEF ArchivalNext
<1> QED
  BY <1>1, <1>7

(* A logged record's file holds the data the record was made of, and no    *)
(* two logged records share a file, for any tables, rules and lifecycle,   *)
(* however often records are purged, copies fail and the shim restarts.    *)
THEOREM LogIsArchived == ArchivalSpec => []LoggedIsArchived
<1>1. ArchivalIInv => LoggedIsArchived
  <2> SUFFICES ASSUME ArchivalIInv PROVE LoggedIsArchived
    OBVIOUS
  <2>1. DOMAIN archive_log = 1..Len(archive_log)
    BY DEF ArchivalIInv, ArchivalTypes
  <2> QED
    BY <2>1 DEF ArchivalIInv, RecordsHold, LoggedIsArchived, FileOf
<1>2. ArchivalSpec => []ArchivalIInv
  BY ArchivalInitOK, ArchivalStep, PTL DEF ArchivalSpec
<1> QED
  BY <1>1, <1>2, PTL

-----------------------------------------------------------------------------
(* sharding-shim                                                           *)

ShardingSpec == ShardingInit /\ [][ShardingNext]_shardingVars

\* The shard a key hashes to is the only one it was ever routed to.
ServedByHash ==
  /\ routing \in {"hash", "range", "directory"}
  /\ served \in [ShardKey -> SUBSET Shard]
  /\ routing = "hash" => \A k \in ShardKey : served[k] \subseteq {RingPoint(k)[1]}

LEMMA ShardingStep == ServedByHash /\ [ShardingNext]_shardingVars => ServedByHash'
<1> SUFFICES ASSUME ServedByHash, [ShardingNext]_shardingVars PROVE ServedByHash'
  OBVIOUS
<1>1. CASE UNCHANGED <<routing, served>>
  BY <1>1 DEF ServedByHash, RingPoint
<1>2. ASSUME NEW k \in ShardKey, Route(k) PROVE ServedByHash'
  <2>1. UNCHANGED routing
    BY <1>2 DEF Route
  <2>2. PICK s : /\ served' = [served EXCEPT ![k] = @ \cup {s}]
                 /\ s \in CASE routing = "hash" -> route_hash(k)
                            [] routing = "range" -> route_range(k)
                            [] routing = "directory" -> route_directory(k)
    BY <1>2 DEF Route
  <2>3. s \in Shard
    BY <2>2 DEF ServedByHash, route_hash, route_range, route_directory
  <2>4. routing = "hash" => s = RingPoint(k)[1]
    BY <2>2 DEF route_hash
  <2>5. served' \in [ShardKey -> SUBSET Shard]
    BY <2>2, <2>3 DEF ServedByHash
  <2>6. \A x \in ShardKey : served'[x] = IF x = k THEN served[x] \cup {s} ELSE served[x]
    BY <2>2 DEF ServedByHash
  <2>7. routing = "hash" => \A x \in ShardKey : served'[x] \subseteq {RingPoint(x)[1]}
    BY <2>4, <2>6 DEF ServedByHash
  <2> QED
    BY <2>1, <2>5, <2>7, Zenon DEF ServedByHash, RingPoint
<1>3. CASE ShardingNext
  BY <1>1, <1>2, <1>3 DEF ShardingNext, SetRange, AddDirectoryMapping, SetShardHealth
<1> QED
  BY <1>1, <1>3 DEF shardingVars

(* For any shards, keys and hashes: with the hash strategy every           *)
(* successful route of a key named one shard, whatever shards failed and   *)
(* recovered in between (route_hash).                                      *)
THEOREM KeysStay == ShardingSpec => []HashedKeysStay
<1>1. ShardingInit => ServedByHash
  BY DEF ShardingInit, ServedByHash
<1>2. ServedByHash => HashedKeysStay
  <2> SUFFICES ASSUME ServedByHash, routing = "hash", NEW k \in ShardKey
               PROVE  Cardinality(served[k]) <= 1
    BY DEF HashedKeysStay
  <2>1. served[k] = {} \/ served[k] = {RingPoint(k)[1]}
    BY DEF ServedByHash
  <2>2. Cardinality({}) = 0 /\ Cardinality({RingPoint(k)[1]}) = 1
    BY FS_EmptySet, FS_Singleton
  <2> QED
    BY <2>1, <2>2
<1> QED
  BY <1>1, <1>2, ShardingStep, PTL DEF ShardingSpec

-----------------------------------------------------------------------------
(* shim-core: wasm                                                         *)

WasmSpec == PluginInit /\ [][WasmNext]_wasmVars

\* Every value handed out lies in a page the memory has, and still there.
HandedOutHold ==
  /\ pages \in Nat /\ pages <= MaxPages
  /\ DOMAIN memory = 1..MaxPages
  /\ \A v \in handedOut : v.page \in 1..pages /\ memory[v.page] = v.key

LEMMA WasmStep == HandedOutHold /\ [WasmNext]_wasmVars => HandedOutHold'
<1> SUFFICES ASSUME HandedOutHold, [WasmNext]_wasmVars PROVE HandedOutHold'
  OBVIOUS
<1>1. CASE UNCHANGED <<pages, handedOut, memory>>
  BY <1>1 DEF HandedOutHold
<1>2. ASSUME NEW k \in ConfigKey, HostConfigGet(k), pages < MaxPages PROVE HandedOutHold'
  <2>1. /\ pages' = pages + 1 /\ memory' = [memory EXCEPT ![pages + 1] = k]
        /\ handedOut' = handedOut \cup {[key |-> k, page |-> pages + 1]}
    BY <1>2 DEF HostConfigGet, Written
  <2>2. /\ pages + 1 \in 1..MaxPages /\ pages' \in Nat /\ pages' <= MaxPages
        /\ DOMAIN memory' = 1..MaxPages /\ memory'[pages + 1] = k
        /\ \A p \in 1..pages : memory'[p] = memory[p] /\ p \in 1..pages'
        /\ pages + 1 \in 1..pages'
    BY <1>2, <2>1, PluginAssumption DEF HandedOutHold
  <2>3. ASSUME NEW v \in handedOut' PROVE v.page \in 1..pages' /\ memory'[v.page] = v.key
    <3>1. CASE v \in handedOut
      BY <2>2, <3>1 DEF HandedOutHold
    <3>2. CASE v = [key |-> k, page |-> pages + 1]
      BY <2>2, <3>2
    <3> QED
      BY <2>1, <3>1, <3>2
  <2> QED
    BY <2>2, <2>3 DEF HandedOutHold
<1>3. ASSUME NEW k \in ConfigKey, HostConfigGet(k), ~(pages < MaxPages) PROVE HandedOutHold'
  BY <1>1, <1>3 DEF HostConfigGet
<1>4. CASE WasmNext
  BY <1>1, <1>2, <1>3, <1>4 DEF WasmNext, RunBegins, HostLog, RunEnds
<1> QED
  BY <1>1, <1>4 DEF wasmVars

(* For any memory limit and configuration: no value that config_get has    *)
(* returned is overwritten by a later one, of this run or the next.        *)
THEOREM ValuesStay == WasmSpec => []HandedOutValuesStay
<1>1. PluginInit => HandedOutHold
  BY PluginAssumption DEF PluginInit, HandedOutHold
<1>2. HandedOutHold => HandedOutValuesStay
  BY DEF HandedOutHold, HandedOutValuesStay
<1> QED
  BY <1>1, <1>2, WasmStep, PTL DEF WasmSpec

-----------------------------------------------------------------------------
(* chaos-shim                                                              *)

ChaosSpec == ChaosInit /\ [][ChaosShimNext \/ OrchestratorNext]_chaosVars

Ended == [id : Nat, success : BOOLEAN]

\* Ids are numbers up to the counter; each is active or in the history, once.
ExperimentsHold ==
  /\ experiment_counter \in Nat /\ experiment_history \in Seq(Ended)
  /\ DOMAIN orchestrated \subseteq 1..experiment_counter
  /\ experiment_counter = Cardinality(DOMAIN orchestrated) + Len(experiment_history)
  /\ \A i \in 1..Len(experiment_history) :
       /\ experiment_history[i].id \in 1..experiment_counter
       /\ experiment_history[i].id \notin DOMAIN orchestrated
  /\ \A i, j \in 1..Len(experiment_history) :
       experiment_history[i].id = experiment_history[j].id => i = j

LEMMA ActiveAreFinite ==
  ASSUME ExperimentsHold
  PROVE  IsFiniteSet(DOMAIN orchestrated) /\ Cardinality(DOMAIN orchestrated) \in Nat
<1>1. IsFiniteSet(1..experiment_counter)
  BY FS_Interval DEF ExperimentsHold
<1>2. IsFiniteSet(DOMAIN orchestrated)
  BY <1>1, FS_Subset DEF ExperimentsHold
<1> QED
  BY <1>2, FS_CardinalityType

\* The ids in gone, listed once each by ended, leave the active ones.
LEMMA ExperimentsEnd ==
  ASSUME ExperimentsHold, NEW gone, NEW n \in Nat, NEW ended \in [1..n -> Ended],
         gone \subseteq DOMAIN orchestrated, Cardinality(gone) = n,
         DOMAIN orchestrated' = DOMAIN orchestrated \ gone,
         UNCHANGED experiment_counter, experiment_history' = experiment_history \o ended,
         \A i \in 1..n : ended[i].id \in gone,
         \A i, j \in 1..n : ended[i].id = ended[j].id => i = j
  PROVE  ExperimentsHold'
<1> DEFINE h == experiment_history
           m == Len(h)
           D == DOMAIN orchestrated
<1>1. h \in Seq(Ended) /\ m \in Nat /\ experiment_counter \in Nat
  BY DEF ExperimentsHold
<1>2. ended \in Seq(Ended) /\ Len(ended) = n
  OBVIOUS
<1>3. /\ h' \in Seq(Ended) /\ Len(h') = m + n
      /\ \A i \in 1..m : h'[i] = h[i]
      /\ \A i \in 1..n : h'[m + i] = ended[i]
  <2>1. h' = h \o ended
    OBVIOUS
  <2> HIDE DEF h
  <2>2. h \o ended \in Seq(Ended) /\ Len(h \o ended) = Len(h) + Len(ended)
    <3>1. \A s, t \in Seq(Ended) : s \o t \in Seq(Ended) /\ Len(s \o t) = Len(s) + Len(t)
      OBVIOUS
    <3> QED
      BY <1>1, <1>2, <3>1, Zenon
  <2>3. /\ \A i \in 1..m : (h \o ended)[i] = h[i]
        /\ \A i \in 1..Len(ended) : (h \o ended)[m + i] = ended[i]
    BY <1>1, <1>2
  <2> QED
    BY <1>2, <2>1, <2>2, <2>3, Zenon
<1>4. IsFiniteSet(D) /\ Cardinality(D) \in Nat
  BY ActiveAreFinite
<1>5. Cardinality(D \ gone) = Cardinality(D) - n
  <2>1. D \cap gone = gone
    OBVIOUS
  <2> QED
    <3> HIDE DEF D
    <3>1. Cardinality(D \ gone) = Cardinality(D) - Cardinality(D \cap gone)
      BY <1>4, FS_Difference
    <3> QED
      BY <2>1, <3>1
<1>6. experiment_counter' = Cardinality(D') + Len(h')
  BY <1>1, <1>3, <1>4, <1>5 DEF ExperimentsHold
<1>7. ASSUME NEW i \in 1..(m + n)
      PROVE  \/ i \in 1..m /\ h'[i] = h[i]
             \/ /\ i - m \in 1..n /\ h'[i] = ended[i - m]
  BY <1>1, <1>3
<1>8. \A i \in 1..m : h[i].id \in 1..experiment_counter /\ h[i].id \notin D
  BY DEF ExperimentsHold
<1>9. ASSUME NEW i \in 1..(m + n)
      PROVE  h'[i].id \in 1..experiment_counter' /\ h'[i].id \notin D'
  <2>1. CASE i \in 1..m /\ h'[i] = h[i]
    BY <1>8, <2>1
  <2>2. CASE i - m \in 1..n /\ h'[i] = ended[i - m]
    <3>1. h'[i].id \in gone
      BY <2>2
    <3> QED
      BY <3>1 DEF ExperimentsHold
  <2> QED
    BY <1>7, <2>1, <2>2
<1>10. ASSUME NEW i \in 1..(m + n), NEW j \in 1..(m + n), h'[i].id = h'[j].id
       PROVE  i = j
  <2>1. CASE i \in 1..m /\ j \in 1..m
    BY <1>3, <1>10, <2>1 DEF ExperimentsHold
  <2>2. CASE i \in 1..m /\ j \notin 1..m
    BY <1>7, <1>8, <1>10, <2>2
  <2>3. CASE i \notin 1..m /\ j \in 1..m
    BY <1>7, <1>8, <1>10, <2>3
  <2>4. CASE i \notin 1..m /\ j \notin 1..m
    <3>1. i - m \in 1..n /\ j - m \in 1..n /\ ended[i - m].id = ended[j - m].id
      BY <1>7, <1>10, <2>4
    <3>2. i - m = j - m
      BY <3>1
    <3> QED
      BY <1>1, <3>2
  <2> QED
    BY <2>1, <2>2, <2>3, <2>4
<1>11. D' \subseteq 1..experiment_counter'
  BY DEF ExperimentsHold
<1> HIDE DEF h, m, D
<1> QED
  BY <1>1, <1>3, <1>6, <1>9, <1>10, <1>11 DEF ExperimentsHold, h, m, D

LEMMA OrchestrateStep ==
  ASSUME ExperimentsHold, Orchestrate
  PROVE  ExperimentsHold'
<1> DEFINE D == DOMAIN orchestrated
<1>1. /\ experiment_counter \in Nat /\ experiment_counter' = experiment_counter + 1
      /\ D' = D \cup {experiment_counter + 1} /\ UNCHANGED experiment_history
  BY DEF Orchestrate, ExperimentsHold
<1>2. experiment_counter + 1 \notin D
  BY <1>1 DEF ExperimentsHold
<1>3. Cardinality(D') = Cardinality(D) + 1 /\ Cardinality(D) \in Nat
  BY <1>1, <1>2, ActiveAreFinite, FS_AddElement
<1>4. \A i \in 1..experiment_counter : i \in 1..experiment_counter' /\ i # experiment_counter + 1
  BY <1>1
<1>5. Len(experiment_history) \in Nat
  BY DEF ExperimentsHold
<1>6. experiment_counter' = Cardinality(D') + Len(experiment_history')
  BY <1>1, <1>3, <1>5 DEF ExperimentsHold
<1>7. D' \subseteq 1..experiment_counter' /\ experiment_counter' \in Nat
  BY <1>1, <1>4 DEF ExperimentsHold
<1> HIDE DEF D
<1>8. \A i \in 1..Len(experiment_history) :
        /\ experiment_history[i].id \in 1..experiment_counter'
        /\ experiment_history[i].id \notin D'
  BY <1>1, <1>4 DEF ExperimentsHold, D
<1> QED
  BY <1>1, <1>6, <1>7, <1>8 DEF ExperimentsHold, D

LEMMA TickStep ==
  ASSUME ExperimentsHold, OrchestratorTick
  PROVE  ExperimentsHold'
<1> DEFINE gone == {id \in DOMAIN orchestrated : Expired(orchestrated[id])}
           n == Cardinality(gone)
<1>1. /\ orchestrated' = Remaining(gone) /\ UNCHANGED experiment_counter
      /\ \E order \in [1..n -> gone] :
           /\ \A id \in gone : \E i \in DOMAIN order : order[i] = id
           /\ experiment_history' = experiment_history \o
                [i \in DOMAIN order |-> [id |-> order[i], success |-> TRUE]]
  BY DEF OrchestratorTick
<1>2. gone \subseteq DOMAIN orchestrated
  OBVIOUS
<1> HIDE DEF gone
<1>3. PICK order \in [1..n -> gone] :
           /\ \A id \in gone : \E i \in DOMAIN order : order[i] = id
           /\ experiment_history' = experiment_history \o
                [i \in DOMAIN order |-> [id |-> order[i], success |-> TRUE]]
  BY <1>1
<1>4. n \in Nat
  BY <1>2, ActiveAreFinite, FS_Subset, FS_CardinalityType
<1>5. order \in Surjection(1..n, gone)
  BY <1>3 DEF Surjection
<1>6. IsFiniteSet(1..n) /\ Cardinality(1..n) = n
  BY <1>4, FS_Interval
<1>7. order \in Injection(1..n, gone)
  BY <1>5, <1>6, FS_SurjSameCardinalityImpliesInj
<1> DEFINE ended == [i \in DOMAIN order |-> [id |-> order[i], success |-> TRUE]]
<1>8. gone \subseteq Nat
  BY <1>2 DEF ExperimentsHold
<1>9. /\ ended \in [1..n -> Ended] /\ \A i \in 1..n : ended[i].id = order[i]
  BY <1>3, <1>8 DEF Ended
<1>10. \A i, j \in 1..n : ended[i].id = ended[j].id => i = j
  BY <1>7, <1>9 DEF Injection, IsInjective
<1>11. DOMAIN orchestrated' = DOMAIN orchestrated \ gone
  BY <1>1 DEF Remaining
<1>12. experiment_history' = experiment_history \o ended
  BY <1>3
<1>13. \A i \in 1..n : ended[i].id \in gone
  BY <1>9
<1> HIDE DEF ended
<1> QED
  BY <1>1, <1>2, <1>4, <1>9, <1>10, <1>11, <1>12, <1>13, ExperimentsEnd DEF n

LEMMA CompleteStep ==
  ASSUME ExperimentsHold, NEW id, NEW s \in BOOLEAN, CompleteExperiment(id, s)
  PROVE  ExperimentsHold'
<1> DEFINE ended == [i \in 1..1 |-> [id |-> id, success |-> s]]
<1>1. id \in DOMAIN orchestrated /\ id \in Nat /\ UNCHANGED experiment_counter
  BY DEF CompleteExperiment, ExperimentsHold
<1>2. Cardinality({id}) = 1
  BY FS_Singleton
<1>3. ended \in [1..1 -> Ended] /\ ended[1].id = id
  BY <1>1 DEF Ended
<1>4. DOMAIN orchestrated' = DOMAIN orchestrated \ {id}
  BY DEF CompleteExperiment, Remaining
<1>5. experiment_history' = experiment_history \o ended
  <2>1. ended = <<[id |-> id, success |-> s]>>
    OBVIOUS
  <2> QED
    BY <1>1, <2>1 DEF CompleteExperiment, ExperimentsHold, Ended
<1> HIDE DEF ended
<1>6. \A i \in 1..1 : i = 1
  OBVIOUS
<1> QED
  BY <1>1, <1>2, <1>3, <1>4, <1>5, <1>6, ExperimentsEnd

LEMMA ChaosStep ==
  ExperimentsHold /\ [ChaosShimNext \/ OrchestratorNext]_chaosVars => ExperimentsHold'
<1> SUFFICES ASSUME ExperimentsHold, [ChaosShimNext \/ OrchestratorNext]_chaosVars
             PROVE  ExperimentsHold'
  OBVIOUS
<1>1. CASE UNCHANGED <<DOMAIN orchestrated, experiment_history, experiment_counter>>
  BY <1>1 DEF ExperimentsHold
<1>2. CASE UNCHANGED chaosVars
  BY <1>1, <1>2 DEF chaosVars
<1>3. CASE ChaosShimNext
  BY <1>1, <1>3 DEF ChaosShimNext, StartExperiment, SetKnobs, ChaosStop, ChaosTick, Evaluate,
    CreateNetworkPartition, StopExperiment, RemoveNetworkPartition, orchestratorVars
<1>4. ASSUME NEW ids, OrchestratorStop(ids) PROVE ExperimentsHold'
  BY <1>1, <1>4 DEF OrchestratorStop
<1>5. ASSUME NEW id, RegisterSchedule(id) \/ RecordScheduledRun(id) PROVE ExperimentsHold'
  BY <1>1, <1>5 DEF RegisterSchedule, RecordScheduledRun
<1>6. CASE ChaosTick
  BY <1>1, <1>6 DEF ChaosTick, orchestratorVars
<1>7. CASE OrchestratorNext
  BY <1>4, <1>5, <1>6, <1>7, OrchestrateStep, TickStep, CompleteStep DEF OrchestratorNext
<1> QED
  BY <1>2, <1>3, <1>7

(* However many experiments are started, stopped, completed or expire, in  *)
(* whatever order the hash map yields them: each is active or has ended,   *)
(* and is in the history once (ChaosOrchestrator).                         *)
THEOREM NoExperimentIsLost == ChaosSpec => []ExperimentsAreConserved
<1>1. ChaosInit => ExperimentsHold
  <2> SUFFICES ASSUME ChaosInit PROVE ExperimentsHold
    OBVIOUS
  <2>1. /\ DOMAIN orchestrated = {} /\ experiment_history = << >> /\ experiment_counter = 0
        /\ Len(experiment_history) = 0 /\ experiment_history \in Seq(Ended)
    BY DEF ChaosInit
  <2> QED
    BY <2>1, FS_EmptySet DEF ExperimentsHold
<1>2. ExperimentsHold => ExperimentsAreConserved
  BY DEF ExperimentsHold, ExperimentsAreConserved
<1> QED
  BY <1>1, <1>2, ChaosStep, PTL DEF ChaosSpec

-----------------------------------------------------------------------------
(* shim-core: config and config-shim                                       *)

ConfigSpec == ConfigInit /\ [][ConfigLoadNext \/ ConfigShimNext]_configVars

TenantEntry == [id : TenantId, from : {"file", "env"}]
NoTwins(ts) == \A i, j \in 1..Len(ts) : ts[i].id = ts[j].id => i = j

\* What load() reads: every input has one of the values the code tells apart.
InputsHold ==
  /\ env \in [Setting -> Value \cup {Unset, Garbage}]
  /\ envTenant \in Seq(TenantId) /\ Len(envTenant) \in {0, 1}
  /\ configFile \in {NoConfigFile} \cup [Setting -> Value]
  /\ fileTenants \in Seq(TenantId)

ConfigIInv == InputsHold /\ EnvironmentWins

\* The environment's tenant, after the others without their namesake of it.
LEMMA MergedTenants ==
  ASSUME NEW base \in Seq(TenantEntry), NEW other \in Seq(TenantEntry), Len(other) = 1
  PROVE  LET kept == FlattenSeq([i \in DOMAIN base |->
                       IF base[i].id = other[1].id THEN << >> ELSE <<base[i]>>])
         IN  /\ kept \o other \in Seq(TenantEntry)
             /\ \E j \in 1..Len(kept \o other) : (kept \o other)[j] = other[1]
             /\ NoTwins(base) => NoTwins(kept \o other)
<1> DEFINE K == {i \in DOMAIN base : base[i].id # other[1].id}
           kept == FlattenSeq([i \in DOMAIN base |->
                     IF base[i].id = other[1].id THEN << >> ELSE <<base[i]>>])
           m == Len(kept)
           all == kept \o other
<1>1. kept = Chosen(base, K)
  <2>1. \A i \in DOMAIN base : i \in K <=> ~(base[i].id = other[1].id)
    OBVIOUS
  <2> HIDE DEF K
  <2>2. [i \in DOMAIN base |-> IF base[i].id = other[1].id THEN << >> ELSE <<base[i]>>]
          = [i \in DOMAIN base |-> IF i \in K THEN <<base[i]>> ELSE << >>]
    BY <2>1
  <2> QED
    BY <2>2, Zenon DEF Chosen
<1>2. \A k \in K : base[k].id # other[1].id
  OBVIOUS
<1> HIDE DEF K, kept
<1>3. kept \in Seq(TenantEntry) /\ \E h : Lists(h, kept, base, K, Len(base))
  BY <1>1, ChosenLists
<1>4. PICK h : Lists(h, kept, base, K, Len(base))
  BY <1>3
<1>5. /\ m \in Nat /\ all \in Seq(TenantEntry) /\ Len(all) = m + 1 /\ all[m + 1] = other[1]
      /\ \A i \in 1..m : all[i] = kept[i]
  <2>1. all \in Seq(TenantEntry) /\ Len(all) = m + Len(other) /\ m \in Nat
    <3>1. \A s, t \in Seq(TenantEntry) :
            s \o t \in Seq(TenantEntry) /\ Len(s \o t) = Len(s) + Len(t) /\ Len(s) \in Nat
      OBVIOUS
    <3> QED
      BY <1>3, <3>1, Zenon
  <2>2. \A i \in 1..m : all[i] = kept[i]
    BY <1>3
  <2>3. all[m + 1] = other[1]
    <3>1. \A t \in Seq(TenantEntry) : \A i \in 1..Len(t) : (kept \o t)[Len(kept) + i] = t[i]
      BY <1>3
    <3>2. 1 \in 1..Len(other)
      OBVIOUS
    <3> QED
      BY <3>1, <3>2
  <2> HIDE DEF all, m
  <2> QED
    BY <2>1, <2>2, <2>3
<1> HIDE DEF all, m
<1>6. \A i \in 1..(m + 1) : i \in 1..m \/ i = m + 1
  BY <1>5
<1>7. \A i \in 1..m : h[i] \in Nat /\ h[i] \in 1..Len(base) /\ all[i] = base[h[i]] /\ h[i] \in K
  BY <1>4, <1>5 DEF Lists, m
<1>8. ASSUME NoTwins(base), NEW i \in 1..(m + 1), NEW j \in 1..(m + 1), all[i].id = all[j].id
      PROVE  i = j
  <2>1. CASE i \in 1..m /\ j \in 1..m
    <3>1. h[i] = h[j]
      BY <1>7, <1>8, <2>1 DEF NoTwins
    <3>2. ~(i < j) /\ ~(j < i)
      BY <1>4, <1>7, <2>1, <3>1 DEF Lists, m
    <3> QED
      BY <1>5, <2>1, <3>2
  <2>2. CASE i \in 1..m /\ j = m + 1
    BY <1>2, <1>5, <1>7, <1>8, <2>2
  <2>3. CASE i = m + 1 /\ j \in 1..m
    BY <1>2, <1>5, <1>7, <1>8, <2>3
  <2> QED
    BY <1>6, <2>1, <2>2, <2>3
<1>9. NoTwins(base) => NoTwins(all)
  BY <1>5, <1>8 DEF NoTwins
<1>10. \E j \in 1..Len(all) : all[j] = other[1]
  <2>1. m + 1 \in 1..Len(all)
    BY <1>5
  <2> QED
    BY <1>5, <2>1
<1> QED
  BY <1>5, <1>9, <1>10, Zenon DEF all, kept

\* Loading gives every setting its precedence and keeps tenants apart.
LEMMA LoadStep ==
  ASSUME InputsHold, Load
  PROVE  EnvironmentWins'
<1> DEFINE base == [i \in DOMAIN fileTenants |-> [id |-> fileTenants[i], from |-> "file"]]
           other == [i \in DOMAIN envTenant |-> [id |-> envTenant[i], from |-> "env"]]
<1>1. /\ UNCHANGED <<env, envTenant, configFile, fileTenants>>
      /\ loaded' = IF configFile = NoConfigFile THEN from_env ELSE merge(configFile, from_env)
      /\ loadedTenants' = merge_tenants(base, other)
  BY DEF Load
<1>2. /\ base \in [1..Len(fileTenants) -> TenantEntry] /\ DOMAIN fileTenants = 1..Len(fileTenants)
      /\ \A i \in 1..Len(fileTenants) : base[i].id = fileTenants[i]
      /\ Len(fileTenants) \in Nat
  BY DEF InputsHold, TenantEntry
<1>3. /\ other \in [1..Len(envTenant) -> TenantEntry] /\ DOMAIN envTenant = 1..Len(envTenant)
      /\ \A i \in 1..Len(envTenant) : other[i] = [id |-> envTenant[i], from |-> "env"]
      /\ Len(envTenant) \in Nat /\ Len(envTenant) \in {0, 1}
  BY DEF InputsHold, TenantEntry
<1> HIDE DEF base, other
<1>4. base \in Seq(TenantEntry) /\ Len(base) = Len(fileTenants)
  BY <1>2
<1>5. other \in Seq(TenantEntry) /\ Len(other) = Len(envTenant)
  BY <1>3
<1>6. IsInjective(fileTenants) => NoTwins(base)
  BY <1>2, <1>4 DEF IsInjective, NoTwins
<1>7. /\ loadedTenants' \in Seq(TenantEntry)
      /\ NoTwins(base) => NoTwins(loadedTenants')
      /\ \A i \in 1..Len(envTenant) :
           \E j \in 1..Len(loadedTenants') : loadedTenants'[j] = other[i]
  <2>1. CASE envTenant = << >>
    <3>1. loadedTenants' = base /\ Len(envTenant) = 0
      BY <1>1, <2>1 DEF merge_tenants
    <3> QED
      BY <1>4, <3>1
  <2>2. CASE envTenant # << >>
    <3>1. Len(other) = 1
      <4>1. Len(envTenant) # 0
        BY <2>2 DEF InputsHold
      <4> QED
        BY <1>3, <1>5, <4>1
    <3> DEFINE kept == FlattenSeq([i \in DOMAIN base |->
                         IF base[i].id = other[1].id THEN << >> ELSE <<base[i]>>])
    <3>2. loadedTenants' = kept \o other
      BY <1>1, <2>2 DEF merge_tenants
    <3>3. /\ kept \o other \in Seq(TenantEntry)
          /\ \E j \in 1..Len(kept \o other) : (kept \o other)[j] = other[1]
          /\ NoTwins(base) => NoTwins(kept \o other)
      BY <1>4, <1>5, <3>1, MergedTenants
    <3> HIDE DEF kept
    <3>4. \A i \in 1..Len(envTenant) : i = 1
      BY <1>5, <3>1
    <3> QED
      BY <3>2, <3>3, <3>4, Zenon
  <2> QED
    BY <2>1, <2>2
<1>8. /\ DOMAIN loaded' = Setting
      /\ \A s \in Setting \ Unread :
           loaded'[s] = IF env[s] \in Value THEN env[s]
                        ELSE IF env[s] = Unset /\ configFile # NoConfigFile THEN configFile[s]
                        ELSE Dflt
  <2>1. Unset \notin Value /\ Garbage \notin Value /\ Unset # Garbage
    BY DEF Unset, Garbage, Value, Dflt
  <2>2. /\ DOMAIN from_env = Setting
        /\ \A s \in Setting \ Unread :
             from_env[s] = IF env[s] \in {Unset, Garbage} THEN Dflt ELSE env[s]
    BY DEF from_env
  <2>3. \A s \in Setting : env[s] \in Value \cup {Unset, Garbage}
    BY DEF InputsHold
  <2>4. CASE configFile = NoConfigFile
    <3>1. loaded' = from_env
      BY <1>1, <2>4
    <3> QED
      BY <2>1, <2>2, <2>3, <2>4, <3>1, Zenon
  <2>5. CASE configFile # NoConfigFile
    <3>1. loaded' = [s \in Setting |-> IF env[s] # Unset THEN from_env[s] ELSE configFile[s]]
      BY <1>1, <2>5 DEF merge
    <3>2. DOMAIN loaded' = Setting
          /\ \A s \in Setting : loaded'[s] = IF env[s] # Unset THEN from_env[s] ELSE configFile[s]
      BY <3>1
    <3> HIDE DEF from_env
    <3> QED
      BY <2>1, <2>2, <2>3, <2>5, <3>2, Zenon
  <2> QED
    BY <2>4, <2>5
<1>9. NoTwins(loadedTenants') => "tenants" \notin validate(loaded, loadedTenants)'
  <2> SUFFICES ASSUME NoTwins(loadedTenants'), "tenants" \in validate(loaded, loadedTenants)'
               PROVE  FALSE
    OBVIOUS
  <2>1. "tenants" \notin Setting
    BY SettingAssumption
  <2>2. PICK j \in DOMAIN loadedTenants' :
          \E k \in 1..(j - 1) : loadedTenants'[k].id = loadedTenants'[j].id
    BY <1>8, <2>1 DEF validate
  <2>3. PICK k \in 1..(j - 1) : loadedTenants'[k].id = loadedTenants'[j].id
    BY <2>2
  <2>4. j \in 1..Len(loadedTenants') /\ k \in 1..Len(loadedTenants') /\ k # j
    BY <1>7
  <2> QED
    BY <2>3, <2>4 DEF NoTwins
<1>10. \A i \in DOMAIN envTenant :
         \E j \in DOMAIN loadedTenants' : loadedTenants'[j] = [id |-> envTenant[i], from |-> "env"]
  <2>1. DOMAIN loadedTenants' = 1..Len(loadedTenants')
    BY <1>7
  <2> QED
    BY <1>3, <1>7, <2>1, Zenon
<1>11. IsInjective(fileTenants) => "tenants" \notin validate(loaded, loadedTenants)'
  BY <1>6, <1>7, <1>9
<1> QED
  BY <1>1, <1>8, <1>10, <1>11 DEF EnvironmentWins, NoConfigFile, IsInjective

LEMMA ConfigStep ==
  ConfigIInv /\ [ConfigLoadNext \/ ConfigShimNext]_configVars => ConfigIInv'
<1> SUFFICES ASSUME ConfigIInv, [ConfigLoadNext \/ ConfigShimNext]_configVars
             PROVE  ConfigIInv'
  OBVIOUS
<1> USE DEF ConfigIInv
<1>1. CASE UNCHANGED loadVars
  BY <1>1 DEF loadVars, InputsHold, EnvironmentWins, validate, NoConfigFile, IsInjective
<1>2. CASE ConfigShimNext
  BY <1>1, <1>2 DEF ConfigShimNext, EditWatchedFile, WatchLoop, ReloadConfig
<1>3. ASSUME InputsHold', loaded' = NoConfigFile PROVE ConfigIInv'
  BY <1>3 DEF EnvironmentWins, NoConfigFile
<1>4. ASSUME NEW s \in Setting, SetEnv(s) PROVE ConfigIInv'
  <2>1. PICK v \in Value \cup {Unset, Garbage} : env' = [env EXCEPT ![s] = v]
    BY <1>4 DEF SetEnv
  <2>2. env' \in [Setting -> Value \cup {Unset, Garbage}]
    BY <2>1 DEF InputsHold
  <2> QED
    BY <1>3, <1>4, <2>2 DEF SetEnv, InputsHold, NoConfigFile
<1>5. CASE SetEnvTenant
  <2>1. envTenant' = << >> \/ \E t \in TenantId : envTenant' = <<t>>
    BY <1>5 DEF SetEnvTenant
  <2>2. envTenant' \in Seq(TenantId) /\ Len(envTenant') \in {0, 1}
    <3>1. \A t \in TenantId : <<t>> \in Seq(TenantId) /\ Len(<<t>>) = 1
      OBVIOUS
    <3>2. << >> \in Seq(TenantId) /\ Len(<< >>) = 0
      OBVIOUS
    <3> QED
      BY <2>1, <3>1, <3>2, Zenon
  <2> QED
    BY <1>3, <1>5, <2>2 DEF SetEnvTenant, InputsHold, NoConfigFile
<1>6. CASE WriteConfigFile
  <2>1. fileTenants' = << >> \/ fileTenants' \in [1..2 -> TenantId]
    BY <1>6 DEF WriteConfigFile
  <2>2. fileTenants' \in Seq(TenantId)
    <3>1. << >> \in Seq(TenantId)
      OBVIOUS
    <3>2. \A n \in Nat : \A f \in [1..n -> TenantId] : f \in Seq(TenantId)
      OBVIOUS
    <3>3. 2 \in Nat
      OBVIOUS
    <3> QED
      BY <2>1, <3>1, <3>2, <3>3, Zenon
  <2> QED
    BY <1>3, <1>6, <2>2 DEF WriteConfigFile, InputsHold, NoConfigFile
<1>7. CASE Load
  <2>1. InputsHold'
    BY <1>7 DEF Load, InputsHold, NoConfigFile
  <2> QED
    BY <1>7, <2>1, LoadStep
<1>8. CASE ConfigLoadNext
  BY <1>4, <1>5, <1>6, <1>7, <1>8 DEF ConfigLoadNext
<1> QED
  BY <1>1, <1>2, <1>8 DEF configVars

(* For any settings and tenants: what load() returns has environment over  *)
(* file over default for every variable that is read and parses, tells the *)
(* tenants apart when the file does, and holds the environment's tenant.   *)
THEOREM PrecedenceHolds == ConfigSpec => []EnvironmentWins
<1>1. ConfigInit => ConfigIInv
  <2> SUFFICES ASSUME ConfigInit PROVE ConfigIInv
    OBVIOUS
  <2>1. /\ envTenant = << >> /\ fileTenants = << >> /\ Len(envTenant) = 0
        /\ envTenant \in Seq(TenantId) /\ fileTenants \in Seq(TenantId)
    BY DEF ConfigInit
  <2> QED
    BY <2>1 DEF ConfigInit, ConfigIInv, InputsHold, EnvironmentWins
<1> QED
  BY <1>1, ConfigStep, PTL DEF ConfigSpec, ConfigIInv

-----------------------------------------------------------------------------
(* migration-shim                                                          *)

MigrationSpec == MigrationInit /\ [][MigrationNext]_migrationVars

\* As long as no lock in use was removed, the lock file of a shim that
\* migrates is there and is its own.
LockIsOwn ==
  lockStolen \/ \A p \in Migrator : Migrating(p) => lockFile.by = p /\ lockFile.text # "none"

MigLabel == {"down", "up", "exists", "stale", "remove", "create", "write", "scan",
             "apply", "record", "release", "unrecord", "failed"}

LockIInv ==
  /\ lockFile \in [text : {"none", "empty", "info"}, by : Migrator \cup {NoOne}, old : BOOLEAN]
  /\ migPc \in [Migrator -> MigLabel]
  /\ lockStolen \in BOOLEAN
  /\ LockIsOwn

LEMMA LockInitOK == MigrationInit => LockIInv
<1> SUFFICES ASSUME MigrationInit PROVE LockIInv
  OBVIOUS
<1>1. lockFile = [text |-> "none", by |-> NoOne, old |-> FALSE] /\ lockStolen = FALSE
  BY DEF MigrationInit, NoFile
<1>2. migPc = [p \in Migrator |-> "down"]
  BY DEF MigrationInit
<1>3. LockIsOwn
  BY <1>2 DEF LockIsOwn, Migrating
<1>4. lockFile \in [text : {"none", "empty", "info"}, by : Migrator \cup {NoOne}, old : BOOLEAN]
  BY <1>1
<1>5. migPc \in [Migrator -> MigLabel]
  BY <1>2 DEF MigLabel
<1>6. lockStolen \in BOOLEAN
  BY <1>1
<1> QED
  BY <1>3, <1>4, <1>5, <1>6 DEF LockIInv

\* Steps that leave the file alone and let nobody start to migrate.
LockKept ==
  /\ UNCHANGED <<lockFile, lockStolen>>
  /\ migPc' \in [Migrator -> MigLabel]
  /\ \A q \in Migrator : Migrating(q)' => Migrating(q)

LEMMA LockKeptOK == LockIInv /\ LockKept => LockIInv'
BY DEF LockIInv, LockIsOwn, LockKept

\* Where a shim goes with a step of its own.
GoesTo(p, label) ==
  /\ migPc' \in [Migrator -> MigLabel] /\ migPc'[p] = label
  /\ \A q \in Migrator : q # p => migPc'[q] = migPc[q]

LEMMA GotoOK ==
  LockIInv => \A p \in Migrator, label \in MigLabel : Goto(p, label) => GoesTo(p, label)
<1> SUFFICES ASSUME LockIInv, NEW p \in Migrator, NEW label \in MigLabel, Goto(p, label)
             PROVE  GoesTo(p, label)
  OBVIOUS
<1>1. migPc \in [Migrator -> MigLabel] /\ migPc' = [migPc EXCEPT ![p] = label]
  BY DEF LockIInv, Goto
<1> QED
  BY <1>1 DEF GoesTo

\* A step of one shim that leaves the file alone and does not begin to migrate.
Stays(p, label) ==
  /\ Goto(p, label) /\ UNCHANGED <<lockFile, lockStolen>>
  /\ label \in {"write", "scan", "apply", "record", "release"} => Migrating(p)

LEMMA GotoKept ==
  LockIInv => \A p \in Migrator, label \in MigLabel : Stays(p, label) => LockIInv'
<1> SUFFICES ASSUME LockIInv, NEW p \in Migrator, NEW label \in MigLabel, Stays(p, label)
             PROVE  LockIInv'
  OBVIOUS
<1>1. GoesTo(p, label)
  BY GotoOK DEF Stays
<1>2. \A q \in Migrator : Migrating(q)' => Migrating(q)
  BY <1>1 DEF GoesTo, Stays, Migrating
<1> QED
  BY <1>1, <1>2, LockKeptOK DEF LockKept, GoesTo, Stays

LEMMA LockStep == LockIInv /\ [MigrationNext]_migrationVars => LockIInv'
<1> SUFFICES ASSUME LockIInv, [MigrationNext]_migrationVars PROVE LockIInv'
  OBVIOUS
<1>1. CASE LockAges
  <2>1. lockFile' = [lockFile EXCEPT !.old = TRUE] /\ UNCHANGED <<migPc, lockStolen>>
    BY <1>1 DEF LockAges
  <2> QED
    BY <2>1 DEF LockIInv, LockIsOwn, Migrating
<1>2. CASE UNCHANGED migrationVars
  BY <1>2 DEF migrationVars, LockIInv, LockIsOwn, Migrating
<1>3. ASSUME NEW p \in Migrator,
             MigStart(p) \/ LockExists(p) \/ LockIsStale(p) \/ ScanMigrations(p)
               \/ ApplyMigration(p) \/ RecordMigration(p) \/ ApplyEnds(p)
               \/ RollbackSql(p) \/ RollbackRecord(p) \/ MigRestart(p)
      PROVE  LockIInv'
  <2>1. CASE MigStart(p)
    <3>1. Stays(p, "exists") \/ Stays(p, "up")
      BY <2>1 DEF MigStart, Stays
    <3> QED
      BY <3>1, GotoKept DEF MigLabel
  <2>2. CASE LockExists(p)
    <3>1. Stays(p, "create") \/ Stays(p, "stale")
      BY <2>2 DEF LockExists, Stays
    <3> QED
      BY <3>1, GotoKept DEF MigLabel
  <2>3. CASE LockIsStale(p)
    <3>1. Stays(p, "remove") \/ Stays(p, "failed")
      BY <2>3 DEF LockIsStale, Stays
    <3> QED
      BY <3>1, GotoKept DEF MigLabel
  <2>4. CASE ScanMigrations(p)
    <3>1. Stays(p, "failed") \/ Stays(p, "apply")
      BY <2>4 DEF ScanMigrations, Stays, Migrating
    <3> QED
      BY <3>1, GotoKept DEF MigLabel
  <2>5. CASE ApplyMigration(p)
    <3>1. UNCHANGED migPc \/ Stays(p, "failed") \/ Stays(p, "record")
      BY <2>5 DEF ApplyMigration, Stays, Migrating
    <3>2. CASE UNCHANGED migPc
      <4>1. UNCHANGED <<lockFile, lockStolen>>
        BY <2>5 DEF ApplyMigration
      <4> QED
        BY <3>2, <4>1, LockKeptOK DEF LockKept, LockIInv, Migrating
    <3> QED
      BY <3>1, <3>2, GotoKept DEF MigLabel
  <2>6. CASE RecordMigration(p)
    <3>1. Stays(p, "apply")
      BY <2>6 DEF RecordMigration, Stays, Migrating
    <3> QED
      BY <3>1, GotoKept DEF MigLabel
  <2>7. CASE ApplyEnds(p)
    <3>1. Stays(p, "release")
      BY <2>7 DEF ApplyEnds, Stays, Migrating
    <3> QED
      BY <3>1, GotoKept DEF MigLabel
  <2>8. CASE RollbackSql(p)
    <3>1. UNCHANGED migPc \/ Stays(p, "unrecord")
      BY <2>8 DEF RollbackSql, Stays
    <3>2. CASE UNCHANGED migPc
      <4>1. UNCHANGED <<lockFile, lockStolen>>
        BY <2>8 DEF RollbackSql
      <4> QED
        BY <3>2, <4>1, LockKeptOK DEF LockKept, LockIInv, Migrating
    <3> QED
      BY <3>1, <3>2, GotoKept DEF MigLabel
  <2>9. CASE RollbackRecord(p)
    <3>1. Stays(p, "up")
      BY <2>9 DEF RollbackRecord, Stays
    <3> QED
      BY <3>1, GotoKept DEF MigLabel
  <2>10. CASE MigRestart(p)
    <3>1. Stays(p, "down")
      BY <2>10 DEF MigRestart, Stays
    <3> QED
      BY <3>1, GotoKept DEF MigLabel
  <2> QED
    BY <1>3, <2>1, <2>2, <2>3, <2>4, <2>5, <2>6, <2>7, <2>8, <2>9, <2>10
<1>4. ASSUME NEW p \in Migrator, RemoveStale(p) PROVE LockIInv'
  <2>1. CASE lockFile.text = "none"
    <3>1. Stays(p, "failed")
      BY <1>4, <2>1 DEF RemoveStale, Stays
    <3> QED
      BY <3>1, GotoKept DEF MigLabel
  <2>2. CASE lockFile.text # "none"
    <3>1. Goto(p, "create") /\ lockFile' = NoFile
      BY <1>4, <2>2 DEF RemoveStale
    <3>2. lockStolen' = (lockStolen \/ \E q \in Migrator : lockFile.by = q /\ Migrating(q))
      BY <1>4, <2>2 DEF RemoveStale
    <3>3. GoesTo(p, "create")
      BY <3>1, GotoOK DEF MigLabel
    <3>4. \A q \in Migrator : Migrating(q)' => Migrating(q)
      BY <3>3 DEF GoesTo, Migrating
    <3>5. LockIsOwn'
      BY <3>2, <3>4 DEF LockIInv, LockIsOwn
    <3>6. lockStolen' \in BOOLEAN
      BY <3>2
    <3>7. lockFile' \in [text : {"none", "empty", "info"}, by : Migrator \cup {NoOne}, old : BOOLEAN]
      BY <3>1 DEF NoFile
    <3> QED
      BY <3>3, <3>5, <3>6, <3>7 DEF GoesTo, LockIInv
  <2> QED
    BY <2>1, <2>2
\* Nobody migrates while there is no file, so the one that creates it is alone.
<1>5. ASSUME NEW p \in Migrator, LockCreate(p) PROVE LockIInv'
  <2>1. CASE lockFile.text # "none"
    <3>1. Stays(p, "failed")
      BY <1>5, <2>1 DEF LockCreate, Stays
    <3> QED
      BY <3>1, GotoKept DEF MigLabel
  <2>2. CASE lockFile.text = "none"
    <3>1. Goto(p, "write") /\ UNCHANGED lockStolen
            /\ lockFile' = [text |-> "empty", by |-> p, old |-> FALSE]
      BY <1>5, <2>2 DEF LockCreate
    <3>2. GoesTo(p, "write")
      BY <3>1, GotoOK DEF MigLabel
    <3>3. lockStolen \/ \A q \in Migrator \ {p} : ~Migrating(q)'
      BY <2>2, <3>2 DEF GoesTo, LockIInv, LockIsOwn, Migrating
    <3>4. lockFile'.by = p /\ lockFile'.text # "none"
            /\ lockFile' \in [text : {"none", "empty", "info"}, by : Migrator \cup {NoOne}, old : BOOLEAN]
      BY <3>1
    <3> QED
      BY <3>1, <3>2, <3>3, <3>4 DEF GoesTo, LockIInv, LockIsOwn
  <2> QED
    BY <2>1, <2>2
\* The one that writes is the one that created the file, unless it was stolen.
<1>6. ASSUME NEW p \in Migrator, LockWrite(p) PROVE LockIInv'
  <2>1. Goto(p, "scan") /\ UNCHANGED lockStolen /\ Migrating(p)
          /\ lockFile' = [text |-> "info", by |-> p, old |-> FALSE]
    BY <1>6 DEF LockWrite, Migrating
  <2>2. GoesTo(p, "scan")
    BY <2>1, GotoOK DEF MigLabel
  <2>3. lockStolen \/ \A q \in Migrator \ {p} : ~Migrating(q)'
    BY <2>1, <2>2 DEF GoesTo, LockIInv, LockIsOwn, Migrating
  <2>4. lockFile'.by = p /\ lockFile'.text # "none"
          /\ lockFile' \in [text : {"none", "empty", "info"}, by : Migrator \cup {NoOne}, old : BOOLEAN]
    BY <2>1
  <2> QED
    BY <2>1, <2>2, <2>3, <2>4 DEF GoesTo, LockIInv, LockIsOwn
<1>7. ASSUME NEW p \in Migrator, ReleaseLock(p) PROVE LockIInv'
  <2>1. Goto(p, "up") /\ UNCHANGED lockStolen /\ Migrating(p) /\ lockFile' = NoFile
    BY <1>7 DEF ReleaseLock, Migrating
  <2>2. GoesTo(p, "up")
    BY <2>1, GotoOK DEF MigLabel
  <2>3. lockStolen \/ \A q \in Migrator : ~Migrating(q)'
    BY <2>1, <2>2 DEF GoesTo, LockIInv, LockIsOwn, Migrating
  <2>4. lockFile' \in [text : {"none", "empty", "info"}, by : Migrator \cup {NoOne}, old : BOOLEAN]
    BY <2>1 DEF NoFile
  <2> QED
    BY <2>1, <2>2, <2>3, <2>4 DEF GoesTo, LockIInv, LockIsOwn
<1> QED
  BY <1>1, <1>2, <1>3, <1>4, <1>5, <1>6, <1>7 DEF MigrationNext

(* For any number of shims and files, two shims migrate at the same time   *)
(* only after one has removed a lock in use as stale (acquire_lock).       *)
THEOREM OverlapIsTheft == MigrationSpec => []OverlapNeedsTheft
<1>1. LockIInv => OverlapNeedsTheft
  BY DEF LockIInv, LockIsOwn, OverlapNeedsTheft
<1> QED
  BY LockInitOK, LockStep, <1>1, PTL DEF MigrationSpec

\* The versions there are files for.
Version == {MigrationFiles[i] : i \in DOMAIN MigrationFiles}

Ledger == [applied : SUBSET Version, current : Nat, done : Nat, undone : Nat, next : Nat \ {0}]

\* The ledger m of one shim, whose program counter is at pc: applied versions
\* are an interval that ends at current, each counted once; a version whose
\* SQL just ran is the next one, and a rollback has something to undo.
LedgerHolds(m, pc) ==
  /\ m \in Ledger /\ IsFiniteSet(m.applied)
  /\ \A w \in m.applied : w <= m.current
  /\ m.current \in m.applied \/ (m.current = 0 /\ m.applied = {})
  /\ \A v \in 1..m.current : v \in m.applied \/ \A w \in m.applied : w > v
  /\ m.done = m.undone + Cardinality(m.applied)
  /\ pc = "record" => /\ m.next \in DOMAIN MigrationFiles
                      /\ MigrationFiles[m.next] \notin m.applied
                      /\ MigrationFiles[m.next] = m.current + 1 \/ m.current = 0
  /\ pc = "unrecord" => m.current > 0

LedgersHold ==
  /\ migPc \in [Migrator -> MigLabel] /\ migrator \in [Migrator -> Ledger]
  /\ schema \cup recorded \subseteq Version
  /\ \A p \in Migrator : LedgerHolds(migrator[p], migPc[p])

LEMMA VersionsAreNumbers == Version \subseteq Nat \ {0}
<1>1. \A i \in DOMAIN MigrationFiles : MigrationFiles[i] \in Nat \ {0}
  BY MigrationAssumption
<1> QED
  BY <1>1 DEF Version

\* The highest of some numbers up to n.
LEMMA HighestOf ==
  ASSUME NEW S, NEW n \in Nat, \A w \in S : w \in Nat /\ w <= n
  PROVE  /\ S = {} => Highest(S) = 0
         /\ S # {} => Highest(S) \in S /\ \A w \in S : w <= Highest(S)
<1>1. ASSUME S # {} PROVE \E v \in S : \A w \in S : w <= v
  <2> DEFINE T == {k \in Nat : k <= n /\ n - k \in S}
  <2>1. \A w \in S : n - w \in T
    <3> SUFFICES ASSUME NEW w \in S PROVE n - w \in T
      OBVIOUS
    <3>1. w \in Nat /\ w <= n
      OBVIOUS
    <3>2. n - w \in Nat /\ n - w <= n /\ n - (n - w) = w
      BY <3>1
    <3> QED
      BY <3>2
  <2>2. T \subseteq Nat /\ T # {}
    BY <1>1, <2>1
  <2>3. \A k \in T : k \in Nat /\ n - k \in S
    OBVIOUS
  <2> HIDE DEF T
  <2>4. PICK k \in T : \A j \in T : k <= j
    BY <2>2, LeastNat
  <2>5. ASSUME NEW w \in S PROVE w <= n - k
    <3>1. k <= n - w /\ w \in Nat /\ k \in Nat
      BY <2>1, <2>3, <2>4
    <3> QED
      BY <3>1
  <2> QED
    BY <2>3, <2>5
<1>2. S = {} => Highest(S) = 0
  BY DEF Highest
<1>3. S # {} => Highest(S) = CHOOSE v \in S : \A w \in S : w <= v
  BY DEF Highest
<1> QED
  BY <1>1, <1>2, <1>3

\* The shim p goes to label with the ledger m.
LedgerMoves(p, m, label) ==
  migrator' = [migrator EXCEPT ![p] = m] /\ migPc' = [migPc EXCEPT ![p] = label]

\* A step of one shim that leaves its ledger in order.
LEMMA OneLedger ==
  ASSUME LedgersHold, NEW p \in Migrator, NEW m, NEW label \in MigLabel,
         LedgerMoves(p, m, label),
         m \in Ledger, LedgerHolds(m, label), schema' \cup recorded' \subseteq Version
  PROVE  LedgersHold'
<1>1. /\ migPc' \in [Migrator -> MigLabel] /\ migrator' \in [Migrator -> Ledger]
      /\ migrator'[p] = m /\ migPc'[p] = label
      /\ \A q \in Migrator : q # p => migrator'[q] = migrator[q] /\ migPc'[q] = migPc[q]
  BY DEF LedgersHold, LedgerMoves
<1>2. ASSUME NEW q \in Migrator PROVE LedgerHolds(migrator'[q], migPc'[q])
  <2>1. CASE q = p
    BY <1>1, <2>1
  <2>2. CASE q # p
    BY <1>1, <2>2 DEF LedgersHold
  <2> QED
    BY <2>1, <2>2
<1> QED
  BY <1>1, <1>2 DEF LedgersHold, LedgerHolds, Ledger, Version

\* A step of one shim that changes no ledger and runs no SQL.
LEMMA OnlyGoes ==
  ASSUME LedgersHold, NEW p \in Migrator, NEW label \in MigLabel \ {"record", "unrecord"},
         Goto(p, label), UNCHANGED <<migrator, schema, recorded>>
  PROVE  LedgersHold'
<1>1. LedgerMoves(p, migrator[p], label)
  BY DEF Goto, LedgersHold, LedgerMoves
<1>2. LedgerHolds(migrator[p], migPc[p])
  BY DEF LedgersHold
<1>3. LedgerHolds(migrator[p], label)
  BY <1>2 DEF LedgerHolds
<1>4. schema' \cup recorded' \subseteq Version
  BY DEF LedgersHold
<1> QED
  BY <1>1, <1>2, <1>3, <1>4, OneLedger DEF LedgerHolds

\* The loop of start() goes on with the file at n.
LEMMA NextFile ==
  ASSUME LedgersHold, NEW p \in Migrator, NEW n \in Nat \ {0},
         migPc' = [migPc EXCEPT ![p] = "apply"], UNCHANGED <<schema, recorded>>,
         migrator' = [migrator EXCEPT ![p].next = n]
  PROVE  LedgersHold'
<1> DEFINE m == migrator[p]
           k == [applied |-> m.applied, current |-> m.current, done |-> m.done,
                 undone |-> m.undone, next |-> n]
<1>1. LedgerHolds(m, migPc[p]) /\ migrator \in [Migrator -> Ledger]
  BY DEF LedgersHold
<1>2. m \in Ledger
  BY <1>1 DEF LedgerHolds
<1>3. LedgerMoves(p, k, "apply")
  <2>1. [m EXCEPT !.next = n] = k
    BY <1>2 DEF Ledger
  <2> HIDE DEF k
  <2> QED
    BY <2>1 DEF LedgerMoves
<1>4. k \in Ledger
  BY <1>2 DEF Ledger
<1>5. /\ k.applied = m.applied /\ k.current = m.current /\ k.done = m.done
      /\ k.undone = m.undone
  OBVIOUS
<1> HIDE DEF k, m
<1>6. LedgerHolds(k, "apply")
  BY <1>1, <1>4, <1>5 DEF LedgerHolds
<1>7. schema' \cup recorded' \subseteq Version
  BY DEF LedgersHold
<1> QED
  <2>1. "apply" \in MigLabel
    BY DEF MigLabel
  <2> QED
    BY <1>3, <1>4, <1>6, <1>7, OneLedger, <2>1, Zenon

\* The version whose SQL ran is recorded.
LEMMA RecordStep ==
  ASSUME LedgersHold, NEW p \in Migrator, RecordMigration(p)
  PROVE  LedgersHold'
<1> DEFINE m == migrator[p]
           v == MigrationFiles[m.next]
           k == [applied |-> m.applied \cup {v}, current |-> v, done |-> m.done + 1,
                 undone |-> m.undone, next |-> m.next + 1]
<1>1. /\ LedgerHolds(m, "record") /\ migrator \in [Migrator -> Ledger]
      /\ migPc' = [migPc EXCEPT ![p] = "apply"]
      /\ schema' = schema /\ recorded' \in {recorded, recorded \cup {v}}
  BY DEF LedgersHold, RecordMigration, Goto, InsertRecord
<1>2. m \in Ledger /\ v \in Version /\ v \notin m.applied /\ (v = m.current + 1 \/ m.current = 0)
  BY <1>1 DEF LedgerHolds, Version
<1>3. LedgerMoves(p, k, "apply")
  BY <1>1, <1>2 DEF RecordMigration, Ledger, LedgerMoves
<1>4. v \in Nat /\ v > 0
  <2> HIDE DEF v
  <2> QED
    BY <1>2, VersionsAreNumbers
<1>5. k \in Ledger
  BY <1>2, <1>4 DEF Ledger
<1>6. /\ k.applied = m.applied \cup {v} /\ k.current = v /\ k.done = m.done + 1
      /\ k.undone = m.undone
  OBVIOUS
<1>7. /\ m.applied \subseteq Nat \ {0} /\ m.current \in Nat /\ m.done \in Nat /\ m.undone \in Nat
  BY <1>2, VersionsAreNumbers DEF Ledger
<1> HIDE DEF k, m, v
<1>8. IsFiniteSet(m.applied) /\ Cardinality(m.applied) \in Nat
  BY <1>1, FS_CardinalityType DEF LedgerHolds
<1>9. IsFiniteSet(k.applied) /\ Cardinality(k.applied) = Cardinality(m.applied) + 1
  <2>1. /\ IsFiniteSet(m.applied \cup {v})
        /\ Cardinality(m.applied \cup {v}) = IF v \in m.applied THEN Cardinality(m.applied)
                                             ELSE Cardinality(m.applied) + 1
    BY <1>8, FS_AddElement
  <2> QED
    BY <1>2, <1>6, <2>1
<1>10. k.done = k.undone + Cardinality(k.applied)
  BY <1>1, <1>6, <1>7, <1>8, <1>9 DEF LedgerHolds
<1>11. \A w \in m.applied : w <= m.current /\ w \in Nat
  BY <1>1, <1>7 DEF LedgerHolds
<1>12. m.current = 0 => m.applied = {}
  BY <1>7, <1>11
<1>13. \A w \in k.applied : w <= k.current
  BY <1>2, <1>4, <1>6, <1>7, <1>11, <1>12
<1>14. ASSUME NEW u \in 1..k.current
       PROVE  u \in k.applied \/ \A w \in k.applied : w > u
  <2>1. u \in Nat /\ u >= 1 /\ u <= v
    BY <1>4, <1>6
  <2>2. CASE u = v
    BY <1>6, <2>2
  <2>3. CASE u < v /\ m.current = 0
    BY <1>6, <1>12, <2>1, <2>3
  <2>4. CASE u < v /\ v = m.current + 1
    <3>1. u \in 1..m.current
      BY <1>7, <2>1, <2>4
    <3>2. u \in m.applied \/ \A w \in m.applied : w > u
      BY <1>1, <3>1 DEF LedgerHolds
    <3> QED
      BY <1>4, <1>6, <2>1, <2>4, <3>2
  <2> QED
    BY <1>2, <1>4, <2>1, <2>2, <2>3, <2>4
<1>15. LedgerHolds(k, "apply")
  BY <1>5, <1>6, <1>9, <1>10, <1>13, <1>14 DEF LedgerHolds
<1>16. schema' \cup recorded' \subseteq Version
  BY <1>1, <1>2 DEF LedgersHold
<1> QED
  <2>1. "apply" \in MigLabel
    BY DEF MigLabel
  <2> QED
    BY <1>3, <1>5, <1>15, <1>16, OneLedger, <2>1, Zenon

\* The version that was undone is taken out.
LEMMA UnrecordStep ==
  ASSUME LedgersHold, NEW p \in Migrator, RollbackRecord(p)
  PROVE  LedgersHold'
<1> DEFINE m == migrator[p]
           left == m.applied \ {m.current}
           k == [applied |-> left, current |-> Highest(left), done |-> m.done,
                 undone |-> m.undone + 1, next |-> m.next]
<1>1. /\ LedgerHolds(m, "unrecord") /\ migrator \in [Migrator -> Ledger]
      /\ migPc' = [migPc EXCEPT ![p] = "up"]
      /\ schema' = schema /\ recorded' \in {recorded, recorded \ {m.current}}
  BY DEF LedgersHold, RollbackRecord, Goto, DeleteRecord
<1>2. m \in Ledger /\ m.current \in m.applied
  BY <1>1 DEF LedgerHolds
<1>3. LedgerMoves(p, k, "up")
  <2> HIDE DEF left
  <2>1. migrator' = [migrator EXCEPT ![p].applied = left, ![p].current = Highest(left),
                                     ![p].undone = @ + 1]
    BY DEF RollbackRecord, left
  <2> QED
    BY <1>1, <1>2, <2>1 DEF Ledger, LedgerMoves
<1>4. /\ k.applied = left /\ k.current = Highest(left) /\ k.done = m.done
      /\ k.undone = m.undone + 1 /\ k.next = m.next
  OBVIOUS
<1>5. /\ m.applied \subseteq Version /\ Version \subseteq Nat \ {0} /\ m.current \in Nat
      /\ m.done \in Nat /\ m.undone \in Nat /\ m.next \in Nat \ {0}
  BY <1>2, VersionsAreNumbers DEF Ledger
<1>6. \A w \in left : w \in Nat /\ w # 0 /\ w <= m.current /\ w # m.current /\ w \in m.applied
  BY <1>1, <1>5 DEF LedgerHolds
<1>7. IsFiniteSet(m.applied) /\ Cardinality(m.applied) \in Nat
  BY <1>1, FS_CardinalityType DEF LedgerHolds
<1>8. IsFiniteSet(left) /\ Cardinality(left) = Cardinality(m.applied) - 1
  BY <1>2, <1>7, FS_RemoveElement
<1>9. \A u \in m.applied : u # m.current => u \in left
  OBVIOUS
<1>10. left \subseteq Version
  BY <1>5
<1> HIDE DEF left
<1>11. /\ left = {} => Highest(left) = 0
       /\ left # {} => Highest(left) \in left /\ \A w \in left : w <= Highest(left)
  BY <1>5, <1>6, HighestOf
<1>12. Highest(left) \in Nat
  BY <1>6, <1>11
<1>13. k \in Ledger
  BY <1>5, <1>10, <1>12 DEF Ledger
<1> HIDE DEF k, m
<1>14. k.done = k.undone + Cardinality(k.applied)
  BY <1>1, <1>4, <1>5, <1>7, <1>8 DEF LedgerHolds
<1>15. ASSUME NEW u \in 1..k.current
       PROVE  u \in k.applied \/ \A w \in k.applied : w > u
  <2>1. u \in Nat /\ 1 <= u /\ u <= Highest(left) /\ left # {}
    BY <1>4, <1>11, <1>12
  <2>2. Highest(left) < m.current
    BY <1>5, <1>6, <1>11, <2>1
  <2>3. u \in 1..m.current /\ u # m.current
    BY <1>5, <1>12, <2>1, <2>2
  <2>4. u \in m.applied \/ \A w \in m.applied : w > u
    BY <1>1, <2>3 DEF LedgerHolds
  <2> QED
    BY <1>4, <1>6, <1>9, <2>3, <2>4
<1>16. LedgerHolds(k, "up")
  BY <1>4, <1>8, <1>11, <1>13, <1>14, <1>15 DEF LedgerHolds
<1>17. schema' \cup recorded' \subseteq Version
  BY <1>1 DEF LedgersHold
<1> QED
  <2>1. "up" \in MigLabel
    BY DEF MigLabel
  <2> QED
    BY <1>3, <1>13, <1>16, <1>17, OneLedger, <2>1, Zenon

LEMMA LedgerStep == LedgersHold /\ [MigrationNext]_migrationVars => LedgersHold'
<1> SUFFICES ASSUME LedgersHold, [MigrationNext]_migrationVars PROVE LedgersHold'
  OBVIOUS
<1>0. /\ \A label \in MigLabel \ {"record", "unrecord"} : label \in MigLabel
      /\ {"up", "exists", "create", "stale", "remove", "failed", "write", "scan", "apply",
          "release", "down"} \subseteq MigLabel \ {"record", "unrecord"}
      /\ "record" \in MigLabel /\ "unrecord" \in MigLabel
  BY DEF MigLabel
<1>1. CASE UNCHANGED <<migPc, migrator, schema, recorded>>
  BY <1>1 DEF LedgersHold, LedgerHolds, Ledger, Version
<1>2. ASSUME NEW p \in Migrator,
             MigStart(p) \/ LockExists(p) \/ LockIsStale(p) \/ RemoveStale(p)
               \/ LockCreate(p) \/ LockWrite(p) \/ ApplyEnds(p) \/ ReleaseLock(p)
      PROVE  LedgersHold'
  <2>1. /\ UNCHANGED <<migrator, schema, recorded>>
        /\ \E label \in {"up", "exists", "create", "stale", "remove", "failed", "write",
                         "scan", "release"} : Goto(p, label)
    BY <1>2 DEF MigStart, LockExists, LockIsStale, RemoveStale, LockCreate, LockWrite,
      ApplyEnds, ReleaseLock
  <2> QED
    BY <1>0, <2>1, OnlyGoes
<1>3. ASSUME NEW p \in Migrator, ScanMigrations(p) PROVE LedgersHold'
  <2>1. CASE Goto(p, "failed") /\ UNCHANGED migrator
    BY <1>0, <1>3, <2>1, OnlyGoes DEF ScanMigrations
  <2>2. CASE Goto(p, "apply") /\ migrator' = [migrator EXCEPT ![p].next = 1]
    <3>1. 1 \in Nat \ {0} /\ UNCHANGED <<schema, recorded>>
      BY <1>3 DEF ScanMigrations
    <3> QED
      BY <2>2, <3>1, NextFile DEF Goto
  <2> QED
    BY <1>3, <2>1, <2>2 DEF ScanMigrations
<1>4. ASSUME NEW p \in Migrator, ApplyMigration(p) PROVE LedgersHold'
  <2> DEFINE m == migrator[p]
             v == MigrationFiles[m.next]
  <2>1. /\ migPc[p] = "apply" /\ m.next <= Len(MigrationFiles) /\ UNCHANGED recorded
        /\ m \in Ledger /\ LedgerHolds(m, "apply")
    BY <1>4 DEF ApplyMigration, LedgersHold
  <2>2. m.next \in Nat \ {0} /\ m.next + 1 \in Nat \ {0}
    BY <2>1 DEF Ledger
  <2>3. CASE Goto(p, "failed") /\ UNCHANGED <<migrator, schema>>
    BY <1>0, <2>1, <2>3, OnlyGoes
  <2>4. CASE migrator' = [migrator EXCEPT ![p].next = @ + 1] /\ UNCHANGED <<migPc, schema>>
    <3>1. migPc' = [migPc EXCEPT ![p] = "apply"]
      BY <2>1, <2>4 DEF LedgersHold
    <3>2. migrator' = [migrator EXCEPT ![p].next = m.next + 1]
      BY <2>4
    <3> QED
      BY <2>1, <2>2, <2>4, <3>1, <3>2, NextFile
  <2>5. CASE MayApply(p, v) /\ ExecuteSql(schema \cup {v}) /\ Goto(p, "record") /\ UNCHANGED migrator
    <3>1. m.next \in DOMAIN MigrationFiles /\ v \in Version
      BY <2>1, <2>2, MigrationAssumption DEF Version
    <3>2. LedgerHolds(m, "record")
      BY <2>1, <2>5, <3>1 DEF LedgerHolds, MayApply
    <3>3. LedgerMoves(p, m, "record")
      BY <2>5 DEF LedgersHold, LedgerMoves, Goto
    <3>4. schema' \cup recorded' \subseteq Version
      BY <2>1, <2>5, <3>1 DEF ExecuteSql, LedgersHold
    <3> HIDE DEF m
    <3> QED
      BY <1>0, <2>1, <3>2, <3>3, <3>4, OneLedger
  <2> QED
    BY <1>4, <2>3, <2>4, <2>5 DEF ApplyMigration
<1>5. ASSUME NEW p \in Migrator, RollbackSql(p) PROVE LedgersHold'
  <2> DEFINE m == migrator[p]
  <2>1. /\ m \in Ledger /\ LedgerHolds(m, "up") /\ m.current > 0
        /\ UNCHANGED <<migrator, recorded>>
    BY <1>5 DEF RollbackSql, LedgersHold
  <2>2. LedgerHolds(m, "unrecord")
    BY <2>1 DEF LedgerHolds
  <2>3. schema' \cup recorded' \subseteq Version
    BY <1>5, <2>1 DEF RollbackSql, ExecuteSql, LedgersHold
  <2>4. CASE UNCHANGED <<migPc, schema>>
    BY <1>1, <2>1, <2>4
  <2>5. CASE Goto(p, "unrecord")
    <3>1. LedgerMoves(p, m, "unrecord")
      BY <2>1, <2>5 DEF LedgersHold, LedgerMoves, Goto
    <3> HIDE DEF m
    <3> QED
      BY <1>0, <2>1, <2>2, <2>3, <3>1, OneLedger
  <2> QED
    BY <1>5, <2>4, <2>5 DEF RollbackSql
<1>6. ASSUME NEW p \in Migrator, MigRestart(p) PROVE LedgersHold'
  <2>1. LedgerMoves(p, Fresh, "down") /\ UNCHANGED <<schema, recorded>>
    BY <1>6 DEF MigRestart, Goto, LedgerMoves
  <2>2. Fresh \in Ledger
    BY DEF Fresh, Ledger
  <2>3. LedgerHolds(Fresh, "down")
    BY <2>2, FS_EmptySet DEF LedgerHolds, Fresh
  <2>4. schema' \cup recorded' \subseteq Version
    BY <2>1 DEF LedgersHold
  <2> QED
    BY <1>0, <2>1, <2>2, <2>3, <2>4, OneLedger
<1>7. CASE MigrationNext
  BY <1>1, <1>2, <1>3, <1>4, <1>5, <1>6, <1>7, RecordStep, UnrecordStep
  DEF MigrationNext, LockAges
<1> QED
  BY <1>1, <1>7 DEF migrationVars

LEMMA LedgerInit == MigrationInit => LedgersHold
<1> SUFFICES ASSUME MigrationInit PROVE LedgersHold
  OBVIOUS
<1>1. Fresh \in Ledger
  BY DEF Fresh, Ledger
<1>2. LedgerHolds(Fresh, "down")
  BY <1>1, FS_EmptySet DEF LedgerHolds, Fresh
<1>3. migPc \in [Migrator -> MigLabel] /\ \A p \in Migrator : migPc[p] = "down"
  BY DEF MigrationInit, MigLabel
<1>4. migrator \in [Migrator -> Ledger] /\ \A p \in Migrator : migrator[p] = Fresh
  BY <1>1 DEF MigrationInit
<1>5. schema \cup recorded \subseteq Version
  BY DEF MigrationInit
<1> QED
  BY <1>2, <1>3, <1>4, <1>5, Zenon DEF LedgersHold

(* For any shims, files and restarts: what a shim has applied is an        *)
(* interval of versions that ends at its current one, its counters account *)
(* for each of them, and a dry run predicts the checks of the real one     *)
(* (apply_migration_db, rollback_last_db, dry_run_migration).              *)
THEOREM LedgersAreIntervals == MigrationSpec => []LedgerIsAnInterval
<1>1. LedgersHold => LedgerIsAnInterval
  <2> SUFFICES ASSUME LedgersHold, NEW p \in Migrator
               PROVE  LET m == migrator[p] IN
                      /\ m.current = Highest(m.applied)
                      /\ \A v \in 1..m.current : v \in m.applied \/ \A w \in m.applied : w > v
                      /\ m.done = m.undone + Cardinality(m.applied)
                      /\ \A v \in schema : MayApply(p, v) <=> WouldApply(p, v)
    BY DEF LedgerIsAnInterval
  <2> DEFINE m == migrator[p]
  <2>1. LedgerHolds(m, migPc[p])
    BY DEF LedgersHold
  <2>2. m.applied \subseteq Nat \ {0} /\ m.current \in Nat
    BY <2>1, VersionsAreNumbers DEF LedgerHolds, Ledger
  <2>3. m.current = Highest(m.applied)
    <3> HIDE DEF m
    <3>1. \A w \in m.applied : w \in Nat /\ w <= m.current
      BY <2>1, <2>2 DEF LedgerHolds
    <3>2. /\ m.applied = {} => Highest(m.applied) = 0
          /\ m.applied # {} => /\ Highest(m.applied) \in m.applied
                               /\ \A w \in m.applied : w <= Highest(m.applied)
      BY <2>2, <3>1, HighestOf
    <3>3. CASE m.applied = {}
      BY <2>1, <3>2, <3>3 DEF LedgerHolds
    <3>4. CASE m.applied # {}
      <4>1. m.current \in m.applied
        BY <2>1, <3>4 DEF LedgerHolds
      <4>2. m.current <= Highest(m.applied) /\ Highest(m.applied) <= m.current
            /\ Highest(m.applied) \in Nat
        BY <3>1, <3>2, <3>4, <4>1
      <4> QED
        BY <2>2, <4>2
    <3> QED
      BY <3>3, <3>4
  <2>4. \A v \in schema : MayApply(p, v) <=> WouldApply(p, v)
    BY <2>2 DEF MayApply, WouldApply
  <2> QED
    BY <2>1, <2>3, <2>4 DEF LedgerHolds
<1> QED
  BY <1>1, LedgerInit, LedgerStep, PTL DEF MigrationSpec

(* The lock file, the shims' program counters and the versions in force    *)
(* and recorded are of their types, for any shims and files.               *)
THEOREM MigrationTypes == MigrationSpec => []MigrationTypeOK
<1>1. LockIInv /\ LedgersHold => MigrationTypeOK
  BY DEF LockIInv, LedgersHold, MigrationTypeOK, Version, MigLabel
<1>2. MigrationSpec => []LockIInv
  BY LockInitOK, LockStep, PTL DEF MigrationSpec
<1>3. MigrationSpec => []LedgersHold
  BY LedgerInit, LedgerStep, PTL DEF MigrationSpec
<1> QED
  BY <1>1, <1>2, <1>3, PTL

\* orchestrate_multi_db.
TargetSpec == TargetInit /\ [][TargetNext]_targetVars

TargetRecord == [at : Nat \ {0}, file : Nat, applied : Nat, errors : Nat]
TargetResult == [success : BOOLEAN, applied : Nat]

\* The target at work has as many files in force as it counts, each of them
\* before the next one; those after it have none.
TargetsHold ==
  /\ target \in TargetRecord
  /\ targetSchema \in [1..TargetDbs -> SUBSET Nat]
  /\ target_results \in Seq(TargetResult) /\ Len(target_results) = target.at - 1
  /\ target.at <= TargetDbs + 1
  /\ target.file > 0 => target.at <= TargetDbs
  /\ target.file = 0 => target.applied = 0 /\ target.errors = 0
  /\ \A t \in 1..TargetDbs :
       /\ IsFiniteSet(targetSchema[t])
       /\ t < target.at => target_results[t].applied = Cardinality(targetSchema[t])
       /\ t = target.at => /\ target.applied = Cardinality(targetSchema[t])
                           /\ \A f \in targetSchema[t] : f < target.file
       /\ t > target.at => targetSchema[t] = {}

LEMMA TargetEndStep ==
  ASSUME TargetsHold, NEW errors \in Nat, TargetEnded(errors), target.at <= TargetDbs
  PROVE  TargetsHold'
<1> DEFINE n == target.at
           r == [success |-> errors = 0, applied |-> target.applied]
<1>1. /\ n \in Nat \ {0} /\ target.applied \in Nat /\ TargetDbs \in Nat
      /\ target_results \in Seq(TargetResult) /\ Len(target_results) = n - 1
  BY MigrationAssumption DEF TargetsHold, TargetRecord
<1>2. /\ target_results' = Append(target_results, r) /\ UNCHANGED targetSchema
      /\ target' = [at |-> n + 1, file |-> 0, applied |-> 0, errors |-> 0]
  BY DEF TargetEnded, BeginTarget
<1>3. r \in TargetResult /\ r.applied = target.applied
  <2>1. (errors = 0) \in BOOLEAN
    BY Zenon
  <2> QED
    BY <1>1, <2>1 DEF TargetResult
<1> HIDE DEF r
<1>4. /\ target_results' \in Seq(TargetResult) /\ Len(target_results') = n
      /\ target_results'[n] = r /\ \A t \in 1..(n - 1) : target_results'[t] = target_results[t]
  BY <1>1, <1>2, <1>3
<1>5. /\ target' \in TargetRecord /\ target'.at = n + 1 /\ target'.file = 0
      /\ target'.applied = 0 /\ target'.errors = 0
  BY <1>1, <1>2 DEF TargetRecord
<1>6. ASSUME NEW t \in 1..TargetDbs
      PROVE  /\ IsFiniteSet(targetSchema'[t])
             /\ t < target'.at => target_results'[t].applied = Cardinality(targetSchema'[t])
             /\ t = target'.at => /\ target'.applied = Cardinality(targetSchema'[t])
                                  /\ \A f \in targetSchema'[t] : f < target'.file
             /\ t > target'.at => targetSchema'[t] = {}
  <2>1. IsFiniteSet(targetSchema'[t])
    BY <1>2 DEF TargetsHold
  <2>2. CASE t < n
    <3>1. t \in 1..(n - 1) /\ t < target'.at /\ t # target'.at /\ ~(t > target'.at)
      BY <1>1, <1>5, <2>2
    <3> QED
      BY <1>2, <1>4, <2>1, <2>2, <3>1 DEF TargetsHold
  <2>3. CASE t = n
    <3>1. t < target'.at /\ t # target'.at /\ ~(t > target'.at)
      BY <1>1, <1>5, <2>3
    <3> QED
      BY <1>2, <1>3, <1>4, <2>1, <2>3, <3>1 DEF TargetsHold
  <2>4. CASE t > n
    <3>1. targetSchema'[t] = {} /\ ~(t < target'.at)
      BY <1>1, <1>2, <1>5, <2>4 DEF TargetsHold
    <3> QED
      BY <1>5, <2>1, <3>1, FS_EmptySet
  <2> QED
    BY <1>1, <2>2, <2>3, <2>4
<1>7. n + 1 <= TargetDbs + 1 /\ n = (n + 1) - 1
  BY <1>1
<1>8. targetSchema' \in [1..TargetDbs -> SUBSET Nat]
  BY <1>2 DEF TargetsHold
<1> HIDE DEF n
<1> QED
  BY <1>4, <1>5, <1>6, <1>7, <1>8 DEF TargetsHold

\* The target at work goes to the file g, having applied the file f or not.
LEMMA TargetWorks ==
  ASSUME TargetsHold, UNCHANGED target_results, target.at <= TargetDbs,
         NEW g \in Nat, g > 0, NEW e \in Nat, NEW a \in Nat,
         target' = [at |-> target.at, file |-> g, applied |-> a, errors |-> e],
         targetSchema' \in [1..TargetDbs -> SUBSET Nat],
         \A t \in 1..TargetDbs : t # target.at => targetSchema'[t] = targetSchema[t],
         IsFiniteSet(targetSchema'[target.at]), a = Cardinality(targetSchema'[target.at]),
         \A f \in targetSchema'[target.at] : f < g
  PROVE  TargetsHold'
<1>1. target' \in TargetRecord /\ target'.at = target.at /\ target'.file = g
      /\ target'.applied = a /\ target.at \in Nat
  BY DEF TargetsHold, TargetRecord
<1>2. ASSUME NEW t \in 1..TargetDbs
      PROVE  /\ IsFiniteSet(targetSchema'[t])
             /\ t < target'.at => target_results'[t].applied = Cardinality(targetSchema'[t])
             /\ t = target'.at => /\ target'.applied = Cardinality(targetSchema'[t])
                                  /\ \A f \in targetSchema'[t] : f < target'.file
             /\ t > target'.at => targetSchema'[t] = {}
  <2>1. CASE t = target.at
    BY <1>1, <2>1
  <2>2. CASE t # target.at
    BY <1>1, <2>2 DEF TargetsHold
  <2> QED
    BY <2>1, <2>2
<1> QED
  BY <1>1, <1>2 DEF TargetsHold

LEMMA TargetStep == TargetsHold /\ [TargetNext]_targetVars => TargetsHold'
<1> SUFFICES ASSUME TargetsHold, [TargetNext]_targetVars PROVE TargetsHold'
  OBVIOUS
<1>0. /\ target \in TargetRecord /\ target.at \in Nat \ {0} /\ target.file \in Nat
      /\ target.applied \in Nat /\ target.errors \in Nat /\ TargetDbs \in Nat
      /\ DOMAIN MigrationFiles = 1..Len(MigrationFiles) /\ Len(MigrationFiles) \in Nat
      /\ targetSchema \in [1..TargetDbs -> SUBSET Nat]
  BY MigrationAssumption DEF TargetsHold, TargetRecord
<1>1. CASE UNCHANGED targetVars
  BY <1>1 DEF targetVars, TargetsHold
<1>2. CASE TargetConnect
  <2>1. CASE TargetEnded(1)
    BY <1>2, <2>1, TargetEndStep DEF TargetConnect
  <2>2. CASE target' = [target EXCEPT !.file = 1] /\ UNCHANGED <<targetSchema, target_results>>
    <3>1. target' = [at |-> target.at, file |-> 1, applied |-> target.applied,
                     errors |-> target.errors]
      BY <1>0, <2>2 DEF TargetRecord
    <3>2. target.at \in 1..TargetDbs /\ target.file = 0
      BY <1>0, <1>2 DEF TargetConnect
    <3>3. /\ IsFiniteSet(targetSchema[target.at])
          /\ target.applied = Cardinality(targetSchema[target.at])
          /\ \A f \in targetSchema[target.at] : f < target.file
      BY <3>2 DEF TargetsHold
    <3>4. \A f \in targetSchema[target.at] : f < 1
      BY <1>0, <3>2, <3>3
    <3> QED
      <4>1. 1 \in Nat /\ 1 > 0 /\ target.at <= TargetDbs /\ UNCHANGED target_results
        BY <1>2, <2>2 DEF TargetConnect
      <4>2. /\ targetSchema' \in [1..TargetDbs -> SUBSET Nat]
            /\ \A t \in 1..TargetDbs : t # target.at => targetSchema'[t] = targetSchema[t]
            /\ IsFiniteSet(targetSchema'[target.at])
            /\ target.applied = Cardinality(targetSchema'[target.at])
            /\ \A f \in targetSchema'[target.at] : f < 1
        BY <1>0, <2>2, <3>3, <3>4
      <4> QED
        BY <1>0, <3>1, <4>1, <4>2, TargetWorks
  <2> QED
    BY <1>2, <2>1, <2>2 DEF TargetConnect
<1>3. CASE TargetFile
  <2> DEFINE n == target.at
             g == target.file
  <2>1. /\ g \in 1..Len(MigrationFiles) /\ n <= TargetDbs /\ n \in 1..TargetDbs
        /\ UNCHANGED target_results
    BY <1>0, <1>3 DEF TargetFile, TargetsHold
  <2>2. /\ IsFiniteSet(targetSchema[n]) /\ target.applied = Cardinality(targetSchema[n])
        /\ \A f \in targetSchema[n] : f < g /\ f \in Nat
    BY <1>0, <2>1 DEF TargetsHold
  <2>3. g \notin targetSchema[n] /\ g + 1 \in Nat /\ g + 1 > 0 /\ g < g + 1
    BY <1>0, <2>1, <2>2
  <2>4. \A f \in targetSchema[n] : f < g + 1
    BY <1>0, <2>1, <2>2
  <2>5. CASE /\ target' = [target EXCEPT !.file = @ + 1, !.errors = @ + 1]
             /\ UNCHANGED targetSchema
    <3>1. target' = [at |-> target.at, file |-> g + 1, applied |-> target.applied,
                     errors |-> target.errors + 1]
      BY <1>0, <2>5 DEF TargetRecord
    <3>2. target.errors + 1 \in Nat
      BY <1>0
    <3> QED
      BY <1>0, <2>1, <2>2, <2>3, <2>4, <2>5, <3>1, <3>2, TargetWorks
  <2>6. CASE target' = [target EXCEPT !.file = @ + 1] /\ UNCHANGED targetSchema
    <3>1. target' = [at |-> target.at, file |-> g + 1, applied |-> target.applied,
                     errors |-> target.errors]
      BY <1>0, <2>6 DEF TargetRecord
    <3> QED
      BY <1>0, <2>1, <2>2, <2>3, <2>4, <2>6, <3>1, TargetWorks
  <2>7. CASE /\ target' = [target EXCEPT !.file = @ + 1, !.applied = @ + 1]
             /\ targetSchema' = [targetSchema EXCEPT ![n] = @ \cup {g}]
    <3>1. target' = [at |-> target.at, file |-> g + 1, applied |-> target.applied + 1,
                     errors |-> target.errors]
      BY <1>0, <2>7 DEF TargetRecord
    <3>2. /\ targetSchema' \in [1..TargetDbs -> SUBSET Nat]
          /\ targetSchema'[n] = targetSchema[n] \cup {g}
          /\ \A t \in 1..TargetDbs : t # n => targetSchema'[t] = targetSchema[t]
      BY <1>0, <2>1, <2>7
    <3>3. IsFiniteSet(targetSchema'[n])
          /\ Cardinality(targetSchema'[n]) = Cardinality(targetSchema[n]) + 1
      <4> DEFINE S == targetSchema[n]
      <4>1. IsFiniteSet(S) /\ g \notin S
        BY <2>2, <2>3
      <4> HIDE DEF S, g
      <4>2. IsFiniteSet(S \cup {g}) /\ Cardinality(S \cup {g}) = Cardinality(S) + 1
        BY <4>1, FS_AddElement
      <4> QED
        BY <3>2, <4>2 DEF S
    <3>4. target.applied + 1 = Cardinality(targetSchema'[n]) /\ target.applied + 1 \in Nat
      BY <1>0, <2>2, <3>3
    <3>5. \A f \in targetSchema'[n] : f < g + 1
      BY <2>3, <2>4, <3>2
    <3> QED
      BY <1>0, <2>1, <2>3, <3>1, <3>2, <3>3, <3>4, <3>5, TargetWorks
  <2>8. \/ /\ target' = [target EXCEPT !.file = @ + 1, !.errors = @ + 1]
           /\ UNCHANGED targetSchema
        \/ target' = [target EXCEPT !.file = @ + 1] /\ UNCHANGED targetSchema
        \/ /\ target' = [target EXCEPT !.file = @ + 1, !.applied = @ + 1]
           /\ targetSchema' = [targetSchema EXCEPT ![n] = @ \cup {g}]
    <3>1. /\ [[target EXCEPT !.file = @ + 1] EXCEPT !.errors = @ + 1]
               = [target EXCEPT !.file = @ + 1, !.errors = @ + 1]
          /\ [[target EXCEPT !.file = @ + 1] EXCEPT !.applied = @ + 1]
               = [target EXCEPT !.file = @ + 1, !.applied = @ + 1]
      BY <1>0 DEF TargetRecord
    <3> QED
      BY <1>3, <3>1 DEF TargetFile
  <2> QED
    BY <2>5, <2>6, <2>7, <2>8
<1>4. CASE TargetDone
  <2>1. target.at <= TargetDbs /\ TargetEnded(target.errors)
    BY <1>0, <1>4 DEF TargetDone, TargetsHold
  <2> QED
    BY <1>0, <2>1, TargetEndStep
<1> QED
  BY <1>1, <1>2, <1>3, <1>4 DEF TargetNext

(* For any number of targets and files: the report has every target up to  *)
(* the one at work, whichever failed, and counts what is in force there    *)
(* (orchestrate_multi_db).                                                 *)
THEOREM TargetsMatch == TargetSpec => []ResultsMatchTargets
<1>1. TargetInit => TargetsHold
  <2> SUFFICES ASSUME TargetInit PROVE TargetsHold
    OBVIOUS
  <2>1. /\ target = [at |-> 1, file |-> 0, applied |-> 0, errors |-> 0]
        /\ target_results = << >> /\ Len(target_results) = 0
        /\ target_results \in Seq(TargetResult) /\ TargetDbs \in Nat
    BY MigrationAssumption DEF TargetInit, BeginTarget
  <2>2. target \in TargetRecord
    BY <2>1 DEF TargetRecord
  <2>3. targetSchema \in [1..TargetDbs -> SUBSET Nat] /\ \A t \in 1..TargetDbs : targetSchema[t] = {}
    BY DEF TargetInit
  <2>4. \A t \in 1..TargetDbs : ~(t < 1)
    BY <2>1
  <2> QED
    <3>1. target.at = 1 /\ target.file = 0 /\ target.applied = 0 /\ target.errors = 0
          /\ 1 <= TargetDbs + 1
      BY <2>1
    <3>2. \A t \in 1..TargetDbs : IsFiniteSet(targetSchema[t]) /\ Cardinality(targetSchema[t]) = 0
      BY <2>3, FS_EmptySet
    <3> QED
      BY <2>1, <2>2, <2>3, <2>4, <3>1, <3>2 DEF TargetsHold
<1>2. TargetsHold => ResultsMatchTargets
  <2> SUFFICES ASSUME TargetsHold PROVE ResultsMatchTargets
    OBVIOUS
  <2>1. ASSUME NEW t \in DOMAIN target_results
        PROVE  target_results[t].applied = Cardinality(targetSchema[t])
    <3>1. t \in 1..TargetDbs /\ t < target.at
      BY MigrationAssumption DEF TargetsHold, TargetRecord
    <3> QED
      BY <3>1 DEF TargetsHold
  <2> QED
    BY <2>1 DEF ResultsMatchTargets, TargetsHold
<1> QED
  BY <1>1, <1>2, TargetStep, PTL DEF TargetSpec

-----------------------------------------------------------------------------
(* compliance-shim                                                         *)

ComplianceSpec == ComplianceInit /\ [][ComplianceNext]_complianceVars

Check == [rule : Nat, severity : Nat, passed : BOOLEAN]
Violation == [rule : Nat, severity : Nat, resolved : BOOLEAN]
NotPassed == {i \in DOMAIN checks : ~checks[i].passed}

\* There are no more violations than failed checks, none is below the least
\* severity, and a full score was of a run that found none.
ReportHolds ==
  /\ checks \in Seq(Check) /\ violations \in Seq(Violation)
  /\ Len(violations) <= Cardinality(NotPassed)
  /\ \A i \in 1..Len(violations) : violations[i].severity >= MinSeverity
  /\ compliance_score = 100 => violations = << >>

LEMMA RulesTyped == generate_cis_checks \in Seq(Nat)
<1>1. postgres_cis_rules \in Seq(Nat)
  BY DEF postgres_cis_rules
<1>2. mariadb_cis_rules \in Seq(Nat)
  BY DEF mariadb_cis_rules
<1>3. redis_stig_rules \in Seq(Nat)
  BY DEF redis_stig_rules
<1>4. << >> \in Seq(Nat)
  OBVIOUS
<1> QED
  BY <1>1, <1>2, <1>3, <1>4 DEF generate_cis_checks

\* Every check is passed or not.
LEMMA ChecksCounted ==
  ASSUME checks \in Seq(Check)
  PROVE  /\ IsFiniteSet(Passed) /\ IsFiniteSet(NotPassed)
         /\ Cardinality(Passed) \in Nat /\ Cardinality(NotPassed) \in Nat
         /\ Cardinality(Passed) + Cardinality(NotPassed) = Len(checks)
<1>1. DOMAIN checks = 1..Len(checks) /\ Len(checks) \in Nat
  OBVIOUS
<1>2. IsFiniteSet(1..Len(checks)) /\ Cardinality(1..Len(checks)) = Len(checks)
  BY <1>1, FS_Interval
<1>3. /\ Passed \subseteq 1..Len(checks) /\ NotPassed \subseteq 1..Len(checks)
      /\ Passed \cup NotPassed = 1..Len(checks) /\ Passed \cap NotPassed = {}
  BY <1>1 DEF Passed, NotPassed
<1>4. IsFiniteSet(Passed) /\ IsFiniteSet(NotPassed)
  BY <1>2, <1>3, FS_Subset
<1>5. Cardinality(Passed) \in Nat /\ Cardinality(NotPassed) \in Nat
  BY <1>4, FS_CardinalityType
<1>6. Cardinality(Passed \cup NotPassed)
        = Cardinality(Passed) + Cardinality(NotPassed) - Cardinality(Passed \cap NotPassed)
  BY <1>4, FS_Union
<1>7. Cardinality(Passed \cap NotPassed) = 0 /\ Cardinality(Passed \cup NotPassed) = Len(checks)
  BY <1>2, <1>3, FS_EmptySet
<1> QED
  BY <1>1, <1>4, <1>5, <1>6, <1>7

\* A full score is that of a run in which every check passed.
LEMMA FullScore ==
  ASSUME NEW n \in Nat, NEW l \in Nat, l > 0, n <= l, (n * 100) \div l = 100
  PROVE  n = l
OBVIOUS

LEMMA AddChecksStep ==
  ASSUME ReportHolds, AddChecks
  PROVE  ReportHolds'
<1>1. PICK passes \in SUBSET Queried : checks' = checks \o RunDatabaseChecks(passes)
  BY DEF AddChecks
<1> DEFINE new == RunDatabaseChecks(passes)
           n == Len(checks)
<1>2. UNCHANGED <<violations, compliance_score>>
  BY DEF AddChecks
<1>3. new \in Seq(Check)
  <2>1. generate_cis_checks \in Seq(Nat)
    BY RulesTyped
  <2> DEFINE l == Len(generate_cis_checks)
  <2>2. l \in Nat /\ DOMAIN generate_cis_checks = 1..l /\ \A i \in 1..l : generate_cis_checks[i] \in Nat
    BY <2>1
  <2>3. ASSUME NEW i \in 1..l
        PROVE  [rule |-> i, severity |-> generate_cis_checks[i], passed |-> i \in passes] \in Check
    <3>1. i \in Nat /\ generate_cis_checks[i] \in Nat
      BY <2>2
    <3>2. \A b \in BOOLEAN :
            [rule |-> i, severity |-> generate_cis_checks[i], passed |-> b] \in Check
      BY <3>1 DEF Check
    <3>3. (i \in passes) = TRUE \/ (i \in passes) = FALSE
      OBVIOUS
    <3> QED
      BY <3>2, <3>3, Zenon
  <2> HIDE DEF l
  <2>4. new \in [1..l -> Check]
    BY <2>2, <2>3 DEF RunDatabaseChecks
  <2> HIDE DEF new
  <2> QED
    BY <2>2, <2>4
<1> HIDE DEF new
<1>4. /\ checks \in Seq(Check) /\ n \in Nat
      /\ checks' = checks \o new
  BY <1>1 DEF ReportHolds, new
<1>5. checks' \in Seq(Check)
  BY <1>3, <1>4
<1>6. /\ \A i \in 1..n : checks'[i] = checks[i] /\ i \in DOMAIN checks'
      /\ DOMAIN checks = 1..n
  BY <1>3, <1>4
<1>7. NotPassed \subseteq NotPassed'
  BY <1>6 DEF NotPassed
<1>8. /\ Cardinality(NotPassed) \in Nat
      /\ IsFiniteSet(NotPassed)' /\ Cardinality(NotPassed)' \in Nat
  <2>1. Cardinality(NotPassed) \in Nat
    BY <1>4, ChecksCounted
  <2>2. IsFiniteSet(NotPassed)' /\ Cardinality(NotPassed)' \in Nat
    <3>1. DOMAIN checks' = 1..Len(checks') /\ Len(checks') \in Nat
      BY <1>5
    <3>2. IsFiniteSet(1..Len(checks'))
      BY <3>1, FS_Interval
    <3>3. NotPassed' \subseteq 1..Len(checks')
      BY <3>1 DEF NotPassed
    <3> QED
      BY <3>2, <3>3, FS_Subset, FS_CardinalityType
  <2> QED
    BY <2>1, <2>2
<1>9. Cardinality(NotPassed) <= Cardinality(NotPassed)'
  BY <1>7, <1>8, FS_Subset
<1>10. Len(violations) \in Nat
  BY DEF ReportHolds
<1>11. Len(violations') <= Cardinality(NotPassed)'
  BY <1>2, <1>8, <1>9, <1>10 DEF ReportHolds
<1> QED
  BY <1>2, <1>5, <1>11 DEF ReportHolds

LEMMA RunChecksStep ==
  ASSUME ReportHolds, RunChecks
  PROVE  ReportHolds'
<1> DEFINE K == {i \in DOMAIN checks : Failing(checks[i])}
           n == Len(checks)
           c == FailingChecks
<1>1. /\ violations' = [i \in DOMAIN c |-> ViolationOf(c[i])]
      /\ compliance_score' = Score /\ UNCHANGED checks
  BY DEF RunChecks
<1>2. checks \in Seq(Check) /\ n \in Nat /\ DOMAIN checks = 1..n
  BY DEF ReportHolds
<1>3. c = Chosen(checks, K)
  <2>1. \A i \in DOMAIN checks : i \in K <=> Failing(checks[i])
    OBVIOUS
  <2> HIDE DEF K
  <2>2. [i \in DOMAIN checks |-> IF Failing(checks[i]) THEN <<checks[i]>> ELSE << >>]
          = [i \in DOMAIN checks |-> IF i \in K THEN <<checks[i]>> ELSE << >>]
    BY <2>1
  <2> QED
    BY <2>2, Zenon DEF FailingChecks, Chosen
<1>4. K \subseteq NotPassed /\ K \subseteq 1..n /\ \A i \in K : checks[i].severity >= MinSeverity
  BY <1>2 DEF Failing, NotPassed
<1> HIDE DEF K, c
<1>5. c \in Seq(Check) /\ \E h : Lists(h, c, checks, K, n)
  BY <1>2, <1>3, ChosenLists
<1>6. Len(c) = Cardinality(K)
  <2>1. Len(c) = Cardinality(K \cap 1..n)
    BY <1>2, <1>3, ChosenCount
  <2>2. K \cap 1..n = K
    BY <1>4
  <2> QED
    BY <2>1, <2>2
<1>7. IsFiniteSet(NotPassed) /\ Cardinality(NotPassed) \in Nat /\ Cardinality(Passed) \in Nat
      /\ Cardinality(Passed) + Cardinality(NotPassed) = n
  BY <1>2, ChecksCounted
<1>8. Len(c) <= Cardinality(NotPassed) /\ Len(c) \in Nat /\ DOMAIN c = 1..Len(c)
  BY <1>4, <1>5, <1>6, <1>7, FS_Subset
<1>9. PICK h : Lists(h, c, checks, K, n)
  BY <1>5
<1>10. \A i \in 1..Len(c) : c[i] \in Check /\ c[i].severity >= MinSeverity
  <2> SUFFICES ASSUME NEW i \in 1..Len(c) PROVE c[i] \in Check /\ c[i].severity >= MinSeverity
    OBVIOUS
  <2>1. h[i] \in K /\ c[i] = checks[h[i]]
    BY <1>9 DEF Lists
  <2>2. c[i] \in Check
    BY <1>5
  <2> QED
    BY <1>4, <2>1, <2>2
<1>11. \A check \in Check : /\ ViolationOf(check) \in Violation
                            /\ ViolationOf(check).severity = check.severity
  BY DEF Check, Violation, ViolationOf
<1>12. violations' \in [1..Len(c) -> Violation]
       /\ \A i \in 1..Len(c) : violations'[i] = ViolationOf(c[i])
  BY <1>1, <1>8, <1>10, <1>11
<1>13. violations' \in Seq(Violation) /\ Len(violations') = Len(c)
  BY <1>8, <1>12
<1>14. \A i \in 1..Len(violations') : violations'[i].severity >= MinSeverity
  BY <1>10, <1>11, <1>12, <1>13
<1>15. NotPassed' = NotPassed
  BY <1>1 DEF NotPassed
<1>16. compliance_score' = 100 => violations' = << >>
  <2> SUFFICES ASSUME compliance_score' = 100 PROVE Len(c) = 0
    <3>1. \A s \in Seq(Violation) : Len(s) = 0 => s = << >>
      OBVIOUS
    <3> QED
      BY <1>13, <3>1, Zenon
  <2>1. CASE n = 0
    BY <1>7, <1>8, <2>1
  <2>2. CASE n # 0
    <3>1. checks # << >>
      BY <2>2
    <3>2. (Cardinality(Passed) * 100) \div n = 100
      BY <1>1, <3>1 DEF Score
    <3>3. Cardinality(Passed) = n
      <4>1. Cardinality(Passed) <= n /\ n > 0
        BY <1>2, <1>7, <2>2
      <4> HIDE DEF n
      <4> QED
        BY <1>2, <1>7, <3>2, <4>1, FullScore
    <3> QED
      BY <1>7, <1>8, <3>3
  <2> QED
    BY <2>1, <2>2
<1> QED
  BY <1>1, <1>2, <1>8, <1>13, <1>14, <1>15, <1>16 DEF ReportHolds

LEMMA ResolveStep ==
  ASSUME ReportHolds, NEW rule, ResolveViolation(rule)
  PROVE  ReportHolds'
<1>1. UNCHANGED <<checks, compliance_score>>
  BY DEF ResolveViolation
<1>2. PICK i \in DOMAIN violations : violations' = [violations EXCEPT ![i].resolved = TRUE]
  BY DEF ResolveViolation
<1> DEFINE n == Len(violations)
           v == violations[i]
           w == [rule |-> v.rule, severity |-> v.severity, resolved |-> TRUE]
<1>3. violations \in Seq(Violation) /\ n \in Nat /\ i \in 1..n /\ DOMAIN violations = 1..n
  BY DEF ReportHolds
<1>4. v \in Violation
  BY <1>3
<1>5. [v EXCEPT !.resolved = TRUE] = w /\ w \in Violation /\ w.severity = v.severity
  <2> HIDE DEF v
  <2>1. \A x \in Violation, b \in BOOLEAN :
          /\ [x EXCEPT !.resolved = b] = [rule |-> x.rule, severity |-> x.severity, resolved |-> b]
          /\ x.rule \in Nat /\ x.severity \in Nat
    BY DEF Violation
  <2>2. [v EXCEPT !.resolved = TRUE] = w /\ v.rule \in Nat /\ v.severity \in Nat
    BY <1>4, <2>1, Zenon
  <2>3. \A a, b \in Nat : [rule |-> a, severity |-> b, resolved |-> TRUE] \in Violation
    BY DEF Violation
  <2>4. w \in Violation
    BY <2>2, <2>3, Zenon
  <2>5. w.severity = v.severity
    OBVIOUS
  <2> QED
    BY <2>2, <2>4, <2>5
<1> HIDE DEF w
<1>6. violations' = [violations EXCEPT ![i] = w]
  BY <1>2, <1>5
<1>7. violations' \in Seq(Violation) /\ Len(violations') = n
      /\ \A j \in 1..n : violations'[j] = IF j = i THEN w ELSE violations[j]
  BY <1>3, <1>5, <1>6
<1>8. violations # << >>
  BY <1>3
<1>9. NotPassed' = NotPassed
  BY <1>1 DEF NotPassed
<1>10. \A j \in 1..n : violations'[j].severity >= MinSeverity
  BY <1>5, <1>7 DEF ReportHolds
<1> QED
  BY <1>1, <1>7, <1>8, <1>9, <1>10 DEF ReportHolds

(* For any database type and least severity, over any rounds of rules,     *)
(* runs and resolutions: a report counts no more passed and failed checks  *)
(* than there are, a full score leaves nothing failed, and the violations  *)
(* that are listed are those that are counted (generate_report).           *)
THEOREM ReportsAddUp == ComplianceSpec => []ReportAddsUp
<1>1. ComplianceInit => ReportHolds
  <2> SUFFICES ASSUME ComplianceInit PROVE ReportHolds
    OBVIOUS
  <2>1. /\ checks = << >> /\ violations = << >> /\ Len(violations) = 0
        /\ checks \in Seq(Check) /\ violations \in Seq(Violation)
    BY DEF ComplianceInit
  <2>2. Cardinality(NotPassed) \in Nat
    BY <2>1, ChecksCounted
  <2> QED
    BY <2>1, <2>2 DEF ReportHolds
<1>2. ReportHolds /\ [ComplianceNext]_complianceVars => ReportHolds'
  <2> SUFFICES ASSUME ReportHolds, [ComplianceNext]_complianceVars PROVE ReportHolds'
    OBVIOUS
  <2>1. CASE UNCHANGED complianceVars
    BY <2>1 DEF complianceVars, ReportHolds, NotPassed
  <2> QED
    BY <2>1, AddChecksStep, RunChecksStep, ResolveStep DEF ComplianceNext
<1>3. ReportHolds => ReportAddsUp
  <2> SUFFICES ASSUME ReportHolds PROVE ReportAddsUp
    OBVIOUS
  <2> DEFINE n == Len(violations)
  <2>1. violations \in Seq(Violation) /\ n \in Nat /\ DOMAIN violations = 1..n
    BY DEF ReportHolds
  <2>2. Unresolved \subseteq 1..n
    BY <2>1 DEF Unresolved
  <2>3. IsFiniteSet(Unresolved) /\ Cardinality(Unresolved) \in Nat /\ Cardinality(Unresolved) <= n
    <3>1. IsFiniteSet(1..n) /\ Cardinality(1..n) = n
      BY <2>1, FS_Interval
    <3> HIDE DEF n
    <3>2. IsFiniteSet(Unresolved) /\ Cardinality(Unresolved) <= Cardinality(1..n)
      BY <2>2, <3>1, FS_Subset
    <3> QED
      BY <3>1, <3>2, FS_CardinalityType
  <2>4. /\ Cardinality(Passed) \in Nat /\ Cardinality(NotPassed) \in Nat /\ Len(checks) \in Nat
        /\ Cardinality(Passed) + Cardinality(NotPassed) = Len(checks)
    BY ChecksCounted DEF ReportHolds
  <2>5. Cardinality(Passed) + Cardinality(Unresolved) <= Len(checks)
    BY <2>1, <2>3, <2>4 DEF ReportHolds
  <2>6. violations_by_severity(MinSeverity) = Unresolved
    BY <2>2 DEF violations_by_severity, ReportHolds
  <2>7. compliance_score = 100 => Cardinality(Unresolved) = 0
    <3> SUFFICES ASSUME compliance_score = 100 PROVE Cardinality(Unresolved) = 0
      OBVIOUS
    <3>1. n = 0
      BY DEF ReportHolds
    <3> QED
      BY <2>3, <3>1
  <2>8. /\ generate_report.passed = Cardinality(Passed) /\ generate_report.total_checks = Len(checks)
        /\ generate_report.failed = Cardinality(Unresolved)
        /\ generate_report.score = compliance_score
    BY DEF generate_report
  <2> QED
    BY <2>5, <2>6, <2>7, <2>8 DEF ReportAddsUp
<1> QED
  BY <1>1, <1>2, <1>3, PTL DEF ComplianceSpec

-----------------------------------------------------------------------------
(* cost-shim                                                               *)

CostSpec == CostInit /\ [][CostNext]_costVars

\* No budget has more than was used, and all of them together have not.
BilledHolds ==
  /\ IsFiniteSet(DOMAIN budgets) /\ budgets \in [DOMAIN budgets -> Nat]
  /\ usage_log \in Nat /\ total_spend \in Nat /\ total_spend <= 2 * usage_log

LEMMA CreateBudgetStep ==
  ASSUME BilledHolds, NEW t, CreateBudget(t)
  PROVE  BilledHolds'
<1> DEFINE S == DOMAIN budgets
           b == budgets'
           Sm(f, s) == SumFunctionOnSet(f, s)
<1>1. IsFiniteSet(S) /\ \A x \in S : budgets[x] \in Nat
  BY DEF BilledHolds
<1>2. b = [x \in S \cup {t} |-> IF x = t THEN 0 ELSE budgets[x]] /\ usage_log' = usage_log
  BY DEF CreateBudget
<1> HIDE DEF b
<1>3. DOMAIN b = S \cup {t} /\ IsFiniteSet(DOMAIN b) /\ b \in [DOMAIN b -> Nat]
  <2>1. IsFiniteSet(S \cup {t})
    BY <1>1, FS_AddElement
  <2>2. b \in [S \cup {t} -> Nat] /\ DOMAIN b = S \cup {t}
    BY <1>1, <1>2
  <2> QED
    BY <2>1, <2>2
<1>4. t \in DOMAIN b /\ b[t] = 0 /\ \A x \in DOMAIN b : b[x] \in Nat
  BY <1>1, <1>2
<1>5. Sm(b, DOMAIN b) = 0 + Sm(b, DOMAIN b \ {t})
  BY <1>3, <1>4, SumRemove
<1>6. DOMAIN b \ {t} = S \ {t} /\ IsFiniteSet(S \ {t})
      /\ \A x \in S \ {t} : b[x] = budgets[x] /\ budgets[x] \in Nat
  BY <1>1, <1>2, <1>3, FS_Subset
<1>7. Sm(b, S \ {t}) = Sm(budgets, S \ {t}) /\ Sm(budgets, S \ {t}) \in Nat
  BY <1>6, SumOfSame, SumType
<1>8. Sm(budgets, S \ {t}) <= Sm(budgets, S)
  <2>1. CASE t \in S
    <3>1. Sm(budgets, S) = budgets[t] + Sm(budgets, S \ {t})
      BY <1>1, <2>1, SumRemove
    <3>2. budgets[t] \in Nat
      BY <1>1, <2>1
    <3> QED
      BY <1>7, <3>1, <3>2
  <2>2. CASE t \notin S
    <3>1. S \ {t} = S
      BY <2>2
    <3> QED
      BY <1>7, <3>1
  <2> QED
    BY <2>1, <2>2
<1>9. total_spend = Sm(budgets, S) /\ total_spend' = Sm(b, DOMAIN b)
  BY DEF total_spend, SumFunction, b
<1>10. Sm(b, DOMAIN b) \in Nat /\ Sm(b, DOMAIN b) <= Sm(budgets, S)
  BY <1>5, <1>6, <1>7, <1>8
<1>11. total_spend' \in Nat /\ total_spend' <= 2 * usage_log
  <2>1. total_spend \in Nat /\ total_spend <= 2 * usage_log /\ usage_log \in Nat
    BY DEF BilledHolds
  <2> QED
    BY <1>9, <1>10, <2>1
<1> QED
  BY <1>2, <1>3, <1>11 DEF BilledHolds, b

LEMMA RecordUsageStep ==
  ASSUME BilledHolds, NEW t, NEW cost \in {1, 2}, RecordUsage(t, cost)
  PROVE  BilledHolds'
<1> DEFINE S == DOMAIN budgets
           b == budgets'
           Sm(f, s) == SumFunctionOnSet(f, s)
<1>1. IsFiniteSet(S) /\ \A x \in S : budgets[x] \in Nat
  BY DEF BilledHolds
<1>2. /\ b = [x \in S |-> budgets[x] + (IF x = t THEN cost ELSE 0)]
      /\ usage_log' = usage_log + 1
  BY DEF RecordUsage
<1> HIDE DEF b
<1>3. DOMAIN b = S /\ b \in [S -> Nat]
  BY <1>1, <1>2
<1>4. Sm(b, S) \in Nat /\ Sm(budgets, S) \in Nat
  <2>1. \A x \in S : b[x] \in Nat
    BY <1>3
  <2> QED
    BY <1>1, <2>1, SumType
<1>5. Sm(b, S) <= Sm(budgets, S) + 2
  <2>1. CASE t \in S
    <3>1. \A x \in S : budgets[x] \in Nat /\ b[x] \in Nat /\ (x # t => budgets[x] = b[x])
      BY <1>1, <1>2
    <3>2. Sm(b, S) + budgets[t] = Sm(budgets, S) + b[t]
      BY <1>1, <2>1, <3>1, SumChange
    <3>3. b[t] = budgets[t] + cost /\ budgets[t] \in Nat
      BY <1>1, <1>2, <2>1
    <3> QED
      BY <1>4, <3>2, <3>3
  <2>2. CASE t \notin S
    <3>1. \A x \in S : b[x] = budgets[x]
      BY <1>1, <1>2, <2>2
    <3>2. Sm(b, S) = Sm(budgets, S)
      BY <1>1, <3>1, SumOfSame
    <3> QED
      BY <1>4, <3>2
  <2> QED
    BY <2>1, <2>2
<1>6. total_spend = Sm(budgets, S) /\ total_spend' = Sm(b, S)
  BY <1>3 DEF total_spend, SumFunction, b
<1>7. total_spend' \in Nat /\ total_spend' <= 2 * usage_log' /\ usage_log' \in Nat
  <2>1. total_spend \in Nat /\ total_spend <= 2 * usage_log /\ usage_log \in Nat
    BY DEF BilledHolds
  <2> QED
    BY <1>2, <1>4, <1>5, <1>6, <2>1
<1> QED
  BY <1>1, <1>3, <1>7 DEF BilledHolds, b

LEMMA ResetBudgetsStep ==
  ASSUME BilledHolds, ResetBudgets
  PROVE  BilledHolds'
<1> DEFINE S == DOMAIN budgets
           b == budgets'
<1>1. IsFiniteSet(S) /\ usage_log \in Nat
  BY DEF BilledHolds
<1>2. b = [x \in S |-> 0] /\ usage_log' = usage_log
  BY DEF ResetBudgets
<1> HIDE DEF b
<1>3. DOMAIN b = S /\ b \in [S -> Nat] /\ \A x \in S : b[x] = 0
  BY <1>2
<1>4. SumFunctionOnSet(b, S) = 0
  BY <1>1, <1>3, SumOfZeros
<1>5. total_spend' = 0
  BY <1>3, <1>4 DEF total_spend, SumFunction, b
<1> QED
  BY <1>1, <1>2, <1>3, <1>5 DEF BilledHolds, b

LEMMA CostStep == BilledHolds /\ [CostNext]_costVars => BilledHolds'
<1> SUFFICES ASSUME BilledHolds, [CostNext]_costVars PROVE BilledHolds'
  OBVIOUS
<1>1. ASSUME UNCHANGED <<budgets, usage_log>> PROVE BilledHolds'
  BY <1>1 DEF BilledHolds, total_spend
<1>2. CASE UNCHANGED costVars
  BY <1>1, <1>2 DEF costVars
<1>3. CASE Analyze \/ ClearHistory \/ \E r \in Resource, v \in CpuPoint : RecordPoint(r, v)
  BY <1>1, <1>3 DEF Analyze, ClearHistory, RecordPoint
<1> QED
  BY <1>2, <1>3, CreateBudgetStep, RecordUsageStep, ResetBudgetsStep DEF CostNext

\* More than all of the budget is at least a hundred percent of it.
LEMMA OverIsAlerted ==
  ASSUME NEW b \in Nat, NEW l \in Nat, l > 0, b > l
  PROVE  (b * 100) \div l >= 100
OBVIOUS

(* For any tenants, budget and alert threshold up to the whole budget, and *)
(* over any usages, renewals and second budgets: who is over budget is     *)
(* alerted, no more is billed than was used, and a projection made when    *)
(* the period ends is the cost (check_alerts, total_spend, project_cost).  *)
THEOREM BudgetViews == CostSpec => []BudgetViewsAgree
<1>1. CostInit => BilledHolds
  <2> SUFFICES ASSUME CostInit PROVE BilledHolds
    OBVIOUS
  <2>1. DOMAIN budgets = {} /\ usage_log = 0 /\ budgets \in [{} -> Nat]
    BY DEF CostInit
  <2>2. IsFiniteSet({})
    BY FS_EmptySet
  <2>3. total_spend = 0
    BY <2>1, SumOfNone DEF total_spend, SumFunction
  <2> QED
    BY <2>1, <2>2, <2>3 DEF BilledHolds
<1>2. BilledHolds => BudgetViewsAgree
  <2> SUFFICES ASSUME BilledHolds PROVE BudgetViewsAgree
    OBVIOUS
  <2>1. \A t \in DOMAIN budgets : budgets[t] \in Nat
    BY DEF BilledHolds
  <2>2. ASSUME NEW t \in Tenant, is_over_budget(t) PROVE t \in check_alerts
    <3>1. t \in DOMAIN budgets /\ budgets[t] > BudgetLimit /\ budgets[t] \in Nat
      BY <2>1, <2>2 DEF is_over_budget
    <3>2. usage_percent(t) >= 100
      BY <3>1, CostAssumption, OverIsAlerted DEF usage_percent
    <3>3. usage_percent(t) \in Int
      BY <3>1, CostAssumption DEF usage_percent
    <3>4. usage_percent(t) >= AlertPercent
      BY <3>2, <3>3, CostAssumption
    <3> QED
      BY <3>1, <3>4 DEF check_alerts
  <2>3. ASSUME NEW t \in DOMAIN budgets PROVE project_cost(t, 30 * 86400) = budgets[t]
    <3>1. \A n \in Nat : (n * 30 * 86400) \div (30 * 86400) = n
      OBVIOUS
    <3>2. 30 * 86400 # 0
      OBVIOUS
    <3> QED
      BY <2>1, <3>1, <3>2 DEF project_cost
  <2> QED
    BY <2>2, <2>3 DEF BudgetViewsAgree, BilledHolds
<1> QED
  BY <1>1, <1>2, CostStep, PTL DEF CostSpec

-----------------------------------------------------------------------------
(* The sliding window of management-api                                    *)

WindowSpec == TrafficInit /\ [][WindowNext]_windowVars

From(s, t) == {j \in DOMAIN s : s[j] >= t}

\* As many timestamps as admitted requests are left since any moment that the
\* window still reaches.
WindowKept ==
  /\ trafficNow \in Nat /\ admitted \in Seq(Nat) /\ timestamps \in Seq(Nat)
  /\ \A i \in DOMAIN admitted : admitted[i] <= trafficNow
  /\ \A t \in Nat : t + Window >= trafficNow =>
       Cardinality(From(admitted, t)) <= Cardinality(From(timestamps, t))

WindowIInv == WindowKept /\ WindowHoldsLimit

LEMMA FromIsFinite ==
  ASSUME NEW s \in Seq(Nat), NEW t
  PROVE  IsFiniteSet(From(s, t)) /\ Cardinality(From(s, t)) \in Nat
         /\ Cardinality(From(s, t)) <= Len(s)
<1>1. DOMAIN s = 1..Len(s) /\ Len(s) \in Nat
  OBVIOUS
<1>2. From(s, t) \subseteq 1..Len(s)
  BY <1>1 DEF From
<1>3. IsFiniteSet(1..Len(s)) /\ Cardinality(1..Len(s)) = Len(s)
  BY <1>1, FS_Interval
<1> DEFINE A == 1..Len(s)
<1> HIDE DEF A
<1>4. IsFiniteSet(A) /\ Cardinality(A) = Len(s) /\ From(s, t) \subseteq A
  BY <1>2, <1>3 DEF A
<1>5. IsFiniteSet(From(s, t)) /\ Cardinality(From(s, t)) <= Cardinality(A)
  BY <1>4, FS_Subset
<1> QED
  BY <1>4, <1>5, FS_CardinalityType

\* A filter that keeps what is not before t has as many of them as before.
LEMMA ChosenFrom ==
  ASSUME NEW s \in Seq(Nat), NEW K, NEW t \in Nat, From(s, t) \subseteq K
  PROVE  Cardinality(From(s, t)) <= Cardinality(From(Chosen(s, K), t))
<1> DEFINE c == Chosen(s, K)
<1>1. c \in Seq(Nat) /\ \E h : Lists(h, c, s, K, Len(s))
  BY ChosenLists
<1> HIDE DEF c
<1>2. PICK h : Lists(h, c, s, K, Len(s))
  BY <1>1
<1>3. DOMAIN c = 1..Len(c) /\ DOMAIN s = 1..Len(s)
  BY <1>1
<1> DEFINE A == From(c, t)
           B == From(s, t)
           g == [i \in A |-> h[i]]
<1>4. \A i \in A : h[i] \in B
  BY <1>2, <1>3 DEF Lists, From
<1>5. ASSUME NEW k \in B PROVE \E i \in A : h[i] = k
  <2>1. k \in 1..Len(s) /\ k \in K /\ s[k] >= t
    BY <1>3 DEF From
  <2>2. PICK i \in 1..Len(c) : h[i] = k
    BY <1>2, <2>1 DEF Lists
  <2>3. c[i] = s[k]
    BY <1>2, <2>2 DEF Lists
  <2>4. i \in A
    BY <1>3, <2>1, <2>3 DEF From
  <2> QED
    BY <2>2, <2>4
<1>6. g \in Surjection(A, B)
  BY <1>4, <1>5 DEF Surjection
<1>7. IsFiniteSet(A)
  BY <1>1, FromIsFinite
<1> HIDE DEF A, B, g
<1>8. Cardinality(B) <= Cardinality(A)
  BY <1>6, <1>7, FS_Surjection
<1> QED
  BY <1>8 DEF A, B, c

LEMMA FromAppend ==
  ASSUME NEW s \in Seq(Nat), NEW x \in Nat, NEW t \in Nat
  PROVE  Cardinality(From(Append(s, x), t))
           = Cardinality(From(s, t)) + (IF x >= t THEN 1 ELSE 0)
<1> DEFINE d == Append(s, x)
           n == Len(s)
<1>1. /\ n \in Nat /\ DOMAIN s = 1..n /\ DOMAIN d = 1..(n + 1)
      /\ d[n + 1] = x /\ \A i \in 1..n : d[i] = s[i]
  OBVIOUS
<1> HIDE DEF d
<1>2. 1..(n + 1) = 1..n \cup {n + 1} /\ n + 1 \notin 1..n
  BY <1>1
<1>3. IsFiniteSet(From(s, t)) /\ Cardinality(From(s, t)) \in Nat
  BY FromIsFinite
<1>4. CASE x >= t
  <2>1. From(d, t) = From(s, t) \cup {n + 1} /\ n + 1 \notin From(s, t)
    BY <1>1, <1>2, <1>4 DEF From
  <2>2. Cardinality(From(d, t)) = Cardinality(From(s, t)) + 1
    BY <1>3, <2>1, FS_AddElement
  <2> QED
    BY <1>4, <2>2 DEF d
<1>5. CASE ~(x >= t)
  <2>1. From(d, t) = From(s, t)
    BY <1>1, <1>2, <1>5 DEF From
  <2> QED
    BY <1>3, <1>5, <2>1 DEF d
<1> QED
  BY <1>4, <1>5

\* Allow keeps what the window reaches.
LEMMA UnexpiredKept ==
  ASSUME WindowKept
  PROVE  /\ Unexpired \in Seq(Nat)
         /\ \A t \in Nat : t + Window >= trafficNow =>
              Cardinality(From(admitted, t)) <= Cardinality(From(Unexpired, t))
<1> DEFINE K == {i \in DOMAIN timestamps : trafficNow - timestamps[i] <= Window}
<1>1. /\ trafficNow \in Nat /\ Window \in Nat /\ timestamps \in Seq(Nat)
      /\ admitted \in Seq(Nat) /\ \A i \in DOMAIN timestamps : timestamps[i] \in Nat
  BY TrafficAssumption DEF WindowKept
<1>2. Unexpired = Chosen(timestamps, K)
  <2>1. \A i \in DOMAIN timestamps : i \in K <=> trafficNow - timestamps[i] <= Window
    OBVIOUS
  <2> HIDE DEF K
  <2>2. [i \in DOMAIN timestamps |->
           IF trafficNow - timestamps[i] <= Window THEN <<timestamps[i]>> ELSE << >>]
          = [i \in DOMAIN timestamps |-> IF i \in K THEN <<timestamps[i]>> ELSE << >>]
    BY <2>1
  <2> QED
    BY <2>2, Zenon DEF Unexpired, Chosen
<1>3. ASSUME NEW t \in Nat, t + Window >= trafficNow
      PROVE  From(timestamps, t) \subseteq K
  BY <1>1, <1>3 DEF From
<1> HIDE DEF K
<1>4. Unexpired \in Seq(Nat)
  BY <1>1, <1>2, ChosenLists
<1>5. ASSUME NEW t \in Nat, t + Window >= trafficNow
      PROVE  Cardinality(From(admitted, t)) <= Cardinality(From(Unexpired, t))
  <2>1. Cardinality(From(timestamps, t)) <= Cardinality(From(Unexpired, t))
    BY <1>1, <1>2, <1>3, <1>5, ChosenFrom
  <2>2. Cardinality(From(admitted, t)) <= Cardinality(From(timestamps, t))
    BY <1>5 DEF WindowKept
  <2>3. /\ Cardinality(From(admitted, t)) \in Nat /\ Cardinality(From(timestamps, t)) \in Nat
        /\ Cardinality(From(Unexpired, t)) \in Nat
    BY <1>1, <1>4, FromIsFinite
  <2> QED
    BY <2>1, <2>2, <2>3
<1> QED
  BY <1>4, <1>5

Within(s, t) == {j \in DOMAIN s : s[j] \in t..(t + Window)}

\* One more request, while fewer than the limit are in the window, fills no
\* minute beyond the limit.
LEMMA LimitAfterOne ==
  ASSUME NEW s \in Seq(Nat), NEW now \in Nat,
         \A i \in DOMAIN s : s[i] <= now,
         \A t \in Nat : t + Window >= now => Cardinality(From(s, t)) < WindowLimit,
         \A i \in DOMAIN s : Cardinality(Within(s, s[i])) <= WindowLimit
  PROVE  LET d == Append(s, now)
         IN  \A i \in DOMAIN d : Cardinality(Within(d, d[i])) <= WindowLimit
<1> DEFINE d == Append(s, now)
           n == Len(s)
<1>1. /\ n \in Nat /\ DOMAIN s = 1..n /\ DOMAIN d = 1..(n + 1)
      /\ d[n + 1] = now /\ \A i \in 1..n : d[i] = s[i] /\ s[i] \in Nat
      /\ d \in Seq(Nat) /\ Window \in Nat /\ WindowLimit \in Nat
  BY TrafficAssumption
<1> HIDE DEF d
<1>2. 1..(n + 1) = 1..n \cup {n + 1} /\ n + 1 \notin 1..n
  BY <1>1
<1> SUFFICES ASSUME NEW i \in DOMAIN d PROVE Cardinality(Within(d, d[i])) <= WindowLimit
  BY DEF d
<1> DEFINE t == d[i]
<1>3. t \in Nat /\ t <= now
  BY <1>1, <1>2
<1> HIDE DEF t
<1>4. CASE t + Window >= now
  <2>1. Cardinality(From(d, t)) = Cardinality(From(s, t)) + 1
    BY <1>1, <1>3, FromAppend DEF d
  <2>2. Cardinality(From(s, t)) \in Nat /\ Cardinality(From(s, t)) < WindowLimit
        /\ IsFiniteSet(From(d, t))
    BY <1>1, <1>3, <1>4, FromIsFinite
  <2>3. Within(d, t) \subseteq From(d, t)
    BY <1>1, <1>3 DEF Within, From
  <2>4. IsFiniteSet(Within(d, t)) /\ Cardinality(Within(d, t)) <= Cardinality(From(d, t))
    BY <2>2, <2>3, FS_Subset
  <2>5. Cardinality(Within(d, t)) \in Nat
    BY <2>4, FS_CardinalityType
  <2> QED
    BY <1>1, <2>1, <2>2, <2>4, <2>5 DEF t
<1>5. CASE ~(t + Window >= now)
  <2>1. i \in 1..n /\ t = s[i]
    BY <1>1, <1>2, <1>3, <1>5 DEF t
  <2>2. Within(d, t) = Within(s, t)
    BY <1>1, <1>2, <1>3, <1>5 DEF Within
  <2> QED
    BY <1>1, <2>1, <2>2 DEF t
<1> QED
  BY <1>4, <1>5

LEMMA AllowStep ==
  ASSUME WindowIInv, Allow
  PROVE  WindowIInv'
<1> DEFINE u == Unexpired
           now == trafficNow
<1>1. /\ u \in Seq(Nat) /\ Len(u) \in Nat
      /\ \A t \in Nat : t + Window >= now =>
           Cardinality(From(admitted, t)) <= Cardinality(From(u, t))
  BY UnexpiredKept DEF WindowIInv
<1>2. /\ now \in Nat /\ admitted \in Seq(Nat) /\ Window \in Nat /\ WindowLimit \in Nat
      /\ \A i \in DOMAIN admitted : admitted[i] <= now
  BY TrafficAssumption DEF WindowIInv, WindowKept
<1>3. trafficNow' = now
  BY DEF Allow
<1>4. CASE Len(u) >= WindowLimit
  <2>1. timestamps' = u /\ admitted' = admitted
    BY <1>4 DEF Allow
  <2> HIDE DEF u
  <2>2. WindowKept'
    BY <1>1, <1>2, <1>3, <2>1 DEF WindowKept
  <2>3. WindowHoldsLimit'
    BY <2>1 DEF WindowIInv, WindowHoldsLimit
  <2> QED
    BY <2>2, <2>3 DEF WindowIInv
<1>5. CASE ~(Len(u) >= WindowLimit)
  <2>1. timestamps' = Append(u, now) /\ admitted' = Append(admitted, now)
    BY <1>5 DEF Allow
  <2> HIDE DEF u, now
  <2>2. ASSUME NEW t \in Nat, t + Window >= now
        PROVE  /\ Cardinality(From(admitted', t)) <= Cardinality(From(timestamps', t))
               /\ Cardinality(From(admitted, t)) < WindowLimit
    <3>1. /\ Cardinality(From(admitted', t))
               = Cardinality(From(admitted, t)) + (IF now >= t THEN 1 ELSE 0)
          /\ Cardinality(From(timestamps', t))
               = Cardinality(From(u, t)) + (IF now >= t THEN 1 ELSE 0)
      BY <1>1, <1>2, <2>1, FromAppend
    <3>2. /\ Cardinality(From(admitted, t)) \in Nat
          /\ Cardinality(From(u, t)) \in Nat /\ Cardinality(From(u, t)) <= Len(u)
      BY <1>1, <1>2, FromIsFinite
    <3>3. Cardinality(From(admitted, t)) <= Cardinality(From(u, t))
      BY <1>1, <2>2
    <3> QED
      BY <1>1, <1>2, <1>5, <3>1, <3>2, <3>3
  <2>3. admitted' \in Seq(Nat) /\ timestamps' \in Seq(Nat)
        /\ \A i \in DOMAIN admitted' : admitted'[i] <= now
    BY <1>1, <1>2, <2>1
  <2>4. WindowKept'
    BY <1>2, <1>3, <2>2, <2>3 DEF WindowKept, now
  <2>5. \A i \in DOMAIN admitted : Cardinality(Within(admitted, admitted[i])) <= WindowLimit
    BY DEF WindowIInv, WindowHoldsLimit, Within
  <2>6. \A i \in DOMAIN admitted' : Cardinality(Within(admitted', admitted'[i])) <= WindowLimit
    BY <1>2, <2>1, <2>2, <2>5, LimitAfterOne
  <2>7. WindowHoldsLimit'
    BY <2>6 DEF WindowHoldsLimit, Within
  <2> QED
    BY <2>4, <2>7 DEF WindowIInv
<1> QED
  BY <1>4, <1>5

LEMMA WindowStep == WindowIInv /\ [WindowNext]_windowVars => WindowIInv'
<1> SUFFICES ASSUME WindowIInv, [WindowNext]_windowVars PROVE WindowIInv'
  OBVIOUS
<1>1. CASE UNCHANGED windowVars
  BY <1>1 DEF windowVars, WindowIInv, WindowKept, WindowHoldsLimit
<1>2. CASE WindowTick
  <2>1. trafficNow' = trafficNow + 1 /\ UNCHANGED <<timestamps, admitted>>
    BY <1>2 DEF WindowTick
  <2>2. trafficNow \in Nat /\ Window \in Nat
        /\ \A i \in DOMAIN admitted : admitted[i] <= trafficNow /\ admitted[i] \in Nat
    BY TrafficAssumption DEF WindowIInv, WindowKept
  <2>3. \A i \in DOMAIN admitted : admitted[i] <= trafficNow + 1
    BY <2>2
  <2>4. \A t \in Nat : t + Window >= trafficNow + 1 => t + Window >= trafficNow
    BY <2>2
  <2>5. WindowKept'
    BY <2>1, <2>2, <2>3, <2>4 DEF WindowIInv, WindowKept
  <2>6. WindowHoldsLimit'
    BY <2>1 DEF WindowIInv, WindowHoldsLimit
  <2> QED
    BY <2>5, <2>6 DEF WindowIInv
<1> QED
  BY <1>1, <1>2, AllowStep DEF WindowNext

LEMMA WindowInit == TrafficInit => WindowIInv
<1> SUFFICES ASSUME TrafficInit PROVE WindowIInv
  OBVIOUS
<1>1. admitted = << >> /\ timestamps = << >> /\ trafficNow = 0
  BY DEF TrafficInit
<1>2. admitted \in Seq(Nat) /\ timestamps \in Seq(Nat) /\ DOMAIN admitted = {}
  BY <1>1
<1>3. \A t \in Nat : Cardinality(From(admitted, t)) <= Cardinality(From(timestamps, t))
  <2> SUFFICES ASSUME NEW t \in Nat
               PROVE  Cardinality(From(admitted, t)) <= Cardinality(From(timestamps, t))
    OBVIOUS
  <2>1. Cardinality(From(admitted, t)) \in Nat
    BY <1>2, FromIsFinite
  <2> QED
    BY <1>1, <2>1
<1> QED
  BY <1>1, <1>2, <1>3 DEF WindowIInv, WindowKept, WindowHoldsLimit

(* For any limit and any length of the window: wherever a minute begins,   *)
(* no more requests than the limit are admitted in it, though an expired   *)
(* timestamp is dropped and a refused request leaves none                  *)
(* (RateLimiter::allow).                                                   *)
THEOREM WindowsHold == WindowSpec => []WindowHoldsLimit
<1>1. WindowIInv => WindowHoldsLimit
  BY DEF WindowIInv
<1> QED
  BY <1>1, WindowInit, WindowStep, PTL DEF WindowSpec

-----------------------------------------------------------------------------
(* The balancer of proxy-shim                                              *)

BalanceSpec == TrafficInit /\ [][BalanceNext]_balanceVars

BackendRecord == [addr : Backend, healthy : BOOLEAN]

At(s, v) == {p \in DOMAIN s : s[p] = v}

LEMMA AtIsFinite ==
  ASSUME NEW S, NEW s \in Seq(S), NEW v
  PROVE  IsFiniteSet(At(s, v)) /\ Cardinality(At(s, v)) \in Nat
<1>1. DOMAIN s = 1..Len(s) /\ Len(s) \in Nat
  OBVIOUS
<1>2. At(s, v) \subseteq 1..Len(s) /\ IsFiniteSet(1..Len(s))
  BY <1>1, FS_Interval DEF At
<1> QED
  BY <1>2, FS_Subset, FS_CardinalityType

\* What is joined is counted in both parts.
LEMMA AtConcat ==
  ASSUME NEW S, NEW s \in Seq(S), NEW t \in Seq(S), NEW v
  PROVE  Cardinality(At(s \o t, v)) = Cardinality(At(s, v)) + Cardinality(At(t, v))
<1> DEFINE d == s \o t
           m == Len(s)
           n == Len(t)
           B == {p \in (m + 1)..(m + n) : d[p] = v}
           g == [p \in At(t, v) |-> m + p]
<1>1. /\ m \in Nat /\ n \in Nat /\ DOMAIN s = 1..m /\ DOMAIN t = 1..n
      /\ DOMAIN d = 1..(m + n)
      /\ \A p \in 1..m : d[p] = s[p]
      /\ \A p \in 1..n : d[m + p] = t[p]
  OBVIOUS
<1> HIDE DEF d, m, n
<1>2. 1..(m + n) = 1..m \cup (m + 1)..(m + n) /\ 1..m \cap (m + 1)..(m + n) = {}
  BY <1>1
<1>3. At(d, v) = At(s, v) \cup B /\ At(s, v) \cap B = {}
  BY <1>1, <1>2 DEF At
<1>4. g \in [At(t, v) -> B]
  BY <1>1 DEF At
<1>5. \A p, q \in At(t, v) : g[p] = g[q] => p = q
  BY <1>1 DEF At
<1>6. ASSUME NEW b \in B PROVE \E p \in At(t, v) : g[p] = b
  <2>1. b - m \in 1..n /\ m + (b - m) = b
    BY <1>1
  <2>2. b - m \in At(t, v)
    BY <1>1, <2>1 DEF At
  <2> QED
    BY <2>1, <2>2
<1> HIDE DEF g, B
<1>7. ExistsBijection(At(t, v), B)
  <2>1. g \in Injection(At(t, v), B)
    BY <1>4, <1>5 DEF Injection, IsInjective
  <2>2. g \in Surjection(At(t, v), B)
    BY <1>4, <1>6 DEF Surjection
  <2> QED
    BY <2>1, <2>2 DEF ExistsBijection, Bijection
<1>8. /\ IsFiniteSet(At(s, v)) /\ IsFiniteSet(At(t, v))
      /\ Cardinality(At(s, v)) \in Nat /\ Cardinality(At(t, v)) \in Nat
  BY AtIsFinite
<1>9. IsFiniteSet(B) /\ Cardinality(B) = Cardinality(At(t, v))
  BY <1>7, <1>8, FS_Bijection
<1>10. Cardinality(At(s, v) \cup B)
         = Cardinality(At(s, v)) + Cardinality(B) - Cardinality(At(s, v) \cap B)
  BY <1>8, <1>9, FS_Union
<1>11. Cardinality(At(s, v) \cap B) = 0
  BY <1>3, FS_EmptySet
<1> QED
  BY <1>3, <1>8, <1>9, <1>10, <1>11 DEF d

\* A run of w times i.
LEMMA AtRun ==
  ASSUME NEW n \in Nat, NEW i \in 1..n, NEW w \in Nat
  PROVE  LET r == [j \in 1..w |-> i]
         IN  /\ r \in Seq(1..n)
             /\ \A v : Cardinality(At(r, v)) = IF v = i THEN w ELSE 0
<1> DEFINE r == [j \in 1..w |-> i]
<1>1. r \in [1..w -> 1..n]
  OBVIOUS
<1>2. r \in Seq(1..n)
  BY <1>1
<1>3. At(r, i) = 1..w /\ \A v : v # i => At(r, v) = {}
  BY DEF At
<1>4. Cardinality(1..w) = w /\ Cardinality({}) = 0
  BY FS_Interval, FS_EmptySet
<1> HIDE DEF r
<1>5. \A v : Cardinality(At(r, v)) = IF v = i THEN w ELSE 0
  BY <1>3, <1>4
<1> QED
  BY <1>2, <1>5 DEF r

\* Runs that are joined hold every number as often as its run is long.
LEMMA AtRuns ==
  ASSUME NEW n \in Nat, NEW w \in [1..n -> Nat]
  PROVE  LET flat == FlattenSeq([i \in 1..n |-> [j \in 1..w[i] |-> i]])
         IN  /\ flat \in Seq(1..n)
             /\ \A v \in 1..n : Cardinality(At(flat, v)) = w[v]
<1> DEFINE Run(i) == [j \in 1..w[i] |-> i]
           seqs == [i \in 1..n |-> Run(i)]
           flat == FlattenSeq(seqs)
<1>1. ASSUME NEW i \in 1..n
      PROVE  /\ Run(i) \in Seq(1..n)
             /\ \A v : Cardinality(At(Run(i), v)) = IF v = i THEN w[i] ELSE 0
  <2>1. w[i] \in Nat
    OBVIOUS
  <2> QED
    BY <2>1, AtRun
<1> HIDE DEF Run
<1>2. seqs \in [1..n -> Seq(1..n)] /\ \A i \in 1..n : seqs[i] = Run(i)
  BY <1>1
<1>3. seqs \in Seq(Seq(1..n)) /\ Len(seqs) = n
  BY <1>2
<1> HIDE DEF seqs
<1>4. CASE n = 0
  <2>1. seqs = << >> /\ 1..n = {}
    BY <1>3, <1>4
  <2>2. flat = << >>
    BY <2>1 DEF FlattenSeq
  <2>3. flat \in Seq(1..n) /\ \A v \in 1..n : Cardinality(At(flat, v)) = w[v]
    BY <2>1, <2>2
  <2> QED
    BY <2>3 DEF seqs, Run
<1>5. CASE n # 0
  <2>1. PICK f : IsFlat(f, seqs, n) /\ flat = f[n]
    BY <1>3, <1>5, FlattenIsFlat
  <2> DEFINE Good(k) ==
               /\ f[k] \in Seq(1..n)
               /\ \A v \in 1..n : Cardinality(At(f[k], v)) = IF v <= k THEN w[v] ELSE 0
             Q == {k \in Nat : k \in 1..n => Good(k)}
  <2>2. 0 \in Q
    OBVIOUS
  <2>3. ASSUME NEW k \in Nat, k \in Q PROVE k + 1 \in Q
    <3> SUFFICES ASSUME k + 1 \in 1..n PROVE Good(k + 1)
      <4> HIDE DEF Good
      <4> QED
        OBVIOUS
    <3> DEFINE m == k + 1
    <3>1. f[m] = IF m = 1 THEN seqs[m] ELSE f[m - 1] \o seqs[m]
      BY <2>1 DEF IsFlat
    <3>2. seqs[m] = Run(m) /\ seqs[m] \in Seq(1..n)
      BY <1>1, <1>2
    <3>3. \A v : Cardinality(At(seqs[m], v)) = IF v = m THEN w[m] ELSE 0
      BY <1>1, <3>2
    <3>4. CASE k = 0
      <4>1. f[m] = seqs[m] /\ \A v \in 1..n : v = m <=> v <= m
        BY <3>1, <3>4
      <4> QED
        BY <3>2, <3>3, <4>1
    <3>5. CASE k # 0
      <4>1. f[m] = f[k] \o seqs[m] /\ k \in 1..n
        <5>1. m # 1 /\ m - 1 = k /\ k \in 1..n
          BY <3>5
        <5>2. f[m] = f[k] \o seqs[m]
          BY <3>1, <5>1, Zenon
        <5> QED
          BY <5>1, <5>2
      <4>2. Good(k)
        BY <2>3, <4>1
      <4>3. f[m] \in Seq(1..n)
        BY <3>2, <4>1, <4>2
      <4>4. ASSUME NEW v \in 1..n
            PROVE  Cardinality(At(f[m], v)) = IF v <= m THEN w[v] ELSE 0
        <5>1. Cardinality(At(f[m], v)) = Cardinality(At(f[k], v)) + Cardinality(At(seqs[m], v))
          BY <3>2, <4>1, <4>2, AtConcat
        <5>2. Cardinality(At(f[k], v)) = IF v <= k THEN w[v] ELSE 0
          BY <4>2
        <5>3. Cardinality(At(seqs[m], v)) = IF v = m THEN w[m] ELSE 0
          BY <3>3
        <5>4. w[v] \in Nat /\ w[m] \in Nat
          OBVIOUS
        <5> QED
          BY <5>1, <5>2, <5>3, <5>4
      <4> QED
        BY <4>3, <4>4
    <3> QED
      BY <3>4, <3>5
  <2> HIDE DEF Q
  <2>4. n \in Q
    BY <2>2, <2>3, SetInduction
  <2>5. Good(n)
    BY <1>5, <2>4 DEF Q
  <2>6. \A v \in 1..n : v <= n
    OBVIOUS
  <2>7. flat \in Seq(1..n) /\ \A v \in 1..n : Cardinality(At(flat, v)) = w[v]
    BY <2>1, <2>5, <2>6
  <2> QED
    BY <2>7 DEF seqs, Run
<1> QED
  BY <1>4, <1>5

WeightOfBackend(b) == IF b.healthy THEN Weight[b.addr] ELSE 0

LEMMA TurnsOfBackends ==
  ASSUME NEW bs \in Seq(BackendRecord)
  PROVE  /\ HealthyTurns(bs) \in Seq(DOMAIN bs)
         /\ \A i \in DOMAIN bs : Cardinality(At(HealthyTurns(bs), i)) = WeightOfBackend(bs[i])
<1> DEFINE n == Len(bs)
           w == [i \in 1..n |-> WeightOfBackend(bs[i])]
<1>1. n \in Nat /\ DOMAIN bs = 1..n /\ \A i \in 1..n : bs[i] \in BackendRecord
  OBVIOUS
<1>2. \A i \in 1..n : WeightOfBackend(bs[i]) \in Nat
  BY <1>1, TrafficAssumption DEF WeightOfBackend, BackendRecord
<1>3. w \in [1..n -> Nat] /\ \A i \in 1..n : w[i] = WeightOfBackend(bs[i])
  BY <1>2
<1>4. ASSUME NEW i \in 1..n
      PROVE  (IF bs[i].healthy THEN [j \in 1..Weight[bs[i].addr] |-> i] ELSE << >>)
               = [j \in 1..w[i] |-> i]
  <2>1. CASE bs[i].healthy
    BY <1>3, <2>1 DEF WeightOfBackend
  <2>2. CASE ~bs[i].healthy
    <3>1. w[i] = 0
      BY <1>3, <2>2 DEF WeightOfBackend
    <3>2. [j \in 1..0 |-> i] = << >>
      OBVIOUS
    <3> QED
      BY <2>2, <3>1, <3>2
  <2> QED
    BY <2>1, <2>2
<1> HIDE DEF w, n
<1>5. HealthyTurns(bs) = FlattenSeq([i \in 1..n |-> [j \in 1..w[i] |-> i]])
  <2>1. [i \in 1..n |->
           IF bs[i].healthy THEN [j \in 1..Weight[bs[i].addr] |-> i] ELSE << >>]
          = [i \in 1..n |-> [j \in 1..w[i] |-> i]]
    BY <1>4
  <2> QED
    BY <1>1, <2>1, Zenon DEF HealthyTurns
<1>6. /\ HealthyTurns(bs) \in Seq(1..n)
      /\ \A v \in 1..n : Cardinality(At(HealthyTurns(bs), v)) = w[v]
  BY <1>1, <1>3, <1>5, AtRuns
<1> QED
  BY <1>1, <1>3, <1>6

\* The k slots before slot c + 1, around the end of the list.
Recent(k, c, l) == {p \in 1..l : (p <= c /\ p > c - k) \/ p > l + c - k}

LEMMA RecentGrows ==
  ASSUME NEW l \in Nat, NEW c \in 0..(l - 1), NEW k \in 0..(l - 1)
  PROVE  LET e == IF c + 1 = l THEN 0 ELSE c + 1
         IN  /\ Recent(k + 1, e, l) = Recent(k, c, l) \cup {c + 1}
             /\ c + 1 \notin Recent(k, c, l) /\ c + 1 \in 1..l
<1> DEFINE e == IF c + 1 = l THEN 0 ELSE c + 1
<1>1. c + 1 \notin Recent(k, c, l) /\ c + 1 \in 1..l
  BY DEF Recent
<1>2. CASE c + 1 = l
  <2>1. ASSUME NEW p \in 1..l
        PROVE  p \in Recent(k + 1, 0, l) <=> p \in Recent(k, c, l) \/ p = c + 1
    BY <1>2 DEF Recent
  <2>2. Recent(k + 1, 0, l) \subseteq 1..l /\ Recent(k, c, l) \subseteq 1..l
    BY DEF Recent
  <2> QED
    BY <1>1, <1>2, <2>1, <2>2
<1>3. CASE c + 1 # l
  <2>1. ASSUME NEW p \in 1..l
        PROVE  p \in Recent(k + 1, c + 1, l) <=> p \in Recent(k, c, l) \/ p = c + 1
    BY <1>3 DEF Recent
  <2>2. Recent(k + 1, c + 1, l) \subseteq 1..l /\ Recent(k, c, l) \subseteq 1..l
    BY DEF Recent
  <2> QED
    BY <1>1, <1>3, <2>1, <2>2
<1> QED
  BY <1>2, <1>3

LEMMA RecentNone ==
  ASSUME NEW l \in Nat, NEW c \in Int, l > 0 => c \in 0..(l - 1)
  PROVE  Recent(0, c, l) = {}
BY DEF Recent

LEMMA RecentAll ==
  ASSUME NEW l \in Nat, NEW c \in Int, l > 0 => c \in 0..(l - 1)
  PROVE  Recent(l, c, l) = 1..l
BY DEF Recent

LEMMA Remainder ==
  ASSUME NEW r \in Nat, NEW l \in Nat, l > 0
  PROVE  /\ r % l \in 0..(l - 1)
         /\ (r + 1) % l = IF (r % l) + 1 = l THEN 0 ELSE (r % l) + 1
         /\ ((r + 1) % l) % l = (r + 1) % l
<1>1. r % l \in 0..(l - 1) /\ (r + 1) % l \in 0..(l - 1)
  OBVIOUS
<1>2. \A x \in 0..(l - 1) : x % l = x
  OBVIOUS
<1>3. (r + 1) % l = IF (r % l) + 1 = l THEN 0 ELSE (r % l) + 1
  <2> DEFINE c == r % l
             e == (r + 1) % l
             d == ((r + 1) \div l) - (r \div l)
  <2>1. r = l * (r \div l) + c /\ r \div l \in Int
    OBVIOUS
  <2>2. r + 1 = l * ((r + 1) \div l) + e /\ (r + 1) \div l \in Int
    OBVIOUS
  <2>3. d \in Int /\ c \in 0..(l - 1) /\ e \in 0..(l - 1) /\ l * d = c + 1 - e
    BY <1>1, <2>1, <2>2
  <2> HIDE DEF c, d, e
  <2>4. d >= 2 => l * d >= 2 * l
    BY <2>3
  <2>5. d <= 0 - 1 => l * d <= 0 - l
    BY <2>3
  <2>6. d = 0 \/ d = 1
    BY <2>3, <2>4, <2>5
  <2>7. e = IF c + 1 = l THEN 0 ELSE c + 1
    BY <2>3, <2>6
  <2> QED
    BY <2>7 DEF c, e
<1> QED
  BY <1>1, <1>2, <1>3

SlotsOf(bs, rr, k) == Recent(k, rr % Len(HealthyTurns(bs)), Len(HealthyTurns(bs)))

\* Since the backends last changed, or since the round began, every backend
\* has had as many turns as it has slots among those just passed.
TurnsHold(bs, rr, t, k) ==
  /\ t \in [DOMAIN bs -> Nat] /\ SumFunction(t) = k
  /\ \A i \in DOMAIN bs :
       t[i] = Cardinality(At(HealthyTurns(bs), i) \cap SlotsOf(bs, rr, k))

BalanceIInv ==
  /\ backends \in Seq(BackendRecord) /\ rr_index \in Nat
  /\ \E k \in 0..Len(HealthyTurns(backends)) : TurnsHold(backends, rr_index, turns, k)

LEMMA SlotsAreFinite ==
  ASSUME NEW bs \in Seq(BackendRecord)
  PROVE  /\ IsFiniteSet(DOMAIN bs) /\ DOMAIN bs = 1..Len(bs)
         /\ Len(HealthyTurns(bs)) \in Nat
         /\ HealthyTurns(bs) \in Seq(DOMAIN bs)
         /\ DOMAIN HealthyTurns(bs) = 1..Len(HealthyTurns(bs))
<1>1. DOMAIN bs = 1..Len(bs) /\ Len(bs) \in Nat
  OBVIOUS
<1>2. IsFiniteSet(DOMAIN bs)
  BY <1>1, FS_Interval
<1>3. HealthyTurns(bs) \in Seq(DOMAIN bs)
  BY TurnsOfBackends
<1> HIDE DEF HealthyTurns
<1> QED
  BY <1>1, <1>2, <1>3

\* A fresh count is of no slots at all.
LEMMA NoTurnsHold ==
  ASSUME NEW bs \in Seq(BackendRecord), NEW rr \in Nat
  PROVE  TurnsHold(bs, rr, NoTurns(bs), 0)
<1> DEFINE t == NoTurns(bs)
           l == Len(HealthyTurns(bs))
<1>1. IsFiniteSet(DOMAIN bs) /\ l \in Nat
  BY SlotsAreFinite
<1>2. t \in [DOMAIN bs -> Nat] /\ \A i \in DOMAIN bs : t[i] = 0
  BY DEF NoTurns
<1> HIDE DEF t
<1>3. DOMAIN t = DOMAIN bs
  BY <1>2
<1>4. SumFunction(t) = 0
  BY <1>1, <1>2, <1>3, SumOfZeros DEF SumFunction
<1>5. SlotsOf(bs, rr, 0) = {}
  <2>1. CASE l = 0
    <3>1. SlotsOf(bs, rr, 0) \subseteq 1..0
      BY <2>1 DEF SlotsOf, Recent
    <3> QED
      BY <3>1
  <2>2. CASE l > 0
    <3>1. rr % l \in 0..(l - 1)
      BY <1>1, <2>2, Remainder
    <3> HIDE DEF l
    <3>2. rr % l \in Int
      BY <1>1, <3>1
    <3>3. Recent(0, rr % l, l) = {}
      BY <1>1, <3>1, <3>2, RecentNone
    <3> QED
      BY <3>3 DEF SlotsOf, l
  <2> QED
    BY <1>1, <2>1, <2>2
<1>6. \A i \in DOMAIN bs : Cardinality(At(HealthyTurns(bs), i) \cap SlotsOf(bs, rr, 0)) = 0
  BY <1>5, FS_EmptySet
<1> QED
  BY <1>2, <1>4, <1>6 DEF TurnsHold, t

LEMMA ChangeStep ==
  ASSUME backends' \in Seq(BackendRecord), rr_index' \in Nat, turns' = NoTurns(backends')
  PROVE  BalanceIInv'
<1>1. TurnsHold(backends', rr_index', turns', 0)
  BY NoTurnsHold
<1>2. Len(HealthyTurns(backends')) \in Nat
  BY SlotsAreFinite
<1>3. 0 \in 0..Len(HealthyTurns(backends'))
  BY <1>2
<1> QED
  BY <1>1, <1>3 DEF BalanceIInv

\* One pick is one more slot and one more turn for the backend it is of.
LEMMA PickHolds ==
  ASSUME NEW bs \in Seq(BackendRecord), NEW rr \in Nat, NEW t, NEW k \in Nat,
         TurnsHold(bs, rr, t, k), k < Len(HealthyTurns(bs))
  PROVE  LET s == select_backend(bs, rr)
         IN  /\ s.pick \in DOMAIN bs /\ s.next \in Nat
             /\ TurnsHold(bs, s.next, [t EXCEPT ![s.pick] = @ + 1], k + 1)
<1> DEFINE slots == HealthyTurns(bs)
           l == Len(slots)
           c == rr % l
           s == select_backend(bs, rr)
           a == s.pick
           u == [t EXCEPT ![a] = @ + 1]
           D == DOMAIN bs
<1>1. /\ IsFiniteSet(D) /\ l \in Nat /\ slots \in Seq(D) /\ DOMAIN slots = 1..l /\ l > 0
  BY SlotsAreFinite
<1>2. s = [pick |-> slots[c + 1], next |-> (rr + 1) % l]
  BY DEF select_backend
<1>3. a = slots[c + 1] /\ s.next = (rr + 1) % l
  BY <1>2
<1>4. /\ c \in 0..(l - 1)
      /\ s.next = IF c + 1 = l THEN 0 ELSE c + 1
      /\ s.next % l = s.next
  <2> HIDE DEF l, s
  <2>1. /\ rr % l \in 0..(l - 1)
        /\ (rr + 1) % l = IF (rr % l) + 1 = l THEN 0 ELSE (rr % l) + 1
        /\ ((rr + 1) % l) % l = (rr + 1) % l
    BY <1>1, Remainder
  <2> QED
    BY <1>3, <2>1
<1> HIDE DEF slots, l, c, s
<1>5. s.next \in Nat /\ c + 1 \in 1..l /\ a \in D
  <2>1. c + 1 \in 1..l /\ c + 1 \in Nat
    BY <1>1, <1>4
  <2>2. s.next \in Nat
    BY <1>4, <2>1
  <2>3. slots[c + 1] \in D
    BY <1>1, <2>1
  <2> QED
    BY <1>3, <2>1, <2>2, <2>3
<1>6. /\ Recent(k + 1, s.next, l) = Recent(k, c, l) \cup {c + 1}
      /\ c + 1 \notin Recent(k, c, l)
  <2>1. k \in 0..(l - 1)
    BY <1>1 DEF l, slots
  <2> QED
    BY <1>1, <1>4, <2>1, RecentGrows
<1>7. /\ SlotsOf(bs, rr, k) = Recent(k, c, l)
      /\ SlotsOf(bs, s.next, k + 1) = Recent(k + 1, s.next, l)
  BY <1>4 DEF SlotsOf, c, l, slots
<1>8. /\ t \in [D -> Nat] /\ SumFunction(t) = k
      /\ \A i \in D : t[i] = Cardinality(At(slots, i) \cap Recent(k, c, l))
  BY <1>7 DEF TurnsHold, slots
<1> HIDE DEF a
<1>9. /\ u \in [D -> Nat] /\ DOMAIN u = D /\ DOMAIN t = D
      /\ u[a] = t[a] + 1 /\ \A i \in D : i # a => u[i] = t[i]
  BY <1>5, <1>8
<1> HIDE DEF u, D
<1>10. SumFunction(u) = k + 1
  <2>1. \A x \in D : t[x] \in Nat /\ u[x] \in Nat /\ (x # a => t[x] = u[x])
    BY <1>8, <1>9
  <2>2. SumFunctionOnSet(u, D) + t[a] = SumFunctionOnSet(t, D) + u[a]
    BY <1>1, <1>5, <2>1, SumChange
  <2>3. SumFunctionOnSet(u, D) \in Nat /\ SumFunctionOnSet(t, D) = k /\ t[a] \in Nat
    BY <1>1, <1>5, <1>8, <1>9, <2>1, SumType DEF SumFunction
  <2>4. SumFunctionOnSet(u, D) = k + 1
    BY <1>9, <2>2, <2>3
  <2> QED
    BY <1>9, <2>4 DEF SumFunction
<1>11. ASSUME NEW i \in D
       PROVE  u[i] = Cardinality(At(slots, i) \cap Recent(k + 1, s.next, l))
  <2> DEFINE A == At(slots, i) \cap Recent(k, c, l)
  <2>1. IsFiniteSet(At(slots, i))
    BY <1>1, AtIsFinite
  <2>2. IsFiniteSet(A)
    BY <2>1, FS_Subset
  <2>3. c + 1 \in At(slots, i) <=> i = a
    BY <1>1, <1>3, <1>5 DEF At
  <2>4. CASE i = a
    <3>1. At(slots, i) \cap Recent(k + 1, s.next, l) = A \cup {c + 1} /\ c + 1 \notin A
      BY <1>6, <2>3, <2>4
    <3> HIDE DEF A
    <3>2. Cardinality(A \cup {c + 1}) = Cardinality(A) + 1
      BY <2>2, <3>1, FS_AddElement
    <3> QED
      BY <1>8, <1>9, <2>4, <3>1, <3>2 DEF A
  <2>5. CASE i # a
    <3>1. At(slots, i) \cap Recent(k + 1, s.next, l) = A
      BY <1>6, <2>3, <2>5
    <3> QED
      BY <1>8, <1>9, <2>5, <3>1
  <2> QED
    BY <2>4, <2>5
<1>12. TurnsHold(bs, s.next, u, k + 1)
  BY <1>7, <1>9, <1>10, <1>11 DEF TurnsHold, slots, D
<1> QED
  BY <1>5, <1>12 DEF u, a, s, D

LEMMA SelectStep ==
  ASSUME BalanceIInv, SelectBackend
  PROVE  BalanceIInv'
<1> DEFINE l == Len(HealthyTurns(backends))
           s == select_backend(backends, rr_index)
<1>1. backends \in Seq(BackendRecord) /\ rr_index \in Nat /\ l \in Nat
  BY SlotsAreFinite DEF BalanceIInv
<1>2. PICK k \in 0..l : TurnsHold(backends, rr_index, turns, k)
  BY DEF BalanceIInv
<1>3. /\ HealthyTurns(backends) # << >> /\ rr_index' = s.next /\ backends' = backends
      /\ turns' = IF SumFunction(turns) = l
                  THEN [NoTurns(backends) EXCEPT ![s.pick] = 1]
                  ELSE [turns EXCEPT ![s.pick] = @ + 1]
  BY DEF SelectBackend
<1>4. SumFunction(turns) = k
  BY <1>2 DEF TurnsHold
<1>5. l > 0
  <2>1. HealthyTurns(backends) \in Seq(DOMAIN backends)
    BY <1>1, SlotsAreFinite
  <2>2. \A x \in Seq(DOMAIN backends) : x # << >> => Len(x) > 0
    OBVIOUS
  <2> QED
    BY <1>3, <2>1, <2>2
<1> HIDE DEF s
<1>6. CASE k = l
  <2> DEFINE t == NoTurns(backends)
  <2>1. TurnsHold(backends, rr_index, t, 0)
    BY <1>1, NoTurnsHold
  <2>2. /\ s.pick \in DOMAIN backends /\ s.next \in Nat
        /\ TurnsHold(backends, s.next, [t EXCEPT ![s.pick] = @ + 1], 0 + 1)
    <3> HIDE DEF t
    <3> QED
      BY <1>1, <1>5, <2>1, PickHolds DEF s
  <2>3. turns' = [t EXCEPT ![s.pick] = @ + 1]
    <3>1. t[s.pick] + 1 = 1
      BY <2>2 DEF NoTurns
    <3>2. turns' = [t EXCEPT ![s.pick] = 1]
      BY <1>3, <1>4, <1>6
    <3> HIDE DEF t
    <3> QED
      BY <3>1, <3>2
  <2>4. TurnsHold(backends', rr_index', turns', 0 + 1)
    BY <1>3, <2>2, <2>3
  <2>5. 0 + 1 \in 0..l
    BY <1>1, <1>5
  <2> QED
    BY <1>1, <1>3, <2>2, <2>4, <2>5 DEF BalanceIInv
<1>7. CASE k # l
  <2>1. k \in Nat /\ k < l /\ k + 1 \in 0..l
    BY <1>1, <1>2, <1>7
  <2>2. /\ s.next \in Nat
        /\ TurnsHold(backends, s.next, [turns EXCEPT ![s.pick] = @ + 1], k + 1)
    BY <1>1, <1>2, <2>1, PickHolds DEF s
  <2>3. turns' = [turns EXCEPT ![s.pick] = @ + 1]
    BY <1>3, <1>4, <1>7
  <2>4. TurnsHold(backends', rr_index', turns', k + 1)
    BY <1>3, <2>2, <2>3
  <2> QED
    BY <1>1, <1>3, <2>1, <2>2, <2>4 DEF BalanceIInv
<1> QED
  BY <1>6, <1>7

LEMMA BalanceStep == BalanceIInv /\ [BalanceNext]_balanceVars => BalanceIInv'
<1> SUFFICES ASSUME BalanceIInv, [BalanceNext]_balanceVars PROVE BalanceIInv'
  OBVIOUS
<1>0. backends \in Seq(BackendRecord) /\ rr_index \in Nat
  BY DEF BalanceIInv
<1>1. ASSUME UNCHANGED <<backends, rr_index, turns>> PROVE BalanceIInv'
  BY <1>1 DEF BalanceIInv
<1>2. CASE UNCHANGED balanceVars
  BY <1>1, <1>2 DEF balanceVars
<1>3. ASSUME NEW b \in Backend, NEW h \in BOOLEAN, RegisterBackend(b, h) PROVE BalanceIInv'
  <2>1. [addr |-> b, healthy |-> h] \in BackendRecord
    BY DEF BackendRecord
  <2>2. backends' \in Seq(BackendRecord) /\ rr_index' \in Nat /\ turns' = NoTurns(backends')
    BY <1>0, <1>3, <2>1 DEF RegisterBackend
  <2> QED
    BY <2>2, ChangeStep
<1>4. ASSUME NEW b \in Backend, NEW h \in BOOLEAN, SetBackendHealth(b, h) PROVE BalanceIInv'
  <2>1. PICK i \in DOMAIN backends : backends' = [backends EXCEPT ![i].healthy = h]
    BY <1>4 DEF SetBackendHealth
  <2> DEFINE r == [addr |-> backends[i].addr, healthy |-> h]
  <2>2. backends[i] \in BackendRecord
    BY <1>0
  <2>3. \A x \in BackendRecord, g \in BOOLEAN :
          /\ [x EXCEPT !.healthy = g] = [addr |-> x.addr, healthy |-> g]
          /\ [addr |-> x.addr, healthy |-> g] \in BackendRecord
    BY DEF BackendRecord
  <2>4. [backends[i] EXCEPT !.healthy = h] = r /\ r \in BackendRecord
    BY <2>2, <2>3, Zenon
  <2> HIDE DEF r
  <2>5. backends' = [backends EXCEPT ![i] = r]
    BY <2>1, <2>4
  <2>6. backends' \in Seq(BackendRecord)
    BY <1>0, <2>4, <2>5
  <2>7. rr_index' \in Nat /\ turns' = NoTurns(backends')
    BY <1>0, <1>4 DEF SetBackendHealth
  <2> QED
    BY <2>6, <2>7, ChangeStep
<1>5. ASSUME NEW b \in Backend, NEW h \in BOOLEAN, AddRouteRule(b, h) PROVE BalanceIInv'
  BY <1>1, <1>5 DEF AddRouteRule
<1> QED
  BY <1>2, <1>3, <1>4, <1>5, SelectStep DEF BalanceNext

(* For any backends and weights, and wherever rr_index stood when the      *)
(* backends last changed: a full round of picks gives every healthy        *)
(* backend exactly its weight and an unhealthy one nothing                 *)
(* (select_backend).                                                       *)
THEOREM RoundsGiveWeights == BalanceSpec => []RoundGivesWeights
<1>1. TrafficInit => BalanceIInv
  <2> SUFFICES ASSUME TrafficInit PROVE BalanceIInv
    OBVIOUS
  <2>1. backends = << >> /\ rr_index = 0 /\ turns = << >>
    BY DEF TrafficInit
  <2>2. backends \in Seq(BackendRecord) /\ rr_index \in Nat
    BY <2>1
  <2>3. turns = NoTurns(backends)
    BY <2>1 DEF NoTurns
  <2>4. TurnsHold(backends, rr_index, turns, 0) /\ Len(HealthyTurns(backends)) \in Nat
    BY <2>2, <2>3, NoTurnsHold, SlotsAreFinite
  <2>5. 0 \in 0..Len(HealthyTurns(backends))
    BY <2>4
  <2> QED
    BY <2>2, <2>4, <2>5 DEF BalanceIInv
<1>2. BalanceIInv => RoundGivesWeights
  <2> DEFINE slots == HealthyTurns(backends)
             l == Len(slots)
  <2> SUFFICES ASSUME BalanceIInv, SumFunction(turns) = l, NEW i \in DOMAIN backends
               PROVE  turns[i] = WeightOfBackend(backends[i])
    BY DEF RoundGivesWeights, WeightOfBackend
  <2>1. backends \in Seq(BackendRecord) /\ rr_index \in Nat
    BY DEF BalanceIInv
  <2>2. l \in Nat /\ DOMAIN slots = 1..l
    BY <2>1, SlotsAreFinite
  <2>3. TurnsHold(backends, rr_index, turns, l)
    BY DEF BalanceIInv, TurnsHold
  <2>4. turns[i] = Cardinality(At(slots, i) \cap SlotsOf(backends, rr_index, l))
    BY <2>3 DEF TurnsHold
  <2>5. SlotsOf(backends, rr_index, l) = 1..l
    <3>1. CASE l = 0
      <4>1. SlotsOf(backends, rr_index, l) \subseteq 1..l
        BY DEF SlotsOf, Recent
      <4> QED
        BY <3>1, <4>1
    <3>2. CASE l > 0
      <4> HIDE DEF l
      <4>1. rr_index % l \in 0..(l - 1)
        BY <2>1, <2>2, <3>2, Remainder
      <4>2. rr_index % l \in Int
        BY <2>2, <4>1
      <4>3. Recent(l, rr_index % l, l) = 1..l
        BY <2>2, <4>1, <4>2, RecentAll
      <4> QED
        BY <4>3 DEF SlotsOf, l
    <3> QED
      BY <2>2, <3>1, <3>2
  <2>6. At(slots, i) \cap 1..l = At(slots, i)
    BY <2>2 DEF At
  <2>7. Cardinality(At(slots, i)) = WeightOfBackend(backends[i])
    BY <2>1, TurnsOfBackends
  <2> QED
    BY <2>4, <2>5, <2>6, <2>7
<1> QED
  BY <1>1, <1>2, BalanceStep, PTL DEF BalanceSpec

-----------------------------------------------------------------------------
(* cache-shim                                                              *)

CacheSpec == CacheInit /\ [][CacheNext]_cacheVars

CacheEntry == [size : Nat, expired : BOOLEAN, count : Nat]
SizeOf(c) == [k \in DOMAIN c |-> c[k].size]

\* s lists every element of D once.
Order(s, D) == s \in Seq(Key) /\ IsInjective(s) /\ Range(s) = D

CacheKept ==
  /\ cached \in [DOMAIN cached -> CacheEntry]
  /\ DOMAIN cached \subseteq Key /\ IsFiniteSet(DOMAIN cached)
  /\ size_bytes = SumFunctionOnSet(SizeOf(cached), DOMAIN cached) /\ size_bytes <= MaxSize
  /\ Cardinality(DOMAIN cached) <= MaxCached
  /\ Order(access_order, DOMAIN cached) /\ Order(insert_order, DOMAIN cached)

LEMMA KeepOrder ==
  ASSUME NEW s, NEW D, Order(s, D), NEW K
  PROVE  Order(Keep(s, K), D \cap K)
<1> DEFINE I == {i \in DOMAIN s : s[i] \in K}
           c == Keep(s, K)
           n == Len(s)
<1>1. s \in Seq(Key) /\ DOMAIN s = 1..n /\ n \in Nat /\ IsInjective(s) /\ Range(s) = D
  BY DEF Order
<1>2. c = Chosen(s, I)
  <2>1. \A i \in DOMAIN s : i \in I <=> s[i] \in K
    OBVIOUS
  <2> HIDE DEF I
  <2>2. [i \in DOMAIN s |-> IF s[i] \in K THEN <<s[i]>> ELSE << >>]
          = [i \in DOMAIN s |-> IF i \in I THEN <<s[i]>> ELSE << >>]
    BY <2>1
  <2> QED
    BY <2>2, Zenon DEF Keep, Chosen
<1>3. I \subseteq 1..n /\ \A i \in 1..n : i \in I <=> s[i] \in K
  BY <1>1
<1> HIDE DEF I, c
<1>4. c \in Seq(Key) /\ \E h : Lists(h, c, s, I, n)
  BY <1>1, <1>2, ChosenLists
<1>5. PICK h : Lists(h, c, s, I, n)
  BY <1>4
<1> DEFINE m == Len(c)
<1>6. m \in Nat /\ DOMAIN c = 1..m
  BY <1>4
<1> HIDE DEF m, n
<1>7. /\ \A i \in 1..m : h[i] \in I /\ h[i] \in 1..n /\ h[i] \in Nat /\ c[i] = s[h[i]]
      /\ \A i, j \in 1..m : i < j => h[i] < h[j]
      /\ \A k \in I : \E i \in 1..m : h[i] = k
  BY <1>3, <1>5 DEF Lists, m
<1>8. ASSUME NEW i \in 1..m, NEW j \in 1..m, c[i] = c[j] PROVE i = j
  <2>1. s[h[i]] = s[h[j]] /\ h[i] \in DOMAIN s /\ h[j] \in DOMAIN s
    BY <1>1, <1>7, <1>8
  <2>2. h[i] = h[j] /\ h[i] \in Nat
    BY <1>1, <1>7, <2>1 DEF IsInjective
  <2>3. ~(i < j) /\ ~(j < i)
    BY <1>7, <2>2
  <2> QED
    BY <1>6, <2>3
<1>9. ASSUME NEW x PROVE x \in Range(c) <=> x \in D \cap K
  <2>1. ASSUME x \in Range(c) PROVE x \in D \cap K
    <3>1. PICK i \in 1..m : c[i] = x
      BY <1>6, <2>1 DEF Range
    <3>2. h[i] \in I /\ h[i] \in 1..n /\ x = s[h[i]]
      BY <1>7, <3>1
    <3> QED
      BY <1>1, <1>3, <3>2 DEF Range
  <2>2. ASSUME x \in D \cap K PROVE x \in Range(c)
    <3>1. PICK k \in 1..n : s[k] = x
      BY <1>1, <2>2 DEF Range
    <3>2. k \in I
      BY <1>3, <2>2, <3>1
    <3>3. PICK i \in 1..m : h[i] = k
      BY <1>7, <3>2
    <3>4. c[i] = x
      BY <1>7, <3>1, <3>3
    <3> QED
      BY <1>6, <3>4 DEF Range
  <2> QED
    BY <2>1, <2>2
<1>10. IsInjective(c)
  BY <1>6, <1>8 DEF IsInjective
<1>11. Range(c) = D \cap K
  BY <1>9
<1> QED
  BY <1>4, <1>10, <1>11 DEF Order, c

LEMMA RetainOrder ==
  ASSUME NEW s, NEW D, Order(s, D), NEW K
  PROVE  Order(Retain(s, K), D \ K)
<1>1. D \subseteq Key
  BY DEF Order, Range
<1>2. D \cap (Key \ K) = D \ K
  BY <1>1
<1>3. Order(Keep(s, Key \ K), D \cap (Key \ K))
  BY KeepOrder
<1> QED
  BY <1>2, <1>3 DEF Retain

LEMMA AppendOrder ==
  ASSUME NEW s, NEW D, Order(s, D), NEW k \in Key, k \notin D
  PROVE  Order(Append(s, k), D \cup {k})
<1> DEFINE d == Append(s, k)
           n == Len(s)
<1>1. s \in Seq(Key) /\ DOMAIN s = 1..n /\ n \in Nat /\ IsInjective(s) /\ Range(s) = D
  BY DEF Order
<1>2. d \in Seq(Key) /\ DOMAIN d = 1..(n + 1) /\ d[n + 1] = k /\ \A i \in 1..n : d[i] = s[i]
  BY <1>1
<1> HIDE DEF d, n
<1>3. 1..(n + 1) = 1..n \cup {n + 1}
  BY <1>1
<1>4. \A i \in 1..n : s[i] \in D
  BY <1>1 DEF Range
<1>5. Range(d) = D \cup {k}
  BY <1>1, <1>2, <1>3 DEF Range
<1>6. ASSUME NEW i \in 1..(n + 1), NEW j \in 1..(n + 1), d[i] = d[j] PROVE i = j
  <2>1. CASE i \in 1..n /\ j \in 1..n
    BY <1>1, <1>2, <1>6, <2>1 DEF IsInjective
  <2>2. CASE i = n + 1 /\ j \in 1..n
    BY <1>2, <1>4, <1>6, <2>2
  <2>3. CASE i \in 1..n /\ j = n + 1
    BY <1>2, <1>4, <1>6, <2>3
  <2> QED
    BY <1>3, <2>1, <2>2, <2>3
<1>7. IsInjective(d)
  BY <1>2, <1>6 DEF IsInjective
<1> QED
  BY <1>2, <1>5, <1>7 DEF Order, d

\* A sum is that of a part and of the rest.
LEMMA SumSplit ==
  ASSUME NEW f, NEW S, IsFiniteSet(S), \A x \in S : f[x] \in Nat, NEW T, T \subseteq S
  PROVE  /\ SumFunctionOnSet(f, T) \in Nat /\ SumFunctionOnSet(f, S \ T) \in Nat
         /\ SumFunctionOnSet(f, S) = SumFunctionOnSet(f, T) + SumFunctionOnSet(f, S \ T)
<1> DEFINE Sm(s) == SumFunctionOnSet(f, s)
           P == {n \in Nat : \A t \in SUBSET S : Cardinality(t) = n =>
                               Sm(S) = Sm(t) + Sm(S \ t)}
<1>1. ASSUME NEW t \in SUBSET S
      PROVE  IsFiniteSet(t) /\ Cardinality(t) \in Nat /\ Sm(t) \in Nat
  <2>1. IsFiniteSet(t) /\ \A x \in t : f[x] \in Nat
    BY FS_Subset
  <2> QED
    BY <2>1, SumType, FS_CardinalityType
<1>2. ASSUME NEW t \in SUBSET S, NEW p \in t PROVE Sm(t) = f[p] + Sm(t \ {p})
  <2>1. IsFiniteSet(t) /\ \A x \in t : f[x] \in Nat
    BY FS_Subset
  <2> QED
    BY <2>1, SumRemove
<1>3. Sm({}) = 0
  BY SumOfNone
<1> HIDE DEF Sm
<1>4. 0 \in P
  <2> SUFFICES ASSUME NEW t \in SUBSET S, Cardinality(t) = 0 PROVE Sm(S) = Sm(t) + Sm(S \ t)
    OBVIOUS
  <2>1. t = {} /\ S \ {} = S /\ S \in SUBSET S
    BY <1>1, FS_EmptySet
  <2>2. Sm(S) \in Nat
    BY <1>1, <2>1
  <2> QED
    BY <1>3, <2>1, <2>2
<1>5. ASSUME NEW n \in Nat, n \in P PROVE n + 1 \in P
  <2> SUFFICES ASSUME NEW t \in SUBSET S, Cardinality(t) = n + 1 PROVE Sm(S) = Sm(t) + Sm(S \ t)
    OBVIOUS
  <2>1. t # {}
    BY <1>1, FS_EmptySet
  <2>2. PICK p : p \in t
    BY <2>1
  <2> DEFINE u == t \ {p}
             r == S \ u
  <2>3. u \in SUBSET S /\ r \in SUBSET S /\ S \ t \in SUBSET S /\ p \in r /\ r \ {p} = S \ t
    BY <2>2
  <2>4. Cardinality(u) = n
    <3>1. Cardinality(u) = Cardinality(t) - 1
      BY <1>1, <2>2, FS_RemoveElement
    <3> QED
      BY <3>1
  <2>5. Sm(S) = Sm(u) + Sm(r)
    BY <1>5, <2>3, <2>4
  <2>6. Sm(t) = f[p] + Sm(u)
    BY <1>2, <2>2
  <2>7. Sm(r) = f[p] + Sm(S \ t)
    BY <1>2, <2>3
  <2>8. Sm(u) \in Nat /\ Sm(S \ t) \in Nat /\ f[p] \in Nat
    BY <1>1, <2>2, <2>3
  <2> HIDE DEF u, r
  <2> QED
    BY <2>5, <2>6, <2>7, <2>8
<1> HIDE DEF P
<1>6. Nat \subseteq P
  BY <1>4, <1>5, SetInduction
<1>7. T \in SUBSET S /\ S \ T \in SUBSET S
  OBVIOUS
<1>8. Sm(S) = Sm(T) + Sm(S \ T)
  BY <1>1, <1>6, <1>7 DEF P
<1>9. Sm(T) \in Nat /\ Sm(S \ T) \in Nat
  BY <1>1, <1>7
<1> QED
  BY <1>8, <1>9 DEF Sm

LEMMA SizesTyped ==
  ASSUME CacheKept
  PROVE  /\ \A k \in DOMAIN cached : cached[k] \in CacheEntry
         /\ \A k \in DOMAIN cached : SizeOf(cached)[k] = cached[k].size
         /\ \A k \in DOMAIN cached : SizeOf(cached)[k] \in Nat
         /\ size_bytes \in Nat
<1>1. \A k \in DOMAIN cached : cached[k] \in CacheEntry
  BY DEF CacheKept
<1>2. \A k \in DOMAIN cached : SizeOf(cached)[k] = cached[k].size
  BY DEF SizeOf
<1>3. \A k \in DOMAIN cached : SizeOf(cached)[k] \in Nat
  BY <1>1, <1>2 DEF CacheEntry
<1> QED
  BY <1>1, <1>2, <1>3, SumType DEF CacheKept

LEMMA DropStep ==
  ASSUME CacheKept, NEW K, K \subseteq DOMAIN cached, DropEntries(K)
  PROVE  CacheKept'
<1> DEFINE D == DOMAIN cached
           R == D \ K
           f == SizeOf(cached)
<1>1. /\ IsFiniteSet(D) /\ D \subseteq Key /\ cached \in [D -> CacheEntry]
      /\ size_bytes = SumFunctionOnSet(f, D) /\ size_bytes <= MaxSize
      /\ Cardinality(D) <= MaxCached /\ Order(access_order, D) /\ Order(insert_order, D)
  BY DEF CacheKept
<1>2. /\ \A k \in D : cached[k] \in CacheEntry /\ f[k] = cached[k].size /\ f[k] \in Nat
      /\ size_bytes \in Nat
  BY SizesTyped
<1>3. /\ cached' = [k \in R |-> cached[k]]
      /\ access_order' = Retain(access_order, K) /\ insert_order' = Retain(insert_order, K)
      /\ size_bytes' = size_bytes - SumFunctionOnSet(f, K)
  BY DEF DropEntries, Sizes, SizeOf
<1> HIDE DEF f
<1>4. DOMAIN cached' = R /\ cached' \in [R -> CacheEntry] /\ R \subseteq Key
  BY <1>1, <1>2, <1>3
<1>5. IsFiniteSet(R) /\ Cardinality(R) <= Cardinality(D)
  BY <1>1, FS_Subset
<1>6. Cardinality(R) <= MaxCached
  <2>1. Cardinality(R) \in Nat /\ Cardinality(D) \in Nat
    BY <1>1, <1>5, FS_CardinalityType
  <2> QED
    BY <1>1, <1>5, <2>1, CacheAssumption
<1>7. Order(access_order', R) /\ Order(insert_order', R)
  BY <1>1, <1>3, RetainOrder
<1>8. \A k \in R : SizeOf(cached')[k] = f[k]
  BY <1>2, <1>3 DEF SizeOf
<1>9. SumFunctionOnSet(SizeOf(cached'), R) = SumFunctionOnSet(f, R)
  BY <1>5, <1>8, SumOfSame
<1>10. /\ SumFunctionOnSet(f, K) \in Nat /\ SumFunctionOnSet(f, R) \in Nat
       /\ SumFunctionOnSet(f, D) = SumFunctionOnSet(f, K) + SumFunctionOnSet(f, R)
  <2>1. K \subseteq D /\ IsFiniteSet(D) /\ \A x \in D : f[x] \in Nat
    BY <1>1, <1>2
  <2> HIDE DEF D
  <2> QED
    BY <2>1, SumSplit
<1>11. size_bytes' = SumFunctionOnSet(SizeOf(cached'), R) /\ size_bytes' <= MaxSize
  BY <1>1, <1>2, <1>3, <1>9, <1>10, CacheAssumption
<1> QED
  BY <1>4, <1>5, <1>6, <1>7, <1>11 DEF CacheKept

\* An entry that changes without its size changes no sum.
LEMMA TouchStep ==
  ASSUME CacheKept, NEW k \in DOMAIN cached, NEW e \in CacheEntry, e.size = cached[k].size,
         cached' = [cached EXCEPT ![k] = e], size_bytes' = size_bytes,
         Order(access_order', DOMAIN cached), Order(insert_order', DOMAIN cached)
  PROVE  CacheKept'
<1> DEFINE D == DOMAIN cached
<1>1. cached \in [D -> CacheEntry] /\ IsFiniteSet(D)
  BY DEF CacheKept
<1>2. DOMAIN cached' = D /\ cached' \in [D -> CacheEntry]
      /\ \A x \in D : cached'[x] = IF x = k THEN e ELSE cached[x]
  BY <1>1
<1>3. \A x \in D : SizeOf(cached')[x] = SizeOf(cached)[x]
  BY <1>2 DEF SizeOf
<1>4. SumFunctionOnSet(SizeOf(cached'), D) = SumFunctionOnSet(SizeOf(cached), D)
  <2> DEFINE f == SizeOf(cached)
             g == SizeOf(cached')
  <2>1. \A x \in D : g[x] = f[x]
    BY <1>3
  <2> HIDE DEF D, f, g
  <2>2. SumFunctionOnSet(g, D) = SumFunctionOnSet(f, D)
    BY <1>1, <2>1, SumOfSame
  <2> QED
    BY <2>2 DEF f, g
<1> QED
  BY <1>2, <1>4 DEF CacheKept

LEMMA ExpireStep ==
  ASSUME CacheKept, NEW k \in Key, Expire(k)
  PROVE  CacheKept'
<1> DEFINE c == cached[k]
           e == [size |-> c.size, expired |-> TRUE, count |-> c.count]
<1>1. /\ k \in DOMAIN cached /\ cached' = [cached EXCEPT ![k].expired = TRUE]
      /\ UNCHANGED <<access_order, insert_order, size_bytes>>
  BY DEF Expire
<1>2. c \in CacheEntry
  BY <1>1, SizesTyped
<1>3. \A x \in CacheEntry, b \in BOOLEAN :
        /\ [x EXCEPT !.expired = b] = [size |-> x.size, expired |-> b, count |-> x.count]
        /\ [size |-> x.size, expired |-> b, count |-> x.count] \in CacheEntry
  BY DEF CacheEntry
<1>4. [c EXCEPT !.expired = TRUE] = e /\ e \in CacheEntry
  BY <1>2, <1>3, Zenon
<1>5. e.size = c.size
  OBVIOUS
<1> HIDE DEF e
<1>6. cached' = [cached EXCEPT ![k] = e]
  BY <1>1, <1>4
<1>7. Order(access_order', DOMAIN cached) /\ Order(insert_order', DOMAIN cached)
  BY <1>1 DEF CacheKept
<1> QED
  BY <1>1, <1>4, <1>5, <1>6, <1>7, TouchStep

LEMMA GetStep ==
  ASSUME CacheKept, NEW k \in Key, CacheGet(k)
  PROVE  CacheKept'
<1>1. k \in DOMAIN cached
  BY DEF CacheGet
<1>2. CASE cached[k].expired
  <2>1. DropEntries({k})
    BY <1>2 DEF CacheGet
  <2>2. {k} \subseteq DOMAIN cached
    BY <1>1
  <2> QED
    BY <2>1, <2>2, DropStep
<1>3. CASE ~cached[k].expired
  <2> DEFINE c == cached[k]
             v == IF c.count < MaxCount THEN c.count + 1 ELSE c.count
             e == [size |-> c.size, expired |-> c.expired, count |-> v]
             D == DOMAIN cached
  <2>1. /\ cached' = [cached EXCEPT ![k].count = IF @ < MaxCount THEN @ + 1 ELSE @]
        /\ access_order' = Append(Retain(access_order, {k}), k)
        /\ UNCHANGED <<insert_order, size_bytes>>
    BY <1>3 DEF CacheGet
  <2>2. c \in CacheEntry /\ c.count \in Nat
    <3>1. c \in CacheEntry
      BY <1>1, SizesTyped
    <3> QED
      BY <3>1 DEF CacheEntry
  <2>3. v \in Nat
    BY <2>2
  <2>4. \A x \in CacheEntry, n \in Nat :
          /\ [x EXCEPT !.count = n] = [size |-> x.size, expired |-> x.expired, count |-> n]
          /\ [size |-> x.size, expired |-> x.expired, count |-> n] \in CacheEntry
    BY DEF CacheEntry
  <2>5. cached' = [cached EXCEPT ![k] = [c EXCEPT !.count = v]]
    BY <2>1
  <2> HIDE DEF v
  <2>6. [c EXCEPT !.count = v] = e /\ e \in CacheEntry
    BY <2>2, <2>3, <2>4, Zenon
  <2>7. e.size = c.size
    OBVIOUS
  <2> HIDE DEF e
  <2>8. cached' = [cached EXCEPT ![k] = e]
    BY <2>5, <2>6
  <2>9. Order(access_order', D)
    <3>1. Order(access_order, D)
      BY DEF CacheKept
    <3>2. Order(Retain(access_order, {k}), D \ {k})
      BY <3>1, RetainOrder
    <3>3. Order(access_order', (D \ {k}) \cup {k})
      BY <2>1, <3>2, AppendOrder
    <3>4. (D \ {k}) \cup {k} = D
      BY <1>1
    <3> QED
      BY <3>3, <3>4
  <2>10. Order(insert_order', D)
    BY <2>1 DEF CacheKept
  <2> QED
    BY <1>1, <2>1, <2>6, <2>7, <2>8, <2>9, <2>10, TouchStep
<1> QED
  BY <1>2, <1>3

Strategies == {"lru", "lfu", "fifo"}

\* Whatever the strategy, every key can be evicted.
LEMMA EvictionOrder ==
  ASSUME CacheKept, strategy \in Strategies, NEW K, K \subseteq DOMAIN cached,
         NEW o \in EvictionOrders(K)
  PROVE  Len(o) \in Nat /\ {o[i] : i \in 1..Len(o)} = K
<1>1. ASSUME NEW s, Order(s, DOMAIN cached), o = Keep(s, K)
      PROVE  Len(o) \in Nat /\ {o[i] : i \in 1..Len(o)} = K
  <2>1. Order(o, DOMAIN cached \cap K)
    BY <1>1, KeepOrder
  <2>2. DOMAIN cached \cap K = K
    OBVIOUS
  <2>3. o \in Seq(Key) /\ Range(o) = K
    BY <2>1, <2>2 DEF Order
  <2>4. Len(o) \in Nat /\ DOMAIN o = 1..Len(o)
    BY <2>3
  <2> QED
    BY <2>3, <2>4 DEF Range
<1>2. CASE strategy = "lru"
  <2>1. o = Keep(access_order, K)
    BY <1>2 DEF EvictionOrders
  <2> QED
    BY <1>1, <2>1 DEF CacheKept
<1>3. CASE strategy = "fifo"
  <2>1. o = Keep(insert_order, K)
    BY <1>3 DEF EvictionOrders
  <2> QED
    BY <1>1, <2>1 DEF CacheKept
<1>4. CASE strategy = "lfu"
  <2> DEFINE n == Cardinality(K)
  <2>1. o \in SetToSeqs(K)
    BY <1>4 DEF EvictionOrders
  <2>2. IsFiniteSet(K) /\ n \in Nat
    BY FS_Subset, FS_CardinalityType DEF CacheKept
  <2>3. o \in [1..n -> K] /\ \A i, j \in 1..n : i # j => o[i] # o[j]
    BY <2>1 DEF SetToSeqs
  <2> HIDE DEF n
  <2>4. o \in Injection(1..n, K)
    BY <2>3 DEF Injection, IsInjective
  <2>5. Cardinality(1..n) = n
    BY <2>2, FS_Interval
  <2>6. o \in Surjection(1..n, K)
    BY <2>2, <2>4, <2>5, FS_Injection DEF n
  <2>7. \A x \in K : \E i \in 1..n : o[i] = x
    BY <2>6 DEF Surjection
  <2>8. Len(o) = n
    BY <2>2, <2>3
  <2> QED
    BY <2>2, <2>3, <2>7, <2>8
<1> QED
  BY <1>2, <1>3, <1>4 DEF Strategies

LEMMA SetStep ==
  ASSUME CacheKept, strategy \in Strategies, NEW k \in Key, NEW size \in Nat, CacheSet(k, size)
  PROVE  CacheKept'
<1> DEFINE D == DOMAIN cached
           K == D \ {k}
           f == SizeOf(cached)
<1>1. /\ IsFiniteSet(D) /\ D \subseteq Key /\ cached \in [D -> CacheEntry]
      /\ size_bytes = SumFunctionOnSet(f, D)
      /\ Order(access_order, D) /\ Order(insert_order, D)
  BY DEF CacheKept
<1>2. /\ \A x \in D : cached[x] \in CacheEntry /\ f[x] = cached[x].size /\ f[x] \in Nat
      /\ size_bytes \in Nat
  BY SizesTyped
<1>3. MaxSize \in Nat /\ MaxCached \in Nat /\ MaxCached > 0
  BY CacheAssumption
<1> DEFINE Gone(o, n) == {o[i] : i \in 1..n}
           Fits(o, n) == /\ SumFunctionOnSet(f, K \ Gone(o, n)) + size <= MaxSize
                         /\ Cardinality(K \ Gone(o, n)) < MaxCached
           Out(o) == {k} \cup Gone(o, Min({n \in 0..Len(o) : Fits(o, n)}))
<1>4. /\ size <= MaxSize
      /\ \E o \in EvictionOrders(K) :
           /\ cached' = [x \in (D \ Out(o)) \cup {k} |->
                           IF x = k THEN [size |-> size, expired |-> FALSE, count |-> 0]
                           ELSE cached[x]]
           /\ access_order' = Append(Retain(access_order, Out(o)), k)
           /\ insert_order' = Append(Retain(insert_order, Out(o)), k)
           /\ size_bytes' = size_bytes + size - SumFunctionOnSet(f, Out(o) \cap D)
  BY DEF CacheSet, Sizes, SizeOf
<1> HIDE DEF f
<1>5. PICK o \in EvictionOrders(K) :
        /\ cached' = [x \in (D \ Out(o)) \cup {k} |->
                        IF x = k THEN [size |-> size, expired |-> FALSE, count |-> 0]
                        ELSE cached[x]]
        /\ access_order' = Append(Retain(access_order, Out(o)), k)
        /\ insert_order' = Append(Retain(insert_order, Out(o)), k)
        /\ size_bytes' = size_bytes + size - SumFunctionOnSet(f, Out(o) \cap D)
  BY <1>4
<1>6. Len(o) \in Nat /\ Gone(o, Len(o)) = K
  BY EvictionOrder
<1> DEFINE F == {n \in 0..Len(o) : Fits(o, n)}
<1>7. Len(o) \in F
  <2>1. K \ Gone(o, Len(o)) = {}
    BY <1>6
  <2>2. SumFunctionOnSet(f, {}) = 0 /\ Cardinality({}) = 0
    BY SumOfNone, FS_EmptySet
  <2>3. 0 + size <= MaxSize /\ 0 < MaxCached
    BY <1>3, <1>4
  <2>4. Fits(o, Len(o))
    <3> HIDE DEF Gone, K
    <3> QED
      BY <2>1, <2>2, <2>3, Zenon
  <2> HIDE DEF Fits
  <2> QED
    BY <1>6, <2>4
<1> DEFINE m == Min(F)
           out == Out(o)
           rest == K \ Gone(o, m)
<1>8. m \in F
  <2> HIDE DEF Fits
  <2>1. F \subseteq Nat /\ F # {}
    BY <1>7
  <2> HIDE DEF F
  <2>2. \E x \in F : \A y \in F : x <= y
    BY <2>1, LeastNat
  <2> QED
    BY <2>2 DEF Min
<1>9. SumFunctionOnSet(f, rest) + size <= MaxSize /\ Cardinality(rest) < MaxCached
  <2>1. Fits(o, m)
    <3> HIDE DEF Fits, m
    <3> QED
      BY <1>8
  <2> HIDE DEF m
  <2> QED
    BY <2>1
<1>10. D \ out = rest /\ k \in out
  <2> HIDE DEF m
  <2>1. out = {k} \cup Gone(o, m)
    BY DEF m
  <2> HIDE DEF Gone, Out
  <2> QED
    BY <2>1
<1> DEFINE e == [size |-> size, expired |-> FALSE, count |-> 0]
<1>11. /\ cached' = [x \in rest \cup {k} |-> IF x = k THEN e ELSE cached[x]]
       /\ access_order' = Append(Retain(access_order, out), k)
       /\ insert_order' = Append(Retain(insert_order, out), k)
       /\ size_bytes' = size_bytes + size - SumFunctionOnSet(f, out \cap D)
  <2> HIDE DEF m, rest
  <2> QED
    BY <1>5, <1>10
<1> HIDE DEF out, Out
<1>12. rest \subseteq D /\ k \notin rest
  <2> HIDE DEF m
  <2> QED
    OBVIOUS
<1> HIDE DEF rest, m, F, Fits, Gone
<1>13. e \in CacheEntry /\ e.size = size
  <2>1. \A b \in BOOLEAN : [size |-> size, expired |-> b, count |-> 0] \in CacheEntry
    BY DEF CacheEntry
  <2> QED
    BY <2>1
<1> HIDE DEF e
<1>14. /\ DOMAIN cached' = rest \cup {k} /\ cached' \in [rest \cup {k} -> CacheEntry]
       /\ rest \cup {k} \subseteq Key
  BY <1>1, <1>2, <1>11, <1>12, <1>13
<1>15. IsFiniteSet(rest) /\ IsFiniteSet(rest \cup {k}) /\ Cardinality(rest) \in Nat
       /\ Cardinality(rest \cup {k}) = Cardinality(rest) + 1
  <2>1. IsFiniteSet(rest)
    BY <1>1, <1>12, FS_Subset
  <2> QED
    BY <1>12, <2>1, FS_AddElement, FS_CardinalityType
<1>16. Cardinality(rest \cup {k}) <= MaxCached
  BY <1>3, <1>9, <1>15
<1>17. Order(access_order', rest \cup {k}) /\ Order(insert_order', rest \cup {k})
  <2>1. Order(Retain(access_order, out), rest) /\ Order(Retain(insert_order, out), rest)
    BY <1>1, <1>10, RetainOrder
  <2> QED
    BY <1>11, <1>12, <2>1, AppendOrder
<1> DEFINE g == SizeOf(cached')
           Sm(h, s) == SumFunctionOnSet(h, s)
<1>18. g[k] = size /\ \A x \in rest : g[x] = f[x] /\ f[x] \in Nat
  BY <1>2, <1>11, <1>12, <1>13 DEF SizeOf
<1> HIDE DEF g
<1>19. Sm(g, rest \cup {k}) = size + Sm(f, rest) /\ Sm(f, rest) \in Nat
  <2> DEFINE T == rest \cup {k}
  <2>1. T \ {k} = rest /\ k \in T
    BY <1>12
  <2>2. \A x \in T : g[x] \in Nat
    BY <1>18
  <2>3. IsFiniteSet(T)
    BY <1>15
  <2> HIDE DEF T
  <2>4. Sm(g, T) = g[k] + Sm(g, T \ {k})
    BY <2>1, <2>2, <2>3, SumRemove
  <2>5. Sm(g, rest) = Sm(f, rest)
    BY <1>15, <1>18, SumOfSame
  <2>6. Sm(f, rest) \in Nat
    BY <1>15, <1>18, SumType
  <2>7. Sm(g, T) = size + Sm(f, rest)
    BY <1>18, <2>1, <2>4, <2>5
  <2> QED
    BY <2>6, <2>7 DEF T
<1>20. /\ Sm(f, out \cap D) \in Nat
       /\ Sm(f, D) = Sm(f, out \cap D) + Sm(f, rest)
  <2> DEFINE T == out \cap D
  <2>1. T \subseteq D /\ D \ T = rest /\ IsFiniteSet(D) /\ \A x \in D : f[x] \in Nat
    BY <1>1, <1>2, <1>10
  <2> HIDE DEF T, D
  <2>2. Sm(f, T) \in Nat /\ Sm(f, D) = Sm(f, T) + Sm(f, D \ T)
    BY <2>1, SumSplit
  <2> QED
    BY <2>1, <2>2 DEF T
<1>21. size_bytes' = Sm(g, rest \cup {k}) /\ size_bytes' <= MaxSize
  BY <1>1, <1>3, <1>9, <1>11, <1>19, <1>20
<1> QED
  BY <1>14, <1>15, <1>16, <1>17, <1>21 DEF CacheKept, g

(* For any keys, limits and strategy, and over any sequence of calls and   *)
(* sweeps: size_bytes is the sum of the sizes and within the limit, as the *)
(* number of entries is, and both orders hold every cached key once, so    *)
(* that eviction always finds a victim (set, evict_one_inner,              *)
(* purge_expired).                                                         *)
THEOREM CacheAddsUp == CacheSpec => []CacheAccounts
<1> DEFINE Inv == CacheKept /\ strategy \in Strategies
<1>1. CacheInit => Inv
  <2> SUFFICES ASSUME CacheInit PROVE Inv
    OBVIOUS
  <2>1. /\ cached = << >> /\ access_order = << >> /\ insert_order = << >> /\ size_bytes = 0
        /\ strategy \in Strategies
    BY DEF CacheInit, Strategies
  <2>2. DOMAIN cached = {} /\ cached \in [{} -> CacheEntry]
    BY <2>1
  <2>3. IsFiniteSet({}) /\ Cardinality({}) = 0
    BY FS_EmptySet
  <2>4. SumFunctionOnSet(SizeOf(cached), {}) = 0
    BY SumOfNone
  <2>5. Order(access_order, {}) /\ Order(insert_order, {})
    BY <2>1 DEF Order, IsInjective, Range
  <2> QED
    BY <2>1, <2>2, <2>3, <2>4, <2>5, CacheAssumption DEF CacheKept
<1>2. Inv /\ [CacheNext]_cacheVars => Inv'
  <2> SUFFICES ASSUME Inv, [CacheNext]_cacheVars PROVE Inv'
    OBVIOUS
  <2>1. CASE UNCHANGED cacheVars
    BY <2>1 DEF cacheVars, CacheKept
  <2>2. CASE CacheClear
    <3>1. /\ cached' = << >> /\ access_order' = << >> /\ insert_order' = << >>
          /\ size_bytes' = 0 /\ strategy' = strategy
      BY <2>2 DEF CacheClear
    <3>2. DOMAIN cached' = {} /\ cached' \in [{} -> CacheEntry]
      BY <3>1
    <3>3. IsFiniteSet({}) /\ Cardinality({}) = 0
      BY FS_EmptySet
    <3>4. SumFunctionOnSet(SizeOf(cached'), {}) = 0
      BY SumOfNone
    <3>5. Order(access_order', {}) /\ Order(insert_order', {})
      BY <3>1 DEF Order, IsInjective, Range
    <3> QED
      BY <3>1, <3>2, <3>3, <3>4, <3>5, CacheAssumption DEF CacheKept
  <2>3. CASE Sweep
    <3> DEFINE gone == {k \in DOMAIN cached : cached[k].expired}
    <3>1. DropEntries(gone) /\ strategy' = strategy /\ gone \subseteq DOMAIN cached
      BY <2>3 DEF Sweep
    <3> HIDE DEF gone
    <3> QED
      BY <3>1, DropStep
  <2>4. ASSUME NEW k \in Key, Expire(k) PROVE Inv'
    BY <2>4, ExpireStep DEF Expire
  <2>5. ASSUME NEW k \in Key, CacheGet(k) PROVE Inv'
    BY <2>5, GetStep DEF CacheGet
  <2>6. ASSUME NEW k \in Key, Invalidate(k) PROVE Inv'
    <3>1. DropEntries({k}) /\ strategy' = strategy /\ {k} \subseteq DOMAIN cached
      BY <2>6 DEF Invalidate
    <3> QED
      BY <3>1, DropStep
  <2>7. ASSUME NEW k \in Key, NEW size \in 1..MaxSize, CacheSet(k, size) PROVE Inv'
    <3>1. size \in Nat
      BY CacheAssumption
    <3>2. strategy' = strategy
      BY <2>7 DEF CacheSet
    <3> QED
      BY <2>7, <3>1, <3>2, SetStep
  <2>8. ASSUME NEW K \in SUBSET Key, InvalidatePrefix(K) PROVE Inv'
    <3>1. /\ DropEntries(K \cap DOMAIN cached) /\ strategy' = strategy
          /\ K \cap DOMAIN cached \subseteq DOMAIN cached
      BY <2>8 DEF InvalidatePrefix
    <3> QED
      BY <3>1, DropStep
  <2> HIDE DEF Inv
  <2> QED
    BY <2>1, <2>2, <2>3, <2>4, <2>5, <2>6, <2>7, <2>8 DEF CacheNext
<1>3. Inv => CacheAccounts
  BY DEF CacheKept, CacheAccounts, Order, Sizes, SizeOf
<1> QED
  BY <1>1, <1>2, <1>3, PTL DEF CacheSpec
=============================================================================
