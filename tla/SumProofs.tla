------------------------------ MODULE SumProofs -------------------------------
(***************************************************************************)
(* What the models' sums over finite sets (MapThenSumSet) come to, in      *)
(* whatever order the elements are taken: the neighbours' requests of a    *)
(* message, the counts of a ring of seconds.                               *)
(***************************************************************************)
EXTENDS Integers, FiniteSets, FiniteSetsExt, FiniteSetTheorems, WellFoundedInduction, TLAPS

\* The terms are a function, so that a sum is of a set and not of a formula.
SumOf(term, S) == MapThenSumSet(LAMBDA x : term[x], S)

-----------------------------------------------------------------------------
(* Induction over the subsets of a finite set *)

LEMMA LeastNumber ==
  ASSUME NEW N, N \subseteq Nat, N # {}
  PROVE  \E m \in N : \A n \in N : m <= n
<1>1. PICK m \in N : \A n \in N : ~(<<n, m>> \in OpToRel(<, Nat))
  BY NatLessThanWellFounded, WFMin
<1>2. ASSUME NEW n \in N PROVE m <= n
  <2>1. <<n, m>> \in OpToRel(<, Nat) <=> n < m
    BY Zenon DEF OpToRel
  <2>2. ~(n < m)
    BY <1>1, <2>1, Zenon
  <2>3. n \in Nat /\ m \in Nat
    OBVIOUS
  <2> QED
    BY <2>2, <2>3
<1> QED
  BY <1>2

\* What holds of a set once it holds of its proper subsets holds of every one.
LEMMA SubsetInduction ==
  ASSUME NEW S, IsFiniteSet(S), NEW Good,
         \A s \in SUBSET S : (\A t \in SUBSET s : t # s => t \in Good) => s \in Good
  PROVE  \A s \in SUBSET S : s \in Good
<1> SUFFICES ASSUME \E s \in SUBSET S : s \notin Good PROVE FALSE
  OBVIOUS
<1> DEFINE Bad == {s \in SUBSET S : s \notin Good}
           Sizes == {Cardinality(s) : s \in Bad}
<1>1. \A s \in SUBSET S : IsFiniteSet(s) /\ Cardinality(s) \in Nat
  BY FS_Subset, FS_CardinalityType
<1>2. Sizes \subseteq Nat /\ Sizes # {}
  BY <1>1
<1>3. PICK n \in Sizes : \A m \in Sizes : n <= m
  BY <1>2, LeastNumber
<1>4. PICK s \in Bad : Cardinality(s) = n
  BY <1>3
<1>5. ASSUME NEW t \in SUBSET s, t # s PROVE t \in Good
  <2>1. Cardinality(t) \in Nat /\ Cardinality(s) \in Nat /\ Cardinality(t) < Cardinality(s)
    BY <1>1, <1>4, <1>5, FS_Subset
  <2> QED
    BY <1>3, <1>4, <2>1
<1> QED
  BY <1>4, <1>5

-----------------------------------------------------------------------------
(* The recursion behind a sum *)

Pick(s) == CHOOSE x \in s : TRUE

IsSum(F, term, S) ==
  F = [s \in SUBSET S |-> IF s = {} THEN 0 ELSE term[Pick(s)] + F[s \ {Pick(s)}]]

LEMMA SumUnfold ==
  ASSUME NEW F, NEW term, NEW S, IsSum(F, term, S)
  PROVE  /\ F[{}] = 0
         /\ \A s \in SUBSET S : s # {} =>
              Pick(s) \in s /\ F[s] = term[Pick(s)] + F[s \ {Pick(s)}]
<1>1. \A s \in SUBSET S : F[s] = IF s = {} THEN 0 ELSE term[Pick(s)] + F[s \ {Pick(s)}]
  BY DEF IsSum
<1>2. \A s : s # {} => Pick(s) \in s
  BY DEF Pick
<1> QED
  BY <1>1, <1>2

Same(term, other, S) == \A x \in S : term[x] = other[x]

\* Two sums agree where their terms do.
LEMMA SumAgrees ==
  ASSUME NEW F, NEW G, NEW term, NEW other, NEW S, NEW T,
         NEW U, U \subseteq S, U \subseteq T, IsFiniteSet(U),
         IsSum(F, term, S), IsSum(G, other, T), Same(term, other, U)
  PROVE  F[U] = G[U]
<1> DEFINE Good == {s \in SUBSET U : F[s] = G[s]}
<1>1. /\ F[{}] = 0
      /\ \A s \in SUBSET S : s # {} =>
           Pick(s) \in s /\ F[s] = term[Pick(s)] + F[s \ {Pick(s)}]
  BY SumUnfold, Zenon
<1>2. /\ G[{}] = 0
      /\ \A s \in SUBSET T : s # {} =>
           Pick(s) \in s /\ G[s] = other[Pick(s)] + G[s \ {Pick(s)}]
  BY SumUnfold, Zenon
<1>3. ASSUME NEW s \in SUBSET U, \A t \in SUBSET s : t # s => t \in Good
      PROVE  s \in Good
  <2>1. CASE s = {}
    BY <1>1, <1>2, <2>1
  <2>2. CASE s # {}
    <3>1. s \in SUBSET S /\ s \in SUBSET T
      OBVIOUS
    <3>2. Pick(s) \in s /\ F[s] = term[Pick(s)] + F[s \ {Pick(s)}]
      BY <1>1, <2>2, <3>1
    <3>3. G[s] = other[Pick(s)] + G[s \ {Pick(s)}]
      BY <1>2, <2>2, <3>1
    <3>4. s \ {Pick(s)} \in Good
      BY <1>3, <3>2
    <3> QED
      BY <3>2, <3>3, <3>4 DEF Same
  <2> QED
    BY <2>1, <2>2
<1>4. \A s \in SUBSET U : s \in Good
  <2> HIDE DEF Good
  <2> QED
    BY <1>3, SubsetInduction
<1> QED
  BY <1>4

LEMMA SumExists ==
  ASSUME NEW term, NEW S, IsFiniteSet(S)
  PROVE  \E F : IsSum(F, term, S)
<1> DEFINE Good == {s \in SUBSET S : \E F : IsSum(F, term, s)}
           H(s) == CHOOSE F : IsSum(F, term, s)
<1>1. ASSUME NEW s \in SUBSET S, \A t \in SUBSET s : t # s => t \in Good
      PROVE  s \in Good
  <2> DEFINE F == [u \in SUBSET s |->
                     IF u = {} THEN 0
                     ELSE term[Pick(u)] + H(u \ {Pick(u)})[u \ {Pick(u)}]]
  <2>1. \A u \in SUBSET s : u # {} => Pick(u) \in u
    BY DEF Pick
  <2>2. \A t \in SUBSET s : t # s => IsSum(H(t), term, t) /\ IsFiniteSet(t)
    BY <1>1, FS_Subset
  <2> HIDE DEF H
  <2>3. ASSUME NEW t \in SUBSET s, t # s
        PROVE  F[t] = H(t)[t]
    <3>1. CASE t = {}
      BY <2>2, <2>3, <3>1, SumUnfold
    <3>2. CASE t # {}
      <4> DEFINE v == t \ {Pick(t)}
      <4>1. Pick(t) \in t /\ v \in SUBSET s /\ v # s /\ v \in SUBSET t
        BY <2>1, <2>3, <3>2
      <4>2. H(t)[t] = term[Pick(t)] + H(t)[v]
        BY <2>2, <2>3, <3>2, SumUnfold
      <4>3. F[t] = term[Pick(t)] + H(v)[v]
        BY <2>3, <3>2
      <4>4. IsSum(H(t), term, t) /\ IsSum(H(v), term, v) /\ IsFiniteSet(v)
            /\ v \subseteq t /\ v \subseteq v /\ Same(term, term, v)
        BY <2>2, <2>3, <4>1 DEF Same
      <4> HIDE DEF v
      <4>5. H(t)[v] = H(v)[v]
        BY <4>4, SumAgrees
      <4> QED
        BY <4>2, <4>3, <4>5
    <3> QED
      BY <3>1, <3>2
  <2>4. \A u \in SUBSET s : u # {} =>
          F[u \ {Pick(u)}] = H(u \ {Pick(u)})[u \ {Pick(u)}]
    BY <2>1, <2>3
  <2>5. IsSum(F, term, s)
    BY <2>4 DEF IsSum
  <2> QED
    BY <2>5
<1>2. \A s \in SUBSET S : s \in Good
  <2> HIDE DEF Good
  <2> QED
    BY <1>1, SubsetInduction
<1> QED
  BY <1>2

\* MapThenSumSet is such a sum, of the terms its operator gives.
LEMMA SumIs ==
  ASSUME NEW term, NEW S, IsFiniteSet(S)
  PROVE  \E F : IsSum(F, term, S) /\ SumOf(term, S) = F[S]
<1>1. \E F : IsSum(F, term, S)
  BY SumExists
<1> QED
  BY <1>1 DEF SumOf, MapThenSumSet, MapThenFoldSet, IsSum, Pick

-----------------------------------------------------------------------------
(* Sums *)

\* Equal terms make equal sums.
LEMMA SumEqual ==
  ASSUME NEW S, IsFiniteSet(S), NEW term, NEW other, \A x \in S : term[x] = other[x]
  PROVE  SumOf(term, S) = SumOf(other, S)
<1>1. PICK F : IsSum(F, term, S) /\ SumOf(term, S) = F[S]
  BY SumIs
<1>2. PICK G : IsSum(G, other, S) /\ SumOf(other, S) = G[S]
  BY SumIs
<1>3. Same(term, other, S) /\ S \subseteq S
  BY DEF Same
<1>4. F[S] = G[S]
  BY <1>1, <1>2, <1>3, SumAgrees
<1> QED
  BY <1>1, <1>2, <1>4

LEMMA SumEmpty == ASSUME NEW term PROVE SumOf(term, {}) = 0
<1>1. PICK F : IsSum(F, term, {}) /\ SumOf(term, {}) = F[{}]
  BY SumIs, FS_EmptySet
<1> QED
  BY <1>1, SumUnfold

\* The sum of a part of a set is the sum of that part.
LEMMA SumPart ==
  ASSUME NEW term, NEW S, IsFiniteSet(S), NEW F, IsSum(F, term, S), NEW s \in SUBSET S
  PROVE  F[s] = SumOf(term, s)
<1>1. IsFiniteSet(s)
  BY FS_Subset
<1>2. PICK G : IsSum(G, term, s) /\ SumOf(term, s) = G[s]
  BY <1>1, SumIs
<1>3. s \subseteq S /\ s \subseteq s /\ Same(term, term, s)
  BY DEF Same
<1>4. F[s] = G[s]
  BY <1>1, <1>2, <1>3, SumAgrees
<1> QED
  BY <1>2, <1>4

LEMMA SumPick ==
  ASSUME NEW term, NEW S, IsFiniteSet(S), S # {}
  PROVE  Pick(S) \in S /\ SumOf(term, S) = term[Pick(S)] + SumOf(term, S \ {Pick(S)})
<1>1. PICK F : IsSum(F, term, S) /\ SumOf(term, S) = F[S]
  BY SumIs
<1>2. Pick(S) \in S /\ F[S] = term[Pick(S)] + F[S \ {Pick(S)}]
  <2>1. \A s \in SUBSET S : s # {} =>
          Pick(s) \in s /\ F[s] = term[Pick(s)] + F[s \ {Pick(s)}]
    BY <1>1, SumUnfold, Zenon
  <2> QED
    BY <2>1
<1>3. F[S \ {Pick(S)}] = SumOf(term, S \ {Pick(S)})
  <2>1. S \ {Pick(S)} \in SUBSET S /\ IsSum(F, term, S)
    BY <1>1
  <2> QED
    BY <2>1, SumPart, Zenon
<1> QED
  BY <1>1, <1>2, <1>3

LEMMA SumInteger ==
  ASSUME NEW term, NEW S, IsFiniteSet(S), \A x \in S : term[x] \in Int
  PROVE  SumOf(term, S) \in Int
<1> DEFINE Good == {s \in SUBSET S : SumOf(term, s) \in Int}
<1>1. ASSUME NEW s \in SUBSET S, \A t \in SUBSET s : t # s => t \in Good
      PROVE  s \in Good
  <2>1. CASE s = {}
    BY <2>1, SumEmpty
  <2>2. CASE s # {}
    <3>1. IsFiniteSet(s)
      BY FS_Subset
    <3>2. Pick(s) \in s /\ SumOf(term, s) = term[Pick(s)] + SumOf(term, s \ {Pick(s)})
      BY <2>2, <3>1, SumPick
    <3>3. s \ {Pick(s)} \in Good /\ term[Pick(s)] \in Int
      BY <1>1, <3>2
    <3>4. SumOf(term, s \ {Pick(s)}) \in Int
      BY <3>3
    <3>5. SumOf(term, s) \in Int
      BY <3>2, <3>3, <3>4
    <3> QED
      BY <3>5
  <2> QED
    BY <2>1, <2>2
<1>2. \A s \in SUBSET S : s \in Good
  <2> HIDE DEF Good
  <2> QED
    BY <1>1, SubsetInduction
<1>3. S \in Good
  BY <1>2
<1> QED
  BY <1>3

LEMMA SumNatural ==
  ASSUME NEW term, NEW S, IsFiniteSet(S), \A x \in S : term[x] \in Nat
  PROVE  SumOf(term, S) \in Nat
<1> DEFINE Good == {s \in SUBSET S : SumOf(term, s) \in Nat}
<1>1. ASSUME NEW s \in SUBSET S, \A t \in SUBSET s : t # s => t \in Good
      PROVE  s \in Good
  <2>1. CASE s = {}
    BY <2>1, SumEmpty
  <2>2. CASE s # {}
    <3>1. IsFiniteSet(s)
      BY FS_Subset
    <3>2. Pick(s) \in s /\ SumOf(term, s) = term[Pick(s)] + SumOf(term, s \ {Pick(s)})
      BY <2>2, <3>1, SumPick
    <3>3. s \ {Pick(s)} \in Good /\ term[Pick(s)] \in Nat
      BY <1>1, <3>2
    <3>4. SumOf(term, s \ {Pick(s)}) \in Nat
      BY <3>3
    <3>5. SumOf(term, s) \in Nat
      BY <3>2, <3>3, <3>4
    <3> QED
      BY <3>5
  <2> QED
    BY <2>1, <2>2
<1>2. \A s \in SUBSET S : s \in Good
  <2> HIDE DEF Good
  <2> QED
    BY <1>1, SubsetInduction
<1>3. S \in Good
  BY <1>2
<1> QED
  BY <1>3

\* Any element may be the first to be counted.
LEMMA SumSplit ==
  ASSUME NEW term, NEW S, IsFiniteSet(S), \A x \in S : term[x] \in Int, NEW e \in S
  PROVE  SumOf(term, S) = term[e] + SumOf(term, S \ {e})
<1> DEFINE Splits(s, x) == SumOf(term, s) = term[x] + SumOf(term, s \ {x})
           Good == {s \in SUBSET S : \A x \in s : Splits(s, x)}
<1>1. \A s \in SUBSET S : IsFiniteSet(s) /\ SumOf(term, s) \in Int
  <2> SUFFICES ASSUME NEW s \in SUBSET S PROVE IsFiniteSet(s) /\ SumOf(term, s) \in Int
    OBVIOUS
  <2>1. IsFiniteSet(s)
    BY FS_Subset
  <2> QED
    BY <2>1, SumInteger
<1>2. ASSUME NEW s \in SUBSET S, \A t \in SUBSET s : t # s => t \in Good
      PROVE  s \in Good
  <2> SUFFICES ASSUME NEW x \in s PROVE Splits(s, x)
    OBVIOUS
  <2> DEFINE y == Pick(s)
             both == (s \ {x}) \ {y}
  <2>1. y \in s /\ SumOf(term, s) = term[y] + SumOf(term, s \ {y})
    BY <1>1, SumPick
  <2> HIDE DEF y
  <2>2. CASE x = y
    BY <2>1, <2>2
  <2>3. CASE x # y
    <3>1. s \ {y} \in Good /\ s \ {x} \in Good /\ x \in s \ {y} /\ y \in s \ {x}
      BY <1>2, <2>1, <2>3
    <3>2. (s \ {y}) \ {x} = both
      OBVIOUS
    <3>3. SumOf(term, s \ {y}) = term[x] + SumOf(term, both)
      BY <3>1, <3>2
    <3>4. SumOf(term, s \ {x}) = term[y] + SumOf(term, both)
      BY <3>1
    <3>5. /\ term[x] \in Int /\ term[y] \in Int /\ SumOf(term, both) \in Int
      BY <1>1, <2>1
    <3> HIDE DEF both
    <3> QED
      BY <2>1, <3>3, <3>4, <3>5
  <2> QED
    BY <2>2, <2>3
<1>3. \A s \in SUBSET S : s \in Good
  <2> HIDE DEF Good
  <2> QED
    BY <1>2, SubsetInduction
<1>4. S \in Good
  BY <1>3
<1> QED
  BY <1>4

\* One more element adds its term.
LEMMA SumAdd ==
  ASSUME NEW term, NEW S, IsFiniteSet(S), NEW e, e \notin S, \A x \in S \cup {e} : term[x] \in Int
  PROVE  SumOf(term, S \cup {e}) = term[e] + SumOf(term, S)
<1>1. IsFiniteSet(S \cup {e}) /\ (S \cup {e}) \ {e} = S
  BY FS_AddElement
<1> QED
  BY <1>1, SumSplit

\* Two sets without a common element add up.
LEMMA SumUnion ==
  ASSUME NEW term, NEW S, NEW T, IsFiniteSet(S), IsFiniteSet(T), S \cap T = {},
         \A x \in S \cup T : term[x] \in Int
  PROVE  SumOf(term, S \cup T) = SumOf(term, S) + SumOf(term, T)
<1> DEFINE Good == {s \in SUBSET S : SumOf(term, s \cup T) = SumOf(term, s) + SumOf(term, T)}
<1>1. SumOf(term, T) \in Int
  BY SumInteger
<1>2. ASSUME NEW s \in SUBSET S, \A t \in SUBSET s : t # s => t \in Good
      PROVE  s \in Good
  <2>1. IsFiniteSet(s) /\ IsFiniteSet(s \cup T)
    BY FS_Subset, FS_Union
  <2>2. CASE s = {}
    <3>1. SumOf(term, s) = 0 /\ s \cup T = T
      BY <2>2, SumEmpty
    <3> QED
      BY <1>1, <3>1
  <2>3. CASE s # {}
    <3> DEFINE x == Pick(s)
               rest == s \ {x}
    <3>1. x \in s /\ SumOf(term, s) = term[x] + SumOf(term, rest)
      BY <2>1, <2>3, SumPick
    <3> HIDE DEF x
    <3>2. SumOf(term, s \cup T) = term[x] + SumOf(term, (s \cup T) \ {x})
      BY <2>1, <3>1, SumSplit
    <3>3. (s \cup T) \ {x} = rest \cup T
      BY <3>1
    <3>4. rest \in Good
      BY <1>2, <3>1
    <3>5. SumOf(term, rest \cup T) = SumOf(term, rest) + SumOf(term, T)
      BY <3>4
    <3>6. IsFiniteSet(rest) /\ \A y \in rest : term[y] \in Int
      BY <2>1, FS_RemoveElement
    <3> HIDE DEF rest
    <3>7. SumOf(term, rest) \in Int /\ term[x] \in Int
      BY <3>1, <3>6, SumInteger
    <3>8. SumOf(term, (s \cup T) \ {x}) = SumOf(term, rest \cup T)
      BY <3>3, Zenon
    <3>9. SumOf(term, s \cup T) = SumOf(term, s) + SumOf(term, T)
      BY <1>1, <3>1, <3>2, <3>5, <3>7, <3>8
    <3> QED
      BY <3>9
  <2> QED
    BY <2>2, <2>3
<1>3. \A s \in SUBSET S : s \in Good
  <2> HIDE DEF Good
  <2> QED
    BY <1>2, SubsetInduction
<1>4. S \in Good
  BY <1>3
<1> QED
  BY <1>4

\* A sum of naturals is no less than the sum of a part of it, nor than one of its terms.
LEMMA SumMonotone ==
  ASSUME NEW term, NEW S, NEW T, IsFiniteSet(T), S \subseteq T, \A x \in T : term[x] \in Nat
  PROVE  SumOf(term, S) <= SumOf(term, T)
<1> DEFINE rest == T \ S
<1>1. IsFiniteSet(S) /\ IsFiniteSet(rest) /\ S \cap rest = {} /\ S \cup rest = T
  BY FS_Subset
<1>2. \A x \in S \cup rest : term[x] \in Int
  BY <1>1
<1>3. SumOf(term, S) \in Nat /\ SumOf(term, rest) \in Nat
  BY <1>1, SumNatural
<1> HIDE DEF rest
<1>4. SumOf(term, S \cup rest) = SumOf(term, S) + SumOf(term, rest)
  BY <1>1, <1>2, SumUnion
<1>5. SumOf(term, S \cup rest) = SumOf(term, T)
  BY <1>1, Zenon
<1> QED
  BY <1>3, <1>4, <1>5

LEMMA SumAtLeast ==
  ASSUME NEW term, NEW S, IsFiniteSet(S), \A x \in S : term[x] \in Nat, NEW e \in S
  PROVE  term[e] <= SumOf(term, S)
<1>1. IsFiniteSet(S \ {e}) /\ \A x \in S \ {e} : term[x] \in Nat
  BY FS_RemoveElement
<1>2. SumOf(term, S \ {e}) \in Nat
  BY <1>1, SumNatural
<1>3. SumOf(term, S) = term[e] + SumOf(term, S \ {e})
  BY SumSplit
<1> QED
  BY <1>2, <1>3

\* What is summed by parts is summed altogether.
SumsOfParts(total, term, part, I) ==
  /\ \A i \in I : IsFiniteSet(part[i]) /\ total[i] = SumOf(term, part[i])
  /\ \A i \in I : \A x \in part[i] : term[x] \in Int
  /\ \A i, j \in I : i # j => part[i] \cap part[j] = {}

Whole(part, I) == UNION {part[i] : i \in I}

LEMMA SumParts ==
  ASSUME NEW term, NEW I, IsFiniteSet(I), NEW part, NEW total,
         SumsOfParts(total, term, part, I)
  PROVE  SumOf(total, I) = SumOf(term, Whole(part, I))
<1> USE DEF SumsOfParts
<1> DEFINE Good == {J \in SUBSET I : /\ IsFiniteSet(Whole(part, J))
                                     /\ SumOf(total, J) = SumOf(term, Whole(part, J))}
<1>1. ASSUME NEW J \in SUBSET I, \A K \in SUBSET J : K # J => K \in Good
      PROVE  J \in Good
  <2>1. IsFiniteSet(J)
    BY FS_Subset
  <2>2. CASE J = {}
    <3>1. Whole(part, J) = {}
      BY <2>2 DEF Whole
    <3> QED
      BY <2>2, <3>1, SumEmpty, FS_EmptySet
  <2>3. CASE J # {}
    <3> DEFINE x == Pick(J)
               rest == J \ {x}
    <3>1. x \in J /\ SumOf(total, J) = total[x] + SumOf(total, rest)
      BY <2>1, <2>3, SumPick
    <3> HIDE DEF x
    <3>2. rest \in Good
      BY <1>1, <3>1
    <3>3. IsFiniteSet(Whole(part, rest)) /\ SumOf(total, rest) = SumOf(term, Whole(part, rest))
      BY <3>2
    <3>4. Whole(part, J) = part[x] \cup Whole(part, rest)
      BY <3>1 DEF Whole
    <3>5. part[x] \cap Whole(part, rest) = {}
      BY <3>1 DEF Whole
    <3>6. \A y \in part[x] \cup Whole(part, rest) : term[y] \in Int
      BY <3>1 DEF Whole
    <3>7. IsFiniteSet(part[x]) /\ total[x] = SumOf(term, part[x])
      BY <3>1
    <3> HIDE DEF rest
    <3>8. SumOf(term, part[x] \cup Whole(part, rest)) = SumOf(term, part[x]) + SumOf(term, Whole(part, rest))
      BY <3>3, <3>5, <3>6, <3>7, SumUnion
    <3>9. IsFiniteSet(part[x] \cup Whole(part, rest))
      BY <3>3, <3>7, FS_Union
    <3> QED
      BY <3>1, <3>3, <3>4, <3>7, <3>8, <3>9
  <2> QED
    BY <2>2, <2>3
<1>2. \A J \in SUBSET I : J \in Good
  <2> HIDE DEF Good
  <2> QED
    BY <1>1, SubsetInduction
<1>3. I \in Good
  BY <1>2
<1> QED
  BY <1>3

\* Of finitely many numbers one is the greatest.
LEMMA GreatestTerm ==
  ASSUME NEW S, IsFiniteSet(S), S # {}, NEW term, \A x \in S : term[x] \in Int
  PROVE  \E m \in S : \A x \in S : term[x] <= term[m]
<1> DEFINE Good == {s \in SUBSET S : s # {} => \E m \in s : \A x \in s : term[x] <= term[m]}
<1>1. ASSUME NEW s \in SUBSET S, \A t \in SUBSET s : t # s => t \in Good
      PROVE  s \in Good
  <2> SUFFICES ASSUME s # {} PROVE \E m \in s : \A x \in s : term[x] <= term[m]
    OBVIOUS
  <2>1. PICK y \in s : TRUE
    OBVIOUS
  <2>2. s \ {y} \in Good
    BY <1>1
  <2>3. CASE s \ {y} = {}
    <3>1. \A x \in s : x = y
      BY <2>3
    <3> QED
      BY <3>1
  <2>4. CASE s \ {y} # {}
    <3>1. PICK m \in s \ {y} : \A x \in s \ {y} : term[x] <= term[m]
      BY <2>2, <2>4
    <3>2. CASE term[y] <= term[m]
      BY <3>1, <3>2
    <3>3. CASE ~(term[y] <= term[m])
      <4>1. \A x \in s : term[x] <= term[y]
        BY <3>1, <3>3
      <4> QED
        BY <4>1
    <3> QED
      BY <3>2, <3>3
  <2> QED
    BY <2>3, <2>4
<1>2. \A s \in SUBSET S : s \in Good
  <2> HIDE DEF Good
  <2> QED
    BY <1>1, SubsetInduction
<1>3. S \in Good
  BY <1>2
<1> QED
  BY <1>3

\* A term that grows makes the sum grow by as much; it may be a new one.
Grows(term, other, S, e, n) ==
  /\ \A x \in S \cup {e} : term[x] \in Int
  /\ e \notin S => term[e] = 0
  /\ n \in Int /\ other[e] = term[e] + n
  /\ \A x \in S \ {e} : other[x] = term[x]

LEMMA SumGrows ==
  ASSUME NEW term, NEW other, NEW S, IsFiniteSet(S), NEW e, NEW n, Grows(term, other, S, e, n)
  PROVE  SumOf(other, S \cup {e}) = SumOf(term, S) + n
<1> USE DEF Grows
<1> DEFINE rest == S \ {e}
<1>1. IsFiniteSet(rest) /\ e \notin rest /\ rest \cup {e} = S \cup {e}
  BY FS_RemoveElement
<1>2. /\ \A x \in rest : term[x] \in Int /\ other[x] = term[x]
      /\ other[e] \in Int /\ term[e] \in Int
  OBVIOUS
<1>3. SumOf(term, S) = term[e] + SumOf(term, rest)
  <2>1. CASE e \in S
    BY <2>1, SumSplit
  <2>2. CASE e \notin S
    <3>1. rest = S /\ term[e] = 0
      BY <2>2
    <3>2. SumOf(term, S) \in Int
      BY SumInteger
    <3> QED
      BY <3>1, <3>2
  <2> QED
    BY <2>1, <2>2
<1> HIDE DEF rest
<1>4. SumOf(other, rest) = SumOf(term, rest) /\ SumOf(term, rest) \in Int
  BY <1>1, <1>2, SumEqual, SumInteger
<1>5. \A x \in rest \cup {e} : other[x] \in Int
  BY <1>2
<1>6. SumOf(other, rest \cup {e}) = other[e] + SumOf(other, rest)
  BY <1>1, <1>5, SumAdd
<1>7. SumOf(other, rest \cup {e}) = SumOf(other, S \cup {e})
  BY <1>1, Zenon
<1> QED
  BY <1>2, <1>3, <1>4, <1>6, <1>7
=============================================================================
