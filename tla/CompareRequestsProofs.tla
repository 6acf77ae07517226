------------------------- MODULE CompareRequestsProofs -------------------------
(***************************************************************************)
(* Proofs about CompareRequests and the operators of TagProfiles and       *)
(* TrackMatching it is made of.                                            *)
(***************************************************************************)
EXTENDS CompareRequests, FiniteSetTheorems, SequenceTheorems, WellFoundedInduction, TLAPS

-------------------------------------------------------------------------------
(***************************************************************************)
(* Numbers and folds.  The library's induction theorems have a predicate   *)
(* as a parameter, so what is shown by induction is shown of the set of    *)
(* the numbers it holds for.                                               *)
(***************************************************************************)
LEMMA TwoOfInt ==
  ASSUME NEW a \in Int, NEW b \in Int
  PROVE  /\ Max({a, b}) = IF a >= b THEN a ELSE b
         /\ Min({a, b}) = IF a <= b THEN a ELSE b
<1>1. CASE a <= b
  <2>1. (\A y \in {a, b} : b >= y) /\ (\A y \in {a, b} : a <= y) BY <1>1
  <2> QED BY <1>1, <2>1 DEF Max, Min
<1>2. CASE b < a
  <2>1. (\A y \in {a, b} : a >= y) /\ (\A y \in {a, b} : b <= y) BY <1>2
  <2> QED BY <1>2, <2>1 DEF Max, Min
<1> QED BY <1>1, <1>2

LEMMA SmallestOf ==
  ASSUME NEW T, T \subseteq Nat, T # {}
  PROVE  Min(T) \in T /\ \A y \in T : Min(T) <= y
<1>1. \E x \in T : \A y \in T : ~ (<<y, x>> \in OpToRel(<, Nat))
  BY NatLessThanWellFounded, WFMin
<1>2. PICK x \in T : \A y \in T : ~ (<<y, x>> \in OpToRel(<, Nat)) BY <1>1
<1>3. \A y \in T : ~(y < x) BY <1>2 DEF OpToRel
<1>4. \A y \in T : x <= y BY <1>3
<1> QED BY <1>4 DEF Min

\* Induction over a set of numbers.
LEMMA UpFromZero ==
  ASSUME NEW T, 0 \in T, \A n \in Nat : n \in T => n + 1 \in T
  PROVE  Nat \subseteq T
<1> SUFFICES ASSUME Nat \ T # {} PROVE FALSE OBVIOUS
<1> DEFINE n == Min(Nat \ T)
<1>1. n \in Nat \ T /\ \A y \in Nat \ T : n <= y BY SmallestOf
<1> HIDE DEF n
<1>2. n - 1 \in Nat /\ ~(n <= n - 1) BY <1>1
<1>3. n - 1 \in T BY <1>1, <1>2
<1> QED BY <1>1, <1>2, <1>3

\* The function that a fold is defined by exists: pick says which element of a
\* set is taken last, and op what it adds.
CanFold(S, V, base, pick, op) ==
  /\ IsFiniteSet(S) /\ base \in V
  /\ \A T \in SUBSET S : T # {} => pick[T] \in T
  /\ \A x \in S, v \in V : op[<<x, v>>] \in V

IsFold(f, S, V, base, pick, op) ==
  /\ f \in [SUBSET S -> V]
  /\ \A T \in SUBSET S : f[T] = IF T = {} THEN base ELSE op[<<pick[T], f[T \ {pick[T]}]>>]

LEMMA FoldDefined ==
  ASSUME NEW S, NEW V, NEW base, NEW pick, NEW op, CanFold(S, V, base, pick, op)
  PROVE  \E f : IsFold(f, S, V, base, pick, op)
<1> USE DEF CanFold
<1> DEFINE Upto(n)    == {T \in SUBSET S : Cardinality(T) <= n}
           Value(f, T) == IF T = {} THEN base ELSE op[<<pick[T], f[T \ {pick[T]}]>>]
           Good(n, f) == f \in [Upto(n) -> V] /\ \A T \in Upto(n) : f[T] = Value(f, T)
           N == {n \in Nat : \E f : Good(n, f)}
<1>1. \A T \in SUBSET S : IsFiniteSet(T) /\ Cardinality(T) \in Nat
  BY FS_Subset, FS_CardinalityType
<1>2. 0 \in N
  <2> DEFINE f == [T \in Upto(0) |-> base]
  <2>1. \A T \in Upto(0) : T = {} BY <1>1, FS_EmptySet
  <2>2. Good(0, f) BY <2>1
  <2> QED BY <2>2
<1>3. ASSUME NEW n \in Nat, n \in N PROVE n + 1 \in N
  <2>1. PICK f : Good(n, f) BY <1>3
  <2> DEFINE g == [T \in Upto(n + 1) |-> Value(f, T)]
  <2>2. ASSUME NEW T \in Upto(n + 1), T # {}
        PROVE  pick[T] \in S /\ T \ {pick[T]} \in Upto(n)
    <3>1. pick[T] \in T /\ T \in SUBSET S BY <2>2
    <3>2. Cardinality(T \ {pick[T]}) = Cardinality(T) - 1 BY <1>1, <3>1, FS_RemoveElement
    <3> QED BY <1>1, <3>1, <3>2
  <2>3. \A T \in Upto(n + 1) : Value(f, T) \in V BY <2>1, <2>2
  <2>4. \A T \in Upto(n) : T \in Upto(n + 1) /\ g[T] = f[T]
    <3>1. \A T \in Upto(n) : T \in Upto(n + 1) BY <1>1
    <3> QED BY <2>1, <3>1
  <2>5. \A T \in Upto(n + 1) : g[T] = Value(g, T) BY <2>2, <2>4
  <2>6. Good(n + 1, g) BY <2>3, <2>5
  <2> HIDE DEF Good
  <2> QED BY <2>6
<1> HIDE DEF N
<1>4. Cardinality(S) \in N BY <1>1, <1>2, <1>3, UpFromZero
<1> USE DEF N
<1>5. PICK f : Good(Cardinality(S), f) BY <1>4
<1>6. Upto(Cardinality(S)) = SUBSET S BY FS_Subset
<1>7. f \in [SUBSET S -> V] /\ \A T \in SUBSET S : f[T] = Value(f, T) BY <1>5, <1>6
<1> QED BY <1>7 DEF IsFold

LEMMA LargestOf ==
  ASSUME NEW n \in Nat, NEW T, T \subseteq 0..n, T # {}
  PROVE  Max(T) \in T /\ \A y \in T : y <= Max(T)
<1> DEFINE R == {k \in Nat : n - k \in T}
<1>1. PICK t \in T : TRUE OBVIOUS
<1>2. n - t \in R OBVIOUS
<1> DEFINE m == Min(R)
<1>3. m \in R /\ \A k \in R : m <= k BY <1>2, SmallestOf
<1> HIDE DEF m
<1>4. \A y \in T : y \in 0..n /\ m <= n - y
  <2>1. ASSUME NEW y \in T PROVE y \in 0..n /\ n - y \in Nat /\ n - (n - y) = y OBVIOUS
  <2> QED BY <1>3, <2>1
<1>5. n - m \in T /\ \A y \in T : n - m >= y BY <1>3, <1>4
<1> QED BY <1>5 DEF Max

-------------------------------------------------------------------------------
(***************************************************************************)
(* Sorted and Part.                                                        *)
(***************************************************************************)
Ranks(R, S) ==
  /\ \A a \in S : <<a, a>> \notin R
  /\ \A a, b, c \in S : <<a, b>> \in R /\ <<b, c>> \in R => <<a, c>> \in R
  /\ \A a, b \in S : a = b \/ <<a, b>> \in R \/ <<b, a>> \in R

\* In a finite order every place is taken.
LEMMA PlacesTaken ==
  ASSUME NEW S, IsFiniteSet(S), NEW R, Ranks(R, S)
  PROVE  \A k \in 1..Cardinality(S) : \E i \in S : 1 + Cardinality({a \in S : <<a, i>> \in R}) = k
<1> USE DEF Ranks
<1> DEFINE above(i) == {a \in S : <<a, i>> \in R}
           place == [i \in S |-> 1 + Cardinality(above(i))]
           n == Cardinality(S)
<1>1. n \in Nat BY FS_CardinalityType
<1>2. ASSUME NEW i \in S
      PROVE  IsFiniteSet(above(i)) /\ Cardinality(above(i)) \in Nat /\ Cardinality(above(i)) < n
  <2>1. above(i) \in SUBSET S /\ i \notin above(i) OBVIOUS
  <2> HIDE DEF above
  <2>2. IsFiniteSet(above(i)) /\ Cardinality(above(i)) \in Nat /\ Cardinality(above(i)) <= n
        /\ Cardinality(above(i)) # n
    BY <1>1, <2>1, FS_Subset, FS_CardinalityType
  <2> QED BY <1>1, <2>2
<1>3. ASSUME NEW a \in S, NEW b \in S, <<a, b>> \in R
      PROVE  place[a] < place[b]
  <2>1. above(a) \in SUBSET above(b) /\ a \in above(b) /\ a \notin above(a) BY <1>3
  <2>2. IsFiniteSet(above(b)) /\ Cardinality(above(a)) \in Nat /\ Cardinality(above(b)) \in Nat BY <1>2
  <2>3. place[a] = 1 + Cardinality(above(a)) /\ place[b] = 1 + Cardinality(above(b)) OBVIOUS
  <2> HIDE DEF above, place
  <2>4. Cardinality(above(a)) <= Cardinality(above(b)) /\ Cardinality(above(a)) # Cardinality(above(b))
    BY <2>1, <2>2, FS_Subset
  <2> QED BY <2>2, <2>3, <2>4
<1>4. place \in [S -> 1..n]
  <2>1. ASSUME NEW i \in S PROVE 1 + Cardinality(above(i)) \in 1..n
    <3>1. Cardinality(above(i)) \in Nat /\ Cardinality(above(i)) < n BY <1>2
    <3> HIDE DEF above
    <3> QED BY <1>1, <3>1
  <2> QED BY <2>1
<1>5. place \in Injection(S, 1..n)
  <2>1. ASSUME NEW a \in S, NEW b \in S, place[a] = place[b] PROVE a = b
    <3>1. place[a] \in Nat /\ place[b] \in Nat BY <1>1, <1>4
    <3> HIDE DEF place
    <3>2. <<a, b>> \notin R /\ <<b, a>> \notin R BY <1>3, <2>1, <3>1
    <3> QED BY <3>2
  <2> HIDE DEF place
  <2> QED BY <1>4, <2>1 DEF Injection, IsInjective
<1>6. place \in Surjection(S, 1..n)
  <2>1. IsFiniteSet(1..n) /\ Cardinality(1..n) = n BY <1>1, FS_Interval
  <2> HIDE DEF place
  <2> QED BY <1>5, <2>1, FS_Injection
<1>7. \A k \in 1..n : \E i \in S : place[i] = k BY <1>6 DEF Surjection
<1> QED BY <1>7


\* Sorting gives each element its place, once.
IsSorting(s, S, R) ==
  /\ s \in [1..Cardinality(S) -> S] /\ Cardinality(S) \in Nat
  /\ \A x \in S : \E k \in 1..Cardinality(S) : s[k] = x
  /\ \A k, l \in 1..Cardinality(S) : s[k] = s[l] => k = l
  /\ \A k \in 1..Cardinality(S) : 1 + Cardinality({y \in S : <<y, s[k]>> \in R}) = k

LEMMA SortedSorts ==
  ASSUME NEW S, IsFiniteSet(S), NEW R, Ranks(R, S)
  PROVE  IsSorting(Sorted(S, R), S, R)
<1> DEFINE n == Cardinality(S)
           place(x) == 1 + Cardinality({y \in S : <<y, x>> \in R})
           s == Sorted(S, R)
<1>1. n \in Nat BY FS_CardinalityType
<1>2. s = [k \in 1..n |-> CHOOSE x \in S : place(x) = k] BY DEF Sorted
<1>3. \A k \in 1..n : \E x \in S : place(x) = k BY PlacesTaken
<1> HIDE DEF n, place, s
<1>4. \A k \in 1..n : s[k] \in S /\ place(s[k]) = k BY <1>2, <1>3
<1>5. s \in [1..n -> S] BY <1>2, <1>4
<1>6. \A x \in S : place(x) \in 1..n
  <2>1. ASSUME NEW x \in S PROVE place(x) \in 1..n
    <3> DEFINE A == {y \in S : <<y, x>> \in R}
    <3>1. A \in SUBSET S /\ x \notin A BY DEF Ranks
    <3>2. place(x) = 1 + Cardinality(A) BY DEF place
    <3> HIDE DEF A
    <3>3. Cardinality(A) \in Nat /\ Cardinality(A) <= n /\ Cardinality(A) # n
      BY <1>1, <3>1, FS_Subset, FS_CardinalityType DEF n
    <3> QED BY <1>1, <3>2, <3>3
  <2> QED BY <2>1
<1>7. \A x, y \in S : place(x) = place(y) => x = y
  <2>1. ASSUME NEW x \in S, NEW y \in S, <<x, y>> \in R PROVE place(x) # place(y)
    <3> DEFINE A == {z \in S : <<z, x>> \in R}
               B == {z \in S : <<z, y>> \in R}
    <3>1. A \in SUBSET B /\ x \in B /\ x \notin A /\ B \in SUBSET S BY <2>1 DEF Ranks
    <3>2. place(x) = 1 + Cardinality(A) /\ place(y) = 1 + Cardinality(B) BY DEF place
    <3> HIDE DEF A, B
    <3>3. Cardinality(A) \in Nat /\ Cardinality(B) \in Nat /\ Cardinality(A) # Cardinality(B)
      BY <3>1, FS_Subset, FS_CardinalityType
    <3> QED BY <3>2, <3>3
  <2> QED BY <2>1 DEF Ranks
<1>8. \A x \in S : \E k \in 1..n : s[k] = x
  <2>1. ASSUME NEW x \in S PROVE s[place(x)] = x BY <1>4, <1>6, <1>7
  <2> QED BY <1>6, <2>1
<1>9. \A k, l \in 1..n : s[k] = s[l] => k = l BY <1>4
<1>10. \A k \in 1..n : 1 + Cardinality({y \in S : <<y, s[k]>> \in R}) = k BY <1>4 DEF place
<1> QED BY <1>1, <1>5, <1>8, <1>9, <1>10 DEF IsSorting, n, s

\* What is kept of a sequence.
IsPart(t, seq, D) ==
  /\ Cardinality(D) \in Nat /\ DOMAIN t = 1..Cardinality(D) /\ t = [k \in 1..Cardinality(D) |-> t[k]]
  /\ \A k \in DOMAIN t : \E i \in D : t[k] = seq[i]
  /\ \A i \in D : \E k \in DOMAIN t : t[k] = seq[i]
  /\ (\A i, j \in D : seq[i] = seq[j] => i = j) => \A k, l \in DOMAIN t : t[k] = t[l] => k = l

LEMMA PartKeeps ==
  ASSUME NEW seq, NEW n \in Nat, NEW D \in SUBSET (1..n)
  PROVE  IsPart(Part(seq, D), seq, D) /\ IsFiniteSet(D)
<1> DEFINE R == {p \in D \X D : p[1] < p[2]}
           s == Sorted(D, R)
           c == Cardinality(D)
           t == Part(seq, D)
<1>1. IsFiniteSet(D)
  <2>1. IsFiniteSet(1..n) BY FS_Interval
  <2> QED BY <2>1, FS_Subset
<1>2. Ranks(R, D)
  <2>1. \A a, b \in D : <<a, b>> \in R <=> a < b OBVIOUS
  <2>2. \A a \in D : a \in Nat OBVIOUS
  <2> HIDE DEF R
  <2> QED BY <2>1, <2>2 DEF Ranks
<1>3. IsSorting(s, D, R) BY <1>1, <1>2, SortedSorts
<1>4. t = [k \in 1..c |-> seq[s[k]]] BY DEF Part
<1> HIDE DEF s, c, t
<1>5. /\ c \in Nat /\ \A k \in 1..c : s[k] \in D
      /\ \A x \in D : \E k \in 1..c : s[k] = x
      /\ \A k, l \in 1..c : s[k] = s[l] => k = l
  BY <1>3 DEF IsSorting, c
<1>6. DOMAIN t = 1..c /\ \A k \in 1..c : t[k] = seq[s[k]] BY <1>4
<1>7. \A k \in DOMAIN t : \E i \in D : t[k] = seq[i] BY <1>5, <1>6
<1>8. \A i \in D : \E k \in DOMAIN t : t[k] = seq[i] BY <1>5, <1>6
<1>9. ASSUME \A i, j \in D : seq[i] = seq[j] => i = j, NEW k \in DOMAIN t, NEW l \in DOMAIN t, t[k] = t[l]
      PROVE  k = l
  <2>1. k \in 1..c /\ l \in 1..c /\ seq[s[k]] = seq[s[l]] BY <1>6, <1>9
  <2>2. s[k] = s[l] BY <1>5, <1>9, <2>1
  <2> QED BY <1>5, <2>1, <2>2
<1>10. t = [k \in 1..c |-> t[k]] BY <1>4
<1> QED BY <1>1, <1>5, <1>6, <1>7, <1>8, <1>9, <1>10 DEF IsPart, c, t

\* The values of a function on a finite set.
LEMMA Images ==
  ASSUME NEW S, IsFiniteSet(S), NEW f
  PROVE  /\ IsFiniteSet({f[x] : x \in S}) /\ Cardinality({f[x] : x \in S}) \in Nat
         /\ (\A x, y \in S : f[x] = f[y] => x = y) => Cardinality({f[x] : x \in S}) = Cardinality(S)
<1> DEFINE T == {f[x] : x \in S}
           g == [x \in S |-> f[x]]
<1>1. g \in Surjection(S, T)
  <2>1. g \in [S -> T] OBVIOUS
  <2>2. \A t \in T : \E x \in S : g[x] = t OBVIOUS
  <2> QED BY <2>1, <2>2 DEF Surjection
<1>2. IsFiniteSet(T) /\ (Cardinality(T) = Cardinality(S) <=> g \in Injection(S, T)) BY <1>1, FS_Surjection
<1>3. Cardinality(T) \in Nat BY <1>2, FS_CardinalityType
<1>4. ASSUME \A x, y \in S : f[x] = f[y] => x = y PROVE g \in Injection(S, T)
  <2>1. IsInjective(g) BY <1>4 DEF IsInjective
  <2>2. g \in [S -> T] OBVIOUS
  <2> QED BY <2>1, <2>2 DEF Injection
<1> QED BY <1>2, <1>3, <1>4

-------------------------------------------------------------------------------
(***************************************************************************)
(* Names: what the tags of a list normalise to.                            *)
(***************************************************************************)
LEMMA FirstUsesOf ==
  ASSUME NEW n \in Nat, NEW seq, DOMAIN seq = 1..n
  PROVE  /\ FirstUses(seq) \in SUBSET (1..n)
         /\ \A i \in 1..n : \E k \in FirstUses(seq) : seq[k] = seq[i]
         /\ \A i, k \in FirstUses(seq) : seq[i] = seq[k] => i = k
<1>1. FirstUses(seq) \in SUBSET (1..n) BY DEF FirstUses
<1>2. ASSUME NEW i \in 1..n PROVE \E k \in FirstUses(seq) : seq[k] = seq[i]
  <2> DEFINE U == {k \in 1..n : seq[k] = seq[i]}
             m == Min(U)
  <2>1. U \subseteq Nat /\ U # {} OBVIOUS
  <2>2. m \in U /\ \A k \in U : m <= k BY <2>1, SmallestOf
  <2> HIDE DEF m
  <2>3. \A k \in 1..(m - 1) : seq[k] # seq[m]
    <3>1. ASSUME NEW k \in 1..(m - 1), seq[k] = seq[m] PROVE FALSE
      <4>1. k \in 1..n /\ k < m BY <2>2
      <4>2. k \in U BY <2>2, <3>1, <4>1
      <4> QED BY <2>2, <4>1, <4>2
    <3> QED BY <3>1
  <2>4. m \in FirstUses(seq) /\ seq[m] = seq[i] BY <2>2, <2>3 DEF FirstUses
  <2> QED BY <2>4
<1>3. ASSUME NEW i \in FirstUses(seq), NEW k \in FirstUses(seq), seq[i] = seq[k] PROVE i = k
  <2>1. i \in 1..n /\ k \in 1..n BY <1>1
  <2>2. ~(i < k) /\ ~(k < i)
    <3>1. i < k => i \in 1..(k - 1) BY <2>1
    <3>2. k < i => k \in 1..(i - 1) BY <2>1
    <3> QED BY <1>3, <3>1, <3>2 DEF FirstUses
  <2> QED BY <2>1, <2>2
<1> QED BY <1>1, <1>2, <1>3

LEMMA DistinctIs ==
  ASSUME NEW n \in Nat, NEW seq, DOMAIN seq = 1..n
  PROVE  Range(Distinct(seq)) = Range(seq)
<1> DEFINE D == FirstUses(seq)
           t == Part(seq, D)
<1>1. /\ D \in SUBSET (1..n) /\ \A i \in 1..n : \E k \in D : seq[k] = seq[i] BY FirstUsesOf
<1> HIDE DEF D
<1>2. IsPart(t, seq, D) BY <1>1, PartKeeps
<1> HIDE DEF t
<1>3. \A k \in DOMAIN t : \E i \in D : t[k] = seq[i] BY <1>2 DEF IsPart
<1>4. \A i \in D : \E k \in DOMAIN t : t[k] = seq[i] BY <1>2 DEF IsPart
<1>5. Range(t) = Range(seq)
  <2>1. ASSUME NEW x \in Range(t) PROVE x \in Range(seq)
    <3>1. PICK k \in DOMAIN t : x = t[k] BY <2>1 DEF Range
    <3>2. PICK i \in D : t[k] = seq[i] BY <1>3
    <3> QED BY <1>1, <3>1, <3>2 DEF Range
  <2>2. ASSUME NEW x \in Range(seq) PROVE x \in Range(t)
    <3>1. PICK i \in 1..n : x = seq[i] BY <2>2 DEF Range
    <3>2. PICK k \in D : seq[k] = seq[i] BY <1>1
    <3> QED BY <1>4, <3>1, <3>2 DEF Range
  <2> QED BY <2>1, <2>2
<1> QED BY <1>5 DEF Distinct, t, D

Names(tags) == {Normalize(tags[i].name) : i \in DOMAIN tags} \ {""}

LEMMA NamesOf ==
  ASSUME NEW n \in Nat, NEW tags, DOMAIN tags = 1..n
  PROVE  /\ Range(NormalizeAll(TagNames(tags))) = Names(tags)
         /\ Usable(tags) = Cardinality(Names(tags))
         /\ IsFiniteSet(Names(tags)) /\ Usable(tags) \in Nat
         /\ Usable(tags) = 0 <=> Names(tags) = {}
<1> DEFINE names == TagNames(tags)
           all == [i \in DOMAIN names |-> Normalize(names[i])]
           F == FirstUses(all)
           D == {i \in F : all[i] # ""}
           t == Part(all, D)
           c == Cardinality(D)
<1>1. NormalizeAll(names) = t BY DEF NormalizeAll
<1>2. DOMAIN all = 1..n /\ \A i \in 1..n : all[i] = Normalize(tags[i].name) BY DEF TagNames
<1> HIDE DEF all, names
<1>3. /\ F \in SUBSET (1..n) /\ \A i \in 1..n : \E k \in F : all[k] = all[i]
      /\ \A i, k \in F : all[i] = all[k] => i = k
  BY <1>2, FirstUsesOf
<1> HIDE DEF F
<1>4. D \in SUBSET (1..n) BY <1>3
<1>5. Names(tags) = {all[i] : i \in D}
  <2>1. ASSUME NEW x \in Names(tags) PROVE x \in {all[i] : i \in D}
    <3>1. PICK i \in 1..n : x = Normalize(tags[i].name) /\ x # "" BY <2>1 DEF Names
    <3>2. PICK k \in F : all[k] = all[i] BY <1>3
    <3>3. x = all[k] /\ k \in D BY <1>2, <3>1, <3>2
    <3> QED BY <3>3
  <2>2. ASSUME NEW i \in D PROVE all[i] \in Names(tags)
    <3>1. i \in 1..n /\ all[i] # "" /\ all[i] = Normalize(tags[i].name) BY <1>2, <1>3
    <3> QED BY <3>1 DEF Names
  <2> QED BY <2>1, <2>2
<1>6. \A i, k \in D : all[i] = all[k] => i = k BY <1>3
<1> HIDE DEF D
<1>7. IsPart(t, all, D) /\ IsFiniteSet(D) BY <1>4, PartKeeps
<1> HIDE DEF t
<1>8. Range(t) = {all[i] : i \in D}
  <2>1. (\A k \in DOMAIN t : \E i \in D : t[k] = all[i]) /\ (\A i \in D : \E k \in DOMAIN t : t[k] = all[i])
    BY <1>7 DEF IsPart
  <2> QED BY <2>1 DEF Range
<1>9. Cardinality({all[i] : i \in D}) = c /\ IsFiniteSet({all[i] : i \in D}) BY <1>6, <1>7, Images
<1>10. Len(t) = c /\ c \in Nat
  <2>1. c \in Nat /\ DOMAIN t = 1..c /\ t = [k \in 1..c |-> t[k]] BY <1>7 DEF IsPart, c
  <2> HIDE DEF c
  <2>2. t \in Seq({t[k] : k \in 1..c}) BY <2>1
  <2> QED BY <2>1, <2>2, LenProperties
<1>11. Usable(tags) = Len(t) BY <1>1 DEF Usable, names
<1>12. Range(NormalizeAll(TagNames(tags))) = Names(tags) BY <1>1, <1>5, <1>8 DEF names
<1>13. Usable(tags) = Cardinality(Names(tags)) /\ IsFiniteSet(Names(tags)) /\ Usable(tags) \in Nat
  BY <1>5, <1>9, <1>10, <1>11
<1> QED BY <1>12, <1>13, FS_EmptySet

-------------------------------------------------------------------------------
(***************************************************************************)
(* Sums over finite sets.                                                  *)
(***************************************************************************)
Chosen(T) == CHOOSE x \in T : TRUE

\* Induction over the subsets of a finite set.
LEMMA OneByOne ==
  ASSUME NEW S, IsFiniteSet(S), NEW G, {} \in G,
         \A T \in SUBSET S : T # {} /\ T \ {Chosen(T)} \in G => T \in G
  PROVE  \A T \in SUBSET S : T \in G
<1> DEFINE N == {n \in Nat : \A T \in SUBSET S : Cardinality(T) = n => T \in G}
<1>1. \A T \in SUBSET S : IsFiniteSet(T) /\ Cardinality(T) \in Nat BY FS_Subset, FS_CardinalityType
<1>2. 0 \in N
  <2>1. \A T \in SUBSET S : Cardinality(T) = 0 => T = {} BY <1>1, FS_EmptySet
  <2> QED BY <2>1
<1>3. ASSUME NEW n \in Nat, n \in N PROVE n + 1 \in N
  <2>1. ASSUME NEW T \in SUBSET S, Cardinality(T) = n + 1 PROVE T \in G
    <3>1. T # {} BY <2>1, FS_EmptySet
    <3>2. Chosen(T) \in T BY <3>1 DEF Chosen
    <3>3. Cardinality(T \ {Chosen(T)}) = n BY <1>1, <2>1, <3>2, FS_RemoveElement
    <3>4. T \ {Chosen(T)} \in SUBSET S OBVIOUS
    <3> QED BY <1>3, <3>1, <3>3, <3>4
  <2> QED BY <2>1
<1> HIDE DEF N
<1>4. \A n \in Nat : n \in N BY <1>2, <1>3, UpFromZero
<1> QED BY <1>1, <1>4 DEF N

\* The largest of a finite set of integers.
LEMMA FiniteMax ==
  ASSUME NEW S, IsFiniteSet(S), S \subseteq Int, S # {}
  PROVE  Max(S) \in S /\ \A y \in S : y <= Max(S)
<1> DEFINE G == {T \in SUBSET S : T = {} \/ \E m \in T : \A y \in T : y <= m}
<1>1. {} \in G OBVIOUS
<1>2. ASSUME NEW T \in SUBSET S, T # {}, T \ {Chosen(T)} \in G PROVE T \in G
  <2> DEFINE c == Chosen(T)
             U == T \ {c}
  <2>1. c \in T /\ c \in Int BY <1>2 DEF Chosen
  <2> HIDE DEF c
  <2>2. \E m \in T : \A y \in T : y <= m
    <3>1. CASE U = {} BY <2>1, <3>1
    <3>2. CASE U # {}
      <4>1. PICK m \in U : \A y \in U : y <= m BY <1>2, <3>2 DEF c
      <4>2. m \in Int /\ m \in T BY <4>1
      <4>3. CASE c <= m BY <2>1, <4>1, <4>2, <4>3
      <4>4. CASE m < c
        <5>1. \A y \in T : y <= c BY <2>1, <4>1, <4>2, <4>4
        <5> QED BY <2>1, <5>1
      <4> QED BY <2>1, <4>2, <4>3, <4>4
    <3> QED BY <3>1, <3>2
  <2> QED BY <2>2
<1>3. S \in G
  <2> HIDE DEF G
  <2>1. \A T \in SUBSET S : T \in G BY <1>1, <1>2, OneByOne
  <2> QED BY <2>1
<1>4. \E m \in S : \A y \in S : m >= y BY <1>3
<1> QED BY <1>4 DEF Max

IsSum(f, w, S) ==
  /\ f \in [SUBSET S -> Int] /\ f[{}] = 0
  /\ \A T \in SUBSET S : T # {} => Chosen(T) \in T /\ f[T] = w[Chosen(T)] + f[T \ {Chosen(T)}]

LEMMA SumIs ==
  ASSUME NEW S, IsFiniteSet(S), NEW w \in [S -> Int]
  PROVE  \E f : IsSum(f, w, S) /\ Sum(w) = f[S]
<1> DEFINE pick == [T \in SUBSET S |-> Chosen(T)]
           op == [p \in S \X Int |-> w[p[1]] + p[2]]
           it == CHOOSE iter : iter = [s \in SUBSET S |->
                   IF s = {} THEN 0
                   ELSE w[CHOOSE x \in s : TRUE] + iter[s \ {CHOOSE x \in s : TRUE}]]
<1>1. Sum(w) = it[S] BY DEF Sum, MapThenSumSet, MapThenFoldSet
<1>2. \A T \in SUBSET S : T # {} => Chosen(T) \in T BY DEF Chosen
<1>3. CanFold(S, Int, 0, pick, op)
  <2>1. \A T \in SUBSET S : T # {} => pick[T] \in T BY <1>2
  <2>2. \A x \in S, v \in Int : op[<<x, v>>] \in Int OBVIOUS
  <2> HIDE DEF pick, op
  <2> QED BY <2>1, <2>2 DEF CanFold
<1>4. PICK f : IsFold(f, S, Int, 0, pick, op)
  <2> HIDE DEF pick, op
  <2> QED BY <1>3, FoldDefined
<1>5. f \in [SUBSET S -> Int] /\ f[{}] = 0 BY <1>4 DEF IsFold
<1>6. ASSUME NEW T \in SUBSET S, T # {}
      PROVE  Chosen(T) \in T /\ f[T] = w[Chosen(T)] + f[T \ {Chosen(T)}]
  <2>1. pick[T] = Chosen(T) /\ Chosen(T) \in S /\ f[T \ {Chosen(T)}] \in Int BY <1>2, <1>5, <1>6
  <2>2. f[T] = op[<<Chosen(T), f[T \ {Chosen(T)}]>>]
    <3> HIDE DEF op
    <3> QED BY <1>4, <1>6, <2>1 DEF IsFold
  <2> QED BY <1>2, <1>6, <2>1, <2>2
<1>7. f = [s \in SUBSET S |->
             IF s = {} THEN 0 ELSE w[CHOOSE x \in s : TRUE] + f[s \ {CHOOSE x \in s : TRUE}]]
  <2>1. \A T \in SUBSET S :
          f[T] = IF T = {} THEN 0 ELSE w[CHOOSE x \in T : TRUE] + f[T \ {CHOOSE x \in T : TRUE}]
    BY <1>5, <1>6 DEF Chosen
  <2> QED BY <1>5, <2>1
<1>8. it = [s \in SUBSET S |->
              IF s = {} THEN 0 ELSE w[CHOOSE x \in s : TRUE] + it[s \ {CHOOSE x \in s : TRUE}]]
  BY <1>7
<1> HIDE DEF it
<1>9. \A T \in SUBSET S : it[T] = f[T]
  <2> DEFINE G == {T \in SUBSET S : it[T] = f[T]}
  <2>1. {} \in G BY <1>5, <1>8
  <2>2. ASSUME NEW T \in SUBSET S, T # {}, T \ {Chosen(T)} \in G PROVE T \in G
    <3>1. it[T] = w[Chosen(T)] + it[T \ {Chosen(T)}] BY <1>8, <2>2 DEF Chosen
    <3>2. f[T] = w[Chosen(T)] + f[T \ {Chosen(T)}] BY <1>6, <2>2
    <3> QED BY <2>2, <3>1, <3>2
  <2> HIDE DEF G
  <2>3. \A T \in SUBSET S : T \in G BY <2>1, <2>2, OneByOne
  <2> QED BY <2>3 DEF G
<1>10. Sum(w) = f[S] BY <1>1, <1>9
<1>11. IsSum(f, w, S) BY <1>5, <1>6 DEF IsSum
<1> QED BY <1>10, <1>11

LEMMA SumTyped ==
  ASSUME NEW S, IsFiniteSet(S), NEW w \in [S -> Int]
  PROVE  Sum(w) \in Int
<1>1. PICK f : IsSum(f, w, S) /\ Sum(w) = f[S] BY SumIs
<1> QED BY <1>1 DEF IsSum

LEMMA SumMonotone ==
  ASSUME NEW S, IsFiniteSet(S), NEW w \in [S -> Int], NEW v \in [S -> Int], \A x \in S : w[x] <= v[x]
  PROVE  Sum(w) <= Sum(v)
<1>1. PICK f : IsSum(f, w, S) /\ Sum(w) = f[S] BY SumIs
<1>2. PICK g : IsSum(g, v, S) /\ Sum(v) = g[S] BY SumIs
<1> DEFINE G == {T \in SUBSET S : f[T] <= g[T]}
<1>3. {} \in G BY <1>1, <1>2 DEF IsSum
<1>4. ASSUME NEW T \in SUBSET S, T # {}, T \ {Chosen(T)} \in G PROVE T \in G
  <2> DEFINE c == Chosen(T)
             U == T \ {c}
  <2>1. c \in S /\ f[T] = w[c] + f[U] /\ g[T] = v[c] + g[U] BY <1>1, <1>2, <1>4 DEF IsSum
  <2>2. U \in SUBSET S /\ f[U] \in Int /\ g[U] \in Int /\ f[U] <= g[U] BY <1>1, <1>2, <1>4 DEF IsSum
  <2>3. w[c] \in Int /\ v[c] \in Int /\ w[c] <= v[c] BY <2>1
  <2> HIDE DEF c, U
  <2>4. f[T] <= g[T] BY <2>1, <2>2, <2>3
  <2> QED BY <2>4
<1> HIDE DEF G
<1>5. S \in G BY <1>3, <1>4, OneByOne
<1> QED BY <1>1, <1>2, <1>5 DEF G

LEMMA SumTimes ==
  ASSUME NEW S, IsFiniteSet(S), NEW w \in [S -> Int], NEW v \in [S -> Int], NEW m \in Int,
         \A x \in S : v[x] = m * w[x]
  PROVE  Sum(v) = m * Sum(w)
<1>1. PICK f : IsSum(f, w, S) /\ Sum(w) = f[S] BY SumIs
<1>2. PICK g : IsSum(g, v, S) /\ Sum(v) = g[S] BY SumIs
<1> DEFINE G == {T \in SUBSET S : g[T] = m * f[T]}
<1>3. {} \in G BY <1>1, <1>2 DEF IsSum
<1>4. ASSUME NEW T \in SUBSET S, T # {}, T \ {Chosen(T)} \in G PROVE T \in G
  <2> DEFINE c == Chosen(T)
             U == T \ {c}
  <2>1. c \in S /\ f[T] = w[c] + f[U] /\ g[T] = v[c] + g[U] BY <1>1, <1>2, <1>4 DEF IsSum
  <2>2. U \in SUBSET S /\ f[U] \in Int /\ g[U] = m * f[U] BY <1>1, <1>4 DEF IsSum
  <2>3. w[c] \in Int /\ v[c] = m * w[c] BY <2>1
  <2> HIDE DEF c, U
  <2>4. g[T] = m * f[T] BY <2>1, <2>2, <2>3
  <2> QED BY <2>4
<1> HIDE DEF G
<1>5. S \in G BY <1>3, <1>4, OneByOne
<1> QED BY <1>1, <1>2, <1>5 DEF G

LEMMA SumOfNone ==
  ASSUME NEW S, IsFiniteSet(S), NEW w \in [S -> Int], \A x \in S : w[x] >= 0
  PROVE  Sum(w) >= 0 /\ (Sum(w) = 0 <=> \A x \in S : w[x] = 0)
<1>1. PICK f : IsSum(f, w, S) /\ Sum(w) = f[S] BY SumIs
<1> DEFINE G == {T \in SUBSET S : f[T] >= 0 /\ (f[T] = 0 <=> \A x \in T : w[x] = 0)}
<1>2. {} \in G BY <1>1 DEF IsSum
<1>3. ASSUME NEW T \in SUBSET S, T # {}, T \ {Chosen(T)} \in G PROVE T \in G
  <2> DEFINE c == Chosen(T)
             U == T \ {c}
  <2>1. c \in T /\ f[T] = w[c] + f[U] BY <1>1, <1>3 DEF IsSum
  <2>2. f[U] \in Int /\ f[U] >= 0 /\ (f[U] = 0 <=> \A x \in U : w[x] = 0) BY <1>1, <1>3 DEF IsSum
  <2>3. w[c] \in Int /\ w[c] >= 0 BY <2>1
  <2>4. (\A x \in T : w[x] = 0) <=> w[c] = 0 /\ \A x \in U : w[x] = 0 BY <2>1
  <2> HIDE DEF c, U
  <2>5. f[T] >= 0 /\ (f[T] = 0 <=> w[c] = 0 /\ f[U] = 0) BY <2>1, <2>2, <2>3
  <2> QED BY <2>2, <2>4, <2>5
<1> HIDE DEF G
<1>4. S \in G BY <1>2, <1>3, OneByOne
<1> QED BY <1>1, <1>4 DEF G

-------------------------------------------------------------------------------
(***************************************************************************)
(* Merging, summing and sorting tags.                                      *)
(***************************************************************************)
TagLists == Seq([name : DOMAIN Place, count : Int])

LEMMA SortTagsTyped ==
  ASSUME NEW N \in SUBSET DOMAIN Place, IsFiniteSet(N), NEW counts \in [N -> Int]
  PROVE  SortTags(counts) \in TagLists
<1> DEFINE tag == [n \in N |-> [name |-> n, count |-> counts[n]]]
           tags == {tag[n] : n \in N}
           stronger(s, t) == s.count > t.count \/ (s.count = t.count /\ Place[s.name] < Place[t.name])
           R == {p \in tags \X tags : stronger(p[1], p[2])}
           V == [name : DOMAIN Place, count : Int]
<1>1. SortTags(counts) = Sorted(tags, R)
  <2>1. tags = {[name |-> n, count |-> counts[n]] : n \in DOMAIN counts} OBVIOUS
  <2> QED BY <2>1 DEF SortTags
<1>2. IsFiniteSet(tags) BY Images
<1>3. \A t \in tags : t \in V /\ t.name \in N /\ t.count = counts[t.name] /\ t = tag[t.name] OBVIOUS
<1>4. \A t \in tags : Place[t.name] \in Int /\ t.count \in Int BY <1>3, MatchingAssumption
<1> HIDE DEF tags, tag, V
<1>5. Ranks(R, tags)
  <2>1. \A a, b \in tags : <<a, b>> \in R <=> stronger(a, b) OBVIOUS
  <2>2. ASSUME NEW a \in tags, NEW b \in tags PROVE a = b \/ stronger(a, b) \/ stronger(b, a)
    <3>1. CASE a.name = b.name BY <1>3, <3>1
    <3>2. CASE a.name # b.name
      <4>1. Place[a.name] # Place[b.name] BY <1>3, <3>2, MatchingAssumption
      <4> QED BY <1>4, <4>1
    <3> QED BY <3>1, <3>2
  <2>3. \A a \in tags : ~stronger(a, a) BY <1>4
  <2>4. \A a, b, c \in tags : stronger(a, b) /\ stronger(b, c) => stronger(a, c) BY <1>4
  <2> HIDE DEF R, stronger
  <2> QED BY <2>1, <2>2, <2>3, <2>4 DEF Ranks
<1>6. IsSorting(Sorted(tags, R), tags, R) BY <1>2, <1>5, SortedSorts
<1>7. Sorted(tags, R) \in [1..Cardinality(tags) -> V] /\ Cardinality(tags) \in Nat
  BY <1>3, <1>6 DEF IsSorting
<1> DEFINE s == Sorted(tags, R)
           c == Cardinality(tags)
<1> HIDE DEF R, s, c
<1>8. s \in Seq(V) BY <1>7 DEF s, c
<1> QED BY <1>1, <1>8 DEF TagLists, V, s

LEMMA MergeTagsTyped ==
  ASSUME NEW tags \in TagEntries, NEW genres \in TagEntries
  PROVE  /\ DOMAIN MergeTags(tags, genres) \in SUBSET DOMAIN Place
         /\ IsFiniteSet(DOMAIN MergeTags(tags, genres))
         /\ MergeTags(tags, genres) \in [DOMAIN MergeTags(tags, genres) -> Int]
<1> DEFINE V == [name : DOMAIN Lower, count : Int]
           all == tags \o genres
           lowered == [e \in V |-> Lower[e.name]]
           counted == [e \in V |-> e.count]
           entries == {e \in Range(all) : Lower[e.name] # ""}
           names == {Lower[e.name] : e \in entries}
           m == [n \in names |-> Max({e.count : e \in {f \in entries : Lower[f.name] = n}})]
<1>1. MergeTags(tags, genres) = m BY DEF MergeTags
<1>2. Range(all) \subseteq V /\ IsFiniteSet(Range(all))
  <2>1. all \in Seq(V) BY ConcatProperties DEF TagEntries
  <2> HIDE DEF all
  <2>2. Len(all) \in Nat /\ DOMAIN all = 1..Len(all) /\ \A i \in DOMAIN all : all[i] \in V
    BY <2>1, LenProperties, ElementOfSeq
  <2>3. IsFiniteSet(DOMAIN all) BY <2>2, FS_Interval
  <2> QED BY <2>2, <2>3, Images DEF Range
<1> HIDE DEF all
<1>3. entries \subseteq V /\ IsFiniteSet(entries) BY <1>2, FS_Subset
<1> HIDE DEF entries
<1>4. names = {lowered[e] : e \in entries} BY <1>3
<1>5. IsFiniteSet(names)
  <2> HIDE DEF lowered, names
  <2> QED BY <1>3, <1>4, Images
<1>6. names \in SUBSET DOMAIN Place BY <1>3, MatchingAssumption
<1>7. ASSUME NEW n \in names PROVE Max({e.count : e \in {f \in entries : Lower[f.name] = n}}) \in Int
  <2> DEFINE E == {f \in entries : Lower[f.name] = n}
             C == {counted[e] : e \in E}
  <2>1. IsFiniteSet(E) /\ E # {} /\ E \subseteq V BY <1>3, FS_Subset
  <2>2. C = {e.count : e \in E} BY <2>1
  <2>3. C \subseteq Int /\ C # {} BY <2>1
  <2> HIDE DEF E, counted
  <2>4. IsFiniteSet(C) BY <2>1, Images
  <2> HIDE DEF C
  <2>5. Max(C) \in Int BY <2>3, <2>4, FiniteMax
  <2> QED BY <2>2, <2>5 DEF E
<1> HIDE DEF names
<1>8. DOMAIN m = names /\ m \in [names -> Int] BY <1>7
<1> HIDE DEF m
<1> QED BY <1>1, <1>5, <1>6, <1>8

LEMMA TagsOfArtistTyped ==
  ASSUME NEW id
  PROVE  ArtistTags(id) \in TagLists
<1>1. CASE id \in DOMAIN Artists
  <2> DEFINE entry == Artists[id]
             m == MergeTags(entry.tags, entry.genres)
  <2>1. entry.tags \in TagEntries /\ entry.genres \in TagEntries BY <1>1, CompareAssumption
  <2>2. DOMAIN m \in SUBSET DOMAIN Place /\ IsFiniteSet(DOMAIN m) /\ m \in [DOMAIN m -> Int]
    BY <2>1, MergeTagsTyped
  <2>3. ArtistTags(id) = SortTags(m) BY <1>1 DEF ArtistTags, TagsOfArtist
  <2> HIDE DEF m
  <2> QED BY <2>2, <2>3, SortTagsTyped
<1>2. CASE id \notin DOMAIN Artists
  <2>1. ArtistTags(id) = <<>> BY <1>2 DEF ArtistTags
  <2> QED BY <2>1 DEF TagLists
<1> QED BY <1>1, <1>2

-------------------------------------------------------------------------------
(***************************************************************************)
(* The track of a song, whatever pages MusicBrainz answers with.           *)
(***************************************************************************)
MatchOf(r, artist) == [rec |-> r, artist |-> CreditedArtist(r.credit, NormalizeArtist(artist))]

Matches(S, artist) ==
  {MatchOf(r, artist) : r \in {q \in S : q.score >= MinScore
                                         /\ CreditedArtist(q.credit, NormalizeArtist(artist)) # NoArtist}}

\* m has the elements of T, each once.
IsList(m, T) ==
  /\ Len(m) \in Nat /\ DOMAIN m = 1..Len(m) /\ m = [k \in 1..Len(m) |-> m[k]]
  /\ \A k \in 1..Len(m) : m[k] \in T
  /\ \A x \in T : \E k \in 1..Len(m) : m[k] = x
  /\ \A k, l \in 1..Len(m) : m[k] = m[l] => k = l

LEMMA OrderedList ==
  ASSUME NEW S, IsFiniteSet(S), NEW s \in SetToSeqs(S)
  PROVE  IsList(s, S)
<1> DEFINE n == Cardinality(S)
<1>1. n \in Nat BY FS_CardinalityType
<1>2. s \in [1..n -> S] /\ \A k, l \in 1..n : k # l => s[k] # s[l] BY DEF SetToSeqs
<1>3. IsFiniteSet(1..n) /\ Cardinality(1..n) = n BY <1>1, FS_Interval
<1> HIDE DEF n
<1>4. s \in Injection(1..n, S) BY <1>2 DEF Injection, IsInjective
<1>5. s \in Surjection(1..n, S) BY <1>3, <1>4, FS_Injection DEF n
<1>6. \A x \in S : \E k \in 1..n : s[k] = x BY <1>5 DEF Surjection
<1>7. s \in Seq(S) /\ Len(s) = n BY <1>1, <1>2
<1> QED BY <1>1, <1>2, <1>6, <1>7 DEF IsList

\* What a page lists: everything, if that fits it.
LEMMA PageList ==
  ASSUME NEW S, IsFiniteSet(S), NEW limit \in Nat, NEW s \in Pages(S, limit)
  PROVE  \E T \in SUBSET S : IsList(s, T) /\ (Cardinality(S) <= limit => T = S)
<1> DEFINE c == Cardinality(S)
           n == Min({c, limit})
<1>1. PICK T \in kSubset(n, S) : s \in SetToSeqs(T) BY DEF Pages
<1>2. T \in SUBSET S /\ Cardinality(T) = n BY <1>1 DEF kSubset
<1>3. IsFiniteSet(T) BY <1>2, FS_Subset
<1>4. IsList(s, T) BY <1>1, <1>3, OrderedList
<1>5. ASSUME c <= limit PROVE T = S
  <2>1. c \in Int /\ limit \in Int BY FS_CardinalityType
  <2> HIDE DEF c
  <2>2. n = c BY <1>5, <2>1, TwoOfInt
  <2> QED BY <1>2, <2>2, FS_Subset DEF c
<1> QED BY <1>2, <1>4, <1>5

LEMMA MatchingList ==
  ASSUME NEW S, NEW s, IsList(s, S), NEW artist
  PROVE  IsList(MatchingRecordings(s, artist), Matches(S, artist))
<1> DEFINE credited(i) == CreditedArtist(s[i].credit, NormalizeArtist(artist))
           all == [i \in DOMAIN s |-> [rec |-> s[i], artist |-> credited(i)]]
           D == {i \in DOMAIN s : s[i].score >= MinScore /\ credited(i) # NoArtist}
           t == Part(all, D)
           n == Len(s)
           c == Cardinality(D)
<1>1. MatchingRecordings(s, artist) = t BY DEF MatchingRecordings
<1>2. /\ n \in Nat /\ DOMAIN s = 1..n /\ \A k \in 1..n : s[k] \in S
      /\ \A x \in S : \E k \in 1..n : s[k] = x
      /\ \A k, l \in 1..n : s[k] = s[l] => k = l
  BY DEF IsList
<1>3. \A i \in 1..n : all[i] = MatchOf(s[i], artist) BY <1>2 DEF MatchOf
<1>4. D \in SUBSET (1..n) BY <1>2
<1>5. \A x : x \in Matches(S, artist) <=> \E i \in D : x = all[i]
  <2>1. ASSUME NEW x \in Matches(S, artist) PROVE \E i \in D : x = all[i]
    <3>1. PICK r \in S : /\ x = MatchOf(r, artist) /\ r.score >= MinScore
                         /\ CreditedArtist(r.credit, NormalizeArtist(artist)) # NoArtist
      BY <2>1 DEF Matches
    <3>2. PICK i \in 1..n : s[i] = r BY <1>2
    <3>3. i \in D BY <1>2, <3>1, <3>2
    <3> QED BY <1>3, <3>1, <3>2, <3>3
  <2>2. ASSUME NEW i \in D PROVE all[i] \in Matches(S, artist)
    <3>1. i \in 1..n /\ s[i] \in S BY <1>2
    <3>2. all[i] = MatchOf(s[i], artist) BY <1>3, <3>1
    <3> QED BY <3>1, <3>2 DEF Matches
  <2> QED BY <2>1, <2>2
<1>6. \A i, j \in D : all[i] = all[j] => i = j
  <2>1. ASSUME NEW i \in D, NEW j \in D, all[i] = all[j] PROVE i = j
    <3>1. all[i].rec = s[i] /\ all[j].rec = s[j] BY <1>2
    <3> QED BY <1>2, <2>1, <3>1
  <2> QED BY <2>1
<1> HIDE DEF all, D, n
<1>7. IsPart(t, all, D) BY <1>2, <1>4, PartKeeps
<1> HIDE DEF t
<1>8. c \in Nat /\ DOMAIN t = 1..c /\ t = [k \in 1..c |-> t[k]] BY <1>7 DEF IsPart, c
<1> HIDE DEF c
<1>9. Len(t) = c
  <2>1. t \in Seq({t[k] : k \in 1..c}) BY <1>8
  <2> QED BY <1>8, <2>1, LenProperties
<1>10. \A k \in 1..c : t[k] \in Matches(S, artist)
  <2>1. \A k \in DOMAIN t : \E i \in D : t[k] = all[i] BY <1>7 DEF IsPart
  <2> QED BY <1>5, <1>8, <2>1
<1>11. \A x \in Matches(S, artist) : \E k \in 1..c : t[k] = x
  <2>1. \A i \in D : \E k \in DOMAIN t : t[k] = all[i] BY <1>7 DEF IsPart
  <2> QED BY <1>5, <1>8, <2>1
<1>12. \A k, l \in 1..c : t[k] = t[l] => k = l BY <1>6, <1>7, <1>8 DEF IsPart
<1> QED BY <1>1, <1>8, <1>9, <1>10, <1>11, <1>12 DEF IsList

\* Matches of different recordings, with votes that can be compared.
MatchSet(T) ==
  /\ IsFiniteSet(T)
  /\ \A x \in T : /\ Votes(x) \in Int /\ x.rec.id \in Int
                  /\ x.rec.tags \in TagEntries /\ x.rec.genres \in TagEntries
  /\ \A x, y \in T : x.rec.id = y.rec.id => x = y

LEMMA MatchesTyped ==
  ASSUME NEW song \in Songs, NEW S \in SUBSET Recordings[song], NEW artist
  PROVE  MatchSet(Matches(S, artist))
<1> DEFINE T == Matches(S, artist)
           match == [r \in S |-> MatchOf(r, artist)]
           U == {q \in S : q.score >= MinScore
                           /\ CreditedArtist(q.credit, NormalizeArtist(artist)) # NoArtist}
<1>1. IsFiniteSet(S) BY FS_Subset, CompareAssumption
<1>2. \A r \in S : r.id \in Int /\ r.tags \in TagEntries /\ r.genres \in TagEntries BY CompareAssumption
<1>3. T = {match[r] : r \in U} BY DEF Matches
<1>4. IsFiniteSet(T)
  <2>1. IsFiniteSet(U) BY <1>1, FS_Subset
  <2> HIDE DEF match, U
  <2> QED BY <1>3, <2>1, Images
<1>5. ASSUME NEW x \in T PROVE x.rec \in S /\ x = MatchOf(x.rec, artist)
  <2>1. PICK r \in S : x = MatchOf(r, artist) BY DEF Matches
  <2> QED BY <2>1 DEF MatchOf
<1> HIDE DEF T
<1>6. ASSUME NEW x \in T PROVE Votes(x) \in Int
  <2> DEFINE w == Merged(x)
  <2>1. x.rec.tags \in TagEntries /\ x.rec.genres \in TagEntries BY <1>2, <1>5
  <2>2. w = MergeTags(x.rec.tags, x.rec.genres) BY DEF Merged
  <2>3. IsFiniteSet(DOMAIN w) /\ w \in [DOMAIN w -> Int] BY <2>1, <2>2, MergeTagsTyped
  <2> HIDE DEF w
  <2>4. Sum(w) \in Int BY <2>3, SumTyped
  <2> QED BY <2>4 DEF Votes, w
<1>7. \A x, y \in T : x.rec.id = y.rec.id => x = y
  <2>1. ASSUME NEW x \in T, NEW y \in T, x.rec.id = y.rec.id PROVE x = y
    <3>1. x.rec \in Recordings[song] /\ y.rec \in Recordings[song] BY <1>5
    <3>2. x.rec = y.rec BY <2>1, <3>1, CompareAssumption
    <3> QED BY <1>5, <3>2
  <2> QED BY <2>1
<1> QED BY <1>2, <1>4, <1>5, <1>6, <1>7 DEF MatchSet, T

\* Only one element has a place.
LEMMA SortedUnique ==
  ASSUME NEW S, NEW R, NEW s, IsSorting(s, S, R), NEW x \in S,
         NEW k \in 1..Cardinality(S), 1 + Cardinality({y \in S : <<y, x>> \in R}) = k
  PROVE  s[k] = x
<1>1. PICK l \in 1..Cardinality(S) : s[l] = x BY DEF IsSorting
<1>2. 1 + Cardinality({y \in S : <<y, s[l]>> \in R}) = l BY DEF IsSorting
<1>3. k = l BY <1>1, <1>2
<1> QED BY <1>1, <1>3

Tagged(T) == {x \in T : HasTags(x.rec)}
Better(T) == {p \in Tagged(T) \X Tagged(T) : MoreVotes(p[1], p[2])}
BestOf(T) == [k \in 1..Min({Cardinality(Tagged(T)), MaxMerged}) |-> Sorted(Tagged(T), Better(T))[k]]

LEMMA BetterRanks ==
  ASSUME NEW T, MatchSet(T)
  PROVE  /\ IsFiniteSet(Tagged(T)) /\ Ranks(Better(T), Tagged(T))
         /\ \A x, y \in Tagged(T) : <<x, y>> \in Better(T) <=> MoreVotes(x, y)
         /\ \A x \in T : ~MoreVotes(x, x)
         /\ \A x, y \in T : MoreVotes(x, y) => ~MoreVotes(y, x)
         /\ \A x, y \in T : x # y => MoreVotes(x, y) \/ MoreVotes(y, x)
<1>1. IsFiniteSet(Tagged(T)) BY FS_Subset DEF MatchSet, Tagged
<1>2. \A x, y \in Tagged(T) : <<x, y>> \in Better(T) <=> MoreVotes(x, y) BY DEF Better
<1>3. \A x \in T : Votes(x) \in Int /\ x.rec.id \in Int BY DEF MatchSet
<1>4. \A x, y, z \in T : MoreVotes(x, y) /\ MoreVotes(y, z) => MoreVotes(x, z) BY <1>3 DEF MoreVotes
<1>5. \A x, y \in T : x # y => MoreVotes(x, y) \/ MoreVotes(y, x)
  <2>1. \A x, y \in T : x # y => x.rec.id # y.rec.id BY DEF MatchSet
  <2> QED BY <1>3, <2>1 DEF MoreVotes
<1>6. \A x \in T : ~MoreVotes(x, x) BY <1>3 DEF MoreVotes
<1>7. \A x, y \in T : MoreVotes(x, y) => ~MoreVotes(y, x) BY <1>3 DEF MoreVotes
<1>8. Tagged(T) \subseteq T BY DEF Tagged
<1>9. Ranks(Better(T), Tagged(T)) BY <1>2, <1>4, <1>5, <1>6, <1>8 DEF Ranks
<1> QED BY <1>1, <1>2, <1>5, <1>6, <1>7, <1>9

\* The best matches are the same in whatever order the matches come.
LEMMA BestTaggedIs ==
  ASSUME NEW T, MatchSet(T), NEW m, IsList(m, T)
  PROVE  BestTagged(m) = BestOf(T)
<1> DEFINE D == {i \in DOMAIN m : HasTags(m[i].rec)}
           better(i, j) == MoreVotes(m[i], m[j]) \/ (~MoreVotes(m[j], m[i]) /\ i < j)
           R == {p \in D \X D : better(p[1], p[2])}
           s == Sorted(D, R)
           U == Tagged(T)
           n == Len(m)
<1>1. BestTagged(m) = [k \in 1..Min({Cardinality(D), MaxMerged}) |-> m[s[k]]] BY DEF BestTagged
<1>2. /\ n \in Nat /\ DOMAIN m = 1..n /\ \A k \in 1..n : m[k] \in T
      /\ \A x \in T : \E k \in 1..n : m[k] = x
      /\ \A k, l \in 1..n : m[k] = m[l] => k = l
  BY DEF IsList
<1>3. D \in SUBSET (1..n) /\ IsFiniteSet(D)
  <2>1. D \in SUBSET (1..n) BY <1>2
  <2>2. IsFiniteSet(1..n) BY <1>2, FS_Interval
  <2> HIDE DEF D
  <2> QED BY <2>1, <2>2, FS_Subset
<1>4. \A i \in D : i \in Nat /\ m[i] \in T /\ m[i] \in U BY <1>2 DEF Tagged
<1>5. \A x \in U : \E i \in D : m[i] = x BY <1>2 DEF Tagged
<1>6. \A i, j \in D : m[i] = m[j] => i = j BY <1>2
<1> HIDE DEF n
<1>7. \A i, j \in D : better(i, j) <=> MoreVotes(m[i], m[j])
  <2>1. ASSUME NEW i \in D, NEW j \in D PROVE better(i, j) <=> MoreVotes(m[i], m[j])
    <3>1. i \in Nat /\ j \in Nat /\ m[i] \in T /\ m[j] \in T BY <1>4
    <3>2. CASE m[i] = m[j]
      <4>1. i = j BY <1>6, <3>2
      <4>2. ~(i < j) BY <3>1, <4>1
      <4> QED BY <4>2
    <3>3. CASE m[i] # m[j] BY <3>1, <3>3, BetterRanks
    <3> QED BY <3>2, <3>3
  <2> QED BY <2>1
<1>8. \A i, j \in D : <<i, j>> \in R <=> <<m[i], m[j]>> \in Better(T)
  <2>1. \A i, j \in D : <<i, j>> \in R <=> better(i, j) OBVIOUS
  <2> HIDE DEF R, better, D
  <2> QED BY <1>4, <1>7, <2>1, BetterRanks
<1> HIDE DEF D, R, better, s, U
<1>9. Ranks(R, D)
  <2>1. Ranks(Better(T), U) BY BetterRanks DEF U
  <2> QED BY <1>4, <1>6, <1>8, <2>1 DEF Ranks
<1>10. IsSorting(s, D, R) BY <1>3, <1>9, SortedSorts DEF s
<1>11. IsSorting(Sorted(U, Better(T)), U, Better(T)) BY BetterRanks, SortedSorts DEF U
<1>12. U = {m[i] : i \in D} BY <1>4, <1>5
<1>13. Cardinality(U) = Cardinality(D) /\ Cardinality(D) \in Nat
  BY <1>3, <1>6, <1>12, Images, FS_CardinalityType
<1>14. ASSUME NEW k \in 1..Cardinality(D) PROVE m[s[k]] = Sorted(U, Better(T))[k]
  <2> DEFINE A == {j \in D : <<j, s[k]>> \in R}
             B == {y \in U : <<y, m[s[k]]>> \in Better(T)}
  <2>1. s[k] \in D /\ 1 + Cardinality(A) = k BY <1>10 DEF IsSorting
  <2>2. m[s[k]] \in U BY <1>4, <2>1
  <2>3. B = {m[j] : j \in A} BY <1>4, <1>5, <1>8, <2>1
  <2>4. IsFiniteSet(A) /\ \A i, j \in A : m[i] = m[j] => i = j BY <1>3, <1>6, FS_Subset
  <2> HIDE DEF A, B
  <2>5. Cardinality(B) = Cardinality(A) BY <2>3, <2>4, Images
  <2>6. 1 + Cardinality(B) = k BY <2>1, <2>5
  <2> QED BY <1>11, <1>13, <2>2, <2>6, SortedUnique DEF B
<1>15. /\ MaxMerged \in Nat
       /\ Min({Cardinality(D), MaxMerged}) = IF Cardinality(D) <= MaxMerged THEN Cardinality(D) ELSE MaxMerged
  <2> DEFINE c == Cardinality(D)
  <2>1. c \in Int /\ MaxMerged \in Nat BY <1>13, MatchingAssumption
  <2> HIDE DEF c
  <2>2. Min({c, MaxMerged}) = IF c <= MaxMerged THEN c ELSE MaxMerged BY <2>1, TwoOfInt
  <2> QED BY <2>1, <2>2 DEF c
<1>16. 1..Min({Cardinality(D), MaxMerged}) \subseteq 1..Cardinality(D) BY <1>13, <1>15
<1>17. BestTagged(m) = [k \in 1..Min({Cardinality(U), MaxMerged}) |-> Sorted(U, Better(T))[k]]
  BY <1>1, <1>13, <1>14, <1>16
<1> QED BY <1>17 DEF BestOf, U

LEMMA SumTagsTyped ==
  ASSUME NEW T, MatchSet(T), NEW c \in Nat, NEW best \in [1..c -> T]
  PROVE  SumTags(best) \in TagLists
<1> DEFINE with(n) == {i \in DOMAIN best : n \in DOMAIN Merged(best[i])}
           names   == UNION {DOMAIN Merged(best[i]) : i \in DOMAIN best}
           summed(n) == [i \in with(n) |-> Merged(best[i])[n]]
           counts  == [n \in names |-> Sum(summed(n))]
           doms    == [i \in 1..c |-> DOMAIN Merged(best[i])]
<1>1. SumTags(best) = SortTags(counts) BY DEF SumTags
<1>2. \A i \in 1..c : /\ DOMAIN Merged(best[i]) \in SUBSET DOMAIN Place
                      /\ IsFiniteSet(DOMAIN Merged(best[i]))
                      /\ Merged(best[i]) \in [DOMAIN Merged(best[i]) -> Int]
  <2>1. ASSUME NEW x \in T
        PROVE  /\ DOMAIN Merged(x) \in SUBSET DOMAIN Place /\ IsFiniteSet(DOMAIN Merged(x))
               /\ Merged(x) \in [DOMAIN Merged(x) -> Int]
    <3>1. x.rec.tags \in TagEntries /\ x.rec.genres \in TagEntries BY DEF MatchSet
    <3>2. Merged(x) = MergeTags(x.rec.tags, x.rec.genres) BY DEF Merged
    <3> QED BY <3>1, <3>2, MergeTagsTyped
  <2>2. \A i \in 1..c : best[i] \in T OBVIOUS
  <2> QED BY <2>1, <2>2
<1>3. IsFiniteSet(1..c) BY FS_Interval
<1>4. names \in SUBSET DOMAIN Place /\ IsFiniteSet(names)
  <2>1. names = UNION {doms[i] : i \in 1..c} OBVIOUS
  <2>2. \A D \in {doms[i] : i \in 1..c} : IsFiniteSet(D) BY <1>2
  <2>3. names \in SUBSET DOMAIN Place BY <1>2
  <2> HIDE DEF doms, names
  <2>4. IsFiniteSet({doms[i] : i \in 1..c}) BY <1>3, Images
  <2> QED BY <2>1, <2>2, <2>3, <2>4, FS_UNION
<1>5. ASSUME NEW n \in names PROVE Sum(summed(n)) \in Int
  <2> DEFINE W == with(n)
             w == summed(n)
  <2>1. W \in SUBSET (1..c) OBVIOUS
  <2>2. \A i \in W : Merged(best[i])[n] \in Int BY <1>2
  <2>3. w \in [W -> Int] BY <2>2
  <2> HIDE DEF W
  <2>4. IsFiniteSet(W) BY <1>3, <2>1, FS_Subset
  <2> HIDE DEF w
  <2>5. Sum(w) \in Int BY <2>3, <2>4, SumTyped
  <2> QED BY <2>5 DEF w
<1>6. counts \in [names -> Int] BY <1>5
<1> HIDE DEF counts, names
<1> QED BY <1>1, <1>4, <1>6, SortTagsTyped

\* The track of the matches T with tags and P without regard to tags.
Single(m, tags) ==
  [id |-> m.rec.id, artistID |-> m.artist.id, recordingTags |-> tags, artistTags |-> <<>>, source |-> ""]

TrackOf(T, P) ==
  IF BestOf(T) # <<>> THEN Single(BestOf(T)[1], SumTags(BestOf(T)))
  ELSE IF P = {} THEN NotFound
  ELSE Single(CHOOSE m \in P : m.rec.id = Min({x.rec.id : x \in P}), <<>>)

\* The track of a song of which the pages are T and P.
PageTrack(song, T, P) == TrackOf(Matches(T, ArtistAsked[song]), Matches(P, ArtistAsked[song]))

IsTrack(t) == t = Single([rec |-> [id |-> t.id], artist |-> [id |-> t.artistID]], t.recordingTags)
              /\ t.recordingTags \in TagLists

LEMMA TrackIs ==
  ASSUME NEW T, MatchSet(T), NEW m, IsList(m, T), NEW P, NEW p, IsList(p, P)
  PROVE  Track(m, p) = TrackOf(T, P)
<1>1. BestTagged(m) = BestOf(T) BY BestTaggedIs
<1>2. /\ Len(p) \in Nat /\ DOMAIN p = 1..Len(p) /\ p = [k \in 1..Len(p) |-> p[k]]
      /\ \A k \in 1..Len(p) : p[k] \in P
      /\ \A x \in P : \E k \in 1..Len(p) : p[k] = x
  BY DEF IsList
<1>3. Range(p) = P BY <1>2 DEF Range
<1>4. p = <<>> <=> P = {}
  <2>1. CASE Len(p) = 0 BY <1>2, <2>1
  <2>2. CASE Len(p) # 0
    <3>1. 1 \in 1..Len(p) BY <1>2, <2>2
    <3> QED BY <1>2, <3>1
  <2> QED BY <2>1, <2>2
<1>5. {p[i].rec.id : i \in DOMAIN p} = {x.rec.id : x \in P}
  <2>1. \A y : y \in {p[i].rec.id : i \in DOMAIN p} <=> \E i \in 1..Len(p) : y = p[i].rec.id BY <1>2
  <2>2. \A y : y \in {x.rec.id : x \in P} <=> \E x \in P : y = x.rec.id OBVIOUS
  <2>3. \A y : (\E i \in 1..Len(p) : y = p[i].rec.id) <=> (\E x \in P : y = x.rec.id) BY <1>2
  <2> QED BY <2>1, <2>2, <2>3
<1> QED BY <1>1, <1>3, <1>4, <1>5 DEF Track, TrackOf, Single

\* The order of a page does not matter, nor which page it is if all fits one.
LEMMA TrackOfPages ==
  ASSUME NEW song \in Songs, NEW t \in Tracks(song)
  PROVE  /\ t # NotFound => IsTrack(t)
         /\ \E T \in SUBSET TaggedRecordings(song), P \in SUBSET Recordings[song] :
              /\ t = PageTrack(song, T, P)
              /\ Cardinality(TaggedRecordings(song)) <= TaggedLimit => T = TaggedRecordings(song)
              /\ Cardinality(Recordings[song]) <= PlainLimit => P = Recordings[song]
<1> DEFINE A == ArtistAsked[song]
           S == Recordings[song]
           ST == TaggedRecordings(song)
<1>1. IsFiniteSet(S) /\ IsFiniteSet(ST) /\ ST \in SUBSET S /\ TaggedLimit \in Nat /\ PlainLimit \in Nat
  BY CompareAssumption, FS_Subset DEF TaggedRecordings
<1>2. PICK tagged \in Pages(ST, TaggedLimit), plain \in Pages(S, PlainLimit) :
        t = Track(MatchingRecordings(tagged, A), MatchingRecordings(plain, A))
  BY DEF Tracks
<1>3. PICK TR \in SUBSET ST : IsList(tagged, TR) /\ (Cardinality(ST) <= TaggedLimit => TR = ST)
  <2> HIDE DEF S, ST
  <2> QED BY <1>1, <1>2, PageList
<1>4. PICK PR \in SUBSET S : IsList(plain, PR) /\ (Cardinality(S) <= PlainLimit => PR = S)
  <2> HIDE DEF S, ST
  <2> QED BY <1>1, <1>2, PageList
<1> DEFINE T == Matches(TR, A)
           P == Matches(PR, A)
<1>5. MatchSet(T) /\ MatchSet(P)
  <2>1. PR \in SUBSET Recordings[song] /\ TR \in SUBSET Recordings[song] BY <1>1, <1>3, <1>4
  <2> QED BY <2>1, MatchesTyped
<1>6. IsList(MatchingRecordings(tagged, A), T) /\ IsList(MatchingRecordings(plain, A), P)
  BY <1>3, <1>4, MatchingList
<1>7. t = TrackOf(T, P)
  <2> HIDE DEF T, P, A
  <2> QED BY <1>2, <1>5, <1>6, TrackIs
<1>8. t = PageTrack(song, TR, PR) BY <1>7 DEF PageTrack
<1>9. ASSUME t # NotFound PROVE IsTrack(t)
  <2> HIDE DEF T, P
  <2>1. CASE BestOf(T) # <<>>
    <3> DEFINE U == Tagged(T)
               R == Better(T)
               n == Min({Cardinality(U), MaxMerged})
               tags == SumTags(BestOf(T))
    <3>1. IsSorting(Sorted(U, R), U, R) BY <1>5, BetterRanks, SortedSorts
    <3>2. n \in Nat /\ n <= Cardinality(U) /\ Cardinality(U) \in Nat
      <4> DEFINE c == Cardinality(U)
      <4>1. c \in Nat /\ MaxMerged \in Nat BY <3>1, MatchingAssumption DEF IsSorting
      <4> HIDE DEF c
      <4>2. Min({c, MaxMerged}) = IF c <= MaxMerged THEN c ELSE MaxMerged BY <4>1, TwoOfInt
      <4> QED BY <4>1, <4>2 DEF c
    <3>3. \A k \in 1..n : Sorted(U, R)[k] \in T BY <3>1, <3>2 DEF IsSorting, Tagged
    <3>4. BestOf(T) \in [1..n -> T] BY <3>3 DEF BestOf
    <3>5. tags \in TagLists BY <1>5, <3>2, <3>4, SumTagsTyped
    <3>6. t = Single(BestOf(T)[1], tags) BY <1>7, <2>1 DEF TrackOf
    <3> HIDE DEF tags
    <3> QED BY <3>5, <3>6 DEF IsTrack, Single
  <2>2. CASE BestOf(T) = <<>>
    <3>1. PICK m : t = Single(m, <<>>) BY <1>7, <1>9, <2>2 DEF TrackOf
    <3>2. <<>> \in TagLists BY DEF TagLists
    <3> QED BY <3>1, <3>2 DEF IsTrack, Single
  <2> QED BY <2>1, <2>2
<1> QED BY <1>3, <1>4, <1>8, <1>9

\* Two tracks of a song whose tagged recordings fit a page have the same tags, and
\* are one if there are any or all recordings fit a page.
LEMMA TracksOfSong ==
  ASSUME NEW song \in Songs, NEW t \in Tracks(song) \ {NotFound}, NEW u \in Tracks(song) \ {NotFound},
         Cardinality(TaggedRecordings(song)) <= TaggedLimit
  PROVE  /\ t.recordingTags = u.recordingTags
         /\ t.recordingTags # <<>> \/ Cardinality(Recordings[song]) <= PlainLimit => t = u
<1> DEFINE A == ArtistAsked[song]
           S == Recordings[song]
           T == Matches(TaggedRecordings(song), A)
<1>1. PICK P \in SUBSET S : t = TrackOf(T, Matches(P, A)) /\ (Cardinality(S) <= PlainLimit => P = S)
  BY TrackOfPages DEF PageTrack
<1>2. PICK Q \in SUBSET S : u = TrackOf(T, Matches(Q, A)) /\ (Cardinality(S) <= PlainLimit => Q = S)
  BY TrackOfPages DEF PageTrack
<1> HIDE DEF T, A, S
<1>3. CASE BestOf(T) # <<>>
  <2>1. t = u BY <1>1, <1>2, <1>3 DEF TrackOf
  <2> QED BY <2>1
<1>4. CASE BestOf(T) = <<>>
  <2>1. PICK m : t = Single(m, <<>>) BY <1>1, <1>4 DEF TrackOf
  <2>2. PICK n : u = Single(n, <<>>) BY <1>2, <1>4 DEF TrackOf
  <2>3. t.recordingTags = <<>> /\ u.recordingTags = <<>> BY <2>1, <2>2 DEF Single
  <2>4. Cardinality(S) <= PlainLimit => t = u BY <1>1, <1>2
  <2> QED BY <2>3, <2>4 DEF S
<1> QED BY <1>3, <1>4

-------------------------------------------------------------------------------
(***************************************************************************)
(* Profiles: a positive weight for each name of a track's tags.            *)
(***************************************************************************)
LEMMA ListOf ==
  ASSUME NEW tags \in TagLists
  PROVE  /\ Len(tags) \in Nat /\ DOMAIN tags = 1..Len(tags)
         /\ \A i \in DOMAIN tags : tags[i].name \in DOMAIN Place /\ tags[i].count \in Int
<1> DEFINE V == [name : DOMAIN Place, count : Int]
<1>1. Len(tags) \in Nat /\ DOMAIN tags = 1..Len(tags) /\ \A i \in DOMAIN tags : tags[i] \in V
  BY LenProperties, ElementOfSeq DEF TagLists
<1> QED BY <1>1

LEMMA NormalizeTyped ==
  ASSUME NEW raw \in DOMAIN Place
  PROVE  Normalize(raw) # "" => Normalize(raw) \in DOMAIN Place
<1> DEFINE tag == Clean[raw]
           L == Synonyms(tag)
           V == [canonical : DOMAIN Place \ {""}, variants : SUBSET DOMAIN Place]
<1>1. tag \in DOMAIN Place BY ProfileAssumption
<1>2. CASE L = {}
  <2>1. Canonical(tag) = tag BY <1>2 DEF Canonical
  <2> QED BY <1>1, <2>1 DEF Normalize
<1>3. CASE L # {}
  <2>1. /\ Len(SynonymLines) \in Nat /\ DOMAIN SynonymLines = 1..Len(SynonymLines)
        /\ \A i \in DOMAIN SynonymLines : SynonymLines[i] \in V
    <3>1. SynonymLines \in Seq(V) BY ProfileAssumption
    <3> HIDE DEF V
    <3> QED BY <3>1, LenProperties, ElementOfSeq
  <2>2. L \subseteq 0..Len(SynonymLines) /\ L \subseteq DOMAIN SynonymLines
    <3>1. L \subseteq DOMAIN SynonymLines BY DEF Synonyms
    <3> HIDE DEF L, V
    <3> QED BY <2>1, <3>1
  <2>3. Canonical(tag) = SynonymLines[Max(L)].canonical BY <1>3 DEF Canonical
  <2> HIDE DEF L
  <2>4. Max(L) \in L BY <1>3, <2>1, <2>2, LargestOf
  <2>5. Canonical(tag) \in DOMAIN Place BY <2>1, <2>2, <2>3, <2>4
  <2> QED BY <2>5 DEF Normalize
<1> QED BY <1>2, <1>3

\* The weights of a list's names: integers from 1 on.
Weighs(w, N) ==
  /\ IsFiniteSet(N) /\ N \subseteq DOMAIN Place
  /\ DOMAIN w = N /\ w \in [N -> Int] /\ \A n \in N : w[n] > 0

LEMMA VotesOf ==
  ASSUME NEW tags \in TagLists
  PROVE  Weighs(VotesByTag(tags), Names(tags))
<1> DEFINE N == Names(tags)
           of(n) == {i \in DOMAIN tags : Normalize(tags[i].name) = n}
           counted(n) == [i \in of(n) |-> Max({tags[i].count, 1})]
           w == [n \in N |-> Sum(counted(n))]
<1>1. /\ Len(tags) \in Nat /\ DOMAIN tags = 1..Len(tags)
      /\ \A i \in DOMAIN tags : tags[i].name \in DOMAIN Place /\ tags[i].count \in Int
  BY ListOf
<1>2. Range(NormalizeAll(TagNames(tags))) = N /\ IsFiniteSet(N) BY <1>1, NamesOf
<1>3. VotesByTag(tags) = w BY <1>2 DEF VotesByTag
<1>4. N \subseteq DOMAIN Place BY <1>1, NormalizeTyped DEF Names
<1>5. ASSUME NEW n \in N PROVE Sum(counted(n)) \in Int /\ Sum(counted(n)) > 0
  <2> DEFINE I == of(n)
             c == counted(n)
  <2>1. IsFiniteSet(DOMAIN tags) BY <1>1, FS_Interval
  <2>2. IsFiniteSet(I) BY <2>1, FS_Subset
  <2>3. \A i \in I : Max({tags[i].count, 1}) \in Int /\ Max({tags[i].count, 1}) >= 1
    <3>1. ASSUME NEW k \in Int PROVE Max({k, 1}) \in Int /\ Max({k, 1}) >= 1
      <4>1. Max({k, 1}) = IF k >= 1 THEN k ELSE 1 BY TwoOfInt
      <4> QED BY <4>1
    <3> QED BY <1>1, <3>1
  <2>4. c \in [I -> Int] /\ \A i \in I : c[i] >= 1 BY <2>3
  <2>5. PICK i \in I : TRUE BY DEF Names
  <2> HIDE DEF c, I
  <2>6. Sum(c) \in Int BY <2>2, <2>4, SumTyped
  <2>7. \A x \in I : c[x] >= 0 BY <2>4
  <2>8. Sum(c) >= 0 /\ (Sum(c) = 0 <=> \A x \in I : c[x] = 0) BY <2>2, <2>4, <2>7, SumOfNone
  <2>9. c[i] # 0 BY <2>4, <2>5
  <2>10. Sum(c) > 0 BY <2>6, <2>8, <2>9
  <2> QED BY <2>6, <2>10 DEF c
<1>6. DOMAIN w = N /\ w \in [N -> Int] /\ \A n \in N : w[n] > 0 BY <1>5
<1> HIDE DEF w, N
<1>7. Weighs(w, N) BY <1>2, <1>4, <1>6 DEF Weighs
<1> QED BY <1>3, <1>7 DEF N

LEMMA Product ==
  ASSUME NEW x \in Int, NEW y \in Int, x >= 0, y > 0
  PROVE  x * y \in Int /\ x * y >= 0 /\ (x > 0 => x * y > 0) /\ (x = 0 => x * y = 0)
OBVIOUS

LEMMA ProfileOf ==
  ASSUME NEW track, track.recordingTags \in TagLists, track.artistTags \in TagLists
  PROVE  Weighs(Profile(track), Names(track.recordingTags) \cup Names(track.artistTags))
<1> DEFINE R == Names(track.recordingTags)
           A == Names(track.artistTags)
           rec == VotesByTag(track.recordingTags)
           art == VotesByTag(track.artistTags)
           Weight(votes, n) == IF n \in DOMAIN votes THEN votes[n] ELSE 0
           k == Max({Sum(art), 1})
           l == Max({Sum(rec), 1})
           p == [n \in R \cup A |-> RecordingWeight * Weight(rec, n) * k + Weight(art, n) * l]
<1>1. Weighs(rec, R) /\ Weighs(art, A) BY VotesOf
<1> HIDE DEF rec, art
<1>2. Profile(track) = p BY <1>1 DEF Profile, Weighs, rec, art
<1>3. k \in Int /\ k > 0 /\ l \in Int /\ l > 0
  <2>1. ASSUME NEW x \in Int PROVE Max({x, 1}) \in Int /\ Max({x, 1}) > 0
    <3>1. Max({x, 1}) = IF x >= 1 THEN x ELSE 1 BY TwoOfInt
    <3> QED BY <3>1
  <2>2. Sum(rec) \in Int /\ Sum(art) \in Int BY <1>1, SumTyped DEF Weighs
  <2> QED BY <2>1, <2>2
<1> HIDE DEF R, A, k, l
<1>4. ASSUME NEW n \in R \cup A
      PROVE  /\ RecordingWeight * Weight(rec, n) * k + Weight(art, n) * l \in Int
             /\ RecordingWeight * Weight(rec, n) * k + Weight(art, n) * l > 0
  <2> DEFINE r == Weight(rec, n)
             a == Weight(art, n)
  <2>1. r \in Int /\ r >= 0 /\ a \in Int /\ a >= 0 /\ (r > 0 \/ a > 0) BY <1>1 DEF Weighs
  <2>2. RecordingWeight \in Int /\ RecordingWeight > 0
    <3>1. RecordingWeight \in Nat \ {0} BY ProfileAssumption
    <3> QED BY <3>1
  <2> HIDE DEF r, a
  <2>3. a * l \in Int /\ a * l >= 0 /\ (a > 0 => a * l > 0) BY <1>3, <2>1, Product
  <2> DEFINE q == RecordingWeight * r
  <2>4. q \in Int /\ q >= 0 /\ (r > 0 => q > 0)
    <3>1. r * RecordingWeight \in Int /\ r * RecordingWeight >= 0 /\ (r > 0 => r * RecordingWeight > 0)
      BY <2>1, <2>2, Product
    <3>2. q = r * RecordingWeight BY <2>1, <2>2
    <3> QED BY <3>1, <3>2
  <2> HIDE DEF q
  <2>5. q * k \in Int /\ q * k >= 0 /\ (q > 0 => q * k > 0) BY <1>3, <2>4, Product
  <2>6. q * k + a * l \in Int /\ q * k + a * l > 0 BY <2>1, <2>3, <2>4, <2>5
  <2> QED BY <2>6 DEF q, r, a
<1>5. DOMAIN p = R \cup A /\ p \in [R \cup A -> Int] /\ \A n \in R \cup A : p[n] > 0 BY <1>4
<1> HIDE DEF p
<1>6. IsFiniteSet(R \cup A) /\ R \cup A \subseteq DOMAIN Place BY <1>1, FS_Union DEF Weighs
<1>7. Weighs(p, R \cup A) BY <1>5, <1>6 DEF Weighs
<1> QED BY <1>2, <1>7 DEF R, A

-------------------------------------------------------------------------------
(***************************************************************************)
(* What a failed lookup is told as.                                        *)
(***************************************************************************)
LEMMA RoundsUp ==
  ASSUME NEW s \in Nat \ {0}, NEW m \in Nat, m % s = 0, NEW d \in 1..m
  PROVE  (d + s - 1) \div s \in 1..(m \div s)
<1> DEFINE q == m \div s
           x == d + s - 1
           r == x \div s
<1>1. q \in Int /\ m = s * q OBVIOUS
<1>2. r \in Int /\ s * r <= x /\ x < s * r + s OBVIOUS
<1>3. x \in Int /\ s * r \in Int /\ s * q \in Int /\ x >= s /\ x < s * q + s BY <1>1, <1>2
<1> HIDE DEF q, x, r
<1>4. s * r + s > s /\ s * r < s * q + s BY <1>2, <1>3
<1>5. r >= 1
  <2> SUFFICES ASSUME r <= 0 PROVE FALSE BY <1>2
  <2>1. s * (0 - r) >= 0 BY <1>2, Product
  <2>2. s * (0 - r) = 0 - s * r BY <1>2
  <2> QED BY <1>2, <1>4, <2>1, <2>2
<1>6. r <= q
  <2> SUFFICES ASSUME r >= q + 1 PROVE FALSE BY <1>1, <1>2
  <2> DEFINE k == r - (q + 1)
  <2>1. k \in Int /\ k >= 0 BY <1>1, <1>2
  <2>2. k * s >= 0 BY <2>1, Product
  <2>3. k * s = s * r - (s * q + s) BY <1>1, <1>2
  <2>4. s * r \in Int /\ s * q \in Int /\ k * s \in Int BY <1>1, <1>2, <2>1
  <2> QED BY <1>4, <2>2, <2>3, <2>4
<1> QED BY <1>1, <1>2, <1>5, <1>6 DEF q, r, x

Delay == 1..(MaxRetryAfter \div Second)

LEMMA Delays ==
  ASSUME NEW err, err.retryAfter \in Int
  PROVE  RetryAfterSeconds(UnavailableFor(err)) \in Delay /\ RetryAfterSeconds(DefaultRetryAfter) \in Delay
<1>1. /\ Second \in Nat \ {0} /\ MaxRetryAfter \in Nat /\ MaxRetryAfter % Second = 0
      /\ DefaultRetryAfter \in 1..MaxRetryAfter
  BY CompareAssumption
<1>2. \A d \in 1..MaxRetryAfter : RetryAfterSeconds(d) \in Delay
  BY <1>1, RoundsUp DEF RetryAfterSeconds, Delay
<1>3. UnavailableFor(err) \in 1..MaxRetryAfter
  <2> DEFINE r == err.retryAfter
  <2>1. CASE r > 0
    <3>1. UnavailableFor(err) = Min({r, MaxRetryAfter}) BY <2>1 DEF UnavailableFor
    <3>2. r \in Int /\ MaxRetryAfter \in Int /\ MaxRetryAfter > 0 BY <1>1
    <3> HIDE DEF r
    <3>3. Min({r, MaxRetryAfter}) = IF r <= MaxRetryAfter THEN r ELSE MaxRetryAfter BY <3>2, TwoOfInt
    <3> QED BY <1>1, <2>1, <3>1, <3>2, <3>3
  <2>2. CASE ~(r > 0) BY <1>1, <2>2 DEF UnavailableFor
  <2> QED BY <2>1, <2>2
<1> QED BY <1>1, <1>2, <1>3

LEMMA FailureTyped ==
  ASSUME NEW err \in Failures
  PROVE  /\ err.is \in {"network", "status", "deadline", "canceled"}
         /\ err.retryAfter \in Int
<1>1. CASE \E h \in RetryAfters : err = Failure("status", ParseRetryAfter(h))
  <2>1. PICK h \in RetryAfters : err = Failure("status", ParseRetryAfter(h)) BY <1>1
  <2>2. h.kind \in {"absent", "seconds", "date"} /\ h.n \in Int BY CompareAssumption
  <2>3. Second \in Nat /\ Word \in Nat \ {0} BY CompareAssumption
  <2>4. Max({h.n, 0}) \in Int
    <3>1. Max({h.n, 0}) = IF h.n >= 0 THEN h.n ELSE 0 BY <2>2, TwoOfInt
    <3> QED BY <2>2, <3>1
  <2>5. Wrap(h.n * Second) \in Int
    <3>1. h.n * Second \in Int BY <2>2, <2>3
    <3>2. ASSUME NEW x \in Int PROVE Wrap(x) \in Int
      <4>1. Word \div 2 \in Int /\ (x + Word \div 2) % Word \in Int BY <2>3
      <4> QED BY <4>1 DEF Wrap
    <3> QED BY <3>1, <3>2
  <2>6. ParseRetryAfter(h) \in Int BY <2>2, <2>4, <2>5 DEF ParseRetryAfter
  <2> QED BY <2>1, <2>6 DEF Failure
<1>2. CASE ~\E h \in RetryAfters : err = Failure("status", ParseRetryAfter(h))
  <2>1. err \in {Failure("network", 0), Failure("deadline", 0), Failure("canceled", 0)}
    BY <1>2 DEF Failures
  <2> QED BY <2>1 DEF Failure
<1> QED BY <1>1, <1>2

\* What the lookup of a song has come to, told.
Told(a, outcome) ==
  /\ a.song = field /\ a.status \in {404, 499, 502}
  /\ a.status = 404 => outcome = "not found"
  /\ a.status = 499 => outcome = "canceled" /\ ctx = "canceled"
  /\ a.status = 502 => /\ outcome \in {"network", "status", "deadline", "canceled"}
                       /\ a.why = "late" => ctx = "expired"
                       /\ a.retryAfter \in Delay

LEMMA ErrorTold ==
  ASSUME NEW err \in Failures
  PROVE  Told(LookupError(err), err.is)
<1>1. /\ err.is \in {"network", "status", "deadline", "canceled"}
      /\ err.retryAfter \in Int
  BY FailureTyped
<1>2. RetryAfterSeconds(UnavailableFor(err)) \in Delay /\ RetryAfterSeconds(DefaultRetryAfter) \in Delay
  BY <1>1, Delays
<1> QED BY <1>1, <1>2 DEF Told, LookupError, Problem

-------------------------------------------------------------------------------
(***************************************************************************)
(* The invariant: what the lookups have come to, and where the track of    *)
(* each side comes from.                                                   *)
(***************************************************************************)
Entry(step, outcome) == [field |-> field, step |-> step, outcome |-> outcome]

\* One more lookup is over.
Grown(step, outcome) ==
  /\ log' \in Seq(Entries) /\ log' # <<>>
  /\ Last(log').field = field /\ Last(log').outcome = outcome /\ Last(log') = Entry(step, outcome)
  /\ Len(log') \in DOMAIN log' /\ log'[Len(log')] = Last(log')
  /\ DOMAIN log \subseteq DOMAIN log'
  /\ \A i \in DOMAIN log' : i # Len(log') => i \in DOMAIN log
  /\ \A i \in DOMAIN log : log'[i] = log[i]
  /\ Range(log') = Range(log) \cup {Entry(step, outcome)}

LEMMA LogGrows ==
  ASSUME TypeOK, NEW step, NEW outcome, Entry(step, outcome) \in Entries, Logged(step, outcome)
  PROVE  Grown(step, outcome)
<1> DEFINE e == Entry(step, outcome)
           n == Len(log)
<1>1. log \in Seq(Entries) /\ e \in Entries /\ log' = Append(log, e) BY DEF TypeOK, Logged, Entry
<1>2. e.field = field /\ e.outcome = outcome BY DEF Entry
<1> HIDE DEF e
<1>3. n \in Nat /\ DOMAIN log = 1..n BY <1>1, LenProperties
<1>4. /\ log' \in Seq(Entries) /\ log' # <<>> /\ Len(log') = n + 1
      /\ \A i \in 1..n : log'[i] = log[i]
      /\ log'[n + 1] = e
  BY <1>1, AppendProperties
<1>5. DOMAIN log' = 1..(n + 1) BY <1>3, <1>4, LenProperties
<1> HIDE DEF n
<1>6. Len(log') \in DOMAIN log' /\ \A i \in DOMAIN log' : i # Len(log') => i \in DOMAIN log
  BY <1>3, <1>4, <1>5
<1>7. DOMAIN log \subseteq DOMAIN log' BY <1>3, <1>5
<1>8. Last(log') = e BY <1>4 DEF Last
<1>9. Range(log') = Range(log) \cup {e} BY <1>3, <1>4, <1>5 DEF Range
<1> QED BY <1>2, <1>3, <1>4, <1>6, <1>7, <1>8, <1>9 DEF Grown, e

\* Where the tags of a side come from, given the lookups.
Whence(side, song, f, lg) ==
  LET asked(outcomes) == \E i \in DOMAIN lg :
        lg[i].field = f /\ lg[i].step = "artist" /\ lg[i].outcome \in outcomes
      thin(t) == [t EXCEPT !.source = Thin(t.recordingTags)]
      full(t) == [t EXCEPT !.artistTags = ArtistTags(t.artistID),
                           !.source = IF Usable(t.recordingTags) > 0 THEN "mixed" ELSE "artist"]
      failed  == \E i \in DOMAIN lg : lg[i].field = f /\ lg[i].outcome # "found"
  IN  \E t \in Tracks(song) \ {NotFound} :
        \/ Settled(t) /\ ~asked({"found"}) /\ ~failed /\ side = thin(t)
        \/ ~Settled(t) /\ Usable(t.recordingTags) > 0 /\ asked({"network", "status"}) /\ side = thin(t)
        \/ /\ ~Settled(t) /\ asked({"found"}) /\ ~failed
           /\ side = IF Usable(ArtistTags(t.artistID)) = 0 THEN thin(t) ELSE full(t)

LEMMA SideIs ==
  ASSUME NEW f
  PROVE  SideInv(f) <=> DOMAIN Profile(sides[f]) # {} /\ Whence(sides[f], request[f], f, log)
BY DEF SideInv, Whence

LEMMA SideWillBe ==
  ASSUME NEW f
  PROVE  SideInv(f)' <=> DOMAIN Profile(sides'[f]) # {} /\ Whence(sides'[f], request'[f], f, log')
BY DEF SideInv, Whence

LEMMA OtherSide ==
  ASSUME NEW side, NEW song, NEW f, NEW lg, NEW new, NEW n,
         DOMAIN lg \subseteq DOMAIN new, \A i \in DOMAIN new : i # n => i \in DOMAIN lg,
         new[n].field # f, \A i \in DOMAIN lg : new[i] = lg[i],
         Whence(side, song, f, lg)
  PROVE  Whence(side, song, f, new)
<1> DEFINE asked(l, outcomes) == \E i \in DOMAIN l :
             l[i].field = f /\ l[i].step = "artist" /\ l[i].outcome \in outcomes
           failed(l) == \E i \in DOMAIN l : l[i].field = f /\ l[i].outcome # "found"
<1>1. \A outcomes : asked(new, outcomes) <=> asked(lg, outcomes) OBVIOUS
<1>2. failed(new) <=> failed(lg) OBVIOUS
<1> QED BY <1>1, <1>2 DEF Whence

LEMMA Looking ==
  ASSUME IInv, pc \in {"track", "artist"}
  PROVE  /\ field \in Fields /\ request \in [Fields -> Songs] /\ Song \in Songs
         /\ DOMAIN sides = Fields /\ sides[field] = NoTrack /\ answer.status = 0
         /\ field = "song_a" => sides = NoSides /\ \A i \in DOMAIN log : log[i].field = "song_a"
         /\ field = "song_b" => /\ [field |-> "song_a", step |-> "track", outcome |-> "found"] \in Range(log)
                                /\ sides["song_a"] # NoTrack
         /\ \A f \in Fields : sides[f] # NoTrack => SideInv(f)
<1>1. TypeOK /\ LookupInv /\ SidesInv BY DEF IInv
<1>2. field \in Fields /\ DOMAIN sides = Fields /\ answer.status = 0 BY <1>1 DEF TypeOK
<1>3. /\ request \in [Fields -> Songs] /\ sides[field] = NoTrack
      /\ field = "song_a" => sides = NoSides
      /\ field = "song_b" => sides["song_a"] # NoTrack
      /\ \A f \in Fields : sides[f] # NoTrack => SideInv(f)
  BY <1>1 DEF SidesInv
<1>4. Song \in Songs BY <1>2, <1>3 DEF Song
<1>5. /\ field = "song_a" => \A i \in DOMAIN log : log[i].field = "song_a"
      /\ field = "song_b" => [field |-> "song_a", step |-> "track", outcome |-> "found"] \in Range(log)
  BY <1>1 DEF LookupInv
<1> QED BY <1>2, <1>3, <1>4, <1>5

\* A lookup of the song in field leaves the other side as it is.
LEMMA OtherSideKept ==
  ASSUME IInv, pc \in {"track", "artist"}, NEW step, NEW outcome, Entry(step, outcome) \in Entries,
         Logged(step, outcome), request' = request,
         NEW f \in Fields, f # field, sides'[f] = sides[f], sides[f] # NoTrack
  PROVE  SideInv(f)'
<1> DEFINE n == Len(log')
           s == sides[f]
           r == request[f]
<1>1. TypeOK BY DEF IInv
<1>2. Grown(step, outcome) BY <1>1, LogGrows
<1>3. SideInv(f) BY Looking
<1>4. DOMAIN Profile(s) # {} /\ Whence(s, r, f, log) BY <1>3, SideIs
<1>5. /\ DOMAIN log \subseteq DOMAIN log' /\ \A i \in DOMAIN log' : i # n => i \in DOMAIN log
      /\ log'[n].field # f /\ \A i \in DOMAIN log : log'[i] = log[i]
  BY <1>2 DEF Grown
<1> HIDE DEF n, s, r
<1>6. Whence(s, r, f, log') BY <1>4, <1>5, OtherSide
<1> QED BY <1>4, <1>6, SideWillBe DEF s, r

LEMMA TypeKept ==
  ASSUME TypeOK, pc' \in {"idle", "track", "answered"}, answer'.status \in {0, 200, 404, 422, 499, 502},
         answer'.status # 0 <=> pc' = "answered", request' = request, ctx' = ctx, field' \in Fields,
         DOMAIN sides' = Fields, log' \in Seq(Entries)
  PROVE  TypeOK'
<1>1. request' \in [Fields -> Songs \cup {NoSong}] /\ ctx' \in {"live", "canceled", "expired"} BY DEF TypeOK
<1>2. pc' \in {"idle", "track", "artist", "answered"} /\ pc' # "artist" OBVIOUS
<1>3. answer'.status \in {0, 200, 400, 404, 422, 499, 502} OBVIOUS
<1> QED BY <1>1, <1>2, <1>3 DEF TypeOK

LEMMA FailedKeeps ==
  ASSUME IInv, pc \in {"track", "artist"}, NEW step, NEW outcome, Entry(step, outcome) \in Entries,
         Logged(step, outcome), NEW a, Told(a, outcome), Failed(a), UNCHANGED <<request, ctx>>
  PROVE  IInv'
<1>1. TypeOK /\ LookupInv /\ SidesInv BY DEF IInv
<1>2. Grown(step, outcome) BY <1>1, LogGrows
<1>3. /\ pc' = "answered" /\ answer' = a /\ found' = NoTrack
      /\ request' = request /\ ctx' = ctx /\ field' = field /\ sides' = sides
  BY DEF Failed, Answer
<1>4. /\ field \in Fields /\ DOMAIN sides = Fields /\ sides[field] = NoTrack
      /\ field = "song_a" => sides = NoSides /\ \A i \in DOMAIN log : log[i].field = "song_a"
      /\ field = "song_b" => /\ [field |-> "song_a", step |-> "track", outcome |-> "found"] \in Range(log)
                             /\ sides["song_a"] # NoTrack
  BY Looking
<1>5. a.status \in {404, 499, 502} /\ a.song = field BY DEF Told
<1>6. TypeOK'
  <2>1. log' \in Seq(Entries) BY <1>2 DEF Grown
  <2>2. answer'.status \in {0, 200, 404, 422, 499, 502} /\ answer'.status # 0 /\ pc' = "answered"
    BY <1>3, <1>5
  <2> QED BY <1>1, <1>3, <1>4, <2>1, <2>2, TypeKept
<1>7. \A i \in DOMAIN log' : field = "song_a" => log'[i].field = "song_a" BY <1>2, <1>4 DEF Grown
<1>8. FailuresTold'
  <2>1. log' # <<>> /\ Last(log').field = field /\ Last(log').outcome = outcome BY <1>2 DEF Grown
  <2>2. a.status = 404 => outcome \in {"not found"} BY DEF Told
  <2>3. a.status = 499 => outcome \in {"canceled"} /\ ctx = "canceled" BY DEF Told
  <2>4. a.status = 502 => /\ outcome \in {"network", "status", "deadline", "canceled"}
                          /\ a.why = "late" => ctx = "expired"
                          /\ a.retryAfter \in 1..(MaxRetryAfter \div Second)
    BY DEF Told, Delay
  <2>5. answer'.status = 404 => log' # <<>> /\ Last(log').field = answer'.song /\ Last(log').outcome \in {"not found"}
    BY <1>3, <1>5, <2>1, <2>2
  <2>6. answer'.status # 422 /\ answer'.status # 200 BY <1>3, <1>5
  <2>7. answer'.status = 499 => /\ log' # <<>> /\ Last(log').field = answer'.song
                                /\ Last(log').outcome \in {"canceled"} /\ ctx' = "canceled"
    BY <1>3, <1>5, <2>1, <2>3
  <2>8. answer'.status = 502 =>
          /\ log' # <<>> /\ Last(log').field = answer'.song
          /\ Last(log').outcome \in {"network", "status", "deadline", "canceled"}
          /\ answer'.why = "late" => ctx' = "expired"
          /\ answer'.retryAfter \in 1..(MaxRetryAfter \div Second)
    BY <1>3, <1>5, <2>1, <2>4
  <2>9. answer'.song = "song_a" => \A i \in DOMAIN log' : log'[i].field = "song_a" BY <1>3, <1>5, <1>7
  <2> QED BY <2>5, <2>6, <2>7, <2>8, <2>9 DEF FailuresTold
<1>9. LookupInv'
  <2>1. Range(log) \subseteq Range(log') BY <1>2 DEF Grown
  <2> QED BY <1>3, <1>4, <1>7, <1>8, <2>1 DEF LookupInv
<1>10. SidesInv'
  <2>1. ASSUME NEW f \in Fields, sides[f] # NoTrack PROVE SideInv(f)'
    <3>1. f # field /\ sides'[f] = sides[f] BY <1>3, <1>4, <2>1
    <3> QED BY <1>3, <2>1, <3>1, OtherSideKept
  <2>2. answer'.status # 200 BY <1>3, <1>5
  <2> QED BY <1>3, <1>4, <2>1, <2>2 DEF SidesInv
<1> QED BY <1>6, <1>9, <1>10 DEF IInv

\* Resolved, given the track as it is then.
ResolvedTo(side) ==
  /\ found' = NoTrack
  /\ IF DOMAIN Profile(side) = {}
     THEN /\ Answer(Problem(422, "no usable tags", 0))
          /\ UNCHANGED <<field, sides>>
     ELSE /\ sides' = [sides EXCEPT ![field] = side]
          /\ IF field = "song_a"
             THEN /\ field' = "song_b"
                  /\ pc' = "track"
                  /\ UNCHANGED answer
             ELSE /\ Answer(Compared(sides'))
                  /\ UNCHANGED field

\* The lookups a song is resolved after, but for the one that is over now.
Heard ==
  \A i \in DOMAIN log : log[i].field = field => log[i].outcome = "found"

LEMMA ResolvedKeeps ==
  ASSUME IInv, pc \in {"track", "artist"}, NEW step, NEW outcome, Entry(step, outcome) \in Entries,
         Logged(step, outcome), UNCHANGED <<request, ctx>>,
         NEW side, ResolvedTo(side), side # NoTrack,
         DOMAIN Profile(side) = {} => outcome = "found" /\ Heard,
         Whence(side, Song, field, log'),
         [field |-> field, step |-> "track", outcome |-> "found"] \in Range(log')
  PROVE  IInv'
<1> DEFINE have(f) == [field |-> f, step |-> "track", outcome |-> "found"]
<1>1. TypeOK /\ LookupInv /\ SidesInv BY DEF IInv
<1>2. Grown(step, outcome) BY <1>1, LogGrows
<1>3. /\ field \in Fields /\ request \in [Fields -> Songs]
      /\ DOMAIN sides = Fields /\ sides[field] = NoTrack /\ answer.status = 0
      /\ field = "song_a" => sides = NoSides /\ \A i \in DOMAIN log : log[i].field = "song_a"
      /\ field = "song_b" => have("song_a") \in Range(log) /\ sides["song_a"] # NoTrack
  BY Looking
<1>4. \A i \in DOMAIN log' : field = "song_a" => log'[i].field = "song_a" BY <1>2, <1>3 DEF Grown
<1>5. log' \in Seq(Entries) /\ Range(log) \subseteq Range(log') BY <1>2 DEF Grown
<1>6. CASE DOMAIN Profile(side) = {}
  <2>1. /\ pc' = "answered" /\ answer' = Problem(422, "no usable tags", 0) /\ found' = NoTrack
        /\ request' = request /\ ctx' = ctx /\ field' = field /\ sides' = sides
    BY <1>6 DEF ResolvedTo, Answer
  <2>2. answer'.status = 422 /\ answer'.song = field BY <2>1 DEF Problem
  <2>3. TypeOK'
    <3>1. \A s : s = 422 => s # 0 OBVIOUS
    <3>2. answer'.status # 0 /\ pc' = "answered" BY <2>1, <2>2, <3>1
    <3> QED BY <1>1, <1>3, <1>5, <2>1, <2>2, <3>2, TypeKept
  <2>4. FailuresTold'
    <3>1. /\ log' # <<>> /\ Last(log').field = field /\ Last(log').outcome \in {"found"}
          /\ \A i \in DOMAIN log' : log'[i].field = field => log'[i].outcome = "found"
      BY <1>2, <1>6 DEF Grown, Heard
    <3>2. answer'.song = "song_a" => \A i \in DOMAIN log' : log'[i].field = "song_a" BY <1>4, <2>2
    <3>3. Last(log').field = answer'.song /\ answer'.song = field BY <2>2, <3>1
    <3>4. answer'.status \notin {200, 404, 499, 502} BY <2>2
    <3>5. \A i \in DOMAIN log' : log'[i].field = answer'.song => log'[i].outcome = "found" BY <3>1, <3>3
    <3>6. log' # <<>> /\ Last(log').field = answer'.song /\ Last(log').outcome \in {"found"} BY <3>1, <3>3
    <3> QED BY <3>2, <3>4, <3>5, <3>6 DEF FailuresTold
  <2>5. LookupInv' BY <1>3, <1>4, <1>5, <2>1, <2>4 DEF LookupInv
  <2>6. SidesInv'
    <3>1. ASSUME NEW f \in Fields, sides[f] # NoTrack PROVE SideInv(f)'
      <4>1. f # field /\ sides'[f] = sides[f] BY <1>3, <2>1, <3>1
      <4> QED BY <2>1, <3>1, <4>1, OtherSideKept
    <3>2. answer'.status # 200 BY <2>2
    <3> QED BY <1>3, <2>1, <3>1, <3>2 DEF SidesInv
  <2> QED BY <2>3, <2>5, <2>6 DEF IInv
<1>7. CASE DOMAIN Profile(side) # {}
  <2>1. sides' = [sides EXCEPT ![field] = side] /\ found' = NoTrack /\ request' = request /\ ctx' = ctx
    BY <1>7 DEF ResolvedTo
  <2>2. DOMAIN sides' = Fields /\ sides'[field] = side /\ \A f \in Fields \ {field} : sides'[f] = sides[f]
    BY <1>3, <2>1
  <2>3. ASSUME NEW f \in Fields, sides'[f] # NoTrack PROVE SideInv(f)'
    <3>1. CASE f = field
      <4>1. DOMAIN Profile(sides'[f]) # {} BY <1>7, <2>2, <3>1
      <4>2. Whence(sides'[f], request'[f], f, log') BY <2>1, <2>2, <3>1 DEF Song
      <4> QED BY <4>1, <4>2, SideWillBe
    <3>2. CASE f # field
      <4>1. sides'[f] = sides[f] /\ sides[f] # NoTrack BY <2>2, <2>3, <3>2
      <4> QED BY <2>1, <3>2, <4>1, OtherSideKept
    <3> QED BY <3>1, <3>2
  <2>4. CASE field = "song_a"
    <3>1. field' = "song_b" /\ pc' = "track" /\ answer' = answer BY <1>7, <2>4 DEF ResolvedTo
    <3>2. sides["song_b"] = NoTrack BY <1>3, <2>4 DEF NoSides, Fields
    <3>3. sides'["song_a"] # NoTrack /\ sides'["song_b"] = NoTrack BY <2>2, <2>4, <3>2 DEF Fields
    <3>4. TypeOK'
      <4>1. field' \in Fields BY <3>1 DEF Fields
      <4>2. answer'.status = 0 /\ pc' = "track" BY <1>3, <3>1
      <4> QED BY <1>1, <1>5, <2>1, <2>2, <4>1, <4>2, TypeKept
    <3>5. FailuresTold'
      <4>1. answer'.status = 0 BY <1>3, <3>1
      <4> QED BY <4>1 DEF FailuresTold
    <3>6. LookupInv' BY <1>4, <2>4, <3>1, <3>5 DEF LookupInv
    <3>7. SidesInv'
      <4>1. answer'.status # 200 BY <1>3, <3>1
      <4> QED BY <1>3, <2>1, <2>3, <3>1, <3>3, <4>1 DEF SidesInv
    <3> QED BY <3>4, <3>6, <3>7 DEF IInv
  <2>5. CASE field = "song_b"
    <3>1. field' = field /\ pc' = "answered" /\ answer' = Compared(sides') BY <1>7, <2>5 DEF ResolvedTo, Answer
    <3>2. answer'.status = 200 BY <3>1 DEF Compared
    <3>3. \A f \in Fields : sides'[f] # NoTrack BY <1>3, <2>2, <2>5 DEF Fields
    <3>4. TypeOK'
      <4>1. answer'.status # 0 /\ pc' = "answered" /\ field' \in Fields BY <1>3, <3>1, <3>2
      <4> QED BY <1>1, <1>5, <2>1, <2>2, <3>2, <4>1, TypeKept
    <3>5. \A f \in Fields : have(f) \in Range(log') BY <1>3, <1>5, <2>5 DEF Fields
    <3>6. FailuresTold' BY <3>2, <3>5 DEF FailuresTold
    <3>7. LookupInv' BY <2>5, <3>1, <3>5, <3>6 DEF LookupInv, Fields
    <3>8. SidesInv'
      <4>1. NoTrack \notin Range(sides') BY <2>2, <3>3 DEF Range
      <4>2. (answer = Compared(sides))' BY <3>1
      <4>3. sides'["song_a"] # NoTrack BY <3>3 DEF Fields
      <4>4. pc' \notin {"track", "artist"} /\ request' \in [Fields -> Songs] /\ field' = "song_b"
        BY <1>3, <2>1, <2>5, <3>1
      <4> QED BY <2>3, <4>1, <4>2, <4>3, <4>4 DEF SidesInv
    <3> QED BY <3>4, <3>7, <3>8 DEF IInv
  <2> QED BY <1>3, <2>4, <2>5 DEF Fields
<1> QED BY <1>6, <1>7

\* The two forms of a side: with the tags of the recordings alone, and with the
\* artist's.
Thinned(t) ==
  [id |-> t.id, artistID |-> t.artistID, recordingTags |-> t.recordingTags,
   artistTags |-> <<>>, source |-> Thin(t.recordingTags)]

Filled(t) ==
  [id |-> t.id, artistID |-> t.artistID, recordingTags |-> t.recordingTags,
   artistTags |-> ArtistTags(t.artistID),
   source |-> IF Usable(t.recordingTags) > 0 THEN "mixed" ELSE "artist"]

LEMMA SideForms ==
  ASSUME NEW t, IsTrack(t)
  PROVE  /\ [t EXCEPT !.source = Thin(t.recordingTags)] = Thinned(t)
         /\ [t EXCEPT !.artistTags = ArtistTags(t.artistID),
                      !.source = IF Usable(t.recordingTags) > 0 THEN "mixed" ELSE "artist"] = Filled(t)
         /\ Thinned(t) # NoTrack /\ Filled(t) # NoTrack
<1>1. t = [id |-> t.id, artistID |-> t.artistID, recordingTags |-> t.recordingTags,
           artistTags |-> <<>>, source |-> ""]
  BY DEF IsTrack, Single
<1>2. Thinned(t).source \in {"recording", ""} BY DEF Thinned, Thin
<1>3. Filled(t).source \in {"mixed", "artist"} BY DEF Filled
<1>4. NoTrack.source = "none" BY DEF NoTrack
<1>5. Thinned(t) # NoTrack /\ Filled(t) # NoTrack BY <1>2, <1>3, <1>4
<1> DEFINE id == t.id
           artist == t.artistID
           tags == t.recordingTags
           a == ArtistTags(t.artistID)
           thin == Thin(tags)
           full == IF Usable(tags) > 0 THEN "mixed" ELSE "artist"
<1>6. Thinned(t) = [id |-> id, artistID |-> artist, recordingTags |-> tags, artistTags |-> <<>>, source |-> thin]
  BY DEF Thinned
<1>7. Filled(t) = [id |-> id, artistID |-> artist, recordingTags |-> tags, artistTags |-> a, source |-> full]
  BY DEF Filled
<1> HIDE DEF id, artist, tags, a, thin, full
<1>8. t = [id |-> id, artistID |-> artist, recordingTags |-> tags, artistTags |-> <<>>, source |-> ""]
  BY <1>1 DEF id, artist, tags
<1> DEFINE F == {"id", "artistID", "recordingTags", "artistTags", "source"}
           u == [t EXCEPT !.source = thin]
           v == [t EXCEPT !.artistTags = a]
           w == [v EXCEPT !.source = full]
<1>9. /\ DOMAIN t = F /\ t.id = id /\ t.artistID = artist /\ t.recordingTags = tags /\ t.artistTags = <<>>
      /\ t = [f \in F |-> t[f]]
  BY <1>8
<1>10. u = [f \in F |-> IF f = "source" THEN thin ELSE t[f]] BY <1>9
<1>11. v = [f \in F |-> IF f = "artistTags" THEN a ELSE t[f]] BY <1>9
<1>12. w = [f \in F |-> IF f = "source" THEN full ELSE v[f]]
  <2> HIDE DEF v
  <2> QED BY <1>11
<1> HIDE DEF u, v, w
<1>13. u = [id |-> id, artistID |-> artist, recordingTags |-> tags, artistTags |-> <<>>, source |-> thin]
  BY <1>9, <1>10
<1>14. w = [id |-> id, artistID |-> artist, recordingTags |-> tags, artistTags |-> a, source |-> full]
  BY <1>9, <1>11, <1>12
<1>15. u = Thinned(t) /\ w = Filled(t) BY <1>6, <1>7, <1>13, <1>14
<1> USE DEF u, v, w, tags, a, thin, full
<1>16. [t EXCEPT !.source = Thin(t.recordingTags)] = Thinned(t) BY <1>15
<1>17. [t EXCEPT !.artistTags = ArtistTags(t.artistID),
                 !.source = IF Usable(t.recordingTags) > 0 THEN "mixed" ELSE "artist"] = Filled(t)
  BY <1>15
<1> QED BY <1>5, <1>16, <1>17

LEMMA ResolvedSide ==
  ASSUME NEW track, NEW source
  PROVE  Resolved(track, source) <=> ResolvedTo([track EXCEPT !.source = source])
BY DEF Resolved, ResolvedTo

\* Tracks with tags can be compared.
LEMMA UsableCounts ==
  ASSUME NEW t, IsTrack(t)
  PROVE  /\ Usable(t.recordingTags) \in Nat
         /\ Usable(t.recordingTags) > 0 => DOMAIN Profile(Thinned(t)) # {}
<1> DEFINE tags == t.recordingTags
<1>1. tags \in TagLists /\ <<>> \in TagLists BY DEF IsTrack, TagLists
<1>2. Len(tags) \in Nat /\ DOMAIN tags = 1..Len(tags) BY <1>1, ListOf
<1>3. Usable(tags) \in Nat /\ (Usable(tags) = 0 <=> Names(tags) = {}) BY <1>2, NamesOf
<1>4. Thinned(t).recordingTags = tags /\ Thinned(t).artistTags = <<>> BY DEF Thinned
<1>5. DOMAIN Profile(Thinned(t)) = Names(tags) \cup Names(<<>>) BY <1>1, <1>4, ProfileOf DEF Weighs
<1> QED BY <1>3, <1>5

-------------------------------------------------------------------------------
LEMMA TrackAnswersKeeps ==
  ASSUME IInv, TrackAnswers
  PROVE  IInv'
<1>1. pc = "track" /\ UNCHANGED <<request, ctx>> BY DEF TrackAnswers
<1>2. field \in Fields /\ Song \in Songs BY <1>1, Looking
<1>3. PICK track \in Tracks(Song) :
        IF track = NotFound
        THEN /\ Failed(Problem(404, "not found", 0))
             /\ Logged("track", "not found")
        ELSE /\ Logged("track", "found")
             /\ IF Settled(track)
                THEN Resolved(track, Thin(track.recordingTags))
                ELSE pc' = "artist" /\ found' = track /\ UNCHANGED <<field, sides, answer>>
  BY DEF TrackAnswers
<1>4. \A i \in DOMAIN log : log[i].field # field BY <1>1 DEF IInv, LookupInv
<1>5. CASE track = NotFound
  <2>1. Entry("track", "not found") \in Entries BY <1>2 DEF Entry, Entries
  <2>2. Told(Problem(404, "not found", 0), "not found") BY DEF Told, Problem
  <2> QED BY <1>1, <1>3, <1>5, <2>1, <2>2, FailedKeeps
<1>6. CASE track # NotFound
  <2>1. IsTrack(track) BY <1>2, <1>6, TrackOfPages
  <2>2. Entry("track", "found") \in Entries BY <1>2 DEF Entry, Entries
  <2>3. Logged("track", "found") BY <1>3, <1>6
  <2>4. Grown("track", "found") BY <2>2, <2>3, LogGrows DEF IInv
  <2>5. [field |-> field, step |-> "track", outcome |-> "found"] \in Range(log') BY <2>4 DEF Grown, Entry
  <2>6. CASE Settled(track)
    <3> DEFINE side == Thinned(track)
    <3>1. Resolved(track, Thin(track.recordingTags)) BY <1>3, <1>6, <2>6
    <3>2. ResolvedTo(side)
      <4>1. ResolvedTo([track EXCEPT !.source = Thin(track.recordingTags)]) BY <3>1, ResolvedSide
      <4> QED BY <2>1, <4>1, SideForms
    <3>3. Whence(side, Song, field, log')
      <4>1. \A i \in DOMAIN log' : log'[i].field = field => log'[i].step # "artist" /\ log'[i].outcome = "found"
        <5>1. Last(log').step = "track" BY <2>4 DEF Grown, Entry
        <5> QED BY <1>4, <2>4, <5>1 DEF Grown
      <4>2. side = [track EXCEPT !.source = Thin(track.recordingTags)] BY <2>1, SideForms
      <4> HIDE DEF side
      <4> QED BY <1>6, <2>6, <4>1, <4>2 DEF Whence
    <3>4. side # NoTrack BY <2>1, SideForms
    <3>5. Heard BY <1>4 DEF Heard
    <3> HIDE DEF side
    <3> QED BY <1>1, <2>2, <2>3, <2>5, <3>2, <3>3, <3>4, <3>5, ResolvedKeeps
  <2>7. CASE ~Settled(track)
    <3>1. /\ pc' = "artist" /\ found' = track /\ field' = field /\ sides' = sides /\ answer' = answer
          /\ request' = request /\ ctx' = ctx
      BY <1>1, <1>3, <1>6, <2>7
    <3>2. /\ DOMAIN sides = Fields /\ sides[field] = NoTrack /\ answer.status = 0
          /\ field = "song_a" => sides = NoSides /\ \A i \in DOMAIN log : log[i].field = "song_a"
          /\ field = "song_b" => /\ [field |-> "song_a", step |-> "track", outcome |-> "found"] \in Range(log)
                                 /\ sides["song_a"] # NoTrack
          /\ request \in [Fields -> Songs]
      BY <1>1, Looking
    <3>3. TypeOK'
      <4>1. found'.artistID # "" BY <2>7, <3>1 DEF Settled
      <4>2. request' \in [Fields -> Songs \cup {NoSong}] /\ ctx' \in {"live", "canceled", "expired"}
        BY <3>1 DEF IInv, TypeOK
      <4>3. log' \in Seq(Entries) BY <2>4 DEF Grown
      <4>4. answer'.status = 0 /\ answer'.status \in {0, 200, 400, 404, 422, 499, 502} BY <3>1, <3>2
      <4>5. pc' \in {"idle", "track", "artist", "answered"} /\ pc' # "answered" BY <3>1
      <4>6. field' \in Fields /\ DOMAIN sides' = Fields BY <1>2, <3>1, <3>2
      <4> QED BY <4>1, <4>2, <4>3, <4>4, <4>5, <4>6 DEF TypeOK
    <3>4. LookupInv'
      <4>1. FailuresTold'
        <5>1. answer'.status = 0 BY <3>1, <3>2
        <5> QED BY <5>1 DEF FailuresTold
      <4>2. \A i \in DOMAIN log' : log'[i].field = field =>
              log'[i] = [field |-> field, step |-> "track", outcome |-> "found"]
        BY <1>4, <2>4 DEF Grown, Entry
      <4>3. log' # <<>> /\ Last(log') = [field |-> field, step |-> "track", outcome |-> "found"]
        BY <2>4 DEF Grown, Entry
      <4>4. field = "song_a" => \A i \in DOMAIN log' : log'[i].field = "song_a" BY <2>4, <3>2 DEF Grown
      <4>5. Range(log) \subseteq Range(log') BY <2>4 DEF Grown
      <4> QED BY <3>1, <3>2, <4>1, <4>2, <4>3, <4>4, <4>5 DEF LookupInv
    <3>5. SidesInv'
      <4>1. ASSUME NEW f \in Fields, sides[f] # NoTrack PROVE SideInv(f)'
        <5>1. f # field /\ sides'[f] = sides[f] BY <3>1, <3>2, <4>1
        <5> QED BY <1>1, <2>2, <2>3, <3>1, <4>1, <5>1, OtherSideKept
      <4>2. found' \in Tracks(Song)' \ {NotFound} /\ ~Settled(found)'
        <5>1. Song' = Song BY <3>1 DEF Song
        <5>2. Tracks(Song)' = Tracks(Song) BY <5>1
        <5>3. Settled(found)' = Settled(track) BY <3>1
        <5> QED BY <1>6, <2>7, <3>1, <5>2, <5>3
      <4>3. answer'.status # 200 BY <3>1, <3>2
      <4> QED BY <3>1, <3>2, <4>1, <4>2, <4>3 DEF SidesInv
    <3> QED BY <3>3, <3>4, <3>5 DEF IInv
  <2> QED BY <2>6, <2>7
<1> QED BY <1>5, <1>6

LEMMA TrackFailsKeeps ==
  ASSUME IInv, TrackFails
  PROVE  IInv'
<1>1. pc = "track" /\ UNCHANGED <<request, ctx>> BY DEF TrackFails
<1>2. PICK err \in Failures : Failed(LookupError(err)) /\ Logged("track", err.is) BY DEF TrackFails
<1>3. err.is \in {"network", "status", "deadline", "canceled"} BY FailureTyped
<1>4. field \in Fields BY <1>1, Looking
<1> DEFINE is == err.is
<1> HIDE DEF is
<1>5. Entry("track", is) \in Entries BY <1>3, <1>4 DEF Entry, Entries, is
<1>6. Told(LookupError(err), is) BY ErrorTold DEF is
<1>7. Failed(LookupError(err)) /\ Logged("track", is) BY <1>2 DEF is
<1> QED BY <1>1, <1>5, <1>6, <1>7, FailedKeeps

\* What is known while the artist's tags are asked for.
LEMMA AskingArtist ==
  ASSUME IInv, pc = "artist"
  PROVE  /\ field \in Fields /\ Song \in Songs
         /\ found \in Tracks(Song) \ {NotFound} /\ ~Settled(found) /\ IsTrack(found)
         /\ [field |-> field, step |-> "track", outcome |-> "found"] \in Range(log)
         /\ \A i \in DOMAIN log : log[i].field = field => log[i].step = "track" /\ log[i].outcome = "found"
<1>1. field \in Fields /\ Song \in Songs BY Looking
<1>2. found \in Tracks(Song) \ {NotFound} /\ ~Settled(found) BY DEF IInv, SidesInv
<1>3. IsTrack(found) BY <1>1, <1>2, TrackOfPages
<1> DEFINE have == [field |-> field, step |-> "track", outcome |-> "found"]
<1>4. log # <<>> /\ Last(log) = have /\ \A i \in DOMAIN log : log[i].field = field => log[i] = have
  BY DEF IInv, LookupInv
<1>5. have \in Range(log)
  <2>1. log \in Seq(Entries) BY DEF IInv, TypeOK
  <2> HIDE DEF have
  <2>2. Len(log) \in DOMAIN log BY <1>4, <2>1, EmptySeq, LenProperties
  <2> QED BY <1>4, <2>2 DEF Last, Range
<1>6. \A i \in DOMAIN log : log[i].field = field => log[i].step = "track" /\ log[i].outcome = "found"
  BY <1>4
<1> QED BY <1>1, <1>2, <1>3, <1>5, <1>6

LEMMA ArtistAnswersKeeps ==
  ASSUME IInv, ArtistAnswers
  PROVE  IInv'
<1>1. pc = "artist" /\ UNCHANGED <<request, ctx>> /\ Logged("artist", "found") BY DEF ArtistAnswers
<1>2. /\ field \in Fields /\ Song \in Songs
      /\ found \in Tracks(Song) \ {NotFound} /\ ~Settled(found) /\ IsTrack(found)
      /\ [field |-> field, step |-> "track", outcome |-> "found"] \in Range(log)
      /\ \A i \in DOMAIN log : log[i].field = field => log[i].step = "track" /\ log[i].outcome = "found"
  BY <1>1, AskingArtist
<1> DEFINE tags == ArtistTags(found.artistID)
           side == IF Usable(tags) = 0 THEN Thinned(found) ELSE Filled(found)
<1>3. Entry("artist", "found") \in Entries BY <1>2 DEF Entry, Entries
<1>4. Grown("artist", "found") BY <1>1, <1>3, LogGrows DEF IInv
<1>5. [field |-> field, step |-> "track", outcome |-> "found"] \in Range(log') BY <1>2, <1>4 DEF Grown
<1>6. ResolvedTo(side)
  <2>1. CASE Usable(tags) = 0
    <3>1. Resolved(found, Thin(found.recordingTags)) BY <2>1 DEF ArtistAnswers
    <3>2. ResolvedTo([found EXCEPT !.source = Thin(found.recordingTags)]) BY <3>1, ResolvedSide
    <3> QED BY <1>2, <2>1, <3>2, SideForms
  <2>2. CASE Usable(tags) # 0
    <3> DEFINE full == IF Usable(found.recordingTags) > 0 THEN "mixed" ELSE "artist"
               with == [found EXCEPT !.artistTags = tags]
    <3>1. Resolved(with, full) BY <2>2 DEF ArtistAnswers
    <3>2. [with EXCEPT !.source = full] = Filled(found) BY <1>2, SideForms
    <3> HIDE DEF with, full
    <3>3. ResolvedTo([with EXCEPT !.source = full]) BY <3>1, ResolvedSide
    <3> QED BY <2>2, <3>2, <3>3
  <2> QED BY <2>1, <2>2
<1>7. side # NoTrack BY <1>2, SideForms
<1>8. Whence(side, Song, field, log')
  <2>1. \A i \in DOMAIN log' : log'[i].field = field => log'[i].outcome = "found" BY <1>2, <1>4 DEF Grown
  <2>2. \E i \in DOMAIN log' : log'[i].field = field /\ log'[i].step = "artist" /\ log'[i].outcome = "found"
    <3>1. Last(log').step = "artist" BY <1>4 DEF Grown, Entry
    <3> QED BY <1>4, <3>1 DEF Grown
  <2>3. side = IF Usable(tags) = 0 THEN [found EXCEPT !.source = Thin(found.recordingTags)]
               ELSE [found EXCEPT !.artistTags = tags,
                                  !.source = IF Usable(found.recordingTags) > 0 THEN "mixed" ELSE "artist"]
    BY <1>2, SideForms
  <2> HIDE DEF side
  <2> QED BY <1>2, <2>1, <2>2, <2>3 DEF Whence
<1>9. Heard BY <1>2 DEF Heard
<1> HIDE DEF side
<1> QED BY <1>1, <1>3, <1>5, <1>6, <1>7, <1>8, <1>9, ResolvedKeeps

LEMMA ArtistFailsKeeps ==
  ASSUME IInv, ArtistFails
  PROVE  IInv'
<1>1. pc = "artist" /\ UNCHANGED <<request, ctx>> BY DEF ArtistFails
<1>2. /\ field \in Fields /\ Song \in Songs
      /\ found \in Tracks(Song) \ {NotFound} /\ ~Settled(found) /\ IsTrack(found)
      /\ [field |-> field, step |-> "track", outcome |-> "found"] \in Range(log)
      /\ \A i \in DOMAIN log : log[i].field = field => log[i].step = "track" /\ log[i].outcome = "found"
  BY <1>1, AskingArtist
<1>3. PICK err \in Failures :
        /\ Logged("artist", err.is)
        /\ IF KeepsThin(err) THEN Resolved(found, Thin(found.recordingTags)) ELSE Failed(LookupError(err))
  BY DEF ArtistFails
<1> DEFINE is == err.is
           side == Thinned(found)
<1>4. is \in {"network", "status", "deadline", "canceled"} BY FailureTyped
<1>5. Logged("artist", is) BY <1>3
<1> HIDE DEF is
<1>6. Entry("artist", is) \in Entries BY <1>2, <1>4 DEF Entry, Entries
<1>7. CASE ~KeepsThin(err)
  <2>1. Told(LookupError(err), is) BY ErrorTold DEF is
  <2>2. Failed(LookupError(err)) BY <1>3, <1>7
  <2> QED BY <1>1, <1>5, <1>6, <2>1, <2>2, FailedKeeps
<1>8. CASE KeepsThin(err)
  <2>1. Usable(found.recordingTags) > 0 /\ is \in {"network", "status"} BY <1>4, <1>8 DEF KeepsThin, is
  <2>2. Grown("artist", is) BY <1>5, <1>6, LogGrows DEF IInv
  <2>3. [field |-> field, step |-> "track", outcome |-> "found"] \in Range(log') BY <1>2, <2>2 DEF Grown
  <2>4. ResolvedTo(side)
    <3>1. Resolved(found, Thin(found.recordingTags)) BY <1>3, <1>8
    <3>2. ResolvedTo([found EXCEPT !.source = Thin(found.recordingTags)]) BY <3>1, ResolvedSide
    <3> QED BY <1>2, <3>2, SideForms
  <2>5. side # NoTrack BY <1>2, SideForms
  <2>6. DOMAIN Profile(side) # {} BY <1>2, <2>1, UsableCounts
  <2>7. Whence(side, Song, field, log')
    <3>1. \E i \in DOMAIN log' :
            log'[i].field = field /\ log'[i].step = "artist" /\ log'[i].outcome \in {"network", "status"}
      <4>1. Last(log').step = "artist" BY <2>2 DEF Grown, Entry
      <4> QED BY <2>1, <2>2, <4>1 DEF Grown
    <3>2. side = [found EXCEPT !.source = Thin(found.recordingTags)] BY <1>2, SideForms
    <3> HIDE DEF side
    <3> QED BY <1>2, <2>1, <3>1, <3>2 DEF Whence
  <2> HIDE DEF side
  <2> QED BY <1>1, <1>5, <1>6, <2>3, <2>4, <2>5, <2>6, <2>7, ResolvedKeeps
<1> QED BY <1>7, <1>8

-------------------------------------------------------------------------------
\* Nothing is looked up when a request comes in.
LEMMA IdleKeeps ==
  ASSUME IInv, pc = "idle", request' \in [Fields -> Songs \cup {NoSong}],
         UNCHANGED <<field, ctx, found, sides, log>>,
         \/ pc' = "answered" /\ answer'.status = 400
         \/ pc' = "track" /\ answer' = answer /\ request' \in [Fields -> Songs]
  PROVE  IInv'
<1>1. TypeOK /\ LookupInv /\ SidesInv BY DEF IInv
<1>2. log = <<>> /\ field = "song_a" /\ sides = NoSides BY <1>1 DEF LookupInv
<1>3. \A i \in DOMAIN log : FALSE BY <1>2
<1>4. \A f \in Fields : sides[f] = NoTrack BY <1>2 DEF NoSides
<1>5. answer.status = 0 BY <1>1 DEF TypeOK
<1>6. answer'.status \in {0, 400} /\ (answer'.status # 0 <=> pc' = "answered") /\ pc' \in {"track", "answered"}
  <2>1. CASE pc' = "answered" /\ answer'.status = 400
    <3>1. \A s : s = 400 => s # 0 OBVIOUS
    <3> QED BY <2>1, <3>1
  <2>2. CASE pc' = "track" /\ answer' = answer BY <1>5, <2>2
  <2> QED BY <2>1, <2>2
<1>7. TypeOK'
  <2>1. ctx' \in {"live", "canceled", "expired"} /\ log' \in Seq(Entries) /\ DOMAIN sides' = Fields
        /\ field' \in Fields
    BY <1>1 DEF TypeOK
  <2>2. answer'.status \in {0, 200, 400, 404, 422, 499, 502} BY <1>6
  <2>3. pc' \in {"idle", "track", "artist", "answered"} /\ pc' # "artist" BY <1>6
  <2> QED BY <1>6, <2>1, <2>2, <2>3 DEF TypeOK
<1>8. \A s : s \in {0, 400} => s \notin {200, 404, 422, 499, 502} OBVIOUS
<1>9. answer'.status \notin {200, 404, 422, 499, 502} BY <1>6, <1>8
<1>10. LookupInv'
  <2>1. FailuresTold' BY <1>9 DEF FailuresTold
  <2> QED BY <1>2, <1>3, <1>6, <2>1 DEF LookupInv
<1>11. SidesInv'
  <2>1. pc' = "track" => request' \in [Fields -> Songs] OBVIOUS
  <2>2. \A f \in Fields : sides'[f] = NoTrack BY <1>4
  <2>3. field' = "song_a" /\ sides' = NoSides /\ field' \in Fields BY <1>2 DEF Fields
  <2> QED BY <1>6, <1>9, <2>1, <2>2, <2>3 DEF SidesInv
<1> QED BY <1>7, <1>10, <1>11 DEF IInv

LEMMA ArriveKeeps ==
  ASSUME IInv, NEW a \in Songs \cup {NoSong}, NEW b \in Songs \cup {NoSong}, Arrive(a, b)
  PROVE  IInv'
<1>1. /\ pc = "idle" /\ UNCHANGED <<field, ctx, found, sides, log>>
      /\ request' = [song_a |-> a, song_b |-> b]
  BY DEF Arrive
<1>2. request' \in [Fields -> Songs \cup {NoSong}] BY <1>1 DEF Fields
<1>3. CASE a = NoSong \/ b = NoSong
  <2>1. pc' = "answered" /\ answer'.status = 400 BY <1>3 DEF Arrive, Answer
  <2> QED BY <1>1, <1>2, <2>1, IdleKeeps
<1>4. CASE a # NoSong /\ b # NoSong
  <2>1. pc' = "track" /\ answer' = answer BY <1>4 DEF Arrive
  <2>2. request' \in [Fields -> Songs] BY <1>1, <1>4 DEF Fields
  <2> QED BY <1>1, <1>2, <2>1, <2>2, IdleKeeps
<1> QED BY <1>3, <1>4

LEMMA CtxEndsKeeps ==
  ASSUME IInv, CtxEnds
  PROVE  IInv'
<1>1. /\ pc \in {"track", "artist"} /\ ctx' \in {"canceled", "expired"}
      /\ UNCHANGED <<pc, request, field, found, sides, answer, log>>
  BY DEF CtxEnds
<1>2. TypeOK /\ LookupInv /\ SidesInv BY DEF IInv
<1>3. answer.status = 0 BY <1>1, Looking
<1>4. TypeOK' BY <1>1, <1>2 DEF TypeOK
<1>5. FailuresTold' BY <1>1, <1>3 DEF FailuresTold
<1>6. LookupInv' BY <1>1, <1>2, <1>5 DEF LookupInv
<1>7. \A f \in Fields : SideInv(f) => SideInv(f)' BY <1>1 DEF SideInv
<1>8. SidesInv'
  <2>1. answer'.status # 200 BY <1>1, <1>3
  <2>2. Song' = Song BY <1>1 DEF Song
  <2>3. Tracks(Song)' = Tracks(Song) BY <2>2
  <2>4. Settled(found)' = Settled(found) BY <1>1
  <2> QED BY <1>1, <1>2, <1>7, <2>1, <2>3, <2>4 DEF SidesInv
<1> QED BY <1>4, <1>6, <1>8 DEF IInv

\* Where nothing is in hand, the invariant says that nothing is.
LEMMA Afresh ==
  ASSUME pc = "idle", request \in [Fields -> Songs \cup {NoSong}], field = "song_a", ctx = "live",
         sides = NoSides, answer = NoAnswer, log = <<>>
  PROVE  IInv
<1>1. answer.status = 0 BY DEF NoAnswer
<1>2. \A i \in DOMAIN log : FALSE OBVIOUS
<1>3. \A f \in Fields : sides[f] = NoTrack BY DEF NoSides
<1>4. field \in Fields BY DEF Fields
<1>5. TypeOK
  <2>1. log \in Seq(Entries) /\ DOMAIN sides = Fields BY DEF NoSides
  <2>2. pc \in {"idle", "track", "artist", "answered"} /\ pc # "artist" /\ pc # "answered" OBVIOUS
  <2>3. answer.status \in {0, 200, 400, 404, 422, 499, 502} BY <1>1
  <2> QED BY <1>1, <1>4, <2>1, <2>2, <2>3 DEF TypeOK
<1>6. FailuresTold BY <1>1 DEF FailuresTold
<1>7. LookupInv BY <1>2, <1>6 DEF LookupInv
<1>8. SidesInv BY <1>1, <1>3 DEF SidesInv
<1> QED BY <1>5, <1>7, <1>8 DEF IInv

LEMMA ReturnKeeps ==
  ASSUME IInv, Return
  PROVE  IInv'
<1>1. /\ pc' = "idle" /\ field' = "song_a" /\ ctx' = "live"
      /\ sides' = NoSides /\ answer' = NoAnswer /\ log' = <<>>
      /\ request' \in [Fields -> Songs \cup {NoSong}]
  BY DEF Return
<1>2. answer'.status = 0 BY <1>1 DEF NoAnswer
<1>3. \A i \in DOMAIN log' : FALSE BY <1>1
<1>4. \A f \in Fields : sides'[f] = NoTrack BY <1>1 DEF NoSides
<1>5. field' \in Fields BY <1>1 DEF Fields
<1>6. TypeOK'
  <2>1. log' \in Seq(Entries) /\ DOMAIN sides' = Fields BY <1>1 DEF NoSides
  <2>2. pc' \in {"idle", "track", "artist", "answered"} /\ pc' # "artist" /\ pc' # "answered" BY <1>1
  <2>3. answer'.status \in {0, 200, 400, 404, 422, 499, 502} BY <1>2
  <2> QED BY <1>1, <1>2, <1>5, <2>1, <2>2, <2>3 DEF TypeOK
<1>7. FailuresTold' BY <1>2 DEF FailuresTold
<1>8. LookupInv' BY <1>1, <1>3, <1>7 DEF LookupInv
<1>9. SidesInv' BY <1>1, <1>2, <1>4 DEF SidesInv
<1> QED BY <1>6, <1>8, <1>9 DEF IInv

LEMMA StutterKeeps ==
  ASSUME IInv, UNCHANGED <<pc, request, field, ctx, found, sides, answer, log>>
  PROVE  IInv'
<1>1. TypeOK /\ LookupInv /\ SidesInv BY DEF IInv
<1>2. TypeOK'
  <2> USE <1>1 DEF TypeOK
  <2>1. pc' \in {"idle", "track", "artist", "answered"} /\ request' \in [Fields -> Songs \cup {NoSong}] OBVIOUS
  <2>2. field' \in Fields /\ ctx' \in {"live", "canceled", "expired"} /\ DOMAIN sides' = Fields OBVIOUS
  <2>3. (pc' = "artist" => found'.artistID # "") /\ log' \in Seq(Entries) OBVIOUS
  <2>4. answer'.status \in {0, 200, 400, 404, 422, 499, 502}
    <3>1. answer' = answer OBVIOUS
    <3>2. answer.status \in {0, 200, 400, 404, 422, 499, 502} OBVIOUS
    <3> HIDE <1>1 DEF TypeOK
    <3> QED BY ONLY <3>1, <3>2
  <2>5. answer'.status # 0 <=> pc' = "answered" OBVIOUS
  <2> QED BY <2>1, <2>2, <2>3, <2>4, <2>5
<1>3. LookupInv'
  <2>1. FailuresTold BY <1>1 DEF LookupInv
  <2>2. FailuresTold'
    <3> DEFINE told(a, l, outcomes) == l # <<>> /\ Last(l).field = a.song /\ Last(l).outcome \in outcomes
               Tells(a, l, c) ==
                 /\ a.status = 404 => told(a, l, {"not found"})
                 /\ a.status = 422 =>
                      /\ told(a, l, {"found"})
                      /\ \A i \in DOMAIN l : l[i].field = a.song => l[i].outcome = "found"
                 /\ a.status = 499 => told(a, l, {"canceled"}) /\ c = "canceled"
                 /\ a.status = 502 =>
                      /\ told(a, l, {"network", "status", "deadline", "canceled"})
                      /\ a.why = "late" => c = "expired"
                      /\ a.retryAfter \in 1..(MaxRetryAfter \div Second)
                 /\ a.status \in {404, 422, 499, 502} /\ a.song = "song_a" =>
                      \A i \in DOMAIN l : l[i].field = "song_a"
                 /\ a.status = 200 =>
                      \A f \in Fields : [field |-> f, step |-> "track", outcome |-> "found"] \in Range(l)
    <3>1. FailuresTold <=> Tells(answer, log, ctx) BY DEF FailuresTold
    <3>2. FailuresTold' <=> Tells(answer', log', ctx') BY DEF FailuresTold
    <3> HIDE DEF Tells
    <3> QED BY <2>1, <3>1, <3>2
  <2> QED BY <1>1, <2>2 DEF LookupInv
<1>4. \A f \in Fields : SideInv(f) => SideInv(f)' BY DEF SideInv
<1>5. SidesInv'
  <2>1. Song' = Song BY DEF Song
  <2>2. Tracks(Song)' = Tracks(Song) BY <2>1
  <2>3. Settled(found)' = Settled(found) OBVIOUS
  <2>4. Compared(sides)' = Compared(sides) OBVIOUS
  <2> QED BY <1>1, <1>4, <2>2, <2>3, <2>4 DEF SidesInv
<1> QED BY <1>2, <1>3, <1>5 DEF IInv

\* What the lookups of a request have come to, and where the track of each side
\* comes from, is as the invariant says for every set of recordings, artists and
\* headers: handlers.go, resolver.go.
THEOREM CompareInvariant == Spec => []IInv
<1>1. Init => IInv
  <2>1. Init => request \in [Fields -> Songs \cup {NoSong}] BY DEF Init
  <2> QED BY <2>1, Afresh DEF Init
<1>2. IInv /\ [Next]_vars => IInv'
  <2> SUFFICES ASSUME IInv, [Next]_vars PROVE IInv' OBVIOUS
  <2>1. CASE Malformed
    <3>1. /\ pc = "idle" /\ pc' = "answered" /\ answer'.status = 400
          /\ UNCHANGED <<request, field, ctx, found, sides, log>>
      BY <2>1 DEF Malformed, Answer
    <3>2. request' \in [Fields -> Songs \cup {NoSong}] BY <3>1 DEF IInv, TypeOK
    <3> QED BY <3>1, <3>2, IdleKeeps
  <2>2. ASSUME NEW a \in Songs \cup {NoSong}, NEW b \in Songs \cup {NoSong}, Arrive(a, b) PROVE IInv'
    BY <2>2, ArriveKeeps
  <2>3. CASE CtxEnds BY <2>3, CtxEndsKeeps
  <2>4. CASE TrackAnswers BY <2>4, TrackAnswersKeeps
  <2>5. CASE TrackFails BY <2>5, TrackFailsKeeps
  <2>6. CASE ArtistAnswers BY <2>6, ArtistAnswersKeeps
  <2>7. CASE ArtistFails BY <2>7, ArtistFailsKeeps
  <2>8. CASE Return BY <2>8, ReturnKeeps
  <2>9. CASE UNCHANGED vars
    <3>1. UNCHANGED <<pc, request, field, ctx, found, sides, answer, log>> BY <2>9 DEF vars
    <3> QED BY <3>1, StutterKeeps
  <2> QED BY <2>1, <2>2, <2>3, <2>4, <2>5, <2>6, <2>7, <2>8, <2>9 DEF Next
<1> QED BY <1>1, <1>2, PTL DEF Spec

\* What a client is told of a failure is what happened: lookupError and
\* unavailableFor in handlers.go, ParseRetryAfter in musicbrainz.go.
THEOREM CompareFailuresTold == Spec => []FailuresTold
<1>1. IInv => FailuresTold BY DEF IInv, LookupInv
<1> QED BY <1>1, CompareInvariant, PTL

-------------------------------------------------------------------------------
(***************************************************************************)
(* The answer to a comparison.                                             *)
(***************************************************************************)

\* Where the tags of a side of the track t come from.
SideOf(side, t, f, lg) ==
  LET asked(outcomes) == \E i \in DOMAIN lg :
        lg[i].field = f /\ lg[i].step = "artist" /\ lg[i].outcome \in outcomes
      failed == \E i \in DOMAIN lg : lg[i].field = f /\ lg[i].outcome # "found"
  IN  \/ Settled(t) /\ ~asked({"found"}) /\ ~failed /\ side = Thinned(t)
      \/ ~Settled(t) /\ Usable(t.recordingTags) > 0 /\ asked({"network", "status"}) /\ side = Thinned(t)
      \/ ~Settled(t) /\ asked({"found"}) /\ ~failed
         /\ side = IF Usable(ArtistTags(t.artistID)) = 0 THEN Thinned(t) ELSE Filled(t)

LEMMA WhenceIs ==
  ASSUME NEW song \in Songs, NEW side, NEW f, NEW lg, Whence(side, song, f, lg)
  PROVE  \E t \in Tracks(song) \ {NotFound} : IsTrack(t) /\ SideOf(side, t, f, lg)
<1> DEFINE thin(t) == [t EXCEPT !.source = Thin(t.recordingTags)]
           full(t) == [t EXCEPT !.artistTags = ArtistTags(t.artistID),
                                !.source = IF Usable(t.recordingTags) > 0 THEN "mixed" ELSE "artist"]
           asked(outcomes) == \E i \in DOMAIN lg :
             lg[i].field = f /\ lg[i].step = "artist" /\ lg[i].outcome \in outcomes
           failed == \E i \in DOMAIN lg : lg[i].field = f /\ lg[i].outcome # "found"
<1>1. PICK t \in Tracks(song) \ {NotFound} :
        \/ Settled(t) /\ ~asked({"found"}) /\ ~failed /\ side = thin(t)
        \/ ~Settled(t) /\ Usable(t.recordingTags) > 0 /\ asked({"network", "status"}) /\ side = thin(t)
        \/ ~Settled(t) /\ asked({"found"}) /\ ~failed
           /\ side = IF Usable(ArtistTags(t.artistID)) = 0 THEN thin(t) ELSE full(t)
  BY DEF Whence
<1>2. IsTrack(t) BY TrackOfPages
<1>3. thin(t) = Thinned(t) /\ full(t) = Filled(t) BY <1>2, SideForms
<1> HIDE DEF thin, full
<1>4. SideOf(side, t, f, lg) BY <1>1, <1>3 DEF SideOf
<1> QED BY <1>2, <1>4

LEMMA Answered ==
  ASSUME IInv, answer.status = 200
  PROVE  /\ answer = Compared(sides)
         /\ \A f \in Fields :
              /\ request[f] \in Songs /\ DOMAIN Profile(sides[f]) # {}
              /\ \E t \in Tracks(request[f]) \ {NotFound} : IsTrack(t) /\ SideOf(sides[f], t, f, log)
<1>1. TypeOK /\ SidesInv BY DEF IInv
<1>2. /\ answer = Compared(sides) /\ NoTrack \notin Range(sides) /\ request \in [Fields -> Songs]
      /\ \A f \in Fields : sides[f] # NoTrack => SideInv(f)
  BY <1>1 DEF SidesInv
<1>3. ASSUME NEW f \in Fields
      PROVE  /\ request[f] \in Songs /\ DOMAIN Profile(sides[f]) # {}
             /\ \E t \in Tracks(request[f]) \ {NotFound} : IsTrack(t) /\ SideOf(sides[f], t, f, log)
  <2> DEFINE s == sides[f]
             song == request[f]
  <2>1. s # NoTrack BY <1>1, <1>2 DEF Range, TypeOK
  <2>2. SideInv(f) BY <1>2, <2>1
  <2>3. DOMAIN Profile(s) # {} /\ Whence(s, song, f, log) BY <2>2, SideIs
  <2>4. song \in Songs BY <1>2
  <2> HIDE DEF s, song
  <2>5. \E t \in Tracks(song) \ {NotFound} : IsTrack(t) /\ SideOf(s, t, f, log)
    BY <2>3, <2>4, WhenceIs
  <2> QED BY <2>3, <2>4, <2>5 DEF s, song
<1> QED BY <1>2, <1>3

\* The lists of tags a side is profiled from.
LEMMA SideTyped ==
  ASSUME NEW t, IsTrack(t), NEW side, side \in {Thinned(t), Filled(t)}
  PROVE  /\ side.recordingTags = t.recordingTags /\ side.artistID = t.artistID
         /\ side.recordingTags \in TagLists /\ side.artistTags \in TagLists
         /\ side = Thinned(t) => side.artistTags = <<>>
         /\ side = Filled(t) => side.artistTags = ArtistTags(t.artistID)
<1>1. t.recordingTags \in TagLists /\ <<>> \in TagLists BY DEF IsTrack, TagLists
<1>2. ArtistTags(t.artistID) \in TagLists BY TagsOfArtistTyped
<1>3. CASE side = Thinned(t)
  <2>1. side.recordingTags = t.recordingTags /\ side.artistID = t.artistID /\ side.artistTags = <<>>
    BY <1>3 DEF Thinned
  <2>2. side = Filled(t) => side.artistTags = ArtistTags(t.artistID) BY DEF Filled
  <2> QED BY <1>1, <2>1, <2>2
<1>4. CASE side = Filled(t)
  <2>1. /\ side.recordingTags = t.recordingTags /\ side.artistID = t.artistID
        /\ side.artistTags = ArtistTags(t.artistID)
    BY <1>4 DEF Filled
  <2>2. side = Thinned(t) => side.artistTags = <<>> BY DEF Thinned
  <2> QED BY <1>1, <1>2, <2>1, <2>2
<1> QED BY <1>3, <1>4

LEMMA SideProfile ==
  ASSUME IInv, answer.status = 200, NEW f \in Fields
  PROVE  /\ sides[f].recordingTags \in TagLists /\ sides[f].artistTags \in TagLists
         /\ Weighs(Profile(sides[f]), Names(sides[f].recordingTags) \cup Names(sides[f].artistTags))
         /\ Weighs(Profile(sides[f]), DOMAIN Profile(sides[f]))
         /\ DOMAIN Profile(sides[f]) # {}
<1> DEFINE s == sides[f]
<1>1. PICK t \in Tracks(request[f]) \ {NotFound} :
        IsTrack(t) /\ SideOf(s, t, f, log) /\ DOMAIN Profile(s) # {}
  BY Answered
<1> HIDE DEF s
<1>2. s \in {Thinned(t), Filled(t)} BY <1>1 DEF SideOf
<1>3. s.recordingTags \in TagLists /\ s.artistTags \in TagLists BY <1>1, <1>2, SideTyped
<1>4. Weighs(Profile(s), Names(s.recordingTags) \cup Names(s.artistTags)) BY <1>3, ProfileOf
<1>5. Weighs(Profile(s), DOMAIN Profile(s)) BY <1>4 DEF Weighs
<1> QED BY <1>1, <1>3, <1>4, <1>5 DEF s

LEMMA SidesWeigh ==
  ASSUME IInv, answer.status = 200
  PROVE  /\ DOMAIN Profile(sides["song_a"]) # {}
         /\ Weighs(Profile(sides["song_a"]), DOMAIN Profile(sides["song_a"]))
         /\ DOMAIN Profile(sides["song_b"]) # {}
         /\ Weighs(Profile(sides["song_b"]), DOMAIN Profile(sides["song_b"]))
<1>1. ASSUME NEW f \in Fields
      PROVE  DOMAIN Profile(sides[f]) # {} /\ Weighs(Profile(sides[f]), DOMAIN Profile(sides[f]))
  <2>1. DOMAIN Profile(sides[f]) # {} BY Answered
  <2>2. Weighs(Profile(sides[f]), Names(sides[f].recordingTags) \cup Names(sides[f].artistTags))
    BY SideProfile
  <2> QED BY <2>1, <2>2 DEF Weighs
<1>2. "song_a" \in Fields /\ "song_b" \in Fields BY DEF Fields
<1> QED BY <1>1, <1>2

\* The shares of two profiles.
LEMMA Shares ==
  ASSUME NEW a, NEW A, Weighs(a, A), NEW b, NEW B, Weighs(b, B), B # {}, NEW n
  PROVE  /\ Share(a, b, n) \in Int /\ Share(a, b, n) >= 0
         /\ Share(a, b, n) > 0 <=> n \in A
         /\ Sum(b) \in Int /\ Sum(b) > 0
<1>1. Sum(b) \in Int /\ Sum(b) >= 0 /\ (Sum(b) = 0 <=> \A x \in B : b[x] = 0)
  <2>1. IsFiniteSet(B) /\ b \in [B -> Int] /\ \A x \in B : b[x] >= 0 BY DEF Weighs
  <2> QED BY <2>1, SumTyped, SumOfNone
<1>2. Sum(b) > 0
  <2>1. PICK x \in B : TRUE OBVIOUS
  <2>2. b[x] # 0 BY DEF Weighs
  <2> QED BY <1>1, <2>2
<1>3. CASE n \in A
  <2> DEFINE w == a[n]
             s == Sum(b)
  <2>1. w \in Int /\ w > 0 BY <1>3 DEF Weighs
  <2>2. Share(a, b, n) = w * s BY <1>3 DEF Share, Weighs
  <2>3. s \in Int /\ s > 0 BY <1>1, <1>2
  <2> HIDE DEF w, s
  <2>4. w * s \in Int /\ w * s > 0 BY <2>1, <2>3, Product
  <2> QED BY <1>1, <1>2, <1>3, <2>2, <2>4
<1>4. CASE n \notin A
  <2>1. Share(a, b, n) = 0 BY <1>4 DEF Share, Weighs
  <2> QED BY <1>1, <1>2, <1>4, <2>1
<1> QED BY <1>3, <1>4

\* The smaller and the larger of two shares, and their sums.
Lesser(a, b, A, B) == [n \in A \cup B |-> Min({Share(a, b, n), Share(b, a, n)})]
Greater(a, b, A, B) == [n \in A \cup B |-> Max({Share(a, b, n), Share(b, a, n)})]

IsJaccard(a, b, A, B) ==
  /\ WeightedJaccard(a, b) = [num |-> Sum(Lesser(a, b, A, B)), den |-> Sum(Greater(a, b, A, B))]
  /\ IsFiniteSet(A \cup B)
  /\ Lesser(a, b, A, B) \in [A \cup B -> Int] /\ Greater(a, b, A, B) \in [A \cup B -> Int]
  /\ \A n \in A \cup B :
       LET s == Share(a, b, n)
           t == Share(b, a, n)
       IN  /\ s \in Int /\ t \in Int /\ s >= 0 /\ t >= 0
           /\ (s > 0 <=> n \in A) /\ (t > 0 <=> n \in B)
           /\ Lesser(a, b, A, B)[n] = IF s <= t THEN s ELSE t
           /\ Greater(a, b, A, B)[n] = IF s >= t THEN s ELSE t

LEMMA Jaccard ==
  ASSUME NEW a, NEW A, Weighs(a, A), A # {}, NEW b, NEW B, Weighs(b, B), B # {}
  PROVE  IsJaccard(a, b, A, B)
<1>1. DOMAIN a = A /\ DOMAIN b = B /\ IsFiniteSet(A \cup B) BY FS_Union DEF Weighs
<1>2. WeightedJaccard(a, b) = [num |-> Sum(Lesser(a, b, A, B)), den |-> Sum(Greater(a, b, A, B))]
  BY <1>1 DEF WeightedJaccard, Lesser, Greater
<1>3. ASSUME NEW n \in A \cup B
      PROVE  LET s == Share(a, b, n)
                 t == Share(b, a, n)
             IN  /\ s \in Int /\ t \in Int /\ s >= 0 /\ t >= 0
                 /\ (s > 0 <=> n \in A) /\ (t > 0 <=> n \in B)
                 /\ Lesser(a, b, A, B)[n] = IF s <= t THEN s ELSE t
                 /\ Greater(a, b, A, B)[n] = IF s >= t THEN s ELSE t
  <2> DEFINE s == Share(a, b, n)
             t == Share(b, a, n)
  <2>1. s \in Int /\ t \in Int /\ s >= 0 /\ t >= 0 /\ (s > 0 <=> n \in A) /\ (t > 0 <=> n \in B) BY Shares
  <2>2. Lesser(a, b, A, B)[n] = Min({s, t}) /\ Greater(a, b, A, B)[n] = Max({s, t}) BY DEF Lesser, Greater
  <2> HIDE DEF s, t
  <2>3. Max({s, t}) = (IF s >= t THEN s ELSE t) /\ Min({s, t}) = IF s <= t THEN s ELSE t BY <2>1, TwoOfInt
  <2>4. (s > 0 <=> n \in A) /\ (t > 0 <=> n \in B) BY <2>1
  <2>5. /\ Lesser(a, b, A, B)[n] = IF s <= t THEN s ELSE t
        /\ Greater(a, b, A, B)[n] = IF s >= t THEN s ELSE t
    BY <2>2, <2>3
  <2> QED BY <2>1, <2>4, <2>5 DEF s, t
<1>4. Lesser(a, b, A, B) \in [A \cup B -> Int]
  <2>1. \A n \in A \cup B : Lesser(a, b, A, B)[n] \in Int BY <1>3
  <2> QED BY <2>1 DEF Lesser
<1>5. Greater(a, b, A, B) \in [A \cup B -> Int]
  <2>1. \A n \in A \cup B : Greater(a, b, A, B)[n] \in Int BY <1>3
  <2> QED BY <2>1 DEF Greater
<1> QED BY <1>1, <1>2, <1>3, <1>4, <1>5 DEF IsJaccard

LEMMA JaccardOfSame ==
  ASSUME NEW a, NEW A, Weighs(a, A), A # {}
  PROVE  WeightedJaccard(a, a).num = WeightedJaccard(a, a).den
<1>1. /\ WeightedJaccard(a, a) = [num |-> Sum(Lesser(a, a, A, A)), den |-> Sum(Greater(a, a, A, A))]
      /\ Lesser(a, a, A, A) \in [A \cup A -> Int] /\ Greater(a, a, A, A) \in [A \cup A -> Int]
      /\ \A n \in A \cup A : Lesser(a, a, A, A)[n] = Greater(a, a, A, A)[n]
  <2>1. IsJaccard(a, a, A, A) BY Jaccard
  <2>2. \A n \in A \cup A : Lesser(a, a, A, A)[n] = Greater(a, a, A, A)[n] BY <2>1 DEF IsJaccard
  <2> QED BY <2>1, <2>2 DEF IsJaccard
<1>2. Lesser(a, a, A, A) = Greater(a, a, A, A) BY <1>1
<1> QED BY <1>1, <1>2

LEMMA JaccardBounds ==
  ASSUME NEW a, NEW A, Weighs(a, A), A # {}, NEW b, NEW B, Weighs(b, B), B # {}
  PROVE  LET s == WeightedJaccard(a, b)
         IN  s.num \in 0..s.den /\ s.den > 0 /\ (s.num = 0 <=> A \cap B = {})
<1> DEFINE S == A \cup B
           v == Lesser(a, b, A, B)
           w == Greater(a, b, A, B)
<1>0. IsJaccard(a, b, A, B) BY Jaccard
<1>1. /\ WeightedJaccard(a, b) = [num |-> Sum(v), den |-> Sum(w)]
      /\ IsFiniteSet(S) /\ v \in [S -> Int] /\ w \in [S -> Int]
  BY <1>0 DEF IsJaccard
<1>2. ASSUME NEW n \in S
      PROVE  v[n] >= 0 /\ w[n] >= 0 /\ v[n] <= w[n] /\ (v[n] = 0 <=> n \notin A \cap B) /\ w[n] # 0
  <2> DEFINE x == Share(a, b, n)
             y == Share(b, a, n)
  <2>1. /\ x \in Int /\ y \in Int /\ x >= 0 /\ y >= 0 /\ (x > 0 <=> n \in A) /\ (y > 0 <=> n \in B)
        /\ v[n] = (IF x <= y THEN x ELSE y) /\ w[n] = (IF x >= y THEN x ELSE y)
    BY <1>0 DEF IsJaccard
  <2> HIDE DEF x, y, v, w
  <2> QED BY <2>1
<1> HIDE DEF v, w, S
<1>3. Sum(v) \in Int /\ Sum(w) \in Int BY <1>1, SumTyped
<1>4. Sum(v) <= Sum(w) BY <1>1, <1>2, SumMonotone
<1>5. Sum(v) >= 0 /\ (Sum(v) = 0 <=> \A n \in S : v[n] = 0) BY <1>1, <1>2, SumOfNone
<1>6. Sum(w) >= 0 /\ (Sum(w) = 0 <=> \A n \in S : w[n] = 0) BY <1>1, <1>2, SumOfNone
<1>7. PICK n \in S : TRUE BY DEF S
<1>8. Sum(w) > 0 BY <1>2, <1>3, <1>6, <1>7
<1>9. Sum(v) = 0 <=> A \cap B = {} BY <1>2, <1>5 DEF S
<1> QED BY <1>1, <1>3, <1>4, <1>5, <1>8, <1>9

LEMMA JaccardSwapped ==
  ASSUME NEW a, NEW A, Weighs(a, A), A # {}, NEW b, NEW B, Weighs(b, B), B # {}
  PROVE  WeightedJaccard(b, a) = WeightedJaccard(a, b)
<1> DEFINE S == A \cup B
           v == Lesser(a, b, A, B)
           w == Greater(a, b, A, B)
           vv == Lesser(b, a, B, A)
           ww == Greater(b, a, B, A)
<1>0. IsJaccard(a, b, A, B) /\ IsJaccard(b, a, B, A) BY Jaccard
<1>1. /\ WeightedJaccard(a, b) = [num |-> Sum(v), den |-> Sum(w)] /\ v \in [S -> Int] /\ w \in [S -> Int]
      /\ \A n \in S : LET x == Share(a, b, n)
                          y == Share(b, a, n)
                      IN  /\ x \in Int /\ y \in Int
                          /\ v[n] = (IF x <= y THEN x ELSE y) /\ w[n] = (IF x >= y THEN x ELSE y)
  BY <1>0 DEF IsJaccard
<1>2. B \cup A = S OBVIOUS
<1>3. /\ WeightedJaccard(b, a) = [num |-> Sum(vv), den |-> Sum(ww)] /\ vv \in [S -> Int] /\ ww \in [S -> Int]
      /\ \A n \in S : LET x == Share(b, a, n)
                          y == Share(a, b, n)
                      IN  vv[n] = (IF x <= y THEN x ELSE y) /\ ww[n] = (IF x >= y THEN x ELSE y)
  BY <1>0, <1>2 DEF IsJaccard
<1>4. ASSUME NEW n \in S PROVE vv[n] = v[n] /\ ww[n] = w[n]
  <2> DEFINE x == Share(a, b, n)
             y == Share(b, a, n)
  <2>1. /\ x \in Int /\ y \in Int
        /\ v[n] = (IF x <= y THEN x ELSE y) /\ w[n] = (IF x >= y THEN x ELSE y)
        /\ vv[n] = (IF y <= x THEN y ELSE x) /\ ww[n] = (IF y >= x THEN y ELSE x)
    BY <1>1, <1>3
  <2> HIDE DEF x, y, v, w, vv, ww
  <2> QED BY <2>1
<1> HIDE DEF v, w, vv, ww, S
<1>5. vv = v /\ ww = w BY <1>1, <1>3, <1>4
<1> QED BY <1>1, <1>3, <1>5

\* A factor of one of the two weights of a name, or of one of the two totals.
LEMMA Distributes ==
  ASSUME NEW w \in Int, NEW x \in Int, NEW y \in Int, NEW k \in Int, NEW l \in Int
  PROVE  /\ w * (3 * x) * k + y * (3 * l) = 3 * (w * x * k + y * l)
         /\ w * x * (3 * k) + (3 * y) * l = 3 * (w * x * k + y * l)
OBVIOUS

\* A profile of three times the weights.
LEMMA JaccardScaled ==
  ASSUME NEW a, NEW A, Weighs(a, A), A # {}, NEW b, NEW B, Weighs(b, B), B # {},
         NEW c, c = [n \in A |-> 3 * a[n]]
  PROVE  /\ WeightedJaccard(c, b).num = 3 * WeightedJaccard(a, b).num
         /\ WeightedJaccard(c, b).den = 3 * WeightedJaccard(a, b).den
         /\ WeightedJaccard(a, b).num \in Int /\ WeightedJaccard(a, b).den \in Int
<1> DEFINE S == A \cup B
           v == Lesser(a, b, A, B)
           w == Greater(a, b, A, B)
           vv == Lesser(c, b, A, B)
           ww == Greater(c, b, A, B)
<1>1. IsFiniteSet(A) /\ DOMAIN a = A /\ a \in [A -> Int] /\ \A n \in A : a[n] > 0 BY DEF Weighs
<1>2. Weighs(c, A)
  <2>1. c \in [A -> Int] /\ DOMAIN c = A /\ \A n \in A : c[n] > 0 BY <1>1
  <2> QED BY <1>1, <2>1 DEF Weighs
<1>3. Sum(c) = 3 * Sum(a)
  <2>1. c \in [A -> Int] /\ \A n \in A : c[n] = 3 * a[n] BY <1>1
  <2> QED BY <1>1, <2>1, SumTimes
<1>4. /\ WeightedJaccard(a, b) = [num |-> Sum(v), den |-> Sum(w)]
      /\ IsFiniteSet(S) /\ v \in [S -> Int] /\ w \in [S -> Int]
      /\ \A n \in S : LET x == Share(a, b, n)
                          y == Share(b, a, n)
                      IN  v[n] = (IF x <= y THEN x ELSE y) /\ w[n] = (IF x >= y THEN x ELSE y)
  <2>1. IsJaccard(a, b, A, B) BY Jaccard
  <2> QED BY <2>1 DEF IsJaccard
<1>5. /\ WeightedJaccard(c, b) = [num |-> Sum(vv), den |-> Sum(ww)] /\ vv \in [S -> Int] /\ ww \in [S -> Int]
      /\ \A n \in S : LET x == Share(c, b, n)
                          y == Share(b, c, n)
                      IN  vv[n] = (IF x <= y THEN x ELSE y) /\ ww[n] = (IF x >= y THEN x ELSE y)
  <2>1. IsJaccard(c, b, A, B) BY <1>2, Jaccard
  <2> QED BY <2>1 DEF IsJaccard
<1>6. ASSUME NEW n \in S
      PROVE  /\ Share(c, b, n) = 3 * Share(a, b, n) /\ Share(b, c, n) = 3 * Share(b, a, n)
             /\ Share(a, b, n) \in Int /\ Share(b, a, n) \in Int
  <2> DEFINE s == Sum(b)
             r == Sum(a)
  <2>1. s \in Int /\ r \in Int /\ Share(a, b, n) \in Int /\ Share(b, a, n) \in Int BY Shares
  <2>2. DOMAIN b = B /\ b \in [B -> Int] BY DEF Weighs
  <2>3. Share(c, b, n) = 3 * Share(a, b, n)
    <3>1. CASE n \in A
      <4>1. Share(c, b, n) = 3 * a[n] * s /\ Share(a, b, n) = a[n] * s /\ a[n] \in Int
        BY <1>1, <3>1 DEF Share
      <4> HIDE DEF s
      <4>2. \A k \in Int : 3 * k * s = 3 * (k * s) BY <2>1
      <4> QED BY <4>1, <4>2
    <3>2. CASE n \notin A
      <4>1. Share(c, b, n) = 0 /\ Share(a, b, n) = 0 BY <1>1, <3>2 DEF Share
      <4> QED BY <4>1
    <3> QED BY <3>1, <3>2
  <2>4. Share(b, c, n) = 3 * Share(b, a, n)
    <3>1. CASE n \in B
      <4>1. Share(b, c, n) = b[n] * (3 * r) /\ Share(b, a, n) = b[n] * r /\ b[n] \in Int
        BY <1>3, <2>2, <3>1 DEF Share
      <4> HIDE DEF r
      <4>2. \A k \in Int : k * (3 * r) = 3 * (k * r) BY <2>1
      <4> QED BY <4>1, <4>2
    <3>2. CASE n \notin B
      <4>1. Share(b, c, n) = 0 /\ Share(b, a, n) = 0 BY <2>2, <3>2 DEF Share
      <4> QED BY <4>1
    <3> QED BY <3>1, <3>2
  <2> QED BY <2>1, <2>3, <2>4
<1>7. ASSUME NEW n \in S PROVE vv[n] = 3 * v[n] /\ ww[n] = 3 * w[n]
  <2> DEFINE x == Share(a, b, n)
             y == Share(b, a, n)
             xx == Share(c, b, n)
             yy == Share(b, c, n)
  <2>1. /\ x \in Int /\ y \in Int /\ xx = 3 * x /\ yy = 3 * y
        /\ v[n] = (IF x <= y THEN x ELSE y) /\ w[n] = (IF x >= y THEN x ELSE y)
        /\ vv[n] = (IF xx <= yy THEN xx ELSE yy) /\ ww[n] = (IF xx >= yy THEN xx ELSE yy)
    BY <1>4, <1>5, <1>6
  <2> HIDE DEF x, y, xx, yy, v, w, vv, ww
  <2> QED BY <2>1
<1> HIDE DEF v, w, vv, ww, S
<1>8. Sum(vv) = 3 * Sum(v) /\ Sum(ww) = 3 * Sum(w) BY <1>4, <1>5, <1>7, SumTimes
<1>9. Sum(v) \in Int /\ Sum(w) \in Int BY <1>4, SumTyped
<1> QED BY <1>4, <1>5, <1>8, <1>9

-------------------------------------------------------------------------------
\* A song compared with itself scores 1 whenever both times name one artist, and
\* is one track if it has tags of its own or all its recordings fit a page, as
\* long as those with tags do and its artist's tags could be had both times or
\* neither: SearchTrack and bestTagged in musicbrainz.go, weighted.go.
THEOREM CompareSelfSimilar == Spec => []SelfSimilar
<1>1. IInv => SelfSimilar
  <2> DEFINE song == request["song_a"]
             s == sides["song_a"]
             r == sides["song_b"]
             p == Profile(s)
             q == Profile(r)
  <2> SUFFICES ASSUME IInv, answer.status = 200, request["song_a"] = request["song_b"],
                      answer.source["song_a"] = answer.source["song_b"],
                      Cardinality(TaggedRecordings(song)) <= TaggedLimit
               PROVE  /\ s.artistID = r.artistID =>
                           answer.result.weighted.num = answer.result.weighted.den
                      /\ s.recordingTags # <<>> \/ Cardinality(Recordings[song]) <= PlainLimit => s = r
    BY DEF SelfSimilar
  <2>1. "song_a" \in Fields /\ "song_b" \in Fields BY DEF Fields
  <2>2. /\ answer = Compared(sides) /\ song \in Songs
        /\ \E t \in Tracks(song) \ {NotFound} : IsTrack(t) /\ SideOf(s, t, "song_a", log)
        /\ \E t \in Tracks(song) \ {NotFound} : IsTrack(t) /\ SideOf(r, t, "song_b", log)
    BY <2>1, Answered
  <2>3. s.source = r.source /\ answer.result = Compare(p, q) BY <2>1, <2>2 DEF Compared
  <2>4. DOMAIN p # {} /\ Weighs(p, DOMAIN p) BY <2>1, SideProfile
  <2> HIDE DEF song, s, r, p, q
  <2>5. PICK t \in Tracks(song) \ {NotFound} : IsTrack(t) /\ SideOf(s, t, "song_a", log) BY <2>2
  <2>6. PICK u \in Tracks(song) \ {NotFound} : IsTrack(u) /\ SideOf(r, u, "song_b", log) BY <2>2
  <2>7. /\ t.recordingTags = u.recordingTags
        /\ t.recordingTags # <<>> \/ Cardinality(Recordings[song]) <= PlainLimit => t = u
    BY <2>2, TracksOfSong
  <2>8. \/ s = Thinned(t) /\ r = Thinned(u)
        \/ s = Filled(t) /\ r = Filled(u)
    <3>1. s \in {Thinned(t), Filled(t)} /\ r \in {Thinned(u), Filled(u)} BY <2>5, <2>6 DEF SideOf
    <3>2. /\ Thinned(t).source \in {"recording", ""} /\ Filled(t).source \in {"mixed", "artist"}
          /\ Thinned(u).source \in {"recording", ""} /\ Filled(u).source \in {"mixed", "artist"}
      BY DEF Thinned, Thin, Filled
    <3>3. ~(s = Thinned(t) /\ r = Filled(u)) BY <2>3, <3>2
    <3>4. ~(s = Filled(t) /\ r = Thinned(u)) BY <2>3, <3>2
    <3> QED BY <3>1, <3>3, <3>4
  <2>9. /\ s.recordingTags = t.recordingTags /\ s.recordingTags = r.recordingTags
        /\ s.artistID = r.artistID => s.artistTags = r.artistTags
    BY <2>7, <2>8 DEF Thinned, Filled
  <2>10. ASSUME s.artistID = r.artistID PROVE answer.result.weighted.num = answer.result.weighted.den
    <3>1. p = q BY <2>9, <2>10 DEF p, q, Profile
    <3>2. WeightedJaccard(p, p).num = WeightedJaccard(p, p).den
      <4> DEFINE N == DOMAIN p
      <4>1. Weighs(p, N) /\ N # {} BY <2>4
      <4> HIDE DEF N
      <4> QED BY <4>1, JaccardOfSame
    <3>3. answer.result.weighted = WeightedJaccard(p, p) BY <2>3, <3>1 DEF Compare
    <3> QED BY <3>2, <3>3
  <2>11. ASSUME s.recordingTags # <<>> \/ Cardinality(Recordings[song]) <= PlainLimit PROVE s = r
    <3>1. t = u BY <2>7, <2>9, <2>11
    <3> QED BY <2>8, <3>1
  <2> QED BY <2>10, <2>11
<1> QED BY <1>1, CompareInvariant, PTL

\* Votes three times as many, for one of a track's two lists of tags.
LEMMA TripledVotes ==
  ASSUME NEW tags \in TagLists, Voted(tags)
  PROVE  /\ Tripled(tags) \in TagLists /\ Names(Tripled(tags)) = Names(tags)
         /\ \A n \in Names(tags) : VotesByTag(Tripled(tags))[n] = 3 * VotesByTag(tags)[n]
<1> DEFINE more == Tripled(tags)
           of(n) == {i \in DOMAIN tags : Normalize(tags[i].name) = n}
           counted(n) == [i \in of(n) |-> Max({tags[i].count, 1})]
           tripled(n) == [i \in of(n) |-> Max({3 * tags[i].count, 1})]
<1>1. /\ Len(tags) \in Nat /\ DOMAIN tags = 1..Len(tags)
      /\ \A i \in DOMAIN tags : tags[i].name \in DOMAIN Place /\ tags[i].count \in Int /\ tags[i].count >= 1
  BY ListOf DEF Voted
<1>2. /\ DOMAIN more = 1..Len(tags)
      /\ \A i \in DOMAIN tags : more[i] = [name |-> tags[i].name, count |-> 3 * tags[i].count]
  <2>1. \A i \in DOMAIN tags : tags[i] \in [name : DOMAIN Place, count : Int]
    BY <1>1, ElementOfSeq DEF TagLists
  <2> QED BY <1>1, <2>1 DEF Tripled
<1>3. more \in TagLists
  <2>1. \A i \in 1..Len(tags) : more[i] \in [name : DOMAIN Place, count : Int] BY <1>1, <1>2
  <2>2. more = [i \in 1..Len(tags) |-> more[i]] BY <1>1 DEF Tripled
  <2> HIDE DEF more
  <2> QED BY <1>1, <2>1, <2>2, IsASeq DEF TagLists
<1>4. /\ DOMAIN more = DOMAIN tags
      /\ \A i \in DOMAIN tags : more[i].name = tags[i].name /\ more[i].count = 3 * tags[i].count
  <2> HIDE DEF more
  <2> QED BY <1>1, <1>2
<1>5. Names(more) = Names(tags) BY <1>4 DEF Names
<1>6. ASSUME NEW n \in Names(tags)
      PROVE  VotesByTag(tags)[n] = Sum(counted(n)) /\ VotesByTag(more)[n] = Sum(tripled(n))
  <2>1. Range(NormalizeAll(TagNames(tags))) = Names(tags) BY <1>1, NamesOf
  <2>2. Range(NormalizeAll(TagNames(more))) = Names(tags) BY <1>1, <1>2, <1>5, NamesOf
  <2>3. VotesByTag(tags)[n] = Sum(counted(n)) BY <2>1 DEF VotesByTag
  <2>4. {i \in DOMAIN more : Normalize(more[i].name) = n} = of(n) BY <1>4
  <2>5. \A i \in of(n) : more[i].count = 3 * tags[i].count BY <1>4
  <2>6. [i \in of(n) |-> Max({more[i].count, 1})] = tripled(n) BY <2>5
  <2>7. VotesByTag(more)[n] = Sum([i \in {j \in DOMAIN more : Normalize(more[j].name) = n} |->
                                     Max({more[i].count, 1})])
    BY <2>2 DEF VotesByTag
  <2> HIDE DEF more, of
  <2> QED BY <2>3, <2>4, <2>6, <2>7
<1>7. ASSUME NEW n \in Names(tags) PROVE Sum(tripled(n)) = 3 * Sum(counted(n))
  <2> DEFINE I == of(n)
             c == counted(n)
             d == tripled(n)
  <2>1. IsFiniteSet(I)
    <3>1. IsFiniteSet(DOMAIN tags) BY <1>1, FS_Interval
    <3> QED BY <3>1, FS_Subset
  <2>2. ASSUME NEW i \in I PROVE Max({tags[i].count, 1}) \in Int
                                 /\ Max({3 * tags[i].count, 1}) \in Int
                                 /\ Max({3 * tags[i].count, 1}) = 3 * Max({tags[i].count, 1})
    <3> DEFINE k == tags[i].count
    <3>1. k \in Int /\ k >= 1 /\ 3 * k \in Int /\ 3 * k >= 1 BY <1>1
    <3> HIDE DEF k
    <3>2. Max({k, 1}) = k /\ Max({3 * k, 1}) = 3 * k BY <3>1, TwoOfInt
    <3> QED BY <3>1, <3>2 DEF k
  <2>3. c \in [I -> Int] /\ d \in [I -> Int] /\ \A i \in I : d[i] = 3 * c[i] BY <2>2
  <2> HIDE DEF I, c, d
  <2>4. Sum(d) = 3 * Sum(c) BY <2>1, <2>3, SumTimes
  <2> QED BY <2>4 DEF c, d
<1> QED BY <1>3, <1>5, <1>6, <1>7

\* What that does to the list's part in the profile: nothing if it has no names.
LEMMA TripledWeights ==
  ASSUME NEW v, NEW w, NEW N, Weighs(v, N), Weighs(w, N), \A n \in N : w[n] = 3 * v[n]
  PROVE  /\ Max({Sum(v), 1}) \in Int /\ Max({Sum(w), 1}) \in Int
         /\ N = {} => Max({Sum(w), 1}) = Max({Sum(v), 1})
         /\ N # {} => Max({Sum(w), 1}) = 3 * Max({Sum(v), 1})
<1> DEFINE s == Sum(v)
           t == Sum(w)
<1>1. /\ IsFiniteSet(N) /\ v \in [N -> Int] /\ w \in [N -> Int] /\ \A n \in N : v[n] > 0
  BY DEF Weighs
<1>2. s \in Int /\ t \in Int /\ t = 3 * s BY <1>1, SumTyped, SumTimes
<1>3. s >= 0 /\ (s = 0 <=> N = {})
  <2>1. \A n \in N : v[n] \in Int /\ v[n] >= 0 /\ v[n] # 0 BY <1>1
  <2>2. Sum(v) >= 0 /\ (Sum(v) = 0 <=> \A n \in N : v[n] = 0) BY <1>1, <2>1, SumOfNone
  <2> QED BY <2>1, <2>2
<1> HIDE DEF s, t
<1>4. Max({s, 1}) = (IF s >= 1 THEN s ELSE 1) /\ Max({t, 1}) = (IF t >= 1 THEN t ELSE 1)
  BY <1>2, TwoOfInt
<1> QED BY <1>2, <1>3, <1>4 DEF s, t

\* The profile of a track with three times the votes in one of its lists is the
\* same, or three times the same.
Times(p, m) == [n \in DOMAIN p |-> m * p[n]]

LEMMA TripledProfile ==
  ASSUME NEW s, s.recordingTags \in TagLists, s.artistTags \in TagLists, NEW o,
         \/ /\ Voted(s.recordingTags) /\ o.recordingTags = Tripled(s.recordingTags)
            /\ o.artistTags = s.artistTags
         \/ /\ Voted(s.artistTags) /\ o.artistTags = Tripled(s.artistTags)
            /\ o.recordingTags = s.recordingTags
  PROVE  Profile(o) = Profile(s) \/ Profile(o) = Times(Profile(s), 3)
<1> DEFINE R == Names(s.recordingTags)
           A == Names(s.artistTags)
           rec == VotesByTag(s.recordingTags)
           art == VotesByTag(s.artistTags)
           recs == VotesByTag(o.recordingTags)
           arts == VotesByTag(o.artistTags)
           Weight(votes, n) == IF n \in DOMAIN votes THEN votes[n] ELSE 0
           k == Max({Sum(art), 1})
           l == Max({Sum(rec), 1})
           kk == Max({Sum(arts), 1})
           ll == Max({Sum(recs), 1})
<1>1. /\ Weighs(rec, R) /\ Weighs(art, A) /\ Weighs(recs, R) /\ Weighs(arts, A)
      /\ \/ (\A n \in R : recs[n] = 3 * rec[n]) /\ arts = art
         \/ (\A n \in A : arts[n] = 3 * art[n]) /\ recs = rec
  <2>1. Weighs(rec, R) /\ Weighs(art, A) BY VotesOf
  <2>2. CASE Voted(s.recordingTags) /\ o.recordingTags = Tripled(s.recordingTags) /\ o.artistTags = s.artistTags
    <3>1. /\ o.recordingTags \in TagLists /\ Names(o.recordingTags) = R
          /\ \A n \in R : recs[n] = 3 * rec[n]
      BY <2>2, TripledVotes
    <3> QED BY <2>1, <2>2, <3>1, VotesOf
  <2>3. CASE Voted(s.artistTags) /\ o.artistTags = Tripled(s.artistTags) /\ o.recordingTags = s.recordingTags
    <3>1. /\ o.artistTags \in TagLists /\ Names(o.artistTags) = A
          /\ \A n \in A : arts[n] = 3 * art[n]
      BY <2>3, TripledVotes
    <3> QED BY <2>1, <2>3, <3>1, VotesOf
  <2> QED BY <2>2, <2>3
<1>2. /\ Profile(s) = [n \in R \cup A |-> RecordingWeight * Weight(rec, n) * k + Weight(art, n) * l]
      /\ Profile(o) = [n \in R \cup A |-> RecordingWeight * Weight(recs, n) * kk + Weight(arts, n) * ll]
  BY <1>1 DEF Profile, Weighs
<1>3. RecordingWeight \in Int
  <2>1. RecordingWeight \in Nat \ {0} BY ProfileAssumption
  <2> QED BY <2>1
<1> HIDE DEF rec, art, recs, arts, R, A
<1>4. ASSUME NEW n \in R \cup A PROVE Weight(rec, n) \in Int /\ Weight(art, n) \in Int
  BY <1>1 DEF Weighs
<1>5. CASE (\A n \in R : recs[n] = 3 * rec[n]) /\ arts = art
  <2>1. /\ k \in Int /\ kk = k /\ l \in Int /\ ll \in Int
        /\ (R = {} => ll = l) /\ (R # {} => ll = 3 * l)
    <3>1. k \in Int
      <4>1. Sum(art) \in Int BY <1>1, SumTyped DEF Weighs
      <4> QED BY <4>1, TwoOfInt
    <3>2. Weighs(rec, R) /\ Weighs(recs, R) /\ \A n \in R : recs[n] = 3 * rec[n] BY <1>1, <1>5
    <3>3. l \in Int /\ ll \in Int /\ (R = {} => ll = l) /\ (R # {} => ll = 3 * l)
      BY <3>2, TripledWeights
    <3>4. kk = k BY <1>5
    <3> HIDE DEF k, l, kk, ll
    <3> QED BY <3>1, <3>3, <3>4
  <2> HIDE DEF k, l, kk, ll
  <2>2. CASE R = {}
    <3>1. \A n \in A : Weight(recs, n) = 0 /\ Weight(rec, n) = 0 BY <1>1, <2>2 DEF Weighs
    <3> HIDE DEF Weight
    <3> QED BY <1>2, <1>5, <2>1, <2>2, <3>1
  <2>3. CASE R # {}
    <3>1. \A n \in R \cup A : Weight(recs, n) = 3 * Weight(rec, n) /\ Weight(arts, n) = Weight(art, n)
      BY <1>1, <1>5 DEF Weighs
    <3>2. ASSUME NEW n \in R \cup A
          PROVE  RecordingWeight * Weight(recs, n) * kk + Weight(arts, n) * ll
                 = 3 * (RecordingWeight * Weight(rec, n) * k + Weight(art, n) * l)
      <4> DEFINE x == Weight(rec, n)
                 y == Weight(art, n)
      <4>1. x \in Int /\ y \in Int /\ Weight(recs, n) = 3 * x /\ Weight(arts, n) = y BY <1>4, <3>1
      <4> HIDE DEF x, y, Weight
      <4>2. RecordingWeight * (3 * x) * k + y * (3 * l) = 3 * (RecordingWeight * x * k + y * l)
        BY <1>3, <2>1, <4>1, Distributes
      <4> QED BY <2>1, <2>3, <4>1, <4>2 DEF x, y
    <3> HIDE DEF Weight
    <3> QED BY <1>2, <3>2 DEF Times
  <2> QED BY <2>2, <2>3
<1>6. CASE (\A n \in A : arts[n] = 3 * art[n]) /\ recs = rec
  <2>1. /\ l \in Int /\ ll = l /\ k \in Int /\ kk \in Int
        /\ (A = {} => kk = k) /\ (A # {} => kk = 3 * k)
    <3>1. l \in Int
      <4>1. Sum(rec) \in Int BY <1>1, SumTyped DEF Weighs
      <4> QED BY <4>1, TwoOfInt
    <3>2. Weighs(art, A) /\ Weighs(arts, A) /\ \A n \in A : arts[n] = 3 * art[n] BY <1>1, <1>6
    <3>3. k \in Int /\ kk \in Int /\ (A = {} => kk = k) /\ (A # {} => kk = 3 * k)
      BY <3>2, TripledWeights
    <3>4. ll = l BY <1>6
    <3> HIDE DEF k, l, kk, ll
    <3> QED BY <3>1, <3>3, <3>4
  <2> HIDE DEF k, l, kk, ll
  <2>2. CASE A = {}
    <3>1. \A n \in R : Weight(arts, n) = 0 /\ Weight(art, n) = 0 BY <1>1, <2>2 DEF Weighs
    <3> HIDE DEF Weight
    <3> QED BY <1>2, <1>6, <2>1, <2>2, <3>1
  <2>3. CASE A # {}
    <3>1. \A n \in R \cup A : Weight(arts, n) = 3 * Weight(art, n) /\ Weight(recs, n) = Weight(rec, n)
      BY <1>1, <1>6 DEF Weighs
    <3>2. ASSUME NEW n \in R \cup A
          PROVE  RecordingWeight * Weight(recs, n) * kk + Weight(arts, n) * ll
                 = 3 * (RecordingWeight * Weight(rec, n) * k + Weight(art, n) * l)
      <4> DEFINE x == Weight(rec, n)
                 y == Weight(art, n)
      <4>1. x \in Int /\ y \in Int /\ Weight(recs, n) = x /\ Weight(arts, n) = 3 * y BY <1>4, <3>1
      <4> HIDE DEF x, y, Weight
      <4>2. RecordingWeight * x * (3 * k) + (3 * y) * l = 3 * (RecordingWeight * x * k + y * l)
        BY <1>3, <2>1, <4>1, Distributes
      <4> QED BY <2>1, <2>3, <4>1, <4>2 DEF x, y
    <3> HIDE DEF Weight
    <3> QED BY <1>2, <3>2 DEF Times
  <2> QED BY <2>2, <2>3
<1> QED BY <1>1, <1>5, <1>6

\* So the score is the same.
LEMMA TripledScore ==
  ASSUME NEW a, NEW A, Weighs(a, A), A # {}, NEW b, NEW B, Weighs(b, B), B # {},
         NEW c, c = a \/ c = Times(a, 3)
  PROVE  LET s == WeightedJaccard(a, b)
             t == WeightedJaccard(c, b)
         IN  s.num * t.den = t.num * s.den
<1> DEFINE s == WeightedJaccard(a, b)
           t == WeightedJaccard(c, b)
<1>1. CASE c = a
  <2>1. s.num \in Int /\ s.den \in Int
    <3> DEFINE d == [n \in A |-> 3 * a[n]]
    <3> HIDE DEF d
    <3>1. d = [n \in A |-> 3 * a[n]] BY DEF d
    <3> QED BY <3>1, JaccardScaled
  <2> HIDE DEF s, t
  <2>2. s.num * s.den = s.num * s.den OBVIOUS
  <2>3. s = t BY <1>1 DEF s, t
  <2> QED BY <2>2, <2>3 DEF s, t
<1>2. CASE c = Times(a, 3)
  <2>1. c = [n \in A |-> 3 * a[n]] BY <1>2 DEF Times, Weighs
  <2>2. t.num = 3 * s.num /\ t.den = 3 * s.den /\ s.num \in Int /\ s.den \in Int BY <2>1, JaccardScaled
  <2> DEFINE k == s.num
             l == s.den
  <2> HIDE DEF s, t, k, l
  <2>3. k \in Int /\ l \in Int /\ t.num = 3 * k /\ t.den = 3 * l BY <2>2 DEF k, l
  <2>4. k * (3 * l) = (3 * k) * l BY <2>3
  <2>5. s.num * t.den = t.num * s.den BY <2>3, <2>4 DEF k, l
  <2> QED BY <2>5 DEF s, t
<1> QED BY <1>1, <1>2

\* The score does not depend on which song comes first, lies between 0 and 1, and
\* what counts is how the votes for each list of tags are distributed: addShares
\* in handlers.go, weighted.go.
THEOREM CompareScoresRelative == Spec => []ScoresRelative
<1>1. IInv => ScoresRelative
  <2> SUFFICES ASSUME IInv, answer.status = 200 PROVE ScoresRelative BY DEF ScoresRelative
  <2> DEFINE side == sides["song_a"]
             a == Profile(side)
             b == Profile(sides["song_b"])
             moreRec == [side EXCEPT !.recordingTags = Tripled(@)]
             moreArt == [side EXCEPT !.artistTags = Tripled(@)]
             score == WeightedJaccard(a, b)
             back == WeightedJaccard(b, a)
             withRec == WeightedJaccard(Profile(moreRec), b)
             withArt == WeightedJaccard(Profile(moreArt), b)
  <2>1. "song_a" \in Fields /\ "song_b" \in Fields BY DEF Fields
  <2>2. DOMAIN a # {} /\ Weighs(a, DOMAIN a) /\ DOMAIN b # {} /\ Weighs(b, DOMAIN b)
    BY SidesWeigh
  <2>3. /\ side.recordingTags \in TagLists /\ side.artistTags \in TagLists
        /\ moreRec.recordingTags = Tripled(side.recordingTags) /\ moreRec.artistTags = side.artistTags
        /\ moreArt.artistTags = Tripled(side.artistTags) /\ moreArt.recordingTags = side.recordingTags
    <3>1. side.recordingTags \in TagLists /\ side.artistTags \in TagLists BY <2>1, SideProfile
    <3>2. PICK t : SideOf(side, t, "song_a", log) BY <2>1, Answered
    <3>3. side \in {Thinned(t), Filled(t)} BY <3>2 DEF SideOf
    <3> HIDE DEF side
    <3>4. DOMAIN side = {"id", "artistID", "recordingTags", "artistTags", "source"}
      BY <3>3 DEF Thinned, Filled
    <3> QED BY <3>1, <3>4
  <2> HIDE DEF side, moreRec, moreArt
  <2>4. Voted(side.recordingTags) => Profile(moreRec) = a \/ Profile(moreRec) = Times(a, 3)
    BY <2>3, TripledProfile
  <2>5. Voted(side.artistTags) => Profile(moreArt) = a \/ Profile(moreArt) = Times(a, 3)
    BY <2>3, TripledProfile
  <2> HIDE DEF a, b
  <2> DEFINE A == DOMAIN a
             B == DOMAIN b
  <2>6. Weighs(a, A) /\ A # {} /\ Weighs(b, B) /\ B # {} BY <2>2
  <2> HIDE DEF A, B
  <2>7. score.num \in 0..score.den /\ score.den > 0 /\ (score.num = 0 <=> A \cap B = {})
    BY <2>6, JaccardBounds
  <2>8. score.num * back.den = back.num * score.den
    <3>1. back = score BY <2>6, JaccardSwapped
    <3> QED BY <3>1
  <2>9. Voted(side.recordingTags) => score.num * withRec.den = withRec.num * score.den
    BY <2>4, <2>6, TripledScore
  <2>10. Voted(side.artistTags) => score.num * withArt.den = withArt.num * score.den
    BY <2>5, <2>6, TripledScore
  <2> HIDE DEF score, back, withRec, withArt
  <2> QED BY <2>7, <2>8, <2>9, <2>10
          DEF ScoresRelative, score, back, withRec, withArt, a, b, A, B, side, moreRec, moreArt
<1> QED BY <1>1, CompareInvariant, PTL

-------------------------------------------------------------------------------
(***************************************************************************)
(* The tags that are listed.                                               *)
(***************************************************************************)
LEMMA ByWeight ==
  ASSUME NEW N, IsFiniteSet(N), N \subseteq DOMAIN Place, NEW w \in [N -> Int]
  PROVE  Range(SortByWeight(w)) = N
<1> DEFINE stronger(s, t) == w[s] > w[t] \/ (w[s] = w[t] /\ Place[s] < Place[t])
           R == {p \in N \X N : stronger(p[1], p[2])}
           s == Sorted(N, R)
           n == Cardinality(N)
<1>1. SortByWeight(w) = s BY DEF SortByWeight
<1>2. \A a \in N : w[a] \in Int /\ Place[a] \in Int BY MatchingAssumption
<1>3. \A a, b \in N : Place[a] = Place[b] => a = b BY MatchingAssumption
<1>4. Ranks(R, N)
  <2>1. \A a, b \in N : <<a, b>> \in R <=> stronger(a, b) OBVIOUS
  <2>2. \A a, b \in N : a = b \/ stronger(a, b) \/ stronger(b, a) BY <1>2, <1>3
  <2>3. \A a \in N : ~stronger(a, a) BY <1>2
  <2>4. \A a, b, c \in N : stronger(a, b) /\ stronger(b, c) => stronger(a, c) BY <1>2
  <2> HIDE DEF R, stronger
  <2> QED BY <2>1, <2>2, <2>3, <2>4 DEF Ranks
<1>5. IsSorting(s, N, R) BY <1>4, SortedSorts
<1> HIDE DEF s, R
<1>6. s \in [1..n -> N] /\ \A x \in N : \E k \in 1..n : s[k] = x BY <1>5 DEF IsSorting
<1>7. Range(s) = N BY <1>6 DEF Range
<1> QED BY <1>1, <1>7

LEMMA ComparedTags ==
  ASSUME NEW a, NEW A, Weighs(a, A), A # {}, NEW b, NEW B, Weighs(b, B), B # {}
  PROVE  /\ Range(Compare(a, b).shared) = A \cap B
         /\ Range(Compare(a, b).onlyA) = A \ B
         /\ Range(Compare(a, b).onlyB) = B \ A
<1>1. DOMAIN a = A /\ DOMAIN b = B BY DEF Weighs
<1>2. IsFiniteSet(A) /\ A \subseteq DOMAIN Place /\ IsFiniteSet(B) /\ B \subseteq DOMAIN Place BY DEF Weighs
<1> DEFINE S == A \cap B
           v == [n \in S |-> Min({Share(a, b, n), Share(b, a, n)})]
           w == [n \in A \ B |-> Share(a, b, n)]
           u == [n \in B \ A |-> Share(b, a, n)]
<1>3. IsFiniteSet(S) /\ IsFiniteSet(A \ B) /\ IsFiniteSet(B \ A)
  <2>1. S \subseteq A /\ A \ B \subseteq A /\ B \ A \subseteq B OBVIOUS
  <2> QED BY <1>2, <2>1, FS_Subset
<1>4. /\ Compare(a, b).shared = SortByWeight(v)
      /\ Compare(a, b).onlyA = SortByWeight(w) /\ Compare(a, b).onlyB = SortByWeight(u)
  BY <1>1 DEF Compare
<1>5. \A n : Share(a, b, n) \in Int /\ Share(b, a, n) \in Int BY Shares
<1>6. w \in [A \ B -> Int] /\ u \in [B \ A -> Int] BY <1>5
<1>7. v \in [S -> Int]
  <2>1. \A x, y \in Int : Min({x, y}) \in Int
    <3>1. ASSUME NEW x \in Int, NEW y \in Int PROVE Min({x, y}) \in Int
      <4>1. Min({x, y}) = IF x <= y THEN x ELSE y BY TwoOfInt
      <4> QED BY <4>1
    <3> QED BY <3>1
  <2> QED BY <1>5, <2>1
<1> HIDE DEF v, w, u
<1>8. Range(SortByWeight(v)) = S BY <1>2, <1>3, <1>7, ByWeight
<1>9. Range(SortByWeight(w)) = A \ B BY <1>2, <1>3, <1>6, ByWeight
<1>10. Range(SortByWeight(u)) = B \ A BY <1>2, <1>3, <1>6, ByWeight
<1> QED BY <1>4, <1>8, <1>9, <1>10

Listed(names) == {Normalize(n) : n \in Range(names)} \ {""}

LEMMA ListedNames ==
  ASSUME NEW side, side.recordingTags \in TagLists, side.artistTags \in TagLists
  PROVE  Listed(Tags(side)) = Names(side.recordingTags) \cup Names(side.artistTags)
<1> DEFINE rec == side.recordingTags
           art == side.artistTags
           p == TagNames(rec)
           q == TagNames(art)
           seq == p \o q
           V == DOMAIN Place
<1>1. /\ Len(rec) \in Nat /\ DOMAIN rec = 1..Len(rec) /\ \A i \in DOMAIN rec : rec[i].name \in V
      /\ Len(art) \in Nat /\ DOMAIN art = 1..Len(art) /\ \A i \in DOMAIN art : art[i].name \in V
  BY ListOf
<1> DEFINE m == Len(rec)
           n == Len(art)
<1>2. /\ p = [i \in 1..m |-> rec[i].name] /\ q = [i \in 1..n |-> art[i].name]
      /\ m \in Nat /\ n \in Nat
      /\ \A i \in 1..m : rec[i].name \in V
      /\ \A i \in 1..n : art[i].name \in V
  BY <1>1 DEF TagNames
<1> HIDE DEF p, q, m, n
<1>3. p \in Seq(V) /\ q \in Seq(V) /\ Len(p) = m /\ Len(q) = n BY <1>2
<1>4. /\ Len(seq) = m + n
      /\ \A i \in 1..(m + n) : seq[i] = IF i <= m THEN p[i] ELSE q[i - m]
      /\ seq \in Seq(V)
  BY <1>3, ConcatProperties
<1> HIDE DEF seq
<1>5. DOMAIN seq = 1..(m + n) /\ m + n \in Nat BY <1>2, <1>4, LenProperties
<1>6. Range(Tags(side)) = Range(seq) BY <1>5, DistinctIs DEF Tags, seq, p, q
<1>7. Range(seq) = {rec[i].name : i \in 1..m} \cup {art[i].name : i \in 1..n}
  <2>1. ASSUME NEW x \in Range(seq) PROVE x \in {rec[i].name : i \in 1..m} \cup {art[i].name : i \in 1..n}
    <3>1. PICK i \in 1..(m + n) : x = seq[i] BY <1>5, <2>1 DEF Range
    <3>2. CASE i <= m
      <4>1. i \in 1..m /\ x = rec[i].name BY <1>2, <1>4, <3>1, <3>2
      <4> QED BY <4>1
    <3>3. CASE i > m
      <4>1. i - m \in 1..n /\ ~(i <= m) BY <1>2, <3>1, <3>3
      <4>2. x = art[i - m].name BY <1>2, <1>4, <3>1, <4>1
      <4> QED BY <4>1, <4>2
    <3> QED BY <1>2, <3>1, <3>2, <3>3
  <2>2. ASSUME NEW i \in 1..m PROVE rec[i].name \in Range(seq)
    <3>1. i \in 1..(m + n) /\ i <= m BY <1>2
    <3>2. seq[i] = rec[i].name BY <1>2, <1>4, <3>1
    <3> QED BY <1>5, <3>1, <3>2 DEF Range
  <2>3. ASSUME NEW i \in 1..n PROVE art[i].name \in Range(seq)
    <3>1. i + m \in 1..(m + n) /\ ~(i + m <= m) /\ (i + m) - m = i BY <1>2
    <3>2. seq[i + m] = art[i].name BY <1>2, <1>4, <3>1
    <3> QED BY <1>5, <3>1, <3>2 DEF Range
  <2> QED BY <2>1, <2>2, <2>3
<1>8. DOMAIN rec = 1..m /\ DOMAIN art = 1..n BY <1>1 DEF m, n
<1>9. Names(rec) = {Normalize(rec[i].name) : i \in 1..m} \ {""} BY <1>8 DEF Names
<1>10. Names(art) = {Normalize(art[i].name) : i \in 1..n} \ {""} BY <1>8 DEF Names
<1> HIDE DEF rec, art
<1> DEFINE R == {rec[i].name : i \in 1..m}
           A == {art[i].name : i \in 1..n}
<1>11. Names(rec) = {Normalize(x) : x \in R} \ {""}
  <2>1. {Normalize(rec[i].name) : i \in 1..m} = {Normalize(x) : x \in R} OBVIOUS
  <2> QED BY <1>9, <2>1
<1>12. Names(art) = {Normalize(x) : x \in A} \ {""}
  <2>1. {Normalize(art[i].name) : i \in 1..n} = {Normalize(x) : x \in A} OBVIOUS
  <2> QED BY <1>10, <2>1
<1>13. Range(Tags(side)) = R \cup A BY <1>6, <1>7
<1> HIDE DEF R, A
<1>14. Listed(Tags(side)) = {Normalize(x) : x \in R \cup A} \ {""} BY <1>13 DEF Listed
<1> QED BY <1>11, <1>12, <1>14 DEF rec, art

\* What SourcesTruthful says of one side.
Truthful(side, f, lg) ==
  LET asked  == \E i \in DOMAIN lg : lg[i].field = f /\ lg[i].step = "artist"
      failed == \E i \in DOMAIN lg : lg[i].field = f /\ lg[i].outcome # "found"
      rec    == Names(side.recordingTags)
      artist == IF asked /\ ~failed THEN Names(ArtistTags(side.artistID)) ELSE {}
  IN  /\ Listed(Tags(side)) = rec \cup artist
      /\ asked <=> Cardinality(rec) < MinRecordingTags /\ side.artistID # ""
      /\ side.source = CASE artist = {} -> "recording"
                         [] artist # {} /\ rec = {}  -> "artist"
                         [] artist # {} /\ rec # {} -> "mixed"

LEMMA SideTruthful ==
  ASSUME NEW t, IsTrack(t), NEW f \in Fields, NEW lg \in Seq(Entries), NEW side,
         SideOf(side, t, f, lg), DOMAIN Profile(side) # {}
  PROVE  Truthful(side, f, lg)
<1> DEFINE A(i) == lg[i].field = f /\ lg[i].step = "artist"
           F(i) == lg[i].field = f /\ lg[i].outcome # "found"
           asked == \E i \in DOMAIN lg : A(i)
           failed == \E i \in DOMAIN lg : F(i)
           tags == side.recordingTags
           id == side.artistID
           rec == Names(tags)
           art == Names(side.artistTags)
           known == Names(ArtistTags(id))
           artist == IF asked /\ ~failed THEN known ELSE {}
<1>1. side \in {Thinned(t), Filled(t)} BY DEF SideOf
<1>2. /\ tags = t.recordingTags /\ id = t.artistID
      /\ tags \in TagLists /\ side.artistTags \in TagLists
      /\ side = Thinned(t) => side.artistTags = <<>>
      /\ side = Filled(t) => side.artistTags = ArtistTags(id)
  BY <1>1, SideTyped
<1>3. side = Thinned(t) => side.source = Thin(tags) BY <1>2 DEF Thinned
<1>4. side = Filled(t) => side.source = IF Usable(tags) > 0 THEN "mixed" ELSE "artist" BY <1>2 DEF Filled
<1>5. Usable(tags) = Cardinality(rec) /\ Usable(tags) \in Nat /\ (Usable(tags) = 0 <=> rec = {})
  <2>1. Len(tags) \in Nat /\ DOMAIN tags = 1..Len(tags) BY <1>2, ListOf
  <2> HIDE DEF tags
  <2> QED BY <2>1, NamesOf DEF tags
<1>6. Usable(ArtistTags(id)) \in Nat /\ (Usable(ArtistTags(id)) = 0 <=> known = {})
  <2> DEFINE a == ArtistTags(id)
  <2>1. a \in TagLists BY TagsOfArtistTyped
  <2> HIDE DEF a
  <2>2. Len(a) \in Nat /\ DOMAIN a = 1..Len(a) BY <2>1, ListOf
  <2>3. Usable(a) \in Nat /\ (Usable(a) = 0 <=> Names(a) = {}) BY <2>2, NamesOf
  <2> QED BY <2>3 DEF a
<1>7. Listed(Tags(side)) = rec \cup art BY <1>2, ListedNames
<1>8. rec \cup art # {}
  <2>1. DOMAIN Profile(side) = rec \cup art BY <1>2, ProfileOf DEF Weighs
  <2> QED BY <2>1
<1>9. Names(<<>>) = {} BY DEF Names
<1>10. (Settled(t) <=> ~(Cardinality(rec) < MinRecordingTags /\ id # "")) /\ (rec # {} => Usable(tags) > 0)
  <2> DEFINE u == Usable(tags)
             k == Cardinality(rec)
  <2>1. Settled(t) <=> u >= MinRecordingTags \/ id = "" BY <1>2 DEF Settled
  <2>2. u = k /\ u \in Nat /\ (u = 0 <=> rec = {}) BY <1>5
  <2>3. MinRecordingTags \in Nat BY CompareAssumption
  <2> HIDE DEF u, k
  <2>4. u >= MinRecordingTags <=> ~(k < MinRecordingTags) BY <2>2, <2>3
  <2>5. rec # {} => u > 0 BY <2>2
  <2> QED BY <2>1, <2>4, <2>5 DEF u, k
<1>11. ASSUME NEW i \in DOMAIN lg
       PROVE  lg[i].outcome \in {"found", "not found", "network", "status", "deadline", "canceled"}
  <2>1. lg[i] \in Entries OBVIOUS
  <2> QED BY <2>1 DEF Entries
<1>12. /\ side.source = "recording" <=> artist = {}
       /\ side.source = "artist" <=> artist # {} /\ rec = {}
       /\ side.source = "mixed" <=> artist # {} /\ rec # {}
       /\ side.source \in {"recording", "artist", "mixed"}
       /\ art = artist /\ (asked <=> ~Settled(t))
  <2>1. CASE Settled(t) /\ ~(\E i \in DOMAIN lg : A(i) /\ lg[i].outcome \in {"found"}) /\ ~failed /\ side = Thinned(t)
    <3>1. ~asked BY <1>11, <2>1
    <3>2. artist = {} /\ art = {} BY <1>2, <1>9, <2>1, <3>1
    <3>3. rec # {} BY <1>8, <3>2
    <3>4. side.source = "recording" BY <1>3, <1>10, <2>1, <3>3 DEF Thin
    <3> QED BY <2>1, <3>1, <3>2, <3>3, <3>4
  <2>2. CASE /\ ~Settled(t) /\ Usable(t.recordingTags) > 0 /\ side = Thinned(t)
             /\ \E i \in DOMAIN lg : A(i) /\ lg[i].outcome \in {"network", "status"}
    <3>1. asked /\ failed BY <2>2
    <3>2. artist = {} /\ art = {} BY <1>2, <1>9, <2>2, <3>1
    <3>3. rec # {} BY <1>8, <3>2
    <3>4. side.source = "recording" BY <1>3, <1>10, <2>2, <3>3 DEF Thin
    <3> QED BY <2>2, <3>1, <3>2, <3>3, <3>4
  <2>3. CASE /\ ~Settled(t) /\ (\E i \in DOMAIN lg : A(i) /\ lg[i].outcome \in {"found"}) /\ ~failed
             /\ side = IF Usable(ArtistTags(t.artistID)) = 0 THEN Thinned(t) ELSE Filled(t)
    <3>1. asked /\ artist = known BY <2>3
    <3>2. CASE known = {}
      <4>1. side = Thinned(t) BY <1>2, <1>6, <2>3, <3>2
      <4>2. artist = {} /\ art = {} BY <1>2, <1>9, <3>1, <3>2, <4>1
      <4>3. rec # {} BY <1>8, <4>2
      <4>4. side.source = "recording" BY <1>3, <1>10, <4>1, <4>3 DEF Thin
      <4> QED BY <2>3, <3>1, <4>2, <4>3, <4>4
    <3>3. CASE known # {}
      <4>1. side = Filled(t) BY <1>2, <1>6, <2>3, <3>3
      <4>2. art = known BY <1>2, <4>1
      <4>3. side.source = IF rec = {} THEN "artist" ELSE "mixed" BY <1>4, <1>5, <4>1
      <4> QED BY <2>3, <3>1, <3>3, <4>2, <4>3
    <3> QED BY <3>2, <3>3
  <2> HIDE DEF rec, art, artist
  <2> QED BY <2>1, <2>2, <2>3 DEF SideOf
<1> HIDE DEF artist, rec, art
<1>13. Listed(Tags(side)) = rec \cup artist BY <1>7, <1>12
<1>14. asked <=> Cardinality(rec) < MinRecordingTags /\ id # "" BY <1>10, <1>12
<1>15. side.source = CASE artist = {} -> "recording"
                       [] artist # {} /\ rec = {}  -> "artist"
                       [] artist # {} /\ rec # {} -> "mixed"
  BY <1>12
<1> QED BY <1>13, <1>14, <1>15 DEF Truthful, artist, rec

\* What the answer to a comparison says of the sides: Compared.
LEMMA AnswerSays ==
  ASSUME IInv, answer.status = 200
  PROVE  /\ \A f \in Fields : answer.tags[f] = Tags(sides[f]) /\ answer.source[f] = sides[f].source
         /\ answer.result = Compare(Profile(sides["song_a"]), Profile(sides["song_b"]))
         /\ answer.lowData <=> \E f \in Fields : Cardinality(DOMAIN Profile(sides[f])) < LowDataTags
<1>1. answer = Compared(sides) BY Answered
<1>2. "song_a" \in Fields /\ "song_b" \in Fields BY DEF Fields
<1> QED BY <1>1, <1>2 DEF Compared

\* Where the tags are said to come from is where they do, those that are listed
\* are those the scores rest on, and low_data says whether either song has too
\* few: handlers.go and resolver.go.
THEOREM CompareSourcesTruthful == Spec => []SourcesTruthful
<1>1. IInv => SourcesTruthful
  <2> SUFFICES ASSUME IInv, answer.status = 200 PROVE SourcesTruthful BY DEF SourcesTruthful
  <2> DEFINE listed(f) == {Normalize(n) : n \in Range(answer.tags[f])} \ {""}
             rec(f) == Range(NormalizeAll(TagNames(sides[f].recordingTags)))
             known(f) == IF sides[f].artistID \in DOMAIN Artists
                         THEN Range(NormalizeAll(TagNames(TagsOfArtist(Artists[sides[f].artistID])))) ELSE {}
             asked(f) == \E i \in DOMAIN log : log[i].field = f /\ log[i].step = "artist"
             failed(f) == \E i \in DOMAIN log : log[i].field = f /\ log[i].outcome # "found"
             artist(f) == IF asked(f) /\ ~failed(f) THEN known(f) ELSE {}
             d(f) == DOMAIN Profile(sides[f])
  <2>1. ASSUME NEW f \in Fields
        PROVE  /\ listed(f) = rec(f) \cup artist(f)
               /\ asked(f) <=> Cardinality(rec(f)) < MinRecordingTags /\ sides[f].artistID # ""
               /\ answer.source[f] =
                    CASE artist(f) = {} -> "recording"
                      [] artist(f) # {} /\ rec(f) = {}  -> "artist"
                      [] artist(f) # {} /\ rec(f) # {} -> "mixed"
               /\ listed(f) = d(f) /\ Weighs(Profile(sides[f]), d(f)) /\ d(f) # {}
    <3> DEFINE s == sides[f]
               a == ArtistTags(s.artistID)
    <3>1. answer.tags[f] = Tags(s) /\ answer.source[f] = s.source BY AnswerSays
    <3>2. PICK t \in Tracks(request[f]) \ {NotFound} :
            IsTrack(t) /\ SideOf(s, t, f, log) /\ d(f) # {}
      BY Answered
    <3>3. /\ s.recordingTags \in TagLists /\ s.artistTags \in TagLists
          /\ Weighs(Profile(s), Names(s.recordingTags) \cup Names(s.artistTags)) /\ Weighs(Profile(s), d(f))
      BY SideProfile
    <3>4. log \in Seq(Entries) BY DEF IInv, TypeOK
    <3>5. DOMAIN Profile(s) # {} BY <3>2
    <3>6. listed(f) = Listed(Tags(s)) BY <3>1 DEF Listed
    <3> HIDE DEF s
    <3>7. Truthful(s, f, log) BY <3>2, <3>4, <3>5, SideTruthful
    <3>8. Listed(Tags(s)) = Names(s.recordingTags) \cup Names(s.artistTags) BY <3>3, ListedNames
    <3>9. Range(NormalizeAll(TagNames(s.recordingTags))) = Names(s.recordingTags)
      <4> DEFINE r == s.recordingTags
      <4>1. Len(r) \in Nat /\ DOMAIN r = 1..Len(r) BY <3>3, ListOf
      <4> HIDE DEF r
      <4>2. Range(NormalizeAll(TagNames(r))) = Names(r) BY <4>1, NamesOf
      <4> QED BY <4>2 DEF r
    <3>10. a \in TagLists BY TagsOfArtistTyped
    <3> HIDE DEF a
    <3>11. Range(NormalizeAll(TagNames(a))) = Names(a)
      <4>1. Len(a) \in Nat /\ DOMAIN a = 1..Len(a) BY <3>10, ListOf
      <4> QED BY <4>1, NamesOf
    <3>12. s.artistID \notin DOMAIN Artists => Names(a) = {} BY DEF a, ArtistTags, Names
    <3>13. s.artistID \in DOMAIN Artists => a = TagsOfArtist(Artists[s.artistID]) BY DEF a, ArtistTags
    <3>14. known(f) = Names(a) BY <3>11, <3>12, <3>13 DEF s
    <3>15. rec(f) = Names(s.recordingTags) BY <3>9 DEF s
    <3>16. listed(f) = d(f) BY <3>3, <3>6, <3>8 DEF Weighs, s
    <3> DEFINE A == asked(f)
               F == failed(f)
               R == rec(f)
               K == known(f)
               V == IF A /\ ~F THEN K ELSE {}
    <3>17. /\ Listed(Tags(s)) = R \cup V
           /\ A <=> Cardinality(R) < MinRecordingTags /\ s.artistID # ""
           /\ s.source = CASE V = {} -> "recording"
                           [] V # {} /\ R = {}  -> "artist"
                           [] V # {} /\ R # {} -> "mixed"
      <4> HIDE DEF R, K
      <4> QED BY <3>7, <3>14, <3>15 DEF Truthful, a, R, K
    <3>18. listed(f) = R \cup V BY <3>6, <3>17
    <3>19. A <=> Cardinality(R) < MinRecordingTags /\ sides[f].artistID # "" BY <3>17 DEF s
    <3>20. answer.source[f] = CASE V = {} -> "recording"
                                [] V # {} /\ R = {}  -> "artist"
                                [] V # {} /\ R # {} -> "mixed"
      BY <3>1, <3>17 DEF s
    <3>21. Weighs(Profile(sides[f]), d(f)) /\ d(f) # {} BY <3>2, <3>3 DEF s
    <3> QED BY <3>16, <3>18, <3>19, <3>20, <3>21
  <2>2. /\ answer.result = Compare(Profile(sides["song_a"]), Profile(sides["song_b"]))
        /\ answer.lowData <=> \E f \in Fields : Cardinality(d(f)) < LowDataTags
    BY AnswerSays
  <2>3. answer.lowData <=> \E f \in Fields : Cardinality(listed(f)) < LowDataTags
    <3> HIDE DEF listed, d
    <3>1. \A f \in Fields : listed(f) = d(f) BY <2>1
    <3> QED BY <2>2, <3>1
  <2>4. /\ Range(answer.result.shared) = listed("song_a") \cap listed("song_b")
        /\ Range(answer.result.onlyA) = listed("song_a") \ listed("song_b")
        /\ Range(answer.result.onlyB) = listed("song_b") \ listed("song_a")
    <3> DEFINE a == Profile(sides["song_a"])
               b == Profile(sides["song_b"])
               S == d("song_a")
               U == d("song_b")
    <3>1. "song_a" \in Fields /\ "song_b" \in Fields BY DEF Fields
    <3>2. ASSUME NEW f \in Fields PROVE Weighs(Profile(sides[f]), d(f)) /\ d(f) # {} /\ listed(f) = d(f)
      BY <2>1
    <3> HIDE DEF listed
    <3>3. Weighs(a, S) /\ S # {} /\ Weighs(b, U) /\ U # {} /\ listed("song_a") = S /\ listed("song_b") = U
      BY <3>1, <3>2
    <3>4. answer.result = Compare(a, b) BY <2>2
    <3> HIDE DEF a, b, S, U
    <3> QED BY <3>3, <3>4, ComparedTags
  <2>5. \A f \in Fields :
          /\ listed(f) = rec(f) \cup artist(f)
          /\ asked(f) <=> Cardinality(rec(f)) < MinRecordingTags /\ sides[f].artistID # ""
          /\ answer.source[f] =
               CASE artist(f) = {} -> "recording"
                 [] artist(f) # {} /\ rec(f) = {}  -> "artist"
                 [] artist(f) # {} /\ rec(f) # {} -> "mixed"
    BY <2>1
  <2> HIDE DEF listed, rec, known, asked, failed
  <2> QED BY <2>3, <2>4, <2>5 DEF SourcesTruthful, listed, rec, known, asked, failed
<1> QED BY <1>1, CompareInvariant, PTL
===============================================================================
