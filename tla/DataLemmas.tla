------------------------------ MODULE DataLemmas ------------------------------
(***************************************************************************)
(* Facts about finite sets, sums and sequences that the proofs about the   *)
(* console and the reports rest on: what a fold over a set, a filter and a *)
(* sort compute, for every input.  They are proved by induction over sets  *)
(* of naturals and over families of finite sets, that is, from the         *)
(* well-foundedness of strict inclusion.                                   *)
(***************************************************************************)
EXTENDS Integers, Sequences, FiniteSets, SequencesExt, FiniteSetsExt, FiniteSetTheorems,
        SequenceTheorems, WellFoundedInduction, TLAPS

-----------------------------------------------------------------------------
(***************************************************************************)
(* Induction.                                                              *)
(***************************************************************************)
\* Of a family of finite sets one contains no other.
LEMMA MinimalSet ==
  ASSUME NEW F, F # {}, \A T \in F : IsFiniteSet(T)
  PROVE  \E T \in F : \A U \in F : ~(U \subseteq T /\ U # T)
<1> DEFINE S == UNION F
<1>1. IsWellFoundedOn(StrictSubsetOrdering(S), FiniteSubsetsOf(S))
  BY FS_StrictSubsetOrderingWellFounded
<1>2. F \subseteq FiniteSubsetsOf(S)
  BY DEF FiniteSubsetsOf
<1>3. PICK T \in F : \A U \in F : ~(<<U, T>> \in StrictSubsetOrdering(S))
  <2> HIDE DEF S
  <2> QED
    BY <1>1, <1>2, WFMin
<1> QED
  BY <1>3 DEF StrictSubsetOrdering

\* A set of naturals has a least element.
LEMMA LeastNatural ==
  ASSUME NEW S, S \subseteq Nat, S # {}
  PROVE  \E m \in S : \A k \in S : m <= k
<1> DEFINE F == {0..k : k \in S}
<1>1. F # {}
  OBVIOUS
<1>2. \A T \in F : IsFiniteSet(T)
  <2> TAKE T \in F
  <2>1. PICK k \in S : T = 0..k
    OBVIOUS
  <2> QED
    BY <2>1, FS_Interval
<1>3. PICK T \in F : \A U \in F : ~(U \subseteq T /\ U # T)
  <2> HIDE DEF F
  <2> QED
    BY <1>1, <1>2, MinimalSet
<1>4. PICK m \in S : T = 0..m
  OBVIOUS
<1>5. ASSUME NEW k \in S, k < m PROVE FALSE
  <2>1. 0..k \in F /\ 0..k \subseteq T /\ m \in T /\ m \notin 0..k
    BY <1>4, <1>5
  <2> QED
    BY <2>1, <1>3
<1> QED
  BY <1>5

LEMMA Induction ==
  ASSUME NEW T, 0 \in T, \A n \in Nat : n \in T => n + 1 \in T
  PROVE  \A n \in Nat : n \in T
<1> DEFINE Bad == Nat \ T
<1> SUFFICES ASSUME Bad # {} PROVE FALSE
  OBVIOUS
<1>1. PICK m \in Bad : \A k \in Bad : m <= k
  <2>1. Bad \subseteq Nat
    OBVIOUS
  <2> HIDE DEF Bad
  <2> QED
    BY <2>1, LeastNatural
<1>2. m \in Nat \ {0}
  OBVIOUS
<1>3. m - 1 \in Nat /\ m - 1 \notin Bad
  BY <1>1, <1>2
<1>4. (m - 1) + 1 \in T
  BY <1>3
<1> QED
  BY <1>2, <1>4

\* A family with the empty set, and with every set also that set and one element
\* more, has all the finite subsets.
LEMMA SetInduction ==
  ASSUME NEW S, IsFiniteSet(S), NEW F, {} \in F,
         \A T \in SUBSET S : T \in F => \A x \in S \ T : T \cup {x} \in F
  PROVE  \A T \in SUBSET S : T \in F
<1> DEFINE Bad == {T \in SUBSET S : T \notin F}
<1> SUFFICES ASSUME Bad # {} PROVE FALSE
  OBVIOUS
<1>1. PICK T \in Bad : \A U \in Bad : ~(U \subseteq T /\ U # T)
  <2>1. \A T \in Bad : IsFiniteSet(T)
    BY FS_Subset
  <2> HIDE DEF Bad
  <2> QED
    BY <2>1, MinimalSet
<1>2. PICK x \in T : TRUE
  OBVIOUS
<1>3. T \ {x} \notin Bad
  BY <1>1, <1>2
<1>4. (T \ {x}) \cup {x} \in F
  BY <1>3
<1>5. (T \ {x}) \cup {x} = T
  BY <1>2
<1> QED
  BY <1>4, <1>5

-----------------------------------------------------------------------------
(***************************************************************************)
(* Folds over a set.                                                       *)
(***************************************************************************)
\* g folds h over every subset of S from b on, the element c[s] of s last.
FoldsOver(g, S, V, b, h, c) ==
  /\ g \in [SUBSET S -> V]
  /\ \A s \in SUBSET S : g[s] = IF s = {} THEN b ELSE h[<<c[s], g[s \ {c[s]}]>>]

\* The function that MapThenFoldSet defines exists, whatever element is chosen.
LEMMA FoldExists ==
  ASSUME NEW S, IsFiniteSet(S), NEW V, NEW b \in V, NEW h \in [S \X V -> V], NEW c,
         \A T \in SUBSET S : T # {} => c[T] \in T
  PROVE  \E g : FoldsOver(g, S, V, b, h, c)
<1> DEFINE Small(n) == {s \in SUBSET S : Cardinality(s) <= n}
           Folds(g, n) == \A s \in Small(n) :
                            g[s] = IF s = {} THEN b ELSE h[<<c[s], g[s \ {c[s]}]>>]
           T == {n \in Nat : \E g \in [Small(n) -> V] : Folds(g, n)}
<1>1. \A s \in SUBSET S :
        /\ Cardinality(s) \in Nat /\ (Cardinality(s) = 0 <=> s = {})
        /\ s # {} => c[s] \in s /\ Cardinality(s \ {c[s]}) = Cardinality(s) - 1
  <2> TAKE s \in SUBSET S
  <2>1. IsFiniteSet(s)
    BY FS_Subset
  <2> QED
    BY <2>1, FS_CardinalityType, FS_EmptySet, FS_RemoveElement
<1>2. 0 \in T
  <2> DEFINE g == [s \in Small(0) |-> b]
  <2>1. ASSUME NEW s \in Small(0) PROVE s = {}
    <3>1. s \in SUBSET S /\ Cardinality(s) <= 0
      OBVIOUS
    <3>2. Cardinality(s) \in Nat /\ (Cardinality(s) = 0 <=> s = {})
      BY <1>1, <3>1
    <3> QED
      BY <3>1, <3>2
  <2>2. g \in [Small(0) -> V] /\ Folds(g, 0)
    BY <2>1
  <2> QED
    BY <2>2
<1>3. ASSUME NEW n \in Nat, n \in T PROVE n + 1 \in T
  <2>1. PICK g \in [Small(n) -> V] : Folds(g, n)
    BY <1>3
  <2> DEFINE k == [s \in Small(n + 1) |-> IF s = {} THEN b ELSE h[<<c[s], g[s \ {c[s]}]>>]]
  <2>2. ASSUME NEW s \in Small(n + 1), s # {}
        PROVE  s \ {c[s]} \in Small(n) /\ c[s] \in S
    BY <1>1, <2>2
  <2>3. k \in [Small(n + 1) -> V]
    <3>1. ASSUME NEW s \in Small(n + 1), s # {} PROVE h[<<c[s], g[s \ {c[s]}]>>] \in V
      <4>1. g[s \ {c[s]}] \in V /\ c[s] \in S
        BY <3>1, <2>2
      <4> QED
        BY <4>1
    <3> QED
      BY <3>1
  <2>4. ASSUME NEW s \in Small(n) PROVE s \in Small(n + 1)
    <3>1. Cardinality(s) \in Nat /\ Cardinality(s) <= n
      BY <1>1
    <3>2. Cardinality(s) <= n + 1
      BY <3>1
    <3> QED
      BY <3>2
  <2>5. \A s \in Small(n) : k[s] = g[s]
    BY <2>1, <2>4
  <2>6. Folds(k, n + 1)
    <3> TAKE s \in Small(n + 1)
    <3>1. CASE s = {}
      BY <3>1
    <3>2. CASE s # {}
      <4>1. k[s \ {c[s]}] = g[s \ {c[s]}]
        BY <3>2, <2>2, <2>5
      <4> QED
        BY <3>2, <4>1
    <3> QED
      BY <3>1, <3>2
  <2> HIDE DEF k, Folds, Small
  <2>7. \E f \in [Small(n + 1) -> V] : Folds(f, n + 1)
    BY <2>3, <2>6
  <2> QED
    BY <2>7
<1>4. Cardinality(S) \in T
  <2>1. Cardinality(S) \in Nat
    BY <1>1
  <2> HIDE DEF T
  <2> QED
    BY <1>2, <1>3, <2>1, Induction
<1>5. Small(Cardinality(S)) = SUBSET S
  BY FS_Subset
<1> QED
  BY <1>4, <1>5 DEF FoldsOver

-----------------------------------------------------------------------------
(***************************************************************************)
(* Sums over a set.                                                        *)
(***************************************************************************)
SumOver(f, S) == MapThenSumSet(LAMBDA x : f[x], S)

\* g adds up f over every subset of S, one element at a time.
AddsUp(g, f, S) ==
  \A s \in SUBSET S :
    g[s] = IF s = {} THEN 0
           ELSE f[CHOOSE x \in s : TRUE] + g[s \ {CHOOSE x \in s : TRUE}]

LEMMA AddsUpExists ==
  ASSUME NEW S, IsFiniteSet(S), NEW f, \A x \in S : f[x] \in Int
  PROVE  \E g : g = [s \in SUBSET S |-> g[s]] /\ AddsUp(g, f, S)
<1> DEFINE h == [p \in S \X Int |-> f[p[1]] + p[2]]
           c == [s \in SUBSET S |-> CHOOSE x \in s : TRUE]
<1>1. h \in [S \X Int -> Int]
  OBVIOUS
<1>2. \A s \in SUBSET S : s # {} => c[s] \in s
  OBVIOUS
<1>3. PICK g : FoldsOver(g, S, Int, 0, h, c)
  <2>1. 0 \in Int
    OBVIOUS
  <2> HIDE DEF h, c
  <2> QED
    BY <1>1, <1>2, <2>1, FoldExists, Zenon
<1>4. ASSUME NEW s \in SUBSET S, s # {}
      PROVE  g[s] = f[CHOOSE x \in s : TRUE] + g[s \ {CHOOSE x \in s : TRUE}]
  <2>1. c[s] \in S /\ g[s \ {c[s]}] \in Int /\ c[s] = CHOOSE x \in s : TRUE
    BY <1>2, <1>3, <1>4 DEF FoldsOver
  <2> HIDE DEF c
  <2>2. h[<<c[s], g[s \ {c[s]}]>>] = f[c[s]] + g[s \ {c[s]}]
    BY <2>1
  <2> QED
    BY <1>3, <1>4, <2>1, <2>2 DEF FoldsOver
<1>5. AddsUp(g, f, S)
  BY <1>3, <1>4 DEF AddsUp, FoldsOver
<1> QED
  BY <1>3, <1>5 DEF FoldsOver

\* Two functions that add up the same numbers agree, and their values are integers.
LEMMA AddsUpUnique ==
  ASSUME NEW S, IsFiniteSet(S), NEW f, \A x \in S : f[x] \in Int, NEW e,
         \A x \in S : e[x] = f[x],
         NEW g, AddsUp(g, f, S), NEW k, AddsUp(k, e, S)
  PROVE  \A T \in SUBSET S : g[T] \in Int /\ k[T] = g[T]
<1> DEFINE Bad == {T \in SUBSET S : ~(g[T] \in Int /\ k[T] = g[T])}
<1> SUFFICES ASSUME Bad # {} PROVE FALSE
  OBVIOUS
<1>1. PICK T \in Bad : \A U \in Bad : ~(U \subseteq T /\ U # T)
  <2>1. \A T \in Bad : IsFiniteSet(T)
    BY FS_Subset
  <2> HIDE DEF Bad
  <2> QED
    BY <2>1, MinimalSet
<1>2. T # {}
  <2>1. g[{}] = 0 /\ k[{}] = 0
    BY DEF AddsUp
  <2> QED
    BY <2>1
<1> DEFINE x == CHOOSE x \in T : TRUE
<1>3. x \in T
  BY <1>2
<1>4. T \ {x} \in SUBSET S /\ T \ {x} \notin Bad
  BY <1>1, <1>3
<1>5. g[T] = f[x] + g[T \ {x}] /\ k[T] = e[x] + k[T \ {x}]
  BY <1>2 DEF AddsUp
<1> QED
  <2>1. g[T \ {x}] \in Int /\ k[T \ {x}] = g[T \ {x}]
    BY <1>4
  <2>2. f[x] \in Int /\ e[x] = f[x]
    BY <1>3
  <2> HIDE DEF x
  <2>3. g[T] \in Int /\ k[T] = g[T]
    BY <1>5, <2>1, <2>2
  <2> QED
    BY <2>3

LEMMA SumOverAddsUp ==
  ASSUME NEW S, IsFiniteSet(S), NEW f, \A x \in S : f[x] \in Int
  PROVE  \E g : AddsUp(g, f, S) /\ SumOver(f, S) = g[S]
<1> DEFINE Iter(g) == g = [s \in SUBSET S |->
                             IF s = {} THEN 0
                             ELSE LET x == CHOOSE x \in s : TRUE IN f[x] + g[s \ {x}]]
<1>1. SumOver(f, S) = (CHOOSE g : Iter(g))[S]
  BY DEF SumOver, MapThenSumSet, MapThenFoldSet
<1>2. \E g : Iter(g)
  <2>1. PICK g : g = [s \in SUBSET S |-> g[s]] /\ AddsUp(g, f, S)
    BY AddsUpExists
  <2>2. Iter(g)
    BY <2>1 DEF AddsUp
  <2> HIDE DEF Iter
  <2> QED
    BY <2>2
<1> DEFINE g == CHOOSE g : Iter(g)
<1>3. Iter(g)
  <2> HIDE DEF Iter
  <2> QED
    BY <1>2
<1> HIDE DEF g
<1>4. AddsUp(g, f, S)
  BY <1>3 DEF AddsUp
<1> QED
  BY <1>1, <1>4 DEF g

\* Whatever adds up f over S has its sum.
LEMMA SumOverIs ==
  ASSUME NEW S, IsFiniteSet(S), NEW f, \A x \in S : f[x] \in Int,
         NEW e, \A x \in S : e[x] = f[x], NEW g, AddsUp(g, e, S)
  PROVE  /\ SumOver(f, S) \in Int /\ SumOver(f, S) = g[S]
         /\ \A T \in SUBSET S : SumOver(f, T) = g[T]
<1>1. ASSUME NEW T \in SUBSET S
      PROVE  SumOver(f, T) \in Int /\ SumOver(f, T) = g[T]
  <2>1. IsFiniteSet(T) /\ \A x \in T : f[x] \in Int /\ e[x] = f[x]
    BY FS_Subset
  <2>2. PICK k : AddsUp(k, f, T) /\ SumOver(f, T) = k[T]
    BY <2>1, SumOverAddsUp
  <2>3. AddsUp(g, e, T)
    BY DEF AddsUp
  <2> QED
    BY <2>1, <2>2, <2>3, AddsUpUnique
<1> QED
  BY <1>1

LEMMA SumOfNone == ASSUME NEW f PROVE SumOver(f, {}) = 0
<1>1. IsFiniteSet({}) /\ \A x \in {} : f[x] \in Int
  BY FS_EmptySet
<1>2. PICK g : AddsUp(g, f, {}) /\ SumOver(f, {}) = g[{}]
  BY <1>1, SumOverAddsUp, Zenon
<1> QED
  BY <1>2 DEF AddsUp

LEMMA SumOfSame ==
  ASSUME NEW S, IsFiniteSet(S), NEW f, NEW e, \A x \in S : f[x] \in Int /\ e[x] = f[x]
  PROVE  SumOver(e, S) = SumOver(f, S) /\ SumOver(f, S) \in Int
<1>1. PICK g : AddsUp(g, e, S) /\ SumOver(e, S) = g[S]
  BY SumOverAddsUp
<1> QED
  BY <1>1, SumOverIs

\* The sum does not depend on the element that is taken first.
LEMMA SumWithout ==
  ASSUME NEW S, IsFiniteSet(S), NEW f, \A x \in S : f[x] \in Int, NEW x \in S
  PROVE  SumOver(f, S) = f[x] + SumOver(f, S \ {x})
<1>1. PICK g : AddsUp(g, f, S) /\ SumOver(f, S) = g[S]
  BY SumOverAddsUp
<1>2. \A T \in SUBSET S : g[T] \in Int
  BY <1>1, AddsUpUnique
<1> DEFINE Bad == {T \in SUBSET S : \E y \in T : g[T] # f[y] + g[T \ {y}]}
<1>3. ASSUME Bad # {} PROVE FALSE
  <2>1. PICK T \in Bad : \A U \in Bad : ~(U \subseteq T /\ U # T)
    <3>1. \A T \in Bad : IsFiniteSet(T)
      BY FS_Subset
    <3> HIDE DEF Bad
    <3> QED
      BY <1>3, <3>1, MinimalSet
  <2>2. PICK y \in T : g[T] # f[y] + g[T \ {y}]
    OBVIOUS
  <2> DEFINE z == CHOOSE z \in T : TRUE
  <2>3. z \in T
    OBVIOUS
  <2>4. g[T] = f[z] + g[T \ {z}]
    BY <1>1, <2>3 DEF AddsUp
  <2> HIDE DEF z
  <2>5. z # y
    BY <2>2, <2>4
  <2>6. T \ {z} \notin Bad /\ T \ {y} \notin Bad /\ T \ {z} \in SUBSET S /\ T \ {y} \in SUBSET S
    BY <2>1, <2>2, <2>3
  <2>7. g[T \ {z}] = f[y] + g[(T \ {z}) \ {y}]
    BY <2>5, <2>6, <2>2
  <2>8. g[T \ {y}] = f[z] + g[(T \ {y}) \ {z}]
    BY <2>5, <2>6, <2>3
  <2>9. g[(T \ {z}) \ {y}] = g[(T \ {y}) \ {z}] /\ g[(T \ {y}) \ {z}] \in Int
    <3>1. (T \ {z}) \ {y} = (T \ {y}) \ {z} /\ (T \ {y}) \ {z} \in SUBSET S
      OBVIOUS
    <3> QED
      BY <1>2, <3>1
  <2>10. f[y] \in Int /\ f[z] \in Int
    BY <2>3
  <2>11. f[z] + (f[y] + g[(T \ {y}) \ {z}]) = f[y] + (f[z] + g[(T \ {y}) \ {z}])
    BY <2>9, <2>10
  <2>12. g[T] = f[y] + g[T \ {y}]
    BY <2>4, <2>7, <2>8, <2>9, <2>11
  <2> QED
    BY <2>2, <2>12
<1>4. g[S] = f[x] + g[S \ {x}]
  BY <1>3
<1>5. SumOver(f, S \ {x}) = g[S \ {x}]
  BY <1>1, SumOverIs
<1> QED
  BY <1>1, <1>4, <1>5

\* A sum of naturals is one, and no less than each of them.
LEMMA SumOfNaturals ==
  ASSUME NEW S, IsFiniteSet(S), NEW f, \A x \in S : f[x] \in Nat
  PROVE  SumOver(f, S) \in Nat /\ \A x \in S : SumOver(f, S) >= f[x]
<1> DEFINE F == {T \in SUBSET S : SumOver(f, T) \in Nat}
<1>1. {} \in F
  BY SumOfNone
<1>2. ASSUME NEW T \in SUBSET S, T \in F, NEW x \in S \ T PROVE T \cup {x} \in F
  <2>1. IsFiniteSet(T \cup {x}) /\ (T \cup {x}) \ {x} = T
    BY FS_Subset
  <2>2. SumOver(f, T \cup {x}) = f[x] + SumOver(f, (T \cup {x}) \ {x})
    BY <2>1, SumWithout
  <2> QED
    BY <1>2, <2>1, <2>2
<1>3. \A T \in SUBSET S : T \in F
  <2> HIDE DEF F
  <2> QED
    BY <1>1, <1>2, SetInduction
<1>4. ASSUME NEW x \in S PROVE SumOver(f, S) >= f[x]
  <2>1. SumOver(f, S) = f[x] + SumOver(f, S \ {x})
    BY SumWithout
  <2>2. SumOver(f, S \ {x}) \in Nat
    BY <1>3
  <2> QED
    BY <2>1, <2>2
<1> QED
  BY <1>3, <1>4

\* m gives the elements of S other names, those in T.
Renames(m, S, T) ==
  /\ m \in [S -> T]
  /\ \A x, y \in S : m[x] = m[y] => x = y
  /\ \A t \in T : \E x \in S : m[x] = t

LEMMA SameSize ==
  ASSUME NEW S, IsFiniteSet(S), NEW T, NEW m, Renames(m, S, T)
  PROVE  IsFiniteSet(T) /\ Cardinality(T) = Cardinality(S)
<1>1. m \in Bijection(S, T)
  BY DEF Renames, Bijection, Injection, Surjection, IsInjective
<1>2. ExistsBijection(S, T)
  BY <1>1 DEF ExistsBijection
<1> QED
  BY <1>2, FS_Bijection

LEMMA FirstNaturals ==
  ASSUME NEW n \in Nat
  PROVE  IsFiniteSet(1..n) /\ Cardinality(1..n) = n /\ (1..n = {} <=> n = 0)
<1>1. IsFiniteSet(1..n) /\ Cardinality(1..n) = IF 1 > n THEN 0 ELSE n - 1 + 1
  BY FS_Interval
<1>2. n > 0 => 1 \in 1..n
  OBVIOUS
<1>3. n = 0 => 1..n = {}
  OBVIOUS
<1> QED
  BY <1>1, <1>2, <1>3

\* Adding up in another order, or under other names.
LEMMA SumOverRenamed ==
  ASSUME NEW S, IsFiniteSet(S), NEW T, NEW m, Renames(m, S, T),
         NEW f, \A x \in S : f[x] \in Int, NEW e, \A x \in S : e[m[x]] = f[x]
  PROVE  SumOver(e, T) = SumOver(f, S)
<1> USE DEF Renames
<1>0. IsFiniteSet(T)
  BY SameSize
<1> DEFINE Image(U) == {m[x] : x \in U}
           F == {U \in SUBSET S : SumOver(e, Image(U)) = SumOver(f, U)}
<1>1. {} \in F
  <2>1. Image({}) = {}
    OBVIOUS
  <2>2. SumOver(e, {}) = SumOver(f, {})
    BY SumOfNone
  <2> QED
    BY <2>1, <2>2
<1>2. ASSUME NEW U \in SUBSET S, U \in F, NEW x \in S \ U PROVE U \cup {x} \in F
  <2> DEFINE W == U \cup {x}
  <2>1. /\ IsFiniteSet(W) /\ W \ {x} = U /\ x \in W
        /\ \A y \in W : f[y] \in Int
    BY FS_Subset
  <2>2. /\ Image(W) \subseteq T
        /\ Image(W) \ {m[x]} = Image(U)
        /\ m[x] \in Image(W)
    OBVIOUS
  <2>3. IsFiniteSet(Image(W)) /\ \A y \in Image(W) : e[y] \in Int
    BY <1>0, <2>2, FS_Subset
  <2> HIDE DEF W, Image
  <2>4. SumOver(f, W) = f[x] + SumOver(f, U)
    BY <2>1, SumWithout
  <2>5. SumOver(e, Image(W)) = e[m[x]] + SumOver(e, Image(U))
    BY <2>2, <2>3, SumWithout
  <2>6. SumOver(e, Image(W)) = SumOver(f, W)
    BY <1>2, <2>4, <2>5
  <2> QED
    BY <2>6 DEF W
<1>3. S \in F
  <2> HIDE DEF F
  <2> QED
    BY <1>1, <1>2, SetInduction
<1>4. Image(S) = T
  OBVIOUS
<1> QED
  BY <1>3, <1>4

-----------------------------------------------------------------------------
(***************************************************************************)
(* Folds over a sequence.                                                  *)
(***************************************************************************)
\* g folds h over the elements of s at every set of positions, from the left.
FoldsLeft(g, s, V, b, h) ==
  /\ g \in [SUBSET DOMAIN s -> V]
  /\ \A d \in SUBSET DOMAIN s :
       g[d] = IF d = {} THEN b ELSE h[<<g[d \ {Max(d)}], s[Max(d)]>>]

LEMMA MaxOfInterval == ASSUME NEW n \in Nat \ {0} PROVE Max(1..n) = n
<1> DEFINE P(x) == x \in 1..n /\ \A y \in 1..n : x >= y
<1>1. P(n) /\ \A x : P(x) => x = n
  OBVIOUS
<1>2. Max(1..n) = CHOOSE x : P(x)
  BY DEF Max
<1> HIDE DEF P
<1> QED
  BY <1>1, <1>2

\* A finite set of naturals has a greatest element.
LEMMA MaxOfFinite ==
  ASSUME NEW n \in Nat, NEW d \in SUBSET (1..n), d # {}
  PROVE  Max(d) \in d /\ \A y \in d : Max(d) >= y
<1> DEFINE Bounds == {k \in Nat : \A y \in d : y <= k}
<1>1. n \in Bounds
  OBVIOUS
<1>2. PICK m \in Bounds : \A k \in Bounds : m <= k
  <2>1. Bounds \subseteq Nat /\ Bounds # {}
    BY <1>1
  <2> HIDE DEF Bounds
  <2> QED
    BY <2>1, LeastNatural
<1>3. m \in d
  <2> SUFFICES ASSUME m \notin d PROVE FALSE
    OBVIOUS
  <2>1. \A y \in d : y \in Nat /\ y >= 1 /\ y <= m /\ y # m
    BY <1>2
  <2>2. m - 1 \in Nat /\ \A y \in d : y <= m - 1
    <3>1. m \in Nat
      BY <1>2
    <3>2. PICK y \in d : TRUE
      OBVIOUS
    <3>3. m - 1 \in Nat
      BY <2>1, <3>1, <3>2
    <3>4. ASSUME NEW z \in d PROVE z <= m - 1
      <4>1. z \in Nat /\ z <= m /\ z # m
        BY <2>1
      <4> HIDE DEF Bounds
      <4> QED
        BY <3>1, <4>1
    <3> QED
      BY <3>3, <3>4
  <2>3. m - 1 \in Bounds
    BY <2>2
  <2> QED
    BY <1>2, <2>3
<1>4. m \in d /\ \A y \in d : m >= y
  BY <1>2, <1>3
<1>5. \E x \in d : \A y \in d : x >= y
  BY <1>4
<1> QED
  BY <1>5 DEF Max

LEMMA FoldLeftExists ==
  ASSUME NEW S, NEW s \in Seq(S), NEW V, NEW b \in V, NEW h \in [V \X S -> V]
  PROVE  \E g : FoldsLeft(g, s, V, b, h)
<1> DEFINE D == DOMAIN s
           k == [p \in D \X V |-> h[<<p[2], s[p[1]]>>]]
           c == [d \in SUBSET D |-> Max(d)]
<1>1. D = 1..Len(s) /\ Len(s) \in Nat /\ IsFiniteSet(D) /\ \A i \in D : s[i] \in S
  BY FS_Interval, ElementOfSeq, LenProperties
<1>2. \A d \in SUBSET D : d # {} => c[d] \in d
  BY <1>1, MaxOfFinite
<1>3. k \in [D \X V -> V]
  BY <1>1
<1>4. \A i \in D, v \in V : k[<<i, v>>] = h[<<v, s[i]>>]
  BY <1>1
<1>5. \A d \in SUBSET D : c[d] = Max(d)
  OBVIOUS
<1> HIDE DEF D, k, c
<1>6. PICK g : FoldsOver(g, D, V, b, k, c)
  BY <1>1, <1>2, <1>3, FoldExists, Zenon
<1>7. ASSUME NEW d \in SUBSET D, d # {}
      PROVE  g[d] = h[<<g[d \ {Max(d)}], s[Max(d)]>>]
  <2>1. c[d] \in D /\ g[d \ {c[d]}] \in V
    BY <1>2, <1>6, <1>7 DEF FoldsOver
  <2>2. g[d] = k[<<c[d], g[d \ {c[d]}]>>]
    BY <1>6, <1>7 DEF FoldsOver
  <2> QED
    BY <1>4, <1>5, <2>1, <2>2
<1> QED
  BY <1>6, <1>7 DEF FoldsLeft, FoldsOver, D

\* A fold from the left goes from one prefix to the next.
LEMMA PrefixSteps ==
  ASSUME NEW n \in Nat
  PROVE  /\ 1..0 = {}
         /\ \A i \in 0..n : 1..i \in SUBSET (1..n)
         /\ \A i \in 1..n : 1..i # {} /\ Max(1..i) = i /\ (1..i) \ {i} = 1..(i - 1)
<1>1. ASSUME NEW i \in 1..n PROVE 1..i # {} /\ Max(1..i) = i /\ (1..i) \ {i} = 1..(i - 1)
  <2>1. i \in Nat \ {0}
    OBVIOUS
  <2>2. i \in 1..i /\ (1..i) \ {i} = 1..(i - 1)
    BY <2>1
  <2> QED
    BY <2>1, <2>2, MaxOfInterval
<1>2. ASSUME NEW i \in 0..n PROVE 1..i \in SUBSET (1..n)
  OBVIOUS
<1>3. 1..0 = {}
  OBVIOUS
<1> QED
  BY <1>1, <1>2, <1>3, Zenon

-----------------------------------------------------------------------------
(***************************************************************************)
(* What is left of a list of records without those of one id.              *)
(***************************************************************************)
Dropped(list, id) ==
  FoldLeft(LAMBDA kept, c : IF c.id = id THEN kept ELSE Append(kept, c), <<>>, list)

\* g holds what is left of every prefix.
DropsFrom(g, list, id) ==
  /\ g[1..0] = <<>>
  /\ \A i \in 1..Len(list) :
       g[1..i] = IF list[i].id = id THEN g[1..(i - 1)] ELSE Append(g[1..(i - 1)], list[i])
  /\ Dropped(list, id) = g[1..Len(list)]

LEMMA DroppedFold ==
  ASSUME NEW S, NEW list \in Seq(S), NEW id
  PROVE  \E g : DropsFrom(g, list, id)
<1> DEFINE D == DOMAIN list
           V == Seq(S)
           Iter(g) == g = [d \in SUBSET D |->
                             IF d = {} THEN <<>>
                             ELSE LET x == Max(d)
                                  IN  IF list[x].id = id THEN g[d \ {x}]
                                      ELSE Append(g[d \ {x}], list[x])]
           h == [p \in V \X S |-> IF p[2].id = id THEN p[1] ELSE Append(p[1], p[2])]
<1>1. D = 1..Len(list) /\ Len(list) \in Nat /\ \A i \in D : list[i] \in S
  BY LenProperties, ElementOfSeq
<1>2. Dropped(list, id) = (CHOOSE g : Iter(g))[D]
  BY DEF Dropped, FoldLeft, MapThenFoldSet
<1>3. h \in [V \X S -> V]
  <2>1. ASSUME NEW v \in V, NEW b \in S PROVE Append(v, b) \in V
    BY AppendProperties
  <2> QED
    BY <2>1
<1>4. <<>> \in V
  BY EmptySeq
<1>5. \A v \in V, b \in S : h[<<v, b>>] = IF b.id = id THEN v ELSE Append(v, b)
  OBVIOUS
<1> HIDE DEF h
<1>6. \E g : Iter(g)
  <2>1. PICK g : FoldsLeft(g, list, V, <<>>, h)
    BY <1>3, <1>4, FoldLeftExists
  <2>2. g = [d \in SUBSET D |-> g[d]]
    BY <2>1 DEF FoldsLeft
  <2>3. ASSUME NEW d \in SUBSET D
        PROVE  g[d] = IF d = {} THEN <<>>
                      ELSE LET x == Max(d)
                           IN  IF list[x].id = id THEN g[d \ {x}]
                               ELSE Append(g[d \ {x}], list[x])
    <3>1. CASE d = {}
      BY <2>1, <3>1 DEF FoldsLeft
    <3>2. CASE d # {}
      <4>1. Max(d) \in D
        BY <1>1, <3>2, MaxOfFinite
      <4>2. list[Max(d)] \in S /\ g[d \ {Max(d)}] \in V
        BY <1>1, <2>1, <4>1 DEF FoldsLeft
      <4>3. g[d] = h[<<g[d \ {Max(d)}], list[Max(d)]>>]
        BY <2>1, <3>2 DEF FoldsLeft
      <4> QED
        BY <1>5, <3>2, <4>2, <4>3
    <3> QED
      BY <3>1, <3>2
  <2>4. Iter(g)
    BY <2>2, <2>3
  <2> HIDE DEF Iter
  <2> QED
    BY <2>4
<1> DEFINE g == CHOOSE g : Iter(g)
<1>7. Iter(g)
  <2> HIDE DEF Iter
  <2> QED
    BY <1>6
<1> HIDE DEF g
<1>8. g[{}] = <<>>
  BY <1>7
<1>9. ASSUME NEW i \in 1..Len(list)
      PROVE  g[1..i] = IF list[i].id = id THEN g[1..(i - 1)] ELSE Append(g[1..(i - 1)], list[i])
  <2>1. 1..i \in SUBSET D /\ 1..i # {} /\ Max(1..i) = i /\ (1..i) \ {i} = 1..(i - 1)
    BY <1>1, PrefixSteps
  <2> QED
    BY <1>7, <2>1
<1>10. DropsFrom(g, list, id)
  <2>1. 1..0 = {} /\ Dropped(list, id) = g[1..Len(list)]
    BY <1>1, <1>2, PrefixSteps DEF g
  <2> QED
    BY <1>8, <1>9, <2>1 DEF DropsFrom
<1> QED
  BY <1>10

\* rest is what is left of the first n of a list.
LeftOf(rest, list, n, id) ==
  /\ Len(rest) <= n
  /\ \A k \in 1..Len(rest) : \E i \in 1..n : rest[k] = list[i] /\ list[i].id # id
  /\ \A i \in 1..n : list[i].id # id => \E k \in 1..Len(rest) : rest[k] = list[i]

DistinctIds(list, n) == \A i, j \in 1..n : list[i].id = list[j].id => i = j

LEMMA DroppedIs ==
  ASSUME NEW S, NEW list \in Seq(S), NEW id
  PROVE  /\ Dropped(list, id) \in Seq(S) /\ Len(Dropped(list, id)) <= Len(list)
         /\ ToSet(Dropped(list, id)) = {c \in ToSet(list) : c.id # id}
         /\ DistinctIds(list, Len(list))
              => DistinctIds(Dropped(list, id), Len(Dropped(list, id)))
<1>1. /\ DOMAIN list = 1..Len(list) /\ Len(list) \in Nat
      /\ \A i \in 1..Len(list) : list[i] \in S
  BY LenProperties, ElementOfSeq
<1>2. PICK g : DropsFrom(g, list, id)
  BY DroppedFold
<1> DEFINE Ok(n) == /\ g[1..n] \in Seq(S) /\ LeftOf(g[1..n], list, n, id)
                    /\ DistinctIds(list, n) => DistinctIds(g[1..n], Len(g[1..n]))
           T == {n \in Nat : n <= Len(list) => Ok(n)}
<1>3. 0 \in T
  <2>1. g[1..0] = <<>> /\ <<>> \in Seq(S) /\ Len(<<>>) = 0 /\ 1..0 = {}
    BY <1>2, EmptySeq DEF DropsFrom
  <2>2. LeftOf(<<>>, list, 0, id) /\ DistinctIds(<<>>, 0)
    BY <2>1 DEF LeftOf, DistinctIds
  <2>3. Ok(0)
    BY <2>1, <2>2
  <2> QED
    BY <2>3
<1>4. ASSUME NEW n \in Nat, n \in T PROVE n + 1 \in T
  <2> SUFFICES ASSUME n + 1 <= Len(list) PROVE Ok(n + 1)
    OBVIOUS
  <2> DEFINE q == g[1..n]
             p == g[1..(n + 1)]
             e == list[n + 1]
  <2>1. n <= Len(list) /\ n + 1 \in 1..Len(list) /\ (n + 1) - 1 = n /\ e \in S
    BY <1>1
  <2>2. Ok(n)
    BY <1>4, <2>1
  <2>3. p = IF e.id = id THEN q ELSE Append(q, e)
    BY <1>2, <2>1 DEF DropsFrom
  <2>4. \A i \in 1..(n + 1) : i \in 1..n \/ i = n + 1
    OBVIOUS
  <2>5. /\ q \in Seq(S) /\ LeftOf(q, list, n, id) /\ Len(q) \in Nat
        /\ DistinctIds(list, n) => DistinctIds(q, Len(q))
    BY <2>2, LenProperties
  <2>6. DistinctIds(list, n + 1) => DistinctIds(list, n)
    BY DEF DistinctIds
  <2> HIDE DEF p, q
  <2>7. CASE e.id = id
    <3>1. p = q
      BY <2>3, <2>7
    <3>2. LeftOf(q, list, n + 1, id)
      BY <2>4, <2>5, <2>7 DEF LeftOf
    <3> QED
      BY <2>5, <2>6, <3>1, <3>2 DEF p
  <2>8. CASE e.id # id
    <3>1. /\ p = Append(q, e) /\ p \in Seq(S) /\ Len(p) = Len(q) + 1
          /\ p[Len(q) + 1] = e /\ \A k \in 1..Len(q) : p[k] = q[k]
      BY <2>1, <2>3, <2>5, <2>8, AppendProperties
    <3>2. \A k \in 1..Len(p) : k \in 1..Len(q) \/ k = Len(q) + 1
      BY <2>5, <3>1
    <3>3. Len(p) <= n + 1
      BY <2>5, <3>1 DEF LeftOf
    <3>4. ASSUME NEW k \in 1..Len(p)
          PROVE  \E i \in 1..(n + 1) : p[k] = list[i] /\ list[i].id # id
      <4>1. CASE k \in 1..Len(q)
        BY <2>5, <3>1, <4>1 DEF LeftOf
      <4>2. CASE k = Len(q) + 1
        BY <2>8, <3>1, <4>2
      <4> QED
        BY <3>2, <4>1, <4>2
    <3>5. ASSUME NEW i \in 1..(n + 1), list[i].id # id
          PROVE  \E k \in 1..Len(p) : p[k] = list[i]
      <4>1. CASE i \in 1..n
        <5>1. PICK k \in 1..Len(q) : q[k] = list[i]
          BY <2>5, <3>5, <4>1 DEF LeftOf
        <5>2. k \in 1..Len(p) /\ p[k] = q[k]
          BY <2>5, <3>1
        <5> QED
          BY <5>1, <5>2
      <4>2. CASE i = n + 1
        <5>1. Len(q) + 1 \in 1..Len(p)
          BY <2>5, <3>1
        <5> QED
          BY <3>1, <4>2, <5>1
      <4> QED
        BY <2>4, <4>1, <4>2
    <3>6. ASSUME DistinctIds(list, n + 1) PROVE DistinctIds(p, Len(p))
      <4>1. DistinctIds(q, Len(q))
        BY <2>5, <2>6, <3>6
      <4>2. ASSUME NEW k \in 1..Len(q) PROVE p[k].id # e.id
        <5>1. PICK i \in 1..n : q[k] = list[i]
          BY <2>5 DEF LeftOf
        <5>2. list[i].id # e.id
          BY <3>6 DEF DistinctIds
        <5> QED
          BY <3>1, <5>1, <5>2
      <4> QED
        BY <3>1, <3>2, <4>1, <4>2 DEF DistinctIds
    <3> QED
      BY <3>1, <3>3, <3>4, <3>5, <3>6 DEF LeftOf, p
  <2> QED
    BY <2>7, <2>8
<1> HIDE DEF Ok
<1>5. Ok(Len(list))
  <2>1. \A n \in Nat : n \in T
    BY <1>3, <1>4, Induction
  <2> QED
    BY <1>1, <2>1
<1> DEFINE R == Dropped(list, id)
<1>6. /\ R \in Seq(S) /\ LeftOf(R, list, Len(list), id)
      /\ DistinctIds(list, Len(list)) => DistinctIds(R, Len(R))
  BY <1>2, <1>5 DEF DropsFrom, Ok
<1> HIDE DEF R
<1>7. DOMAIN R = 1..Len(R) /\ \A k \in 1..Len(R) : R[k] \in S
  BY <1>6, LenProperties, ElementOfSeq
<1>8. ToSet(R) = {c \in ToSet(list) : c.id # id}
  <2>1. /\ \A k \in 1..Len(R) : \E i \in 1..Len(list) : R[k] = list[i] /\ list[i].id # id
        /\ \A i \in 1..Len(list) : list[i].id # id => \E k \in 1..Len(R) : R[k] = list[i]
    BY <1>6 DEF LeftOf
  <2>2. /\ ToSet(R) = {R[k] : k \in 1..Len(R)}
        /\ ToSet(list) = {list[i] : i \in 1..Len(list)}
    BY <1>1, <1>7 DEF ToSet
  <2>3. ASSUME NEW c \in ToSet(R) PROVE c \in ToSet(list) /\ c.id # id
    BY <2>1, <2>2
  <2>4. ASSUME NEW c \in ToSet(list), c.id # id PROVE c \in ToSet(R)
    BY <2>1, <2>2, <2>4
  <2> QED
    BY <2>3, <2>4
<1> QED
  BY <1>6, <1>8 DEF LeftOf, R
LEMMA MinOfTwo ==
  ASSUME NEW a \in Int, NEW b \in Int
  PROVE  Min({a, b}) = IF a <= b THEN a ELSE b
<1> DEFINE P(x) == x \in {a, b} /\ \A y \in {a, b} : x <= y
           m == IF a <= b THEN a ELSE b
<1>1. P(m) /\ \A x : P(x) => x = m
  OBVIOUS
<1>2. Min({a, b}) = CHOOSE x : P(x)
  BY DEF Min
<1> HIDE DEF P, m
<1>3. Min({a, b}) = m
  BY <1>1, <1>2
<1> QED
  BY <1>3 DEF m

-----------------------------------------------------------------------------
\* The saves that wait when the i-th of them has ended.
LEMMA RemoveAtIs ==
  ASSUME NEW S, NEW q \in Seq(S), NEW i \in 1..Len(q)
  PROVE  /\ RemoveAt(q, i) \in Seq(S)
         /\ \A k \in DOMAIN RemoveAt(q, i) :
              \E m \in DOMAIN q : /\ m # i /\ RemoveAt(q, i)[k] = q[m]
                                  /\ m = (IF k < i THEN k ELSE k + 1)
<1> DEFINE a == SubSeq(q, 1, i - 1)
           b == SubSeq(q, i + 1, Len(q))
           n == Len(q)
           r == a \o b
<1>1. n \in Nat /\ i \in Nat /\ 1 <= i /\ i <= n /\ DOMAIN q = 1..n
  BY LenProperties
<1>2. a \in Seq(S) /\ Len(a) = i - 1 /\ \A k \in 1..(i - 1) : a[k] = q[k]
  <2>1. CASE i = 1
    <3>1. a = <<>> /\ i - 1 = 0 /\ 1..(i - 1) = {}
      BY <1>1, <2>1, SubSeqEmpty
    <3> QED
      BY <3>1, EmptySeq
  <2>2. CASE i # 1
    BY <1>1, <2>2, SubSeqProperties
  <2> QED
    BY <2>1, <2>2
<1>3. b \in Seq(S) /\ Len(b) = n - i /\ \A k \in 1..(n - i) : b[k] = q[k + i]
  <2>1. CASE i = n
    <3>1. b = <<>> /\ n - i = 0 /\ 1..(n - i) = {}
      BY <1>1, <2>1, SubSeqEmpty
    <3> QED
      BY <3>1, EmptySeq
  <2>2. CASE i # n
    <3>1. i + 1 \in 1..n /\ n \in (i + 1)..n
      <4> HIDE DEF n, a, b, r
      <4> QED
        BY <1>1, <2>2
    <3>2. /\ b \in Seq(S) /\ Len(b) = n - (i + 1) + 1
          /\ \A k \in 1..(n - (i + 1) + 1) : b[k] = q[(i + 1) + k - 1]
      BY <1>1, <3>1, SubSeqProperties
    <3> HIDE DEF b, n
    <3>3. n - (i + 1) + 1 = n - i /\ \A k \in 1..(n - i) : (i + 1) + k - 1 = k + i
      BY <1>1
    <3> QED
      BY <3>2, <3>3
  <2> QED
    BY <2>1, <2>2
<1> HIDE DEF a, b, n
<1>4. /\ r \in Seq(S) /\ Len(r) = (i - 1) + (n - i)
      /\ \A k \in 1..((i - 1) + (n - i)) :
           r[k] = IF k <= i - 1 THEN a[k] ELSE b[k - (i - 1)]
  <2>1. /\ r \in Seq(S) /\ Len(r) = Len(a) + Len(b)
        /\ \A k \in 1..(Len(a) + Len(b)) :
             r[k] = IF k <= Len(a) THEN a[k] ELSE b[k - Len(a)]
    BY <1>2, <1>3, ConcatProperties
  <2> QED
    BY <1>2, <1>3, <2>1
<1>5. r = RemoveAt(q, i)
  BY DEF RemoveAt, a, b, n
<1> HIDE DEF r
<1>6. DOMAIN r = 1..(n - 1)
  <2>1. (i - 1) + (n - i) = n - 1
    BY <1>1
  <2> QED
    BY <1>4, <2>1, LenProperties
<1>7. ASSUME NEW k \in 1..(n - 1)
      PROVE  \E m \in 1..n : m # i /\ r[k] = q[m] /\ m = (IF k < i THEN k ELSE k + 1)
  <2>1. CASE k < i
    <3>1. k \in 1..(i - 1) /\ k \in 1..((i - 1) + (n - i)) /\ k \in 1..n /\ k # i /\ k <= i - 1
      BY <1>1, <2>1
    <3>2. r[k] = q[k]
      BY <1>2, <1>4, <3>1
    <3> QED
      BY <2>1, <3>1, <3>2
  <2>2. CASE ~(k < i)
    <3>1. /\ k \in 1..((i - 1) + (n - i)) /\ k - (i - 1) \in 1..(n - i) /\ ~(k <= i - 1)
          /\ k + 1 \in 1..n /\ k + 1 # i /\ (k - (i - 1)) + i = k + 1
      BY <1>1, <2>2
    <3>2. r[k] = q[k + 1]
      BY <1>3, <1>4, <3>1
    <3> QED
      BY <2>2, <3>1, <3>2
  <2> QED
    BY <2>1, <2>2
<1> QED
  BY <1>1, <1>4, <1>5, <1>6, <1>7

LEMMA MaxOfTwo ==
  ASSUME NEW a \in Int, NEW b \in Int
  PROVE  Max({a, b}) = IF a >= b THEN a ELSE b
<1> DEFINE P(x) == x \in {a, b} /\ \A y \in {a, b} : x >= y
           m == IF a >= b THEN a ELSE b
<1>1. P(m) /\ \A x : P(x) => x = m
  OBVIOUS
<1>2. Max({a, b}) = CHOOSE x : P(x)
  BY DEF Max
<1> HIDE DEF P, m
<1>3. Max({a, b}) = m
  BY <1>1, <1>2
<1> QED
  BY <1>3 DEF m

-----------------------------------------------------------------------------
(***************************************************************************)
(* Sorting a finite set: the place of an element is the number of those    *)
(* above it.                                                               *)
(***************************************************************************)
\* above[c] is what comes before c, in a strict order of S without ties.
Orders(above, S) ==
  /\ \A c \in S : above[c] \subseteq S /\ c \notin above[c]
  /\ \A a, b, c \in S : a \in above[b] /\ b \in above[c] => a \in above[c]
  /\ \A a, b \in S : a = b \/ a \in above[b] \/ b \in above[a]

LEMMA RanksExist ==
  ASSUME NEW S, IsFiniteSet(S), NEW above, Orders(above, S)
  PROVE  /\ Cardinality(S) \in Nat
         /\ \A c \in S : Cardinality(above[c]) \in 0..(Cardinality(S) - 1)
         /\ \A b, c \in S : b \in above[c] => Cardinality(above[b]) < Cardinality(above[c])
         /\ \A i \in 1..Cardinality(S) : \E c \in S : Cardinality(above[c]) = i - 1
<1> DEFINE n == Cardinality(S)
           rank == [c \in S |-> Cardinality(above[c])]
           Places == 0..(n - 1)
<1>1. n \in Nat
  BY FS_CardinalityType
<1>2. ASSUME NEW c \in S
      PROVE  IsFiniteSet(above[c]) /\ Cardinality(above[c]) \in Places
  <2>1. above[c] \subseteq S /\ above[c] # S
    BY DEF Orders
  <2>2. /\ IsFiniteSet(above[c]) /\ Cardinality(above[c]) \in Nat
        /\ Cardinality(above[c]) <= n /\ Cardinality(above[c]) # n
    BY <2>1, FS_Subset, FS_CardinalityType
  <2> QED
    BY <1>1, <2>2
<1>3. ASSUME NEW b \in S, NEW c \in S, b \in above[c]
      PROVE  Cardinality(above[b]) < Cardinality(above[c])
  <2>1. above[b] \subseteq above[c] /\ above[b] # above[c]
    BY <1>3 DEF Orders
  <2>2. IsFiniteSet(above[c]) /\ Cardinality(above[c]) \in Nat /\ Cardinality(above[b]) \in Nat
    BY <1>2
  <2>3. Cardinality(above[b]) <= Cardinality(above[c]) /\ Cardinality(above[b]) # Cardinality(above[c])
    BY <2>1, <2>2, FS_Subset
  <2> QED
    BY <2>2, <2>3
<1>4. rank \in [S -> Places] /\ \A c \in S : rank[c] = Cardinality(above[c])
  BY <1>2
<1>5. \A b, c \in S : rank[b] = rank[c] => b = c
  <2> SUFFICES ASSUME NEW b \in S, NEW c \in S, rank[b] = rank[c], b # c PROVE FALSE
    OBVIOUS
  <2>1. b \in above[c] \/ c \in above[b]
    BY DEF Orders
  <2>2. rank[b] < rank[c] \/ rank[c] < rank[b]
    BY <1>3, <1>4, <2>1
  <2>3. rank[b] \in Nat /\ rank[c] \in Nat
    BY <1>4
  <2> QED
    BY <2>2, <2>3
<1>6. IsFiniteSet(Places) /\ Cardinality(Places) = n
  <2>1. Cardinality(Places) = (IF 0 > n - 1 THEN 0 ELSE (n - 1) - 0 + 1) /\ IsFiniteSet(Places)
    BY <1>1, FS_Interval
  <2> QED
    BY <1>1, <2>1
<1> HIDE DEF rank, Places, n
<1>7. rank \in Injection(S, Places)
  BY <1>4, <1>5 DEF Injection, IsInjective
<1>8. rank \in Surjection(S, Places)
  BY <1>6, <1>7, FS_Injection DEF n
<1>9. ASSUME NEW i \in 1..n PROVE \E c \in S : Cardinality(above[c]) = i - 1
  <2>1. i - 1 \in Places
    BY <1>1 DEF Places
  <2>2. \E c \in S : rank[c] = i - 1
    BY <1>8, <2>1 DEF Surjection
  <2> QED
    BY <1>4, <2>2
<1> QED
  BY <1>1, <1>2, <1>3, <1>9 DEF n, Places

\* The sequence of the elements by their places holds each of them, in order.
LEMMA RankedIs ==
  ASSUME NEW S, IsFiniteSet(S), NEW above, Orders(above, S),
         NEW f, f = [i \in 1..Cardinality(S) |-> f[i]],
         \A i \in 1..Cardinality(S) : f[i] \in S /\ Cardinality(above[f[i]]) = i - 1
  PROVE  /\ f \in Seq(S) /\ Len(f) = Cardinality(S) /\ ToSet(f) = S
         /\ \A i, j \in 1..Len(f) : i < j => f[i] \in above[f[j]]
<1> DEFINE n == Cardinality(S)
<1>1. n \in Nat /\ \A c \in S : Cardinality(above[c]) \in 0..(n - 1)
  BY RanksExist
<1>2. \A b, c \in S : b \in above[c] => Cardinality(above[b]) < Cardinality(above[c])
  BY RanksExist
<1> HIDE DEF n
<1>3. f = [i \in 1..n |-> f[i]] /\ \A i \in 1..n : f[i] \in S /\ Cardinality(above[f[i]]) = i - 1
  BY DEF n
<1>4. f \in Seq(S) /\ Len(f) = n /\ DOMAIN f = 1..n
  <2>1. f \in [1..n -> S]
    BY <1>3
  <2>2. f \in Seq(S)
    BY <1>1, <2>1, SeqDef
  <2>3. DOMAIN f = 1..n /\ DOMAIN f = 1..Len(f) /\ Len(f) \in Nat
    BY <2>1, <2>2, LenProperties
  <2>4. Len(f) = n
    <3>1. Cardinality(1..n) = n /\ Cardinality(1..Len(f)) = Len(f)
      BY <1>1, <2>3, FirstNaturals
    <3> QED
      BY <2>3, <3>1
  <2> QED
    BY <2>2, <2>3, <2>4
<1>5. ASSUME NEW c \in S PROVE \E i \in 1..n : f[i] = c
  <2> DEFINE i == Cardinality(above[c]) + 1
  <2>1. i \in 1..n /\ i - 1 = Cardinality(above[c])
    BY <1>1
  <2>2. f[i] \in S /\ Cardinality(above[f[i]]) = Cardinality(above[c])
    BY <1>3, <2>1
  <2>3. f[i] = c \/ f[i] \in above[c] \/ c \in above[f[i]]
    BY <2>2 DEF Orders
  <2>4. Cardinality(above[c]) \in Nat
    BY <1>1
  <2> HIDE DEF i
  <2>5. f[i] = c
    BY <1>2, <2>2, <2>3, <2>4
  <2> QED
    BY <2>1, <2>5
<1>6. ToSet(f) = S
  BY <1>3, <1>4, <1>5 DEF ToSet
<1>7. ASSUME NEW i \in 1..n, NEW j \in 1..n, i < j PROVE f[i] \in above[f[j]]
  <2>1. f[i] \in S /\ f[j] \in S /\ Cardinality(above[f[i]]) = i - 1 /\ Cardinality(above[f[j]]) = j - 1
    BY <1>3
  <2>2. f[i] = f[j] \/ f[i] \in above[f[j]] \/ f[j] \in above[f[i]]
    BY <2>1 DEF Orders
  <2>3. f[j] \in above[f[i]] => j - 1 < i - 1
    BY <1>2, <2>1
  <2>4. i \in Nat /\ j \in Nat
    BY <1>1
  <2>5. f[i] # f[j]
    BY <1>7, <2>1, <2>4
  <2> QED
    BY <1>7, <2>2, <2>3, <2>4, <2>5
<1> QED
  BY <1>4, <1>6, <1>7 DEF n

\* The elements of a list are finitely many.
LEMMA ListIsFinite ==
  ASSUME NEW S, NEW list \in Seq(S)
  PROVE  IsFiniteSet(ToSet(list))
<1>1. DOMAIN list = 1..Len(list) /\ Len(list) \in Nat /\ list = [i \in DOMAIN list |-> list[i]]
  BY LenProperties
<1>2. IsFiniteSet(DOMAIN list)
  <2>1. IsFiniteSet(1..Len(list))
    BY <1>1, FirstNaturals
  <2> QED
    BY <1>1, <2>1
<1>3. list \in Surjection(DOMAIN list, ToSet(list))
  BY <1>1 DEF Surjection, ToSet
<1> QED
  BY <1>2, <1>3, FS_Surjection

=============================================================================
