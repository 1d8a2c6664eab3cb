---------------------------- MODULE Tallies_proofs ----------------------------
(***************************************************************************)
(* Lemmas about the sums and the trimmed queues that the modules count     *)
(* with.  A sum over a set is defined by recursion over it; the provers    *)
(* cannot instantiate an induction theorem that takes a predicate, so the  *)
(* induction goes by sets: the least cardinality of a counterexample.      *)
(***************************************************************************)
EXTENDS Tallies, FiniteSetTheorems, WellFoundedInduction, TLAPS

-------------------------------------------------------------------------------
(* Induction                                                                 *)

\* < on the naturals, as a relation.
LessThan == {p \in Nat \X Nat : p[1] < p[2]}

\* A set of naturals that is not empty has a least element.
LEMMA Least ==
    ASSUME NEW T, T \subseteq Nat, T # {}
    PROVE  \E x \in T : \A y \in T : x <= y
<1>1. OpToRel(<, Nat) = LessThan
  BY DEF OpToRel, LessThan
<1>2. IsWellFoundedOn(LessThan, Nat)
  BY <1>1, NatLessThanWellFounded
<1>3. PICK x \in T : \A y \in T : <<y, x>> \notin LessThan
  BY <1>2, WFMin
<1>4. \A y \in T : ~(y < x)
  BY <1>3 DEF LessThan
<1> QED BY <1>4

\* Induction over the naturals, for the set of numbers that satisfy something.
LEMMA NatSet ==
    ASSUME NEW F, 0 \in F, \A n \in Nat : n \in F => n + 1 \in F
    PROVE  Nat \subseteq F
<1> SUFFICES ASSUME Nat \ F # {}
             PROVE  FALSE
  OBVIOUS
<1>1. PICK n \in Nat \ F : \A m \in Nat \ F : n <= m
  BY Least
<1>2. n # 0 /\ n - 1 \in Nat /\ n - 1 \in F
  BY <1>1
<1> QED BY <1>1, <1>2

\* Induction over the subsets of a finite set, from all smaller ones.
LEMMA FiniteSetsSet ==
    ASSUME NEW S, IsFiniteSet(S), NEW F,
           \A T \in SUBSET S : (\A U \in SUBSET T : U # T => U \in F) => T \in F
    PROVE  S \in F
<1> DEFINE Bad == {n \in Nat : \E T \in SUBSET S : T \notin F /\ Cardinality(T) = n}
<1> SUFFICES ASSUME S \notin F
             PROVE  FALSE
  OBVIOUS
<1>1. Cardinality(S) \in Bad
  BY FS_CardinalityType
<1>2. PICK n \in Bad : \A m \in Bad : n <= m
  BY <1>1, Least
<1>3. PICK T \in SUBSET S : T \notin F /\ Cardinality(T) = n
  BY <1>2
<1>4. IsFiniteSet(T)
  BY FS_Subset
<1>5. ASSUME NEW U \in SUBSET T, U # T
      PROVE  U \in F
  <2>1. IsFiniteSet(U) /\ Cardinality(U) <= n /\ Cardinality(U) # n /\ U \in SUBSET S
    BY <1>3, <1>4, <1>5, FS_Subset
  <2>2. Cardinality(U) \in Nat
    BY <2>1, FS_CardinalityType
  <2>3. Cardinality(U) \notin Bad
    BY <1>2, <2>1, <2>2
  <2> QED BY <2>1, <2>2, <2>3
<1> QED BY <1>3, <1>5

-------------------------------------------------------------------------------
(* The recursion of a sum                                                    *)

\* The element the sum takes next.
First(s) == CHOOSE x \in s : TRUE

\* It is one of the set.
LEMMA FirstIn == \A s : s # {} => First(s) \in s
  BY DEF First

\* g is the recursive function of the sums over the subsets of S.
IsSum(g, f, S) == g = [s \in SUBSET S |-> IF s = {} THEN 0 ELSE f[First(s)] + g[s \ {First(s)}]]

\* The sum as that function gives it.
Sum(f, S) == (CHOOSE g : IsSum(g, f, S))[S]

\* The library's definition is this one.
LEMMA SumOfIsSum == \A f, S : SumOf(f, S) = Sum(f, S)
  BY DEF SumOf, MapThenSumSet, MapThenFoldSet, Sum, IsSum, First

\* One step of the recursion.
LEMMA IsSumStep ==
    ASSUME NEW g, NEW f, NEW S, IsSum(g, f, S), NEW s \in SUBSET S
    PROVE  g[s] = IF s = {} THEN 0 ELSE f[First(s)] + g[s \ {First(s)}]
  BY Zenon DEF IsSum

\* Two such functions agree wherever both are defined.
LEMMA IsSumUnique ==
    ASSUME NEW f, NEW S, NEW T, NEW g, NEW h, IsSum(g, f, S), IsSum(h, f, T),
           NEW s, IsFiniteSet(s), s \subseteq S, s \subseteq T
    PROVE  g[s] = h[s]
<1> DEFINE F == {t \in SUBSET s : g[t] = h[t]}
<1>1. ASSUME NEW t \in SUBSET s, \A u \in SUBSET t : u # t => u \in F
      PROVE  t \in F
  <2>1. t \in SUBSET S /\ t \in SUBSET T
    OBVIOUS
  <2>2. CASE t = {}
    BY <2>1, <2>2, IsSumStep
  <2>3. CASE t # {}
    <3>1. First(t) \in t
      BY <2>3, FirstIn
    <3>2. g[t \ {First(t)}] = h[t \ {First(t)}]
      BY <1>1, <3>1
    <3>3. g[t] = f[First(t)] + g[t \ {First(t)}]
      BY <2>1, <2>3, IsSumStep
    <3>4. h[t] = f[First(t)] + h[t \ {First(t)}]
      BY <2>1, <2>3, IsSumStep
    <3> QED BY <3>2, <3>3, <3>4
  <2> QED BY <2>2, <2>3
<1> HIDE DEF F
<1>2. s \in F
  BY <1>1, FiniteSetsSet
<1> QED BY <1>2 DEF F

\* Such a function exists for a finite set.
LEMMA IsSumExists ==
    ASSUME NEW f, NEW S, IsFiniteSet(S)
    PROVE  \E g : IsSum(g, f, S)
<1> DEFINE F == {s \in SUBSET S : \E g : IsSum(g, f, s)}
<1>1. ASSUME NEW s \in SUBSET S, \A t \in SUBSET s : t # s => t \in F
      PROVE  s \in F
  <2> DEFINE g == [t \in SUBSET s |-> IF t = {} THEN 0 ELSE f[First(t)] + Sum(f, t \ {First(t)})]
  <2>1. ASSUME NEW t \in SUBSET s, t # s
        PROVE  IsSum(CHOOSE h : IsSum(h, f, t), f, t) /\ IsFiniteSet(t)
    <3>1. t \in F /\ IsFiniteSet(t)
      BY <1>1, <2>1, FS_Subset
    <3> QED BY <3>1
  <2>2. ASSUME NEW t \in SUBSET s, t # s
        PROVE  g[t] = Sum(f, t)
    <3> DEFINE h == CHOOSE h : IsSum(h, f, t)
    <3>1. IsSum(h, f, t) /\ Sum(f, t) = h[t] /\ IsFiniteSet(t)
      BY <2>1, <2>2 DEF Sum
    <3>2. Sum(f, t) = IF t = {} THEN 0 ELSE f[First(t)] + h[t \ {First(t)}]
      <4> HIDE DEF h
      <4> QED BY <3>1, IsSumStep
    <3>3. CASE t = {}
      BY <3>2, <3>3
    <3>4. CASE t # {}
      <4> DEFINE u == t \ {First(t)}
                 k == CHOOSE k : IsSum(k, f, u)
      <4>1. u \in SUBSET s /\ u # s /\ u \subseteq t
        BY <3>4, FirstIn
      <4>2. IsSum(k, f, u) /\ Sum(f, u) = k[u] /\ IsFiniteSet(u)
        BY <2>1, <4>1 DEF Sum
      <4>3. h[u] = k[u]
        <5> HIDE DEF h, k, u
        <5> QED BY <3>1, <4>1, <4>2, IsSumUnique
      <4>4. g[t] = f[First(t)] + Sum(f, u)
        BY <3>4
      <4> HIDE DEF h, k, g
      <4> QED BY <3>2, <3>4, <4>2, <4>3, <4>4
    <3> QED BY <3>3, <3>4
  <2>3. ASSUME NEW t \in SUBSET s, t # {}
        PROVE  Sum(f, t \ {First(t)}) = g[t \ {First(t)}]
    <3>1. t \ {First(t)} \in SUBSET s /\ t \ {First(t)} # s
      BY <2>3, FirstIn
    <3> HIDE DEF g
    <3> QED BY <2>2, <3>1
  <2>4. g = [t \in SUBSET s |-> IF t = {} THEN 0 ELSE f[First(t)] + g[t \ {First(t)}]]
    <3> DEFINE k == [t \in SUBSET s |-> IF t = {} THEN 0 ELSE f[First(t)] + g[t \ {First(t)}]]
    <3>1. ASSUME NEW t \in SUBSET s
          PROVE  g[t] = IF t = {} THEN 0 ELSE f[First(t)] + g[t \ {First(t)}]
      <4>1. g[t] = IF t = {} THEN 0 ELSE f[First(t)] + Sum(f, t \ {First(t)})
        OBVIOUS
      <4> HIDE DEF g
      <4> QED BY <2>3, <4>1
    <3>2. \A t \in SUBSET s : g[t] = k[t]
      <4> HIDE DEF g
      <4> QED BY <3>1
    <3>3. g = [t \in SUBSET s |-> g[t]]
      OBVIOUS
    <3>4. k = [t \in SUBSET s |-> k[t]]
      OBVIOUS
    <3> HIDE DEF g, k
    <3>5. g = k
      BY <3>2, <3>3, <3>4, Zenon
    <3> QED BY <3>5 DEF k
  <2>5. IsSum(g, f, s)
    <3> HIDE DEF g
    <3> QED BY <2>4, Zenon DEF IsSum
  <2> QED BY <2>5
<1> HIDE DEF F
<1>2. S \in F
  BY <1>1, FiniteSetsSet
<1> QED BY <1>2 DEF F

\* The sum unfolds by its first element.
LEMMA SumStep ==
    ASSUME NEW f, NEW S, IsFiniteSet(S)
    PROVE  SumOf(f, S) = IF S = {} THEN 0 ELSE f[First(S)] + SumOf(f, S \ {First(S)})
<1> DEFINE g == CHOOSE g : IsSum(g, f, S)
           U == S \ {First(S)}
           h == CHOOSE h : IsSum(h, f, U)
<1>1. IsSum(g, f, S) /\ Sum(f, S) = g[S]
  BY IsSumExists DEF Sum
<1>2. IsFiniteSet(U) /\ U \subseteq S
  BY FS_Subset
<1>3. IsSum(h, f, U) /\ Sum(f, U) = h[U]
  BY <1>2, IsSumExists DEF Sum
<1> HIDE DEF g, h
<1>4. g[U] = h[U]
  BY <1>1, <1>2, <1>3, IsSumUnique
<1>5. g[S] = IF S = {} THEN 0 ELSE f[First(S)] + g[U]
  BY <1>1, IsSumStep
<1> QED BY <1>1, <1>3, <1>4, <1>5, SumOfIsSum

-------------------------------------------------------------------------------
(* Sums                                                                      *)

\* The sum over nothing.
LEMMA SumEmpty == \A f : SumOf(f, {}) = 0
  BY SumStep, FS_EmptySet

\* A sum of integers is an integer.
LEMMA SumType ==
    ASSUME NEW f, NEW S, IsFiniteSet(S), \A x \in S : f[x] \in Int
    PROVE  SumOf(f, S) \in Int
<1> DEFINE F == {T \in SUBSET S : SumOf(f, T) \in Int}
<1>1. ASSUME NEW T \in SUBSET S, \A U \in SUBSET T : U # T => U \in F
      PROVE  T \in F
  <2>1. IsFiniteSet(T)
    BY FS_Subset
  <2>2. CASE T = {}
    BY <2>2, SumEmpty
  <2>3. CASE T # {}
    <3>1. First(T) \in T
      BY <2>3, FirstIn
    <3>2. SumOf(f, T \ {First(T)}) \in Int
      BY <1>1, <3>1
    <3>3. SumOf(f, T) = f[First(T)] + SumOf(f, T \ {First(T)})
      BY <2>1, <2>3, SumStep
    <3> QED BY <3>1, <3>2, <3>3
  <2> QED BY <2>2, <2>3
<1> HIDE DEF F
<1>2. S \in F
  BY <1>1, FiniteSetsSet
<1> QED BY <1>2 DEF F

\* Any element can be taken out of a sum, not only the first.
LEMMA SumRemove ==
    ASSUME NEW f, NEW S, IsFiniteSet(S), \A x \in S : f[x] \in Int, NEW x \in S
    PROVE  SumOf(f, S) = f[x] + SumOf(f, S \ {x})
<1> DEFINE Out(T, y) == SumOf(f, T) = f[y] + SumOf(f, T \ {y})
           F == {T \in SUBSET S : \A y \in T : Out(T, y)}
<1>1. ASSUME NEW T \in SUBSET S, \A U \in SUBSET T : U # T => U \in F
      PROVE  T \in F
  <2> SUFFICES ASSUME NEW y \in T
               PROVE  Out(T, y)
    OBVIOUS
  <2> DEFINE z == First(T)
             U == T \ {y}
             V == T \ {z}
  <2>1. z \in T /\ IsFiniteSet(T)
    BY FirstIn, FS_Subset
  <2>2. SumOf(f, T) = f[z] + SumOf(f, V)
    BY <2>1, SumStep
  <2> HIDE DEF z
  <2>3. CASE y = z
    BY <2>2, <2>3
  <2>4. CASE y # z
    <3>1. y \in V /\ z \in U /\ U \in SUBSET T /\ V \in SUBSET T /\ U # T /\ V # T
      BY <2>1, <2>4
    <3>2. U \in F /\ V \in F
      BY <1>1, <3>1
    <3>3. Out(V, y) /\ Out(U, z)
      BY <3>1, <3>2
    <3>4. V \ {y} = U \ {z}
      OBVIOUS
    <3>5. f[y] \in Int /\ f[z] \in Int /\ SumOf(f, V \ {y}) \in Int
      <4>1. IsFiniteSet(V \ {y})
        BY <2>1, FS_Subset
      <4> QED BY <2>1, <4>1, SumType
    <3>6. /\ SumOf(f, V) = f[y] + SumOf(f, V \ {y})
          /\ SumOf(f, U) = f[z] + SumOf(f, V \ {y})
      BY <3>3, <3>4
    <3> HIDE DEF U, V
    <3>7. SumOf(f, T) = f[y] + SumOf(f, U)
      BY <2>2, <3>5, <3>6
    <3> QED BY <3>7 DEF U
  <2> QED BY <2>3, <2>4
<1> HIDE DEF F
<1>2. S \in F
  BY <1>1, FiniteSetsSet
<1> QED BY <1>2 DEF F

\* A new element adds its own.
LEMMA SumAdd ==
    ASSUME NEW f, NEW S, IsFiniteSet(S), NEW x, x \notin S, \A y \in S \cup {x} : f[y] \in Int
    PROVE  SumOf(f, S \cup {x}) = f[x] + SumOf(f, S)
<1>1. IsFiniteSet(S \cup {x}) /\ (S \cup {x}) \ {x} = S
  BY FS_AddElement
<1> QED BY <1>1, SumRemove

\* A sum depends on its terms only.
LEMMA SumEqual ==
    ASSUME NEW f, NEW g, NEW S, IsFiniteSet(S), \A x \in S : f[x] = g[x]
    PROVE  SumOf(f, S) = SumOf(g, S)
<1> DEFINE F == {T \in SUBSET S : SumOf(f, T) = SumOf(g, T)}
<1>1. ASSUME NEW T \in SUBSET S, \A U \in SUBSET T : U # T => U \in F
      PROVE  T \in F
  <2>1. IsFiniteSet(T)
    BY FS_Subset
  <2>2. CASE T = {}
    BY <2>2, SumEmpty
  <2>3. CASE T # {}
    <3>1. First(T) \in T
      BY <2>3, FirstIn
    <3>2. SumOf(f, T \ {First(T)}) = SumOf(g, T \ {First(T)})
      BY <1>1, <3>1
    <3>3. SumOf(f, T) = f[First(T)] + SumOf(f, T \ {First(T)})
      BY <2>1, <2>3, SumStep
    <3>4. SumOf(g, T) = g[First(T)] + SumOf(g, T \ {First(T)})
      BY <2>1, <2>3, SumStep
    <3> QED BY <3>1, <3>2, <3>3, <3>4
  <2> QED BY <2>2, <2>3
<1> HIDE DEF F
<1>2. S \in F
  BY <1>1, FiniteSetsSet
<1> QED BY <1>2 DEF F

\* The sum over two sets that have nothing in common.
LEMMA SumUnion ==
    ASSUME NEW f, NEW S, NEW T, IsFiniteSet(S), IsFiniteSet(T), S \cap T = {},
           \A x \in S \cup T : f[x] \in Int
    PROVE  SumOf(f, S \cup T) = SumOf(f, S) + SumOf(f, T)
<1> DEFINE F == {U \in SUBSET T : SumOf(f, S \cup U) = SumOf(f, S) + SumOf(f, U)}
<1>1. ASSUME NEW U \in SUBSET T, \A V \in SUBSET U : V # U => V \in F
      PROVE  U \in F
  <2>1. IsFiniteSet(U) /\ IsFiniteSet(S \cup U)
    BY FS_Subset, FS_Union
  <2>2. SumOf(f, S) \in Int
    BY SumType
  <2>3. CASE U = {}
    BY <2>2, <2>3, SumEmpty
  <2>4. CASE U # {}
    <3> DEFINE x == First(U)
               V == U \ {x}
    <3>1. x \in U /\ x \notin S /\ V \in F
      BY <1>1, <2>4, FirstIn
    <3> HIDE DEF x
    <3>2. SumOf(f, U) = f[x] + SumOf(f, V)
      BY <2>1, <3>1, SumRemove
    <3>3. SumOf(f, S \cup U) = f[x] + SumOf(f, S \cup V)
      <4>1. (S \cup U) \ {x} = S \cup V
        BY <3>1
      <4> QED BY <2>1, <3>1, <4>1, SumRemove
    <3>4. SumOf(f, V) \in Int /\ f[x] \in Int
      <4>1. IsFiniteSet(V)
        BY <2>1, FS_Subset
      <4> QED BY <3>1, <4>1, SumType
    <3>5. SumOf(f, S \cup V) = SumOf(f, S) + SumOf(f, V)
      BY <3>1
    <3> HIDE DEF V
    <3> QED BY <2>2, <3>2, <3>3, <3>4, <3>5
  <2> QED BY <2>3, <2>4
<1> HIDE DEF F
<1>2. T \in F
  BY <1>1, FiniteSetsSet
<1> QED BY <1>2 DEF F

\* A sum of naturals is a natural.
LEMMA SumNat ==
    ASSUME NEW f, NEW S, IsFiniteSet(S), \A x \in S : f[x] \in Nat
    PROVE  SumOf(f, S) \in Nat
<1> DEFINE F == {T \in SUBSET S : SumOf(f, T) \in Nat}
<1>1. ASSUME NEW T \in SUBSET S, \A U \in SUBSET T : U # T => U \in F
      PROVE  T \in F
  <2>1. IsFiniteSet(T)
    BY FS_Subset
  <2>2. CASE T = {}
    BY <2>2, SumEmpty
  <2>3. CASE T # {}
    <3>1. First(T) \in T
      BY <2>3, FirstIn
    <3>2. SumOf(f, T \ {First(T)}) \in Nat
      BY <1>1, <3>1
    <3>3. SumOf(f, T) = f[First(T)] + SumOf(f, T \ {First(T)})
      BY <2>1, <2>3, SumStep
    <3> QED BY <3>1, <3>2, <3>3
  <2> QED BY <2>2, <2>3
<1> HIDE DEF F
<1>2. S \in F
  BY <1>1, FiniteSetsSet
<1> QED BY <1>2 DEF F

\* A sum of naturals over a part is no more than the whole.
LEMMA SumSubset ==
    ASSUME NEW f, NEW S, IsFiniteSet(S), \A x \in S : f[x] \in Nat, NEW T \in SUBSET S
    PROVE  SumOf(f, T) <= SumOf(f, S)
<1> DEFINE U == S \ T
<1>1. IsFiniteSet(T) /\ IsFiniteSet(U) /\ T \cap U = {} /\ T \cup U = S
  BY FS_Subset
<1>2. SumOf(f, T) \in Nat /\ SumOf(f, U) \in Nat
  BY <1>1, SumNat
<1>3. SumOf(f, S) = SumOf(f, T) + SumOf(f, U)
  <2> HIDE DEF U
  <2> QED BY <1>1, SumUnion
<1> QED BY <1>2, <1>3

\* The numbers of S, moved down by n.
Down(S, n) == {x - n : x \in S}

\* Renumbering by n: the sum over the numbers after n of a function is that of
\* the function moved down by n.
LEMMA SumShift ==
    ASSUME NEW f, NEW g, NEW n \in Nat, NEW S \in SUBSET Int, IsFiniteSet(S),
           \A x \in S : f[x] \in Int /\ g[x - n] = f[x]
    PROVE  SumOf(g, Down(S, n)) = SumOf(f, S)
<1> DEFINE F == {T \in SUBSET S : SumOf(g, Down(T, n)) = SumOf(f, T)}
<1>1. ASSUME NEW T \in SUBSET S, \A U \in SUBSET T : U # T => U \in F
      PROVE  T \in F
  <2>1. IsFiniteSet(T) /\ IsFiniteSet(Down(T, n))
    <3> DEFINE h == [x \in T |-> x - n]
    <3>1. IsFiniteSet(T)
      BY FS_Subset
    <3>2. h \in Surjection(T, Down(T, n))
      BY DEF Surjection, Down
    <3> QED BY <3>1, <3>2, FS_Surjection
  <2>2. CASE T = {}
    BY <2>2, SumEmpty DEF Down
  <2>3. CASE T # {}
    <3> DEFINE x == First(T)
               U == T \ {x}
    <3>1. x \in T /\ x \in Int /\ U \in F
      BY <1>1, <2>3, FirstIn
    <3>2. SumOf(f, T) = f[x] + SumOf(f, U)
      BY <2>1, <2>3, SumStep
    <3> HIDE DEF x
    <3>3. Down(T, n) \ {x - n} = Down(U, n) /\ x - n \in Down(T, n)
      BY <3>1 DEF Down
    <3>4. \A y \in Down(T, n) : g[y] \in Int
      BY DEF Down
    <3> HIDE DEF U
    <3>5. SumOf(g, Down(T, n)) = g[x - n] + SumOf(g, Down(T, n) \ {x - n})
      <4> DEFINE D == Down(T, n)
                 y == x - n
      <4>1. IsFiniteSet(D) /\ y \in D /\ \A z \in D : g[z] \in Int
        BY <2>1, <3>3, <3>4
      <4> HIDE DEF D, y
      <4>2. SumOf(g, D) = g[y] + SumOf(g, D \ {y})
        BY <4>1, SumRemove
      <4> QED BY <4>2 DEF D, y
    <3>6. SumOf(g, Down(U, n)) = SumOf(f, U)
      BY <3>1
    <3>7. SumOf(g, Down(T, n)) = SumOf(f, T)
      <4> HIDE DEF Down
      <4> QED BY <3>1, <3>2, <3>3, <3>5, <3>6
    <3> QED BY <3>7
  <2> QED BY <2>2, <2>3
<1> HIDE DEF F
<1>2. S \in F
  BY <1>1, FiniteSetsSet
<1> QED BY <1>2 DEF F

-------------------------------------------------------------------------------
(* Trimmed queues                                                            *)

\* There is a first entry that is young enough, or none.
LEMMA StaleIs ==
    ASSUME NEW ages \in Seq(Int), NEW oldest \in Int
    PROVE  /\ Stale(ages, oldest) \in 0 .. Len(ages)
           /\ \A i \in 1 .. Stale(ages, oldest) : ages[i] > oldest
           /\ Stale(ages, oldest) < Len(ages) => ages[Stale(ages, oldest) + 1] <= oldest
<1> DEFINE Ends == {n \in 0 .. Len(ages) : n < Len(ages) => ages[n + 1] <= oldest}
           P(n) == /\ \A i \in 1 .. n : ages[i] > oldest
                   /\ n < Len(ages) => ages[n + 1] <= oldest
<1>1. Ends \subseteq Nat /\ Len(ages) \in Ends
  OBVIOUS
<1>2. PICK n \in Ends : \A m \in Ends : n <= m
  BY <1>1, Least
<1>3. ASSUME NEW i \in 1 .. n
      PROVE  ages[i] > oldest
  <2>1. i - 1 \in 0 .. Len(ages) /\ i \in 1 .. Len(ages) /\ i - 1 < n
    BY <1>2
  <2>3. i - 1 \notin Ends
    BY <1>2, <2>1
  <2>2. ages[i] \in Int
    BY <2>1
  <2> QED BY <2>1, <2>2, <2>3
<1>4. n \in 0 .. Len(ages) /\ P(n)
  BY <1>2, <1>3
<1>5. Stale(ages, oldest) = CHOOSE m \in 0 .. Len(ages) : P(m)
  BY DEF Stale
<1> HIDE DEF P
<1>6. Stale(ages, oldest) \in 0 .. Len(ages) /\ P(Stale(ages, oldest))
  BY <1>4, <1>5
<1> QED BY <1>6 DEF P

\* In a queue that is oldest first, what is left is exactly what is young enough.
LEMMA StaleSplits ==
    ASSUME NEW ages \in Seq(Int), OldestFirst(ages), NEW oldest \in Int,
           NEW i \in 1 .. Len(ages)
    PROVE  i <= Stale(ages, oldest) <=> ages[i] > oldest
<1> DEFINE n == Stale(ages, oldest)
<1>1. /\ n \in 0 .. Len(ages)
      /\ \A j \in 1 .. n : ages[j] > oldest
      /\ n < Len(ages) => ages[n + 1] <= oldest
  BY StaleIs
<1> HIDE DEF n
<1>2. ages[i] \in Int
  OBVIOUS
<1>3. CASE i <= n
  <2>1. i \in 1 .. n
    BY <1>1, <1>3
  <2>2. ages[i] > oldest
    BY <1>1, <2>1
  <2> QED BY <1>3, <2>2 DEF n
<1>4. CASE i > n
  <2>1. n + 1 \in 1 .. Len(ages) /\ n + 1 <= i /\ ages[n + 1] \in Int
    BY <1>1, <1>4
  <2>2. ages[n + 1] >= ages[i]
    BY <2>1 DEF OldestFirst
  <2>3. ages[i] <= oldest
    BY <1>1, <1>2, <2>1, <2>2
  <2>4. ~(i <= n) /\ ~(ages[i] > oldest)
    BY <1>1, <1>2, <1>4, <2>3
  <2> QED BY <2>4 DEF n
<1> QED BY <1>1, <1>3, <1>4

\* What a queue is after its n first entries have gone.
LEMMA DropFirstIs ==
    ASSUME NEW R, NEW q \in Seq(R), NEW n \in 0 .. Len(q)
    PROVE  /\ DropFirst(q, n) \in Seq(R)
           /\ Len(DropFirst(q, n)) = Len(q) - n
           /\ \A i \in 1 .. Len(q) - n : DropFirst(q, n)[i] = q[n + i]
  BY DEF DropFirst
===============================================================================
