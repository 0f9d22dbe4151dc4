------------------------------- MODULE RowSums -------------------------------
(***************************************************************************)
(* Sums over rows (Functions!SumFunctionOnSet): what happens to one when   *)
(* a row is added, removed or changed.  The induction is over the subsets  *)
(* of a finite set, by a smallest counterexample; so is that over the      *)
(* positions of a sequence, for the folds over one.                        *)
(***************************************************************************)
EXTENDS Integers, FiniteSets, Functions, FiniteSetTheorems, WellFoundedInduction, TLAPS

\* A property that a finite set has whenever its smaller subsets have it is
\* had by all its subsets.
LEMMA SubsetInduction ==
    ASSUME NEW S, IsFiniteSet(S), NEW Good,
           \A s \in SUBSET S :
               (\A t \in SUBSET s : t # s => t \in Good) => s \in Good
    PROVE  \A s \in SUBSET S : s \in Good
<1> DEFINE Bad == {s \in SUBSET S : s \notin Good}
<1>1. IsWellFoundedOn(StrictSubsetOrdering(S), SUBSET S)
  BY FS_StrictSubsetOrderingWellFounded, FS_FiniteSubsetsOfFinite
<1>2. SUFFICES ASSUME Bad # {} PROVE FALSE
  OBVIOUS
<1>3. \E s \in Bad : \A t \in Bad : ~(<<t, s>> \in StrictSubsetOrdering(S))
  <2>1. Bad \subseteq SUBSET S
    OBVIOUS
  <2> HIDE DEF Bad
  <2> QED BY <1>1, <1>2, <2>1, WFMin
<1>4. PICK s \in Bad : \A t \in Bad : ~(<<t, s>> \in StrictSubsetOrdering(S))
  BY <1>3
<1>5. \A t \in SUBSET s : t # s => t \in Good
  BY <1>4 DEF StrictSubsetOrdering
<1> QED BY <1>4, <1>5

Pick(s) == CHOOSE x \in s : TRUE

\* Pick takes an element.
LEMMA PickIn == ASSUME NEW s, s # {} PROVE Pick(s) \in s
  BY DEF Pick

\* The recursion behind SumFunctionOnSet.
IsSum(f, S, g) ==
    g = [s \in SUBSET S |-> IF s = {} THEN 0 ELSE f[Pick(s)] + g[s \ {Pick(s)}]]

\* SumFunctionOnSet is the recursive function the folds choose, at the set.
LEMMA SumIsChosen ==
    ASSUME NEW f, NEW S
    PROVE  SumFunctionOnSet(f, S) = (CHOOSE g : IsSum(f, S, g))[S]
  BY DEF SumFunctionOnSet, FoldFunctionOnSet, MapThenFoldSet, IsSum, Pick

\* There is but one such function.
LEMMA SumUnique ==
    ASSUME NEW f, NEW S, IsFiniteSet(S), NEW g, NEW h, IsSum(f, S, g), IsSum(f, S, h)
    PROVE  \A s \in SUBSET S : g[s] = h[s]
<1> DEFINE Good == {s \in SUBSET S : g[s] = h[s]}
<1>1. ASSUME NEW s \in SUBSET S, \A t \in SUBSET s : t # s => t \in Good
      PROVE  s \in Good
  <2>1. CASE s = {}
    BY <2>1 DEF IsSum
  <2>2. CASE s # {}
    <3>1. s \ {Pick(s)} \in SUBSET s /\ s \ {Pick(s)} # s
      BY <2>2, PickIn
    <3>2. g[s \ {Pick(s)}] = h[s \ {Pick(s)}]
      BY <1>1, <3>1
    <3> QED BY <2>2, <3>2 DEF IsSum
  <2> QED BY <2>1, <2>2
<1> HIDE DEF Good
<1>2. \A s \in SUBSET S : s \in Good
  BY <1>1, SubsetInduction
<1> QED BY <1>2 DEF Good

\* SumFunctionOnSet is what its recursion says.
LEMMA SumRecursion ==
    ASSUME NEW f, NEW S, IsFiniteSet(S)
    PROVE  SumFunctionOnSet(f, S) =
             IF S = {} THEN 0 ELSE f[Pick(S)] + SumFunctionOnSet(f, S \ {Pick(S)})
<1> DEFINE Unfolded(s) ==
               IF s = {} THEN 0 ELSE f[Pick(s)] + SumFunctionOnSet(f, s \ {Pick(s)})
           Good == {s \in SUBSET S : SumFunctionOnSet(f, s) = Unfolded(s)}
<1>1. ASSUME NEW s \in SUBSET S, \A t \in SUBSET s : t # s => t \in Good
      PROVE  s \in Good
  <2> DEFINE h == [t \in SUBSET s |-> IF t = s THEN Unfolded(s) ELSE SumFunctionOnSet(f, t)]
             k == [t \in SUBSET s |-> IF t = {} THEN 0 ELSE f[Pick(t)] + h[t \ {Pick(t)}]]
  <2>1. ASSUME NEW t \in SUBSET s PROVE h[t] = k[t]
    <3>1. h[t] = Unfolded(t)
      BY <1>1
    <3>2. CASE t = {}
      BY <3>1, <3>2
    <3>3. CASE t # {}
      <4>1. t \ {Pick(t)} \in SUBSET s /\ t \ {Pick(t)} # s
        BY <3>3, PickIn
      <4>2. h[t \ {Pick(t)}] = SumFunctionOnSet(f, t \ {Pick(t)})
        BY <4>1
      <4> QED BY <3>1, <3>3, <4>2
    <3> QED BY <3>2, <3>3
  <2>2. h = k
    <3> HIDE DEF Unfolded
    <3>1. h = [t \in SUBSET s |-> h[t]] /\ k = [t \in SUBSET s |-> k[t]]
      OBVIOUS
    <3> HIDE DEF h, k
    <3> QED BY <2>1, <3>1
  <2>3. IsSum(f, s, h)
    BY <2>2 DEF IsSum
  <2>4. IsSum(f, s, CHOOSE g : IsSum(f, s, g))
    <3> HIDE DEF h
    <3> QED BY <2>3, Zenon
  <2>5. IsFiniteSet(s)
    BY FS_Subset
  <2>6. (CHOOSE g : IsSum(f, s, g))[s] = h[s]
    <3> HIDE DEF h
    <3> QED BY <2>3, <2>4, <2>5, SumUnique
  <2>7. h[s] = Unfolded(s)
    OBVIOUS
  <2>8. SumFunctionOnSet(f, s) = (CHOOSE g : IsSum(f, s, g))[s]
    BY SumIsChosen
  <2> QED BY <2>6, <2>7, <2>8
<1> HIDE DEF Good
<1>2. S \in Good
  BY <1>1, SubsetInduction
<1> QED BY <1>2 DEF Good

\* Nothing adds up to nothing.
LEMMA SumEmpty == ASSUME NEW f PROVE SumFunctionOnSet(f, {}) = 0
  BY SumRecursion, FS_EmptySet

\* A sum of integers is one.
LEMMA SumInt ==
    ASSUME NEW f, NEW S, IsFiniteSet(S), \A x \in S : f[x] \in Int
    PROVE  SumFunctionOnSet(f, S) \in Int
<1> DEFINE Good == {s \in SUBSET S : SumFunctionOnSet(f, s) \in Int}
<1>1. ASSUME NEW s \in SUBSET S, \A t \in SUBSET s : t # s => t \in Good
      PROVE  s \in Good
  <2>1. IsFiniteSet(s)
    BY FS_Subset
  <2>2. CASE s = {}
    BY <2>2, SumEmpty
  <2>3. CASE s # {}
    <3>1. s \ {Pick(s)} \in SUBSET s /\ s \ {Pick(s)} # s /\ Pick(s) \in s
      BY <2>3, PickIn
    <3>2. SumFunctionOnSet(f, s \ {Pick(s)}) \in Int
      BY <1>1, <3>1
    <3>3. SumFunctionOnSet(f, s) = f[Pick(s)] + SumFunctionOnSet(f, s \ {Pick(s)})
      BY <2>1, <2>3, SumRecursion
    <3> QED BY <3>1, <3>2, <3>3
  <2> QED BY <2>2, <2>3
<1> HIDE DEF Good
<1>2. S \in Good
  BY <1>1, SubsetInduction
<1> QED BY <1>2 DEF Good

\* Any row can be taken out of a sum, whatever the order it was added in.
LEMMA SumRemove ==
    ASSUME NEW f, NEW S, IsFiniteSet(S), \A x \in S : f[x] \in Int, NEW x \in S
    PROVE  SumFunctionOnSet(f, S) = f[x] + SumFunctionOnSet(f, S \ {x})
<1> DEFINE Good == {s \in SUBSET S : \A y \in s :
                      SumFunctionOnSet(f, s) = f[y] + SumFunctionOnSet(f, s \ {y})}
<1>1. ASSUME NEW s \in SUBSET S, \A t \in SUBSET s : t # s => t \in Good
      PROVE  s \in Good
  <2> SUFFICES ASSUME NEW y \in s
               PROVE  SumFunctionOnSet(f, s) = f[y] + SumFunctionOnSet(f, s \ {y})
    OBVIOUS
  <2> DEFINE z == Pick(s)
  <2>1. IsFiniteSet(s) /\ z \in s
    BY FS_Subset, PickIn
  <2>2. SumFunctionOnSet(f, s) = f[z] + SumFunctionOnSet(f, s \ {z})
    BY <2>1, SumRecursion
  <2> HIDE DEF z
  <2>3. CASE y = z
    BY <2>2, <2>3
  <2>4. CASE y # z
    <3>1. s \ {z} \in Good /\ s \ {y} \in Good
      BY <1>1, <2>1
    <3>2. SumFunctionOnSet(f, s \ {z}) = f[y] + SumFunctionOnSet(f, (s \ {z}) \ {y})
      BY <2>4, <3>1
    <3>3. SumFunctionOnSet(f, s \ {y}) = f[z] + SumFunctionOnSet(f, (s \ {y}) \ {z})
      BY <2>1, <2>4, <3>1
    <3>4. (s \ {z}) \ {y} = (s \ {y}) \ {z}
      OBVIOUS
    <3>5. IsFiniteSet((s \ {y}) \ {z}) /\ (s \ {y}) \ {z} \subseteq S
      BY <2>1, FS_Subset
    <3>6. SumFunctionOnSet(f, (s \ {y}) \ {z}) \in Int
      BY <3>5, SumInt
    <3>7. f[y] \in Int /\ f[z] \in Int
      BY <2>1
    <3> DEFINE rest == SumFunctionOnSet(f, (s \ {y}) \ {z})
    <3>8. /\ SumFunctionOnSet(f, s \ {z}) = f[y] + rest
          /\ SumFunctionOnSet(f, s \ {y}) = f[z] + rest
          /\ rest \in Int
      BY <3>2, <3>3, <3>4, <3>6
    <3> HIDE DEF rest
    <3> QED BY <2>2, <3>7, <3>8
  <2> QED BY <2>3, <2>4
<1> HIDE DEF Good
<1>2. S \in Good
  BY <1>1, SubsetInduction
<1> QED BY <1>2 DEF Good

\* A row is added.
LEMMA SumAdd ==
    ASSUME NEW f, NEW S, IsFiniteSet(S), NEW x, x \notin S,
           \A y \in S \cup {x} : f[y] \in Int
    PROVE  SumFunctionOnSet(f, S \cup {x}) = f[x] + SumFunctionOnSet(f, S)
<1>1. IsFiniteSet(S \cup {x}) /\ x \in S \cup {x} /\ (S \cup {x}) \ {x} = S
  BY FS_AddElement
<1> QED BY <1>1, SumRemove

\* A sum says nothing of rows that are not summed.
LEMMA SumSame ==
    ASSUME NEW f, NEW g, NEW S, IsFiniteSet(S), \A x \in S : f[x] = g[x]
    PROVE  SumFunctionOnSet(f, S) = SumFunctionOnSet(g, S)
<1> DEFINE Good == {s \in SUBSET S : SumFunctionOnSet(f, s) = SumFunctionOnSet(g, s)}
<1>1. ASSUME NEW s \in SUBSET S, \A t \in SUBSET s : t # s => t \in Good
      PROVE  s \in Good
  <2>1. IsFiniteSet(s)
    BY FS_Subset
  <2>2. CASE s = {}
    BY <2>2, SumEmpty
  <2>3. CASE s # {}
    <3>1. s \ {Pick(s)} \in Good /\ Pick(s) \in s
      BY <1>1, <2>3, PickIn
    <3> QED BY <2>1, <2>3, <3>1, SumRecursion
  <2> QED BY <2>2, <2>3
<1> HIDE DEF Good
<1>2. S \in Good
  BY <1>1, SubsetInduction
<1> QED BY <1>2 DEF Good

\* One row changes: the sum changes by as much.
LEMMA SumChange ==
    ASSUME NEW f, NEW g, NEW S, IsFiniteSet(S), NEW x \in S,
           \A y \in S : f[y] \in Int /\ g[y] \in Int /\ (y # x => g[y] = f[y])
    PROVE  SumFunctionOnSet(g, S) = SumFunctionOnSet(f, S) - f[x] + g[x]
<1>1. IsFiniteSet(S \ {x})
  BY FS_RemoveElement
<1>2. SumFunctionOnSet(f, S) = f[x] + SumFunctionOnSet(f, S \ {x})
  BY SumRemove
<1>3. SumFunctionOnSet(g, S) = g[x] + SumFunctionOnSet(g, S \ {x})
  BY SumRemove
<1>4. SumFunctionOnSet(g, S \ {x}) = SumFunctionOnSet(f, S \ {x})
  BY <1>1, SumSame
<1>5. SumFunctionOnSet(f, S \ {x}) \in Int
  BY <1>1, SumInt
<1> QED BY <1>2, <1>3, <1>4, <1>5

\* Rows that say nothing add nothing.
LEMMA SumZero ==
    ASSUME NEW f, NEW S, IsFiniteSet(S), \A x \in S : f[x] = 0
    PROVE  SumFunctionOnSet(f, S) = 0
<1> DEFINE Good == {s \in SUBSET S : SumFunctionOnSet(f, s) = 0}
<1>1. ASSUME NEW s \in SUBSET S, \A t \in SUBSET s : t # s => t \in Good
      PROVE  s \in Good
  <2>1. IsFiniteSet(s)
    BY FS_Subset
  <2>2. CASE s # {}
    <3>1. s \ {Pick(s)} \in Good /\ Pick(s) \in s
      BY <1>1, <2>2, PickIn
    <3> QED BY <2>1, <2>2, <3>1, SumRecursion
  <2> QED BY <2>2, SumEmpty
<1> HIDE DEF Good
<1>2. S \in Good
  BY <1>1, SubsetInduction
<1> QED BY <1>2 DEF Good

\* The rows of two sets apart.
LEMMA SumUnion ==
    ASSUME NEW f, NEW S, IsFiniteSet(S), NEW T, IsFiniteSet(T), S \cap T = {},
           \A x \in S \cup T : f[x] \in Int
    PROVE  SumFunctionOnSet(f, S \cup T) = SumFunctionOnSet(f, S) + SumFunctionOnSet(f, T)
<1> DEFINE Good == {s \in SUBSET S :
             SumFunctionOnSet(f, s \cup T) = SumFunctionOnSet(f, s) + SumFunctionOnSet(f, T)}
<1>1. ASSUME NEW s \in SUBSET S, \A t \in SUBSET s : t # s => t \in Good
      PROVE  s \in Good
  <2>1. IsFiniteSet(s) /\ IsFiniteSet(s \cup T)
    BY FS_Subset, FS_Union
  <2>2. SumFunctionOnSet(f, T) \in Int
    BY SumInt
  <2>3. CASE s = {}
    <3>1. s \cup T = T /\ SumFunctionOnSet(f, s) = 0
      BY <2>3, SumEmpty
    <3>2. SumFunctionOnSet(f, s \cup T) = SumFunctionOnSet(f, T)
      BY <3>1
    <3> QED BY <2>2, <3>1, <3>2
  <2>4. CASE s # {}
    <3> DEFINE x == Pick(s)
    <3>1. s \ {x} \in Good /\ x \in s
      BY <1>1, <2>4, PickIn
    <3> HIDE DEF x
    <3>2. SumFunctionOnSet(f, s) = f[x] + SumFunctionOnSet(f, s \ {x})
      BY <2>1, <3>1, SumRemove
    <3>3. SumFunctionOnSet(f, s \cup T) = f[x] + SumFunctionOnSet(f, (s \cup T) \ {x})
      BY <2>1, <3>1, SumRemove
    <3>4. (s \cup T) \ {x} = (s \ {x}) \cup T
      BY <3>1
    <3>5. IsFiniteSet(s \ {x})
      BY <2>1, FS_Subset
    <3>6. SumFunctionOnSet(f, s \ {x}) \in Int /\ f[x] \in Int
      BY <3>1, <3>5, SumInt
    <3>7. SumFunctionOnSet(f, (s \ {x}) \cup T)
            = SumFunctionOnSet(f, s \ {x}) + SumFunctionOnSet(f, T)
      BY <3>1
    <3>8. SumFunctionOnSet(f, s \cup T) = f[x] + SumFunctionOnSet(f, (s \ {x}) \cup T)
      BY <3>3, <3>4
    <3> QED BY <2>2, <3>2, <3>6, <3>7, <3>8
  <2> QED BY <2>3, <2>4
<1> HIDE DEF Good
<1>2. S \in Good
  BY <1>1, SubsetInduction
<1> QED BY <1>2 DEF Good

\* Rows that are not negative.
LEMMA SumNat ==
    ASSUME NEW f, NEW S, IsFiniteSet(S), \A x \in S : f[x] \in Nat
    PROVE  SumFunctionOnSet(f, S) \in Nat
<1> DEFINE Good == {s \in SUBSET S : SumFunctionOnSet(f, s) \in Nat}
<1>1. ASSUME NEW s \in SUBSET S, \A t \in SUBSET s : t # s => t \in Good
      PROVE  s \in Good
  <2>1. IsFiniteSet(s)
    BY FS_Subset
  <2>2. CASE s = {}
    BY <2>2, SumEmpty
  <2>3. CASE s # {}
    <3>1. s \ {Pick(s)} \in Good /\ Pick(s) \in s
      BY <1>1, <2>3, PickIn
    <3>2. SumFunctionOnSet(f, s) = f[Pick(s)] + SumFunctionOnSet(f, s \ {Pick(s)})
      BY <2>1, <2>3, SumRecursion
    <3> QED BY <3>1, <3>2
  <2> QED BY <2>2, <2>3
<1> HIDE DEF Good
<1>2. S \in Good
  BY <1>1, SubsetInduction
<1> QED BY <1>2 DEF Good

\* The sum of a function is that over its domain.
LEMMA SumWhole == ASSUME NEW f PROVE SumFunction(f) = SumFunctionOnSet(f, DOMAIN f)
  BY DEF SumFunction

\* Rows taken one by one from others: the sum of what they were taken from.
LEMMA SumImage ==
    ASSUME NEW f, NEW g, NEW S, IsFiniteSet(S),
           \A x \in S : f[g[x]] \in Int,
           \A x, y \in S : g[x] = g[y] => x = y
    PROVE  /\ IsFiniteSet({g[x] : x \in S})
           /\ SumFunctionOnSet(f, {g[x] : x \in S}) = SumFunctionOnSet([x \in S |-> f[g[x]]], S)
<1> DEFINE h == [x \in S |-> f[g[x]]]
           Good == {s \in SUBSET S :
                     /\ IsFiniteSet({g[x] : x \in s})
                     /\ SumFunctionOnSet(f, {g[x] : x \in s}) = SumFunctionOnSet(h, s)}
<1>1. ASSUME NEW s \in SUBSET S, \A t \in SUBSET s : t # s => t \in Good
      PROVE  s \in Good
  <2>1. IsFiniteSet(s)
    BY FS_Subset
  <2>2. CASE s = {}
    <3>1. {g[x] : x \in s} = {}
      BY <2>2
    <3>2. SumFunctionOnSet(f, {g[x] : x \in s}) = 0
      BY <3>1, SumEmpty
    <3> QED BY <2>2, <3>1, <3>2, SumEmpty, FS_EmptySet
  <2>3. CASE s # {}
    <3> DEFINE z == Pick(s)
               rest == {g[x] : x \in s \ {z}}
    <3>1. z \in s /\ s \ {z} \in Good
      BY <1>1, <2>3, PickIn
    <3> HIDE DEF z
    <3>2. IsFiniteSet(rest)
      BY <3>1
    <3>3. {g[x] : x \in s} = rest \cup {g[z]} /\ g[z] \notin rest
      BY <3>1
    <3>4. \A y \in rest \cup {g[z]} : f[y] \in Int
      BY <3>1
    <3>5. SumFunctionOnSet(f, rest \cup {g[z]}) = f[g[z]] + SumFunctionOnSet(f, rest)
      <4> HIDE DEF rest
      <4> QED BY <3>2, <3>3, <3>4, SumAdd
    <3>6. SumFunctionOnSet(f, rest) = SumFunctionOnSet(h, s \ {z})
      BY <3>1
    <3>7. (\A x \in s : h[x] \in Int) /\ h[z] = f[g[z]]
      BY <3>1
    <3>8. SumFunctionOnSet(h, s) = h[z] + SumFunctionOnSet(h, s \ {z})
      <4> HIDE DEF h
      <4> QED BY <2>1, <3>1, <3>7, SumRemove
    <3>9. SumFunctionOnSet(f, {g[x] : x \in s}) = SumFunctionOnSet(f, rest \cup {g[z]})
      <4> HIDE DEF rest
      <4> QED BY <3>3
    <3>10. SumFunctionOnSet(f, {g[x] : x \in s}) = SumFunctionOnSet(h, s)
      <4> HIDE DEF rest, h
      <4> QED BY <3>5, <3>6, <3>7, <3>8, <3>9
    <3>11. IsFiniteSet({g[x] : x \in s})
      <4>1. IsFiniteSet(rest \cup {g[z]})
        <5> HIDE DEF rest
        <5> QED BY <3>2, FS_AddElement
      <4> QED BY <3>3, <4>1
    <3> QED BY <3>10, <3>11
  <2> QED BY <2>2, <2>3
<1> HIDE DEF Good
<1>2. S \in Good
  BY <1>1, SubsetInduction
<1> QED BY <1>2 DEF Good

\* The rows two by two.
LEMMA SumPlus ==
    ASSUME NEW f, NEW g, NEW h, NEW S, IsFiniteSet(S),
           \A x \in S : f[x] \in Int /\ g[x] \in Int /\ h[x] = f[x] + g[x]
    PROVE  SumFunctionOnSet(h, S) = SumFunctionOnSet(f, S) + SumFunctionOnSet(g, S)
<1> DEFINE Good == {s \in SUBSET S :
             SumFunctionOnSet(h, s) = SumFunctionOnSet(f, s) + SumFunctionOnSet(g, s)}
<1>1. ASSUME NEW s \in SUBSET S, \A t \in SUBSET s : t # s => t \in Good
      PROVE  s \in Good
  <2>1. IsFiniteSet(s)
    BY FS_Subset
  <2>2. CASE s # {}
    <3> DEFINE z == Pick(s)
    <3>1. z \in S /\ s \ {z} \in Good
      BY <1>1, <2>2, PickIn
    <3>2. /\ SumFunctionOnSet(f, s) = f[z] + SumFunctionOnSet(f, s \ {z})
          /\ SumFunctionOnSet(g, s) = g[z] + SumFunctionOnSet(g, s \ {z})
          /\ SumFunctionOnSet(h, s) = h[z] + SumFunctionOnSet(h, s \ {z})
      BY <2>1, <2>2, SumRecursion
    <3> HIDE DEF z
    <3>3. IsFiniteSet(s \ {z})
      BY <2>1, FS_Subset
    <3>4. SumFunctionOnSet(f, s \ {z}) \in Int /\ SumFunctionOnSet(g, s \ {z}) \in Int
      BY <3>3, SumInt
    <3> QED BY <3>1, <3>2, <3>4
  <2>3. CASE s = {}
    <3>1. /\ SumFunctionOnSet(f, s) = 0
          /\ SumFunctionOnSet(g, s) = 0
          /\ SumFunctionOnSet(h, s) = 0
      BY <2>3, SumEmpty
    <3> QED BY <3>1
  <2> QED BY <2>2, <2>3
<1> HIDE DEF Good
<1>2. S \in Good
  BY <1>1, SubsetInduction
<1> QED BY <1>2 DEF Good

\* So many times each row.
LEMMA SumScaled ==
    ASSUME NEW m \in Int, NEW S, IsFiniteSet(S), NEW f, NEW h,
           \A x \in S : f[x] \in Int /\ h[x] = m * f[x]
    PROVE  SumFunctionOnSet(h, S) = m * SumFunctionOnSet(f, S)
<1> DEFINE Good == {s \in SUBSET S : SumFunctionOnSet(h, s) = m * SumFunctionOnSet(f, s)}
<1>1. ASSUME NEW s \in SUBSET S, \A t \in SUBSET s : t # s => t \in Good
      PROVE  s \in Good
  <2>1. IsFiniteSet(s)
    BY FS_Subset
  <2>2. CASE s = {}
    <3>1. SumFunctionOnSet(h, s) = 0 /\ SumFunctionOnSet(f, s) = 0
      BY <2>2, SumEmpty
    <3> QED BY <3>1
  <2>3. CASE s # {}
    <3> DEFINE z == Pick(s)
               rest == SumFunctionOnSet(f, s \ {z})
    <3>1. z \in S /\ s \ {z} \in Good
      BY <1>1, <2>3, PickIn
    <3>2. /\ SumFunctionOnSet(f, s) = f[z] + rest
          /\ SumFunctionOnSet(h, s) = h[z] + SumFunctionOnSet(h, s \ {z})
      BY <2>1, <2>3, SumRecursion
    <3>3. rest \in Int
      <4>1. IsFiniteSet(s \ {z})
        BY <2>1, FS_Subset
      <4> QED BY <4>1, SumInt
    <3>4. SumFunctionOnSet(h, s) = m * f[z] + m * rest
      BY <3>1, <3>2
    <3> HIDE DEF z, rest
    <3>5. m * f[z] + m * rest = m * (f[z] + rest)
      BY <3>1, <3>3
    <3> QED BY <3>2, <3>4, <3>5
  <2> QED BY <2>2, <2>3
<1> HIDE DEF Good
<1>2. S \in Good
  BY <1>1, SubsetInduction
<1> QED BY <1>2 DEF Good

\* Rows none of which is more than the other.
LEMMA SumAtMost ==
    ASSUME NEW f, NEW g, NEW S, IsFiniteSet(S),
           \A x \in S : f[x] \in Int /\ g[x] \in Int /\ f[x] <= g[x]
    PROVE  SumFunctionOnSet(f, S) <= SumFunctionOnSet(g, S)
<1> DEFINE h == [x \in S |-> g[x] - f[x]]
<1>1. \A x \in S : h[x] \in Nat /\ g[x] = f[x] + h[x]
  OBVIOUS
<1> HIDE DEF h
<1>2. SumFunctionOnSet(g, S) = SumFunctionOnSet(f, S) + SumFunctionOnSet(h, S)
  BY <1>1, SumPlus
<1>3. SumFunctionOnSet(h, S) \in Nat
  BY <1>1, SumNat
<1>4. SumFunctionOnSet(f, S) \in Int
  BY SumInt
<1> QED BY <1>2, <1>3, <1>4

\* One of several rows that are not negative.
LEMMA SumPart ==
    ASSUME NEW f, NEW S, IsFiniteSet(S), \A x \in S : f[x] \in Nat, NEW x \in S
    PROVE  f[x] <= SumFunctionOnSet(f, S)
<1>1. SumFunctionOnSet(f, S) = f[x] + SumFunctionOnSet(f, S \ {x})
  BY SumRemove
<1>2. SumFunctionOnSet(f, S \ {x}) \in Nat
  <2>1. IsFiniteSet(S \ {x})
    BY FS_Subset
  <2> QED BY <2>1, SumNat
<1> QED BY <1>1, <1>2

\* Rows that differ by no more than an allowance each.
LEMMA SumWithin ==
    ASSUME NEW f, NEW g, NEW h, NEW S, IsFiniteSet(S),
           \A x \in S : /\ f[x] \in Int /\ g[x] \in Int /\ h[x] \in Int
                        /\ f[x] <= g[x] + h[x] /\ g[x] <= f[x] + h[x]
    PROVE  LET F == SumFunctionOnSet(f, S)
               G == SumFunctionOnSet(g, S)
               H == SumFunctionOnSet(h, S)
           IN  /\ F \in Int /\ G \in Int /\ H \in Int
               /\ F <= G + H /\ G <= F + H
<1> DEFINE up == [x \in S |-> g[x] + h[x]]
           to == [x \in S |-> f[x] + h[x]]
<1>1. \A x \in S : /\ up[x] \in Int /\ up[x] = g[x] + h[x] /\ f[x] <= up[x]
                   /\ to[x] \in Int /\ to[x] = f[x] + h[x] /\ g[x] <= to[x]
  OBVIOUS
<1> HIDE DEF up, to
<1>2. SumFunctionOnSet(up, S) = SumFunctionOnSet(g, S) + SumFunctionOnSet(h, S)
  BY <1>1, SumPlus
<1>3. SumFunctionOnSet(to, S) = SumFunctionOnSet(f, S) + SumFunctionOnSet(h, S)
  BY <1>1, SumPlus
<1>4. SumFunctionOnSet(f, S) <= SumFunctionOnSet(up, S)
  BY <1>1, SumAtMost
<1>5. SumFunctionOnSet(g, S) <= SumFunctionOnSet(to, S)
  BY <1>1, SumAtMost
<1>6. /\ SumFunctionOnSet(f, S) \in Int /\ SumFunctionOnSet(g, S) \in Int
      /\ SumFunctionOnSet(h, S) \in Int
  BY SumInt
<1> QED BY <1>2, <1>3, <1>4, <1>5, <1>6

\* The rows group by group: each has one key, and the groups add up.
LEMMA SumByKey ==
    ASSUME NEW f, NEW S, IsFiniteSet(S), NEW K, IsFiniteSet(K), NEW key,
           \A x \in S : f[x] \in Int /\ key[x] \in K
    PROVE  SumFunctionOnSet(f, S)
             = SumFunctionOnSet([k \in K |-> SumFunctionOnSet(f, {x \in S : key[x] = k})], K)
<1> DEFINE Groups(s) == [k \in K |-> SumFunctionOnSet(f, {x \in s : key[x] = k})]
           Good == {s \in SUBSET S :
                      SumFunctionOnSet(f, s) = SumFunctionOnSet(Groups(s), K)}
<1>0. ASSUME NEW s \in SUBSET S
      PROVE  \A k \in K : Groups(s)[k] \in Int
  <2> SUFFICES ASSUME NEW k \in K PROVE SumFunctionOnSet(f, {x \in s : key[x] = k}) \in Int
    OBVIOUS
  <2>1. IsFiniteSet({x \in s : key[x] = k})
    BY FS_Subset
  <2> QED BY <2>1, SumInt
<1>1. ASSUME NEW s \in SUBSET S, \A t \in SUBSET s : t # s => t \in Good
      PROVE  s \in Good
  <2>1. IsFiniteSet(s)
    BY FS_Subset
  <2>2. CASE s = {}
    <3>1. \A k \in K : {x \in s : key[x] = k} = {}
      BY <2>2
    <3>2. \A k \in K : Groups(s)[k] = 0
      BY <3>1, SumEmpty
    <3>3. SumFunctionOnSet(Groups(s), K) = 0
      <4> HIDE DEF Groups
      <4> QED BY <3>2, SumZero
    <3> QED BY <2>2, <3>3, SumEmpty
  <2>3. CASE s # {}
    <3> DEFINE z == Pick(s)
               r == s \ {z}
               own == {x \in s : key[x] = key[z]}
    <3>1. z \in s /\ r \in Good /\ r \in SUBSET S
      BY <1>1, <2>3, PickIn
    <3> HIDE DEF z
    <3>2. SumFunctionOnSet(f, s) = f[z] + SumFunctionOnSet(f, r)
      BY <2>1, <3>1, SumRemove
    <3>3. \A k \in K : k # key[z] => Groups(s)[k] = Groups(r)[k]
      <4> SUFFICES ASSUME NEW k \in K, k # key[z] PROVE Groups(s)[k] = Groups(r)[k]
        OBVIOUS
      <4>1. {x \in s : key[x] = k} = {x \in r : key[x] = k}
        OBVIOUS
      <4> QED BY <4>1
    <3>4. Groups(s)[key[z]] = f[z] + Groups(r)[key[z]]
      <4>1. IsFiniteSet(own) /\ z \in own /\ own \subseteq S
        BY <2>1, <3>1, FS_Subset
      <4>2. SumFunctionOnSet(f, own) = f[z] + SumFunctionOnSet(f, own \ {z})
        <5> HIDE DEF own
        <5> QED BY <4>1, SumRemove
      <4>3. own \ {z} = {x \in r : key[x] = key[z]}
        OBVIOUS
      <4>4. key[z] \in K
        BY <3>1
      <4>5. Groups(s)[key[z]] = SumFunctionOnSet(f, own)
        BY <4>4
      <4>6. Groups(r)[key[z]] = SumFunctionOnSet(f, own \ {z})
        BY <4>3, <4>4
      <4> QED BY <4>2, <4>5, <4>6
    <3>5. /\ \A k \in K : Groups(s)[k] \in Int /\ Groups(r)[k] \in Int
          /\ f[z] \in Int /\ key[z] \in K
      BY <1>0, <3>1
    <3>6. SumFunctionOnSet(f, r) = SumFunctionOnSet(Groups(r), K)
      BY <3>1
    <3>7. SumFunctionOnSet(Groups(s), K)
            = SumFunctionOnSet(Groups(r), K) - Groups(r)[key[z]] + Groups(s)[key[z]]
      <4> HIDE DEF Groups, r
      <4> QED BY <3>3, <3>5, SumChange
    <3>8. SumFunctionOnSet(Groups(r), K) \in Int
      <4> HIDE DEF Groups, r
      <4> QED BY <3>5, SumInt
    <3>9. SumFunctionOnSet(f, s) = SumFunctionOnSet(Groups(s), K)
      <4> HIDE DEF Groups, r
      <4> QED BY <3>2, <3>4, <3>5, <3>6, <3>7, <3>8
    <3> QED BY <3>9
  <2> QED BY <2>2, <2>3
<1> HIDE DEF Good
<1>2. S \in Good
  BY <1>1, SubsetInduction
<1> QED BY <1>2 DEF Good

\* To count is to add ones.
LEMMA CountIsSum ==
    ASSUME NEW S, IsFiniteSet(S)
    PROVE  Cardinality(S) = SumFunctionOnSet([x \in S |-> 1], S)
<1> DEFINE ones == [x \in S |-> 1]
           Good == {s \in SUBSET S : Cardinality(s) = SumFunctionOnSet(ones, s)}
<1>1. ASSUME NEW s \in SUBSET S, \A t \in SUBSET s : t # s => t \in Good
      PROVE  s \in Good
  <2>1. IsFiniteSet(s)
    BY FS_Subset
  <2>2. CASE s = {}
    BY <2>2, SumEmpty, FS_EmptySet
  <2>3. CASE s # {}
    <3> DEFINE z == Pick(s)
    <3>1. z \in s /\ s \ {z} \in Good
      BY <1>1, <2>3, PickIn
    <3> HIDE DEF z
    <3>2. Cardinality(s \ {z}) = Cardinality(s) - 1 /\ Cardinality(s) \in Nat
      BY <2>1, <3>1, FS_RemoveElement, FS_CardinalityType
    <3>3. \A x \in s : ones[x] = 1
      OBVIOUS
    <3>4. SumFunctionOnSet(ones, s) = 1 + SumFunctionOnSet(ones, s \ {z})
      <4> HIDE DEF ones
      <4> QED BY <2>1, <3>1, <3>3, SumRemove
    <3>5. Cardinality(s \ {z}) = SumFunctionOnSet(ones, s \ {z})
      BY <3>1
    <3>6. Cardinality(s) = SumFunctionOnSet(ones, s)
      <4> HIDE DEF ones
      <4> QED BY <3>2, <3>4, <3>5
    <3> QED BY <3>6
  <2> QED BY <2>2, <2>3
<1> HIDE DEF Good
<1>2. S \in Good
  BY <1>1, SubsetInduction
<1> QED BY <1>2 DEF Good

-----------------------------------------------------------------------------
(* Recursions over the subsets of a set, and along a sequence.                *)

\* A recursion over the subsets of a set, an element at a time: pick says which
\* one comes off, step what it does to the value of the rest.
Recursion(S, pick, base, step, g) ==
    \A s \in SUBSET S :
        g[s] = IF s = {} THEN base ELSE step[<<pick[s], g[s \ {pick[s]}]>>]

LEMMA RecursionUnique ==
    ASSUME NEW S, IsFiniteSet(S), NEW pick, \A s \in SUBSET S : s # {} => pick[s] \in s,
           NEW base, NEW step, NEW g, NEW h,
           Recursion(S, pick, base, step, g), Recursion(S, pick, base, step, h)
    PROVE  \A s \in SUBSET S : g[s] = h[s]
<1> DEFINE Good == {s \in SUBSET S : g[s] = h[s]}
<1>1. ASSUME NEW s \in SUBSET S, \A t \in SUBSET s : t # s => t \in Good
      PROVE  s \in Good
  <2>1. CASE s = {}
    BY <2>1 DEF Recursion
  <2>2. CASE s # {}
    <3>1. s \ {pick[s]} \in SUBSET s /\ s \ {pick[s]} # s
      BY <2>2
    <3>2. g[s \ {pick[s]}] = h[s \ {pick[s]}]
      BY <1>1, <3>1
    <3> QED BY <2>2, <3>2 DEF Recursion
  <2> QED BY <2>1, <2>2
<1> HIDE DEF Good
<1>2. \A s \in SUBSET S : s \in Good
  BY <1>1, SubsetInduction
<1> QED BY <1>2 DEF Good

\* Such a recursion defines a function.
LEMMA SubsetRecursion ==
    ASSUME NEW S, IsFiniteSet(S), NEW pick, \A s \in SUBSET S : s # {} => pick[s] \in s,
           NEW V, NEW base \in V, NEW step \in [S \X V -> V]
    PROVE  \E g \in [SUBSET S -> V] : Recursion(S, pick, base, step, g)
<1> DEFINE Solves(s, g) == g \in [SUBSET s -> V] /\ Recursion(s, pick, base, step, g)
           Good == {s \in SUBSET S : \E g : Solves(s, g)}
           At(t) == (CHOOSE g : Solves(t, g))[t]
<1>1. ASSUME NEW s \in SUBSET S, \A t \in SUBSET s : t # s => t \in Good
      PROVE  s \in Good
  <2> DEFINE Rest(t) == t \ {pick[t]}
             h == [t \in SUBSET s |->
                     IF t # s THEN At(t)
                     ELSE IF s = {} THEN base ELSE step[<<pick[s], At(Rest(s))>>]]
  <2>1. \A t \in SUBSET s : t # {} => pick[t] \in t /\ pick[t] \in S /\ Rest(t) \in SUBSET t /\ Rest(t) # t
    OBVIOUS
  <2>2. ASSUME NEW t \in SUBSET s, t # s
        PROVE  /\ At(t) \in V
               /\ At(t) = IF t = {} THEN base ELSE step[<<pick[t], At(Rest(t))>>]
    <3> DEFINE g == CHOOSE f : Solves(t, f)
    <3>1. Solves(t, g)
      <4>1. \E f : Solves(t, f)
        BY <1>1, <2>2
      <4> HIDE DEF Solves
      <4> QED BY <4>1, Zenon
    <3>2. At(t) = g[t] /\ At(t) \in V
      BY <3>1
    <3>3. CASE t = {}
      BY <3>1, <3>2, <3>3 DEF Recursion
    <3>4. CASE t # {}
      <4> DEFINE u == Rest(t)
                 k == CHOOSE f : Solves(u, f)
      <4>1. u \in SUBSET t /\ u # t /\ u # s /\ u \in SUBSET s
        BY <2>1, <2>2, <3>4
      <4>2. Solves(u, k)
        <5>1. \E f : Solves(u, f)
          BY <1>1, <4>1
        <5> HIDE DEF Solves
        <5> QED BY <5>1, Zenon
      <4>3. Recursion(u, pick, base, step, g)
        BY <3>1, <4>1 DEF Recursion
      <4>4. IsFiniteSet(u) /\ \A v \in SUBSET u : v # {} => pick[v] \in v
        BY <4>1, FS_Subset
      <4> HIDE DEF g, k
      <4>5. g[u] = k[u]
        <5>1. Recursion(u, pick, base, step, k) /\ u \in SUBSET u
          BY <4>2
        <5> HIDE DEF u
        <5>2. \A v \in SUBSET u : g[v] = k[v]
          BY <4>3, <4>4, <5>1, RecursionUnique
        <5> QED BY <5>1, <5>2
      <4>6. g[t] = step[<<pick[t], g[u]>>]
        BY <3>1, <3>4 DEF Recursion
      <4> QED BY <3>2, <3>4, <4>5, <4>6 DEF k
    <3> QED BY <3>2, <3>3, <3>4
  <2> HIDE DEF At
  <2>3. \A t \in SUBSET s : h[t] \in V
    <3> SUFFICES ASSUME NEW t \in SUBSET s PROVE h[t] \in V
      OBVIOUS
    <3>1. CASE t # s
      BY <2>2, <3>1
    <3>2. CASE t = s /\ s = {}
      BY <3>2
    <3>3. CASE t = s /\ s # {}
      <4>1. At(Rest(s)) \in V /\ pick[s] \in S
        BY <2>1, <2>2, <3>3
      <4> QED BY <3>3, <4>1
    <3> QED BY <3>1, <3>2, <3>3
  <2>4. ASSUME NEW t \in SUBSET s
        PROVE  h[t] = IF t = {} THEN base ELSE step[<<pick[t], h[Rest(t)]>>]
    <3>1. CASE t = {}
      BY <2>2, <3>1
    <3>2. CASE t # {}
      <4>1. Rest(t) \in SUBSET s /\ Rest(t) # s
        BY <2>1, <3>2
      <4>2. h[Rest(t)] = At(Rest(t))
        BY <4>1
      <4>3. CASE t = s
        BY <3>2, <4>2, <4>3
      <4>4. CASE t # s
        BY <2>2, <3>2, <4>2, <4>4
      <4> QED BY <4>3, <4>4
    <3> QED BY <3>1, <3>2
  <2>5. Solves(s, h)
    <3>1. h \in [SUBSET s -> V]
      BY <2>3
    <3> HIDE DEF h
    <3> QED BY <2>4, <3>1 DEF Recursion
  <2> HIDE DEF h, Solves
  <2> QED BY <2>5
<1>2. S \in Good
  <2> HIDE DEF Good
  <2> QED BY <1>1, SubsetInduction
<1> QED BY <1>2

\* Induction over the prefixes 0, 1, ... of a sequence.
LEMMA PrefixInduction ==
    ASSUME NEW n \in Nat, NEW Good, 0 \in Good,
           \A k \in 0..(n-1) : k \in Good => k + 1 \in Good
    PROVE  \A k \in 0..n : k \in Good
<1> DEFINE Fit == {s \in SUBSET (1..n) : \A k \in 0..n : s = 1..k => k \in Good}
<1>1. ASSUME NEW s \in SUBSET (1..n), \A t \in SUBSET s : t # s => t \in Fit
      PROVE  s \in Fit
  <2> SUFFICES ASSUME NEW k \in 0..n, s = 1..k PROVE k \in Good
    OBVIOUS
  <2>1. CASE k = 0
    BY <2>1
  <2>2. CASE k # 0
    <3>1. k - 1 \in 0..(n-1) /\ 1..(k-1) \in SUBSET s /\ 1..(k-1) # s /\ k \in s
      BY <2>2
    <3>2. 1..(k-1) \in Fit
      BY <1>1, <3>1
    <3>3. k - 1 \in Good
      BY <3>1, <3>2
    <3>4. (k - 1) + 1 \in Good
      BY <3>1, <3>3
    <3> QED BY <3>4
  <2> QED BY <2>1, <2>2
<1>2. IsFiniteSet(1..n)
  BY FS_Interval
<1> HIDE DEF Fit
<1>3. \A s \in SUBSET (1..n) : s \in Fit
  BY <1>1, <1>2, SubsetInduction
<1>4. \A k \in 0..n : 1..k \in SUBSET (1..n)
  OBVIOUS
<1> QED BY <1>3, <1>4 DEF Fit

\* The last of a set of numbers.
Last(s) == CHOOSE x \in s : \A y \in s : x >= y

LEMMA LastIn ==
    ASSUME NEW n \in Nat
    PROVE  \A s \in SUBSET (1..n) : s # {} => Last(s) \in s /\ \A y \in s : Last(s) >= y
<1> DEFINE Good == {k \in 0..n : \A s \in SUBSET (1..k) :
                       s # {} => \E x \in s : \A y \in s : x >= y}
<1>1. 0 \in Good
  <2>1. \A s \in SUBSET (1..0) : s = {}
    OBVIOUS
  <2>2. 0 \in 0..n
    OBVIOUS
  <2> QED BY <2>1, <2>2
<1>2. ASSUME NEW k \in 0..(n-1), k \in Good PROVE k + 1 \in Good
  <2> SUFFICES ASSUME NEW s \in SUBSET (1..(k+1)), s # {}
               PROVE  \E x \in s : \A y \in s : x >= y
    OBVIOUS
  <2>1. CASE k + 1 \in s
    BY <2>1
  <2>2. CASE k + 1 \notin s
    <3>1. s \in SUBSET (1..k)
      BY <2>2
    <3> QED BY <1>2, <3>1
  <2> QED BY <2>1, <2>2
<1> HIDE DEF Good
<1>3. n \in Good
  BY <1>1, <1>2, PrefixInduction
<1> QED BY <1>3 DEF Good, Last

LEMMA LastOfPrefix == ASSUME NEW k \in Nat, k > 0 PROVE Last(1..k) = k
  BY DEF Last

\* A sum along a sequence that lists a set is the sum over the set.
AddsAlong(f, xs, g) ==
    g = [s \in SUBSET DOMAIN xs |->
            IF s = {} THEN 0 ELSE g[s \ {Last(s)}] + f[xs[Last(s)]]]

LEMMA SumAlong ==
    ASSUME NEW n \in Nat, NEW S, NEW xs \in Bijection(1..n, S), NEW f, \A x \in S : f[x] \in Int
    PROVE  (CHOOSE g : AddsAlong(f, xs, g))[DOMAIN xs] = SumFunctionOnSet(f, S)
<1> DEFINE D == 1..n
           pick == [s \in SUBSET D |-> Last(s)]
           step == [p \in D \X Int |-> p[2] + f[xs[p[1]]]]
           c == CHOOSE g : AddsAlong(f, xs, g)
<1>1. xs \in [D -> S] /\ DOMAIN xs = D /\ \A i, j \in D : xs[i] = xs[j] => i = j
  BY DEF Bijection, Injection, IsInjective
<1>2. \A x \in S : \E i \in D : xs[i] = x
  BY DEF Bijection, Surjection
<1>3. IsFiniteSet(D) /\ \A s \in SUBSET D : s # {} => pick[s] \in s /\ pick[s] = Last(s)
  <2>1. IsFiniteSet(D)
    BY FS_Interval
  <2>2. \A s \in SUBSET D : s # {} => Last(s) \in s
    BY LastIn
  <2> QED BY <2>1, <2>2
<1>4. step \in [D \X Int -> Int]
  BY <1>1
<1>5. PICK h \in [SUBSET D -> Int] : Recursion(D, pick, 0, step, h)
  <2>1. \A s \in SUBSET D : s # {} => pick[s] \in s
    BY <1>3
  <2>2. 0 \in Int
    OBVIOUS
  <2> HIDE DEF pick, step, D
  <2> QED BY <1>3, <1>4, <2>1, <2>2, SubsetRecursion
<1>6. AddsAlong(f, xs, h)
  <2>1. ASSUME NEW s \in SUBSET D, s # {}
        PROVE  h[s] = h[s \ {Last(s)}] + f[xs[Last(s)]]
    <3>1. Last(s) \in D /\ s \ {Last(s)} \in SUBSET D /\ h[s \ {Last(s)}] \in Int
      BY <1>3, <1>5, <2>1
    <3>2. h[s] = step[<<Last(s), h[s \ {Last(s)}]>>]
      BY <1>3, <1>5, <2>1 DEF Recursion
    <3> QED BY <3>1, <3>2
  <2>2. h[{}] = 0
    BY <1>5 DEF Recursion
  <2> QED BY <1>1, <1>5, <2>1, <2>2 DEF AddsAlong
<1>7. AddsAlong(f, xs, c)
  BY <1>6, Zenon
<1> HIDE DEF c
<1> DEFINE R(k) == {xs[i] : i \in 1..k}
           Good == {k \in 0..n : IsFiniteSet(R(k)) /\ c[1..k] = SumFunctionOnSet(f, R(k))}
<1>8. 0 \in Good
  <2>1. R(0) = {} /\ 1..0 = {} /\ 0 \in 0..n
    OBVIOUS
  <2>2. c[1..0] = 0
    BY <1>7, <2>1 DEF AddsAlong
  <2> QED BY <2>1, <2>2, SumEmpty, FS_EmptySet
<1>9. ASSUME NEW k \in 0..(n-1), k \in Good PROVE k + 1 \in Good
  <2>1. R(k+1) = R(k) \cup {xs[k+1]} /\ xs[k+1] \notin R(k)
    BY <1>1
  <2>2. R(k+1) \subseteq S
    BY <1>1
  <2>3. 1..(k+1) \in SUBSET D /\ k + 1 \in 1..(k+1)
    OBVIOUS
  <2>4. (1..(k+1)) \ {k+1} = 1..k /\ Last(1..(k+1)) = k + 1
    BY LastOfPrefix
  <2>5. c[1..(k+1)] = c[1..k] + f[xs[k+1]]
    <3>1. 1..(k+1) \in SUBSET DOMAIN xs /\ 1..(k+1) # {}
      BY <1>1, <2>3
    <3> HIDE DEF D
    <3> QED BY <1>7, <2>4, <3>1 DEF AddsAlong
  <2>6. IsFiniteSet(R(k)) /\ c[1..k] = SumFunctionOnSet(f, R(k)) /\ k + 1 \in 0..n
    BY <1>9
  <2> HIDE DEF R
  <2>7. SumFunctionOnSet(f, R(k+1)) = f[xs[k+1]] + SumFunctionOnSet(f, R(k))
    BY <2>1, <2>2, <2>6, SumAdd
  <2>8. SumFunctionOnSet(f, R(k)) \in Int /\ f[xs[k+1]] \in Int /\ IsFiniteSet(R(k+1))
    BY <2>1, <2>2, <2>6, SumInt, FS_AddElement
  <2> QED BY <2>5, <2>6, <2>7, <2>8
<1>10. n \in Good
  <2>1. \A k \in 0..(n-1) : k \in Good => k + 1 \in Good
    BY <1>9
  <2> HIDE DEF Good
  <2>2. \A k \in 0..n : k \in Good
    BY <1>8, <2>1, PrefixInduction
  <2> QED BY <2>2
<1>11. R(n) = S
  BY <1>1, <1>2
<1> QED BY <1>1, <1>10, <1>11 DEF c

-----------------------------------------------------------------------------
(* Sets in an order.                                                          *)

\* The elements of a finite set, under a strict total order (what comes before
\* each of them), have as their ranks the numbers from nothing up.
LEMMA RanksAreTaken ==
    ASSUME NEW S, IsFiniteSet(S), NEW before \in [S -> SUBSET S],
           \A x \in S : x \notin before[x],
           \A x, y \in S : x # y => x \in before[y] \/ y \in before[x],
           \A x, y \in S : x \in before[y] => before[x] \subseteq before[y]
    PROVE  LET n == Cardinality(S)
           IN  /\ n \in Nat
               /\ \A k \in 1..n : \E x \in S : Cardinality(before[x]) = k - 1
               /\ \A x \in S : Cardinality(before[x]) + 1 \in 1..n
               /\ \A x, y \in S : x \in before[y] <=> Cardinality(before[x]) < Cardinality(before[y])
<1> DEFINE n == Cardinality(S)
           rank == [x \in S |-> Cardinality(before[x]) + 1]
<1>1. n \in Nat
  BY FS_CardinalityType
<1>2. ASSUME NEW x \in S
      PROVE  /\ IsFiniteSet(before[x])
             /\ Cardinality(before[x]) \in Nat
             /\ Cardinality(before[x]) < n
  <2>1. before[x] \subseteq S /\ before[x] # S
    OBVIOUS
  <2> QED BY <1>1, <2>1, FS_Subset, FS_CardinalityType
<1>3. ASSUME NEW x \in S, NEW y \in S, x \in before[y]
      PROVE  Cardinality(before[x]) < Cardinality(before[y])
  <2>1. before[x] \subseteq before[y] /\ before[x] # before[y] /\ IsFiniteSet(before[y])
    BY <1>2, <1>3
  <2>2. Cardinality(before[x]) <= Cardinality(before[y])
    BY <2>1, FS_Subset
  <2>3. Cardinality(before[x]) # Cardinality(before[y])
    BY <2>1, FS_Subset
  <2> QED BY <1>2, <2>2, <2>3
<1>4. rank \in [S -> 1..n]
  BY <1>1, <1>2
<1>5. ASSUME NEW x \in S, NEW y \in S, x # y PROVE rank[x] # rank[y]
  <2>1. Cardinality(before[x]) \in Nat /\ Cardinality(before[y]) \in Nat
    BY <1>2
  <2>2. CASE x \in before[y]
    BY <1>3, <2>1, <2>2
  <2>3. CASE y \in before[x]
    BY <1>3, <2>1, <2>3
  <2> QED BY <1>5, <2>2, <2>3
<1>6. \A k \in 1..n : \E x \in S : rank[x] = k
  <2>1. rank \in Injection(S, 1..n)
    <3> HIDE DEF rank
    <3> QED BY <1>4, <1>5 DEF Injection, IsInjective
  <2>2. IsFiniteSet(1..n) /\ Cardinality(1..n) = n
    BY <1>1, FS_Interval
  <2>3. rank \in Surjection(S, 1..n)
    <3> HIDE DEF rank
    <3> QED BY <2>1, <2>2, FS_Injection
  <2> HIDE DEF rank
  <2> QED BY <2>3 DEF Surjection
<1>7. ASSUME NEW k \in 1..n PROVE \E x \in S : Cardinality(before[x]) = k - 1
  <2>1. PICK x \in S : rank[x] = k
    BY <1>6
  <2>2. Cardinality(before[x]) = k - 1
    BY <1>2, <2>1
  <2> QED BY <2>2
<1>8. ASSUME NEW x \in S, NEW y \in S, Cardinality(before[x]) < Cardinality(before[y])
      PROVE  x \in before[y]
  <2>1. Cardinality(before[x]) \in Nat /\ Cardinality(before[y]) \in Nat
    BY <1>2
  <2>2. x # y
    BY <1>8, <2>1
  <2>3. y \notin before[x]
    <3>1. y \in before[x] => Cardinality(before[y]) < Cardinality(before[x])
      BY <1>3
    <3> QED BY <1>8, <2>1, <3>1
  <2> QED BY <2>2, <2>3
<1>9. \A x \in S : Cardinality(before[x]) + 1 \in 1..n
  BY <1>1, <1>2
<1> QED BY <1>1, <1>3, <1>7, <1>8, <1>9

\* A finite set of numbers has a least one.
LEMMA LeastIn ==
    ASSUME NEW S, IsFiniteSet(S), S # {}, S \subseteq Int
    PROVE  \E x \in S : \A y \in S : x =< y
<1> DEFINE Good == {s \in SUBSET S : s = {} \/ \E x \in s : \A y \in s : x =< y}
<1>1. ASSUME NEW s \in SUBSET S, \A t \in SUBSET s : t # s => t \in Good
      PROVE  s \in Good
  <2>1. CASE s = {}
    BY <2>1
  <2>2. CASE s # {}
    <3>1. PICK z \in s : TRUE
      BY <2>2
    <3>2. s \ {z} \in Good
      BY <1>1, <3>1
    <3>3. CASE s \ {z} = {}
      <4>1. s = {z} /\ z \in Int
        BY <3>1, <3>3
      <4> QED BY <4>1
    <3>4. CASE s \ {z} # {}
      <4>1. PICK x \in s \ {z} : \A y \in s \ {z} : x =< y
        BY <3>2, <3>4
      <4>2. x \in Int /\ z \in Int /\ \A y \in s : y \in Int
        BY <3>1, <4>1
      <4>3. CASE x =< z
        <5>1. \A y \in s : x =< y
          BY <4>1, <4>3
        <5> QED BY <4>1, <5>1
      <4>4. CASE z =< x
        <5>1. \A y \in s : z =< y
          BY <4>1, <4>2, <4>4
        <5> QED BY <3>1, <5>1
      <4> QED BY <4>2, <4>3, <4>4
    <3> QED BY <3>3, <3>4
  <2> QED BY <2>1, <2>2
<1> HIDE DEF Good
<1>2. S \in Good
  BY <1>1, SubsetInduction
<1> QED BY <1>2 DEF Good

-----------------------------------------------------------------------------
\* Pairs counted by their second, and by their first.
LEMMA CountedTwoWays ==
    ASSUME NEW X, IsFiniteSet(X), NEW D, IsFiniteSet(D), NEW P, P \subseteq X \X D
    PROVE  SumFunctionOnSet([d \in D |-> Cardinality({x \in X : <<x, d>> \in P})], D)
             = SumFunctionOnSet([x \in X |-> Cardinality({d \in D : <<x, d>> \in P})], X)
<1> DEFINE ones == [p \in P |-> 1]
           byFirst == [x \in X |-> SumFunctionOnSet(ones, {p \in P : p[1] = x})]
           bySecond == [d \in D |-> SumFunctionOnSet(ones, {p \in P : p[2] = d})]
           ofX == [x \in X |-> Cardinality({d \in D : <<x, d>> \in P})]
           ofD == [d \in D |-> Cardinality({x \in X : <<x, d>> \in P})]
<1>1. IsFiniteSet(P)
  BY FS_Product, FS_Subset
<1>2. SumFunctionOnSet(ones, P) = SumFunctionOnSet(byFirst, X)
  <2> DEFINE key == [p \in P |-> p[1]]
  <2>1. \A p \in P : ones[p] \in Int /\ key[p] \in X
    OBVIOUS
  <2>2. byFirst = [x \in X |-> SumFunctionOnSet(ones, {p \in P : key[p] = x})]
    <3>1. \A x \in X : {p \in P : p[1] = x} = {p \in P : key[p] = x}
      OBVIOUS
    <3> HIDE DEF key, ones
    <3> QED BY <3>1
  <2> HIDE DEF key, ones, byFirst
  <2> QED BY <1>1, <2>1, <2>2, SumByKey
<1>3. SumFunctionOnSet(ones, P) = SumFunctionOnSet(bySecond, D)
  <2> DEFINE key == [p \in P |-> p[2]]
  <2>1. \A p \in P : ones[p] \in Int /\ key[p] \in D
    OBVIOUS
  <2>2. bySecond = [x \in D |-> SumFunctionOnSet(ones, {p \in P : key[p] = x})]
    <3>1. \A x \in D : {p \in P : p[2] = x} = {p \in P : key[p] = x}
      OBVIOUS
    <3> HIDE DEF key, ones
    <3> QED BY <3>1
  <2> HIDE DEF key, ones, bySecond
  <2> QED BY <1>1, <2>1, <2>2, SumByKey
<1>4. ASSUME NEW x \in X PROVE byFirst[x] = ofX[x]
  <2> DEFINE s == {d \in D : <<x, d>> \in P}
             g == [d \in s |-> <<x, d>>]
  <2>1. IsFiniteSet(s)
    BY FS_Subset
  <2>2. {g[d] : d \in s} = {p \in P : p[1] = x}
    <3>1. \A p \in P : p[1] = x => p = <<x, p[2]>> /\ p[2] \in s
      OBVIOUS
    <3>2. \A d \in s : g[d] = <<x, d>> /\ g[d] \in P /\ g[d][1] = x
      OBVIOUS
    <3> HIDE DEF g, s
    <3> QED BY <3>1, <3>2
  <2>3. \A d \in s : g[d] \in P
    OBVIOUS
  <2>4. \A d \in s : ones[g[d]] = 1
    BY <2>3
  <2>5. \A d, e \in s : g[d] = g[e] => d = e
    OBVIOUS
  <2> HIDE DEF s, g, ones
  <2>6. SumFunctionOnSet(ones, {g[d] : d \in s}) = SumFunctionOnSet([d \in s |-> ones[g[d]]], s)
    BY <2>1, <2>4, <2>5, SumImage
  <2>7. [d \in s |-> ones[g[d]]] = [d \in s |-> 1]
    BY <2>4
  <2>8. SumFunctionOnSet(ones, {p \in P : p[1] = x}) = Cardinality(s)
    BY <2>1, <2>2, <2>6, <2>7, CountIsSum
  <2> QED BY <2>8 DEF s
<1>5. ASSUME NEW x \in D PROVE bySecond[x] = ofD[x]
  <2> DEFINE s == {d \in X : <<d, x>> \in P}
             g == [d \in s |-> <<d, x>>]
  <2>1. IsFiniteSet(s)
    BY FS_Subset
  <2>2. {g[d] : d \in s} = {p \in P : p[2] = x}
    <3>1. \A p \in P : p[2] = x => p = <<p[1], x>> /\ p[1] \in s
      OBVIOUS
    <3>2. \A d \in s : g[d] = <<d, x>> /\ g[d] \in P /\ g[d][2] = x
      OBVIOUS
    <3> HIDE DEF g, s
    <3> QED BY <3>1, <3>2
  <2>3. \A d \in s : g[d] \in P
    OBVIOUS
  <2>4. \A d \in s : ones[g[d]] = 1
    BY <2>3
  <2>5. \A d, e \in s : g[d] = g[e] => d = e
    OBVIOUS
  <2> HIDE DEF s, g, ones
  <2>6. SumFunctionOnSet(ones, {g[d] : d \in s}) = SumFunctionOnSet([d \in s |-> ones[g[d]]], s)
    BY <2>1, <2>4, <2>5, SumImage
  <2>7. [d \in s |-> ones[g[d]]] = [d \in s |-> 1]
    BY <2>4
  <2>8. SumFunctionOnSet(ones, {p \in P : p[2] = x}) = Cardinality(s)
    BY <2>1, <2>2, <2>6, <2>7, CountIsSum
  <2> QED BY <2>8 DEF s
<1> HIDE DEF ofX, ofD, byFirst, bySecond
<1>6. SumFunctionOnSet(byFirst, X) = SumFunctionOnSet(ofX, X)
  BY <1>4, SumSame
<1>7. SumFunctionOnSet(bySecond, D) = SumFunctionOnSet(ofD, D)
  BY <1>5, SumSame
<1>8. SumFunctionOnSet(ofD, D) = SumFunctionOnSet(ofX, X)
  BY <1>2, <1>3, <1>6, <1>7
<1> QED BY <1>8 DEF ofX, ofD
==============================================================================
