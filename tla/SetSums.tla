------------------------------ MODULE SetSums -------------------------------
(***************************************************************************)
(* Facts about SumFunctionOnSet, the sum of a function's values over a     *)
(* finite set, in which the collections and the properties of Analytics    *)
(* and Reports are counted.                                                *)
(***************************************************************************)
EXTENDS Functions, FiniteSetTheorems, WellFoundedInduction, TLAPS

\* Of a nonempty family of subsets of a finite set one is minimal: the form in
\* which induction over finite sets is used below, on the sets that are bad.
LEMMA MinimalSubset ==
  ASSUME NEW S, IsFiniteSet(S), NEW Bad \in SUBSET SUBSET S, Bad # {}
  PROVE  \E T \in Bad : \A U \in Bad : U \subseteq T => U = T
<1>1. IsWellFoundedOn(StrictSubsetOrdering(S), SUBSET S)
  BY FS_FiniteSubsetsOfFinite, FS_StrictSubsetOrderingWellFounded
<1>2. PICK T \in Bad : \A U \in Bad : <<U, T>> \notin StrictSubsetOrdering(S)
  BY <1>1, WFMin
<1>3. \A U \in Bad : U \subseteq T => U = T
  BY <1>2 DEF StrictSubsetOrdering
<1> QED BY <1>3

\* A function takes finitely many values on a finite set.
LEMMA FiniteImage ==
  ASSUME NEW S, IsFiniteSet(S), NEW f
  PROVE  IsFiniteSet({f[x] : x \in S})
<1> DEFINE T == {f[x] : x \in S}
           g == [x \in S |-> f[x]]
<1>1. g \in Surjection(S, T)
  BY DEF Surjection
<1> HIDE DEF g, T
<1>2. IsFiniteSet(T)
  BY <1>1, FS_Surjection
<1> QED BY <1>2 DEF T

\* g holds the sum of f over every subset of S, element by element.
SumsOver(f, S, g) ==
  g = [s \in SUBSET S |->
         IF s = {} THEN 0 ELSE LET x == CHOOSE y \in s : TRUE IN f[x] + g[s \ {x}]]

\* Two such tables agree where both have an entry.
LEMMA SumsAgree ==
  ASSUME NEW f, NEW S, IsFiniteSet(S), NEW g, SumsOver(f, S, g),
         NEW R, NEW h, SumsOver(f, R, h), NEW T \in SUBSET S, T \in SUBSET R
  PROVE  g[T] = h[T]
<1> DEFINE Bad == {U \in SUBSET T : g[U] # h[U]}
<1> SUFFICES ASSUME Bad # {} PROVE FALSE
  OBVIOUS
<1>1. IsFiniteSet(T) /\ Bad \in SUBSET SUBSET T
  BY FS_Subset
<1>2. PICK U \in Bad : \A V \in Bad : V \subseteq U => V = U
  <2> HIDE DEF Bad
  <2> QED BY <1>1, MinimalSubset
<1>3. U \in SUBSET S /\ U \in SUBSET R
  OBVIOUS
<1>4. U # {}
  BY <1>3 DEF SumsOver
<1> DEFINE x == CHOOSE y \in U : TRUE
<1>5. x \in U
  BY <1>4
<1>6. g[U] = f[x] + g[U \ {x}] /\ h[U] = f[x] + h[U \ {x}]
  BY <1>3, <1>4 DEF SumsOver
<1>7. g[U \ {x}] = h[U \ {x}]
  BY <1>2, <1>5
<1> QED BY <1>6, <1>7

\* The table of f over S.
Table(f, S) == CHOOSE g : SumsOver(f, S, g)

\* One entry of a table, from the tables of the smaller sets.
Entry(f, S) ==
  IF S = {} THEN 0
  ELSE LET x == CHOOSE y \in S : TRUE IN f[x] + Table(f, S \ {x})[S \ {x}]

\* Where a table exists, its entries are those of the smaller tables.
LEMMA EntryOfTable ==
  ASSUME NEW f, NEW S, IsFiniteSet(S), SumsOver(f, S, Table(f, S)),
         \A T \in SUBSET S : T # S => SumsOver(f, T, Table(f, T))
  PROVE  Table(f, S)[S] = Entry(f, S)
<1>1. CASE S = {}
  BY <1>1 DEF SumsOver, Entry
<1>2. CASE S # {}
  <2> DEFINE x == CHOOSE y \in S : TRUE
             W == S \ {x}
  <2>1. x \in S
    BY <1>2
  <2>2. W \in SUBSET S /\ W \in SUBSET W /\ W # S
    BY <2>1
  <2>3. Table(f, S)[S] = f[x] + Table(f, S)[W]
    BY <1>2 DEF SumsOver
  <2>4. SumsOver(f, W, Table(f, W))
    BY <2>2
  <2>5. Table(f, S)[W] = Table(f, W)[W]
    BY <2>2, <2>4, SumsAgree
  <2> QED BY <1>2, <2>3, <2>5 DEF Entry
<1> QED BY <1>1, <1>2

\* A table exists for every finite set: the smallest set without one would get
\* one from the tables of its subsets.
LEMMA TableExists ==
  ASSUME NEW f, NEW S, IsFiniteSet(S)
  PROVE  SumsOver(f, S, Table(f, S))
<1> DEFINE Bad == {U \in SUBSET S : ~ SumsOver(f, U, Table(f, U))}
<1> SUFFICES ASSUME Bad # {} PROVE FALSE
  OBVIOUS
<1>1. PICK U \in Bad : \A V \in Bad : V \subseteq U => V = U
  <2>1. Bad \in SUBSET SUBSET S
    OBVIOUS
  <2> HIDE DEF Bad
  <2> QED BY <2>1, MinimalSubset
<1>2. \A V \in SUBSET U : V # U => SumsOver(f, V, Table(f, V))
  BY <1>1
<1> DEFINE g == [V \in SUBSET U |-> Entry(f, V)]
<1>3. ASSUME NEW V \in SUBSET U, V # U
      PROVE  Table(f, V)[V] = g[V]
  <2>1. \A T \in SUBSET V : T # V => SumsOver(f, T, Table(f, T))
    BY <1>2, <1>3
  <2>2. IsFiniteSet(V)
    BY FS_Subset
  <2> QED BY <1>2, <1>3, <2>1, <2>2, EntryOfTable
<1>4. ASSUME NEW V \in SUBSET U
      PROVE  g[V] = IF V = {} THEN 0
                    ELSE LET x == CHOOSE y \in V : TRUE IN f[x] + g[V \ {x}]
  <2>1. CASE V = {}
    BY <2>1 DEF Entry
  <2>2. CASE V # {}
    <3> DEFINE x == CHOOSE y \in V : TRUE
               W == V \ {x}
    <3>1. x \in V
      BY <2>2
    <3>2. W \in SUBSET U /\ W # U
      BY <3>1
    <3>3. Table(f, W)[W] = g[W]
      BY <3>2, <1>3
    <3> QED BY <3>3, <2>2 DEF Entry
  <2> QED BY <2>1, <2>2
<1>5. SumsOver(f, U, g)
  <2> HIDE DEF g
  <2>1. g = [V \in SUBSET U |-> g[V]]
    BY DEF g
  <2> QED BY <1>4, <2>1 DEF SumsOver
<1> HIDE DEF g
<1>6. SumsOver(f, U, Table(f, U))
  BY <1>5 DEF Table
<1> QED BY <1>6

\* The sum over a set is one chosen value more than the sum over the rest.
LEMMA SumStep ==
  ASSUME NEW f, NEW S, IsFiniteSet(S)
  PROVE  SumFunctionOnSet(f, S) =
           IF S = {} THEN 0
           ELSE LET x == CHOOSE y \in S : TRUE
                IN  f[x] + SumFunctionOnSet(f, S \ {x})
<1>1. \A V \in SUBSET S : SumFunctionOnSet(f, V) = Table(f, V)[V]
  BY DEF SumFunctionOnSet, FoldFunctionOnSet, MapThenFoldSet, Table, SumsOver
<1>2. \A V \in SUBSET S : SumsOver(f, V, Table(f, V))
  BY TableExists, FS_Subset
<1>3. Table(f, S)[S] = Entry(f, S)
  BY <1>2, EntryOfTable
<1> QED BY <1>1, <1>3 DEF Entry

-----------------------------------------------------------------------------
\* Counters only hold naturals: f is a count on every element of S.
Counts(f, S) == \A x \in S : f[x] \in Nat

\* Nothing adds up to nothing.
LEMMA SumEmpty ==
  ASSUME NEW f
  PROVE  SumFunctionOnSet(f, {}) = 0
BY SumStep, FS_EmptySet

\* A sum of counts is a count.
LEMMA SumNat ==
  ASSUME NEW S, IsFiniteSet(S), NEW f, Counts(f, S)
  PROVE  SumFunctionOnSet(f, S) \in Nat
<1> DEFINE Bad == {T \in SUBSET S : SumFunctionOnSet(f, T) \notin Nat}
<1> SUFFICES ASSUME Bad # {} PROVE FALSE
  OBVIOUS
<1>1. PICK T \in Bad : \A U \in Bad : U \subseteq T => U = T
  <2>1. Bad \in SUBSET SUBSET S
    OBVIOUS
  <2> HIDE DEF Bad
  <2> QED BY <2>1, MinimalSubset
<1> DEFINE x == CHOOSE y \in T : TRUE
<1>2. IsFiniteSet(T)
  BY FS_Subset
<1>3. T # {}
  <2> SUFFICES ASSUME T = {} PROVE FALSE
    OBVIOUS
  <2>1. SumFunctionOnSet(f, T) = 0
    BY SumEmpty
  <2> QED BY <2>1
<1>4. x \in T
  BY <1>3
<1>5. SumFunctionOnSet(f, T \ {x}) \in Nat
  BY <1>1, <1>4
<1>6. f[x] \in Nat
  BY <1>4 DEF Counts
<1>7. SumFunctionOnSet(f, T) = f[x] + SumFunctionOnSet(f, T \ {x})
  BY <1>2, <1>3, SumStep
<1> QED BY <1>1, <1>5, <1>6, <1>7

\* Any element may be the one that is added last.
LEMMA SumRemove ==
  ASSUME NEW S, IsFiniteSet(S), NEW f, Counts(f, S), NEW x \in S
  PROVE  SumFunctionOnSet(f, S) = f[x] + SumFunctionOnSet(f, S \ {x})
<1> DEFINE Good(T, y) == SumFunctionOnSet(f, T) = f[y] + SumFunctionOnSet(f, T \ {y})
           Bad == {T \in SUBSET S : \E y \in T : ~ Good(T, y)}
<1> SUFFICES ASSUME Bad # {} PROVE FALSE
  OBVIOUS
<1>1. PICK T \in Bad : \A U \in Bad : U \subseteq T => U = T
  <2>1. Bad \in SUBSET SUBSET S
    OBVIOUS
  <2> HIDE DEF Bad
  <2> QED BY <2>1, MinimalSubset
<1>2. PICK y \in T : ~ Good(T, y)
  OBVIOUS
<1> DEFINE z == CHOOSE u \in T : TRUE
<1>3. IsFiniteSet(T) /\ T # {} /\ z \in T
  BY FS_Subset
<1>4. Good(T, z)
  BY <1>3, SumStep
<1> HIDE DEF z
<1>5. y # z
  BY <1>2, <1>4
<1>6. Good(T \ {z}, y) /\ Good(T \ {y}, z)
  <2>1. T \ {z} \notin Bad /\ T \ {y} \notin Bad
    BY <1>1, <1>3
  <2> QED BY <2>1, <1>3, <1>5
<1> DEFINE R == (T \ {y}) \ {z}
<1>7. (T \ {z}) \ {y} = R
  OBVIOUS
<1>8. SumFunctionOnSet(f, R) \in Nat /\ f[y] \in Nat /\ f[z] \in Nat
  <2>1. IsFiniteSet(R) /\ Counts(f, R)
    BY <1>3, FS_Subset DEF Counts
  <2> QED BY <2>1, <1>3, SumNat DEF Counts
<1> HIDE DEF R
<1> QED BY <1>2, <1>4, <1>6, <1>7, <1>8 DEF R

\* The sum over one element is its value.
LEMMA SumSingle ==
  ASSUME NEW f, NEW x, f[x] \in Nat
  PROVE  SumFunctionOnSet(f, {x}) = f[x]
<1>1. IsFiniteSet({x}) /\ Counts(f, {x}) /\ {x} \ {x} = {}
  BY FS_Singleton DEF Counts
<1>2. SumFunctionOnSet(f, {x}) = f[x] + SumFunctionOnSet(f, {})
  BY <1>1, SumRemove
<1> QED BY <1>2, SumEmpty

\* What f is outside of S does not matter.
LEMMA SumSame ==
  ASSUME NEW S, IsFiniteSet(S), NEW f, NEW g, \A x \in S : f[x] = g[x]
  PROVE  SumFunctionOnSet(f, S) = SumFunctionOnSet(g, S)
<1> DEFINE Bad == {T \in SUBSET S : SumFunctionOnSet(f, T) # SumFunctionOnSet(g, T)}
<1> SUFFICES ASSUME Bad # {} PROVE FALSE
  OBVIOUS
<1>1. PICK T \in Bad : \A U \in Bad : U \subseteq T => U = T
  <2>1. Bad \in SUBSET SUBSET S
    OBVIOUS
  <2> HIDE DEF Bad
  <2> QED BY <2>1, MinimalSubset
<1> DEFINE x == CHOOSE y \in T : TRUE
<1>2. IsFiniteSet(T)
  BY FS_Subset
<1>3. T # {}
  BY <1>1, SumEmpty
<1>4. x \in T
  BY <1>3
<1>5. SumFunctionOnSet(f, T) = f[x] + SumFunctionOnSet(f, T \ {x})
  BY <1>2, <1>3, SumStep
<1>6. SumFunctionOnSet(g, T) = g[x] + SumFunctionOnSet(g, T \ {x})
  BY <1>2, <1>3, SumStep
<1>7. SumFunctionOnSet(f, T \ {x}) = SumFunctionOnSet(g, T \ {x})
  BY <1>1, <1>4
<1> QED BY <1>1, <1>4, <1>5, <1>6, <1>7

\* One more at one element is one more in the sum.
LEMMA SumBump ==
  ASSUME NEW S, IsFiniteSet(S), NEW f, NEW g, Counts(f, S),
         NEW x \in S, NEW n \in Nat, g[x] = f[x] + n,
         \A y \in S \ {x} : g[y] = f[y]
  PROVE  SumFunctionOnSet(g, S) = SumFunctionOnSet(f, S) + n
<1>1. Counts(g, S)
  BY DEF Counts
<1>2. IsFiniteSet(S \ {x}) /\ Counts(f, S \ {x})
  BY FS_Subset DEF Counts
<1>3. SumFunctionOnSet(f, S) = f[x] + SumFunctionOnSet(f, S \ {x})
  BY SumRemove
<1>4. SumFunctionOnSet(g, S) = g[x] + SumFunctionOnSet(g, S \ {x})
  BY <1>1, SumRemove
<1>5. SumFunctionOnSet(g, S \ {x}) = SumFunctionOnSet(f, S \ {x})
  BY <1>2, SumSame
<1>6. SumFunctionOnSet(f, S \ {x}) \in Nat /\ f[x] \in Nat
  BY <1>2, SumNat DEF Counts
<1> QED BY <1>3, <1>4, <1>5, <1>6

\* No summand is larger than the sum.
LEMMA SumAtLeast ==
  ASSUME NEW S, IsFiniteSet(S), NEW f, Counts(f, S), NEW x \in S
  PROVE  f[x] <= SumFunctionOnSet(f, S)
<1>1. IsFiniteSet(S \ {x}) /\ Counts(f, S \ {x})
  BY FS_Subset DEF Counts
<1>2. SumFunctionOnSet(f, S \ {x}) \in Nat /\ f[x] \in Nat
  BY <1>1, SumNat DEF Counts
<1> QED BY <1>2, SumRemove

\* A sum of zeros is zero.
LEMMA SumZero ==
  ASSUME NEW S, IsFiniteSet(S), NEW f, \A x \in S : f[x] = 0
  PROVE  SumFunctionOnSet(f, S) = 0
<1> DEFINE Bad == {T \in SUBSET S : SumFunctionOnSet(f, T) # 0}
<1> SUFFICES ASSUME Bad # {} PROVE FALSE
  OBVIOUS
<1>1. PICK T \in Bad : \A U \in Bad : U \subseteq T => U = T
  <2>1. Bad \in SUBSET SUBSET S
    OBVIOUS
  <2> HIDE DEF Bad
  <2> QED BY <2>1, MinimalSubset
<1> DEFINE x == CHOOSE y \in T : TRUE
<1>2. IsFiniteSet(T) /\ T # {}
  BY <1>1, FS_Subset, SumEmpty
<1>3. SumFunctionOnSet(f, T) = f[x] + SumFunctionOnSet(f, T \ {x})
  BY <1>2, SumStep
<1>4. x \in T /\ f[x] = 0
  BY <1>2
<1>5. SumFunctionOnSet(f, T \ {x}) = 0
  BY <1>1, <1>4
<1> QED BY <1>1, <1>3, <1>4, <1>5

\* A table that adds two others up adds up to both sums.
LEMMA SumPlus ==
  ASSUME NEW S, IsFiniteSet(S), NEW f, NEW g, NEW h, Counts(f, S), Counts(g, S),
         \A x \in S : h[x] = f[x] + g[x]
  PROVE  SumFunctionOnSet(h, S) = SumFunctionOnSet(f, S) + SumFunctionOnSet(g, S)
<1> DEFINE Bad == {T \in SUBSET S : SumFunctionOnSet(h, T)
                     # SumFunctionOnSet(f, T) + SumFunctionOnSet(g, T)}
<1> SUFFICES ASSUME Bad # {} PROVE FALSE
  OBVIOUS
<1>1. PICK T \in Bad : \A U \in Bad : U \subseteq T => U = T
  <2>1. Bad \in SUBSET SUBSET S
    OBVIOUS
  <2> HIDE DEF Bad
  <2> QED BY <2>1, MinimalSubset
<1> DEFINE x == CHOOSE y \in T : TRUE
           R == T \ {x}
<1>2. IsFiniteSet(T) /\ T # {}
  <2>1. ASSUME T = {} PROVE FALSE
    <3>1. SumFunctionOnSet(f, T) = 0 /\ SumFunctionOnSet(g, T) = 0 /\ SumFunctionOnSet(h, T) = 0
      BY <2>1, SumEmpty
    <3> QED BY <3>1
  <2> QED BY <2>1, FS_Subset
<1>3. /\ SumFunctionOnSet(f, T) = f[x] + SumFunctionOnSet(f, R)
      /\ SumFunctionOnSet(g, T) = g[x] + SumFunctionOnSet(g, R)
      /\ SumFunctionOnSet(h, T) = h[x] + SumFunctionOnSet(h, R)
  BY <1>2, SumStep
<1>4. x \in T
  BY <1>2
<1> HIDE DEF x
<1>5. SumFunctionOnSet(h, R) = SumFunctionOnSet(f, R) + SumFunctionOnSet(g, R)
  BY <1>1, <1>4
<1>6. SumFunctionOnSet(f, R) \in Nat /\ SumFunctionOnSet(g, R) \in Nat
  <2>1. IsFiniteSet(R) /\ Counts(f, R) /\ Counts(g, R)
    BY <1>2, FS_Subset DEF Counts
  <2> QED BY <2>1, SumNat
<1>7. f[x] \in Nat /\ g[x] \in Nat /\ h[x] = f[x] + g[x]
  BY <1>4 DEF Counts
<1> HIDE DEF R
<1> QED BY <1>1, <1>3, <1>5, <1>6, <1>7

\* A larger table has a larger sum.
LEMMA SumMonotone ==
  ASSUME NEW S, IsFiniteSet(S), NEW f, NEW g, Counts(f, S), Counts(g, S),
         \A x \in S : f[x] <= g[x]
  PROVE  SumFunctionOnSet(f, S) <= SumFunctionOnSet(g, S)
<1> DEFINE rest == [x \in S |-> g[x] - f[x]]
<1>1. Counts(rest, S) /\ \A x \in S : g[x] = f[x] + rest[x]
  BY DEF Counts
<1> HIDE DEF rest
<1>2. SumFunctionOnSet(g, S) = SumFunctionOnSet(f, S) + SumFunctionOnSet(rest, S)
  BY <1>1, SumPlus
<1>3. SumFunctionOnSet(f, S) \in Nat /\ SumFunctionOnSet(rest, S) \in Nat
  BY <1>1, SumNat
<1> QED BY <1>2, <1>3

\* A sum over two sets that share nothing is the sum of their sums.
LEMMA SumDisjoint ==
  ASSUME NEW S, IsFiniteSet(S), NEW f, Counts(f, S),
         NEW A \in SUBSET S, NEW B \in SUBSET S, A \cup B = S, A \cap B = {}
  PROVE  SumFunctionOnSet(f, S) = SumFunctionOnSet(f, A) + SumFunctionOnSet(f, B)
<1> DEFINE Bad == {T \in SUBSET A : SumFunctionOnSet(f, T \cup B)
                     # SumFunctionOnSet(f, T) + SumFunctionOnSet(f, B)}
<1> SUFFICES ASSUME Bad # {} PROVE FALSE
  OBVIOUS
<1>0. IsFiniteSet(A) /\ IsFiniteSet(B) /\ Counts(f, A) /\ Counts(f, B)
  BY FS_Subset DEF Counts
<1>1. PICK T \in Bad : \A U \in Bad : U \subseteq T => U = T
  <2>1. Bad \in SUBSET SUBSET A
    OBVIOUS
  <2> HIDE DEF Bad
  <2> QED BY <1>0, <2>1, MinimalSubset
<1>2. IsFiniteSet(T) /\ IsFiniteSet(T \cup B) /\ Counts(f, T) /\ Counts(f, T \cup B)
  BY FS_Subset DEF Counts
<1>3. SumFunctionOnSet(f, B) \in Nat
  BY <1>0, SumNat
<1>4. T # {}
  <2> SUFFICES ASSUME T = {} PROVE FALSE
    OBVIOUS
  <2>1. SumFunctionOnSet(f, T) = 0 /\ T \cup B = B
    BY SumEmpty
  <2> QED BY <2>1, <1>3
<1>5. PICK x \in T : TRUE
  BY <1>4
<1>6. SumFunctionOnSet(f, T) = f[x] + SumFunctionOnSet(f, T \ {x})
  BY <1>2, SumRemove
<1>7. SumFunctionOnSet(f, T \cup B) = f[x] + SumFunctionOnSet(f, (T \cup B) \ {x})
  BY <1>2, SumRemove
<1>8. (T \cup B) \ {x} = (T \ {x}) \cup B
  OBVIOUS
<1>9. SumFunctionOnSet(f, (T \ {x}) \cup B)
        = SumFunctionOnSet(f, T \ {x}) + SumFunctionOnSet(f, B)
  BY <1>1, <1>5
<1>10. SumFunctionOnSet(f, T \ {x}) \in Nat /\ f[x] \in Nat
  <2>1. IsFiniteSet(T \ {x}) /\ Counts(f, T \ {x})
    BY <1>2, FS_Subset DEF Counts
  <2> QED BY <2>1, <1>2, SumNat DEF Counts
<1>11. SumFunctionOnSet(f, T \cup B) # SumFunctionOnSet(f, T) + SumFunctionOnSet(f, B)
  BY <1>1
<1> QED BY <1>3, <1>6, <1>7, <1>8, <1>9, <1>10, <1>11

\* Where f is zero need not be summed.
LEMMA SumSupport ==
  ASSUME NEW S, IsFiniteSet(S), NEW f, Counts(f, S), NEW T \in SUBSET S,
         \A x \in S \ T : f[x] = 0
  PROVE  SumFunctionOnSet(f, S) = SumFunctionOnSet(f, T)
<1>1. SumFunctionOnSet(f, S) = SumFunctionOnSet(f, T) + SumFunctionOnSet(f, S \ T)
  BY SumDisjoint
<1>2. IsFiniteSet(S \ T) /\ IsFiniteSet(T) /\ Counts(f, T)
  BY FS_Subset DEF Counts
<1>3. SumFunctionOnSet(f, S \ T) = 0 /\ SumFunctionOnSet(f, T) \in Nat
  BY <1>2, SumZero, SumNat
<1> QED BY <1>1, <1>3

\* A positive sum has a positive summand.
LEMMA SumPositive ==
  ASSUME NEW S, IsFiniteSet(S), NEW f, Counts(f, S), SumFunctionOnSet(f, S) > 0
  PROVE  \E x \in S : f[x] > 0
<1> SUFFICES ASSUME \A x \in S : ~ (f[x] > 0) PROVE FALSE
  OBVIOUS
<1>1. \A x \in S : f[x] = 0
  BY DEF Counts
<1> QED BY <1>1, SumZero

\* The elements of S under key k.
Under(key, S, k) == {x \in S : key[x] = k}

\* Summing by key: the values of S, gathered under their keys, add up to their sum.
LEMMA SumByKey ==
  ASSUME NEW S, IsFiniteSet(S), NEW f, Counts(f, S),
         NEW K, IsFiniteSet(K), NEW key, \A x \in S : key[x] \in K,
         NEW g, \A k \in K : g[k] = SumFunctionOnSet(f, Under(key, S, k))
  PROVE  SumFunctionOnSet(g, K) = SumFunctionOnSet(f, S)
<1> DEFINE Into(J) == {x \in S : key[x] \in J}
           Bad == {J \in SUBSET K : SumFunctionOnSet(g, J) # SumFunctionOnSet(f, Into(J))}
<1>0. Into(K) = S
  OBVIOUS
<1>9. \A i \in K : g[i] = SumFunctionOnSet(f, {x \in S : key[x] = i})
  BY DEF Under
<1> SUFFICES ASSUME Bad # {} PROVE FALSE
  BY <1>0
<1>1. PICK J \in Bad : \A I \in Bad : I \subseteq J => I = J
  <2>1. Bad \in SUBSET SUBSET K
    OBVIOUS
  <2> HIDE DEF Bad
  <2> QED BY <2>1, MinimalSubset
<1>2. J # {}
  <2>1. ASSUME J = {} PROVE Into(J) = {}
    BY <2>1
  <2> HIDE DEF Into
  <2> QED BY <2>1, <1>1, SumEmpty
<1>3. PICK k \in J : TRUE
  BY <1>2
<1>4. IsFiniteSet(J) /\ Counts(g, J) /\ IsFiniteSet(Into(J)) /\ Counts(f, Into(J))
  <2>1. \A i \in K : {x \in S : key[x] = i} \in SUBSET S
    OBVIOUS
  <2>2. \A i \in K : IsFiniteSet({x \in S : key[x] = i}) /\ Counts(f, {x \in S : key[x] = i})
    BY <2>1, FS_Subset DEF Counts
  <2>3. \A i \in K : SumFunctionOnSet(f, {x \in S : key[x] = i}) \in Nat
    BY <2>2, SumNat
  <2>4. Counts(g, K)
    BY <1>9, <2>3 DEF Counts
  <2> QED BY <2>4, FS_Subset DEF Counts
<1> DEFINE I == J \ {k}
           Here == {x \in S : key[x] = k}
<1>5. SumFunctionOnSet(g, J) = g[k] + SumFunctionOnSet(g, I)
  BY <1>4, SumRemove
<1>6. SumFunctionOnSet(f, Into(J)) = SumFunctionOnSet(f, Here) + SumFunctionOnSet(f, Into(I))
  <2>1. Here \in SUBSET Into(J) /\ Into(I) \in SUBSET Into(J)
        /\ Here \cup Into(I) = Into(J) /\ Here \cap Into(I) = {}
    OBVIOUS
  <2> HIDE DEF Here, Into, I
  <2> QED BY <2>1, <1>4, SumDisjoint
<1>7. SumFunctionOnSet(g, I) = SumFunctionOnSet(f, Into(I))
  BY <1>1, <1>3
<1> QED BY <1>1, <1>3, <1>5, <1>6, <1>7, <1>9

\* Multiplying every value multiplies the sum.
LEMMA SumTimes ==
  ASSUME NEW S, IsFiniteSet(S), NEW f, NEW g, Counts(f, S),
         NEW m \in Nat, \A x \in S : g[x] = m * f[x]
  PROVE  SumFunctionOnSet(g, S) = m * SumFunctionOnSet(f, S)
<1> DEFINE Bad == {T \in SUBSET S : SumFunctionOnSet(g, T) # m * SumFunctionOnSet(f, T)}
<1> SUFFICES ASSUME Bad # {} PROVE FALSE
  OBVIOUS
<1>1. PICK T \in Bad : \A U \in Bad : U \subseteq T => U = T
  <2>1. Bad \in SUBSET SUBSET S
    OBVIOUS
  <2> HIDE DEF Bad
  <2> QED BY <2>1, MinimalSubset
<1>2. T # {}
  <2> SUFFICES ASSUME T = {} PROVE FALSE
    OBVIOUS
  <2>1. SumFunctionOnSet(f, T) = 0 /\ SumFunctionOnSet(g, T) = 0
    BY SumEmpty
  <2> QED BY <2>1
<1> DEFINE x == CHOOSE y \in T : TRUE
           R == T \ {x}
<1>3. IsFiniteSet(T) /\ x \in T
  BY <1>2, FS_Subset
<1>4. /\ SumFunctionOnSet(f, T) = f[x] + SumFunctionOnSet(f, R)
      /\ SumFunctionOnSet(g, T) = g[x] + SumFunctionOnSet(g, R)
  BY <1>2, <1>3, SumStep
<1> HIDE DEF x
<1>5. SumFunctionOnSet(g, R) = m * SumFunctionOnSet(f, R)
  BY <1>1, <1>3
<1>6. SumFunctionOnSet(f, R) \in Nat
  <2>1. IsFiniteSet(R) /\ Counts(f, R)
    BY <1>3, FS_Subset DEF Counts
  <2> QED BY <2>1, SumNat
<1>7. f[x] \in Nat /\ g[x] = m * f[x]
  BY <1>3 DEF Counts
<1>8. \A a, b \in Nat : m * (a + b) = m * a + m * b
  OBVIOUS
<1>9. SumFunctionOnSet(g, T) = m * SumFunctionOnSet(f, T)
  BY <1>4, <1>5, <1>6, <1>7, <1>8
<1> QED BY <1>1, <1>9

\* Division rounds down.
LEMMA DivideDown ==
  ASSUME NEW m \in Nat, NEW n \in Nat, n > 0
  PROVE  m \div n \in Nat /\ (m \div n) * n <= m /\ m < (m \div n + 1) * n
OBVIOUS

\* A product grows with its factor.
LEMMA TimesMonotone ==
  ASSUME NEW m \in Nat, NEW n \in Nat, NEW k \in Nat, m <= n
  PROVE  m * k \in Nat /\ m * k <= n * k
<1> DEFINE r == n - m
<1>1. r \in Nat /\ n = m + r
  OBVIOUS
<1> HIDE DEF r
<1>2. r * k \in Nat /\ m * k \in Nat /\ (m + r) * k = m * k + r * k
  BY <1>1
<1> QED BY <1>1, <1>2

\* A weighted average, rounded down, lies between two of the values it averages.
LEMMA AverageBetween ==
  ASSUME NEW S, IsFiniteSet(S), NEW w, NEW a, NEW p, Counts(w, S), Counts(a, S),
         \A x \in S : p[x] = a[x] * w[x], SumFunctionOnSet(w, S) > 0
  PROVE  /\ \E x \in S : a[x] <= SumFunctionOnSet(p, S) \div SumFunctionOnSet(w, S)
         /\ \E y \in S : SumFunctionOnSet(p, S) \div SumFunctionOnSet(w, S) <= a[y]
<1> DEFINE W == SumFunctionOnSet(w, S)
           P == SumFunctionOnSet(p, S)
           q == P \div W
<1>1. \A x \in S : a[x] \in Nat /\ w[x] \in Nat /\ p[x] = a[x] * w[x]
  BY DEF Counts
<1>2. Counts(p, S)
  <2>1. \A m, n \in Nat : m * n \in Nat
    OBVIOUS
  <2> QED BY <1>1, <2>1 DEF Counts
<1>3. W \in Nat /\ W > 0 /\ P \in Nat
  BY <1>2, SumNat
<1>4. q \in Nat /\ q * W <= P /\ P < (q + 1) * W
  <2> HIDE DEF W, P
  <2> QED BY <1>3, DivideDown
<1> HIDE DEF q
<1>5. ASSUME NEW m \in Nat
      PROVE  LET g == [x \in S |-> m * w[x]]
             IN  Counts(g, S) /\ SumFunctionOnSet(g, S) = m * W
  <2> DEFINE g == [x \in S |-> m * w[x]]
  <2>1. \A x \in S : g[x] = m * w[x]
    OBVIOUS
  <2>2. \A x \in S : g[x] \in Nat
    <3>1. \A n \in Nat : m * n \in Nat
      OBVIOUS
    <3> QED BY <1>1, <3>1
  <2> HIDE DEF g
  <2>3. Counts(g, S) /\ SumFunctionOnSet(g, S) = m * W
    BY <2>1, <2>2, SumTimes DEF Counts
  <2> QED BY <2>3 DEF g
<1>6. \E x \in S : a[x] <= q
  <2> SUFFICES ASSUME \A x \in S : ~ (a[x] <= q) PROVE FALSE
    OBVIOUS
  <2> DEFINE g == [x \in S |-> (q + 1) * w[x]]
  <2>1. Counts(g, S) /\ SumFunctionOnSet(g, S) = (q + 1) * W
    BY <1>4, <1>5
  <2>2. ASSUME NEW x \in S PROVE g[x] <= p[x]
    <3>1. q + 1 \in Nat /\ a[x] \in Nat /\ w[x] \in Nat /\ q + 1 <= a[x]
      BY <1>1, <1>4
    <3>2. (q + 1) * w[x] <= a[x] * w[x]
      BY <3>1, TimesMonotone
    <3> QED BY <1>1, <3>2
  <2> HIDE DEF g
  <2>3. SumFunctionOnSet(g, S) <= P
    BY <1>2, <2>1, <2>2, SumMonotone
  <2>4. (q + 1) * W <= P
    BY <2>1, <2>3
  <2> HIDE DEF W, P
  <2>5. (q + 1) * W \in Nat
    BY <1>3, <1>4
  <2> QED BY <1>3, <1>4, <2>4, <2>5
<1>7. \E y \in S : q <= a[y]
  <2> SUFFICES ASSUME \A y \in S : ~ (q <= a[y]) PROVE FALSE
    OBVIOUS
  <2>1. q - 1 \in Nat
    <3>1. S # {}
      BY <1>3, SumEmpty
    <3>2. PICK y \in S : ~ (q <= a[y])
      BY <3>1
    <3> QED BY <1>1, <1>4, <3>2
  <2> DEFINE g == [x \in S |-> (q - 1) * w[x]]
  <2>2. Counts(g, S) /\ SumFunctionOnSet(g, S) = (q - 1) * W
    BY <1>5, <2>1
  <2>3. ASSUME NEW x \in S PROVE p[x] <= g[x]
    <3>1. a[x] \in Nat /\ w[x] \in Nat /\ a[x] <= q - 1
      BY <1>1, <1>4
    <3>2. a[x] * w[x] <= (q - 1) * w[x]
      BY <2>1, <3>1, TimesMonotone
    <3> QED BY <1>1, <3>2
  <2> HIDE DEF g
  <2>4. P <= SumFunctionOnSet(g, S)
    BY <1>2, <2>2, <2>3, SumMonotone
  <2>5. P <= (q - 1) * W
    BY <2>2, <2>4
  <2> HIDE DEF W, P
  <2>6. (q - 1) * W = q * W - W /\ q * W \in Nat
    BY <1>3, <1>4
  <2> QED BY <1>3, <1>4, <2>5, <2>6
<1> QED BY <1>6, <1>7 DEF q
====
