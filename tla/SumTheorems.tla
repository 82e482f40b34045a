----------------------------- MODULE SumTheorems -----------------------------
(***************************************************************************)
(* What SumFunctionOnSet of the community modules computes on a finite     *)
(* set.  It is a recursive function over the subsets of the set; the       *)
(* induction it needs is the well-foundedness of strict inclusion, applied *)
(* to the set of the subsets a claim fails on.                             *)
(***************************************************************************)
EXTENDS Integers, Functions, FiniteSetTheorems, TLAPS

Chosen(s) == CHOOSE x \in s : TRUE

\* g satisfies the recursive equation of the sum of w on the subsets of S.
Sums(g, w, S) ==
    g = [s \in SUBSET S |-> IF s = {} THEN 0 ELSE w[Chosen(s)] + g[s \ {Chosen(s)}]]

\* What holds of a subset whenever it holds of its strict subsets holds of S.
LEMMA SubsetInduction ==
    ASSUME NEW S, IsFiniteSet(S), NEW T,
           \A s \in SUBSET S : (\A t \in SUBSET s : t # s => t \in T) => s \in T
    PROVE  S \in T
<1> DEFINE Bad == {s \in SUBSET S : s \notin T}
<1>1. SUFFICES ASSUME S \notin T PROVE FALSE
  OBVIOUS
<1>2. IsWellFoundedOn(StrictSubsetOrdering(S), SUBSET S)
  BY FS_StrictSubsetOrderingWellFounded, FS_FiniteSubsetsOfFinite
<1>3. Bad \subseteq SUBSET S /\ Bad # {}
  BY <1>1
<1>4. PICK s \in Bad : \A t \in Bad : <<t, s>> \notin StrictSubsetOrdering(S)
  <2> HIDE DEF Bad
  <2> QED
    BY <1>2, <1>3, WFMin
<1>5. ASSUME NEW t \in SUBSET s, t # s PROVE t \in T
  <2>1. <<t, s>> \in StrictSubsetOrdering(S) /\ t \in SUBSET S
    BY <1>5 DEF StrictSubsetOrdering
  <2> QED
    BY <1>4, <2>1
<1> QED
  BY <1>4, <1>5

\* The element the recursion takes out first is one of the set.
LEMMA ChosenIn == ASSUME NEW s, s # {} PROVE Chosen(s) \in s
  BY DEF Chosen

\* The equation at one subset.
LEMMA SumsAt ==
    ASSUME NEW g, NEW w, NEW S, Sums(g, w, S), NEW s \in SUBSET S
    PROVE  g[s] = IF s = {} THEN 0 ELSE w[Chosen(s)] + g[s \ {Chosen(s)}]
<1> DEFINE f == [t \in SUBSET S |-> IF t = {} THEN 0 ELSE w[Chosen(t)] + g[t \ {Chosen(t)}]]
<1>1. g = f
  BY Zenon DEF Sums
<1>2. f[s] = IF s = {} THEN 0 ELSE w[Chosen(s)] + g[s \ {Chosen(s)}]
  BY Zenon
<1> QED
  BY <1>1, <1>2, Zenon

\* The equation determines the value on a finite set.
LEMMA SumsUnique ==
    ASSUME NEW S, IsFiniteSet(S), NEW w, NEW g, NEW h, Sums(g, w, S), Sums(h, w, S)
    PROVE  g[S] = h[S]
<1> DEFINE T == {s \in SUBSET S : g[s] = h[s]}
<1>1. ASSUME NEW s \in SUBSET S, \A t \in SUBSET s : t # s => t \in T
      PROVE  s \in T
  <2>1. CASE s = {}
    BY <2>1, SumsAt
  <2>2. CASE s # {}
    <3>1. Chosen(s) \in s
      BY <2>2, ChosenIn
    <3>2. s \ {Chosen(s)} \in T
      BY <1>1, <3>1
    <3>3. g[s] = w[Chosen(s)] + g[s \ {Chosen(s)}] /\ h[s] = w[Chosen(s)] + h[s \ {Chosen(s)}]
      BY <2>2, SumsAt
    <3> QED
      BY <3>2, <3>3
  <2> QED
    BY <2>1, <2>2
<1>2. S \in T
  <2> HIDE DEF T
  <2> QED
    BY <1>1, SubsetInduction
<1> QED
  BY <1>2

\* The library's sum is a solution of the equation, as soon as there is one.
LEMMA SumSolves ==
    ASSUME NEW w, NEW S, \E g : Sums(g, w, S)
    PROVE  \E g : Sums(g, w, S) /\ SumFunctionOnSet(w, S) = g[S]
<1> DEFINE sum == CHOOSE g : Sums(g, w, S)
<1>1. Sums(sum, w, S)
  BY Zenon
<1>2. SumFunctionOnSet(w, S) = sum[S]
  BY Zenon DEF Sums, Chosen, SumFunctionOnSet, FoldFunctionOnSet, MapThenFoldSet
<1> QED
  BY <1>1, <1>2, Zenon

\* The sum over no element.
LEMMA SumEmpty == ASSUME NEW w PROVE SumFunctionOnSet(w, {}) = 0
<1> DEFINE g == [s \in SUBSET {} |-> 0]
<1>1. Sums(g, w, {})
  <2>1. \A s \in SUBSET {} : s = {}
    OBVIOUS
  <2> QED
    BY <2>1 DEF Sums
<1>2. PICK h : Sums(h, w, {}) /\ SumFunctionOnSet(w, {}) = h[{}]
  BY <1>1, SumSolves, Zenon
<1> QED
  BY <1>2, SumsAt

\* The library's sum satisfies its recursive equation on finite sets.
LEMMA SumDef ==
    ASSUME NEW w, NEW S, IsFiniteSet(S), S # {}
    PROVE  SumFunctionOnSet(w, S) = w[Chosen(S)] + SumFunctionOnSet(w, S \ {Chosen(S)})
<1> DEFINE F(s) == SumFunctionOnSet(w, s)
           Holds(s) == s # {} => F(s) = w[Chosen(s)] + F(s \ {Chosen(s)})
           T == {s \in SUBSET S : Holds(s)}
<1>1. ASSUME NEW s \in SUBSET S, \A t \in SUBSET s : t # s => t \in T, s # {}
      PROVE  F(s) = w[Chosen(s)] + F(s \ {Chosen(s)})
  <2> DEFINE g == [t \in SUBSET s |-> IF t = {} THEN 0 ELSE w[Chosen(t)] + F(t \ {Chosen(t)})]
  <2>1. ASSUME NEW t \in SUBSET s, t # s PROVE g[t] = F(t)
    <3>1. t \in T
      BY <1>1, <2>1
    <3>2. CASE t = {}
      BY <3>2, SumEmpty
    <3>3. CASE t # {}
      <4>1. F(t) = w[Chosen(t)] + F(t \ {Chosen(t)})
        BY <3>1, <3>3
      <4> HIDE DEF F
      <4> QED
        BY <3>3, <4>1
    <3> QED
      BY <3>2, <3>3
  <2>2. ASSUME NEW t \in SUBSET s, t # {} PROVE g[t] = w[Chosen(t)] + g[t \ {Chosen(t)}]
    <3>1. Chosen(t) \in t
      BY <2>2, ChosenIn
    <3>2. g[t \ {Chosen(t)}] = F(t \ {Chosen(t)})
      <4> HIDE DEF g, F
      <4> QED
        BY <2>1, <3>1
    <3> HIDE DEF F
    <3> QED
      BY <2>2, <3>2
  <2>3. Sums(g, w, s)
    <3>1. g[{}] = 0 /\ DOMAIN g = SUBSET s
      OBVIOUS
    <3>2. g = [t \in SUBSET s |-> g[t]]
      OBVIOUS
    <3> HIDE DEF g
    <3> QED
      BY <2>2, <3>1, <3>2 DEF Sums
  <2>4. PICK h : Sums(h, w, s) /\ F(s) = h[s]
    <3> HIDE DEF g
    <3> QED
      BY <2>3, SumSolves, Zenon
  <2>5. IsFiniteSet(s)
    BY FS_Subset
  <2>6. g[s] = h[s]
    <3> HIDE DEF g, F
    <3> QED
      BY <2>3, <2>4, <2>5, SumsUnique
  <2> HIDE DEF F
  <2> QED
    BY <1>1, <2>4, <2>6
<1>2. ASSUME NEW s \in SUBSET S, \A t \in SUBSET s : t # s => t \in T
      PROVE  s \in T
  BY <1>1, <1>2
<1>3. S \in T
  <2> HIDE DEF T
  <2> QED
    BY <1>2, SubsetInduction
<1> QED
  BY <1>3

-------------------------------------------------------------------------------
(***************************************************************************)
(* Sums over finite sets                                                   *)
(***************************************************************************)

\* A finite sum of integers is an integer.
LEMMA SumType ==
    ASSUME NEW S, IsFiniteSet(S), NEW w, \A x \in S : w[x] \in Int
    PROVE  SumFunctionOnSet(w, S) \in Int
<1> DEFINE T == {s \in SUBSET S : SumFunctionOnSet(w, s) \in Int}
<1>1. ASSUME NEW s \in SUBSET S, \A t \in SUBSET s : t # s => t \in T
      PROVE  s \in T
  <2>1. CASE s = {}
    BY <2>1, SumEmpty
  <2>2. CASE s # {}
    <3>1. Chosen(s) \in s /\ IsFiniteSet(s)
      BY <2>2, ChosenIn, FS_Subset
    <3>2. s \ {Chosen(s)} \in T
      BY <1>1, <3>1
    <3>3. SumFunctionOnSet(w, s) = w[Chosen(s)] + SumFunctionOnSet(w, s \ {Chosen(s)})
      BY <2>2, <3>1, SumDef
    <3> QED
      BY <3>1, <3>2, <3>3
  <2> QED
    BY <2>1, <2>2
<1>2. S \in T
  <2> HIDE DEF T
  <2> QED
    BY <1>1, SubsetInduction
<1> QED
  BY <1>2

\* The elements of a finite set may be added in any order.
LEMMA SumRemove ==
    ASSUME NEW S, IsFiniteSet(S), NEW w, \A x \in S : w[x] \in Int, NEW x \in S
    PROVE  SumFunctionOnSet(w, S) = w[x] + SumFunctionOnSet(w, S \ {x})
<1> DEFINE F(s) == SumFunctionOnSet(w, s)
           T == {s \in SUBSET S : \A y \in s : F(s) = w[y] + F(s \ {y})}
<1>1. ASSUME NEW s \in SUBSET S, \A t \in SUBSET s : t # s => t \in T, NEW y \in s
      PROVE  F(s) = w[y] + F(s \ {y})
  <2> DEFINE c == Chosen(s)
  <2>1. c \in s /\ IsFiniteSet(s)
    BY ChosenIn, FS_Subset
  <2>2. F(s) = w[c] + F(s \ {c})
    BY <2>1, SumDef
  <2>3. CASE y = c
    BY <2>2, <2>3
  <2>4. CASE y # c
    <3>1. s \ {c} \in T /\ s \ {y} \in T /\ y \in s \ {c} /\ c \in s \ {y}
      BY <1>1, <2>1, <2>4
    <3>2. F(s \ {c}) = w[y] + F((s \ {c}) \ {y}) /\ F(s \ {y}) = w[c] + F((s \ {y}) \ {c})
      BY <3>1
    <3>3. (s \ {c}) \ {y} = (s \ {y}) \ {c}
      OBVIOUS
    <3>4. IsFiniteSet((s \ {c}) \ {y}) /\ \A z \in (s \ {c}) \ {y} : w[z] \in Int
      BY <2>1, FS_Subset
    <3>5. F((s \ {c}) \ {y}) \in Int /\ w[c] \in Int /\ w[y] \in Int
      BY <2>1, <3>4, SumType
    <3>6. F(s) = w[c] + (w[y] + F((s \ {c}) \ {y}))
      BY <2>2, <3>2
    <3>7. F(s \ {y}) = w[c] + F((s \ {c}) \ {y})
      BY <3>2, <3>3
    <3> QED
      BY <3>5, <3>6, <3>7
  <2> QED
    BY <2>3, <2>4
<1>2. ASSUME NEW s \in SUBSET S, \A t \in SUBSET s : t # s => t \in T
      PROVE  s \in T
  BY <1>1, <1>2
<1>3. S \in T
  <2> HIDE DEF T
  <2> QED
    BY <1>2, SubsetInduction
<1> QED
  BY <1>3

\* One element is added to the set.
LEMMA SumAdd ==
    ASSUME NEW S, IsFiniteSet(S), NEW w, NEW x, x \notin S, \A y \in S \cup {x} : w[y] \in Int
    PROVE  /\ IsFiniteSet(S \cup {x})
           /\ SumFunctionOnSet(w, S \cup {x}) = w[x] + SumFunctionOnSet(w, S)
<1>1. (S \cup {x}) \ {x} = S /\ IsFiniteSet(S \cup {x})
  BY FS_AddElement
<1> QED
  BY <1>1, SumRemove

\* The sum only depends on the values on the set.
LEMMA SumSame ==
    ASSUME NEW S, IsFiniteSet(S), NEW w, NEW v, \A x \in S : w[x] = v[x]
    PROVE  SumFunctionOnSet(w, S) = SumFunctionOnSet(v, S)
<1> DEFINE T == {s \in SUBSET S : SumFunctionOnSet(w, s) = SumFunctionOnSet(v, s)}
<1>1. ASSUME NEW s \in SUBSET S, \A t \in SUBSET s : t # s => t \in T
      PROVE  s \in T
  <2>1. CASE s = {}
    BY <2>1, SumEmpty
  <2>2. CASE s # {}
    <3>1. Chosen(s) \in s /\ IsFiniteSet(s)
      BY <2>2, ChosenIn, FS_Subset
    <3>2. s \ {Chosen(s)} \in T
      BY <1>1, <3>1
    <3>3. /\ SumFunctionOnSet(w, s) = w[Chosen(s)] + SumFunctionOnSet(w, s \ {Chosen(s)})
          /\ SumFunctionOnSet(v, s) = v[Chosen(s)] + SumFunctionOnSet(v, s \ {Chosen(s)})
      BY <2>2, <3>1, SumDef
    <3> QED
      BY <3>1, <3>2, <3>3
  <2> QED
    BY <2>1, <2>2
<1>2. S \in T
  <2> HIDE DEF T
  <2> QED
    BY <1>1, SubsetInduction
<1> QED
  BY <1>2

\* A sum of larger values is larger.
LEMMA SumMonotone ==
    ASSUME NEW S, IsFiniteSet(S), NEW w, NEW v,
           \A x \in S : w[x] \in Int /\ v[x] \in Int /\ w[x] <= v[x]
    PROVE  SumFunctionOnSet(w, S) <= SumFunctionOnSet(v, S)
<1> DEFINE T == {s \in SUBSET S : SumFunctionOnSet(w, s) <= SumFunctionOnSet(v, s)}
<1>1. ASSUME NEW s \in SUBSET S, \A t \in SUBSET s : t # s => t \in T
      PROVE  s \in T
  <2>1. CASE s = {}
    BY <2>1, SumEmpty
  <2>2. CASE s # {}
    <3> DEFINE t == s \ {Chosen(s)}
    <3>1. Chosen(s) \in s /\ IsFiniteSet(s) /\ IsFiniteSet(t)
      BY <2>2, ChosenIn, FS_Subset
    <3>2. t \in T
      BY <1>1, <3>1
    <3>3. /\ SumFunctionOnSet(w, s) = w[Chosen(s)] + SumFunctionOnSet(w, t)
          /\ SumFunctionOnSet(v, s) = v[Chosen(s)] + SumFunctionOnSet(v, t)
      BY <2>2, <3>1, SumDef
    <3>4. SumFunctionOnSet(w, t) \in Int /\ SumFunctionOnSet(v, t) \in Int
      BY <3>1, SumType
    <3>5. w[Chosen(s)] \in Int /\ v[Chosen(s)] \in Int /\ w[Chosen(s)] <= v[Chosen(s)]
      BY <3>1
    <3>6. SumFunctionOnSet(w, t) <= SumFunctionOnSet(v, t)
      BY <3>2
    <3>7. SumFunctionOnSet(w, s) <= SumFunctionOnSet(v, s)
      BY <3>3, <3>4, <3>5, <3>6
    <3> QED
      BY <3>7
  <2> QED
    BY <2>1, <2>2
<1>2. S \in T
  <2> HIDE DEF T
  <2> QED
    BY <1>1, SubsetInduction
<1> QED
  BY <1>2

\* A sum of zeros.
LEMMA SumZero ==
    ASSUME NEW S, IsFiniteSet(S), NEW w, \A x \in S : w[x] = 0
    PROVE  SumFunctionOnSet(w, S) = 0
<1> DEFINE T == {s \in SUBSET S : SumFunctionOnSet(w, s) = 0}
<1>1. ASSUME NEW s \in SUBSET S, \A t \in SUBSET s : t # s => t \in T
      PROVE  s \in T
  <2>1. CASE s = {}
    BY <2>1, SumEmpty
  <2>2. CASE s # {}
    <3>1. Chosen(s) \in s /\ IsFiniteSet(s)
      BY <2>2, ChosenIn, FS_Subset
    <3>2. s \ {Chosen(s)} \in T
      BY <1>1, <3>1
    <3>3. SumFunctionOnSet(w, s) = w[Chosen(s)] + SumFunctionOnSet(w, s \ {Chosen(s)})
      BY <2>2, <3>1, SumDef
    <3> QED
      BY <3>1, <3>2, <3>3
  <2> QED
    BY <2>1, <2>2
<1>2. S \in T
  <2> HIDE DEF T
  <2> QED
    BY <1>1, SubsetInduction
<1> QED
  BY <1>2

\* One value of the summed function changes, by some amount.
LEMMA SumChange ==
    ASSUME NEW S, IsFiniteSet(S), NEW w, NEW v, NEW x \in S, NEW amount \in Int,
           \A y \in S : w[y] \in Int,
           \A y \in S : v[y] = w[y] + IF y = x THEN amount ELSE 0
    PROVE  SumFunctionOnSet(v, S) = SumFunctionOnSet(w, S) + amount
<1>1. \A y \in S : v[y] \in Int
  OBVIOUS
<1>2. IsFiniteSet(S \ {x})
  BY FS_RemoveElement
<1>3. SumFunctionOnSet(w, S \ {x}) = SumFunctionOnSet(v, S \ {x})
  <2>1. \A y \in S \ {x} : w[y] = v[y]
    OBVIOUS
  <2> QED
    BY <1>2, <2>1, SumSame
<1>4. SumFunctionOnSet(w, S \ {x}) \in Int
  BY <1>2, SumType
<1>5. /\ SumFunctionOnSet(w, S) = w[x] + SumFunctionOnSet(w, S \ {x})
      /\ SumFunctionOnSet(v, S) = v[x] + SumFunctionOnSet(v, S \ {x})
  BY <1>1, SumRemove
<1>6. v[x] = w[x] + amount /\ w[x] \in Int
  OBVIOUS
<1> QED
  BY <1>3, <1>4, <1>5, <1>6

\* A sum of sums is the sum of the pairs.
LEMMA SumPlus ==
    ASSUME NEW S, IsFiniteSet(S), NEW w, NEW v, NEW u,
           \A x \in S : w[x] \in Int /\ v[x] \in Int /\ u[x] = w[x] + v[x]
    PROVE  SumFunctionOnSet(u, S) = SumFunctionOnSet(w, S) + SumFunctionOnSet(v, S)
<1> DEFINE T == {s \in SUBSET S : SumFunctionOnSet(u, s) =
                                    SumFunctionOnSet(w, s) + SumFunctionOnSet(v, s)}
<1>1. ASSUME NEW s \in SUBSET S, \A t \in SUBSET s : t # s => t \in T
      PROVE  s \in T
  <2>1. CASE s = {}
    BY <2>1, SumEmpty
  <2>2. CASE s # {}
    <3> DEFINE t == s \ {Chosen(s)}
    <3>1. Chosen(s) \in s /\ IsFiniteSet(s) /\ IsFiniteSet(t)
      BY <2>2, ChosenIn, FS_Subset
    <3>2. t \in T
      BY <1>1, <3>1
    <3>3. /\ SumFunctionOnSet(w, s) = w[Chosen(s)] + SumFunctionOnSet(w, t)
          /\ SumFunctionOnSet(v, s) = v[Chosen(s)] + SumFunctionOnSet(v, t)
          /\ SumFunctionOnSet(u, s) = u[Chosen(s)] + SumFunctionOnSet(u, t)
      BY <2>2, <3>1, SumDef
    <3>4. SumFunctionOnSet(w, t) \in Int /\ SumFunctionOnSet(v, t) \in Int
      BY <3>1, SumType
    <3>5. w[Chosen(s)] \in Int /\ v[Chosen(s)] \in Int
          /\ u[Chosen(s)] = w[Chosen(s)] + v[Chosen(s)]
      BY <3>1
    <3>6. SumFunctionOnSet(u, t) = SumFunctionOnSet(w, t) + SumFunctionOnSet(v, t)
      BY <3>2
    <3>7. SumFunctionOnSet(u, s) = SumFunctionOnSet(w, s) + SumFunctionOnSet(v, s)
      BY <3>3, <3>4, <3>5, <3>6
    <3> QED
      BY <3>7
  <2> QED
    BY <2>1, <2>2
<1>2. S \in T
  <2> HIDE DEF T
  <2> QED
    BY <1>1, SubsetInduction
<1> QED
  BY <1>2
===============================================================================
