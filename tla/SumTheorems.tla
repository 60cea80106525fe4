---------------------------- MODULE SumTheorems ----------------------------
(***************************************************************************)
(* Facts about SumFunction, the total of a function of natural numbers     *)
(* over a finite domain.  It is defined by recursion, taking the elements  *)
(* out in an unknown order.  It is shown first to be the number of the     *)
(* units of which there are f[x] for each x, and everything else follows   *)
(* from what is known of cardinalities.                                    *)
(***************************************************************************)
EXTENDS FiniteSetTheorems, TLAPS

\* The units of one element, and of those of a set.
UnitsAt(f, x) == {x} \X (1..f[x])
Units(f, S) == UNION {UnitsAt(f, x) : x \in S}

Some(s) == CHOOSE x \in s : TRUE

\* One step of the recursion in SumFunctionOnSet, for the subsets of S.
SumSteps(f, S, g) ==
    [s \in SUBSET S |-> IF s = {} THEN 0 ELSE f[Some(s)] + g[s \ {Some(s)}]]

LEMMA SumUnfolded ==
    ASSUME NEW f, NEW S
    PROVE  SumFunctionOnSet(f, S) = (CHOOSE g : g = SumSteps(f, S, g))[S]
BY DEF SumFunctionOnSet, FoldFunctionOnSet, MapThenFoldSet, SumSteps, Some

-----------------------------------------------------------------------------
LEMMA UnitsAtCounted ==
    ASSUME NEW f, NEW x, f[x] \in Nat
    PROVE  IsFiniteSet(UnitsAt(f, x)) /\ Cardinality(UnitsAt(f, x)) = f[x]
<1>1. IsFiniteSet({x}) /\ Cardinality({x}) = 1
    BY FS_Singleton
<1>2. IsFiniteSet(1..f[x]) /\ Cardinality(1..f[x]) = f[x]
    BY FS_Interval
<1>3. IsFiniteSet(UnitsAt(f, x)) /\ Cardinality(UnitsAt(f, x)) = 1 * f[x]
    BY <1>1, <1>2, FS_Product, Zenon DEF UnitsAt
<1> QED
    BY <1>3

LEMMA UnitsFinite ==
    ASSUME NEW S, IsFiniteSet(S), NEW f, \A x \in S : f[x] \in Nat
    PROVE  IsFiniteSet(Units(f, S))
<1> DEFINE T == {UnitsAt(f, x) : x \in S}
           h == [x \in S |-> UnitsAt(f, x)]
<1>1. h \in Surjection(S, T)
    BY DEF Surjection
<1>2. IsFiniteSet(T)
    <2> HIDE DEF T, h
    <2> QED
        BY <1>1, FS_Surjection
<1>3. \A t \in T : IsFiniteSet(t)
    BY UnitsAtCounted
<1> QED
    BY <1>2, <1>3, FS_UNION DEF Units

LEMMA UnitsTakenOut ==
    ASSUME NEW S, IsFiniteSet(S), NEW f, \A y \in S : f[y] \in Nat, NEW x \in S
    PROVE  Cardinality(Units(f, S)) = f[x] + Cardinality(Units(f, S \ {x}))
<1> DEFINE A == UnitsAt(f, x)
           B == Units(f, S \ {x})
<1>1. IsFiniteSet(A) /\ Cardinality(A) = f[x]
    BY UnitsAtCounted
<1>2. IsFiniteSet(S \ {x})
    BY FS_RemoveElement
<1>3. IsFiniteSet(B)
    BY <1>2, UnitsFinite
<1>4. Units(f, S) = A \cup B /\ A \cap B = {}
    BY DEF Units, UnitsAt
<1>5. f[x] \in Nat /\ Cardinality(B) \in Nat
    BY <1>3, FS_CardinalityType
<1> HIDE DEF A, B
<1>6. Cardinality(A \cup B) = Cardinality(A) + Cardinality(B) - Cardinality({})
    BY <1>1, <1>3, <1>4, FS_Union
<1> QED
    BY <1>1, <1>4, <1>5, <1>6, FS_EmptySet DEF B

(***************************************************************************)
(* The recursion has a solution, the number of units, and no other one: a  *)
(* smallest set on which two solutions differ would be without elements.   *)
(***************************************************************************)
LEMMA SumCountsUnits ==
    ASSUME NEW S, IsFiniteSet(S), NEW f, \A x \in S : f[x] \in Nat
    PROVE  SumFunctionOnSet(f, S) = Cardinality(Units(f, S))
<1> DEFINE c == [s \in SUBSET S |-> Cardinality(Units(f, s))]
           g == CHOOSE h : h = SumSteps(f, S, h)
<1>1. \A s \in SUBSET S : s # {} => Some(s) \in s
    BY DEF Some
<1>2. \A s \in SUBSET S : IsFiniteSet(s)
    BY FS_Subset
<1>3. Cardinality(Units(f, {})) = 0
    BY FS_EmptySet DEF Units
<1>4. ASSUME NEW s \in SUBSET S, s # {}
      PROVE  c[s] = f[Some(s)] + c[s \ {Some(s)}]
    BY <1>1, <1>2, <1>4, UnitsTakenOut
<1>5. c = SumSteps(f, S, c)
    <2> DEFINE e == [s \in SUBSET S |-> IF s = {} THEN 0 ELSE f[Some(s)] + c[s \ {Some(s)}]]
    <2>1. \A s \in SUBSET S : c[s] = e[s]
        BY <1>3, <1>4
    <2>2. c = e
        BY <2>1
    <2> QED
        BY <2>2 DEF SumSteps
<1>6. g = SumSteps(f, S, g)
    BY <1>5
<1> HIDE DEF g, c
<1>7. \A s \in SUBSET S : g[s] = IF s = {} THEN 0 ELSE f[Some(s)] + g[s \ {Some(s)}]
    BY <1>6 DEF SumSteps
<1>8. \A s \in SUBSET S : c[s] = IF s = {} THEN 0 ELSE f[Some(s)] + c[s \ {Some(s)}]
    BY <1>5 DEF SumSteps
<1>9. g[S] = c[S]
    <2> DEFINE Differ == {s \in SUBSET S : g[s] # c[s]}
    <2>1. SUFFICES ASSUME Differ # {} PROVE FALSE
        OBVIOUS
    <2>2. Differ \subseteq FiniteSubsetsOf(S)
        BY <1>2 DEF FiniteSubsetsOf
    <2> HIDE DEF Differ
    <2>3. PICK s \in Differ : \A t \in Differ : <<t, s>> \notin StrictSubsetOrdering(S)
        BY <2>1, <2>2, FS_StrictSubsetOrderingWellFounded, WFMin
    <2>4. s \in SUBSET S /\ g[s] # c[s]
        BY <2>3 DEF Differ
    <2>5. s # {}
        BY <1>7, <1>8, <2>4
    <2>6. s \ {Some(s)} \notin Differ
        BY <1>1, <2>3, <2>4, <2>5 DEF StrictSubsetOrdering
    <2>7. s \ {Some(s)} \in SUBSET S
        BY <2>4
    <2>8. g[s \ {Some(s)}] = c[s \ {Some(s)}]
        BY <2>6, <2>7 DEF Differ
    <2> QED
        BY <1>7, <1>8, <2>4, <2>5, <2>8
<1> QED
    BY <1>9, SumUnfolded DEF g, c

-----------------------------------------------------------------------------
(***************************************************************************)
(* What is known of totals over a set, from the number of units.           *)
(***************************************************************************)
LEMMA SumType ==
    ASSUME NEW S, IsFiniteSet(S), NEW f, \A x \in S : f[x] \in Nat
    PROVE  SumFunctionOnSet(f, S) \in Nat
BY SumCountsUnits, UnitsFinite, FS_CardinalityType

LEMMA SumEmpty ==
    ASSUME NEW f
    PROVE  SumFunctionOnSet(f, {}) = 0
<1>1. Units(f, {}) = {} /\ IsFiniteSet({})
    BY FS_EmptySet DEF Units
<1> QED
    BY <1>1, SumCountsUnits, FS_EmptySet

LEMMA SumAdds ==
    ASSUME NEW S, IsFiniteSet(S), NEW x, x \notin S,
           NEW f, f[x] \in Nat, \A y \in S : f[y] \in Nat
    PROVE  SumFunctionOnSet(f, S \cup {x}) = SumFunctionOnSet(f, S) + f[x]
<1>1. IsFiniteSet(S \cup {x}) /\ (S \cup {x}) \ {x} = S /\ x \in S \cup {x}
    BY FS_AddElement
<1>2. Cardinality(Units(f, S \cup {x})) = f[x] + Cardinality(Units(f, S))
    BY <1>1, UnitsTakenOut
<1>3. Cardinality(Units(f, S)) \in Nat
    BY UnitsFinite, FS_CardinalityType
<1>4. /\ SumFunctionOnSet(f, S \cup {x}) = Cardinality(Units(f, S \cup {x}))
      /\ SumFunctionOnSet(f, S) = Cardinality(Units(f, S))
    BY <1>1, SumCountsUnits
<1> QED
    BY <1>2, <1>3, <1>4

LEMMA SumOfParts ==
    ASSUME NEW S, IsFiniteSet(S), NEW T, T \subseteq S, NEW f, \A x \in S : f[x] \in Nat
    PROVE  SumFunctionOnSet(f, S) = SumFunctionOnSet(f, T) + SumFunctionOnSet(f, S \ T)
<1>1. IsFiniteSet(T) /\ IsFiniteSet(S \ T)
    BY FS_Subset
<1>2. IsFiniteSet(Units(f, T)) /\ IsFiniteSet(Units(f, S \ T))
    BY <1>1, UnitsFinite
<1>3. Units(f, S) = Units(f, T) \cup Units(f, S \ T) /\ Units(f, T) \cap Units(f, S \ T) = {}
    BY DEF Units, UnitsAt
<1>4. Cardinality(Units(f, S)) =
          Cardinality(Units(f, T)) + Cardinality(Units(f, S \ T)) - Cardinality({})
    BY <1>2, <1>3, FS_Union, Zenon
<1>5. /\ SumFunctionOnSet(f, S) = Cardinality(Units(f, S))
      /\ SumFunctionOnSet(f, T) = Cardinality(Units(f, T))
      /\ SumFunctionOnSet(f, S \ T) = Cardinality(Units(f, S \ T))
    BY <1>1, SumCountsUnits
<1>6. Cardinality(Units(f, T)) \in Nat /\ Cardinality(Units(f, S \ T)) \in Nat
    BY <1>2, FS_CardinalityType
<1> QED
    BY <1>4, <1>5, <1>6, FS_EmptySet

LEMMA SumAgrees ==
    ASSUME NEW S, IsFiniteSet(S), NEW f, NEW g,
           \A x \in S : f[x] \in Nat /\ f[x] = g[x]
    PROVE  SumFunctionOnSet(f, S) = SumFunctionOnSet(g, S)
<1>1. Units(f, S) = Units(g, S)
    BY DEF Units, UnitsAt
<1> QED
    BY <1>1, SumCountsUnits

-----------------------------------------------------------------------------
(***************************************************************************)
(* What one update of a function does to its total.                        *)
(***************************************************************************)
LEMMA TotalType ==
    ASSUME NEW S, IsFiniteSet(S), NEW f \in [S -> Nat]
    PROVE  SumFunction(f) \in Nat
BY SumType DEF SumFunction

LEMMA TotalOfZeros ==
    ASSUME NEW S, IsFiniteSet(S)
    PROVE  SumFunction([x \in S |-> 0]) = 0
<1> DEFINE f == [x \in S |-> 0]
<1>1. Units(f, S) = {}
    BY DEF Units, UnitsAt
<1>2. SumFunctionOnSet(f, S) = 0
    BY <1>1, SumCountsUnits, FS_EmptySet
<1> QED
    BY <1>2 DEF SumFunction

LEMMA TotalChanged ==
    ASSUME NEW S, IsFiniteSet(S), NEW f \in [S -> Nat], NEW g \in [S -> Nat], NEW x \in S,
           \A y \in S : y # x => g[y] = f[y]
    PROVE  SumFunction(g) = SumFunction(f) - f[x] + g[x] /\ f[x] <= SumFunction(f)
<1> DEFINE R == S \ {x}
<1>1. IsFiniteSet(R) /\ x \notin R /\ R \cup {x} = S
    BY FS_RemoveElement
<1>2. f[x] \in Nat /\ g[x] \in Nat /\ \A y \in R : f[y] \in Nat /\ g[y] \in Nat /\ g[y] = f[y]
    OBVIOUS
<1> HIDE DEF R
<1>3. /\ SumFunctionOnSet(f, S) = SumFunctionOnSet(f, R) + f[x]
      /\ SumFunctionOnSet(g, S) = SumFunctionOnSet(g, R) + g[x]
    BY <1>1, <1>2, SumAdds
<1>4. SumFunctionOnSet(g, R) = SumFunctionOnSet(f, R)
    BY <1>1, <1>2, SumAgrees
<1>5. SumFunctionOnSet(f, R) \in Nat
    BY <1>1, <1>2, SumType
<1>6. DOMAIN f = S /\ DOMAIN g = S
    OBVIOUS
<1> QED
    BY <1>2, <1>3, <1>4, <1>5, <1>6 DEF SumFunction

LEMMA TotalUpdated ==
    ASSUME NEW S, IsFiniteSet(S), NEW f \in [S -> Nat], NEW x \in S, NEW v \in Nat
    PROVE  /\ [f EXCEPT ![x] = v] \in [S -> Nat]
           /\ f[x] <= SumFunction(f)
           /\ SumFunction([f EXCEPT ![x] = v]) = SumFunction(f) - f[x] + v
<1> DEFINE g == [f EXCEPT ![x] = v]
<1>1. g \in [S -> Nat] /\ g[x] = v /\ \A y \in S : y # x => g[y] = f[y]
    OBVIOUS
<1> HIDE DEF g
<1>2. SumFunction(g) = SumFunction(f) - f[x] + g[x] /\ f[x] <= SumFunction(f)
    BY <1>1, TotalChanged
<1> QED
    BY <1>1, <1>2 DEF g
=============================================================================
