------------------------------ MODULE SumLaws ------------------------------
(***************************************************************************)
(* What the proofs about money and quantities need of a finite sum: the    *)
(* community operator SumFunction adds the values of a function in some    *)
(* order; here it is shown to count their units, whatever the order, and   *)
(* the laws follow from those of Cardinality.                              *)
(***************************************************************************)
EXTENDS FiniteSetTheorems, TLAPS

(* The recursion SumFunction stands for, over every subset of S.           *)
Chosen(s) == CHOOSE x \in s : TRUE
FoldStep(f, it, s) == IF s = {} THEN 0 ELSE f[Chosen(s)] + it[s \ {Chosen(s)}]
FoldOver(f, S) == CHOOSE it : it = [s \in SUBSET S |-> FoldStep(f, it, s)]

(* One element for every unit of every value. *)
ValueUnits(f, s) == UNION {{x} \X (1..f[x]) : x \in s}
UnitCount(f, s) == Cardinality(ValueUnits(f, s))

LEMMA SumIsFold ==
  ASSUME NEW S, NEW f, DOMAIN f = S
  PROVE  SumFunction(f) = FoldOver(f, S)[S]
BY DEF SumFunction, SumFunctionOnSet,
       FoldFunctionOnSet, MapThenFoldSet, FoldOver, FoldStep, Chosen

LEMMA UnitsFinite ==
  ASSUME NEW S, IsFiniteSet(S), NEW f, \A x \in S : f[x] \in Nat
  PROVE  IsFiniteSet(ValueUnits(f, S)) /\ UnitCount(f, S) \in Nat
<1> DEFINE piece == [x \in S |-> {x} \X (1..f[x])]
           pieces == {piece[x] : x \in S}
<1>1. IsFiniteSet(pieces)
  <2>1. piece \in Surjection(S, pieces)
    BY DEF Surjection
  <2>2. QED
    BY <2>1, FS_Surjection
<1>2. \A T \in pieces : IsFiniteSet(T)
  <2> SUFFICES ASSUME NEW x \in S
               PROVE  IsFiniteSet({x} \X (1..f[x]))
    OBVIOUS
  <2>1. IsFiniteSet({x})
    BY FS_Singleton
  <2>2. 1 \in Int /\ f[x] \in Int
    OBVIOUS
  <2>3. IsFiniteSet(1..f[x])
    BY <2>2, FS_Interval
  <2>4. QED
    BY <2>1, <2>3, FS_Product
<1>3. ValueUnits(f, S) = UNION pieces
  BY DEF ValueUnits
<1>4. IsFiniteSet(ValueUnits(f, S))
  BY <1>1, <1>2, <1>3, FS_UNION
<1>5. QED
  BY <1>4, FS_CardinalityType DEF UnitCount

LEMMA CountWithout ==
  ASSUME NEW S, IsFiniteSet(S), NEW f, \A x \in S : f[x] \in Nat, NEW x \in S
  PROVE  UnitCount(f, S) = f[x] + UnitCount(f, S \ {x})
<1> DEFINE rest == ValueUnits(f, S \ {x})
           mine == {x} \X (1..f[x])
<1>1. IsFiniteSet(S \ {x})
  BY FS_RemoveElement
<1>2. IsFiniteSet(rest) /\ UnitCount(f, S \ {x}) \in Nat
  BY <1>1, UnitsFinite
<1>3. IsFiniteSet({x}) /\ Cardinality({x}) = 1
  BY FS_Singleton
<1>4. IsFiniteSet(1..f[x]) /\ Cardinality(1..f[x]) = f[x]
  BY FS_Interval
<1>5. IsFiniteSet(mine) /\ Cardinality(mine) = f[x]
  BY <1>3, <1>4, FS_Product
<1>6. ValueUnits(f, S) = mine \cup rest
  BY DEF ValueUnits
<1>7. mine \cap rest = {}
  BY DEF ValueUnits
<1>8. Cardinality(mine \cap rest) = 0
  BY <1>7, FS_EmptySet
<1>9. Cardinality(mine \cup rest)
        = Cardinality(mine) + Cardinality(rest) - Cardinality(mine \cap rest)
  BY <1>2, <1>5, FS_Union
<1>10. UnitCount(f, S) = Cardinality(mine) + Cardinality(rest) - Cardinality(mine \cap rest)
  BY <1>6, <1>9 DEF UnitCount
<1>11. Cardinality(rest) = UnitCount(f, S \ {x})
  BY DEF UnitCount
<1>12. QED
  BY <1>2, <1>5, <1>8, <1>10, <1>11

LEMMA SumIsCount ==
  ASSUME NEW S, IsFiniteSet(S), NEW f \in [S -> Nat]
  PROVE  SumFunction(f) = UnitCount(f, S)
<1> DEFINE it == FoldOver(f, S)
           counts == [s \in SUBSET S |-> UnitCount(f, s)]
           wrong == {s \in SUBSET S : it[s] # UnitCount(f, s)}
<1>1. \A s \in SUBSET S : IsFiniteSet(s)
  BY FS_Subset
<1>2. \A s : s # {} => Chosen(s) \in s
  BY DEF Chosen
<1>3. \A s \in SUBSET S : UnitCount(f, s) = FoldStep(f, counts, s)
  <2> TAKE s \in SUBSET S
  <2>1. CASE s = {}
    <3>1. ValueUnits(f, s) = {}
      BY <2>1 DEF ValueUnits
    <3>2. QED
      BY <2>1, <3>1, FS_EmptySet DEF UnitCount, FoldStep
  <2>2. CASE s # {}
    <3>1. Chosen(s) \in s
      BY <1>2, <2>2
    <3>2. UnitCount(f, s) = f[Chosen(s)] + UnitCount(f, s \ {Chosen(s)})
      BY <1>1, <3>1, CountWithout
    <3>3. QED
      BY <2>2, <3>2 DEF FoldStep
  <2>3. QED
    BY <2>1, <2>2
<1>4. counts = [s \in SUBSET S |-> FoldStep(f, counts, s)]
  BY <1>3
<1>5. it = [s \in SUBSET S |-> FoldStep(f, it, s)]
  BY <1>4 DEF FoldOver
<1>6. wrong = {}
  <2> SUFFICES ASSUME wrong # {} PROVE FALSE
    OBVIOUS
  <2>1. wrong \subseteq FiniteSubsetsOf(S)
    BY <1>1 DEF FiniteSubsetsOf
  <2>2. PICK s \in wrong : \A r \in wrong : <<r, s>> \notin StrictSubsetOrdering(S)
    BY <2>1, FS_StrictSubsetOrderingWellFounded, WFMin
  <2>3. it[s] = FoldStep(f, it, s) /\ UnitCount(f, s) = FoldStep(f, counts, s)
    BY <1>3, <1>5
  <2>4. s # {}
    BY <2>3 DEF FoldStep
  <2>5. /\ Chosen(s) \in s
        /\ s \ {Chosen(s)} \in SUBSET S
    BY <1>2, <2>4
  <2>6. s \ {Chosen(s)} \notin wrong
    <3> DEFINE r == s \ {Chosen(s)}
    <3>1. r \subseteq s /\ r # s
      BY <2>5
    <3>2. <<r, s>> \in StrictSubsetOrdering(S)
      BY <2>5, <3>1 DEF StrictSubsetOrdering
    <3>3. QED
      BY <2>2, <3>2
  <2>7. it[s \ {Chosen(s)}] = counts[s \ {Chosen(s)}]
    BY <2>5, <2>6
  <2>8. QED
    BY <2>3, <2>4, <2>7 DEF FoldStep
<1>7. it[S] = UnitCount(f, S)
  BY <1>6
<1>8. QED
  BY <1>7, SumIsFold

-----------------------------------------------------------------------------
(* The laws. *)

(* A sum of naturals is one. *)
THEOREM SumNat ==
  ASSUME NEW S, IsFiniteSet(S), NEW f \in [S -> Nat]
  PROVE  SumFunction(f) \in Nat
BY SumIsCount, UnitsFinite

(* What is zero everywhere adds up to nothing. *)
THEOREM SumZero ==
  ASSUME NEW S, IsFiniteSet(S), NEW f \in [S -> Nat], \A x \in S : f[x] = 0
  PROVE  SumFunction(f) = 0
<1>1. ValueUnits(f, S) = {}
  BY DEF ValueUnits
<1>2. UnitCount(f, S) = 0
  BY <1>1, FS_EmptySet DEF UnitCount
<1>3. QED
  BY <1>2, SumIsCount

(* A change of one value changes the sum by as much. *)
THEOREM SumChangedAt ==
  ASSUME NEW S, IsFiniteSet(S), NEW f \in [S -> Nat], NEW g \in [S -> Nat],
         NEW x \in S, \A y \in S \ {x} : g[y] = f[y]
  PROVE  SumFunction(g) = SumFunction(f) - f[x] + g[x]
<1>1. ValueUnits(f, S \ {x}) = ValueUnits(g, S \ {x})
  BY DEF ValueUnits
<1>2. UnitCount(f, S \ {x}) = UnitCount(g, S \ {x})
  BY <1>1 DEF UnitCount
<1>3. UnitCount(f, S) = f[x] + UnitCount(f, S \ {x})
  BY CountWithout
<1>4. UnitCount(g, S) = g[x] + UnitCount(g, S \ {x})
  BY CountWithout
<1>5. IsFiniteSet(S \ {x})
  BY FS_RemoveElement
<1>6. UnitCount(f, S \ {x}) \in Nat
  BY <1>5, UnitsFinite
<1>7. SumFunction(f) = UnitCount(f, S) /\ SumFunction(g) = UnitCount(g, S)
  BY SumIsCount
<1>8. f[x] \in Nat /\ g[x] \in Nat
  OBVIOUS
<1>9. QED
  BY <1>2, <1>3, <1>4, <1>6, <1>7, <1>8

(* A sum over fewer points of smaller values is no larger. *)
THEOREM SumOnLess ==
  ASSUME NEW S, IsFiniteSet(S), NEW T \in SUBSET S,
         NEW f \in [S -> Nat], NEW g \in [T -> Nat], \A x \in T : g[x] <= f[x]
  PROVE  SumFunction(g) <= SumFunction(f)
<1>1. IsFiniteSet(T)
  BY FS_Subset
<1>2. ValueUnits(g, T) \subseteq ValueUnits(f, S)
  BY DEF ValueUnits
<1>3. IsFiniteSet(ValueUnits(f, S))
  BY UnitsFinite
<1>4. UnitCount(g, T) <= UnitCount(f, S)
  BY <1>2, <1>3, FS_Subset DEF UnitCount
<1>5. QED
  BY <1>1, <1>4, SumIsCount

(* Points of value zero can be left out of a sum. *)
THEOREM SumPadded ==
  ASSUME NEW S, IsFiniteSet(S), NEW T \in SUBSET S,
         NEW f \in [S -> Nat], NEW g \in [T -> Nat],
         \A x \in T : f[x] = g[x], \A x \in S \ T : f[x] = 0
  PROVE  SumFunction(g) = SumFunction(f)
<1>1. IsFiniteSet(T)
  BY FS_Subset
<1>2. ValueUnits(g, T) = ValueUnits(f, S)
  BY DEF ValueUnits
<1>3. QED
  BY <1>1, <1>2, SumIsCount DEF UnitCount

(* A sum over a part is the sum over the whole when the rest is zero. *)
THEOREM SumOfPart ==
  ASSUME NEW S, IsFiniteSet(S), NEW T \in SUBSET S, NEW f \in [S -> Nat],
         \A x \in S : x \notin T => f[x] = 0
  PROVE  SumFunction([x \in T |-> f[x]]) = SumFunction(f)
<1> DEFINE g == [x \in T |-> f[x]]
<1>1. g \in [T -> Nat] /\ \A x \in T : f[x] = g[x]
  OBVIOUS
<1>2. \A x \in S \ T : f[x] = 0
  OBVIOUS
<1> HIDE DEF g
<1>3. SumFunction(g) = SumFunction(f)
  BY <1>1, <1>2, SumPadded
<1>4. QED
  BY <1>3 DEF g

(* No value exceeds the sum. *)
THEOREM SumBoundsValue ==
  ASSUME NEW S, IsFiniteSet(S), NEW f \in [S -> Nat], NEW x \in S
  PROVE  f[x] <= SumFunction(f)
<1>1. UnitCount(f, S) = f[x] + UnitCount(f, S \ {x})
  BY CountWithout
<1>2. IsFiniteSet(S \ {x})
  BY FS_RemoveElement
<1>3. UnitCount(f, S \ {x}) \in Nat
  BY <1>2, UnitsFinite
<1>4. f[x] \in Nat
  OBVIOUS
<1>5. QED
  BY <1>1, <1>3, <1>4, SumIsCount

(* The only value that is not zero is the sum. *)
THEOREM SumAt ==
  ASSUME NEW S, IsFiniteSet(S), NEW f \in [S -> Nat],
         NEW x \in S, \A y \in S \ {x} : f[y] = 0
  PROVE  SumFunction(f) = f[x]
<1> DEFINE zero == [y \in S |-> 0]
<1>1. zero \in [S -> Nat] /\ \A y \in S \ {x} : f[y] = zero[y]
  OBVIOUS
<1>2. SumFunction(zero) = 0
  BY <1>1, SumZero
<1>3. SumFunction(f) = SumFunction(zero) - zero[x] + f[x]
  BY <1>1, SumChangedAt
<1>4. zero[x] = 0 /\ f[x] \in Nat
  OBVIOUS
<1> HIDE DEF zero
<1>5. QED
  BY <1>2, <1>3, <1>4

(* Lists of one and of two values. *)
THEOREM SumOfOne ==
  ASSUME NEW f \in [1..1 -> Nat]
  PROVE  SumFunction(f) = f[1]
<1>1. IsFiniteSet(1..1)
  <2>1. 1 \in Int /\ 1 \in Int
    OBVIOUS
  <2>2. QED
    BY <2>1, FS_Interval
<1>2. 1 \in 1..1 /\ \A y \in (1..1) \ {1} : f[y] = 0
  OBVIOUS
<1>3. QED
  BY <1>1, <1>2, SumAt

THEOREM SumOfTwo ==
  ASSUME NEW f \in [1..2 -> Nat]
  PROVE  SumFunction(f) = f[1] + f[2]
<1> DEFINE first == [n \in 1..2 |-> IF n = 1 THEN f[1] ELSE 0]
<1>1. IsFiniteSet(1..2)
  <2>1. 1 \in Int /\ 2 \in Int
    OBVIOUS
  <2>2. QED
    BY <2>1, FS_Interval
<1>2. /\ first \in [1..2 -> Nat] /\ 1 \in 1..2 /\ 2 \in 1..2
      /\ first[1] = f[1] /\ first[2] = 0 /\ f[1] \in Nat /\ f[2] \in Nat
      /\ \A y \in (1..2) \ {1} : first[y] = 0
      /\ \A y \in (1..2) \ {2} : f[y] = first[y]
  OBVIOUS
<1> HIDE DEF first
<1>3. SumFunction(first) = first[1]
  BY <1>1, <1>2, SumAt
<1>4. SumFunction(f) = SumFunction(first) - first[2] + f[2]
  BY <1>1, <1>2, SumChangedAt
<1>5. QED
  BY <1>2, <1>3, <1>4

(* The sum of sums of two values is the sum of both sums. *)
THEOREM SumPlus ==
  ASSUME NEW S, IsFiniteSet(S), NEW f \in [S -> Nat], NEW g \in [S -> Nat],
         NEW h \in [S -> Nat], \A x \in S : h[x] = f[x] + g[x]
  PROVE  SumFunction(h) = SumFunction(f) + SumFunction(g)
<1> DEFINE wrong == {s \in SUBSET S : UnitCount(h, s) # UnitCount(f, s) + UnitCount(g, s)}
<1>1. \A s \in SUBSET S : IsFiniteSet(s)
  BY FS_Subset
<1>2. wrong = {}
  <2> SUFFICES ASSUME wrong # {} PROVE FALSE
    OBVIOUS
  <2>1. wrong \subseteq FiniteSubsetsOf(S)
    BY <1>1 DEF FiniteSubsetsOf
  <2>2. PICK s \in wrong : \A r \in wrong : <<r, s>> \notin StrictSubsetOrdering(S)
    BY <2>1, FS_StrictSubsetOrderingWellFounded, WFMin
  <2>3. s # {}
    <3>1. /\ UnitCount(f, {}) = Cardinality({}) /\ UnitCount(g, {}) = Cardinality({})
          /\ UnitCount(h, {}) = Cardinality({})
      <4>1. ValueUnits(f, {}) = {} /\ ValueUnits(g, {}) = {} /\ ValueUnits(h, {}) = {}
        BY DEF ValueUnits
      <4>2. QED
        BY <4>1 DEF UnitCount
    <3>2. UnitCount(f, {}) = 0 /\ UnitCount(g, {}) = 0 /\ UnitCount(h, {}) = 0
      BY <3>1, FS_EmptySet
    <3>3. QED
      BY <3>2
  <2>4. PICK x \in s : TRUE
    BY <2>3
  <2> DEFINE r == s \ {x}
  <2>5. r \in SUBSET S /\ IsFiniteSet(r) /\ IsFiniteSet(s)
    BY <1>1
  <2>6. r \notin wrong
    <3>1. r \subseteq s /\ r # s
      OBVIOUS
    <3>2. <<r, s>> \in StrictSubsetOrdering(S)
      BY <2>5, <3>1 DEF StrictSubsetOrdering
    <3>3. QED
      BY <2>2, <3>2
  <2>7. UnitCount(h, r) = UnitCount(f, r) + UnitCount(g, r)
    BY <2>5, <2>6
  <2>8. \A e \in {f, g, h} : UnitCount(e, r) \in Nat /\ UnitCount(e, s) = e[x] + UnitCount(e, r)
    <3> TAKE e \in {f, g, h}
    <3>1. \A y \in S : e[y] \in Nat
      OBVIOUS
    <3>2. UnitCount(e, r) \in Nat
      BY <2>5, <3>1, UnitsFinite
    <3>3. UnitCount(e, s) = e[x] + UnitCount(e, r)
      BY <2>4, <2>5, <3>1, CountWithout
    <3>4. QED
      BY <3>2, <3>3
  <2>9. h[x] = f[x] + g[x] /\ f[x] \in Nat /\ g[x] \in Nat
    OBVIOUS
  <2>10. UnitCount(h, s) # UnitCount(f, s) + UnitCount(g, s)
    OBVIOUS
  <2> HIDE DEF r
  <2>11. QED
    BY <2>7, <2>8, <2>9, <2>10
<1>3. UnitCount(h, S) = UnitCount(f, S) + UnitCount(g, S)
  BY <1>2
<1>4. QED
  BY <1>3, SumIsCount
=============================================================================
