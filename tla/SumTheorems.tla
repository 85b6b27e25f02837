----------------------------- MODULE SumTheorems -----------------------------
(***************************************************************************)
(* Sums of the values of a function over a finite set: the operator of the *)
(* community modules that counts shares here.  It is a fold, defined by    *)
(* recursion over an arbitrary choice of elements; a proof needs that the  *)
(* choice does not matter.                                                 *)
(*                                                                         *)
(* Induction is stated about sets, of numbers or of subsets, and not about *)
(* predicates, so that a fact is used by saying which set is meant.        *)
(***************************************************************************)
EXTENDS Integers, FiniteSetsExt, Functions, FiniteSetTheorems,
        WellFoundedInduction, TLAPS

(* A nonempty set of naturals has a least element.                         *)
LEMMA LeastNatural ==
    ASSUME NEW T, T \subseteq Nat, T # {}
    PROVE  \E n \in T : \A m \in T : n <= m
<1>1. PICK n \in T : \A m \in T : ~(<<m, n>> \in OpToRel(<, Nat))
  BY WFMin, NatLessThanWellFounded
<1>2. \A m \in T : ~(m < n)
  BY <1>1 DEF OpToRel
<1> QED
  BY <1>2

(* A set of naturals that has 0 and every successor has them all.          *)
LEMMA NaturalsInSet ==
    ASSUME NEW Good, 0 \in Good, \A n \in Nat : n \in Good => n + 1 \in Good,
           NEW k \in Nat
    PROVE  k \in Good
<1> SUFFICES ASSUME k \notin Good PROVE FALSE
  OBVIOUS
<1> DEFINE Bad == {n \in Nat : n \notin Good}
<1>1. PICK n \in Bad : \A m \in Bad : n <= m
  <2>1. Bad \subseteq Nat /\ Bad # {}
    OBVIOUS
  <2> QED
    BY <2>1, LeastNatural
<1>2. n - 1 \in Nat /\ n - 1 \notin Bad
  BY <1>1
<1>3. (n - 1) + 1 \in Good
  BY <1>2
<1> QED
  BY <1>1, <1>3

(* A set of subsets of S that has {}, and T whenever it has T without one  *)
(* of its elements, has S.                                                 *)
LEMMA SubsetsInSet ==
    ASSUME NEW S, IsFiniteSet(S), NEW Good, {} \in Good,
           \A T \in SUBSET S : \A x \in T : T \ {x} \in Good => T \in Good
    PROVE  S \in Good
<1> DEFINE Sizes == {n \in Nat : \A T \in SUBSET S :
                                    Cardinality(T) = n => T \in Good}
<1>1. \A T \in SUBSET S : IsFiniteSet(T) /\ Cardinality(T) \in Nat
  BY FS_Subset, FS_CardinalityType
<1>2. 0 \in Sizes
  BY <1>1, FS_EmptySet
<1>3. ASSUME NEW n \in Nat, n \in Sizes
      PROVE  n + 1 \in Sizes
  <2> SUFFICES ASSUME NEW T \in SUBSET S, Cardinality(T) = n + 1
               PROVE  T \in Good
    OBVIOUS
  <2>1. PICK x : x \in T
    BY <1>1, FS_EmptySet
  <2>2. Cardinality(T \ {x}) = n
    BY <1>1, <2>1, FS_RemoveElement
  <2>3. T \ {x} \in Good
    BY <1>3, <2>2
  <2> QED
    BY <2>1, <2>3
<1>4. Cardinality(S) \in Sizes
  <2> HIDE DEF Sizes
  <2> QED
    BY <1>1, <1>2, <1>3, NaturalsInSet
<1> QED
  BY <1>4

-----------------------------------------------------------------------------
(* The recursion behind a sum: g is the sum over each subset of S.         *)
Pick(s) == CHOOSE x \in s : TRUE
SumStep(f, g, s) == IF s = {} THEN 0 ELSE f[Pick(s)] + g[s \ {Pick(s)}]
SumsOf(f, S, g) == g = [s \in SUBSET S |-> SumStep(f, g, s)]

LEMMA SumIsChosen ==
    ASSUME NEW f, NEW S
    PROVE  SumFunctionOnSet(f, S) = (CHOOSE g : SumsOf(f, S, g))[S]
BY DEF SumFunctionOnSet, FoldFunctionOnSet, MapThenFoldSet, SumsOf, SumStep, Pick

(* It exists, as any function of the subsets of up to n elements extends   *)
(* to those of n + 1.                                                      *)
LEMMA SumsExist ==
    ASSUME NEW f, NEW S, IsFiniteSet(S)
    PROVE  \E g : SumsOf(f, S, g)
<1> DEFINE Upto(n) == {t \in SUBSET S : Cardinality(t) <= n}
           Sizes == {n \in Nat : \E g : g = [s \in Upto(n) |-> SumStep(f, g, s)]}
<1>1. \A t \in SUBSET S : IsFiniteSet(t) /\ Cardinality(t) \in Nat
  BY FS_Subset, FS_CardinalityType
<1>2. \A t \in SUBSET S : t # {} =>
         /\ Pick(t) \in t
         /\ t \ {Pick(t)} \in SUBSET S
         /\ Cardinality(t \ {Pick(t)}) = Cardinality(t) - 1
  BY <1>1, FS_RemoveElement DEF Pick
<1>3. 0 \in Sizes
  <2> DEFINE g == [s \in Upto(0) |-> 0]
  <2>1. \A s \in Upto(0) : s = {}
    BY <1>1, FS_EmptySet
  <2>2. g = [s \in Upto(0) |-> SumStep(f, g, s)]
    BY <2>1 DEF SumStep
  <2> QED
    BY <2>2
<1>4. ASSUME NEW n \in Nat, n \in Sizes
      PROVE  n + 1 \in Sizes
  <2>1. PICK g : g = [s \in Upto(n) |-> SumStep(f, g, s)]
    BY <1>4
  <2> DEFINE h == [s \in Upto(n + 1) |-> SumStep(f, g, s)]
  <2>2. \A s \in Upto(n) : h[s] = g[s]
    <3>1. \A s \in Upto(n) : s \in Upto(n + 1)
      BY <1>1
    <3>2. \A s \in Upto(n) : h[s] = SumStep(f, g, s)
      BY <3>1
    <3>3. \A s \in Upto(n) : g[s] = SumStep(f, g, s)
      <4> HIDE DEF h
      <4> QED
        BY <2>1
    <3> QED
      BY <3>2, <3>3
  <2>3. ASSUME NEW s \in Upto(n + 1)
        PROVE  SumStep(f, h, s) = SumStep(f, g, s)
    <3>1. CASE s = {}
      BY <3>1 DEF SumStep
    <3>2. CASE s # {}
      <4>1. s \ {Pick(s)} \in Upto(n)
        BY <1>1, <1>2, <3>2
      <4>2. h[s \ {Pick(s)}] = g[s \ {Pick(s)}]
        BY <2>2, <4>1
      <4> HIDE DEF h
      <4> QED
        BY <3>2, <4>2 DEF SumStep
    <3> QED
      BY <3>1, <3>2
  <2>4. h = [s \in Upto(n + 1) |-> SumStep(f, h, s)]
    BY <2>3
  <2> HIDE DEF h
  <2> QED
    BY <2>4
<1>5. Cardinality(S) \in Sizes
  <2> HIDE DEF Sizes
  <2> QED
    BY <1>1, <1>3, <1>4, NaturalsInSet
<1>6. Upto(Cardinality(S)) = SUBSET S
  <2>1. \A t \in SUBSET S : Cardinality(t) <= Cardinality(S)
    BY FS_Subset
  <2> QED
    BY <2>1
<1>7. PICK g : g = [s \in Upto(Cardinality(S)) |-> SumStep(f, g, s)]
  BY <1>5
<1> QED
  BY <1>6, <1>7 DEF SumsOf

(* The sums over the subsets of S and those over the subsets of T agree    *)
(* where both are defined.                                                 *)
LEMMA SumsAgree ==
    ASSUME NEW f, NEW S, IsFiniteSet(S), NEW T \in SUBSET S,
           NEW g, SumsOf(f, S, g), NEW h, SumsOf(f, T, h)
    PROVE  g[T] = h[T]
<1> DEFINE Sizes == {n \in Nat : \A t \in SUBSET T :
                                    Cardinality(t) = n => g[t] = h[t]}
<1>1. \A t \in SUBSET T : IsFiniteSet(t) /\ Cardinality(t) \in Nat
  BY FS_Subset, FS_CardinalityType
<1>2. \A t \in SUBSET T : g[t] = SumStep(f, g, t) /\ h[t] = SumStep(f, h, t)
  BY DEF SumsOf
<1>3. 0 \in Sizes
  <2> SUFFICES ASSUME NEW t \in SUBSET T, Cardinality(t) = 0
               PROVE  g[t] = h[t]
    OBVIOUS
  <2>1. t = {}
    BY <1>1, FS_EmptySet
  <2> QED
    BY <1>2, <2>1 DEF SumStep
<1>4. ASSUME NEW n \in Nat, n \in Sizes
      PROVE  n + 1 \in Sizes
  <2> SUFFICES ASSUME NEW t \in SUBSET T, Cardinality(t) = n + 1
               PROVE  g[t] = h[t]
    OBVIOUS
  <2>1. t # {}
    BY FS_EmptySet
  <2>2. /\ Pick(t) \in t
        /\ t \ {Pick(t)} \in SUBSET T
        /\ Cardinality(t \ {Pick(t)}) = n
    <3>1. Pick(t) \in t
      BY <2>1 DEF Pick
    <3>2. IsFiniteSet(t) /\ Cardinality(t) = n + 1
      BY <1>1
    <3>3. Cardinality(t \ {Pick(t)}) = Cardinality(t) - 1
      BY <3>1, <3>2, FS_RemoveElement
    <3> QED
      BY <3>1, <3>2, <3>3
  <2>3. g[t \ {Pick(t)}] = h[t \ {Pick(t)}]
    BY <1>4, <2>2
  <2> QED
    BY <1>2, <2>1, <2>3 DEF SumStep
<1>5. Cardinality(T) \in Sizes
  <2> HIDE DEF Sizes
  <2> QED
    BY <1>1, <1>3, <1>4, NaturalsInSet
<1> QED
  BY <1>1, <1>5

(* So a sum is computed by taking out one element after the other.         *)
LEMMA SumRecursion ==
    ASSUME NEW f, NEW S, IsFiniteSet(S)
    PROVE  SumFunctionOnSet(f, S) =
             IF S = {} THEN 0
             ELSE f[Pick(S)] + SumFunctionOnSet(f, S \ {Pick(S)})
<1>1. PICK g : /\ SumsOf(f, S, g)
               /\ SumFunctionOnSet(f, S) = g[S]
  BY SumsExist, SumIsChosen
<1>2. g[S] = SumStep(f, g, S)
  BY <1>1 DEF SumsOf
<1>3. CASE S = {}
  BY <1>1, <1>2, <1>3 DEF SumStep
<1>4. CASE S # {}
  <2> DEFINE T == S \ {Pick(S)}
  <2>1. IsFiniteSet(T) /\ T \in SUBSET S
    BY FS_RemoveElement
  <2>2. PICK h : /\ SumsOf(f, T, h)
                 /\ SumFunctionOnSet(f, T) = h[T]
    <3> HIDE DEF T
    <3> QED
      BY <2>1, SumsExist, SumIsChosen
  <2>3. g[T] = h[T]
    <3> HIDE DEF T
    <3> QED
      BY <1>1, <2>1, <2>2, SumsAgree
  <2> QED
    BY <1>1, <1>2, <1>4, <2>2, <2>3 DEF SumStep
<1> QED
  BY <1>3, <1>4

-----------------------------------------------------------------------------
(* What the proofs use.  An empty sum, and the type of a sum.              *)
LEMMA SumEmpty ==
    ASSUME NEW f
    PROVE  SumFunctionOnSet(f, {}) = 0
BY SumRecursion, FS_EmptySet

LEMMA SumInt ==
    ASSUME NEW f, NEW S, IsFiniteSet(S), \A x \in S : f[x] \in Int
    PROVE  SumFunctionOnSet(f, S) \in Int
<1> DEFINE Sizes == {n \in Nat : \A T \in SUBSET S :
                        Cardinality(T) = n => SumFunctionOnSet(f, T) \in Int}
<1>1. \A T \in SUBSET S : IsFiniteSet(T) /\ Cardinality(T) \in Nat
  BY FS_Subset, FS_CardinalityType
<1>2. 0 \in Sizes
  BY <1>1, SumEmpty, FS_EmptySet
<1>3. ASSUME NEW n \in Nat, n \in Sizes
      PROVE  n + 1 \in Sizes
  <2> SUFFICES ASSUME NEW T \in SUBSET S, Cardinality(T) = n + 1
               PROVE  SumFunctionOnSet(f, T) \in Int
    OBVIOUS
  <2>1. T # {} /\ Pick(T) \in T
    BY FS_EmptySet DEF Pick
  <2>2. IsFiniteSet(T) /\ Cardinality(T) = n + 1
    BY <1>1
  <2>3. Cardinality(T \ {Pick(T)}) = Cardinality(T) - 1
    BY <2>1, <2>2, FS_RemoveElement
  <2>4. SumFunctionOnSet(f, T \ {Pick(T)}) \in Int
    BY <1>3, <2>2, <2>3
  <2> QED
    BY <2>1, <2>2, <2>4, SumRecursion
<1>4. Cardinality(S) \in Sizes
  <2> HIDE DEF Sizes
  <2> QED
    BY <1>1, <1>2, <1>3, NaturalsInSet
<1> QED
  BY <1>1, <1>4

(* Any element can be taken out.                                           *)
LEMMA SumRemove ==
    ASSUME NEW f, NEW S, IsFiniteSet(S), \A x \in S : f[x] \in Int, NEW y \in S
    PROVE  SumFunctionOnSet(f, S) = f[y] + SumFunctionOnSet(f, S \ {y})
<1> DEFINE Sizes == {n \in Nat : \A T \in SUBSET S : Cardinality(T) = n =>
               \A x \in T : SumFunctionOnSet(f, T)
                              = f[x] + SumFunctionOnSet(f, T \ {x})}
<1>1. \A T \in SUBSET S : /\ IsFiniteSet(T) /\ Cardinality(T) \in Nat
                          /\ SumFunctionOnSet(f, T) \in Int
  BY FS_Subset, FS_CardinalityType, SumInt
<1>2. 0 \in Sizes
  BY <1>1, FS_EmptySet
<1>3. ASSUME NEW n \in Nat, n \in Sizes
      PROVE  n + 1 \in Sizes
  <2> SUFFICES ASSUME NEW T \in SUBSET S, Cardinality(T) = n + 1, NEW x \in T
               PROVE  SumFunctionOnSet(f, T) = f[x] + SumFunctionOnSet(f, T \ {x})
    OBVIOUS
  <2>1. PICK p : p = Pick(T)
    OBVIOUS
  <2>2. /\ p \in T /\ IsFiniteSet(T)
        /\ SumFunctionOnSet(f, T) = f[p] + SumFunctionOnSet(f, T \ {p})
    BY <1>1, <2>1, SumRecursion DEF Pick
  <2>3. CASE x = p
    BY <2>2, <2>3
  <2>4. CASE x # p
    <3>1. /\ T \ {p} \in SUBSET S /\ T \ {x} \in SUBSET S
          /\ T \ {p, x} \in SUBSET S
          /\ (T \ {p}) \ {x} = T \ {p, x} /\ (T \ {x}) \ {p} = T \ {p, x}
          /\ x \in T \ {p} /\ p \in T \ {x}
      BY <2>2, <2>4
    <3>2. Cardinality(T \ {p}) = n /\ Cardinality(T \ {x}) = n
      <4>1. /\ Cardinality(T \ {p}) = Cardinality(T) - 1
            /\ Cardinality(T \ {x}) = Cardinality(T) - 1
        BY <2>2, FS_RemoveElement
      <4> QED
        BY <4>1
    <3>3. SumFunctionOnSet(f, T \ {p}) = f[x] + SumFunctionOnSet(f, T \ {p, x})
      BY <1>3, <3>1, <3>2
    <3>4. SumFunctionOnSet(f, T \ {x}) = f[p] + SumFunctionOnSet(f, T \ {p, x})
      BY <1>3, <3>1, <3>2
    <3>5. /\ f[p] \in Int /\ f[x] \in Int
          /\ SumFunctionOnSet(f, T \ {p, x}) \in Int
      BY <1>1, <2>2, <3>1
    <3> QED
      BY <2>2, <3>3, <3>4, <3>5
  <2> QED
    BY <2>3, <2>4
<1>4. Cardinality(S) \in Sizes
  <2> HIDE DEF Sizes
  <2> QED
    BY <1>1, <1>2, <1>3, NaturalsInSet
<1> QED
  BY <1>1, <1>4

LEMMA SumAdd ==
    ASSUME NEW f, NEW S, IsFiniteSet(S), NEW y, y \notin S,
           f[y] \in Int, \A x \in S : f[x] \in Int
    PROVE  SumFunctionOnSet(f, S \cup {y}) = f[y] + SumFunctionOnSet(f, S)
<1>1. IsFiniteSet(S \cup {y}) /\ (S \cup {y}) \ {y} = S /\ y \in S \cup {y}
  BY FS_AddElement
<1>2. \A x \in S \cup {y} : f[x] \in Int
  OBVIOUS
<1> QED
  BY <1>1, <1>2, SumRemove

(* Sums grow with their terms, ...                                         *)
LEMMA SumMonotone ==
    ASSUME NEW S, IsFiniteSet(S), NEW f, NEW g,
           \A x \in S : f[x] \in Int /\ g[x] \in Int /\ f[x] <= g[x]
    PROVE  SumFunctionOnSet(f, S) <= SumFunctionOnSet(g, S)
<1> DEFINE Good == {T \in SUBSET S :
                      SumFunctionOnSet(f, T) <= SumFunctionOnSet(g, T)}
<1>1. {} \in Good
  BY SumEmpty
<1>2. ASSUME NEW T \in SUBSET S, NEW x \in T, T \ {x} \in Good
      PROVE  T \in Good
  <2>1. IsFiniteSet(T) /\ IsFiniteSet(T \ {x})
    BY FS_Subset, FS_RemoveElement
  <2>2. /\ SumFunctionOnSet(f, T) = f[x] + SumFunctionOnSet(f, T \ {x})
        /\ SumFunctionOnSet(g, T) = g[x] + SumFunctionOnSet(g, T \ {x})
    BY <2>1, SumRemove
  <2>3. /\ SumFunctionOnSet(f, T \ {x}) \in Int
        /\ SumFunctionOnSet(g, T \ {x}) \in Int
    BY <2>1, SumInt
  <2> QED
    BY <1>2, <2>2, <2>3
<1>3. S \in Good
  <2> HIDE DEF Good
  <2> QED
    BY <1>1, <1>2, SubsetsInSet
<1> QED
  BY <1>3

(* ... and depend on nothing else.                                         *)
LEMMA SumSame ==
    ASSUME NEW S, IsFiniteSet(S), NEW f, NEW g,
           \A x \in S : f[x] \in Int /\ g[x] = f[x]
    PROVE  SumFunctionOnSet(f, S) = SumFunctionOnSet(g, S)
<1>1. /\ SumFunctionOnSet(f, S) <= SumFunctionOnSet(g, S)
      /\ SumFunctionOnSet(g, S) <= SumFunctionOnSet(f, S)
  BY SumMonotone
<1>2. SumFunctionOnSet(f, S) \in Int /\ SumFunctionOnSet(g, S) \in Int
  BY SumInt
<1> QED
  BY <1>1, <1>2

(* A sum of naturals is no less than any of its terms, nor than what is    *)
(* summed over fewer elements.                                             *)
LEMMA SumNat ==
    ASSUME NEW f, NEW S, IsFiniteSet(S), \A x \in S : f[x] \in Nat
    PROVE  /\ SumFunctionOnSet(f, S) \in Nat
           /\ \A x \in S : f[x] <= SumFunctionOnSet(f, S)
<1> DEFINE Good == {T \in SUBSET S : SumFunctionOnSet(f, T) \in Nat}
<1>0. ASSUME NEW T \in SUBSET S, NEW x \in T
      PROVE  SumFunctionOnSet(f, T) = f[x] + SumFunctionOnSet(f, T \ {x})
  <2>1. IsFiniteSet(T) /\ \A y \in T : f[y] \in Int
    BY FS_Subset
  <2> QED
    BY <2>1, SumRemove
<1>1. {} \in Good
  BY SumEmpty
<1>2. ASSUME NEW T \in SUBSET S, NEW x \in T, T \ {x} \in Good
      PROVE  T \in Good
  <2>1. f[x] \in Nat /\ SumFunctionOnSet(f, T \ {x}) \in Nat
    BY <1>2
  <2> QED
    BY <1>0, <2>1
<1>3. \A T \in SUBSET S : T \in Good
  <2> SUFFICES ASSUME NEW T \in SUBSET S PROVE T \in Good
    OBVIOUS
  <2>1. IsFiniteSet(T) /\ \A R \in SUBSET T : R \in SUBSET S
    BY FS_Subset
  <2> HIDE DEF Good
  <2>2. \A R \in SUBSET T : \A x \in R : R \ {x} \in Good => R \in Good
    BY <1>2, <2>1
  <2> QED
    BY <1>1, <2>1, <2>2, SubsetsInSet
<1>4. ASSUME NEW x \in S
      PROVE  f[x] <= SumFunctionOnSet(f, S)
  <2>1. SumFunctionOnSet(f, S \ {x}) \in Nat
    BY <1>3
  <2>2. SumFunctionOnSet(f, S) = f[x] + SumFunctionOnSet(f, S \ {x})
    BY <1>0
  <2> QED
    BY <2>1, <2>2
<1> QED
  BY <1>3, <1>4

(* The sum over two sets that share nothing, ...                           *)
LEMMA SumDisjoint ==
    ASSUME NEW f, NEW S, IsFiniteSet(S), NEW T, IsFiniteSet(T), S \cap T = {},
           \A x \in S \cup T : f[x] \in Int
    PROVE  SumFunctionOnSet(f, S \cup T)
             = SumFunctionOnSet(f, S) + SumFunctionOnSet(f, T)
<1> DEFINE Good == {R \in SUBSET T : SumFunctionOnSet(f, S \cup R)
                             = SumFunctionOnSet(f, S) + SumFunctionOnSet(f, R)}
<1>0. SumFunctionOnSet(f, S) \in Int
  BY SumInt
<1>1. {} \in Good
  <2>1. S \cup {} = S
    OBVIOUS
  <2> QED
    BY <1>0, <2>1, SumEmpty
<1>2. ASSUME NEW R \in SUBSET T, NEW x \in R, R \ {x} \in Good
      PROVE  R \in Good
  <2>1. IsFiniteSet(R) /\ IsFiniteSet(R \ {x})
    BY FS_Subset, FS_RemoveElement
  <2>2. /\ IsFiniteSet(S \cup R)
        /\ (S \cup R) \ {x} = S \cup (R \ {x})
        /\ x \in S \cup R
    BY <2>1, FS_Union
  <2>3. \A y \in R : f[y] \in Int
    OBVIOUS
  <2>4. \A y \in S \cup R : f[y] \in Int
    OBVIOUS
  <2>5. SumFunctionOnSet(f, S \cup R)
          = f[x] + SumFunctionOnSet(f, S \cup (R \ {x}))
    BY <2>2, <2>4, SumRemove
  <2>6. SumFunctionOnSet(f, R) = f[x] + SumFunctionOnSet(f, R \ {x})
    BY <2>1, <2>3, SumRemove
  <2>7. SumFunctionOnSet(f, R \ {x}) \in Int /\ f[x] \in Int
    BY <2>1, <2>3, SumInt
  <2> QED
    BY <1>0, <1>2, <2>5, <2>6, <2>7
<1>3. T \in Good
  <2> HIDE DEF Good
  <2> QED
    BY <1>1, <1>2, SubsetsInSet
<1> QED
  BY <1>3

(* ... and over fewer of the elements.                                     *)
LEMMA SumSubset ==
    ASSUME NEW f, NEW S, IsFiniteSet(S), \A x \in S : f[x] \in Nat,
           NEW T \in SUBSET S
    PROVE  SumFunctionOnSet(f, T) <= SumFunctionOnSet(f, S)
<1>1. /\ IsFiniteSet(T) /\ IsFiniteSet(S \ T)
      /\ T \cap (S \ T) = {} /\ T \cup (S \ T) = S
  BY FS_Subset
<1>2. SumFunctionOnSet(f, S)
        = SumFunctionOnSet(f, T) + SumFunctionOnSet(f, S \ T)
  <2>1. \A x \in T \cup (S \ T) : f[x] \in Int
    OBVIOUS
  <2> QED
    BY <1>1, <2>1, SumDisjoint
<1>3. SumFunctionOnSet(f, T) \in Nat /\ SumFunctionOnSet(f, S \ T) \in Nat
  <2>1. /\ \A x \in T : f[x] \in Nat
        /\ \A x \in S \ T : f[x] \in Nat
    OBVIOUS
  <2> QED
    BY <1>1, <2>1, SumNat
<1> QED
  BY <1>2, <1>3

(* One term changes by d, and so does the sum.                             *)
LEMMA SumChange ==
    ASSUME NEW f, NEW g, NEW S, IsFiniteSet(S), NEW y \in S, NEW d \in Int,
           \A x \in S : f[x] \in Int,
           \A x \in S : g[x] = (IF x = y THEN f[x] + d ELSE f[x])
    PROVE  SumFunctionOnSet(g, S) = SumFunctionOnSet(f, S) + d
<1>1. IsFiniteSet(S \ {y})
  BY FS_RemoveElement
<1>2. SumFunctionOnSet(f, S) = f[y] + SumFunctionOnSet(f, S \ {y})
  BY SumRemove
<1>3. SumFunctionOnSet(g, S) = g[y] + SumFunctionOnSet(g, S \ {y})
  <2>1. \A x \in S : g[x] \in Int
    OBVIOUS
  <2> QED
    BY <2>1, SumRemove
<1>4. SumFunctionOnSet(f, S \ {y}) = SumFunctionOnSet(g, S \ {y})
  <2>1. \A x \in S \ {y} : f[x] \in Int /\ g[x] = f[x]
    OBVIOUS
  <2> QED
    BY <1>1, <2>1, SumSame
<1>5. SumFunctionOnSet(f, S \ {y}) \in Int
  BY <1>1, SumInt
<1> QED
  BY <1>2, <1>3, <1>4, <1>5

(* A sum of zeros is zero, ...                                             *)
LEMMA SumZero ==
    ASSUME NEW f, NEW S, IsFiniteSet(S), \A x \in S : f[x] = 0
    PROVE  SumFunctionOnSet(f, S) = 0
<1> DEFINE Good == {T \in SUBSET S : SumFunctionOnSet(f, T) = 0}
<1>1. {} \in Good
  BY SumEmpty
<1>2. ASSUME NEW T \in SUBSET S, NEW x \in T, T \ {x} \in Good
      PROVE  T \in Good
  <2>1. IsFiniteSet(T) /\ (\A y \in T : f[y] \in Int) /\ f[x] = 0
    BY FS_Subset
  <2>2. SumFunctionOnSet(f, T) = f[x] + SumFunctionOnSet(f, T \ {x})
    BY <2>1, SumRemove
  <2> QED
    BY <1>2, <2>1, <2>2
<1>3. S \in Good
  <2> HIDE DEF Good
  <2> QED
    BY <1>1, <1>2, SubsetsInSet
<1> QED
  BY <1>3

(* ... and a sum with one other term is that term.                         *)
LEMMA SumOfOne ==
    ASSUME NEW f, NEW S, IsFiniteSet(S), NEW y \in S, f[y] \in Int,
           \A x \in S : x # y => f[x] = 0
    PROVE  SumFunctionOnSet(f, S) = f[y]
<1>1. IsFiniteSet(S \ {y}) /\ \A x \in S \ {y} : f[x] = 0
  BY FS_RemoveElement
<1>2. \A x \in S : f[x] \in Int
  OBVIOUS
<1>3. SumFunctionOnSet(f, S) = f[y] + SumFunctionOnSet(f, S \ {y})
  BY <1>2, SumRemove
<1>4. SumFunctionOnSet(f, S \ {y}) = 0
  BY <1>1, SumZero
<1> QED
  BY <1>3, <1>4
=============================================================================
