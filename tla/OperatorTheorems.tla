-------------------------- MODULE OperatorTheorems --------------------------
(***************************************************************************)
(* Facts about the operators the models are built from: sums over finite   *)
(* sets and over the entries of functions, for every finite set and every  *)
(* function into the integers, and the schedule of PoissonArrivals, for    *)
(* every buffer size and every rate.                                       *)
(***************************************************************************)
EXTENDS PoissonArrivals, Functions, FiniteSets, FiniteSetTheorems,
        WellFoundedInduction, NaturalsInduction, TLAPS

(***************************************************************************)
(* A nonempty set of naturals has a least element.                         *)
(***************************************************************************)
LEMMA LeastNatural ==
  ASSUME NEW T, T \subseteq Nat, T # {}
  PROVE  \E n \in T : \A m \in T : n <= m
  <1>1. PICK x \in T : \A y \in T : ~ (<< y, x >> \in OpToRel(<, Nat))
    BY NatLessThanWellFounded, WFMin
  <1>2. OpToRel(<, Nat) = {ss \in Nat \X Nat : ss[1] < ss[2]}
    BY DEF OpToRel
  <1>3. ASSUME NEW m \in T
        PROVE  x <= m
    <2>1. x \in Nat /\ m \in Nat /\ << m, x >> \in Nat \X Nat
      OBVIOUS
    <2>2. ~ (m < x)
      BY <1>1, <1>2, <2>1
    <2> QED
      BY <2>1, <2>2
  <1> QED
    BY <1>3

(***************************************************************************)
(* Induction over the subsets of a finite set, the predicate being given as*)
(* the family of the subsets that satisfy it: a family that contains every *)
(* T whose subsets with one element less it contains, contains everything. *)
(***************************************************************************)
LEMMA SubsetInduction ==
  ASSUME NEW S, IsFiniteSet(S), NEW F,
         \A T \in SUBSET S : (\A x \in T : T \ {x} \in F) => T \in F
  PROVE  \A T \in SUBSET S : T \in F
  <1> DEFINE Sizes == {n \in Nat : \E T \in SUBSET S :
                                     T \notin F /\ Cardinality(T) = n}
  <1>1. \A T \in SUBSET S : IsFiniteSet(T) /\ Cardinality(T) \in Nat
    BY FS_Subset, FS_CardinalityType
  <1>2. SUFFICES ASSUME Sizes # {} PROVE FALSE
    BY <1>1
  <1>3. PICK n \in Sizes : \A m \in Sizes : n <= m
    <2> HIDE DEF Sizes
    <2>1. Sizes \subseteq Nat
      BY DEF Sizes
    <2> QED
      BY <1>2, <2>1, LeastNatural
  <1>4. PICK T \in SUBSET S : T \notin F /\ Cardinality(T) = n
    BY <1>3
  <1>5. ASSUME NEW x \in T
        PROVE  T \ {x} \in F
    <2>1. T \ {x} \in SUBSET S /\ IsFiniteSet(T)
      BY <1>1
    <2>2. Cardinality(T \ {x}) = n - 1
      BY <1>4, <2>1, FS_RemoveElement
    <2>3. Cardinality(T \ {x}) \in Nat /\ n \in Nat
      BY <1>1, <1>4, <2>1
    <2>4. n - 1 \notin Sizes
      BY <1>3, <2>3
    <2> QED
      BY <2>1, <2>2, <2>3, <2>4
  <1> QED
    BY <1>4, <1>5

-----------------------------------------------------------------------------
(***************************************************************************)
(* The fold behind a sum: g maps each subset of S to the sum of f over it, *)
(* an element at a time.                                                   *)
(***************************************************************************)
First(s) == CHOOSE x \in s : TRUE

Sums(f, S, g) ==
  g = [s \in SUBSET S |->
         IF s = {} THEN 0 ELSE f[First(s)] + g[s \ {First(s)}]]

LEMMA SumIsFold ==
  ASSUME NEW f, NEW S
  PROVE  SumFunctionOnSet(f, S) = (CHOOSE g : Sums(f, S, g))[S]
  BY DEF SumFunctionOnSet, FoldFunctionOnSet, MapThenFoldSet, Sums, First

LEMMA FirstIn == \A s : s # {} => First(s) \in s
  BY DEF First

(***************************************************************************)
(* Two such maps agree where both are defined.                             *)
(***************************************************************************)
LEMMA SumsAgree ==
  ASSUME NEW f, NEW U, IsFiniteSet(U), NEW V, NEW g, NEW h,
         Sums(f, U, g), Sums(f, V, h), U \subseteq V
  PROVE  \A s \in SUBSET U : g[s] = h[s]
  <1> DEFINE F == {s \in SUBSET U : g[s] = h[s]}
  <1>1. ASSUME NEW s \in SUBSET U, \A x \in s : s \ {x} \in F
        PROVE  s \in F
    <2>1. s \in SUBSET V
      OBVIOUS
    <2>2. /\ g[s] = IF s = {} THEN 0 ELSE f[First(s)] + g[s \ {First(s)}]
          /\ h[s] = IF s = {} THEN 0 ELSE f[First(s)] + h[s \ {First(s)}]
      BY <2>1 DEF Sums
    <2>3. s # {} => g[s \ {First(s)}] = h[s \ {First(s)}]
      BY <1>1, FirstIn
    <2> QED
      BY <2>2, <2>3
  <1> HIDE DEF F
  <1>2. \A s \in SUBSET U : s \in F
    BY <1>1, SubsetInduction
  <1> QED
    BY <1>2 DEF F

LEMMA SumsExist ==
  ASSUME NEW f, NEW S, IsFiniteSet(S)
  PROVE  \E g : Sums(f, S, g)
  <1> DEFINE F == {U \in SUBSET S : \A V \in SUBSET U : \E g : Sums(f, V, g)}
             G(U) == CHOOSE g : Sums(f, U, g)
             Rest(s) == s \ {First(s)}
  <1>1. ASSUME NEW U \in SUBSET S, \A x \in U : U \ {x} \in F
        PROVE  U \in F
    <2> DEFINE h == [s \in SUBSET U |-> IF s = {} THEN 0
                       ELSE f[First(s)] + G(Rest(s))[Rest(s)]]
    <2>1. ASSUME NEW V \in SUBSET U, V # U
          PROVE  Sums(f, V, G(V))
      <3>1. PICK x \in U : x \notin V
        BY <2>1
      <3>2. V \in SUBSET (U \ {x})
        BY <3>1
      <3>3. \E g : Sums(f, V, g)
        BY <1>1, <3>2
      <3> QED
        BY <3>3
    <2>2. ASSUME NEW s \in SUBSET U, s # {}
          PROVE  h[Rest(s)] = G(Rest(s))[Rest(s)]
      <3> DEFINE v == Rest(s)
                 w == Rest(v)
      <3>1. /\ v \in SUBSET U /\ v # U
            /\ w \in SUBSET v /\ w # U
        BY <2>2, FirstIn
      <3>2. Sums(f, v, G(v)) /\ Sums(f, w, G(w))
        BY <2>1, <3>1
      <3>3. IsFiniteSet(w)
        BY <3>1, FS_Subset
      <3> HIDE DEF G, v, w
      <3>4. G(w)[w] = G(v)[w]
        BY <3>1, <3>2, <3>3, SumsAgree
      <3>5. G(v)[v] = IF v = {} THEN 0 ELSE f[First(v)] + G(v)[w]
        BY <3>2 DEF Sums, w
      <3>6. h[v] = IF v = {} THEN 0 ELSE f[First(v)] + G(w)[w]
        BY <3>1 DEF w
      <3> QED
        BY <3>4, <3>5, <3>6 DEF v
    <2> HIDE DEF G
    <2>3. Sums(f, U, h)
      <3>1. \A s \in SUBSET U :
              h[s] = IF s = {} THEN 0 ELSE f[First(s)] + h[s \ {First(s)}]
        BY <2>2
      <3>2. h = [s \in SUBSET U |-> h[s]]
        OBVIOUS
      <3> HIDE DEF h
      <3> QED
        BY <3>1, <3>2 DEF Sums
    <2> HIDE DEF h
    <2>4. \A V \in SUBSET U : \E g : Sums(f, V, g)
      BY <2>1, <2>3
    <2> QED
      BY <2>4
  <1> HIDE DEF F
  <1>2. S \in F
    BY <1>1, SubsetInduction
  <1> QED
    BY <1>2 DEF F

(***************************************************************************)
(* The sum over a finite set, an element at a time.                        *)
(***************************************************************************)
LEMMA SumUnfold ==
  ASSUME NEW f, NEW S, IsFiniteSet(S)
  PROVE  SumFunctionOnSet(f, S) =
           IF S = {} THEN 0
           ELSE f[First(S)] + SumFunctionOnSet(f, S \ {First(S)})
  <1> DEFINE G(U) == CHOOSE g : Sums(f, U, g)
             R == S \ {First(S)}
  <1>1. R \in SUBSET S /\ IsFiniteSet(R)
    BY FS_Subset
  <1>2. Sums(f, S, G(S)) /\ Sums(f, R, G(R))
    BY <1>1, SumsExist
  <1>3. SumFunctionOnSet(f, S) = G(S)[S] /\ SumFunctionOnSet(f, R) = G(R)[R]
    BY SumIsFold
  <1>4. G(S)[S] = IF S = {} THEN 0 ELSE f[First(S)] + G(S)[R]
    <2> HIDE DEF G
    <2> QED
      BY <1>2 DEF Sums
  <1>5. G(R)[R] = G(S)[R]
    <2> HIDE DEF G, R
    <2> QED
      BY <1>1, <1>2, SumsAgree
  <1> QED
    BY <1>3, <1>4, <1>5

LEMMA SumEmpty == \A f : SumFunctionOnSet(f, {}) = 0
  BY SumUnfold, FS_EmptySet

LEMMA SumInt ==
  ASSUME NEW S, IsFiniteSet(S), NEW f, \A x \in S : f[x] \in Int
  PROVE  \A T \in SUBSET S : SumFunctionOnSet(f, T) \in Int
  <1> DEFINE F == {T \in SUBSET S : SumFunctionOnSet(f, T) \in Int}
  <1>1. ASSUME NEW T \in SUBSET S, \A x \in T : T \ {x} \in F
        PROVE  T \in F
    <2>1. IsFiniteSet(T)
      BY FS_Subset
    <2>2. T = {} => SumFunctionOnSet(f, T) = 0
      BY SumEmpty
    <2>3. T # {} => /\ First(T) \in T /\ T \ {First(T)} \in F
                    /\ SumFunctionOnSet(f, T) =
                         f[First(T)] + SumFunctionOnSet(f, T \ {First(T)})
      BY <1>1, <2>1, FirstIn, SumUnfold
    <2> QED
      BY <2>2, <2>3
  <1> HIDE DEF F
  <1>2. \A T \in SUBSET S : T \in F
    BY <1>1, SubsetInduction
  <1> QED
    BY <1>2 DEF F

(***************************************************************************)
(* Any element may be taken first.                                         *)
(***************************************************************************)
LEMMA SumTake ==
  ASSUME NEW S, IsFiniteSet(S), NEW f, \A x \in S : f[x] \in Int,
         NEW x \in S
  PROVE  SumFunctionOnSet(f, S) = f[x] + SumFunctionOnSet(f, S \ {x})
  <1> DEFINE F == {T \in SUBSET S : \A y \in T :
               SumFunctionOnSet(f, T) = f[y] + SumFunctionOnSet(f, T \ {y})}
  <1>1. ASSUME NEW T \in SUBSET S, \A y \in T : T \ {y} \in F, NEW y \in T
        PROVE  SumFunctionOnSet(f, T) = f[y] + SumFunctionOnSet(f, T \ {y})
    <2> DEFINE z == First(T)
               Both == T \ {y, z}
    <2>1. /\ z \in T /\ IsFiniteSet(T)
          /\ T \ {y} \in SUBSET S /\ IsFiniteSet(T \ {y})
          /\ T \ {z} \in SUBSET S /\ Both \in SUBSET S
      BY FirstIn, FS_Subset
    <2>2. SumFunctionOnSet(f, T) = f[z] + SumFunctionOnSet(f, T \ {z})
      BY <2>1, SumUnfold
    <2>3. CASE y = z
      BY <2>2, <2>3
    <2>4. CASE y # z
      <3>1. /\ (T \ {z}) \ {y} = Both
            /\ (T \ {y}) \ {z} = Both
        OBVIOUS
      <3>2. SumFunctionOnSet(f, T \ {z}) = f[y] + SumFunctionOnSet(f, Both)
        BY <1>1, <2>1, <2>4, <3>1
      <3>3. SumFunctionOnSet(f, T \ {y}) = f[z] + SumFunctionOnSet(f, Both)
        BY <1>1, <2>1, <2>4, <3>1
      <3>4. SumFunctionOnSet(f, Both) \in Int /\ f[y] \in Int /\ f[z] \in Int
        BY <2>1, SumInt
      <3> QED
        BY <2>2, <3>2, <3>3, <3>4
    <2> QED
      BY <2>3, <2>4
  <1>2. ASSUME NEW T \in SUBSET S, \A y \in T : T \ {y} \in F
        PROVE  T \in F
    BY <1>1, <1>2
  <1> HIDE DEF F
  <1>3. \A T \in SUBSET S : T \in F
    BY <1>2, SubsetInduction
  <1> QED
    BY <1>3 DEF F

(***************************************************************************)
(* Sums are monotone, and equal only if the functions are: a sum that has  *)
(* caught up with its bound leaves no term behind.                         *)
(***************************************************************************)
LEMMA SumMonotone ==
  ASSUME NEW S, IsFiniteSet(S), NEW f, NEW g,
         \A x \in S : f[x] \in Int /\ g[x] \in Int /\ f[x] <= g[x]
  PROVE  \A T \in SUBSET S : SumFunctionOnSet(f, T) <= SumFunctionOnSet(g, T)
  <1> DEFINE F == {T \in SUBSET S :
                     SumFunctionOnSet(f, T) <= SumFunctionOnSet(g, T)}
  <1>1. ASSUME NEW T \in SUBSET S, \A x \in T : T \ {x} \in F
        PROVE  T \in F
    <2> DEFINE z == First(T)
    <2>1. IsFiniteSet(T) /\ T \ {z} \in SUBSET S
      BY FS_Subset
    <2>2. CASE T = {}
      BY <2>2, SumEmpty
    <2>3. CASE T # {}
      <3>1. z \in T
        BY <2>3, FirstIn
      <3>2. /\ SumFunctionOnSet(f, T) = f[z] + SumFunctionOnSet(f, T \ {z})
            /\ SumFunctionOnSet(g, T) = g[z] + SumFunctionOnSet(g, T \ {z})
        BY <2>1, <2>3, SumUnfold
      <3>3. SumFunctionOnSet(f, T \ {z}) <= SumFunctionOnSet(g, T \ {z})
        BY <1>1, <3>1
      <3>4. /\ SumFunctionOnSet(f, T \ {z}) \in Int
            /\ SumFunctionOnSet(g, T \ {z}) \in Int
        BY <2>1, SumInt
      <3>5. f[z] \in Int /\ g[z] \in Int /\ f[z] <= g[z]
        BY <3>1
      <3> QED
        BY <3>2, <3>3, <3>4, <3>5
    <2> QED
      BY <2>2, <2>3
  <1> HIDE DEF F
  <1>2. \A T \in SUBSET S : T \in F
    BY <1>1, SubsetInduction
  <1> QED
    BY <1>2 DEF F

LEMMA SumCaughtUp ==
  ASSUME NEW S, IsFiniteSet(S), NEW f, NEW g,
         \A x \in S : f[x] \in Int /\ g[x] \in Int /\ f[x] <= g[x],
         SumFunctionOnSet(f, S) >= SumFunctionOnSet(g, S)
  PROVE  \A x \in S : f[x] = g[x]
  <1> SUFFICES ASSUME NEW x \in S PROVE f[x] = g[x]
    OBVIOUS
  <1>1. /\ SumFunctionOnSet(f, S) = f[x] + SumFunctionOnSet(f, S \ {x})
        /\ SumFunctionOnSet(g, S) = g[x] + SumFunctionOnSet(g, S \ {x})
    BY SumTake
  <1>2. /\ SumFunctionOnSet(f, S \ {x}) <= SumFunctionOnSet(g, S \ {x})
        /\ SumFunctionOnSet(f, S \ {x}) \in Int
        /\ SumFunctionOnSet(g, S \ {x}) \in Int
    BY SumMonotone, SumInt
  <1> QED
    BY <1>1, <1>2

LEMMA SumSame ==
  ASSUME NEW S, IsFiniteSet(S), NEW f, NEW g,
         \A x \in S : f[x] \in Int /\ f[x] = g[x]
  PROVE  SumFunctionOnSet(f, S) = SumFunctionOnSet(g, S)
  <1>1. /\ SumFunctionOnSet(f, S) <= SumFunctionOnSet(g, S)
        /\ SumFunctionOnSet(g, S) <= SumFunctionOnSet(f, S)
    BY SumMonotone
  <1> QED
    BY <1>1, SumInt

(***************************************************************************)
(* A sum of naturals is a natural, and at least each of its terms.         *)
(***************************************************************************)
LEMMA SumZero ==
  ASSUME NEW S, IsFiniteSet(S), NEW f, \A x \in S : f[x] = 0
  PROVE  SumFunctionOnSet(f, S) = 0
  <1> DEFINE F == {T \in SUBSET S : SumFunctionOnSet(f, T) = 0}
  <1>1. ASSUME NEW T \in SUBSET S, \A x \in T : T \ {x} \in F
        PROVE  T \in F
    <2>1. IsFiniteSet(T)
      BY FS_Subset
    <2>2. T = {} => SumFunctionOnSet(f, T) = 0
      BY SumEmpty
    <2>3. T # {} => /\ First(T) \in T /\ T \ {First(T)} \in F
                    /\ SumFunctionOnSet(f, T) =
                         f[First(T)] + SumFunctionOnSet(f, T \ {First(T)})
      BY <1>1, <2>1, FirstIn, SumUnfold
    <2> QED
      BY <2>2, <2>3
  <1> HIDE DEF F
  <1>2. \A T \in SUBSET S : T \in F
    BY <1>1, SubsetInduction
  <1> QED
    BY <1>2 DEF F

LEMMA SumNat ==
  ASSUME NEW S, IsFiniteSet(S), NEW f, \A x \in S : f[x] \in Nat
  PROVE  /\ SumFunctionOnSet(f, S) \in Nat
         /\ \A x \in S : f[x] <= SumFunctionOnSet(f, S)
  <1> DEFINE zero == [x \in S |-> 0]
  <1>1. \A T \in SUBSET S : SumFunctionOnSet(f, T) \in Nat
    <2> SUFFICES ASSUME NEW T \in SUBSET S PROVE SumFunctionOnSet(f, T) \in Nat
      OBVIOUS
    <2>1. SumFunctionOnSet(zero, T) <= SumFunctionOnSet(f, T)
      BY SumMonotone
    <2>2. SumFunctionOnSet(zero, T) = 0
      BY FS_Subset, SumZero
    <2>3. SumFunctionOnSet(f, T) \in Int
      BY SumInt
    <2> QED
      BY <2>1, <2>2, <2>3
  <1>2. ASSUME NEW x \in S
        PROVE  f[x] <= SumFunctionOnSet(f, S)
    <2>1. SumFunctionOnSet(f, S \ {x}) \in Nat
      BY <1>1
    <2>2. SumFunctionOnSet(f, S) = f[x] + SumFunctionOnSet(f, S \ {x})
      BY SumTake
    <2> QED
      BY <2>1, <2>2
  <1> QED
    BY <1>1, <1>2

(***************************************************************************)
(* A sum of naturals over some of the elements is at most the whole sum.   *)
(***************************************************************************)
LEMMA SumSubset ==
  ASSUME NEW S, IsFiniteSet(S), NEW f, \A x \in S : f[x] \in Nat,
         NEW T \in SUBSET S
  PROVE  SumFunctionOnSet(f, T) <= SumFunctionOnSet(f, S)
  <1> DEFINE F == {U \in SUBSET S :
               \A V \in SUBSET U :
                 SumFunctionOnSet(f, V) <= SumFunctionOnSet(f, U)}
  <1>1. ASSUME NEW U \in SUBSET S, \A x \in U : U \ {x} \in F
        PROVE  U \in F
    <2> SUFFICES ASSUME NEW V \in SUBSET U
                 PROVE  SumFunctionOnSet(f, V) <= SumFunctionOnSet(f, U)
      OBVIOUS
    <2>1. \A W \in SUBSET S : SumFunctionOnSet(f, W) \in Int
      BY SumInt
    <2>2. CASE V = U
      BY <2>1, <2>2
    <2>3. CASE V # U
      <3>1. PICK x \in U : x \notin V
        BY <2>3
      <3>2. SumFunctionOnSet(f, V) <= SumFunctionOnSet(f, U \ {x})
        BY <1>1, <3>1
      <3>3. SumFunctionOnSet(f, U) = f[x] + SumFunctionOnSet(f, U \ {x})
        BY FS_Subset, SumTake
      <3> QED
        BY <2>1, <3>2, <3>3
    <2> QED
      BY <2>2, <2>3
  <1> HIDE DEF F
  <1>2. \A U \in SUBSET S : U \in F
    BY <1>1, SubsetInduction
  <1> QED
    BY <1>2 DEF F

(***************************************************************************)
(* A step that changes one term changes the sum by as much.                *)
(***************************************************************************)
LEMMA SumUpdate ==
  ASSUME NEW S, IsFiniteSet(S), NEW f \in [S -> Int], NEW x \in S,
         NEW v \in Int
  PROVE  SumFunction([f EXCEPT ![x] = v]) = SumFunction(f) + v - f[x]
  <1> DEFINE g == [f EXCEPT ![x] = v]
  <1>1. SumFunction(f) = SumFunctionOnSet(f, S)
        /\ SumFunction(g) = SumFunctionOnSet(g, S)
    BY DEF SumFunction
  <1>2. /\ SumFunctionOnSet(f, S) = f[x] + SumFunctionOnSet(f, S \ {x})
        /\ SumFunctionOnSet(g, S) = g[x] + SumFunctionOnSet(g, S \ {x})
    BY SumTake
  <1>3. SumFunctionOnSet(f, S \ {x}) = SumFunctionOnSet(g, S \ {x})
    <2>1. \A y \in S \ {x} : f[y] \in Int /\ f[y] = g[y]
      OBVIOUS
    <2>2. IsFiniteSet(S \ {x})
      BY FS_Subset
    <2> HIDE DEF g
    <2> QED
      BY <2>1, <2>2, SumSame
  <1>4. SumFunctionOnSet(f, S \ {x}) \in Int
    BY SumInt
  <1> QED
    BY <1>1, <1>2, <1>3, <1>4

(***************************************************************************)
(* The sizes of disjoint parts of a set add up to no more than its size.   *)
(***************************************************************************)
LEMMA SumOfParts ==
  ASSUME NEW S, IsFiniteSet(S), NEW W, IsFiniteSet(W), NEW f, NEW F,
         \A x \in S : F[x] \subseteq W /\ Cardinality(F[x]) = f[x],
         \A x, y \in S : x # y => F[x] \cap F[y] = {}
  PROVE  SumFunctionOnSet(f, S) <= Cardinality(W)
  <1> DEFINE Q(T) == {w \in W : \E x \in T : w \in F[x]}
             P    == {T \in SUBSET S : SumFunctionOnSet(f, T) = Cardinality(Q(T))}
  <1>1. ASSUME NEW T \in SUBSET S, \A x \in T : T \ {x} \in P
        PROVE  T \in P
    <2>1. IsFiniteSet(T)
      BY FS_Subset
    <2>2. CASE T = {}
      <3>1. SumFunctionOnSet(f, T) = 0
        BY <2>2, SumEmpty
      <3>2. Q(T) = {}
        BY <2>2
      <3>3. Cardinality(Q(T)) = 0
        BY <3>2, FS_EmptySet
      <3> QED
        BY <3>1, <3>3
    <2>3. CASE T # {}
      <3> DEFINE y == First(T)
                 R == T \ {y}
      <3>1. y \in T /\ SumFunctionOnSet(f, T) = f[y] + SumFunctionOnSet(f, R)
        BY <2>1, <2>3, FirstIn, SumUnfold
      <3>2. SumFunctionOnSet(f, R) = Cardinality(Q(R))
        BY <1>1, <3>1
      <3>3. F[y] \subseteq W /\ Cardinality(F[y]) = f[y]
        BY <3>1
      <3>4. Q(T) = Q(R) \cup F[y]
        BY <3>1, <3>3
      <3>5. Q(R) \cap F[y] = {}
        BY <3>1
      <3>6. IsFiniteSet(F[y]) /\ IsFiniteSet(Q(R))
        <4>1. Q(R) \subseteq W
          OBVIOUS
        <4> HIDE DEF Q, y
        <4> QED
          BY <3>3, <4>1, FS_Subset
      <3> HIDE DEF y, R, Q
      <3>7. /\ Cardinality(Q(T)) = Cardinality(Q(R)) + Cardinality(F[y])
            /\ Cardinality(Q(R)) \in Nat /\ Cardinality(F[y]) \in Nat
        <4>1. Cardinality(Q(R) \cup F[y]) = Cardinality(Q(R)) + Cardinality(F[y])
                - Cardinality(Q(R) \cap F[y])
          BY <3>6, FS_Union
        <4>2. Cardinality(Q(R) \cap F[y]) = 0
          BY <3>5, FS_EmptySet
        <4>3. Cardinality(Q(R)) \in Nat /\ Cardinality(F[y]) \in Nat
          BY <3>6, FS_CardinalityType
        <4> QED
          BY <3>4, <4>1, <4>2, <4>3
      <3>8. SumFunctionOnSet(f, T) = Cardinality(Q(T))
        BY <3>1, <3>2, <3>3, <3>7
      <3> QED
        BY <3>8
    <2> QED
      BY <2>2, <2>3
  <1>2. Q(S) \subseteq W
    OBVIOUS
  <1>3. Cardinality(Q(S)) <= Cardinality(W)
    <2> HIDE DEF Q
    <2> QED
      BY <1>2, FS_Subset
  <1> HIDE DEF P
  <1>4. \A T \in SUBSET S : T \in P
    BY <1>1, SubsetInduction
  <1>5. SumFunctionOnSet(f, S) = Cardinality(Q(S))
    BY <1>4 DEF P
  <1> QED
    BY <1>3, <1>5

(***************************************************************************)
(* A sequence whose items differ has as many as their set.                 *)
(***************************************************************************)
LEMMA DistinctItems ==
  ASSUME NEW n \in Nat, NEW s, \A j, k \in 1 .. n : s[j] = s[k] => j = k
  PROVE  /\ IsFiniteSet({s[k] : k \in 1 .. n})
         /\ Cardinality({s[k] : k \in 1 .. n}) = n
  <1> DEFINE I == 1 .. n
             T == {s[k] : k \in I}
             g == [k \in I |-> s[k]]
  <1>1. IsFiniteSet(I) /\ Cardinality(I) = n
    BY FS_Interval
  <1>2. g \in [I -> T] /\ \A t \in T : \E k \in I : g[k] = t
    OBVIOUS
  <1>3. \A j, k \in I : g[j] = g[k] => j = k
    OBVIOUS
  <1>4. DOMAIN g = I
    OBVIOUS
  <1> HIDE DEF g, T, I
  <1>5. g \in Surjection(I, T) /\ g \in Injection(I, T)
    BY <1>2, <1>3, <1>4 DEF Surjection, Injection, IsInjective
  <1>6. IsFiniteSet(T) /\ Cardinality(T) = Cardinality(I)
    BY <1>1, <1>5, FS_Surjection
  <1> QED
    BY <1>1, <1>6 DEF T, I

(***************************************************************************)
(* The sums of the first n values of a sequence.                           *)
(***************************************************************************)
LEMMA SumNext ==
  ASSUME NEW n \in Nat \ {0}, NEW f, \A k \in 1 .. n : f[k] \in Int
  PROVE  /\ SumFunctionOnSet(f, 1 .. n) = SumFunctionOnSet(f, 1 .. (n - 1)) + f[n]
         /\ SumFunctionOnSet(f, 1 .. n) \in Int
         /\ SumFunctionOnSet(f, 1 .. (n - 1)) \in Int
  <1> DEFINE S == 1 .. n
             R == 1 .. (n - 1)
  <1>1. IsFiniteSet(S)
    <2>1. 1 \in Int /\ n \in Int
      OBVIOUS
    <2> QED
      BY <2>1, FS_Interval
  <1>2. /\ n \in S /\ S \ {n} = R /\ R \in SUBSET S /\ S \in SUBSET S
        /\ \A k \in S : f[k] \in Int
    OBVIOUS
  <1> HIDE DEF S, R
  <1>3. /\ SumFunctionOnSet(f, S) = f[n] + SumFunctionOnSet(f, S \ {n})
        /\ SumFunctionOnSet(f, S) \in Int /\ SumFunctionOnSet(f, R) \in Int
    BY <1>1, <1>2, SumTake, SumInt
  <1>4. SumFunctionOnSet(f, S \ {n}) = SumFunctionOnSet(f, R)
    BY <1>2, Zenon
  <1>5. SumFunctionOnSet(f, S) = SumFunctionOnSet(f, R) + f[n]
    BY <1>2, <1>3, <1>4
  <1> QED
    BY <1>3, <1>5 DEF S, R

LEMMA SumFirst == \A f : SumFunctionOnSet(f, 1 .. 0) = 0
  <1>1. 1 .. 0 = {}
    OBVIOUS
  <1> QED
    BY <1>1, SumEmpty

(***************************************************************************)
(* A multiple of the sum of the first n values of a sequence is g[n] if g  *)
(* starts at 0 and grows by that multiple of each value.                   *)
(***************************************************************************)
Accumulates(g, c, f, N) ==
  /\ \A k \in 1 .. N : f[k] \in Int
  /\ \A n \in 0 .. N : g[n] \in Int
  /\ g[0] = 0
  /\ \A n \in 1 .. N : g[n] = g[n - 1] + c * f[n]

LEMMA SumOfPrefix ==
  ASSUME NEW N \in Nat, NEW c \in Int, NEW f, NEW g, Accumulates(g, c, f, N)
  PROVE  c * SumFunctionOnSet(f, 1 .. N) = g[N]
  <1> DEFINE P(n) == SumFunctionOnSet(f, 1 .. n)
             Wrong == {n \in 0 .. N : c * P(n) # g[n]}
  <1> USE DEF Accumulates
  <1>1. P(0) = 0
    BY SumFirst
  <1>2. ASSUME NEW n \in 1 .. N
        PROVE  P(n) = P(n - 1) + f[n] /\ P(n) \in Int /\ P(n - 1) \in Int
    BY SumNext
  <1>3. ASSUME NEW n \in 0 .. N PROVE P(n) \in Int
    <2>1. n = 0 \/ n \in 1 .. N
      OBVIOUS
    <2> HIDE DEF P
    <2> QED
      BY <1>1, <1>2, <2>1
  <1> HIDE DEF P
  <1>4. Wrong = {}
    <2>1. SUFFICES ASSUME Wrong # {} PROVE FALSE
      OBVIOUS
    <2>2. PICK n \in Wrong : \A m \in Wrong : n <= m
      <3>1. Wrong \subseteq Nat
        OBVIOUS
      <3> HIDE DEF Wrong
      <3> QED
        BY <2>1, <3>1, LeastNatural
    <2>3. n \in 0 .. N /\ c * P(n) # g[n]
      OBVIOUS
    <2>4. n # 0
      BY <1>1, <2>3
    <2>5. n \in 1 .. N /\ n - 1 \in 0 .. N
      BY <2>3, <2>4
    <2>6. c * P(n - 1) = g[n - 1]
      <3>1. n - 1 \notin Wrong
        BY <2>2, <2>3
      <3> QED
        BY <2>5, <3>1
    <2>7. P(n - 1) \in Int /\ f[n] \in Int /\ P(n) = P(n - 1) + f[n]
      BY <1>2, <2>5
    <2>8. c * P(n) = c * P(n - 1) + c * f[n]
      BY <2>7
    <2>9. c * P(n) = g[n]
      BY <2>5, <2>6, <2>8
    <2> QED
      BY <2>3, <2>9
  <1> QED
    BY <1>4 DEF P

-----------------------------------------------------------------------------
(***************************************************************************)
(* Division facts the schedule rests on.                                   *)
(***************************************************************************)
LEMMA DivBounds ==
  ASSUME NEW a \in Nat, NEW b \in Nat \ {0}
  PROVE  /\ a \div b \in Nat
         /\ b * (a \div b) <= a
         /\ a < b * (a \div b) + b
  OBVIOUS

(***************************************************************************)
(* A factor the search accepts is positive and leaves each repetition fewer*)
(* packets than twice the squared rate.                                    *)
(***************************************************************************)
LEMMA SplitFactorBounds ==
  ASSUME NEW n \in Nat, NEW d \in Nat \ {0}, NEW l \in SplitFactors(n, d)
  PROVE  /\ l \in Nat \ {0}
         /\ n < 2 * (d * d) * l
  <1> DEFINE c == d * d
  <1>1. c \in Nat \ {0}
    OBVIOUS
  <1>2. CASE n < 2 * c
    BY <1>1, <1>2 DEF SplitFactors
  <1>3. CASE ~ (n < 2 * c)
    <2>1. l \in 1 .. n /\ n < 2 * c * l
      BY <1>3 DEF SplitFactors, Accepted
    <2> QED
      BY <2>1, <1>1
  <1> QED
    BY <1>2, <1>3

(***************************************************************************)
(* The search of poissonRun ends for every buffer size but one: with       *)
(* exactly twice the squared rate no factor is accepted.                   *)
(***************************************************************************)
THEOREM SplitExists ==
  ASSUME NEW n \in Nat, NEW d \in Nat \ {0}
  PROVE  SplitFactors(n, d) = {} <=> n = 2 * (d * d)
  <1> DEFINE c == d * d
             b == 2 * c
             i == (n \div b) + 1
  <1>1. c \in Nat \ {0} /\ b \in Nat \ {0}
    OBVIOUS
  <1>2. CASE n < b
    BY <1>1, <1>2 DEF SplitFactors
  <1>3. CASE n > b
    <2>1. /\ n \div b \in Nat \ {0}
          /\ b * (n \div b) <= n
          /\ n < b * i
      <3> HIDE DEF b
      <3>1. n \div b \in Nat /\ b * (n \div b) <= n /\ n < b * (n \div b) + b
        BY <1>1, DivBounds
      <3>2. n \div b # 0
        BY <1>1, <1>3, <3>1
      <3>3. b * i = b * (n \div b) + b
        BY <1>1, <3>1
      <3> QED
        BY <3>1, <3>2, <3>3
    <2>2. i \in Nat \ {0} /\ n < 2 * c * i
      BY <2>1, <1>1
    <2>3. c * i < n
      <3> DEFINE k == n \div b
      <3>1. k \in Nat \ {0} /\ 2 * (c * k) <= n
        BY <2>1, <1>1
      <3>2. CASE k = 1
        BY <3>2, <1>1, <1>3
      <3>3. CASE k > 1
        <4>1. c * k > c
          BY <3>3, <3>1, <1>1
        <4> HIDE DEF k, c
        <4>2. c * (k + 1) = c * k + c
          BY <3>1, <1>1
        <4> QED
          BY <3>1, <4>1, <4>2, <1>1 DEF k
      <3> QED
        BY <3>1, <3>2, <3>3
    <2>4. i \in 1 .. n
      BY <2>2, <2>3, <1>1
    <2>5. \A j \in 1 .. (i - 1) : ~ Accepted(n, c, j)
      <3> SUFFICES ASSUME NEW j \in 1 .. (n \div b)
                   PROVE  2 * c * j <= n
        BY <2>1 DEF Accepted
      <3>1. b * j <= b * (n \div b)
        BY <1>1, <2>1
      <3> QED
        BY <3>1, <2>1, <1>1
    <2>6. i \in SplitFactors(n, d)
      BY <1>3, <2>2, <2>3, <2>4, <2>5 DEF SplitFactors, Accepted
    <2> QED
      BY <2>6, <1>3, <1>1
  <1>4. CASE n = b
    <2>1. ASSUME NEW i0 \in 1 .. n, c * i0 < n, n < 2 * c * i0
          PROVE  FALSE
      <3>1. CASE i0 = 1
        BY <3>1, <2>1, <1>4, <1>1
      <3>2. CASE i0 >= 2
        <4>1. c * i0 >= c * 2
          BY <3>2, <1>1
        <4> QED
          BY <4>1, <2>1, <1>4, <1>1
      <3> QED
        BY <3>1, <3>2
    <2>2. SplitFactors(n, d) = {}
      BY <2>1, <1>4, <1>1 DEF SplitFactors, Accepted
    <2> QED
      BY <2>2, <1>4
  <1> QED
    BY <1>1, <1>2, <1>3, <1>4

(***************************************************************************)
(* One round of the schedule: a non-empty sequence of positive bursts.     *)
(***************************************************************************)
LEMMA OneRoundPositive ==
  ASSUME NEW n \in Nat, NEW d \in Nat \ {0}, n < 2 * (d * d)
  PROVE  /\ OneRound(n, d) \in Seq(Nat \ {0})
         /\ Len(OneRound(n, d)) \in Nat \ {0}
  <1> DEFINE m == n \div d
  <1>1. m \in Nat /\ m < 2 * d
    <2>1. m \in Nat /\ d * m <= n
      BY DivBounds
    <2>2. ASSUME m >= 2 * d PROVE FALSE
      <3>1. d * m >= d * (2 * d)
        BY <2>1, <2>2
      <3> QED
        BY <3>1, <2>1
    <2> QED
      BY <2>1, <2>2
  <1> HIDE DEF m
  <1>2. CASE (m \div d) % 2 = 0
    <2> DEFINE h == m \div 2
               up == [k \in 1 .. h |-> d + k]
               below == [k \in 1 .. h |-> d - h + k]
    <2>1. h \in Nat /\ h < d
      BY <1>1
    <2> HIDE DEF h
    <2>2. up \in Seq(Nat \ {0}) /\ below \in Seq(Nat \ {0}) /\ Len(below) = h
      BY <2>1
    <2>3. SubSeq(below, 1, h - 1) \in Seq(Nat \ {0})
      BY <2>1, <2>2
    <2>4. OneRound(n, d) = << d >> \o up \o SubSeq(below, 1, h - 1)
      BY <1>2 DEF OneRound, EvenSchedule, m, h
    <2> HIDE DEF up, below
    <2>5. << d >> \in Seq(Nat \ {0}) /\ Len(<< d >>) = 1
      OBVIOUS
    <2> QED
      BY <2>2, <2>3, <2>4, <2>5
  <1>3. CASE ~ ((m \div d) % 2 = 0)
    <2> DEFINE h == (m - 1) \div 2
               up == [k \in 1 .. h |-> d + 1 + k]
               below == [k \in 1 .. (h + 1) |-> d - h - 1 + k]
    <2>1. m >= 1
      <3>1. m = 0 => (m \div d) % 2 = 0
        OBVIOUS
      <3> QED
        BY <3>1, <1>1, <1>3
    <2>2. h \in Nat /\ h < d
      BY <1>1, <2>1
    <2> HIDE DEF h
    <2>3. up \in Seq(Nat \ {0}) /\ below \in Seq(Nat \ {0})
      BY <2>2
    <2>4. OneRound(n, d) = << d + 1 >> \o up \o below
      BY <1>3 DEF OneRound, OddSchedule, m, h
    <2> HIDE DEF up, below
    <2>5. << d + 1 >> \in Seq(Nat \ {0}) /\ Len(<< d + 1 >>) = 1
      OBVIOUS
    <2> QED
      BY <2>3, <2>4, <2>5
  <1> QED
    BY <1>2, <1>3

(***************************************************************************)
(* Every burst poissonRun plans pushes at least one packet, whatever the   *)
(* buffer and the rate: a planned round never leaves the buffer as it was. *)
(***************************************************************************)
THEOREM PlannedBurstsPositive ==
  ASSUME NEW n \in Nat, NEW d \in Nat \ {0}, NEW l \in SplitFactors(n, d)
  PROVE  /\ Schedule(n, d, l) \in Seq(Nat \ {0})
         /\ Schedule(n, d, l) # << >>
  <1> DEFINE round == OneRound(n \div l, d)
             len   == Len(round)
  <1>1. l \in Nat \ {0} /\ n < 2 * (d * d) * l
    BY SplitFactorBounds
  <1>2. n \div l \in Nat /\ n \div l < 2 * (d * d)
    <2> DEFINE b == 2 * (d * d)
    <2>1. b \in Nat /\ n < b * l
      BY <1>1
    <2> HIDE DEF b
    <2>2. n \div l \in Nat /\ l * (n \div l) <= n
      BY <1>1, DivBounds
    <2>3. ASSUME n \div l >= b PROVE FALSE
      <3>1. l * (n \div l) >= l * b
        BY <1>1, <2>1, <2>2, <2>3
      <3> QED
        BY <3>1, <2>1, <2>2, <1>1
    <2> QED
      BY <2>1, <2>2, <2>3 DEF b
  <1>3. round \in Seq(Nat \ {0}) /\ len \in Nat \ {0}
    BY <1>2, OneRoundPositive
  <1> HIDE DEF round, len
  <1>4. l * len \in Nat \ {0}
    BY <1>1, <1>3
  <1>5. Schedule(n, d, l)
          = [k \in 1 .. (l * len) |-> round[((k - 1) % len) + 1]]
    BY DEF Schedule, round, len
  <1>6. \A k \in 1 .. (l * len) : round[((k - 1) % len) + 1] \in Nat \ {0}
    <2> SUFFICES ASSUME NEW k \in 1 .. (l * len)
                 PROVE  ((k - 1) % len) + 1 \in 1 .. Len(round)
      BY <1>3
    <2>1. k - 1 \in Nat
      BY <1>4
    <2> QED
      BY <2>1, <1>3 DEF len
  <1> QED
    BY <1>4, <1>5, <1>6
=============================================================================
