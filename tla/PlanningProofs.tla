--------------------------- MODULE PlanningProofs ---------------------------
(* Proofs about Planning for every setting and every finite topology. What   *)
(* the community modules define by recursion, the sum of a function and the  *)
(* concatenation of a sequence of sequences, is described first, by lemmas   *)
(* that look at a least counterexample.                                      *)
EXTENDS Planning, FiniteSetTheorems, SequenceTheorems, NaturalsInduction,
        WellFoundedInduction, TLAPS

(* Every set of natural numbers that is not empty has a least element.       *)
LEMMA LeastElement ==
    ASSUME NEW T, T \subseteq Nat, T # {}
    PROVE  \E x \in T : \A y \in T : x <= y
<1> DEFINE R == {ss \in Nat \X Nat : ss[1] < ss[2]}
<1>1. IsWellFoundedOn(R, Nat)
  BY NatLessThanWellFounded DEF OpToRel
<1>2. \A x, y \in Nat : x > y => <<y, x>> \in R
  OBVIOUS
<1> HIDE DEF R
<1>3. PICK x \in T : \A y \in T : ~(<<y, x>> \in R)
  BY <1>1, WFMin, Zenon
<1>4. ASSUME NEW y \in T PROVE x <= y
  <2>1. x \in Nat /\ y \in Nat
    OBVIOUS
  <2>2. ~(x > y)
    BY <2>1, <1>2, <1>3
  <2> QED
    BY <2>1, <2>2
<1> QED
  BY <1>4

(* Of finite sets, a smallest one: none of them is a proper subset of it.    *)
LEMMA SmallestSet ==
    ASSUME NEW F, F # {}, \A S \in F : IsFiniteSet(S)
    PROVE  \E S \in F : \A T \in F : T \subseteq S => T = S
<1> DEFINE N == {Cardinality(S) : S \in F}
<1>1. N \subseteq Nat /\ N # {}
  BY FS_CardinalityType
<1>2. PICK n \in N : \A m \in N : n <= m
  BY <1>1, LeastElement
<1>3. PICK S \in F : n = Cardinality(S)
  BY <1>2
<1>4. ASSUME NEW T \in F, T \subseteq S PROVE T = S
  <2>1. Cardinality(S) <= Cardinality(T)
    BY <1>2, <1>3
  <2>2. Cardinality(T) <= Cardinality(S) /\ (Cardinality(S) = Cardinality(T) => S = T)
    BY <1>4, FS_Subset
  <2>3. Cardinality(S) \in Nat /\ Cardinality(T) \in Nat
    BY <1>4, FS_CardinalityType
  <2> QED
    BY <2>1, <2>2, <2>3
<1> QED
  BY <1>4

-----------------------------------------------------------------------------
(* Sums                                                                      *)

(* SumFunctionOnSet takes one element after the other from a set.            *)
Pick(s) == CHOOSE x \in s : TRUE
IsSum(sum, f, S) ==
    sum = [s \in SUBSET S |-> IF s = {} THEN 0 ELSE f[Pick(s)] + sum[s \ {Pick(s)}]]
SumOn(f, S) == SumFunctionOnSet(f, S)

(* The element that the sum takes first is one of the set.                   *)
LEMMA PickIn == ASSUME NEW S, S # {} PROVE Pick(S) \in S
BY DEF Pick

(* Two functions that meet the recursive equation agree on finite sets.      *)
LEMMA SumUnique ==
    ASSUME NEW f, NEW S, NEW T, NEW g, NEW h, IsSum(g, f, S), IsSum(h, f, T),
           NEW R, R \subseteq S, R \subseteq T, IsFiniteSet(R)
    PROVE  g[R] = h[R]
<1> DEFINE F == {Q \in SUBSET R : g[Q] # h[Q]}
<1>1. SUFFICES ASSUME F # {} PROVE FALSE
  OBVIOUS
<1>2. PICK Q \in F : \A P \in F : P \subseteq Q => P = Q
  <2>1. \A Q \in F : IsFiniteSet(Q)
    BY FS_Subset
  <2> HIDE DEF F
  <2> QED
    BY <1>1, <2>1, SmallestSet
<1>3. CASE Q = {}
  BY <1>3 DEF IsSum
<1>4. CASE Q # {}
  <2> DEFINE c == Pick(Q)
  <2>1. c \in Q
    BY <1>4, PickIn
  <2>2. g[Q \ {c}] = h[Q \ {c}]
    BY <1>2, <2>1
  <2>3. g[Q] = f[c] + g[Q \ {c}] /\ h[Q] = f[c] + h[Q \ {c}]
    BY <1>4 DEF IsSum
  <2> QED
    BY <2>2, <2>3
<1> QED
  BY <1>3, <1>4

(* The sum of the community modules is the one that meets it.                *)
LEMMA SumIs ==
    ASSUME NEW f, NEW S, NEW g, IsSum(g, f, S), IsFiniteSet(S)
    PROVE  SumOn(f, S) = g[S]
<1>1. PICK h : IsSum(h, f, S) /\ SumOn(f, S) = h[S]
  BY DEF IsSum, Pick, SumOn, SumFunctionOnSet, FoldFunctionOnSet, MapThenFoldSet
<1> QED
  BY <1>1, SumUnique

(* Over a finite set such a function exists.                                 *)
LEMMA SumExists ==
    ASSUME NEW f, NEW S, IsFiniteSet(S)
    PROVE  \E g : IsSum(g, f, S)
<1> DEFINE F == {T \in SUBSET S : ~ \E g : IsSum(g, f, T)}
<1>1. SUFFICES ASSUME F # {} PROVE FALSE
  BY Zenon
<1>2. \A T \in F : IsFiniteSet(T)
  BY FS_Subset
<1>3. PICK T \in F : \A P \in F : P \subseteq T => P = T
  <2> HIDE DEF F
  <2> QED
    BY <1>1, <1>2, SmallestSet
<1> DEFINE sum == [s \in SUBSET T |->
                     IF s = {} THEN 0 ELSE f[Pick(s)] + SumOn(f, s \ {Pick(s)})]
<1>4. ASSUME NEW s \in SUBSET T, s # {}
      PROVE  sum[s \ {Pick(s)}] = SumOn(f, s \ {Pick(s)})
  <2> DEFINE r == s \ {Pick(s)}
  <2>1. r \in SUBSET T /\ r # T /\ r \in SUBSET S /\ IsFiniteSet(r)
    BY <1>2, <1>4, PickIn, FS_Subset
  <2>2. PICK g : IsSum(g, f, r)
    BY <1>3, <2>1
  <2>3. SumOn(f, r) = g[r]
    BY <2>1, <2>2, SumIs
  <2>4. CASE r = {}
    <3>1. g[r] = 0
      BY <2>2, <2>4 DEF IsSum
    <3>2. sum[r] = 0
      BY <2>1, <2>4
    <3> QED
      BY <3>1, <3>2, <2>3
  <2>5. CASE r # {}
    <3> DEFINE q == r \ {Pick(r)}
    <3>1. q \in SUBSET T /\ q # T /\ q \in SUBSET S /\ q \subseteq r /\ IsFiniteSet(q)
      BY <2>1, <2>5, PickIn, FS_Subset
    <3>2. PICK h : IsSum(h, f, q)
      BY <1>3, <3>1
    <3>3. SumOn(f, q) = h[q] /\ h[q] = g[q]
      BY <2>2, <3>1, <3>2, SumIs, SumUnique
    <3>4. g[r] = f[Pick(r)] + g[q]
      BY <2>2, <2>5 DEF IsSum
    <3>5. sum[r] = f[Pick(r)] + SumOn(f, q)
      BY <2>1, <2>5
    <3> QED
      BY <2>3, <3>3, <3>4, <3>5
  <2> QED
    BY <2>4, <2>5
<1>5. IsSum(sum, f, T)
  <2> DEFINE e(s) == f[Pick(s)] + sum[s \ {Pick(s)}]
  <2>1. \A s \in SUBSET T : (IF s = {} THEN 0 ELSE f[Pick(s)] + SumOn(f, s \ {Pick(s)}))
                          = (IF s = {} THEN 0 ELSE f[Pick(s)] + sum[s \ {Pick(s)}])
    BY <1>4, Zenon
  <2> QED
    BY <2>1, Zenon DEF IsSum
<1> QED
  BY <1>3, <1>5

(* The equation of the sum, with the element that it takes first.            *)
LEMMA SumPick ==
    ASSUME NEW f, NEW S, IsFiniteSet(S)
    PROVE  SumOn(f, S) = IF S = {} THEN 0 ELSE f[Pick(S)] + SumOn(f, S \ {Pick(S)})
<1>1. PICK g : IsSum(g, f, S)
  BY SumExists
<1>2. SumOn(f, S) = g[S]
  BY <1>1, SumIs
<1>3. CASE S = {}
  BY <1>1, <1>2, <1>3 DEF IsSum
<1>4. CASE S # {}
  <2> DEFINE R == S \ {Pick(S)}
  <2>1. R \subseteq S /\ IsFiniteSet(R)
    BY FS_Subset
  <2>2. PICK h : IsSum(h, f, R)
    BY <2>1, SumExists
  <2>3. SumOn(f, R) = g[R]
    BY <1>1, <2>1, <2>2, SumIs, SumUnique
  <2>4. g[S] = f[Pick(S)] + g[R]
    BY <1>1, <1>4 DEF IsSum
  <2> QED
    BY <1>2, <1>4, <2>3, <2>4
<1> QED
  BY <1>3, <1>4

(* Any summand may be taken out.                                             *)
LEMMA SumRemove ==
    ASSUME NEW f, NEW S, IsFiniteSet(S), \A x \in S : f[x] \in Nat
    PROVE  /\ SumOn(f, S) \in Nat
           /\ \A x \in S : SumOn(f, S) = f[x] + SumOn(f, S \ {x})
<1> DEFINE Good(T) == /\ SumOn(f, T) \in Nat
                      /\ \A x \in T : SumOn(f, T) = f[x] + SumOn(f, T \ {x})
           F == {T \in SUBSET S : ~Good(T)}
<1>1. SUFFICES ASSUME F # {} PROVE FALSE
  OBVIOUS
<1>2. \A T \in SUBSET S : IsFiniteSet(T)
  BY FS_Subset
<1>3. PICK T \in F : \A P \in F : P \subseteq T => P = T
  <2>1. \A T \in F : IsFiniteSet(T)
    BY <1>2
  <2> HIDE DEF F
  <2> QED
    BY <1>1, <2>1, SmallestSet
<1>4. \A P \in SUBSET T : P # T => Good(P)
  BY <1>3
<1> HIDE DEF Good
<1>5. SumOn(f, T) = IF T = {} THEN 0 ELSE f[Pick(T)] + SumOn(f, T \ {Pick(T)})
  BY <1>2, SumPick
<1>6. CASE T = {}
  BY <1>3, <1>5, <1>6 DEF Good
<1>7. CASE T # {}
  <2> DEFINE c == Pick(T)
  <2>1. c \in T /\ T \subseteq S
    BY <1>7, PickIn
  <2> HIDE DEF c
  <2>2. Good(T \ {c}) /\ f[c] \in Nat
    BY <1>4, <2>1
  <2>3. SumOn(f, T) = f[c] + SumOn(f, T \ {c}) /\ SumOn(f, T) \in Nat
    BY <1>5, <1>7, <2>2 DEF c, Good
  <2>4. ASSUME NEW x \in T, x # c
        PROVE  SumOn(f, T) = f[x] + SumOn(f, T \ {x})
    <3>1. Good(T \ {x}) /\ f[x] \in Nat
      BY <1>4, <2>1
    <3> DEFINE R == T \ {c, x}
    <3>2. R = (T \ {c}) \ {x} /\ R = (T \ {x}) \ {c} /\ Good(R)
      BY <1>4, <2>1
    <3>3. SumOn(f, T \ {c}) = f[x] + SumOn(f, R)
      BY <2>2, <2>4, <3>2 DEF Good
    <3>4. SumOn(f, T \ {x}) = f[c] + SumOn(f, R)
      BY <2>1, <2>4, <3>1, <3>2 DEF Good
    <3> QED
      BY <2>2, <2>3, <3>1, <3>2, <3>3, <3>4 DEF Good
  <2> QED
    BY <1>3, <2>3, <2>4 DEF Good
<1> QED
  BY <1>6, <1>7

(* The empty sum.                                                            *)
LEMMA SumEmpty == ASSUME NEW f PROVE SumOn(f, {}) = 0
BY SumPick, FS_EmptySet

(* A function's sum is the sum over its domain.                              *)
LEMMA SumFunctionIs == ASSUME NEW f PROVE SumFunction(f) = SumOn(f, DOMAIN f)
BY DEF SumFunction, SumOn

(* Equal summands, or summands in a fixed proportion.                        *)
LEMMA SumScale ==
    ASSUME NEW f, NEW g, NEW S, IsFiniteSet(S), NEW k \in Nat,
           \A x \in S : f[x] \in Nat /\ g[x] = k * f[x]
    PROVE  SumOn(g, S) = k * SumOn(f, S)
<1> DEFINE F == {R \in SUBSET S : SumOn(g, R) # k * SumOn(f, R)}
<1>1. SUFFICES ASSUME F # {} PROVE FALSE
  OBVIOUS
<1>2. \A R \in SUBSET S : IsFiniteSet(R)
  BY FS_Subset
<1>3. PICK R \in F : \A P \in F : P \subseteq R => P = R
  <2>1. \A R \in F : IsFiniteSet(R)
    BY <1>2
  <2> HIDE DEF F
  <2> QED
    BY <1>1, <2>1, SmallestSet
<1>4. CASE R = {}
  BY <1>3, <1>4, SumEmpty
<1>5. ASSUME NEW c \in R PROVE FALSE
  <2> DEFINE Q == R \ {c}
  <2>1. /\ IsFiniteSet(R) /\ IsFiniteSet(Q) /\ c \in S
        /\ \A x \in R : f[x] \in Nat /\ g[x] \in Nat
        /\ SumOn(g, Q) = k * SumOn(f, Q)
    BY <1>2, <1>3, <1>5
  <2>2. SumOn(f, R) = f[c] + SumOn(f, Q) /\ SumOn(g, R) = g[c] + SumOn(g, Q)
    <3>1. SumOn(f, R) = f[c] + SumOn(f, Q)
      BY <1>5, <2>1, SumRemove
    <3>2. SumOn(g, R) = g[c] + SumOn(g, Q)
      BY <1>5, <2>1, SumRemove
    <3> QED
      BY <3>1, <3>2
  <2>3. SumOn(f, Q) \in Nat /\ f[c] \in Nat /\ g[c] = k * f[c]
    BY <2>1, SumRemove
  <2>4. k * (f[c] + SumOn(f, Q)) = k * f[c] + k * SumOn(f, Q)
    <3> HIDE DEF Q
    <3> QED
      BY <2>3
  <2> QED
    BY <1>3, <2>1, <2>2, <2>3, <2>4
<1> QED
  BY <1>4, <1>5

(* Equal summands have equal sums.                                           *)
LEMMA SumAgree ==
    ASSUME NEW f, NEW g, NEW S, IsFiniteSet(S), \A x \in S : f[x] \in Nat /\ g[x] = f[x]
    PROVE  SumOn(g, S) = SumOn(f, S)
<1>1. SumOn(g, S) = 1 * SumOn(f, S)
  BY SumScale
<1> QED
  BY <1>1, SumRemove

(* Summands that are zero may be left out.                                   *)
LEMMA SumNonzero ==
    ASSUME NEW f, NEW S, IsFiniteSet(S), \A x \in S : f[x] \in Nat,
           NEW R, R \subseteq S, \A x \in S \ R : f[x] = 0
    PROVE  SumOn(f, S) = SumOn(f, R)
<1> DEFINE F == {Q \in SUBSET S : R \subseteq Q /\ SumOn(f, Q) # SumOn(f, R)}
<1>1. SUFFICES ASSUME F # {} PROVE FALSE
  OBVIOUS
<1>2. \A Q \in SUBSET S : IsFiniteSet(Q)
  BY FS_Subset
<1>3. PICK Q \in F : \A P \in F : P \subseteq Q => P = Q
  <2>1. \A Q \in F : IsFiniteSet(Q)
    BY <1>2
  <2> HIDE DEF F
  <2> QED
    BY <1>1, <2>1, SmallestSet
<1>4. PICK c \in Q : c \notin R
  BY <1>3
<1> DEFINE P == Q \ {c}
<1>5. SumOn(f, P) = SumOn(f, R)
  BY <1>3, <1>4
<1>6. IsFiniteSet(Q) /\ (\A x \in Q : f[x] \in Nat) /\ f[c] = 0 /\ IsFiniteSet(P)
  BY <1>2, <1>3, <1>4
<1>7. SumOn(f, Q) = f[c] + SumOn(f, P) /\ SumOn(f, P) \in Nat
  BY <1>6, SumRemove
<1> QED
  BY <1>3, <1>5, <1>6, <1>7

(* The same summands under other names.                                      *)
LEMMA SumRename ==
    ASSUME NEW f, NEW g, NEW b, NEW S, IsFiniteSet(S), NEW T, T = {b[x] : x \in S},
           \A x \in S : f[b[x]] \in Nat /\ g[x] = f[b[x]],
           \A x \in S, y \in S : b[x] = b[y] => x = y
    PROVE  SumOn(g, S) = SumOn(f, T)
<1> DEFINE Im(R) == {b[x] : x \in R}
           F == {R \in SUBSET S : SumOn(g, R) # SumOn(f, Im(R))}
<1>1. SUFFICES ASSUME F # {} PROVE FALSE
  OBVIOUS
<1>2. \A R \in SUBSET S : IsFiniteSet(R) /\ IsFiniteSet(Im(R))
  <2> SUFFICES ASSUME NEW R \in SUBSET S PROVE IsFiniteSet(R) /\ IsFiniteSet(Im(R))
    OBVIOUS
  <2>1. IsFiniteSet(R)
    BY FS_Subset
  <2>2. [x \in R |-> b[x]] \in Surjection(R, Im(R))
    BY DEF Surjection
  <2> QED
    BY <2>1, <2>2, FS_Surjection
<1>3. PICK R \in F : \A P \in F : P \subseteq R => P = R
  <2>1. \A R \in F : IsFiniteSet(R)
    BY <1>2
  <2> HIDE DEF F
  <2> QED
    BY <1>1, <2>1, SmallestSet
<1>4. CASE R = {}
  <2>1. Im(R) = {}
    BY <1>4
  <2> QED
    BY <1>3, <1>4, <2>1, SumEmpty
<1>5. ASSUME NEW c \in R PROVE FALSE
  <2> DEFINE Q == R \ {c}
  <2>1. c \in S /\ Im(Q) = Im(R) \ {b[c]} /\ b[c] \in Im(R)
    BY <1>3, <1>5
  <2>2. SumOn(g, Q) = SumOn(f, Im(Q))
    BY <1>3, <1>5
  <2>3. /\ IsFiniteSet(R) /\ \A x \in R : g[x] \in Nat
        /\ IsFiniteSet(Im(R)) /\ \A y \in Im(R) : f[y] \in Nat
    <3>1. R \in SUBSET S
      BY <1>3
    <3>2. \A x \in R : g[x] \in Nat
      BY <3>1
    <3>3. \A y \in Im(R) : f[y] \in Nat
      BY <3>1
    <3>4. IsFiniteSet(R) /\ IsFiniteSet(Im(R))
      <4> HIDE DEF Im
      <4> QED
        BY <1>2, <3>1
    <3> QED
      BY <3>2, <3>3, <3>4
  <2>4. SumOn(g, R) = g[c] + SumOn(g, Q)
    BY <1>5, <2>3, SumRemove
  <2>5. SumOn(f, Im(R)) = f[b[c]] + SumOn(f, Im(R) \ {b[c]})
    <3> HIDE DEF Im
    <3> QED
      BY <2>1, <2>3, SumRemove
  <2>6. g[c] = f[b[c]] /\ SumOn(g, R) # SumOn(f, Im(R))
    BY <1>3, <2>1
  <2> HIDE DEF Im, Q
  <2> QED
    BY <2>1, <2>2, <2>4, <2>5, <2>6
<1> QED
  BY <1>4, <1>5

(* A sum of sums: T is divided by k into a part for each s in S.             *)
LEMMA SumParts ==
    ASSUME NEW f, NEW k, NEW S, IsFiniteSet(S), NEW T, IsFiniteSet(T),
           \A t \in T : f[t] \in Nat /\ k[t] \in S
    PROVE  SumOn([s \in S |-> SumOn(f, {t \in T : k[t] = s})], S) = SumOn(f, T)
<1> DEFINE Part(R, s) == {t \in R : k[t] = s}
           h(R) == [s \in S |-> SumOn(f, Part(R, s))]
           F == {R \in SUBSET T : SumOn(h(R), S) # SumOn(f, R)}
<1>1. SUFFICES ASSUME F # {} PROVE FALSE
  OBVIOUS
<1>2. \A R \in SUBSET T : IsFiniteSet(R)
  BY FS_Subset
<1>3. PICK R \in F : \A P \in F : P \subseteq R => P = R
  <2>1. \A R \in F : IsFiniteSet(R)
    BY <1>2
  <2> HIDE DEF F
  <2> QED
    BY <1>1, <2>1, SmallestSet
<1>4. \A Q \in SUBSET T : /\ SumOn(f, Q) \in Nat
                          /\ \A x \in Q : SumOn(f, Q) = f[x] + SumOn(f, Q \ {x})
  BY <1>2, SumRemove
<1>5. \A Q \in SUBSET T, s \in S : h(Q)[s] = SumOn(f, Part(Q, s)) /\ h(Q)[s] \in Nat
  BY <1>4
<1>6. CASE R = {}
  <2>1. \A s \in S : h(R)[s] = 0
    BY <1>6, SumEmpty
  <2> HIDE DEF h
  <2>2. SumOn(h(R), S) = SumOn(h(R), {})
    BY <2>1, SumNonzero
  <2> QED
    BY <1>3, <1>6, <2>2, SumEmpty
<1>7. ASSUME NEW c \in R PROVE FALSE
  <2> DEFINE Q == R \ {c}
             a == k[c]
  <2>1. Q \in SUBSET T /\ R \in SUBSET T /\ c \in T /\ a \in S
    BY <1>3, <1>7
  <2>2. SumOn(h(Q), S) = SumOn(f, Q)
    BY <1>3, <1>7
  <2>3. \A s \in S \ {a} : Part(R, s) = Part(Q, s)
    OBVIOUS
  <2>4. Part(Q, a) = Part(R, a) \ {c} /\ c \in Part(R, a) /\ Part(R, a) \in SUBSET T
    BY <1>7, <2>1
  <2>5. SumOn(f, Part(R, a)) = f[c] + SumOn(f, Part(Q, a))
    <3> HIDE DEF Part, h
    <3>1. \A x \in Part(R, a) :
             SumOn(f, Part(R, a)) = f[x] + SumOn(f, Part(R, a) \ {x})
      BY <1>4, <2>4
    <3>2. SumOn(f, Part(R, a)) = f[c] + SumOn(f, Part(R, a) \ {c})
      BY <2>4, <3>1
    <3> QED
      BY <2>4, <3>2
  <2>6. h(R)[a] = f[c] + h(Q)[a]
    BY <2>1, <2>5
  <2>7. \A s \in S \ {a} : h(R)[s] = h(Q)[s]
    BY <2>3
  <2>8. \A s \in S : h(R)[s] \in Nat /\ h(Q)[s] \in Nat
    BY <1>5, <2>1
  <2> HIDE DEF h, Q
  <2>9. SumOn(h(R), S) = h(R)[a] + SumOn(h(R), S \ {a})
    BY <2>1, <2>8, SumRemove
  <2>10. SumOn(h(Q), S) = h(Q)[a] + SumOn(h(Q), S \ {a})
    BY <2>1, <2>8, SumRemove
  <2>11. IsFiniteSet(S \ {a})
    BY FS_Subset
  <2>12. SumOn(h(R), S \ {a}) = SumOn(h(Q), S \ {a}) /\ SumOn(h(Q), S \ {a}) \in Nat
    BY <2>7, <2>8, <2>11, SumAgree, SumRemove
  <2>13. SumOn(f, R) = f[c] + SumOn(f, Q) /\ f[c] \in Nat /\ h(Q)[a] \in Nat
    BY <1>4, <1>7, <2>1, <2>8 DEF Q
  <2> QED
    BY <1>3, <2>2, <2>6, <2>9, <2>10, <2>12, <2>13
<1> QED
  BY <1>6, <1>7

-----------------------------------------------------------------------------
(* Lists of lists                                                            *)

IsFlat(flat, seqs, n) ==
    flat = [i \in 1 .. n |-> IF i = 1 THEN seqs[i] ELSE flat[i - 1] \o seqs[i]]

(* The recursive equation of the concatenation has a solution.               *)
LEMMA FlatExists ==
    ASSUME NEW seqs, NEW n \in Nat
    PROVE  \E g : IsFlat(g, seqs, n)
<1> DEFINE T == {k \in Nat : ~ \E g : IsFlat(g, seqs, k)}
<1>1. SUFFICES ASSUME T # {} PROVE FALSE
  BY Zenon
<1>2. PICK k \in T : \A j \in T : k <= j
  <2>1. T \subseteq Nat
    OBVIOUS
  <2> HIDE DEF T
  <2> QED
    BY <1>1, <2>1, LeastElement
<1>3. CASE k = 0
  <2> DEFINE e == [i \in 1 .. 0 |-> IF i = 1 THEN seqs[i] ELSE <<>>]
  <2>1. IsFlat(e, seqs, 0)
    BY DEF IsFlat
  <2> QED
    BY <1>2, <1>3, <2>1
<1>4. CASE k # 0
  <2>1. k \in Nat /\ k - 1 \in Nat /\ k - 1 \notin T
    BY <1>2, <1>4
  <2>2. PICK g : IsFlat(g, seqs, k - 1)
    BY <2>1
  <2> DEFINE h == [i \in 1 .. k |-> IF i < k THEN g[i] ELSE
                                    IF k = 1 THEN seqs[k] ELSE g[k - 1] \o seqs[k]]
             e(i) == IF i = 1 THEN seqs[i] ELSE h[i - 1] \o seqs[i]
  <2>3. ASSUME NEW i \in 1 .. k PROVE h[i] = e(i)
    <3>1. CASE i < k
      <4>1. i \in 1 .. (k - 1) /\ (i # 1 => i - 1 \in 1 .. k /\ i - 1 < k)
        BY <2>1, <3>1
      <4>2. g[i] = IF i = 1 THEN seqs[i] ELSE g[i - 1] \o seqs[i]
        BY <2>2, <4>1 DEF IsFlat
      <4> QED
        BY <3>1, <4>1, <4>2
    <3>2. CASE i = k
      <4>1. k # 1 => k - 1 \in 1 .. k /\ k - 1 < k
        BY <2>1, <1>4
      <4> QED
        BY <3>2, <4>1
    <3> QED
      BY <2>1, <3>1, <3>2
  <2>4. IsFlat(h, seqs, k)
    <3>1. h = [i \in 1 .. k |-> h[i]]
      OBVIOUS
    <3> HIDE DEF h
    <3> QED
      BY <2>3, <3>1, Zenon DEF IsFlat
  <2> QED
    BY <1>2, <2>4
<1> QED
  BY <1>3, <1>4

Sorted(l) == \A a \in 1 .. Len(l), b \in 1 .. Len(l) : a <= b => l[a] <= l[b]

(* Blocks of equal numbers, one after the other.                             *)
LEMMA BlocksSorted ==
    ASSUME NEW seqs, NEW n \in Nat \ {0}, Len(seqs) = n,
           \A i \in 1 .. n : seqs[i] \in Seq({i - 1})
    PROVE  FlattenSeq(seqs) \in Seq(0 .. (n - 1)) /\ Sorted(FlattenSeq(seqs))
<1>1. PICK g : IsFlat(g, seqs, n) /\ FlattenSeq(seqs) = g[n]
  <2>1. PICK h : IsFlat(h, seqs, n)
    BY FlatExists
  <2> QED
    BY <2>1 DEF IsFlat, FlattenSeq
<1> DEFINE Good(k) == g[k] \in Seq(0 .. (k - 1)) /\ Sorted(g[k])
           T == {k \in 1 .. n : ~Good(k)}
<1>2. SUFFICES ASSUME T # {} PROVE FALSE
  BY <1>1
<1>3. PICK k \in T : \A j \in T : k <= j
  <2>1. T \subseteq Nat
    OBVIOUS
  <2> HIDE DEF T
  <2> QED
    BY <1>2, <2>1, LeastElement
<1> DEFINE s == seqs[k]
<1>4. k \in 1 .. n /\ s \in Seq({k - 1})
  BY <1>3
<1>5. Len(s) \in Nat /\ \A i \in 1 .. Len(s) : s[i] = k - 1
  BY <1>4, ElementOfSeq, LenProperties
<1>6. s \in Seq(0 .. (k - 1))
  BY <1>4, SeqMonotonic
<1>7. CASE k = 1
  <2>1. g[k] = s
    BY <1>1, <1>4, <1>7 DEF IsFlat
  <2> QED
    BY <1>3, <1>4, <1>5, <1>6, <2>1 DEF Sorted
<1>8. CASE k > 1
  <2> DEFINE r == g[k - 1]
  <2>1. k - 1 \in 1 .. n /\ k - 1 \notin T /\ g[k] = r \o s
    <3>1. k - 1 \in 1 .. n /\ k - 1 < k
      BY <1>4, <1>8
    <3>2. k - 1 \notin T
      BY <1>3, <1>4, <3>1
    <3>3. g[k] = IF k = 1 THEN seqs[k] ELSE g[k - 1] \o seqs[k]
      BY <1>1, <1>4 DEF IsFlat
    <3> QED
      BY <1>8, <3>1, <3>2, <3>3
  <2>2. r \in Seq(0 .. (k - 2)) /\ Sorted(r)
    BY <1>4, <2>1
  <2>3. /\ Len(r) \in Nat
        /\ \A i \in 1 .. Len(r) : r[i] \in Int /\ r[i] < k - 1
    BY <1>4, <2>2, ElementOfSeq, LenProperties
  <2>4. r \in Seq(0 .. (k - 1))
    BY <1>4, <2>2, SeqMonotonic
  <2> HIDE DEF r, s
  <2>5. /\ r \o s \in Seq(0 .. (k - 1))
        /\ Len(r \o s) = Len(r) + Len(s)
        /\ \A i \in 1 .. Len(r) + Len(s) :
             (r \o s)[i] = IF i <= Len(r) THEN r[i] ELSE s[i - Len(r)]
    BY <1>6, <2>4, ConcatProperties
  <2>6. ASSUME NEW a \in 1 .. Len(r) + Len(s), NEW b \in 1 .. Len(r) + Len(s), a <= b
        PROVE  (r \o s)[a] <= (r \o s)[b]
    <3>1. CASE b <= Len(r)
      BY <1>5, <2>2, <2>3, <2>5, <2>6, <3>1 DEF Sorted
    <3>2. CASE b > Len(r)
      <4>1. b - Len(r) \in 1 .. Len(s) /\ (r \o s)[b] = k - 1
        BY <1>5, <2>3, <2>5, <3>2
      <4>2. CASE a <= Len(r)
        <5>1. a \in 1 .. Len(r) /\ (r \o s)[a] = r[a]
          BY <1>5, <2>3, <2>5, <4>2
        <5>2. r[a] \in Int /\ r[a] < k - 1
          BY <2>3, <5>1
        <5> QED
          BY <1>4, <4>1, <5>1, <5>2
      <4>3. CASE a > Len(r)
        BY <1>4, <1>5, <2>3, <2>5, <4>1, <4>3
      <4> QED
        BY <2>3, <4>2, <4>3
    <3> QED
      BY <1>5, <2>3, <3>1, <3>2
  <2>7. Sorted(g[k])
    BY <2>1, <2>5, <2>6 DEF Sorted
  <2> QED
    BY <1>3, <2>1, <2>5, <2>7
<1> QED
  BY <1>4, <1>7, <1>8

-----------------------------------------------------------------------------
(* The inductive invariant                                                   *)

(* The graph is what was read from the file of the test.                     *)
ReadInv ==
    /\ conf \in Configs
    /\ stage = "read" => graph = NoGraph
    /\ stage # "read" => graph = ReadGraph(GenerateTopo(conf.topo))

(* Every node has a PM, and its neighbours are nodes: an exception would     *)
(* have been raised, with several PMs when they are divided over these, with *)
(* one when the number of its VMs is chosen.                                 *)
PmInv ==
    /\ stage \in {"alloc", "vms", "skipped", "split", "bbns", "planned"} =>
           /\ node2pm \in [graph.nodes -> PMs]
           /\ conf.pms > 1 => Closed(graph.nodes, graph.adj)
    /\ stage \in {"vms", "split", "bbns", "planned"} => Closed(graph.nodes, graph.adj)
    /\ stage = "vms" => \A p \in PMs : plan[p].n \in Nat

(* The VMs are listed PM after PM.                                           *)
ListInv == stage \in {"split", "bbns", "planned"} => vmPm \in Seq(PMs) /\ Sorted(vmPm)

(* The number of servers of the PMs before p.                                *)
First(p) == Cardinality({s \in Servers : PmOf(s) < p})

(* A task numbers its servers from the first of its PM on. Of the PMs        *)
(* submitted, the nodes have a server unless the task is still there.        *)
TaskInv ==
    /\ stage \in {"read", "pms", "alloc", "vms"} =>
           nextPm = 0 /\ accServers = 0 /\ tasks = {} /\ node2server = <<>>
    /\ stage = "split" =>
           /\ nextPm \in 0 .. conf.pms /\ accServers = First(nextPm)
           /\ \A t \in tasks : /\ t.pm \in 0 .. (nextPm - 1)
                               /\ t.num = ServersOf(t.pm) /\ t.acc = First(t.pm)
           /\ \A p \in 0 .. (nextPm - 1) :
                 (\E t \in tasks : t.pm = p) \/ PmNodes(p) \subseteq DOMAIN node2server

(* Where a node has been put, and after the tasks every node is somewhere.   *)
Placed(n) == n \in graph.nodes /\ node2server[n] \in Servers /\ PmOf(node2server[n]) = node2pm[n]
PlaceInv ==
    /\ stage \in {"split", "bbns", "planned"} => \A n \in DOMAIN node2server : Placed(n)
    /\ Written => graph.nodes \subseteq DOMAIN node2server

(* What is written follows from the graph and the servers.                   *)
FileInv ==
    /\ Written => subs = [s \in Servers |-> SubTopology(s)] /\ tdf = ComputeTdf
    /\ stage = "planned" => bbns = [s \in Servers |-> BbnsNum(LinkCount(subs[s]))]

PlanInv == ReadInv /\ PmInv /\ ListInv /\ TaskInv /\ PlaceInv /\ FileInv

-----------------------------------------------------------------------------
(* The graph                                                                 *)

(* The nodes are finitely many integers, each with a list of neighbours.     *)
LEMMA GraphFacts ==
    ASSUME ReadInv
    PROVE  /\ graph.nodes \subseteq Int /\ IsFiniteSet(graph.nodes)
           /\ stage # "read" => graph.nodes \subseteq DOMAIN graph.adj
<1>1. CASE stage = "read"
  BY <1>1, FS_EmptySet DEF ReadInv, NoGraph
<1>2. CASE stage # "read"
  <2> DEFINE file == GenerateTopo(conf.topo)
  <2>1. graph.nodes \subseteq file.nodes /\ DOMAIN graph.adj = Mentioned(file) \union file.nodes
    BY <1>2 DEF ReadInv, ReadGraph, ReadNodes
  <2> QED
    BY <2>1, PlanningAssumption, FS_Subset DEF ReadInv
<1> QED
  BY <1>1, <1>2

(* The lists of neighbours hold the lines of the file, in both directions.   *)
LEMMA AdjIsLines ==
    ASSUME ReadInv, stage # "read", NEW u \in DOMAIN graph.adj, NEW v \in DOMAIN graph.adj
    PROVE  /\ graph.adj[u][v] = Lines(u, v) /\ Lines(u, v) = Lines(v, u)
           /\ graph.adj[u][v] \in Nat
<1> DEFINE file == GenerateTopo(conf.topo)
           A(x, y) == {l \in file.lines : l.from = x /\ l.to = y}
<1>1. graph.adj[u][v] = Entries(file, u, v)
  BY DEF ReadInv, ReadGraph
<1>2. \A x, y : IsFiniteSet(A(x, y))
  BY PlanningAssumption, FS_Subset DEF ReadInv
<1>3. \A x, y : Cardinality(A(x, y)) \in Nat
  <2> HIDE DEF A
  <2> QED
    BY <1>2, FS_CardinalityType
<1>4. Entries(file, u, v) = Cardinality(A(u, v)) + Cardinality(A(v, u))
  BY DEF Entries
<1>5. Entries(file, v, u) = Cardinality(A(v, u)) + Cardinality(A(u, v))
  BY DEF Entries
<1> HIDE DEF A
<1> QED
  BY <1>1, <1>3, <1>4, <1>5 DEF Lines

(* A node has a neighbour: the nodes without a line are not in the graph.    *)
LEMMA HasNeighbour ==
    ASSUME ReadInv, stage # "read", NEW u \in graph.nodes
    PROVE  \E v \in DOMAIN graph.adj : v # u /\ graph.adj[u][v] > 0
<1> DEFINE file == GenerateTopo(conf.topo)
           A(x, y) == {l \in file.lines : l.from = x /\ l.to = y}
<1>1. u \in Mentioned(file) /\ DOMAIN graph.adj = Mentioned(file) \union file.nodes
  BY DEF ReadInv, ReadGraph, ReadNodes
<1>2. PICK l \in file.lines : l.from = u \/ l.to = u
  BY <1>1 DEF Mentioned
<1>3. PICK v : v \in {l.from, l.to} /\ v # u /\ (l \in A(u, v) \/ l \in A(v, u))
  BY <1>2, PlanningAssumption DEF ReadInv
<1>4. v \in DOMAIN graph.adj /\ u \in DOMAIN graph.adj
  BY <1>1, <1>2, <1>3 DEF Mentioned
<1>5. graph.adj[u][v] = Cardinality(A(u, v)) + Cardinality(A(v, u))
  BY <1>4 DEF ReadInv, ReadGraph, Entries
<1>6. \A x, y : IsFiniteSet(A(x, y))
  BY PlanningAssumption, FS_Subset DEF ReadInv
<1>7. A(u, v) # {} \/ A(v, u) # {}
  BY <1>3
<1> HIDE DEF A
<1>8. \A x, y : /\ Cardinality(A(x, y)) \in Nat
                /\ Cardinality(A(x, y)) = 0 => A(x, y) = {}
  BY <1>6, FS_CardinalityType, FS_EmptySet
<1> QED
  BY <1>3, <1>4, <1>5, <1>7, <1>8

-----------------------------------------------------------------------------
(* The numbering of servers                                                  *)

(* A set closed downwards is counted by its bound.                           *)
LEMMA InitialSegment ==
    ASSUME NEW n \in Nat, NEW S, S \subseteq 0 .. (n - 1),
           \A s \in S, r \in 0 .. (n - 1) : r <= s => r \in S
    PROVE  Cardinality(S) \in 0 .. n /\ S = 0 .. (Cardinality(S) - 1)
<1> DEFINE T == {k \in 0 .. n : k \notin S}
<1>1. PICK k \in T : \A j \in T : k <= j
  <2>1. T \subseteq Nat /\ n \in T
    OBVIOUS
  <2> HIDE DEF T
  <2> QED
    BY <2>1, LeastElement
<1>2. S = 0 .. (k - 1)
  <2>1. ASSUME NEW s \in S PROVE s \in 0 .. (k - 1)
    BY <1>1, <2>1
  <2>2. ASSUME NEW s \in 0 .. (k - 1) PROVE s \in S
    <3>1. s \in 0 .. n /\ s < k
      BY <1>1, <2>2
    <3> QED
      BY <1>1, <3>1
  <2> QED
    BY <2>1, <2>2
<1>3. Cardinality(S) = k
  <2>1. Cardinality(0 .. (k - 1)) = IF 0 > k - 1 THEN 0 ELSE (k - 1) - 0 + 1
    BY <1>1, FS_Interval
  <2> QED
    BY <1>1, <1>2, <2>1
<1> QED
  BY <1>1, <1>2, <1>3

(* There are finitely many servers, and their PMs do not decrease.           *)
LEMMA ServerTypes ==
    ASSUME vmPm \in Seq(PMs), Sorted(vmPm)
    PROVE  /\ Len(vmPm) \in Nat /\ IsFiniteSet(Servers)
           /\ \A s \in Servers : s \in Int /\ PmOf(s) \in PMs /\ PmOf(s) \in Int
           /\ \A s \in Servers, r \in Servers : r <= s => PmOf(r) <= PmOf(s)
<1>1. Len(vmPm) \in Nat /\ \A a \in 1 .. Len(vmPm) : vmPm[a] \in PMs
  BY LenProperties, ElementOfSeq
<1>2. IsFiniteSet(Servers)
  BY <1>1, FS_Interval DEF Servers
<1>3. ASSUME NEW s \in Servers PROVE s \in Int /\ s + 1 \in 1 .. Len(vmPm)
  BY <1>1, <1>3 DEF Servers
<1>4. ASSUME NEW s \in Servers PROVE PmOf(s) \in PMs /\ PmOf(s) \in Int
  BY <1>1, <1>3 DEF PmOf, PMs
<1>5. ASSUME NEW s \in Servers, NEW r \in Servers, r <= s PROVE PmOf(r) <= PmOf(s)
  <2>1. s \in Int /\ r \in Int /\ r + 1 <= s + 1
    BY <1>3, <1>5
  <2> QED
    BY <1>3, <2>1 DEF PmOf, Sorted
<1> QED
  BY <1>1, <1>2, <1>3, <1>4, <1>5

(* The servers of a PM are consecutive, after those of the PMs before it.    *)
LEMMA PmServers ==
    ASSUME vmPm \in Seq(PMs), Sorted(vmPm), NEW p \in Int
    PROVE  /\ First(p) \in Nat /\ ServersOf(p) \in Nat
           /\ First(p + 1) = First(p) + ServersOf(p)
           /\ \A s \in First(p) .. (First(p) + ServersOf(p) - 1) :
                 s \in Servers /\ PmOf(s) = p
<1> DEFINE Below(q) == {s \in Servers : PmOf(s) < q}
           On == {s \in Servers : PmOf(s) = p}
<1>1. /\ Len(vmPm) \in Nat /\ IsFiniteSet(Servers)
      /\ \A s \in Servers : s \in Int /\ PmOf(s) \in Int
      /\ \A s \in Servers, r \in Servers : r <= s => PmOf(r) <= PmOf(s)
  BY ServerTypes
<1>2. ASSUME NEW q \in Int
      PROVE  First(q) \in Nat /\ Below(q) = 0 .. (First(q) - 1)
  <2>1. /\ Below(q) \subseteq 0 .. (Len(vmPm) - 1)
        /\ \A s \in Below(q), r \in 0 .. (Len(vmPm) - 1) : r <= s => r \in Below(q)
    <3>1. Servers = 0 .. (Len(vmPm) - 1)
      BY DEF Servers
    <3>2. ASSUME NEW s \in Below(q), NEW r \in Servers, r <= s PROVE r \in Below(q)
      BY <1>1, <3>2
    <3> QED
      BY <3>1, <3>2
  <2>2. First(q) = Cardinality(Below(q))
    BY DEF First
  <2> HIDE DEF Below
  <2> QED
    BY <1>1, <2>1, <2>2, InitialSegment
<1>3. On = Below(p + 1) \ Below(p) /\ Below(p) \subseteq Below(p + 1)
  BY <1>1
<1>4. p + 1 \in Int
  OBVIOUS
<1>5. First(p) \in Nat /\ First(p + 1) \in Nat /\ First(p) <= First(p + 1)
  <2>1. IsFiniteSet(Below(p + 1)) /\ Below(p) \in SUBSET Below(p + 1)
    BY <1>1, <1>3, FS_Subset
  <2>2. Cardinality(Below(p)) <= Cardinality(Below(p + 1))
    BY <2>1, FS_Subset
  <2> QED
    BY <1>2, <1>4, <2>2 DEF First
<1> DEFINE a == First(p)
           b == First(p + 1)
<1>6. On = a .. (b - 1)
  <2>1. Below(p) = 0 .. (a - 1) /\ Below(p + 1) = 0 .. (b - 1)
    BY <1>2, <1>4
  <2>2. a \in Nat /\ b \in Nat /\ a <= b
    BY <1>5
  <2> HIDE DEF Below, On, a, b
  <2> QED
    BY <1>3, <2>1, <2>2
<1>7. Cardinality(On) = b - a
  <2>1. a \in Nat /\ b \in Nat /\ a <= b
    BY <1>5
  <2> HIDE DEF On, a, b
  <2>2. Cardinality(a .. (b - 1)) = IF a > b - 1 THEN 0 ELSE (b - 1) - a + 1
    BY <2>1, FS_Interval
  <2> QED
    BY <1>6, <2>1, <2>2
<1>8. ServersOf(p) = First(p + 1) - First(p)
  BY <1>7 DEF ServersOf
<1>9. On = First(p) .. (First(p) + ServersOf(p) - 1)
  BY <1>5, <1>6, <1>8
<1> QED
  BY <1>5, <1>8, <1>9

(* No server belongs to a PM before the first.                               *)
LEMMA NoneBelow ==
    ASSUME NEW l, NEW k \in Int, l \in Seq(0 .. k)
    PROVE  Cardinality({s \in 0 .. (Len(l) - 1) : l[s + 1] < 0}) = 0
<1>1. Len(l) \in Nat /\ \A a \in 1 .. Len(l) : l[a] \in 0 .. k
  BY LenProperties, ElementOfSeq
<1>2. ASSUME NEW s \in 0 .. (Len(l) - 1) PROVE ~(l[s + 1] < 0)
  <2>1. s + 1 \in 1 .. Len(l)
    BY <1>1
  <2> QED
    BY <1>1, <2>1
<1>3. {s \in 0 .. (Len(l) - 1) : l[s + 1] < 0} = {}
  BY <1>2
<1> QED
  BY <1>3, FS_EmptySet

-----------------------------------------------------------------------------
(* Each step keeps the invariant                                             *)

(* Steps that leave the plan as it is: at most the run ends.                 *)
IdleStep == OutsideRefuses \/ OutsideRaises \/ UNCHANGED vars
LEMMA IdleSteps ==
    ASSUME IdleStep
    PROVE  /\ UNCHANGED <<conf, graph, node2pm, plan, vmPm, nextPm, accServers, tasks,
                          node2server, subs, tdf, bbns>>
           /\ stage' = stage \/ (stage' = "raised" /\ Calls # {})
BY DEF IdleStep, OutsideRefuses, OutsideRaises, vars

(* The file has been read when METIS or TBS is called.                       *)
LEMMA CallsAfterReading == ASSUME Calls # {}, stage = "read" PROVE tasks # {}
BY DEF Calls, PartitionsPms, CallingTbs

(* The setting is never changed, and the graph only by reading it.           *)
LEMMA ReadKept ==
    ASSUME ReadInv, TaskInv, [Next]_vars
    PROVE  /\ ReadInv' /\ conf' = conf
           /\ stage # "read" => graph' = graph /\ stage' # "read"
<1>1. CASE GenerateAndRead
  BY <1>1 DEF GenerateAndRead, ReadInv
<1>2. CASE PartitionPmsOne \/ PartitionPmsAny \/ TbsSucceeds
  BY <1>2 DEF PartitionPmsOne, PartitionPmsAny, TbsSucceeds, CallingTbs, PartitionsPms, AssignToPms, ReadInv
<1>3. CASE TbsConvertRaises \/ TbsFails \/ AllocateVMs \/ ListVMs
  BY <1>3 DEF TbsConvertRaises, TbsFails, CallingTbs, PartitionsPms, AllocateVMs, ListVMs, ReadInv
<1>4. CASE SubmitPartition \/ PartitionDone \/ WriteSubTopos \/ NumberBbNs
  BY <1>4 DEF SubmitPartition, PartitionDone, WriteSubTopos, NumberBbNs, ReadInv
<1>5. CASE IdleStep
  BY <1>5, IdleSteps, CallsAfterReading DEF ReadInv, TaskInv
<1> QED
  BY <1>1, <1>2, <1>3, <1>4, <1>5 DEF Next, Progress, IdleStep

(* The number of PMs is a positive number.                                   *)
LEMMA PmsType == ASSUME ReadInv PROVE conf.pms \in Nat \ {0}
BY PlanningAssumption DEF ReadInv

(* A map to the PMs is kept, or an exception is raised.                      *)
LEMMA AssignKeeps ==
    ASSUME PmInv, stage = "pms", NEW map \in [graph.nodes -> PMs], AssignToPms(map)
    PROVE  PmInv'
BY DEF AssignToPms, PmInv, Closed, PMs

(* Nodes have a PM and their neighbours are nodes, or the run has stopped.   *)
LEMMA PmKept ==
    ASSUME ReadInv, PmInv, [Next]_vars
    PROVE  PmInv'
<1>1. CASE GenerateAndRead
  BY <1>1 DEF GenerateAndRead, PmInv
<1>2. CASE PartitionPmsOne
  <2>1. [n \in graph.nodes |-> 0] \in [graph.nodes -> PMs]
    BY <1>2 DEF PartitionPmsOne, PMs
  <2> QED
    BY <1>2, <2>1, AssignKeeps DEF PartitionPmsOne
<1>3. CASE PartitionPmsAny \/ TbsSucceeds
  BY <1>3, AssignKeeps DEF PartitionPmsAny, TbsSucceeds, CallingTbs, PartitionsPms
<1>4. CASE TbsConvertRaises \/ TbsFails
  BY <1>4 DEF TbsConvertRaises, TbsFails, CallingTbs, PartitionsPms, PmInv
<1>5. CASE AllocateVMs
  <2>1. /\ stage = "alloc" /\ stage' \in {"raised", "vms", "skipped"}
        /\ UNCHANGED <<conf, graph, node2pm>>
    BY <1>5 DEF AllocateVMs
  <2>2. node2pm \in [graph.nodes -> PMs] /\ (conf.pms > 1 => Closed(graph.nodes, graph.adj))
    BY <2>1 DEF PmInv
  <2>3. ASSUME stage' = "vms" PROVE Closed(graph.nodes, graph.adj)
    <3>1. CASE conf.pms > 1
      BY <2>2, <3>1
    <3>2. CASE conf.pms = 1
      <4>1. 0 \in PMs /\ PMs = {0}
        BY <3>2 DEF PMs
      <4>2. ~AllocationRaises(0)
        BY <1>5, <2>3, <4>1 DEF AllocateVMs
      <4>3. PmNodes(0) = graph.nodes /\ PmAdj(0) = graph.adj
        BY <2>2, <3>2, <4>1 DEF PmNodes, PmAdj
      <4> QED
        BY <4>2, <4>3 DEF AllocationRaises
    <3> QED
      BY <3>1, <3>2, PmsType
  <2>4. ASSUME stage' = "vms", NEW p \in PMs PROVE plan'[p].n \in Nat
    <3>1. PICK choice \in [PMs -> AllocationChoices] :
             plan' = [q \in PMs |-> [n |-> choice[q][1], m |-> choice[q][2],
                                     vcpus |-> Min({8, Cores \div choice[q][1]})]]
      BY <1>5, <2>4 DEF AllocateVMs
    <3>2. choice[p] \in AllocationChoices /\ plan'[p].n = choice[p][1]
      BY <3>1
    <3>3. \A c \in AllocationChoices : c[1] \in Nat
      <4>1. \A c \in FeasiblePairs : c[1] \in 1 .. (Cores - 1)
        BY DEF FeasiblePairs
      <4>2. \A k \in 1 .. (Cores - 1) : k \in Nat
        BY PlanningAssumption
      <4> QED
        BY <4>1, <4>2 DEF AllocationChoices, AskedPairs
    <3> QED
      BY <3>2, <3>3
  <2>5. PMs' = PMs
    BY <2>1 DEF PMs
  <2>6. Closed(graph.nodes, graph.adj)' <=> Closed(graph.nodes, graph.adj)
    BY <2>1 DEF Closed
  <2> QED
    BY <2>1, <2>2, <2>3, <2>4, <2>5, <2>6 DEF PmInv
<1>6. CASE \/ ListVMs \/ SubmitPartition \/ PartitionDone \/ WriteSubTopos \/ NumberBbNs
           \/ IdleStep
  <2>1. UNCHANGED <<conf, graph, node2pm>>
    BY <1>6, IdleSteps DEF ListVMs, SubmitPartition, PartitionDone, WriteSubTopos, NumberBbNs
  <2>2. \/ UNCHANGED <<plan, stage>> \/ stage' = "raised"
        \/ stage \in {"vms", "split", "bbns"} /\ stage' \in {"split", "bbns", "planned"}
    BY <1>6, IdleSteps DEF ListVMs, SubmitPartition, PartitionDone, WriteSubTopos, NumberBbNs
  <2>3. PMs' = PMs
    BY <2>1 DEF PMs
  <2>4. Closed(graph.nodes, graph.adj)' <=> Closed(graph.nodes, graph.adj)
    BY <2>1 DEF Closed
  <2> QED
    BY <2>1, <2>2, <2>3, <2>4 DEF PmInv
<1> QED
  BY <1>1, <1>2, <1>3, <1>4, <1>5, <1>6 DEF Next, Progress, IdleStep

(* The list of VMs has a block for each PM.                                  *)
LEMMA VmsListed ==
    ASSUME ReadInv, PmInv, ListVMs
    PROVE  vmPm' \in Seq(PMs) /\ Sorted(vmPm')
<1> DEFINE seqs == [i \in 1 .. conf.pms |-> [j \in 1 .. plan[i - 1].n |-> i - 1]]
<1>1. conf.pms \in Nat \ {0}
  BY PmsType
<1>2. Len(seqs) = conf.pms
  BY <1>1
<1>3. ASSUME NEW i \in 1 .. conf.pms PROVE seqs[i] \in Seq({i - 1})
  <2>1. i - 1 \in PMs
    BY <1>1 DEF PMs
  <2>2. plan[i - 1].n \in Nat
    BY <2>1 DEF ListVMs, PmInv
  <2>3. [j \in 1 .. plan[i - 1].n |-> i - 1] \in [1 .. plan[i - 1].n -> {i - 1}]
    OBVIOUS
  <2>4. \A n \in Nat : \A f \in [1 .. n -> {i - 1}] : f \in Seq({i - 1})
    BY SeqDef
  <2>5. seqs[i] = [j \in 1 .. plan[i - 1].n |-> i - 1]
    OBVIOUS
  <2> QED
    BY <2>2, <2>3, <2>4, <2>5
<1>4. vmPm' = FlattenSeq(seqs)
  BY DEF ListVMs
<1> HIDE DEF seqs
<1>5. FlattenSeq(seqs) \in Seq(0 .. (conf.pms - 1)) /\ Sorted(FlattenSeq(seqs))
  BY <1>1, <1>2, <1>3, BlocksSorted
<1> QED
  BY <1>4, <1>5 DEF PMs

(* The list of VMs is not touched once it is made.                           *)
LEMMA ListKept ==
    ASSUME ReadInv, PmInv, ListInv, TaskInv, [Next]_vars
    PROVE  ListInv'
<1>1. PMs' = PMs
  BY ReadKept DEF PMs
<1>2. CASE ListVMs
  BY <1>1, <1>2, VmsListed DEF ListInv
<1>3. CASE ~ListVMs
  <2>1. /\ vmPm' = vmPm
        /\ stage' \in {"split", "bbns", "planned"} => stage \in {"split", "bbns", "planned"}
    BY <1>3, IdleSteps DEF Next, Progress, IdleStep, GenerateAndRead, PartitionPmsOne, PartitionPmsAny, TbsConvertRaises,
       TbsSucceeds, TbsFails, CallingTbs, PartitionsPms, AssignToPms, AllocateVMs, SubmitPartition,
       PartitionDone, WriteSubTopos, NumberBbNs
  <2> QED
    BY <1>1, <2>1 DEF ListInv
<1> QED
  BY <1>2, <1>3

(* The steps before the servers are numbered.                                *)
EarlyStep ==
    \/ GenerateAndRead \/ PartitionPmsOne \/ PartitionPmsAny \/ TbsConvertRaises
    \/ TbsSucceeds \/ TbsFails \/ AllocateVMs

(* Up to the allocation nothing is known of the VMs.                         *)
LEMMA EarlySteps ==
    ASSUME EarlyStep
    PROVE  /\ UNCHANGED <<conf, vmPm, nextPm, accServers, tasks, node2server, subs, tdf, bbns>>
           /\ stage \in {"read", "pms", "alloc"}
           /\ stage' \in {"pms", "alloc", "vms", "skipped", "raised"}
BY DEF EarlyStep, GenerateAndRead, PartitionPmsOne, PartitionPmsAny, TbsConvertRaises,
   TbsSucceeds, TbsFails, CallingTbs, PartitionsPms, AssignToPms, AllocateVMs

(* Tasks number the servers of their PM from the first on.                   *)
LEMMA TaskKept ==
    ASSUME PlanInv, [Next]_vars
    PROVE  TaskInv'
<1>1. CASE EarlyStep
  BY <1>1, EarlySteps DEF PlanInv, TaskInv
<1>2. CASE ListVMs
  <2>1. /\ stage = "vms" /\ stage' = "split"
        /\ UNCHANGED <<conf, nextPm, accServers, tasks, node2server>>
    BY <1>2 DEF ListVMs
  <2>2. nextPm = 0 /\ accServers = 0 /\ tasks = {}
    BY <2>1 DEF PlanInv, TaskInv
  <2>3. First(0)' = 0
    <3>1. vmPm' \in Seq(0 .. (conf.pms - 1)) /\ conf.pms - 1 \in Int
      BY <1>2, VmsListed, PmsType DEF PlanInv, PMs
    <3>2. Cardinality({s \in 0 .. (Len(vmPm') - 1) : vmPm'[s + 1] < 0}) = 0
      BY <3>1, NoneBelow
    <3> QED
      BY <3>2 DEF First, Servers, PmOf
  <2>4. First(nextPm)' = 0
    BY <2>1, <2>2, <2>3 DEF First
  <2>5. conf.pms \in Nat
    BY PmsType DEF PlanInv
  <2> QED
    BY <2>1, <2>2, <2>4, <2>5 DEF TaskInv
<1>3. CASE SubmitPartition
  <2>1. /\ stage = "split" /\ stage' = "split" /\ nextPm \in PMs
        /\ tasks' = tasks \union {[pm |-> nextPm, num |-> ServersOf(nextPm), acc |-> accServers]}
        /\ accServers' = accServers + ServersOf(nextPm)
        /\ nextPm' = nextPm + 1
        /\ UNCHANGED <<conf, graph, node2pm, vmPm, node2server>>
    BY <1>3 DEF SubmitPartition
  <2>2. /\ nextPm \in 0 .. conf.pms /\ accServers = First(nextPm)
        /\ \A t \in tasks : /\ t.pm \in 0 .. (nextPm - 1)
                            /\ t.num = ServersOf(t.pm) /\ t.acc = First(t.pm)
        /\ \A p \in 0 .. (nextPm - 1) :
              (\E t \in tasks : t.pm = p) \/ PmNodes(p) \subseteq DOMAIN node2server
    BY <2>1 DEF PlanInv, TaskInv
  <2>3. nextPm \in Int /\ nextPm' \in 1 .. conf.pms /\ nextPm \in 0 .. (nextPm' - 1)
    BY <2>1, PmsType DEF PlanInv, PMs
  <2>4. \A p : First(p)' = First(p) /\ ServersOf(p)' = ServersOf(p) /\ PmNodes(p)' = PmNodes(p)
    BY <2>1 DEF First, ServersOf, Servers, PmOf, PmNodes
  <2>5. accServers' = First(nextPm)'
    <3>1. First(nextPm + 1) = First(nextPm) + ServersOf(nextPm)
      BY <2>1, <2>3, PmServers DEF PlanInv, ListInv
    <3>2. First(nextPm)' = First(nextPm + 1)
      BY <2>1 DEF First, Servers, PmOf
    <3> QED
      BY <2>1, <2>2, <3>1, <3>2
  <2>6. ASSUME NEW t \in tasks'
        PROVE  /\ t.pm \in 0 .. (nextPm' - 1)
               /\ t.num = ServersOf(t.pm)' /\ t.acc = First(t.pm)'
    <3>1. CASE t \in tasks
      <4>1. First(t.pm)' = First(t.pm) /\ ServersOf(t.pm)' = ServersOf(t.pm)
        BY <2>1 DEF First, ServersOf, Servers, PmOf
      <4> QED
        BY <2>1, <2>2, <2>3, <3>1, <4>1
    <3>2. CASE t = [pm |-> nextPm, num |-> ServersOf(nextPm), acc |-> accServers]
      <4>1. t.pm = nextPm /\ t.num = ServersOf(nextPm) /\ t.acc = First(nextPm)
        BY <2>2, <3>2
      <4> QED
        BY <2>1, <2>3, <2>4, <4>1 DEF First, ServersOf, Servers, PmOf
    <3> QED
      BY <2>1, <3>1, <3>2
  <2>7. ASSUME NEW p \in 0 .. (nextPm' - 1)
        PROVE  (\E t \in tasks' : t.pm = p) \/ PmNodes(p)' \subseteq DOMAIN node2server'
    <3>1. CASE p = nextPm
      <4>1. [pm |-> nextPm, num |-> ServersOf(nextPm), acc |-> accServers] \in tasks'
        BY <2>1
      <4> QED
        BY <3>1, <4>1
    <3>2. CASE p # nextPm
      <4>1. p \in 0 .. (nextPm - 1)
        BY <2>1, <2>3, <3>2
      <4> QED
        BY <2>1, <2>2, <2>4, <4>1
    <3> QED
      BY <3>1, <3>2
  <2>8. nextPm' \in 0 .. conf'.pms
    BY <2>1, <2>3
  <2> QED
    BY <2>1, <2>5, <2>6, <2>7, <2>8 DEF TaskInv
<1>4. CASE PartitionDone
  <2>1. /\ stage = "split" /\ stage' = "split"
        /\ UNCHANGED <<conf, graph, node2pm, vmPm, nextPm, accServers>>
    BY <1>4 DEF PartitionDone
  <2>2. PICK t \in tasks : \E parts \in MetisParts(PmNodes(t.pm), t.num) :
           /\ node2server' = [n \in PmNodes(t.pm) \union DOMAIN node2server |->
                                IF n \in PmNodes(t.pm) THEN parts[n] + t.acc ELSE node2server[n]]
           /\ tasks' = tasks \ {t}
    BY <1>4 DEF PartitionDone
  <2>3. tasks' = tasks \ {t} /\ DOMAIN node2server' = PmNodes(t.pm) \union DOMAIN node2server
    BY <2>2
  <2>4. \A p : First(p)' = First(p) /\ ServersOf(p)' = ServersOf(p) /\ PmNodes(p)' = PmNodes(p)
    BY <2>1 DEF First, ServersOf, Servers, PmOf, PmNodes
  <2>5. First(nextPm)' = First(nextPm)
    BY <2>1 DEF First, Servers, PmOf
  <2>6. \A u \in tasks : First(u.pm)' = First(u.pm) /\ ServersOf(u.pm)' = ServersOf(u.pm)
    BY <2>1 DEF First, ServersOf, Servers, PmOf
  <2> QED
    BY <2>1, <2>3, <2>4, <2>5, <2>6 DEF PlanInv, TaskInv
<1>5. CASE WriteSubTopos \/ NumberBbNs
  BY <1>5 DEF WriteSubTopos, NumberBbNs, TaskInv
<1>6. CASE IdleStep
  <2>1. /\ UNCHANGED <<conf, graph, node2pm, vmPm, nextPm, accServers, tasks, node2server>>
        /\ stage' = stage \/ stage' = "raised"
    BY <1>6, IdleSteps
  <2>2. \A p : First(p)' = First(p) /\ ServersOf(p)' = ServersOf(p) /\ PmNodes(p)' = PmNodes(p)
    BY <2>1 DEF First, ServersOf, Servers, PmOf, PmNodes
  <2>3. First(nextPm)' = First(nextPm)
    BY <2>1 DEF First, Servers, PmOf
  <2>4. \A u \in tasks : First(u.pm)' = First(u.pm) /\ ServersOf(u.pm)' = ServersOf(u.pm)
    BY <2>1 DEF First, ServersOf, Servers, PmOf
  <2> QED
    BY <2>1, <2>2, <2>3, <2>4 DEF PlanInv, TaskInv
<1> QED
  BY <1>1, <1>2, <1>3, <1>4, <1>5, <1>6 DEF Next, Progress, EarlyStep, IdleStep

(* The nodes that have a server have one of their own PM.                    *)
LEMMA PlaceKept ==
    ASSUME PlanInv, [Next]_vars
    PROVE  PlaceInv'
<1>1. CASE EarlyStep
  BY <1>1, EarlySteps DEF PlaceInv, Written
<1>2. CASE ListVMs
  <2>1. stage' = "split" /\ node2server' = <<>>
    BY <1>2 DEF ListVMs, PlanInv, TaskInv
  <2>2. DOMAIN node2server' = {}
    BY <2>1
  <2> QED
    BY <2>1, <2>2 DEF PlaceInv, Written
<1>3. CASE PartitionDone
  <2>1. /\ stage = "split" /\ stage' = "split"
        /\ UNCHANGED <<conf, graph, node2pm, vmPm, nextPm>>
    BY <1>3 DEF PartitionDone
  <2>2. PICK t \in tasks : \E parts \in MetisParts(PmNodes(t.pm), t.num) :
           node2server' = [n \in PmNodes(t.pm) \union DOMAIN node2server |->
                             IF n \in PmNodes(t.pm) THEN parts[n] + t.acc ELSE node2server[n]]
    BY <1>3 DEF PartitionDone
  <2>3. PICK parts \in MetisParts(PmNodes(t.pm), t.num) :
           node2server' = [n \in PmNodes(t.pm) \union DOMAIN node2server |->
                             IF n \in PmNodes(t.pm) THEN parts[n] + t.acc ELSE node2server[n]]
    BY <2>2
  <2>4. /\ DOMAIN node2server' = PmNodes(t.pm) \union DOMAIN node2server
        /\ \A n \in PmNodes(t.pm) : node2server'[n] = parts[n] + t.acc
        /\ \A n \in DOMAIN node2server : n \notin PmNodes(t.pm) => node2server'[n] = node2server[n]
    BY <2>3
  <2>5. t.pm \in Int /\ t.num = ServersOf(t.pm) /\ t.acc = First(t.pm)
    <3>1. /\ t.pm \in 0 .. (nextPm - 1) /\ t.num = ServersOf(t.pm) /\ t.acc = First(t.pm)
          /\ nextPm \in 0 .. conf.pms
      BY <2>1, <2>2 DEF PlanInv, TaskInv
    <3> QED
      BY <3>1, PmsType DEF PlanInv
  <2>6. /\ First(t.pm) \in Nat /\ ServersOf(t.pm) \in Nat
        /\ \A s \in First(t.pm) .. (First(t.pm) + ServersOf(t.pm) - 1) :
              s \in Servers /\ PmOf(s) = t.pm
    BY <2>1, <2>5, PmServers DEF PlanInv, ListInv
  <2>7. ASSUME NEW n \in PmNodes(t.pm)
        PROVE  node2server'[n] \in Servers /\ PmOf(node2server'[n]) = t.pm
    <3>1. parts[n] \in 0 .. (t.num - 1)
      <4>1. CASE t.num = 1
        BY <2>3, <2>7, <4>1 DEF MetisParts
      <4>2. CASE t.num # 1
        BY <2>3, <2>7, <4>2 DEF MetisParts
      <4> QED
        BY <4>1, <4>2
    <3>2. parts[n] + t.acc \in First(t.pm) .. (First(t.pm) + ServersOf(t.pm) - 1)
      BY <2>5, <2>6, <3>1
    <3> QED
      BY <2>4, <2>6, <3>2
  <2>8. \A s : s \in Servers' <=> s \in Servers
    BY <2>1 DEF Servers
  <2>9. ASSUME NEW n \in DOMAIN node2server' PROVE Placed(n)'
    <3>1. CASE n \in PmNodes(t.pm)
      BY <2>1, <2>7, <2>8, <3>1 DEF Placed, PmNodes, PmOf
    <3>2. CASE n \notin PmNodes(t.pm)
      <4>1. n \in DOMAIN node2server /\ Placed(n) /\ node2server'[n] = node2server[n]
        BY <2>1, <2>4, <3>2 DEF PlanInv, PlaceInv
      <4> QED
        BY <2>1, <2>8, <4>1 DEF Placed, PmOf
    <3> QED
      BY <3>1, <3>2
  <2> QED
    BY <2>1, <2>9 DEF PlaceInv, Written
<1>4. CASE SubmitPartition \/ WriteSubTopos \/ NumberBbNs \/ IdleStep
  <2>1. /\ UNCHANGED <<conf, graph, node2pm, vmPm, node2server>>
        /\ stage' \in {"split", "bbns", "planned"} => stage \in {"split", "bbns", "planned"}
        /\ Written' => Written \/ WriteSubTopos
    BY <1>4, IdleSteps DEF SubmitPartition, WriteSubTopos, NumberBbNs, Written
  <2>2. \A n : Placed(n)' <=> Placed(n)
    BY <2>1 DEF Placed, Servers, PmOf
  <2>3. ASSUME WriteSubTopos, NEW n \in graph.nodes PROVE n \in DOMAIN node2server
    <3>1. stage = "split" /\ nextPm \notin PMs /\ tasks = {}
      BY <2>3 DEF WriteSubTopos
    <3>2. nextPm = conf.pms
      BY <3>1, PmsType DEF PlanInv, TaskInv, PMs
    <3>3. node2pm[n] \in 0 .. (nextPm - 1)
      BY <3>1, <3>2 DEF PlanInv, PmInv, PMs
    <3>4. PmNodes(node2pm[n]) \subseteq DOMAIN node2server
      BY <3>1, <3>3 DEF PlanInv, TaskInv
    <3> QED
      BY <3>4 DEF PmNodes
  <2> QED
    BY <2>1, <2>2, <2>3 DEF PlanInv, PlaceInv
<1> QED
  BY <1>1, <1>2, <1>3, <1>4 DEF Next, Progress, EarlyStep, IdleStep

(* The files written are those of the graph and of the assignment.           *)
LEMMA FileKept ==
    ASSUME PlanInv, [Next]_vars
    PROVE  FileInv'
<1>1. CASE EarlyStep
  BY <1>1, EarlySteps DEF FileInv, Written
<1>2. CASE ListVMs \/ SubmitPartition \/ PartitionDone
  BY <1>2 DEF ListVMs, SubmitPartition, PartitionDone, FileInv, Written
<1>3. CASE WriteSubTopos \/ NumberBbNs \/ IdleStep
  <2>1. UNCHANGED <<conf, graph, vmPm, node2server>>
    BY <1>3, IdleSteps DEF WriteSubTopos, NumberBbNs
  <2>2. Servers' = Servers
    BY <2>1 DEF Servers
  <2>3. \A s : SubTopology(s)' = SubTopology(s)
    BY <2>1 DEF SubTopology, EdgesWithin, Crossing, Dangling, Vni
  <2>4. ComputeTdf' = ComputeTdf
    BY <2>1 DEF ComputeTdf, CrossLoad, PmOf, PMs
  <2>5. \A k : BbnsNum(k)' = BbnsNum(k)
    BY <2>1 DEF BbnsNum
  <2>6. CASE WriteSubTopos
    BY <2>2, <2>3, <2>4, <2>6 DEF WriteSubTopos, FileInv, Written
  <2>7. CASE NumberBbNs
    <3>1. /\ stage = "bbns" /\ stage' = "planned" /\ UNCHANGED <<subs, tdf>>
          /\ bbns' = [s \in Servers |-> BbnsNum(LinkCount(subs[s]))]
      BY <2>7 DEF NumberBbNs
    <3>2. [s \in Servers |-> BbnsNum(LinkCount(subs[s]))]' = [s \in Servers |-> BbnsNum(LinkCount(subs[s]))]
      BY <2>1, <2>2, <3>1 DEF BbnsNum, LinkCount
    <3> QED
      BY <2>2, <2>3, <2>4, <3>1, <3>2 DEF PlanInv, FileInv, Written
  <2>8. CASE IdleStep
    <3>1. UNCHANGED <<subs, tdf, bbns>> /\ (stage' = stage \/ stage' = "raised")
      BY <2>8, IdleSteps
    <3>2. [s \in Servers |-> BbnsNum(LinkCount(subs[s]))]' = [s \in Servers |-> BbnsNum(LinkCount(subs[s]))]
      BY <2>1, <2>2, <3>1 DEF BbnsNum, LinkCount
    <3> QED
      BY <2>2, <2>3, <2>4, <3>1, <3>2 DEF PlanInv, FileInv, Written
  <2> QED
    BY <1>3, <2>6, <2>7, <2>8
<1> QED
  BY <1>1, <1>2, <1>3 DEF Next, Progress, EarlyStep, IdleStep

(* The inductive invariant, in every reachable state of the planning.        *)
THEOREM PlanningInvariant == Spec => []PlanInv
<1>1. Init => PlanInv
  BY DEF Init, PlanInv, ReadInv, PmInv, ListInv, TaskInv, PlaceInv, FileInv, Written
<1>2. PlanInv /\ [Next]_vars => PlanInv'
  <2> SUFFICES ASSUME PlanInv, [Next]_vars PROVE PlanInv'
    OBVIOUS
  <2>1. ReadInv' /\ PmInv' /\ ListInv'
    BY ReadKept, PmKept, ListKept DEF PlanInv
  <2> QED
    BY <2>1, TaskKept, PlaceKept, FileKept DEF PlanInv
<1> QED
  BY <1>1, <1>2, PTL DEF Spec

(* Whatever the order in which the PMs' partitions complete, every node ends *)
(* on a server of its own PM.                                                *)
THEOREM NodesOnOwnMachine == Spec => []OnOwnMachine
<1>1. PlanInv => OnOwnMachine
  BY DEF PlanInv, PlaceInv, Placed, OnOwnMachine, Written
<1> QED
  BY <1>1, PlanningInvariant, PTL

-----------------------------------------------------------------------------
(* VXLAN ids                                                                 *)

(* Pairs of nodes are numbered in the order of their names.                  *)
Before(f, e) == f[1] < e[1] \/ (f[1] = e[1] /\ f[2] < e[2])

(* Finitely many pairs of nodes cross servers.                               *)
LEMMA CrossingPairs ==
    ASSUME PlanInv
    PROVE  /\ IsFiniteSet(Crossing)
           /\ \A e \in Crossing : e = <<e[1], e[2]>> /\ e[1] \in Int /\ e[2] \in Int
<1>1. IsFiniteSet(graph.nodes \X graph.nodes)
  BY GraphFacts, FS_Product DEF PlanInv
<1>2. Crossing \subseteq graph.nodes \X graph.nodes
  BY DEF Crossing
<1> QED
  BY <1>1, <1>2, GraphFacts, FS_Subset DEF PlanInv

(* An earlier pair has a smaller id.                                         *)
LEMMA VniGrows ==
    ASSUME PlanInv, NEW e \in Crossing, NEW f \in Crossing, Before(e, f)
    PROVE  Vni(e) < Vni(f)
<1> DEFINE Under(g) == {h \in Crossing : Before(h, g)}
<1>1. Under(e) \subseteq Under(f)
  BY CrossingPairs DEF Before
<1>2. e \in Under(f) /\ e \notin Under(e)
  BY CrossingPairs DEF Before
<1>3. IsFiniteSet(Under(f))
  BY CrossingPairs, FS_Subset
<1>4. /\ Cardinality(Under(e)) \in Nat /\ Cardinality(Under(f)) \in Nat
      /\ Cardinality(Under(e)) < Cardinality(Under(f))
  BY <1>1, <1>2, <1>3, FS_Subset, FS_CardinalityType
<1>5. Vni(e) = 4097 + Cardinality(Under(e)) /\ Vni(f) = 4097 + Cardinality(Under(f))
  BY DEF Vni, Before
<1> QED
  BY <1>4, <1>5

(* Two pairs of nodes have different ids.                                    *)
LEMMA VniInjective ==
    ASSUME PlanInv, NEW e \in Crossing, NEW f \in Crossing, Vni(e) = Vni(f)
    PROVE  e = f
<1>1. Vni(e) \in Int /\ Vni(f) \in Int
  <2>1. ASSUME NEW g PROVE Vni(g) \in Int
    <3>1. {h \in Crossing : h[1] < g[1] \/ (h[1] = g[1] /\ h[2] < g[2])} \subseteq Crossing
      OBVIOUS
    <3> QED
      BY <3>1, CrossingPairs, FS_Subset, FS_CardinalityType DEF Vni
  <2> QED
    BY <2>1
<1>2. ~Before(e, f) /\ ~Before(f, e)
  BY <1>1, VniGrows
<1> QED
  BY <1>2, CrossingPairs DEF Before

(* An entry of a file stands for a pair of nodes on two servers.             *)
LEMMA DanglingIsCrossing ==
    ASSUME NEW s, NEW d \in SubTopology(s).dangling
    PROVE  \E e \in Crossing : d.vni = Vni(e) /\ {d.end, d.peer} = {e[1], e[2]}
BY DEF SubTopology, Dangling

(* Over all servers of all machines, a VXLAN id stands for one pair of nodes.*)
THEOREM VniNamesOnePair == Spec => []VniPerPair
<1>1. PlanInv => VniPerPair
  <2> SUFFICES ASSUME PlanInv, Written, NEW s \in Servers, NEW t \in Servers,
                      NEW d \in subs[s].dangling, NEW e \in subs[t].dangling, d.vni = e.vni
               PROVE  {d.end, d.peer} = {e.end, e.peer}
    BY DEF VniPerPair
  <2>1. subs[s] = SubTopology(s) /\ subs[t] = SubTopology(t)
    BY DEF PlanInv, FileInv
  <2>2. PICK f \in Crossing : d.vni = Vni(f) /\ {d.end, d.peer} = {f[1], f[2]}
    BY <2>1, DanglingIsCrossing
  <2>3. PICK g \in Crossing : e.vni = Vni(g) /\ {e.end, e.peer} = {g[1], g[2]}
    BY <2>1, DanglingIsCrossing
  <2>4. f = g
    BY <2>2, <2>3, VniInjective
  <2> QED
    BY <2>2, <2>3, <2>4
<1> QED
  BY <1>1, PlanningInvariant, PTL

-----------------------------------------------------------------------------
(* The files together                                                        *)

(* A sum with one summand that is not zero.                                  *)
LEMMA SumSingle ==
    ASSUME NEW f, NEW S, IsFiniteSet(S), NEW a \in S, f[a] \in Nat,
           \A x \in S \ {a} : f[x] = 0
    PROVE  SumOn(f, S) = f[a]
<1>1. SumOn(f, S) = SumOn(f, {a})
  BY SumNonzero
<1>2. IsFiniteSet({a})
  BY FS_Singleton
<1>3. SumOn(f, {a}) = f[a] + SumOn(f, {a} \ {a})
  BY <1>2, SumRemove
<1>4. SumOn(f, {a} \ {a}) = 0
  <2>1. {a} \ {a} = {}
    OBVIOUS
  <2> QED
    BY <2>1, SumEmpty
<1> QED
  BY <1>1, <1>3, <1>4

(* What the invariant says of the files that are written.                    *)
LEMMA WrittenFacts ==
    ASSUME PlanInv, Written
    PROVE  /\ \A s \in Servers : subs[s] = SubTopology(s)
           /\ \A n \in graph.nodes : node2server[n] \in Servers /\ n \in Int
           /\ IsFiniteSet(Servers)
           /\ \A u \in graph.nodes, v \in graph.nodes :
                 /\ graph.adj[u][v] \in Nat /\ graph.adj[u][v] = graph.adj[v][u]
                 /\ graph.adj[u][v] = Lines(u, v)
<1>1. stage # "read" /\ stage \in {"split", "bbns", "planned"}
  BY DEF Written
<1>2. \A s \in Servers : subs[s] = SubTopology(s)
  BY DEF PlanInv, FileInv
<1>3. \A n \in graph.nodes : node2server[n] \in Servers /\ n \in Int
  BY <1>1, GraphFacts DEF PlanInv, PlaceInv, Placed
<1>4. IsFiniteSet(Servers)
  BY <1>1, ServerTypes DEF PlanInv, ListInv
<1>5. ASSUME NEW u \in graph.nodes, NEW v \in graph.nodes
      PROVE  /\ graph.adj[u][v] \in Nat /\ graph.adj[u][v] = graph.adj[v][u]
             /\ graph.adj[u][v] = Lines(u, v)
  <2>1. u \in DOMAIN graph.adj /\ v \in DOMAIN graph.adj
    BY <1>1, GraphFacts DEF PlanInv
  <2>2. graph.adj[u][v] = Lines(u, v) /\ Lines(u, v) = Lines(v, u) /\ graph.adj[u][v] \in Nat
    BY <1>1, <2>1, AdjIsLines DEF PlanInv
  <2>3. graph.adj[v][u] = Lines(v, u)
    BY <1>1, <2>1, AdjIsLines DEF PlanInv
  <2> QED
    BY <2>2, <2>3
<1> QED
  BY <1>2, <1>3, <1>4, <1>5

(* The lines between two nodes, as written inside files.                     *)
Inner(u, v) == SumFunction([s \in Servers |-> IF <<u, v>> \in DOMAIN subs[s].inner
                                              THEN subs[s].inner[<<u, v>>] ELSE 0])

(* The copies of a pair in the servers' inner lines.                         *)
LEMMA InnerIs ==
    ASSUME PlanInv, Written, NEW u \in graph.nodes, NEW v \in graph.nodes, u < v
    PROVE  Inner(u, v) = IF node2server[u] = node2server[v] THEN Lines(u, v) ELSE 0
<1> DEFINE e == <<u, v>>
           f == [s \in Servers |-> IF e \in DOMAIN subs[s].inner THEN subs[s].inner[e] ELSE 0]
           a == node2server[u]
<1>1. Inner(u, v) = SumOn(f, Servers)
  BY SumFunctionIs DEF Inner
<1>2. ASSUME NEW s \in Servers
      PROVE  f[s] = IF a = s /\ node2server[v] = s THEN graph.adj[u][v] ELSE 0
  <2>1. subs[s] = SubTopology(s) /\ graph.adj[u][v] \in Nat
    BY WrittenFacts
  <2>2. DOMAIN subs[s].inner = EdgesWithin(s) /\ \A d \in EdgesWithin(s) :
                                                     subs[s].inner[d] = graph.adj[d[1]][d[2]]
    BY <2>1 DEF SubTopology
  <2>3. e \in EdgesWithin(s) <=> graph.adj[u][v] > 0 /\ a = s /\ node2server[v] = s
    BY DEF EdgesWithin
  <2> QED
    BY <2>1, <2>2, <2>3
<1>3. a \in Servers /\ IsFiniteSet(Servers) /\ graph.adj[u][v] \in Nat
      /\ graph.adj[u][v] = Lines(u, v)
  BY WrittenFacts
<1> HIDE DEF f
<1>4. SumOn(f, Servers) = f[a]
  <2>1. f[a] \in Nat /\ \A x \in Servers \ {a} : f[x] = 0
    BY <1>2, <1>3
  <2> QED
    BY <1>3, <2>1, SumSingle
<1> QED
  BY <1>1, <1>2, <1>3, <1>4

(* The entries between two nodes in the file of a server.                    *)
LEMMA EntriesAre ==
    ASSUME PlanInv, Written, NEW u \in graph.nodes, NEW v \in graph.nodes, u < v,
           NEW s \in Servers
    PROVE  {d \in subs[s].dangling : {d.end, d.peer} = {u, v}}
           = IF <<u, v>> \notin Crossing THEN {}
             ELSE IF s = node2server[u] THEN {Dangling(u, v, <<u, v>>)}
             ELSE IF s = node2server[v] THEN {Dangling(v, u, <<u, v>>)}
             ELSE {}
<1> DEFINE At == {d \in subs[s].dangling : {d.end, d.peer} = {u, v}}
<1>1. subs[s].dangling =
        {Dangling(e[1], e[2], e) : e \in {f \in Crossing : node2server[f[1]] = s}}
        \union {Dangling(e[2], e[1], e) : e \in {f \in Crossing : node2server[f[2]] = s}}
  <2>1. subs[s] = SubTopology(s)
    BY WrittenFacts
  <2> QED
    BY <2>1 DEF SubTopology
<1>2. \A e \in Crossing : e = <<e[1], e[2]>> /\ e[1] \in Int /\ e[2] \in Int /\ e[1] < e[2]
                          /\ node2server[e[1]] # node2server[e[2]]
  BY CrossingPairs DEF Crossing
<1>3. u \in Int /\ v \in Int
  BY WrittenFacts
<1>4. \A e \in Crossing : {e[1], e[2]} = {u, v} => e = <<u, v>>
  BY <1>2, <1>3
<1>5. ASSUME NEW d
      PROVE  d \in At <=> /\ <<u, v>> \in Crossing
                          /\ \/ s = node2server[u] /\ d = Dangling(u, v, <<u, v>>)
                             \/ s = node2server[v] /\ d = Dangling(v, u, <<u, v>>)
  <2>1. ASSUME d \in At
        PROVE  /\ <<u, v>> \in Crossing
               /\ \/ s = node2server[u] /\ d = Dangling(u, v, <<u, v>>)
                  \/ s = node2server[v] /\ d = Dangling(v, u, <<u, v>>)
    <3>1. PICK e \in Crossing :
             \/ d = Dangling(e[1], e[2], e) /\ node2server[e[1]] = s
             \/ d = Dangling(e[2], e[1], e) /\ node2server[e[2]] = s
      BY <1>1, <2>1
    <3>2. {d.end, d.peer} = {e[1], e[2]}
      BY <3>1 DEF Dangling
    <3>3. e = <<u, v>>
      BY <1>4, <2>1, <3>2
    <3> QED
      BY <3>1, <3>3
  <2>2. ASSUME <<u, v>> \in Crossing,
               \/ s = node2server[u] /\ d = Dangling(u, v, <<u, v>>)
               \/ s = node2server[v] /\ d = Dangling(v, u, <<u, v>>)
        PROVE  d \in At
    <3>1. d \in subs[s].dangling
      BY <1>1, <2>2
    <3>2. {d.end, d.peer} = {u, v}
      BY <2>2 DEF Dangling
    <3> QED
      BY <3>1, <3>2
  <2> QED
    BY <2>1, <2>2
<1>6. <<u, v>> \in Crossing => node2server[u] # node2server[v]
  BY DEF Crossing
<1> QED
  BY <1>5, <1>6

(* Together the files of the servers are the topology.                       *)
THEOREM FilesAgree == Spec => []EndsAgree
<1>1. PlanInv => EndsAgree
  <2> SUFFICES ASSUME PlanInv, Written, NEW u \in graph.nodes, NEW v \in graph.nodes, u < v
               PROVE
            LET at == [s \in Servers |-> {d \in subs[s].dangling : {d.end, d.peer} = {u, v}}]
            IN \/ /\ Inner(u, v) = Lines(u, v)
                  /\ \A s \in Servers : at[s] = {}
               \/ \E s \in Servers : \E t \in Servers \ {s} : \E id \in {d.vni : d \in at[s]} :
                    /\ Inner(u, v) = 0
                    /\ u \in subs[s].nodes /\ v \in subs[t].nodes
                    /\ at[s] = {[end |-> u, peer |-> v, server |-> t, vni |-> id, copies |-> Lines(u, v)]}
                    /\ at[t] = {[end |-> v, peer |-> u, server |-> s, vni |-> id, copies |-> Lines(u, v)]}
                    /\ \A r \in Servers \ {s, t} : at[r] = {}
    BY DEF EndsAgree, Inner
  <2> DEFINE at == [s \in Servers |-> {d \in subs[s].dangling : {d.end, d.peer} = {u, v}}]
             e == <<u, v>>
  <2>1. ASSUME NEW s \in Servers
        PROVE  at[s] = IF e \notin Crossing THEN {}
                       ELSE IF s = node2server[u] THEN {Dangling(u, v, e)}
                       ELSE IF s = node2server[v] THEN {Dangling(v, u, e)}
                       ELSE {}
    BY EntriesAre
  <2>2. Inner(u, v) = IF node2server[u] = node2server[v] THEN Lines(u, v) ELSE 0
    BY InnerIs
  <2>3. /\ graph.adj[u][v] \in Nat /\ graph.adj[u][v] = graph.adj[v][u]
        /\ graph.adj[u][v] = Lines(u, v)
        /\ node2server[u] \in Servers /\ node2server[v] \in Servers
        /\ \A s \in Servers : subs[s] = SubTopology(s)
    BY WrittenFacts
  <2>4. e \in Crossing <=> graph.adj[u][v] > 0 /\ node2server[u] # node2server[v]
    BY DEF Crossing
  <2> HIDE DEF at
  <2>5. CASE e \notin Crossing
    BY <2>1, <2>2, <2>3, <2>4, <2>5 DEF at
  <2>6. CASE e \in Crossing
    <3> DEFINE s == node2server[u]
               t == node2server[v]
               id == Vni(e)
    <3>1. s \in Servers /\ t \in Servers \ {s} /\ Inner(u, v) = 0
      BY <2>2, <2>3, <2>4, <2>6
    <3>2. at[s] = {[end |-> u, peer |-> v, server |-> t, vni |-> id, copies |-> Lines(u, v)]}
      BY <2>1, <2>3, <2>6, <3>1 DEF Dangling
    <3>3. at[t] = {[end |-> v, peer |-> u, server |-> s, vni |-> id, copies |-> Lines(u, v)]}
      BY <2>1, <2>3, <2>6, <3>1 DEF Dangling
    <3>4. \A r \in Servers \ {s, t} : at[r] = {}
      BY <2>1, <2>6
    <3>5. u \in subs[s].nodes /\ v \in subs[t].nodes
      <4>1. subs[s] = SubTopology(s) /\ subs[t] = SubTopology(t)
        BY <2>3
      <4> QED
        BY <4>1 DEF SubTopology
    <3>6. id \in {d.vni : d \in at[s]}
      BY <3>2
    <3> HIDE DEF s, t, id
    <3> QED
      BY <3>1, <3>2, <3>3, <3>4, <3>5, <3>6 DEF at
  <2> QED
    BY <2>5, <2>6
<1> QED
  BY <1>1, PlanningInvariant, PTL

-----------------------------------------------------------------------------
(* The number of backbone namespaces                                         *)

(* The least k with 2 * X * k * k >= links * Y is positive.                  *)
LEMMA BbnsPositive ==
    ASSUME ReadInv, NEW links \in Nat \ {0}
    PROVE  BbnsNum(links) \in Nat \ {0}
<1>1. X \in Nat \ {0} /\ Y \in Nat \ {0} /\ conf.fixedBbns \in Nat
  BY PlanningAssumption DEF ReadInv
<1>2. CASE conf.fixedBbns = 0
  <2> DEFINE m == links * Y
             Enough(k) == 2 * X * k * k >= m
             T == {k \in Nat : Enough(k)}
             Least(k) == Enough(k) /\ (k = 0 \/ 2 * X * (k - 1) * (k - 1) < m)
  <2>1. m \in Nat \ {0}
    BY <1>1
  <2>2. m \in T
    <3>1. 2 * X \in Nat \ {0}
      BY <1>1
    <3> HIDE DEF m
    <3>2. (2 * X) * m \in Nat /\ (2 * X) * m >= m
      <4> DEFINE x == 2 * X
      <4> HIDE DEF x
      <4>1. x \in Nat \ {0}
        BY <3>1 DEF x
      <4>2. x * m = (x - 1) * m + m /\ (x - 1) * m >= 0
        BY <2>1, <4>1
      <4> QED
        BY <2>1, <4>1, <4>2 DEF x
    <3>3. (2 * X) * m * m >= m
      <4> DEFINE x == (2 * X) * m
      <4> HIDE DEF x
      <4>1. x \in Nat \ {0} /\ x >= m
        BY <2>1, <3>2 DEF x
      <4>2. x * m = x * (m - 1) + x /\ x * (m - 1) >= 0
        BY <2>1, <4>1
      <4> QED
        BY <2>1, <4>1, <4>2 DEF x
    <3> QED
      BY <2>1, <3>3
  <2>3. PICK k \in T : \A j \in T : k <= j
    <3>1. T \subseteq Nat /\ T # {}
      BY <2>2
    <3> HIDE DEF T
    <3> QED
      BY <3>1, LeastElement
  <2>4. k \in 0 .. m /\ Least(k)
    <3>1. k \in Nat /\ k <= m /\ Enough(k)
      BY <2>1, <2>2, <2>3
    <3>2. ASSUME k # 0 PROVE 2 * X * (k - 1) * (k - 1) < m
      <4>1. k - 1 \in Nat /\ k - 1 \notin T
        BY <2>3, <3>1, <3>2
      <4>2. ~(2 * X * (k - 1) * (k - 1) >= m)
        BY <4>1
      <4>3. 2 * X * (k - 1) * (k - 1) \in Nat
        BY <1>1, <4>1
      <4> HIDE DEF m
      <4> QED
        BY <2>1, <4>2, <4>3
    <3> QED
      BY <2>1, <3>1, <3>2
  <2>5. BbnsNum(links) = CHOOSE j \in 0 .. m : Least(j)
    BY <1>2 DEF BbnsNum
  <2>6. BbnsNum(links) \in 0 .. m /\ Least(BbnsNum(links))
    <3> HIDE DEF Least, m
    <3> QED
      BY <2>4, <2>5
  <2>7. ~Enough(0)
    BY <1>1, <2>1
  <2> QED
    BY <2>1, <2>6, <2>7
<1>3. CASE conf.fixedBbns # 0
  <2> DEFINE S == {links, conf.fixedBbns}
  <2>1. BbnsNum(links) = Min(S)
    BY <1>3 DEF BbnsNum
  <2>2. \E x \in S : \A y \in S : x <= y
    BY <1>1
  <2>3. Min(S) \in S
    <3> HIDE DEF S
    <3> QED
      BY <2>2 DEF Min
  <2> QED
    BY <1>1, <1>3, <2>1, <2>3
<1> QED
  BY <1>2, <1>3

(* A sum with a positive summand is positive.                                *)
LEMMA SumPositive ==
    ASSUME NEW f, NEW S, IsFiniteSet(S), \A x \in S : f[x] \in Nat,
           NEW a \in S, f[a] > 0
    PROVE  SumOn(f, S) > 0
<1>1. IsFiniteSet(S \ {a}) /\ \A x \in S \ {a} : f[x] \in Nat
  BY FS_RemoveElement
<1>2. SumOn(f, S) = f[a] + SumOn(f, S \ {a}) /\ f[a] \in Nat
  BY SumRemove
<1>3. SumOn(f, S \ {a}) \in Nat
  BY <1>1, SumRemove
<1> QED
  BY <1>2, <1>3

(* A server with a node has a link in its file.                              *)
LEMMA ServerHasLink ==
    ASSUME PlanInv, Written, NEW s \in Servers, subs[s].nodes # {}
    PROVE  LinkCount(subs[s]) \in Nat \ {0}
<1> DEFINE sub == subs[s]
           copies == [d \in sub.dangling |-> d.copies]
<1>1. sub = SubTopology(s)
  BY WrittenFacts
<1>2. PICK u \in graph.nodes : node2server[u] = s
  BY <1>1 DEF SubTopology
<1>3. PICK v \in graph.nodes : v # u /\ graph.adj[u][v] > 0
  <2>1. PICK w \in DOMAIN graph.adj : w # u /\ graph.adj[u][w] > 0
    BY HasNeighbour DEF PlanInv, Written
  <2>2. Closed(graph.nodes, graph.adj)
    BY DEF PlanInv, PmInv, Written
  <2> QED
    BY <2>1, <2>2 DEF Closed
<1>4. /\ \A x \in graph.nodes, y \in graph.nodes :
             graph.adj[x][y] \in Nat /\ graph.adj[x][y] = graph.adj[y][x]
      /\ \A x \in graph.nodes : x \in Int
      /\ IsFiniteSet(graph.nodes) /\ IsFiniteSet(Crossing)
  BY WrittenFacts, GraphFacts, CrossingPairs DEF PlanInv
<1>5. /\ LinkCount(sub) = SumOn(sub.inner, EdgesWithin(s)) + SumOn(copies, sub.dangling)
  <2>1. DOMAIN sub.inner = EdgesWithin(s) /\ DOMAIN copies = sub.dangling
    BY <1>1 DEF SubTopology
  <2> QED
    BY <2>1, SumFunctionIs DEF LinkCount
<1>6. IsFiniteSet(EdgesWithin(s)) /\ IsFiniteSet(sub.dangling)
  <2>1. IsFiniteSet(graph.nodes \X graph.nodes)
    BY <1>4, FS_Product
  <2>2. EdgesWithin(s) \in SUBSET (graph.nodes \X graph.nodes)
    BY DEF EdgesWithin
  <2> DEFINE A == {f \in Crossing : node2server[f[1]] = s}
             B == {f \in Crossing : node2server[f[2]] = s}
             dA == {Dangling(e[1], e[2], e) : e \in A}
             dB == {Dangling(e[2], e[1], e) : e \in B}
  <2>3. IsFiniteSet(A) /\ IsFiniteSet(B)
    BY <1>4, FS_Subset
  <2>4. [e \in A |-> Dangling(e[1], e[2], e)] \in Surjection(A, dA)
    BY DEF Surjection
  <2>5. [e \in B |-> Dangling(e[2], e[1], e)] \in Surjection(B, dB)
    BY DEF Surjection
  <2>6. IsFiniteSet(dA) /\ IsFiniteSet(dB)
    BY <2>3, <2>4, <2>5, FS_Surjection
  <2>7. sub.dangling = dA \union dB
    BY <1>1 DEF SubTopology
  <2> QED
    BY <2>1, <2>2, <2>6, <2>7, FS_Subset, FS_Union
<1>7. ASSUME NEW e \in EdgesWithin(s) PROVE sub.inner[e] \in Nat /\ sub.inner[e] > 0
  <2>1. sub.inner[e] = graph.adj[e[1]][e[2]]
    BY <1>1 DEF SubTopology
  <2>2. e[1] \in graph.nodes /\ e[2] \in graph.nodes /\ graph.adj[e[1]][e[2]] > 0
    BY DEF EdgesWithin
  <2> HIDE DEF sub
  <2> QED
    BY <1>4, <2>1, <2>2
<1>8. ASSUME NEW d \in sub.dangling PROVE copies[d] \in Nat /\ copies[d] > 0
  <2>1. d \in SubTopology(s).dangling
    BY <1>1
  <2>2. PICK e \in Crossing : d = Dangling(e[1], e[2], e) \/ d = Dangling(e[2], e[1], e)
    BY <2>1 DEF SubTopology
  <2>3. d.copies = graph.adj[e[1]][e[2]] \/ d.copies = graph.adj[e[2]][e[1]]
    BY <2>2 DEF Dangling
  <2>4. e[1] \in graph.nodes /\ e[2] \in graph.nodes /\ graph.adj[e[1]][e[2]] > 0
    BY DEF Crossing
  <2> QED
    BY <1>4, <2>3, <2>4
<1>9. SumOn(sub.inner, EdgesWithin(s)) \in Nat /\ SumOn(copies, sub.dangling) \in Nat
  BY <1>6, <1>7, <1>8, SumRemove
<1>10. EdgesWithin(s) # {} \/ sub.dangling # {}
  <2>1. PICK a \in graph.nodes, b \in graph.nodes :
           /\ {a, b} = {u, v} /\ a < b /\ graph.adj[a][b] > 0
           /\ a = u \/ b = u
    BY <1>2, <1>3, <1>4
  <2> DEFINE e == <<a, b>>
  <2>2. CASE node2server[a] = node2server[b]
    <3>1. e \in EdgesWithin(s)
      BY <1>2, <2>1, <2>2 DEF EdgesWithin
    <3> QED
      BY <3>1
  <2>3. CASE node2server[a] # node2server[b]
    <3>1. e \in Crossing
      BY <2>1, <2>3 DEF Crossing
    <3>2. CASE a = u
      <4>1. Dangling(a, b, e) \in SubTopology(s).dangling
        BY <1>2, <3>1, <3>2 DEF SubTopology
      <4> QED
        BY <1>1, <4>1
    <3>3. CASE b = u
      <4>1. Dangling(b, a, e) \in SubTopology(s).dangling
        BY <1>2, <3>1, <3>3 DEF SubTopology
      <4> QED
        BY <1>1, <4>1
    <3> QED
      BY <2>1, <3>2, <3>3
  <2> QED
    BY <2>2, <2>3
<1>11. SumOn(sub.inner, EdgesWithin(s)) > 0 \/ SumOn(copies, sub.dangling) > 0
  <2>1. ASSUME NEW e \in EdgesWithin(s) PROVE SumOn(sub.inner, EdgesWithin(s)) > 0
    BY <1>6, <1>7, <2>1, SumPositive
  <2>2. ASSUME NEW d \in sub.dangling PROVE SumOn(copies, sub.dangling) > 0
    BY <1>6, <1>8, <2>2, SumPositive
  <2> QED
    BY <1>10, <2>1, <2>2
<1> QED
  BY <1>5, <1>9, <1>11

(* Without links no namespace is asked for.                                  *)
LEMMA BbnsOfNone == ASSUME ReadInv PROVE BbnsNum(0) = 0
<1>1. X \in Nat \ {0} /\ Y \in Nat \ {0} /\ conf.fixedBbns \in Nat
  BY PlanningAssumption DEF ReadInv
<1>2. CASE conf.fixedBbns = 0
  <2>1. 0 * Y = 0 /\ 0 .. (0 * Y) = {0}
    BY <1>1
  <2>2. 2 * X * 0 * 0 >= 0
    BY <1>1
  <2> QED
    BY <1>2, <2>1, <2>2 DEF BbnsNum
<1>3. CASE conf.fixedBbns # 0
  <2>1. \A x \in {0, conf.fixedBbns} : 0 <= x
    BY <1>1
  <2>2. \A x \in {0, conf.fixedBbns} : (\A y \in {0, conf.fixedBbns} : x <= y) => x = 0
    BY <1>1
  <2>3. Min({0, conf.fixedBbns}) = 0
    BY <2>1, <2>2 DEF Min
  <2> QED
    BY <1>3, <2>3 DEF BbnsNum
<1> QED
  BY <1>2, <1>3

(* The file of a server without nodes has no links.                          *)
LEMMA EmptyServer ==
    ASSUME PlanInv, Written, NEW s \in Servers, subs[s].nodes = {}
    PROVE  LinkCount(subs[s]) = 0
<1>1. subs[s] = SubTopology(s)
  BY WrittenFacts
<1>2. \A n \in graph.nodes : node2server[n] # s
  BY <1>1 DEF SubTopology
<1>3. EdgesWithin(s) = {} /\ \A e \in Crossing : node2server[e[1]] # s /\ node2server[e[2]] # s
  BY <1>2 DEF EdgesWithin, Crossing
<1>4. DOMAIN subs[s].inner = {} /\ subs[s].dangling = {}
  BY <1>1, <1>3 DEF SubTopology
<1>5. SumFunction(subs[s].inner) = 0
  BY <1>4, SumFunctionIs, SumEmpty
<1>6. SumFunction([d \in subs[s].dangling |-> d.copies]) = 0
  <2>1. DOMAIN [d \in subs[s].dangling |-> d.copies] = {}
    BY <1>4
  <2> QED
    BY <2>1, SumFunctionIs, SumEmpty
<1> QED
  BY <1>5, <1>6 DEF LinkCount

(* The servers that have nodes are those that get backbone namespaces.       *)
THEOREM NamespacesSuffice == Spec => []EnoughNamespaces
<1>1. PlanInv => EnoughNamespaces
  <2> SUFFICES ASSUME PlanInv, stage = "planned", NEW s \in Servers
               PROVE  subs[s].nodes # {} <=> bbns[s] > 0
    BY DEF EnoughNamespaces
  <2>1. Written /\ ReadInv
    BY DEF Written, PlanInv
  <2>2. bbns[s] = BbnsNum(LinkCount(subs[s]))
    BY DEF PlanInv, FileInv
  <2>3. CASE subs[s].nodes # {}
    <3>1. BbnsNum(LinkCount(subs[s])) \in Nat \ {0}
      BY <2>1, <2>3, ServerHasLink, BbnsPositive
    <3> QED
      BY <2>2, <2>3, <3>1
  <2>4. CASE subs[s].nodes = {}
    <3>1. BbnsNum(LinkCount(subs[s])) = 0
      BY <2>1, <2>4, EmptyServer, BbnsOfNone
    <3> QED
      BY <2>2, <2>4, <3>1
  <2> QED
    BY <2>3, <2>4
<1> QED
  BY <1>1, PlanningInvariant, PTL

-----------------------------------------------------------------------------
(* The numbers by which the plan was made                                    *)

(* The entries that the servers of S have for nodes on servers of T, and the *)
(* pairs of nodes they stand for: the first node is the server's own.        *)
Between(S, T) ==
    SumFunction([s \in S |->
        SumFunction([d \in {e \in subs[s].dangling : e.server \in T} |-> d.copies])])
On(p) == {s \in Servers : PmOf(s) = p}
Links == [e \in graph.nodes \X graph.nodes |-> graph.adj[e[1]][e[2]]]
Cross(S, T) ==
    {e \in graph.nodes \X graph.nodes :
        /\ node2server[e[1]] \in S /\ node2server[e[2]] \in T
        /\ node2server[e[1]] # node2server[e[2]] /\ graph.adj[e[1]][e[2]] > 0}

(* The links of a pair are counted alike from its two ends.                  *)
LEMMA PairFacts ==
    ASSUME PlanInv, Written
    PROVE  /\ IsFiniteSet(graph.nodes \X graph.nodes)
           /\ \A e \in graph.nodes \X graph.nodes :
                 /\ e = <<e[1], e[2]>> /\ e[1] \in Int /\ e[2] \in Int
                 /\ Links[e] = graph.adj[e[1]][e[2]] /\ Links[e] \in Nat
                 /\ Links[<<e[2], e[1]>>] = Links[e]
                 /\ <<e[2], e[1]>> \in graph.nodes \X graph.nodes
                 /\ node2server[e[1]] \in Servers /\ node2server[e[2]] \in Servers
<1>1. IsFiniteSet(graph.nodes \X graph.nodes)
  BY GraphFacts, FS_Product DEF PlanInv
<1>2. ASSUME NEW e \in graph.nodes \X graph.nodes
      PROVE  /\ e = <<e[1], e[2]>> /\ e[1] \in Int /\ e[2] \in Int
             /\ Links[e] = graph.adj[e[1]][e[2]] /\ Links[e] \in Nat
             /\ Links[<<e[2], e[1]>>] = Links[e]
             /\ <<e[2], e[1]>> \in graph.nodes \X graph.nodes
             /\ node2server[e[1]] \in Servers /\ node2server[e[2]] \in Servers
  <2>1. e[1] \in graph.nodes /\ e[2] \in graph.nodes
    OBVIOUS
  <2>2. /\ \A n \in graph.nodes : node2server[n] \in Servers /\ n \in Int
        /\ \A u \in graph.nodes, v \in graph.nodes :
              graph.adj[u][v] \in Nat /\ graph.adj[u][v] = graph.adj[v][u]
    BY WrittenFacts
  <2> QED
    BY <2>1, <2>2 DEF Links
<1> QED
  BY <1>1, <1>2

(* The entries in one file, for nodes on servers of T.                       *)
LEMMA EntriesSum ==
    ASSUME PlanInv, Written, NEW s \in Servers, NEW T
    PROVE  SumFunction([d \in {e \in subs[s].dangling : e.server \in T} |-> d.copies])
           = SumOn(Links, Cross({s}, T))
<1> DEFINE D == {e \in subs[s].dangling : e.server \in T}
           copies == [d \in D |-> d.copies]
           C == Cross({s}, T)
           Order(e) == IF e[1] < e[2] THEN e ELSE <<e[2], e[1]>>
           b == [e \in C |-> Dangling(e[1], e[2], Order(e))]
<1>1. SumFunction(copies) = SumOn(copies, D)
  BY SumFunctionIs
<1>2. /\ IsFiniteSet(graph.nodes \X graph.nodes)
      /\ \A e \in graph.nodes \X graph.nodes :
            /\ e = <<e[1], e[2]>> /\ e[1] \in Int /\ e[2] \in Int
            /\ Links[e] = graph.adj[e[1]][e[2]] /\ Links[e] \in Nat
            /\ Links[<<e[2], e[1]>>] = Links[e]
            /\ <<e[2], e[1]>> \in graph.nodes \X graph.nodes
  BY PairFacts
<1>3. IsFiniteSet(C) /\ \A e \in C : e \in graph.nodes \X graph.nodes
  BY <1>2, FS_Subset DEF Cross
<1>4. subs[s].dangling =
        {Dangling(e[1], e[2], e) : e \in {f \in Crossing : node2server[f[1]] = s}}
        \union {Dangling(e[2], e[1], e) : e \in {f \in Crossing : node2server[f[2]] = s}}
  <2>1. subs[s] = SubTopology(s)
    BY WrittenFacts
  <2> QED
    BY <2>1 DEF SubTopology
<1>5. ASSUME NEW e \in C
      PROVE  b[e] \in D /\ b[e].end = e[1] /\ b[e].peer = e[2] /\ b[e].copies = Links[e]
  <2>1. /\ e = <<e[1], e[2]>> /\ e[1] \in Int /\ e[2] \in Int /\ e[1] # e[2]
        /\ e \in graph.nodes \X graph.nodes /\ graph.adj[e[1]][e[2]] > 0
        /\ node2server[e[1]] = s /\ node2server[e[2]] \in T /\ node2server[e[2]] # s
        /\ graph.adj[e[2]][e[1]] = graph.adj[e[1]][e[2]]
    <3>1. Links[<<e[2], e[1]>>] = graph.adj[e[2]][e[1]]
      BY <1>3 DEF Links
    <3> QED
      BY <1>2, <1>3, <3>1 DEF Cross
  <2>2. /\ b[e].end = e[1] /\ b[e].peer = e[2] /\ b[e].copies = graph.adj[e[1]][e[2]]
        /\ b[e].server = node2server[e[2]]
    BY DEF Dangling
  <2>3. b[e] \in subs[s].dangling
    <3>1. CASE e[1] < e[2]
      <4>1. e \in Crossing
        BY <2>1, <3>1 DEF Crossing
      <4>2. b[e] = Dangling(e[1], e[2], e)
        BY <3>1
      <4> QED
        BY <1>4, <2>1, <4>1, <4>2
    <3>2. CASE ~(e[1] < e[2])
      <4> DEFINE f == <<e[2], e[1]>>
      <4>1. f \in Crossing
        BY <2>1, <3>2 DEF Crossing
      <4>2. b[e] = Dangling(f[2], f[1], f) /\ node2server[f[2]] = s
        BY <2>1, <3>2
      <4> QED
        BY <1>4, <4>1, <4>2
    <3> QED
      BY <3>1, <3>2
  <2> QED
    BY <1>2, <2>1, <2>2, <2>3
<1>6. ASSUME NEW d \in D PROVE \E e \in C : b[e] = d
  <2>1. PICK e \in Crossing :
           \/ d = Dangling(e[1], e[2], e) /\ node2server[e[1]] = s
           \/ d = Dangling(e[2], e[1], e) /\ node2server[e[2]] = s
    BY <1>4
  <2>2. /\ e \in graph.nodes \X graph.nodes /\ e[1] < e[2] /\ graph.adj[e[1]][e[2]] > 0
        /\ node2server[e[1]] # node2server[e[2]]
        /\ e = <<e[1], e[2]>> /\ e[1] \in Int /\ e[2] \in Int
        /\ graph.adj[e[2]][e[1]] = graph.adj[e[1]][e[2]]
    <3>1. e \in graph.nodes \X graph.nodes
      BY DEF Crossing
    <3>2. Links[<<e[2], e[1]>>] = graph.adj[e[2]][e[1]]
      BY <3>1 DEF Links
    <3> QED
      BY <1>2, <3>1, <3>2 DEF Crossing
  <2>3. CASE d = Dangling(e[1], e[2], e) /\ node2server[e[1]] = s
    <3>1. d.server = node2server[e[2]] /\ d.server \in T
      BY <2>3 DEF Dangling
    <3>2. e \in C
      BY <2>2, <2>3, <3>1 DEF Cross
    <3>3. b[e] = d
      BY <2>2, <2>3, <3>2
    <3> QED
      BY <3>2, <3>3
  <2>4. CASE d = Dangling(e[2], e[1], e) /\ node2server[e[2]] = s
    <3> DEFINE f == <<e[2], e[1]>>
    <3>1. d.server = node2server[e[1]] /\ d.server \in T
      BY <2>4 DEF Dangling
    <3>2. f \in C
      BY <2>2, <2>4, <3>1 DEF Cross
    <3>3. ~(f[1] < f[2]) /\ <<f[2], f[1]>> = e
      BY <2>2
    <3>4. b[f] = Dangling(f[1], f[2], e)
      BY <3>2, <3>3
    <3> QED
      BY <2>4, <3>2, <3>4
  <2> QED
    BY <2>1, <2>3, <2>4
<1>7. D = {b[e] : e \in C}
  BY <1>5, <1>6
<1>8. \A e \in C : copies[b[e]] \in Nat /\ Links[e] = copies[b[e]]
  BY <1>2, <1>3, <1>5
<1>9. \A e \in C, f \in C : b[e] = b[f] => e = f
  <2> SUFFICES ASSUME NEW e \in C, NEW f \in C, b[e] = b[f] PROVE e = f
    OBVIOUS
  <2>1. e = <<e[1], e[2]>> /\ f = <<f[1], f[2]>>
    BY <1>2, <1>3
  <2>2. e[1] = f[1] /\ e[2] = f[2]
    BY <1>5
  <2> QED
    BY <2>1, <2>2
<1> HIDE DEF b, C, D, copies
<1>10. SumOn(Links, C) = SumOn(copies, D)
  BY <1>3, <1>7, <1>8, <1>9, SumRename
<1> QED
  BY <1>1, <1>10 DEF C, D, copies

(* The dangling links of S to T are the links of the pairs that lead there.  *)
LEMMA BetweenIs ==
    ASSUME PlanInv, Written, NEW S, S \subseteq Servers, NEW T
    PROVE  Between(S, T) = SumOn(Links, Cross(S, T))
<1> DEFINE C == Cross(S, T)
           k == [e \in C |-> node2server[e[1]]]
           Of(s) == SumFunction([d \in {e \in subs[s].dangling : e.server \in T} |-> d.copies])
<1>1. ASSUME NEW s \in S PROVE Of(s) = SumOn(Links, {e \in C : k[e] = s})
  <2>1. Cross({s}, T) = {e \in C : k[e] = s}
    BY DEF Cross
  <2>2. Of(s) = SumOn(Links, Cross({s}, T))
    BY EntriesSum
  <2> QED
    BY <2>1, <2>2
<1>2. IsFiniteSet(S) /\ IsFiniteSet(C) /\ \A e \in C : Links[e] \in Nat /\ k[e] \in S
  <2>1. IsFiniteSet(S)
    BY WrittenFacts, FS_Subset
  <2>2. C \in SUBSET (graph.nodes \X graph.nodes) /\ \A e \in C : k[e] \in S
    BY DEF Cross
  <2>3. IsFiniteSet(C) /\ \A e \in C : Links[e] \in Nat
    BY <2>2, PairFacts, FS_Subset
  <2> QED
    BY <2>1, <2>2, <2>3
<1>3. Between(S, T) = SumOn([s \in S |-> Of(s)], S)
  BY SumFunctionIs DEF Between
<1>4. [s \in S |-> Of(s)] = [s \in S |-> SumOn(Links, {e \in C : k[e] = s})]
  <2> HIDE DEF Of, k, C
  <2> QED
    BY <1>1
<1>5. SumOn([s \in S |-> SumOn(Links, {e \in C : k[e] = s})], S) = SumOn(Links, C)
  <2> HIDE DEF k, C
  <2> QED
    BY <1>2, SumParts
<1> QED
  BY <1>3, <1>4, <1>5

(* Between two PMs every link is an entry of a file.                         *)
LEMMA CrossLoadIs ==
    ASSUME PlanInv, Written, NEW p \in PMs, NEW q \in PMs, p # q
    PROVE  CrossLoad(p, q) = Between(On(p), On(q))
<1> DEFINE L == {f \in graph.nodes \X graph.nodes :
                   PmOf(node2server[f[1]]) = p /\ PmOf(node2server[f[2]]) = q}
           g == [e \in L |-> graph.adj[e[1]][e[2]]]
           C == Cross(On(p), On(q))
<1>1. /\ IsFiniteSet(graph.nodes \X graph.nodes)
      /\ \A e \in graph.nodes \X graph.nodes :
            /\ Links[e] = graph.adj[e[1]][e[2]] /\ Links[e] \in Nat
            /\ node2server[e[1]] \in Servers /\ node2server[e[2]] \in Servers
  BY PairFacts
<1>2. IsFiniteSet(L) /\ \A e \in L : Links[e] \in Nat /\ g[e] = Links[e]
  BY <1>1, FS_Subset
<1>3. CrossLoad(p, q) = SumOn(g, L)
  BY SumFunctionIs DEF CrossLoad
<1>4. SumOn(g, L) = SumOn(Links, L)
  <2> HIDE DEF g, L
  <2> QED
    BY <1>2, SumAgree
<1>5. C \subseteq L /\ \A e \in L \ C : Links[e] = 0
  <2>1. \A e \in L : e \in C <=> graph.adj[e[1]][e[2]] > 0
    BY <1>1 DEF Cross, On
  <2>2. C \subseteq L
    BY DEF Cross, On
  <2>3. \A e \in L : Links[e] = graph.adj[e[1]][e[2]] /\ Links[e] \in Nat
    BY <1>1
  <2> HIDE DEF L, C
  <2> QED
    BY <2>1, <2>2, <2>3
<1>6. SumOn(Links, L) = SumOn(Links, C)
  <2> HIDE DEF L, C
  <2> QED
    BY <1>2, <1>5, SumNonzero
<1>7. Between(On(p), On(q)) = SumOn(Links, C)
  <2>1. On(p) \subseteq Servers
    BY DEF On
  <2> QED
    BY <2>1, BetweenIs
<1> QED
  BY <1>3, <1>4, <1>6, <1>7

(* Both sides count the same links.                                          *)
LEMMA BetweenFacts ==
    ASSUME PlanInv, Written, NEW S, NEW T, S \subseteq Servers, T \subseteq Servers
    PROVE  Between(S, T) \in Nat /\ Between(S, T) = Between(T, S)
<1> DEFINE C == Cross(S, T)
           B == Cross(T, S)
           b == [e \in C |-> <<e[2], e[1]>>]
<1>1. /\ IsFiniteSet(graph.nodes \X graph.nodes)
      /\ \A e \in graph.nodes \X graph.nodes :
            /\ e = <<e[1], e[2]>>
            /\ Links[e] = graph.adj[e[1]][e[2]] /\ Links[e] \in Nat
            /\ Links[<<e[2], e[1]>>] = Links[e]
            /\ <<e[2], e[1]>> \in graph.nodes \X graph.nodes
  BY PairFacts
<1>2. ASSUME NEW U, NEW V, NEW e \in Cross(U, V) PROVE <<e[2], e[1]>> \in Cross(V, U)
  <2>1. /\ e \in graph.nodes \X graph.nodes /\ graph.adj[e[1]][e[2]] > 0
        /\ node2server[e[1]] \in U /\ node2server[e[2]] \in V
        /\ node2server[e[1]] # node2server[e[2]]
    BY DEF Cross
  <2>2. Links[<<e[2], e[1]>>] = graph.adj[e[2]][e[1]] /\ Links[e] = graph.adj[e[1]][e[2]]
    BY <1>1, <2>1 DEF Links
  <2>3. graph.adj[e[2]][e[1]] > 0 /\ <<e[2], e[1]>> \in graph.nodes \X graph.nodes
    BY <1>1, <2>1, <2>2
  <2> QED
    BY <2>1, <2>3 DEF Cross
<1>3. IsFiniteSet(C) /\ \A e \in C : e \in graph.nodes \X graph.nodes /\ Links[e] \in Nat
  <2>1. C \in SUBSET (graph.nodes \X graph.nodes)
    BY DEF Cross
  <2> QED
    BY <1>1, <2>1, FS_Subset
<1>4. B = {b[e] : e \in C}
  <2>1. \A e \in C : b[e] \in B
    BY <1>2
  <2>2. ASSUME NEW f \in B PROVE \E e \in C : b[e] = f
    <3> DEFINE e == <<f[2], f[1]>>
    <3>1. e \in C
      BY <1>2
    <3>2. f = <<f[1], f[2]>>
      BY <1>1 DEF Cross
    <3>3. b[e] = <<e[2], e[1]>>
      BY <3>1
    <3> QED
      BY <3>1, <3>2, <3>3
  <2> QED
    BY <2>1, <2>2
<1>5. \A e \in C : Links[b[e]] \in Nat /\ Links[e] = Links[b[e]]
  BY <1>1, <1>3
<1>6. \A e \in C, f \in C : b[e] = b[f] => e = f
  <2> SUFFICES ASSUME NEW e \in C, NEW f \in C, b[e] = b[f] PROVE e = f
    OBVIOUS
  <2>1. e = <<e[1], e[2]>> /\ f = <<f[1], f[2]>>
    BY <1>1, <1>3
  <2>2. e[1] = f[1] /\ e[2] = f[2]
    OBVIOUS
  <2> QED
    BY <2>1, <2>2
<1> HIDE DEF b, B, C
<1>7. SumOn(Links, C) = SumOn(Links, B)
  BY <1>3, <1>4, <1>5, <1>6, SumRename
<1>8. SumOn(Links, C) \in Nat
  BY <1>3, SumRemove
<1>9. Between(S, T) = SumOn(Links, C) /\ Between(T, S) = SumOn(Links, B)
  BY BetweenIs DEF C, B
<1> QED
  BY <1>7, <1>8, <1>9

(* The maximum of a finite set of numbers.                                   *)
LEMMA MaxIs ==
    ASSUME NEW T, T \subseteq Nat, IsFiniteSet(T), T # {}
    PROVE  Max(T) \in T /\ \A y \in T : Max(T) >= y
<1> DEFINE Top(S) == \E x \in S : \A y \in S : x >= y
           F == {S \in SUBSET T : S # {} /\ ~Top(S)}
<1>1. F = {}
  <2> SUFFICES ASSUME F # {} PROVE FALSE
    OBVIOUS
  <2>1. \A S \in F : IsFiniteSet(S)
    BY FS_Subset
  <2>2. PICK S \in F : \A P \in F : P \subseteq S => P = S
    <3> HIDE DEF F
    <3> QED
      BY <2>1, SmallestSet
  <2>3. PICK c \in S : TRUE
    BY <2>2
  <2> DEFINE R == S \ {c}
  <2>4. R = {} \/ Top(R)
    <3>1. R \subseteq S /\ R # S
      BY <2>3
    <3>2. R \in SUBSET T
      BY <2>2, <3>1
    <3>3. R \notin F
      <4> HIDE DEF F, R
      <4> QED
        BY <2>2, <3>1
    <3> HIDE DEF R, Top
    <3> QED
      BY <3>2, <3>3
  <2>5. c \in Nat /\ S \subseteq Nat /\ S = R \union {c}
    BY <2>2, <2>3
  <2>6. CASE R = {}
    BY <2>2, <2>3, <2>5, <2>6
  <2>7. CASE Top(R)
    <3>1. PICK x \in R : \A y \in R : x >= y
      BY <2>7
    <3>2. x \in Nat /\ x \in S
      BY <2>5
    <3>3. Top(S)
      <4>1. CASE x >= c
        BY <2>5, <3>1, <3>2, <4>1
      <4>2. CASE ~(x >= c)
        <5>1. \A y \in S : c >= y
          BY <2>5, <3>1, <3>2, <4>2
        <5> QED
          BY <2>3, <5>1
      <4> QED
        BY <4>1, <4>2
    <3> QED
      BY <2>2, <3>3
  <2> QED
    BY <2>4, <2>6, <2>7
<1>2. Top(T)
  BY <1>1
<1> QED
  BY <1>2 DEF Max

(* The load of the busiest connection.                                       *)
LEMMA TdfIs ==
    ASSUME PlanInv, Written
    PROVE  /\ \A p \in PMs, q \in PMs : p # q => Between(On(p), On(q)) <= tdf
           /\ tdf > 0 => \E p \in PMs : \E q \in PMs \ {p} : Between(On(p), On(q)) = tdf
<1> DEFINE C == {d \in PMs \X PMs : d[1] < d[2]}
           Loads == {CrossLoad(c[1], c[2]) : c \in C}
           T == {0} \union Loads
<1>1. tdf = Max(T)
  BY DEF PlanInv, FileInv, ComputeTdf
<1>2. \A p \in PMs : On(p) \subseteq Servers /\ p \in Int
  BY DEF On, PMs
<1>3. ASSUME NEW c \in C
      PROVE  /\ c[1] \in PMs /\ c[2] \in PMs /\ c[1] # c[2]
             /\ CrossLoad(c[1], c[2]) = Between(On(c[1]), On(c[2]))
             /\ CrossLoad(c[1], c[2]) \in Nat
  <2>1. c[1] \in PMs /\ c[2] \in PMs /\ c[1] # c[2]
    BY <1>2
  <2>2. CrossLoad(c[1], c[2]) = Between(On(c[1]), On(c[2]))
    BY <2>1, CrossLoadIs
  <2> QED
    BY <1>2, <2>1, <2>2, BetweenFacts
<1>4. T \subseteq Nat /\ IsFiniteSet(T)
  <2>1. IsFiniteSet(PMs)
    BY PmsType, FS_Interval DEF PMs, PlanInv
  <2>2. IsFiniteSet(C)
    BY <2>1, FS_Product, FS_Subset
  <2>3. [c \in C |-> CrossLoad(c[1], c[2])] \in Surjection(C, Loads)
    BY DEF Surjection
  <2>4. IsFiniteSet(Loads)
    <3> HIDE DEF C, Loads
    <3> QED
      BY <2>2, <2>3, FS_Surjection
  <2>5. IsFiniteSet({0})
    BY FS_Singleton
  <2>6. Loads \subseteq Nat
    <3> SUFFICES ASSUME NEW y \in Loads PROVE y \in Nat
      OBVIOUS
    <3>1. PICK c \in C : y = CrossLoad(c[1], c[2])
      OBVIOUS
    <3> HIDE DEF C
    <3> QED
      BY <1>3, <3>1
  <2> HIDE DEF C, Loads
  <2>7. IsFiniteSet(T)
    BY <2>4, <2>5, FS_Union
  <2> QED
    BY <2>6, <2>7
<1>5. tdf \in T /\ \A y \in T : tdf >= y
  <2> HIDE DEF T
  <2>1. T # {}
    BY DEF T
  <2> QED
    BY <1>1, <1>4, <2>1, MaxIs
<1>6. ASSUME NEW p \in PMs, NEW q \in PMs, p # q
      PROVE  Between(On(p), On(q)) <= tdf
  <2>1. ASSUME NEW a \in PMs, NEW b \in PMs, a < b PROVE Between(On(a), On(b)) <= tdf
    <3>1. <<a, b>> \in C
      BY <2>1
    <3>2. Between(On(a), On(b)) \in T
      BY <1>3, <3>1
    <3> QED
      BY <1>4, <1>5, <3>2
  <2>2. Between(On(p), On(q)) = Between(On(q), On(p))
    BY <1>2, BetweenFacts
  <2>3. p < q \/ q < p
    BY <1>2, <1>6
  <2> QED
    BY <2>1, <2>2, <2>3
<1>7. ASSUME tdf > 0
      PROVE  \E p \in PMs : \E q \in PMs \ {p} : Between(On(p), On(q)) = tdf
  <2>1. PICK c \in C : tdf = CrossLoad(c[1], c[2])
    BY <1>5, <1>7
  <2>2. c[1] \in PMs /\ c[2] \in PMs \ {c[1]} /\ Between(On(c[1]), On(c[2])) = tdf
    BY <1>3, <2>1
  <2> QED
    BY <2>2
<1> QED
  BY <1>6, <1>7

(* The sum over two sets with no common element.                             *)
LEMMA SumUnion ==
    ASSUME NEW f, NEW S, NEW T, IsFiniteSet(S), IsFiniteSet(T), S \cap T = {},
           \A x \in S \union T : f[x] \in Nat
    PROVE  SumOn(f, S \union T) = SumOn(f, S) + SumOn(f, T)
<1> DEFINE U == S \union T
           k == [x \in U |-> IF x \in S THEN 0 ELSE 1]
           I == {0, 1}
           h == [i \in I |-> SumOn(f, {x \in U : k[x] = i})]
<1>1. IsFiniteSet(U) /\ IsFiniteSet(I) /\ IsFiniteSet({1})
  <2>1. IsFiniteSet(U)
    BY FS_Union
  <2>2. IsFiniteSet({0}) /\ IsFiniteSet({1})
    BY FS_Singleton
  <2>3. IsFiniteSet({0} \union {1})
    BY <2>2, FS_Union
  <2>4. {0} \union {1} = I
    OBVIOUS
  <2> QED
    BY <2>1, <2>2, <2>3, <2>4
<1>2. \A x \in U : f[x] \in Nat /\ k[x] \in I
  OBVIOUS
<1>3. {x \in U : k[x] = 0} = S /\ {x \in U : k[x] = 1} = T
  OBVIOUS
<1>4. h[0] = SumOn(f, S) /\ h[1] = SumOn(f, T)
  BY <1>3
<1>5. SumOn(h, I) = SumOn(f, U)
  <2> HIDE DEF k, U, I
  <2> QED
    BY <1>1, <1>2, SumParts
<1>6. h[0] \in Nat /\ h[1] \in Nat
  BY <1>4, SumRemove
<1> HIDE DEF h, U
<1>7. SumOn(h, I) = h[0] + SumOn(h, I \ {0})
  <2>1. 0 \in I /\ \A x \in I : h[x] \in Nat
    BY <1>6
  <2> HIDE DEF I
  <2> QED
    BY <1>1, <2>1, SumRemove
<1>8. SumOn(h, {1}) = h[1] + SumOn(h, {1} \ {1})
  <2>1. \A x \in {1} : h[x] \in Nat
    BY <1>6
  <2> QED
    BY <1>1, <2>1, SumRemove
<1>9. I \ {0} = {1} /\ {1} \ {1} = {}
  OBVIOUS
<1>10. SumOn(h, {1}) = h[1]
  BY <1>6, <1>8, <1>9, SumEmpty
<1>11. SumOn(h, I) = h[0] + h[1]
  BY <1>7, <1>9, <1>10
<1> QED
  BY <1>4, <1>5, <1>11 DEF U

(* The pairs of nodes of a PM, and what its lists say of them: the links,    *)
(* doubled when the lists of the PM are.                                     *)
PmPairs(p) == {f \in PmNodes(p) \X PmNodes(p) : f[1] < f[2]}
Times == IF conf.pms = 1 THEN 1 ELSE 2
LEMMA PmPairFacts ==
    ASSUME PlanInv, Written, NEW p \in PMs
    PROVE  /\ IsFiniteSet(PmPairs(p))
           /\ \A n \in graph.nodes : n \in PmNodes(p) <=> node2server[n] \in On(p)
           /\ \A e \in PmPairs(p) :
                 /\ e \in graph.nodes \X graph.nodes
                 /\ Links[e] \in Nat /\ PmAdj(p)[e[1]][e[2]] = Times * Links[e]
                 /\ node2server[e[1]] \in On(p) /\ node2server[e[2]] \in On(p)
<1>1. /\ IsFiniteSet(graph.nodes \X graph.nodes)
      /\ \A e \in graph.nodes \X graph.nodes :
            /\ Links[e] = graph.adj[e[1]][e[2]] /\ Links[e] \in Nat
            /\ Links[<<e[2], e[1]>>] = Links[e]
  BY PairFacts
<1>2. \A n \in graph.nodes : n \in PmNodes(p) <=> node2server[n] \in On(p)
  <2>1. \A n \in graph.nodes : node2server[n] \in Servers /\ PmOf(node2server[n]) = node2pm[n]
    BY DEF PlanInv, PlaceInv, Placed, Written
  <2> QED
    BY <2>1 DEF PmNodes, On
<1>3. \A e \in PmPairs(p) :
         e \in graph.nodes \X graph.nodes /\ e[1] \in PmNodes(p) /\ e[2] \in PmNodes(p)
  BY DEF PmPairs, PmNodes
<1>4. ASSUME NEW e \in PmPairs(p) PROVE PmAdj(p)[e[1]][e[2]] = Times * Links[e]
  <2>1. /\ e[1] \in PmNodes(p) /\ e[2] \in PmNodes(p)
        /\ Links[e] \in Nat /\ Links[e] = graph.adj[e[1]][e[2]]
        /\ graph.adj[e[2]][e[1]] = graph.adj[e[1]][e[2]]
    <3>1. e \in graph.nodes \X graph.nodes
      BY <1>3
    <3>2. Links[<<e[2], e[1]>>] = graph.adj[e[2]][e[1]]
      BY <3>1 DEF Links
    <3> QED
      BY <1>1, <1>3, <3>1, <3>2
  <2>2. CASE conf.pms = 1
    BY <2>1, <2>2 DEF PmAdj, Times
  <2>3. CASE conf.pms # 1
    <3>1. PmAdj(p)[e[1]][e[2]] = graph.adj[e[1]][e[2]] + graph.adj[e[2]][e[1]]
      BY <2>1, <2>3 DEF PmAdj
    <3> QED
      BY <2>1, <2>3, <3>1 DEF Times
  <2> QED
    BY <2>2, <2>3
<1>5. IsFiniteSet(PmPairs(p))
  <2>1. PmPairs(p) \in SUBSET (graph.nodes \X graph.nodes)
    BY <1>3
  <2> QED
    BY <1>1, <2>1, FS_Subset
<1> QED
  BY <1>1, <1>2, <1>3, <1>4, <1>5

(* Over the servers of a PM the edges are counted pair by pair: those within *)
(* a server once, those between two servers twice.                           *)
Same(p) == {e \in PmPairs(p) : node2server[e[1]] = node2server[e[2]] /\ Links[e] > 0}
Apart(p) == {e \in PmPairs(p) : node2server[e[1]] # node2server[e[2]] /\ Links[e] > 0}
LEMMA EdgeCountsSum ==
    ASSUME PlanInv, Written, NEW p \in PMs
    PROVE  SumFunction([s \in On(p) |-> EdgeCount(PmNodes(p), PmAdj(p), node2server, s)])
           = Times * SumOn(Links, Same(p)) + (2 * Times) * SumOn(Links, Apart(p))
<1> DEFINE E == PmPairs(p)
           home == [e \in E |-> node2server[e[1]]]
           w == [e \in E |-> IF node2server[e[1]] = node2server[e[2]]
                             THEN PmAdj(p)[e[1]][e[2]] ELSE 2 * PmAdj(p)[e[1]][e[2]]]
           g(s) == [e \in E |-> IF node2server[e[1]] # s THEN 0
                                ELSE IF node2server[e[2]] = s THEN PmAdj(p)[e[1]][e[2]]
                                ELSE 2 * PmAdj(p)[e[1]][e[2]]]
           R(s) == {e \in E : home[e] = s}
<1>1. /\ IsFiniteSet(E)
      /\ \A e \in E : /\ Links[e] \in Nat /\ PmAdj(p)[e[1]][e[2]] = Times * Links[e]
                      /\ home[e] \in On(p)
  BY PmPairFacts
<1>2. Times \in Nat /\ 2 * Times \in Nat
  BY DEF Times
<1>3. \A e \in E : PmAdj(p)[e[1]][e[2]] \in Nat /\ 2 * PmAdj(p)[e[1]][e[2]] \in Nat
  <2> SUFFICES ASSUME NEW e \in E
               PROVE  PmAdj(p)[e[1]][e[2]] \in Nat /\ 2 * PmAdj(p)[e[1]][e[2]] \in Nat
    OBVIOUS
  <2>1. Links[e] \in Nat /\ PmAdj(p)[e[1]][e[2]] = Times * Links[e]
    BY <1>1
  <2>2. Times * Links[e] \in Nat
    BY <1>2, <2>1
  <2> QED
    BY <2>1, <2>2
<1>4. ASSUME NEW s \in On(p)
      PROVE  EdgeCount(PmNodes(p), PmAdj(p), node2server, s) = SumOn(w, R(s))
  <2>1. EdgeCount(PmNodes(p), PmAdj(p), node2server, s) = SumOn(g(s), E)
    BY SumFunctionIs DEF EdgeCount, PmPairs
  <2>2. \A e \in E : g(s)[e] \in Nat /\ w[e] \in Nat
    BY <1>3
  <2>3. R(s) \subseteq E /\ \A e \in E \ R(s) : g(s)[e] = 0
    OBVIOUS
  <2>4. \A e \in R(s) : g(s)[e] = w[e]
    OBVIOUS
  <2>5. IsFiniteSet(R(s))
    BY <1>1, <2>3, FS_Subset
  <2> HIDE DEF g, w, R, E
  <2>6. SumOn(g(s), E) = SumOn(g(s), R(s))
    BY <1>1, <2>2, <2>3, SumNonzero
  <2>7. SumOn(g(s), R(s)) = SumOn(w, R(s))
    BY <2>2, <2>3, <2>4, <2>5, SumAgree
  <2> QED
    BY <2>1, <2>6, <2>7
<1>5. SumFunction([s \in On(p) |-> EdgeCount(PmNodes(p), PmAdj(p), node2server, s)]) = SumOn(w, E)
  <2> DEFINE F == [s \in On(p) |-> EdgeCount(PmNodes(p), PmAdj(p), node2server, s)]
             G == [s \in On(p) |-> SumOn(w, {e \in E : home[e] = s})]
  <2>1. F = G
    <3> HIDE DEF w, home, E
    <3> QED
      BY <1>4
  <2>2. SumFunction(F) = SumOn(F, On(p))
    BY SumFunctionIs
  <2>3. IsFiniteSet(On(p))
    <3>1. On(p) \subseteq Servers
      BY DEF On
    <3> QED
      BY <3>1, WrittenFacts, FS_Subset
  <2>4. \A e \in E : w[e] \in Nat /\ home[e] \in On(p)
    BY <1>1, <1>3
  <2>5. SumOn(G, On(p)) = SumOn(w, E)
    <3>1. IsFiniteSet(E)
      BY <1>1
    <3> HIDE DEF w, home, E, g, R, F
    <3> QED
      BY <2>3, <2>4, <3>1, SumParts
  <2> HIDE DEF F, G
  <2> QED
    BY <2>1, <2>2, <2>5 DEF F
<1> DEFINE S == Same(p)
           A == Apart(p)
<1>6. /\ S \subseteq E /\ A \subseteq E /\ S \cap A = {} /\ S \union A \subseteq E
      /\ IsFiniteSet(S) /\ IsFiniteSet(A)
  <2>1. S \subseteq E /\ A \subseteq E /\ S \cap A = {}
    BY DEF Same, Apart
  <2> QED
    BY <1>1, <2>1, FS_Subset
<1>7. \A e \in E : /\ w[e] \in Nat
                   /\ e \in S => w[e] = Times * Links[e]
                   /\ e \in A => w[e] = (2 * Times) * Links[e]
                   /\ e \notin S \union A => w[e] = 0
  <2> SUFFICES ASSUME NEW e \in E
               PROVE  /\ w[e] \in Nat
                      /\ e \in S => w[e] = Times * Links[e]
                      /\ e \in A => w[e] = (2 * Times) * Links[e]
                      /\ e \notin S \union A => w[e] = 0
    OBVIOUS
  <2>1. Links[e] \in Nat /\ PmAdj(p)[e[1]][e[2]] = Times * Links[e]
    BY <1>1
  <2>2. w[e] = (IF node2server[e[1]] = node2server[e[2]] THEN Times * Links[e]
                ELSE 2 * (Times * Links[e]))
    BY <2>1
  <2>3. /\ e \in S <=> node2server[e[1]] = node2server[e[2]] /\ Links[e] > 0
        /\ e \in A <=> node2server[e[1]] # node2server[e[2]] /\ Links[e] > 0
    BY DEF Same, Apart
  <2>4. Times = 1 \/ Times = 2
    BY DEF Times
  <2> HIDE DEF w, S, A, E
  <2> QED
    BY <2>1, <2>2, <2>3, <2>4
<1> HIDE DEF w, S, A, E, home
<1>8. SumOn(w, E) = SumOn(w, S \union A)
  BY <1>1, <1>6, <1>7, SumNonzero
<1>9. SumOn(w, S \union A) = SumOn(w, S) + SumOn(w, A)
  BY <1>6, <1>7, SumUnion
<1>10. SumOn(w, S) = Times * SumOn(Links, S)
  BY <1>1, <1>2, <1>6, <1>7, SumScale
<1>11. SumOn(w, A) = (2 * Times) * SumOn(Links, A)
  <2> DEFINE c == 2 * Times
  <2>1. c \in Nat /\ \A e \in A : Links[e] \in Nat /\ w[e] = c * Links[e]
    BY <1>1, <1>2, <1>6, <1>7
  <2> HIDE DEF c
  <2>2. SumOn(w, A) = c * SumOn(Links, A)
    BY <1>6, <2>1, SumScale
  <2> QED
    BY <2>2 DEF c
<1> QED
  BY <1>5, <1>8, <1>9, <1>10, <1>11 DEF S, A

(* The links within the servers of a PM, as written in their files.          *)
LEMMA InnerSum ==
    ASSUME PlanInv, Written, NEW p \in PMs
    PROVE  SumFunction([s \in On(p) |-> SumFunction(subs[s].inner)]) = SumOn(Links, Same(p))
<1> DEFINE S == Same(p)
           home == [e \in S |-> node2server[e[1]]]
           F == [s \in On(p) |-> SumFunction(subs[s].inner)]
           G == [s \in On(p) |-> SumOn(Links, {e \in S : home[e] = s})]
<1>1. /\ IsFiniteSet(graph.nodes \X graph.nodes)
      /\ \A e \in graph.nodes \X graph.nodes :
            e = <<e[1], e[2]>> /\ Links[e] = graph.adj[e[1]][e[2]] /\ Links[e] \in Nat
  BY PairFacts
<1>2. /\ \A n \in graph.nodes : n \in PmNodes(p) <=> node2server[n] \in On(p)
      /\ \A e \in PmPairs(p) : e \in graph.nodes \X graph.nodes /\ node2server[e[1]] \in On(p)
      /\ IsFiniteSet(PmPairs(p))
  BY PmPairFacts
<1>3. S \subseteq PmPairs(p) /\ IsFiniteSet(S)
  <2>1. S \subseteq PmPairs(p)
    BY DEF Same
  <2> QED
    BY <1>2, <2>1, FS_Subset
<1>4. ASSUME NEW s \in On(p) PROVE F[s] = G[s]
  <2>1. s \in Servers /\ subs[s] = SubTopology(s)
    BY WrittenFacts DEF On
  <2>2. DOMAIN subs[s].inner = EdgesWithin(s) /\ \A e \in EdgesWithin(s) :
                                                     subs[s].inner[e] = graph.adj[e[1]][e[2]]
    BY <2>1 DEF SubTopology
  <2>3. EdgesWithin(s) = {e \in S : home[e] = s}
    <3>1. ASSUME NEW e \in EdgesWithin(s) PROVE e \in S /\ home[e] = s
      <4>1. /\ e \in graph.nodes \X graph.nodes /\ e[1] < e[2] /\ graph.adj[e[1]][e[2]] > 0
            /\ node2server[e[1]] = s /\ node2server[e[2]] = s
        BY DEF EdgesWithin
      <4>2. e[1] \in PmNodes(p) /\ e[2] \in PmNodes(p) /\ e = <<e[1], e[2]>>
        BY <1>1, <1>2, <4>1
      <4>3. e \in PmPairs(p)
        BY <4>1, <4>2 DEF PmPairs
      <4> QED
        BY <1>1, <4>1, <4>3 DEF Same
    <3>2. ASSUME NEW e \in S, home[e] = s PROVE e \in EdgesWithin(s)
      <4>1. /\ e \in graph.nodes \X graph.nodes /\ node2server[e[1]] = s
            /\ node2server[e[2]] = s /\ Links[e] > 0
        BY <1>2, <1>3, <3>2 DEF Same
      <4>2. e[1] < e[2]
        BY <1>3 DEF PmPairs
      <4> QED
        BY <1>1, <4>1, <4>2 DEF EdgesWithin
    <3> HIDE DEF S, home
    <3> QED
      BY <3>1, <3>2
  <2>4. IsFiniteSet(EdgesWithin(s)) /\ \A e \in EdgesWithin(s) :
                                           Links[e] \in Nat /\ subs[s].inner[e] = Links[e]
    <3>1. EdgesWithin(s) \in SUBSET (graph.nodes \X graph.nodes)
      BY DEF EdgesWithin
    <3> QED
      BY <1>1, <2>2, <3>1, FS_Subset
  <2>5. SumFunction(subs[s].inner) = SumOn(subs[s].inner, EdgesWithin(s))
    BY <2>2, SumFunctionIs
  <2>6. SumOn(subs[s].inner, EdgesWithin(s)) = SumOn(Links, EdgesWithin(s))
    BY <2>4, SumAgree
  <2> HIDE DEF S, home
  <2> QED
    BY <2>3, <2>5, <2>6
<1>5. F = G
  <2> HIDE DEF S, home
  <2> QED
    BY <1>4
<1>6. SumFunction(F) = SumOn(F, On(p))
  BY SumFunctionIs
<1>7. IsFiniteSet(On(p)) /\ \A e \in S : Links[e] \in Nat /\ home[e] \in On(p)
  <2>1. On(p) \subseteq Servers
    BY DEF On
  <2>2. IsFiniteSet(On(p))
    BY <2>1, WrittenFacts, FS_Subset
  <2> QED
    BY <1>1, <1>2, <1>3, <2>2
<1>8. SumOn(G, On(p)) = SumOn(Links, S)
  <2> HIDE DEF S, home
  <2> QED
    BY <1>3, <1>7, SumParts
<1> HIDE DEF F, G
<1> QED
  BY <1>5, <1>6, <1>8 DEF F

(* The links between two servers of a PM are in the files of both.           *)
LEMMA ApartSum ==
    ASSUME PlanInv, Written, NEW p \in PMs
    PROVE  /\ Between(On(p), On(p)) = SumOn(Links, Apart(p)) + SumOn(Links, Apart(p))
           /\ SumOn(Links, Apart(p)) \in Nat
<1> DEFINE A == Apart(p)
           b == [e \in A |-> <<e[2], e[1]>>]
           B == {b[e] : e \in A}
           C == Cross(On(p), On(p))
<1>1. /\ IsFiniteSet(graph.nodes \X graph.nodes)
      /\ \A e \in graph.nodes \X graph.nodes :
            /\ e = <<e[1], e[2]>> /\ e[1] \in Int /\ e[2] \in Int
            /\ Links[e] = graph.adj[e[1]][e[2]] /\ Links[e] \in Nat
            /\ Links[<<e[2], e[1]>>] = Links[e]
            /\ <<e[2], e[1]>> \in graph.nodes \X graph.nodes
  BY PairFacts
<1>2. /\ \A n \in graph.nodes : n \in PmNodes(p) <=> node2server[n] \in On(p)
      /\ \A e \in PmPairs(p) : /\ e \in graph.nodes \X graph.nodes
                               /\ node2server[e[1]] \in On(p) /\ node2server[e[2]] \in On(p)
      /\ IsFiniteSet(PmPairs(p))
  BY PmPairFacts
<1>3. A \subseteq PmPairs(p) /\ IsFiniteSet(A)
  <2>1. A \subseteq PmPairs(p)
    BY DEF Apart
  <2> QED
    BY <1>2, <2>1, FS_Subset
<1>4. \A e \in A : /\ e \in graph.nodes \X graph.nodes /\ e[1] < e[2]
                   /\ Links[b[e]] = Links[e] /\ Links[e] \in Nat
                   /\ b[e] = <<e[2], e[1]>> /\ b[e] \in graph.nodes \X graph.nodes
  <2>1. \A e \in A : e[1] < e[2]
    BY <1>3 DEF PmPairs
  <2> QED
    BY <1>1, <1>2, <1>3, <2>1
<1>5. C = A \union B
  <2>1. ASSUME NEW c \in C PROVE c \in A \/ c \in B
    <3>1. /\ c \in graph.nodes \X graph.nodes /\ node2server[c[1]] # node2server[c[2]]
          /\ node2server[c[1]] \in On(p) /\ node2server[c[2]] \in On(p)
          /\ graph.adj[c[1]][c[2]] > 0
      BY DEF Cross
    <3>2. /\ c = <<c[1], c[2]>> /\ c[1] \in Int /\ c[2] \in Int /\ c[1] # c[2]
          /\ c[1] \in PmNodes(p) /\ c[2] \in PmNodes(p) /\ Links[c] > 0
      BY <1>1, <1>2, <3>1
    <3>3. CASE c[1] < c[2]
      BY <3>1, <3>2, <3>3 DEF Apart, PmPairs
    <3>4. CASE c[2] < c[1]
      <4> DEFINE e == <<c[2], c[1]>>
      <4>1. e \in PmPairs(p)
        BY <3>2, <3>4 DEF PmPairs
      <4>2. Links[e] = Links[c]
        BY <1>1, <3>1
      <4>3. e \in A
        BY <3>1, <3>2, <4>1, <4>2 DEF Apart
      <4>4. b[e] = c
        BY <3>2, <4>3
      <4> QED
        BY <4>3, <4>4
    <3> QED
      BY <3>2, <3>3, <3>4
  <2>2. ASSUME NEW e \in A PROVE e \in C /\ b[e] \in C
    <3>1. /\ node2server[e[1]] # node2server[e[2]] /\ Links[e] > 0
          /\ node2server[e[1]] \in On(p) /\ node2server[e[2]] \in On(p)
      BY <1>2, <1>3 DEF Apart
    <3>2. /\ e \in graph.nodes \X graph.nodes /\ b[e] = <<e[2], e[1]>>
          /\ b[e] \in graph.nodes \X graph.nodes /\ Links[b[e]] = Links[e]
          /\ Links[e] = graph.adj[e[1]][e[2]]
          /\ Links[b[e]] = graph.adj[b[e][1]][b[e][2]]
      <4>1. e \in graph.nodes \X graph.nodes /\ b[e] \in graph.nodes \X graph.nodes
        BY <1>4
      <4> HIDE DEF b
      <4> QED
        BY <1>1, <1>4, <4>1
    <3> HIDE DEF b
    <3> QED
      BY <3>1, <3>2 DEF Cross
  <2> HIDE DEF A, C, b
  <2> QED
    BY <2>1, <2>2
<1>6. A \cap B = {}
  <2> SUFFICES ASSUME NEW e \in A, b[e] \in A PROVE FALSE
    OBVIOUS
  <2>1. e[1] < e[2] /\ b[e][1] < b[e][2] /\ e[1] \in Int /\ e[2] \in Int
    BY <1>1, <1>4
  <2>2. b[e][1] = e[2] /\ b[e][2] = e[1]
    OBVIOUS
  <2> HIDE DEF A, b
  <2> QED
    BY <2>1, <2>2
<1>7. IsFiniteSet(B)
  <2>1. B \in SUBSET (graph.nodes \X graph.nodes)
    <3> HIDE DEF A, b
    <3> QED
      BY <1>4
  <2> HIDE DEF B
  <2> QED
    BY <1>1, <2>1, FS_Subset
<1>8. \A x \in A, y \in A : b[x] = b[y] => x = y
  <2> SUFFICES ASSUME NEW x \in A, NEW y \in A, b[x] = b[y] PROVE x = y
    OBVIOUS
  <2>1. x = <<x[1], x[2]>> /\ y = <<y[1], y[2]>>
    BY <1>1, <1>4
  <2>2. <<x[2], x[1]>> = <<y[2], y[1]>>
    BY <1>4
  <2> QED
    BY <2>1, <2>2
<1>9. Between(On(p), On(p)) = SumOn(Links, C)
  <2>1. On(p) \subseteq Servers
    BY DEF On
  <2> QED
    BY <2>1, BetweenIs
<1>10. \A x \in A \union B : Links[x] \in Nat
  BY <1>4
<1>11. SumOn(Links, B) = SumOn(Links, A)
  <2> HIDE DEF A, b
  <2> QED
    BY <1>3, <1>4, <1>8, SumRename
<1> HIDE DEF A, B, C, b
<1>12. SumOn(Links, C) = SumOn(Links, A) + SumOn(Links, B)
  BY <1>3, <1>5, <1>6, <1>7, <1>10, SumUnion
<1>13. SumOn(Links, A) \in Nat
  BY <1>3, <1>10, SumRemove
<1> QED
  BY <1>9, <1>11, <1>12, <1>13 DEF A

(* Over the servers of a PM, the edges counted to choose the number of VMs   *)
(* are the links of the files within the PM.                                 *)
LEMMA EdgeCountsAre ==
    ASSUME PlanInv, Written, NEW p \in PMs
    PROVE  SumFunction([s \in On(p) |-> EdgeCount(PmNodes(p), PmAdj(p), node2server, s)])
           = Times * (SumFunction([s \in On(p) |-> SumFunction(subs[s].inner)])
                        + Between(On(p), On(p)))
<1> DEFINE a == SumOn(Links, Same(p))
           c == SumOn(Links, Apart(p))
<1>1. a \in Nat
  <2>1. Same(p) \subseteq PmPairs(p)
    BY DEF Same
  <2>2. IsFiniteSet(PmPairs(p)) /\ \A e \in PmPairs(p) : Links[e] \in Nat
    BY PmPairFacts
  <2>3. IsFiniteSet(Same(p)) /\ \A e \in Same(p) : Links[e] \in Nat
    BY <2>1, <2>2, FS_Subset
  <2> QED
    BY <2>3, SumRemove
<1>2. c \in Nat /\ Between(On(p), On(p)) = c + c
  BY ApartSum
<1>3. SumFunction([s \in On(p) |-> SumFunction(subs[s].inner)]) = a
  BY InnerSum
<1>4. SumFunction([s \in On(p) |-> EdgeCount(PmNodes(p), PmAdj(p), node2server, s)])
      = Times * a + (2 * Times) * c
  BY EdgeCountsSum
<1>5. Times * a + (2 * Times) * c = Times * (a + (c + c))
  <2> HIDE DEF a, c
  <2>1. Times = 1 \/ Times = 2
    BY DEF Times
  <2> QED
    BY <1>1, <1>2, <2>1
<1> HIDE DEF a, c
<1> QED
  BY <1>2, <1>3, <1>4, <1>5

(* What the plan was computed from agrees with what was written.             *)
THEOREM CountsAgreeWithFiles == Spec => []CountsMatchFiles
<1>1. PlanInv => CountsMatchFiles
  <2> SUFFICES ASSUME PlanInv, Written PROVE CountsMatchFiles
    BY DEF CountsMatchFiles
  <2>1. /\ \A p \in PMs, q \in PMs : p # q => Between(On(p), On(q)) <= tdf
        /\ tdf > 0 => \E p \in PMs : \E q \in PMs \ {p} : Between(On(p), On(q)) = tdf
    BY TdfIs
  <2>2. \A p \in PMs :
           SumFunction([s \in On(p) |-> EdgeCount(PmNodes(p), PmAdj(p), node2server, s)])
             = (IF conf.pms = 1 THEN 1 ELSE 2)
                 * (SumFunction([s \in On(p) |-> SumFunction(subs[s].inner)])
                      + Between(On(p), On(p)))
    BY EdgeCountsAre DEF Times
  <2> QED
    BY <2>1, <2>2, Zenon DEF CountsMatchFiles, Between, On
<1> QED
  BY <1>1, PlanningInvariant, PTL
=============================================================================
