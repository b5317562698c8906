----------------------------- MODULE SumProofs ------------------------------
(***************************************************************************)
(* Facts about sums over finite sets.                                      *)
(*                                                                         *)
(* The induction for the sums is on the set: a set of counterexamples that *)
(* is not empty has one with no smaller one below it, and there is none.   *)
(***************************************************************************)
EXTENDS Sums, FiniteSetTheorems, WellFoundedInduction, TLAPS

\* One step of the fold, at T, from a function h that holds the sums below T.
SumStep(f, h, T) ==
    IF T = {} THEN 0 ELSE LET x == CHOOSE x \in T : TRUE IN f[x] + h[T \ {x}]

\* h holds the sum of f over every subset of S.
HoldsSums(f, S, h) ==
    /\ h \in [SUBSET S -> Nat]
    /\ \A T \in SUBSET S : h[T] = SumStep(f, h, T)

(* The sum is what the fold's own recursive function gives. *)
LEMMA SumUnfold ==
    ASSUME NEW f, NEW S
    PROVE  SumOver(f, S) = (CHOOSE h : h = [T \in SUBSET S |-> SumStep(f, h, T)])[S]
BY DEF SumOver, MapThenSumSet, MapThenFoldSet, SumStep

(* Among subsets of a finite set, some is minimal. *)
LEMMA MinimalSubset ==
    ASSUME NEW S, IsFiniteSet(S), NEW B \in SUBSET (SUBSET S), B # {}
    PROVE  \E T \in B : \A U \in B : U \subseteq T => U = T
<1>1. IsWellFoundedOn(StrictSubsetOrdering(S), SUBSET S)
  BY FS_StrictSubsetOrderingWellFounded, FS_FiniteSubsetsOfFinite
<1>2. PICK T \in B : \A U \in B : ~ (<<U, T>> \in StrictSubsetOrdering(S))
  <2> DEFINE R == StrictSubsetOrdering(S)
             Q == SUBSET S
  <2>1. IsWellFoundedOn(R, Q) /\ B \subseteq Q /\ B # {}
    BY <1>1
  <2> HIDE DEF R, Q
  <2> QED BY <2>1, WFMin DEF R
<1>3. ASSUME NEW U \in B, U \subseteq T, U # T
      PROVE  FALSE
  <2>1. U \in SUBSET S /\ T \in SUBSET S
    OBVIOUS
  <2>2. <<U, T>> \in (SUBSET S) \X (SUBSET S)
    BY <2>1
  <2>3. <<U, T>> \in StrictSubsetOrdering(S)
    BY <1>3, <2>2 DEF StrictSubsetOrdering
  <2> QED BY <1>2, <2>3
<1> QED BY <1>3

(* A step of the fold depends on the sums below only. *)
LEMMA StepBelow ==
    ASSUME NEW f, NEW T, NEW h, NEW k,
           \A U \in SUBSET T : U # T => h[U] = k[U]
    PROVE  SumStep(f, h, T) = SumStep(f, k, T)
<1>1. CASE T = {}
  BY <1>1 DEF SumStep
<1>2. CASE T # {}
  <2> DEFINE x == CHOOSE x \in T : TRUE
  <2>1. x \in T
    BY <1>2
  <2>2. T \ {x} \in SUBSET T /\ T \ {x} # T
    BY <2>1
  <2>3. h[T \ {x}] = k[T \ {x}]
    BY <2>2
  <2>4. /\ SumStep(f, h, T) = f[x] + h[T \ {x}]
        /\ SumStep(f, k, T) = f[x] + k[T \ {x}]
    BY <1>2 DEF SumStep
  <2> HIDE DEF x
  <2> QED BY <2>3, <2>4
<1> QED BY <1>1, <1>2

(* Functions that hold sums agree wherever both are defined. *)
LEMMA SumsAgree ==
    ASSUME NEW S, IsFiniteSet(S), NEW f, NEW T \in SUBSET S, NEW V \in SUBSET S,
           NEW h, NEW k, HoldsSums(f, T, h), HoldsSums(f, V, k)
    PROVE  \A U \in SUBSET S : U \subseteq T /\ U \subseteq V => h[U] = k[U]
<1> DEFINE B == {U \in SUBSET S : U \subseteq T /\ U \subseteq V /\ h[U] # k[U]}
<1>1. SUFFICES ASSUME B # {} PROVE FALSE
  OBVIOUS
<1>2. PICK U \in B : \A W \in B : W \subseteq U => W = U
  <2>1. B \in SUBSET (SUBSET S) /\ B # {}
    BY <1>1
  <2> HIDE DEF B
  <2> QED BY <2>1, MinimalSubset
<1>3. \A W \in SUBSET U : W # U => h[W] = k[W]
  BY <1>2
<1>4. SumStep(f, h, U) = SumStep(f, k, U)
  BY <1>3, StepBelow
<1>5. h[U] = SumStep(f, h, U) /\ k[U] = SumStep(f, k, U)
  BY <1>2 DEF HoldsSums
<1> QED BY <1>2, <1>4, <1>5

(* What holds the sums over the subsets of a set holds them for each of those. *)
LEMMA SumsBelow ==
    ASSUME NEW f, NEW T, NEW U \in SUBSET T, NEW h, HoldsSums(f, T, h),
           NEW k, k = [W \in SUBSET U |-> h[W]]
    PROVE  HoldsSums(f, U, k)
<1>1. SUBSET U \subseteq SUBSET T
  OBVIOUS
<1>2. k \in [SUBSET U -> Nat]
  BY <1>1 DEF HoldsSums
<1>3. ASSUME NEW W \in SUBSET U
      PROVE  k[W] = SumStep(f, k, W)
  <2>1. h[W] = SumStep(f, h, W) /\ k[W] = h[W]
    BY <1>1 DEF HoldsSums
  <2>2. \A X \in SUBSET W : X # W => h[X] = k[X]
    OBVIOUS
  <2>3. SumStep(f, h, W) = SumStep(f, k, W)
    BY <2>2, StepBelow
  <2> QED BY <2>1, <2>3
<1> QED BY <1>2, <1>3 DEF HoldsSums

(* A step from naturals is a natural. *)
LEMMA StepNat ==
    ASSUME NEW D, NEW f \in [D -> Nat], NEW T \in SUBSET D, NEW h,
           \A U \in SUBSET T : U # T => h[U] \in Nat
    PROVE  SumStep(f, h, T) \in Nat
<1>1. CASE T = {}
  BY <1>1 DEF SumStep
<1>2. CASE T # {}
  <2> DEFINE x == CHOOSE x \in T : TRUE
  <2>1. x \in T
    BY <1>2
  <2>2. T \ {x} \in SUBSET T /\ T \ {x} # T
    BY <2>1
  <2>3. h[T \ {x}] \in Nat /\ f[x] \in Nat
    BY <2>1, <2>2
  <2>4. SumStep(f, h, T) = f[x] + h[T \ {x}]
    BY <1>2 DEF SumStep
  <2> HIDE DEF x
  <2> QED BY <2>3, <2>4
<1> QED BY <1>1, <1>2

(* There is a function that holds the sums. *)
LEMMA SumsExist ==
    ASSUME NEW D, NEW f \in [D -> Nat], NEW S \in SUBSET D, IsFiniteSet(S)
    PROVE  \A T \in SUBSET S : \E h : HoldsSums(f, T, h)
<1> DEFINE B == {T \in SUBSET S : ~ \E h : HoldsSums(f, T, h)}
<1>1. SUFFICES ASSUME B # {} PROVE FALSE
  OBVIOUS
<1>2. PICK T \in B : \A W \in B : W \subseteq T => W = T
  <2>1. B \in SUBSET (SUBSET S) /\ B # {}
    BY <1>1
  <2> HIDE DEF B
  <2> QED BY <2>1, MinimalSubset
<1> DEFINE at(U)  == CHOOSE h : HoldsSums(f, U, h)
           below  == [U \in SUBSET T |-> at(U)[U]]
           h      == [U \in SUBSET T |-> SumStep(f, below, U)]
<1>3. ASSUME NEW U \in SUBSET T, U # T
      PROVE  HoldsSums(f, U, at(U))
  <2>1. \E k : HoldsSums(f, U, k)
    BY <1>2, <1>3
  <2> QED BY <2>1
<1>4. ASSUME NEW U \in SUBSET T, U # T
      PROVE  below[U] \in Nat /\ below[U] = SumStep(f, below, U)
  <2>1. HoldsSums(f, U, at(U)) /\ below[U] = at(U)[U]
    BY <1>3, <1>4
  <2>2. U \in SUBSET U
    OBVIOUS
  <2>3. at(U)[U] \in Nat /\ at(U)[U] = SumStep(f, at(U), U)
    BY <2>1, <2>2 DEF HoldsSums
  <2>4. ASSUME NEW W \in SUBSET U, W # U
        PROVE  at(U)[W] = below[W]
    <3>1. W \in SUBSET T /\ W # T
      BY <1>4, <2>4
    <3>2. HoldsSums(f, W, at(W)) /\ below[W] = at(W)[W]
      BY <1>3, <3>1
    <3>3. W \in SUBSET S /\ U \in SUBSET S
      BY <1>2
    <3> HIDE DEF at
    <3>4. at(U)[W] = at(W)[W]
      BY <2>1, <3>2, <3>3, SumsAgree
    <3> QED BY <3>2, <3>4
  <2>5. SumStep(f, at(U), U) = SumStep(f, below, U)
    BY <2>4, StepBelow
  <2> QED BY <2>1, <2>3, <2>5
<1>5. ASSUME NEW U \in SUBSET T
      PROVE  h[U] \in Nat /\ h[U] = SumStep(f, h, U)
  <2>1. \A W \in SUBSET U : W # U => W \in SUBSET T /\ W # T
    OBVIOUS
  <2>2. \A W \in SUBSET U : W # U => below[W] \in Nat /\ below[W] = SumStep(f, below, W)
    BY <1>4, <2>1
  <2>3. h[U] = SumStep(f, below, U) /\ \A W \in SUBSET U : h[W] = SumStep(f, below, W)
    OBVIOUS
  <2> HIDE DEF below, h
  <2>4. \A W \in SUBSET U : W # U => below[W] = h[W]
    BY <2>2, <2>3
  <2>5. SumStep(f, below, U) = SumStep(f, h, U)
    BY <2>4, StepBelow
  <2>6. U \in SUBSET D
    BY <1>2
  <2>7. SumStep(f, below, U) \in Nat
    BY <2>2, <2>6, StepNat
  <2> QED BY <2>3, <2>5, <2>7
<1>6. HoldsSums(f, T, h)
  <2>1. h \in [SUBSET T -> Nat]
    BY <1>5
  <2> QED BY <1>5, <2>1 DEF HoldsSums
<1> QED BY <1>2, <1>6

(* The sum over a finite set is the value of any function that holds it. *)
LEMMA SumValue ==
    ASSUME NEW D, NEW f \in [D -> Nat], NEW S \in SUBSET D, IsFiniteSet(S),
           NEW k, HoldsSums(f, S, k)
    PROVE  \A T \in SUBSET S : SumOver(f, T) = k[T]
<1> SUFFICES ASSUME NEW T \in SUBSET S PROVE SumOver(f, T) = k[T]
  OBVIOUS
<1> DEFINE m == [W \in SUBSET T |-> k[W]]
           h == CHOOSE h : h = [W \in SUBSET T |-> SumStep(f, h, W)]
<1>1. HoldsSums(f, T, m)
  <2>1. m = [W \in SUBSET T |-> k[W]]
    OBVIOUS
  <2> HIDE DEF m
  <2> QED BY <2>1, SumsBelow
<1>2. m = [W \in SUBSET T |-> SumStep(f, m, W)]
  BY <1>1 DEF HoldsSums
<1>3. h = [W \in SUBSET T |-> SumStep(f, h, W)]
  BY <1>2
<1>4. SumOver(f, T) = h[T]
  BY SumUnfold
<1> HIDE DEF h
<1> DEFINE B == {W \in SUBSET S : W \subseteq T /\ h[W] # m[W]}
<1>5. B = {}
  <2>1. SUFFICES ASSUME B # {} PROVE FALSE
    OBVIOUS
  <2>2. PICK U \in B : \A W \in B : W \subseteq U => W = U
    <3>1. B \in SUBSET (SUBSET S) /\ B # {}
      BY <2>1
    <3> HIDE DEF B
    <3> QED BY <3>1, MinimalSubset
  <2>3. \A W \in SUBSET U : W # U => h[W] = m[W]
    BY <2>2
  <2>4. SumStep(f, h, U) = SumStep(f, m, U)
    BY <2>3, StepBelow
  <2>5. U \in SUBSET T
    BY <2>2
  <2>6. h[U] = SumStep(f, h, U)
    BY <1>3, <2>5
  <2>7. m[U] = SumStep(f, m, U)
    BY <1>1, <2>5 DEF HoldsSums
  <2> QED BY <2>2, <2>4, <2>6, <2>7
<1>6. h[T] = m[T]
  BY <1>5
<1>7. m[T] = k[T]
  OBVIOUS
<1> QED BY <1>4, <1>6, <1>7

-----------------------------------------------------------------------------
(* The facts the other proofs cite. *)

(* A sum of naturals is a natural, and empty it is nothing. *)
LEMMA SumType ==
    ASSUME NEW D, NEW f \in [D -> Nat], NEW S \in SUBSET D, IsFiniteSet(S)
    PROVE  SumOver(f, S) \in Nat /\ SumOver(f, {}) = 0
<1>1. S \in SUBSET S /\ {} \in SUBSET S
  OBVIOUS
<1>2. PICK h : HoldsSums(f, S, h)
  BY <1>1, SumsExist
<1>3. SumOver(f, S) = h[S] /\ SumOver(f, {}) = h[{}]
  BY <1>1, <1>2, SumValue
<1>4. h[S] \in Nat /\ h[{}] = 0
  BY <1>1, <1>2 DEF HoldsSums, SumStep
<1> QED BY <1>3, <1>4

(* The sum as the fold takes it, by the element it chooses. *)
LEMMA SumChosen ==
    ASSUME NEW D, NEW f \in [D -> Nat], NEW S \in SUBSET D, IsFiniteSet(S), S # {}
    PROVE  \E x \in S : SumOver(f, S) = f[x] + SumOver(f, S \ {x})
<1> DEFINE x == CHOOSE x \in S : TRUE
<1>1. x \in S
  OBVIOUS
<1>2. S \in SUBSET S /\ S \ {x} \in SUBSET S
  OBVIOUS
<1>3. PICK h : HoldsSums(f, S, h)
  BY <1>2, SumsExist
<1>4. SumOver(f, S) = h[S] /\ SumOver(f, S \ {x}) = h[S \ {x}]
  <2> HIDE DEF x
  <2> QED BY <1>2, <1>3, SumValue
<1>5. h[S] = f[x] + h[S \ {x}]
  BY <1>2, <1>3 DEF HoldsSums, SumStep
<1> HIDE DEF x
<1> QED BY <1>1, <1>4, <1>5

(* Any element can be taken out first. *)
LEMMA SumRemove ==
    ASSUME NEW D, NEW f \in [D -> Nat], NEW S \in SUBSET D, IsFiniteSet(S), NEW y \in S
    PROVE  SumOver(f, S) = f[y] + SumOver(f, S \ {y})
<1> DEFINE B == {T \in SUBSET S : \E z \in T : SumOver(f, T) # f[z] + SumOver(f, T \ {z})}
<1>1. SUFFICES ASSUME B # {} PROVE FALSE
  <2>1. S \in SUBSET S
    OBVIOUS
  <2> QED BY <2>1
<1>2. PICK T \in B : \A W \in B : W \subseteq T => W = T
  <2>1. B \in SUBSET (SUBSET S) /\ B # {}
    BY <1>1
  <2> HIDE DEF B
  <2> QED BY <2>1, MinimalSubset
<1>3. PICK z \in T : SumOver(f, T) # f[z] + SumOver(f, T \ {z})
  BY <1>2
<1>4. T \in SUBSET S /\ T \in SUBSET D /\ T # {}
  BY <1>2, <1>3
<1>5. \A W \in SUBSET S : IsFiniteSet(W) /\ W \in SUBSET D
  BY FS_Subset
<1>6. PICK x \in T : SumOver(f, T) = f[x] + SumOver(f, T \ {x})
  BY <1>4, <1>5, SumChosen
<1>7. x # z
  BY <1>3, <1>6
<1>8. ASSUME NEW W \in SUBSET T, W # T, NEW w \in W
      PROVE  SumOver(f, W) = f[w] + SumOver(f, W \ {w})
  <2>1. W \in SUBSET S /\ W \notin B
    BY <1>2, <1>4, <1>8
  <2> QED BY <2>1
<1>9. SumOver(f, T \ {x}) = f[z] + SumOver(f, (T \ {x}) \ {z})
  <2>1. T \ {x} \in SUBSET T /\ T \ {x} # T /\ z \in T \ {x}
    BY <1>3, <1>6, <1>7
  <2> QED BY <1>8, <2>1
<1>10. SumOver(f, T \ {z}) = f[x] + SumOver(f, (T \ {z}) \ {x})
  <2>1. T \ {z} \in SUBSET T /\ T \ {z} # T /\ x \in T \ {z}
    BY <1>3, <1>6, <1>7
  <2> QED BY <1>8, <2>1
<1>11. (T \ {x}) \ {z} = (T \ {z}) \ {x} /\ (T \ {z}) \ {x} \in SUBSET S
  BY <1>4
<1>12. /\ SumOver(f, (T \ {z}) \ {x}) \in Nat
       /\ f[x] \in Nat /\ f[z] \in Nat
  <2>1. SumOver(f, (T \ {z}) \ {x}) \in Nat
    <3> DEFINE W == (T \ {z}) \ {x}
    <3>1. IsFiniteSet(W) /\ W \in SUBSET D
      BY <1>5, <1>11
    <3> HIDE DEF W
    <3>2. SumOver(f, W) \in Nat
      BY <3>1, SumType
    <3> QED BY <3>2 DEF W
  <2> QED BY <1>4, <2>1
<1> DEFINE a == SumOver(f, (T \ {z}) \ {x})
<1>13. /\ SumOver(f, T \ {x}) = f[z] + a /\ SumOver(f, T \ {z}) = f[x] + a
       /\ a \in Nat
  BY <1>9, <1>10, <1>11, <1>12
<1> HIDE DEF a, B
<1> QED BY <1>3, <1>6, <1>12, <1>13

(* What is counted in f is counted in g, and for at least as much. *)
LEMMA SumMonotone ==
    ASSUME NEW D, NEW f \in [D -> Nat], NEW g \in [D -> Nat],
           NEW S \in SUBSET D, IsFiniteSet(S), NEW R \in SUBSET D, IsFiniteSet(R),
           \A x \in R : f[x] = 0 \/ (x \in S /\ f[x] <= g[x])
    PROVE  SumOver(f, R) <= SumOver(g, S)
<1> DEFINE A == R \cup S
           B == {T \in SUBSET A : ~ (SumOver(f, R \cap T) <= SumOver(g, S \cap T))}
<1>1. SUFFICES ASSUME B # {} PROVE FALSE
  <2>1. A \in SUBSET A /\ R \cap A = R /\ S \cap A = S
    OBVIOUS
  <2> QED BY <2>1
<1>2. IsFiniteSet(A) /\ A \in SUBSET D
  BY FS_Union
<1>3. PICK T \in B : \A W \in B : W \subseteq T => W = T
  <2>1. B \in SUBSET (SUBSET A) /\ B # {}
    BY <1>1
  <2> HIDE DEF A, B
  <2> QED BY <1>2, <2>1, MinimalSubset
<1>4. \A W \in SUBSET A : IsFiniteSet(W) /\ W \in SUBSET D
  BY <1>2, FS_Subset
<1>5. \A W \in SUBSET A : SumOver(f, W) \in Nat /\ SumOver(g, W) \in Nat
  BY <1>4, SumType
<1>6. T \in SUBSET A /\ ~ (SumOver(f, R \cap T) <= SumOver(g, S \cap T))
  BY <1>3
<1>7. \A W \in SUBSET A : W \subseteq T /\ W # T => SumOver(f, R \cap W) <= SumOver(g, S \cap W)
  BY <1>3
<1> HIDE DEF A, B
<1>8. CASE T = {}
  <2>1. R \cap T = {} /\ S \cap T = {} /\ {} \in SUBSET A
    BY <1>8
  <2>2. SumOver(f, {}) = 0 /\ SumOver(g, {}) = 0
    BY <1>4, <2>1, SumType
  <2> QED BY <1>6, <2>1, <2>2
<1>9. CASE T # {}
  <2>1. PICK x : x \in T
    BY <1>9
  <2> DEFINE W == T \ {x}
             fs == R \cap T
             gs == S \cap T
             fw == R \cap W
             gw == S \cap W
  <2>2. /\ W \in SUBSET A /\ W \subseteq T /\ W # T /\ x \in D
        /\ fs \in SUBSET A /\ gs \in SUBSET A /\ fw \in SUBSET A /\ gw \in SUBSET A
        /\ fw = fs \ {x} /\ gw = gs \ {x}
        /\ x \in R <=> x \in fs
        /\ x \in S <=> x \in gs
    BY <1>2, <1>6, <2>1
  <2>3. SumOver(f, fw) <= SumOver(g, gw)
    BY <1>7, <2>2
  <2>4. SumOver(f, fs) \in Nat /\ SumOver(g, gs) \in Nat /\ SumOver(f, fw) \in Nat
        /\ SumOver(g, gw) \in Nat /\ f[x] \in Nat /\ g[x] \in Nat
    BY <1>5, <2>2
  <2>5. ~ (SumOver(f, fs) <= SumOver(g, gs))
    BY <1>6
  <2> HIDE DEF W, fs, gs, fw, gw
  <2>6. ASSUME x \in R
        PROVE  SumOver(f, fs) = f[x] + SumOver(f, fw)
    <3>1. x \in fs /\ fs \in SUBSET D /\ IsFiniteSet(fs) /\ fw = fs \ {x}
      BY <1>4, <2>2, <2>6
    <3>2. SumOver(f, fs) = f[x] + SumOver(f, fs \ {x})
      BY <3>1, SumRemove
    <3> QED BY <3>1, <3>2
  <2>7. x \in S => SumOver(g, gs) = g[x] + SumOver(g, gw)
    BY <1>4, <2>2, SumRemove
  <2>8. (x \notin R => fs = fw) /\ (x \notin S => gs = gw)
    BY <2>2
  <2>9. x \in R => f[x] = 0 \/ (x \in S /\ f[x] <= g[x])
    OBVIOUS
  <2>10. SumOver(f, fs) <= SumOver(f, fw) + (IF x \in S THEN g[x] ELSE 0)
    BY <2>4, <2>6, <2>8, <2>9
  <2>11. SumOver(g, gs) = SumOver(g, gw) + (IF x \in S THEN g[x] ELSE 0)
    BY <2>4, <2>7, <2>8
  <2> QED BY <2>3, <2>4, <2>5, <2>10, <2>11
<1> QED BY <1>8, <1>9

(* Functions equal on a set have one sum over it. *)
LEMMA SumSame ==
    ASSUME NEW D, NEW f \in [D -> Nat], NEW g \in [D -> Nat],
           NEW S \in SUBSET D, IsFiniteSet(S), \A x \in S : f[x] = g[x]
    PROVE  SumOver(f, S) = SumOver(g, S)
<1>1. \A x \in S : f[x] \in Nat /\ g[x] \in Nat
  OBVIOUS
<1>2. /\ \A x \in S : f[x] = 0 \/ (x \in S /\ f[x] <= g[x])
      /\ \A x \in S : g[x] = 0 \/ (x \in S /\ g[x] <= f[x])
  BY <1>1
<1>3. SumOver(f, S) <= SumOver(g, S)
  BY <1>2, SumMonotone
<1>4. SumOver(g, S) <= SumOver(f, S)
  BY <1>2, SumMonotone
<1>5. SumOver(f, S) \in Nat /\ SumOver(g, S) \in Nat
  BY SumType
<1> QED BY <1>3, <1>4, <1>5

(* A sum in which one value changes. *)
LEMMA SumChange ==
    ASSUME NEW D, NEW f \in [D -> Nat], NEW g \in [D -> Nat],
           NEW S \in SUBSET D, IsFiniteSet(S), NEW y \in S,
           \A x \in S \ {y} : f[x] = g[x]
    PROVE  SumOver(g, S) + f[y] = SumOver(f, S) + g[y]
<1> DEFINE R == S \ {y}
<1>1. R \in SUBSET D /\ IsFiniteSet(R) /\ \A x \in R : f[x] = g[x]
  BY FS_RemoveElement
<1>2. SumOver(f, S) = f[y] + SumOver(f, R) /\ SumOver(g, S) = g[y] + SumOver(g, R)
  BY SumRemove
<1> HIDE DEF R
<1>3. SumOver(f, R) = SumOver(g, R) /\ SumOver(f, R) \in Nat
  BY <1>1, SumSame, SumType
<1>4. f[y] \in Nat /\ g[y] \in Nat
  OBVIOUS
<1> QED BY <1>2, <1>3, <1>4
=============================================================================
