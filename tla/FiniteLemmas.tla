----------------------------- MODULE FiniteLemmas -----------------------------
(***************************************************************************)
(* Facts about finite sets of numbers and sums over finite sets.  They are *)
(* proved by a minimal counterexample in a well-founded order (WFMin).     *)
(***************************************************************************)
EXTENDS Integers, FiniteSetTheorems, TLAPS

(* A set of naturals that is not empty has a least element. *)
LEMMA LeastNatural ==
  ASSUME NEW S \in SUBSET Nat, S # {}
  PROVE  \E m \in S : \A n \in S : m <= n
<1>1. PICK m \in S : \A n \in S : <<n, m>> \notin OpToRel(<, Nat)
  BY NatLessThanWellFounded, WFMin
<1>2. \A n \in S : ~(n < m)
  BY <1>1 DEF OpToRel
<1>3. QED
  BY <1>2

(* ... and a greatest one if it is bounded. *)
LEMMA GreatestNatural ==
  ASSUME NEW b \in Nat, NEW S \in SUBSET (0..b), S # {}
  PROVE  \E m \in S : \A n \in S : n <= m
<1> DEFINE T == {b - n : n \in S}
<1>1. T \in SUBSET Nat /\ T # {}
  <2>1. \A n \in S : n \in Nat /\ n <= b
    OBVIOUS
  <2>2. \A n \in S : b - n \in Nat
    BY <2>1
  <2>3. PICK n \in S : TRUE
    OBVIOUS
  <2>4. b - n \in T
    BY <2>3
  <2>5. QED
    BY <2>2, <2>4
<1> HIDE DEF T
<1>2. PICK k \in T : \A n \in T : k <= n
  BY <1>1, LeastNatural
<1>3. PICK m \in S : k = b - m
  BY <1>2 DEF T
<1>4. ASSUME NEW n \in S PROVE n <= m
  <2>1. b - n \in T
    BY DEF T
  <2>2. b - m <= b - n
    BY <1>2, <1>3, <2>1
  <2>3. QED
    BY <2>2
<1>5. QED
  BY <1>3, <1>4

(* A family of subsets of a finite set has a minimal member. *)
LEMMA MinimalSubset ==
  ASSUME NEW A, IsFiniteSet(A), NEW F \in SUBSET (SUBSET A), F # {}
  PROVE  \E m \in F : \A s \in F : s \subseteq m => s = m
<1>1. F \subseteq FiniteSubsetsOf(A)
  BY FS_FiniteSubsetsOfFinite
<1>2. PICK m \in F : \A s \in F : <<s, m>> \notin StrictSubsetOrdering(A)
  BY <1>1, FS_StrictSubsetOrderingWellFounded, WFMin
<1>3. ASSUME NEW s \in F, s \subseteq m PROVE s = m
  <2>1. <<s, m>> \in (SUBSET A) \X (SUBSET A)
    OBVIOUS
  <2>2. QED
    BY <1>2, <1>3, <2>1 DEF StrictSubsetOrdering
<1>4. QED
  BY <1>3

(***************************************************************************)
(* Sums of a function over a finite set.  SumFunctionOnSet takes the       *)
(* elements in the order in which CHOOSE presents them; it is a value of   *)
(* the function SumsOver describes.                                        *)
(***************************************************************************)
Some(s) == CHOOSE x \in s : TRUE

SumsOver(f, A, g) ==
  g = [s \in SUBSET A |-> IF s = {} THEN 0 ELSE f[Some(s)] + g[s \ {Some(s)}]]

LEMMA SumDef ==
  ASSUME NEW f, NEW A
  PROVE  SumFunctionOnSet(f, A) = (CHOOSE g : SumsOver(f, A, g))[A]
BY DEF SumFunctionOnSet, FoldFunctionOnSet, MapThenFoldSet, SumsOver, Some

LEMMA SomeIn ==
  ASSUME NEW s, s # {}
  PROVE  Some(s) \in s
BY DEF Some

(* Two such functions agree wherever both are defined. *)
LEMMA SumsUnique ==
  ASSUME NEW f, NEW A, IsFiniteSet(A), NEW B, NEW g, NEW h,
         SumsOver(f, A, g), SumsOver(f, B, h)
  PROVE  \A s \in SUBSET (A \cap B) : g[s] = h[s]
<1> DEFINE F == {s \in SUBSET (A \cap B) : g[s] # h[s]}
<1> SUFFICES ASSUME F # {} PROVE FALSE
  OBVIOUS
<1>1. F \in SUBSET (SUBSET A)
  OBVIOUS
<1> HIDE DEF F
<1>2. PICK m \in F : \A s \in F : s \subseteq m => s = m
  BY <1>1, MinimalSubset
<1>3. m \in SUBSET A /\ m \in SUBSET B /\ g[m] # h[m]
  BY <1>2 DEF F
<1>4. CASE m = {}
  <2>1. g[m] = 0
    BY <1>3, <1>4 DEF SumsOver
  <2>2. h[m] = 0
    BY <1>3, <1>4 DEF SumsOver
  <2>3. QED
    BY <1>3, <2>1, <2>2
<1>5. CASE m # {}
  <2> DEFINE r == m \ {Some(m)}
  <2>1. Some(m) \in m
    BY <1>5, SomeIn
  <2>2. r \subseteq m /\ r # m
    BY <2>1
  <2>3. g[r] = h[r]
    BY <1>2, <1>3, <2>2 DEF F
  <2>4. g[m] = f[Some(m)] + g[r]
    BY <1>3, <1>5 DEF SumsOver
  <2>5. h[m] = f[Some(m)] + h[r]
    BY <1>3, <1>5 DEF SumsOver
  <2>6. QED
    BY <1>3, <2>3, <2>4, <2>5
<1>6. QED
  BY <1>4, <1>5

(* What is a sum function for A is one for each of its subsets. *)
LEMMA SumsRestrict ==
  ASSUME NEW f, NEW A, NEW B \in SUBSET A, NEW g, SumsOver(f, A, g)
  PROVE  SumsOver(f, B, [s \in SUBSET B |-> g[s]])
<1> DEFINE h == [s \in SUBSET B |-> g[s]]
<1>1. ASSUME NEW s \in SUBSET B
      PROVE  h[s] = IF s = {} THEN 0 ELSE f[Some(s)] + h[s \ {Some(s)}]
  <2>1. s \in SUBSET A /\ s \ {Some(s)} \in SUBSET B
    OBVIOUS
  <2>2. g[s] = IF s = {} THEN 0 ELSE f[Some(s)] + g[s \ {Some(s)}]
    BY <2>1 DEF SumsOver
  <2>3. h[s] = g[s] /\ h[s \ {Some(s)}] = g[s \ {Some(s)}]
    BY <2>1
  <2>4. QED
    BY <2>2, <2>3
<1>2. QED
  BY <1>1 DEF SumsOver

(* Every finite set has its sum function. *)
LEMMA SumsExist ==
  ASSUME NEW f, NEW A, IsFiniteSet(A)
  PROVE  \E g : SumsOver(f, A, g)
<1> DEFINE F == {T \in SUBSET A : ~ \E g : SumsOver(f, T, g)}
<1> SUFFICES ASSUME F # {} PROVE FALSE
  OBVIOUS
<1>1. F \in SUBSET (SUBSET A)
  OBVIOUS
<1> HIDE DEF F
<1>2. PICK m \in F : \A s \in F : s \subseteq m => s = m
  BY <1>1, MinimalSubset
<1>3. m \in SUBSET A /\ ~ \E g : SumsOver(f, m, g)
  BY <1>2 DEF F
<1> DEFINE H(T) == CHOOSE g : SumsOver(f, T, g)
<1>4. ASSUME NEW T \in SUBSET m, T # m
      PROVE  SumsOver(f, T, H(T)) /\ IsFiniteSet(T)
  <2>1. \E g : SumsOver(f, T, g)
    BY <1>2, <1>3, <1>4 DEF F
  <2>2. T \in SUBSET A
    BY <1>3
  <2>3. IsFiniteSet(T)
    BY <2>2, FS_Subset
  <2>4. QED
    BY <2>1, <2>3
<1> HIDE DEF H
<1> DEFINE step(s) == IF s = {} THEN 0 ELSE f[Some(s)] + H(s \ {Some(s)})[s \ {Some(s)}]
           g == [s \in SUBSET m |-> step(s)]
<1>5. ASSUME NEW T \in SUBSET m, T # m
      PROVE  step(T) = H(T)[T]
  <2>1. CASE T = {}
    BY <1>4, <1>5, <2>1 DEF SumsOver
  <2>2. CASE T # {}
    <3> DEFINE r == T \ {Some(T)}
    <3>1. r \in SUBSET m /\ r # m /\ r \in SUBSET (T \cap r)
      BY <1>5, <2>2, SomeIn
    <3>2. H(T)[r] = H(r)[r]
      BY <1>4, <1>5, <3>1, SumsUnique
    <3>3. H(T)[T] = f[Some(T)] + H(T)[r]
      BY <1>4, <1>5, <2>2 DEF SumsOver
    <3>4. QED
      BY <2>2, <3>2, <3>3
  <2>3. QED
    BY <2>1, <2>2
<1>6. ASSUME NEW s \in SUBSET m
      PROVE  g[s] = IF s = {} THEN 0 ELSE f[Some(s)] + g[s \ {Some(s)}]
  <2>1. CASE s = {}
    BY <2>1
  <2>2. CASE s # {}
    <3> DEFINE r == s \ {Some(s)}
    <3>1. r \in SUBSET m /\ r # m
      BY <2>2, SomeIn
    <3>2. g[r] = H(r)[r]
      BY <1>5, <3>1
    <3>3. QED
      BY <2>2, <3>2
  <2>3. QED
    BY <2>1, <2>2
<1>7. SumsOver(f, m, g)
  BY <1>6 DEF SumsOver
<1>8. QED
  BY <1>3, <1>7

(* The sum over a finite set is the value of any of its sum functions. *)
LEMMA SumIs ==
  ASSUME NEW f, NEW A, IsFiniteSet(A), NEW B \in SUBSET A, NEW g, SumsOver(f, A, g)
  PROVE  SumFunctionOnSet(f, B) = g[B]
<1> DEFINE h == CHOOSE e : SumsOver(f, B, e)
<1>1. IsFiniteSet(B)
  BY FS_Subset
<1>2. SumsOver(f, B, h)
  BY <1>1, SumsExist
<1> HIDE DEF h
<1>3. B \in SUBSET (A \cap B)
  OBVIOUS
<1>4. g[B] = h[B]
  BY <1>2, <1>3, SumsUnique
<1>5. SumFunctionOnSet(f, B) = h[B]
  BY SumDef DEF h
<1>6. QED
  BY <1>4, <1>5

LEMMA SumEmpty == \A f : SumFunctionOnSet(f, {}) = 0
<1> SUFFICES ASSUME NEW f PROVE SumFunctionOnSet(f, {}) = 0
  OBVIOUS
<1>1. IsFiniteSet({})
  BY FS_EmptySet
<1>2. PICK g : SumsOver(f, {}, g)
  BY <1>1, SumsExist
<1>3. g[{}] = 0
  BY <1>2 DEF SumsOver
<1>4. QED
  BY <1>1, <1>2, <1>3, SumIs

LEMMA SumSome ==
  ASSUME NEW f, NEW A, IsFiniteSet(A), A # {}
  PROVE  SumFunctionOnSet(f, A) = f[Some(A)] + SumFunctionOnSet(f, A \ {Some(A)})
<1>1. PICK g : SumsOver(f, A, g)
  BY SumsExist
<1>2. g[A] = f[Some(A)] + g[A \ {Some(A)}]
  BY <1>1 DEF SumsOver
<1>3. A \ {Some(A)} \in SUBSET A
  OBVIOUS
<1>4. QED
  BY <1>1, <1>2, <1>3, SumIs

LEMMA SumNatural ==
  ASSUME NEW f, NEW A, IsFiniteSet(A), \A x \in A : f[x] \in Nat
  PROVE  SumFunctionOnSet(f, A) \in Nat
<1> DEFINE F == {B \in SUBSET A : SumFunctionOnSet(f, B) \notin Nat}
<1> SUFFICES ASSUME F # {} PROVE FALSE
  OBVIOUS
<1>1. F \in SUBSET (SUBSET A)
  OBVIOUS
<1> HIDE DEF F
<1>2. PICK m \in F : \A s \in F : s \subseteq m => s = m
  BY <1>1, MinimalSubset
<1>3. m \in SUBSET A /\ SumFunctionOnSet(f, m) \notin Nat /\ IsFiniteSet(m)
  BY <1>2, FS_Subset DEF F
<1>4. m # {}
  BY <1>3, SumEmpty
<1> DEFINE r == m \ {Some(m)}
<1>5. Some(m) \in m
  BY <1>4, SomeIn
<1>6. SumFunctionOnSet(f, r) \in Nat
  BY <1>2, <1>3, <1>5 DEF F
<1>7. SumFunctionOnSet(f, m) = f[Some(m)] + SumFunctionOnSet(f, r)
  BY <1>3, <1>4, SumSome
<1>8. QED
  BY <1>3, <1>5, <1>6, <1>7

(* The order of summation does not matter: any element may come first. *)
LEMMA SumRemove ==
  ASSUME NEW f, NEW A, IsFiniteSet(A), \A x \in A : f[x] \in Nat, NEW y \in A
  PROVE  SumFunctionOnSet(f, A) = f[y] + SumFunctionOnSet(f, A \ {y})
<1> DEFINE Sum(B) == SumFunctionOnSet(f, B)
           F == {B \in SUBSET A : \E x \in B : Sum(B) # f[x] + Sum(B \ {x})}
<1> SUFFICES ASSUME F # {} PROVE FALSE
  OBVIOUS
<1>1. F \in SUBSET (SUBSET A)
  OBVIOUS
<1> HIDE DEF F
<1>2. PICK m \in F : \A s \in F : s \subseteq m => s = m
  BY <1>1, MinimalSubset
<1>3. m \in SUBSET A
  BY <1>2 DEF F
<1>4. PICK x \in m : Sum(m) # f[x] + Sum(m \ {x})
  BY <1>2 DEF F
<1> DEFINE c == Some(m)
<1>5. c \in m /\ c # x
  <2>1. c \in m
    BY SomeIn
  <2>2. Sum(m) = f[c] + Sum(m \ {c})
    BY <1>3, <2>1, FS_Subset, SumSome
  <2>3. QED
    BY <1>4, <2>1, <2>2
<1> HIDE DEF c
<1>6. Sum(m) = f[c] + Sum(m \ {c})
  BY <1>3, <1>5, FS_Subset, SumSome DEF c
<1>7. ASSUME NEW B \in SUBSET m, B # m, NEW z \in B
      PROVE  Sum(B) = f[z] + Sum(B \ {z})
  BY <1>2, <1>3, <1>7 DEF F
<1>8. Sum(m \ {c}) = f[x] + Sum((m \ {c}) \ {x})
  BY <1>5, <1>7
<1>9. Sum(m \ {x}) = f[c] + Sum((m \ {x}) \ {c})
  BY <1>5, <1>7
<1>10. Sum((m \ {c}) \ {x}) = Sum((m \ {x}) \ {c})
  <2>1. (m \ {c}) \ {x} = (m \ {x}) \ {c}
    OBVIOUS
  <2>2. QED
    BY <2>1
<1>11. Sum((m \ {x}) \ {c}) \in Nat /\ f[x] \in Nat /\ f[c] \in Nat
  <2>1. (m \ {x}) \ {c} \in SUBSET A
    BY <1>3
  <2>2. QED
    BY <1>3, <1>5, <2>1, FS_Subset, SumNatural
<1>12. PICK u \in Nat, v \in Int, w \in Int :
          u = Sum((m \ {x}) \ {c}) /\ v = Sum(m \ {c}) /\ w = Sum(m \ {x})
  BY <1>8, <1>9, <1>10, <1>11
<1>13. f[c] + (f[x] + u) = f[x] + (f[c] + u)
  BY <1>11
<1>14. QED
  BY <1>4, <1>6, <1>8, <1>9, <1>10, <1>12, <1>13

(* Functions that agree on a set have the same sum over it; smaller values *)
(* have a smaller sum.                                                      *)
LEMMA SumMonotone ==
  ASSUME NEW f, NEW g, NEW A, IsFiniteSet(A),
         \A x \in A : f[x] \in Nat /\ g[x] \in Nat /\ f[x] <= g[x]
  PROVE  SumFunctionOnSet(f, A) <= SumFunctionOnSet(g, A)
<1> DEFINE Small(B) == SumFunctionOnSet(f, B)
           Large(B) == SumFunctionOnSet(g, B)
           F == {B \in SUBSET A : ~(Small(B) <= Large(B))}
<1> SUFFICES ASSUME F # {} PROVE FALSE
  OBVIOUS
<1>1. F \in SUBSET (SUBSET A)
  OBVIOUS
<1> HIDE DEF F
<1>2. PICK m \in F : \A s \in F : s \subseteq m => s = m
  BY <1>1, MinimalSubset
<1>3. m \in SUBSET A /\ ~(Small(m) <= Large(m)) /\ IsFiniteSet(m)
  BY <1>2, FS_Subset DEF F
<1>4. m # {}
  BY <1>3, SumEmpty
<1>5. PICK x \in m : TRUE
  BY <1>4
<1>6. m \ {x} \in SUBSET A /\ m \ {x} # m
  BY <1>3
<1>7. Small(m \ {x}) <= Large(m \ {x})
  BY <1>2, <1>6 DEF F
<1>8. Small(m) = f[x] + Small(m \ {x}) /\ Large(m) = g[x] + Large(m \ {x})
  BY <1>3, SumRemove
<1>9. Small(m \ {x}) \in Nat /\ Large(m \ {x}) \in Nat
  BY <1>6, FS_Subset, SumNatural
<1>10. f[x] \in Nat /\ g[x] \in Nat /\ f[x] <= g[x]
  BY <1>3
<1> HIDE DEF Small, Large
<1>11. QED
  BY <1>3, <1>7, <1>8, <1>9, <1>10

LEMMA SumSame ==
  ASSUME NEW f, NEW g, NEW A, IsFiniteSet(A),
         \A x \in A : f[x] \in Nat /\ g[x] = f[x]
  PROVE  SumFunctionOnSet(f, A) = SumFunctionOnSet(g, A)
<1>1. SumFunctionOnSet(f, A) <= SumFunctionOnSet(g, A)
  BY SumMonotone
<1>2. SumFunctionOnSet(g, A) <= SumFunctionOnSet(f, A)
  BY SumMonotone
<1>3. SumFunctionOnSet(f, A) \in Nat /\ SumFunctionOnSet(g, A) \in Nat
  BY SumNatural
<1>4. QED
  BY <1>1, <1>2, <1>3

(* The sum over two sets without a common element. *)
LEMMA SumUnion ==
  ASSUME NEW f, NEW A, IsFiniteSet(A), NEW B, IsFiniteSet(B), A \cap B = {},
         \A x \in A \cup B : f[x] \in Nat
  PROVE  SumFunctionOnSet(f, A \cup B) = SumFunctionOnSet(f, A) + SumFunctionOnSet(f, B)
<1> DEFINE Sum(S) == SumFunctionOnSet(f, S)
           F == {S \in SUBSET B : Sum(A \cup S) # Sum(A) + Sum(S)}
<1> SUFFICES ASSUME F # {} PROVE FALSE
  OBVIOUS
<1>1. F \in SUBSET (SUBSET B)
  OBVIOUS
<1> HIDE DEF F
<1>2. PICK m \in F : \A s \in F : s \subseteq m => s = m
  BY <1>1, MinimalSubset
<1>3. m \in SUBSET B /\ Sum(A \cup m) # Sum(A) + Sum(m) /\ IsFiniteSet(m)
  BY <1>2, FS_Subset DEF F
<1>4. Sum(A) \in Nat
  BY SumNatural
<1>5. m # {}
  <2>1. A \cup {} = A /\ Sum({}) = 0
    BY SumEmpty
  <2>2. QED
    BY <1>3, <1>4, <2>1
<1>6. PICK x \in m : TRUE
  BY <1>5
<1> DEFINE r == m \ {x}
<1>7. /\ r \in SUBSET B /\ IsFiniteSet(r)
      /\ (A \cup m) \ {x} = A \cup r
      /\ IsFiniteSet(A \cup m)
  BY <1>3, FS_Subset, FS_Union
<1>8. Sum(A \cup r) = Sum(A) + Sum(r)
  BY <1>2, <1>3, <1>7 DEF F
<1>9. Sum(m) = f[x] + Sum(r)
  BY <1>3, SumRemove
<1>10. Sum(A \cup m) = f[x] + Sum(A \cup r)
  BY <1>3, <1>7, SumRemove
<1>11. f[x] \in Nat /\ Sum(r) \in Nat
  BY <1>3, <1>7, SumNatural
<1> HIDE DEF Sum, r
<1>12. QED
  BY <1>3, <1>4, <1>8, <1>9, <1>10, <1>11
==============================================================================
