------------------------------ MODULE FoldLemmas ------------------------------
(***************************************************************************)
(* Lemmas the proof modules share: induction over the natural numbers with *)
(* the set of the numbers that have the property as its parameter, and     *)
(* what the recursive functions behind the folds of the community modules  *)
(* compute.                                                                *)
(***************************************************************************)
EXTENDS Integers, FiniteSets, FiniteSetsExt, TLAPS, FiniteSetTheorems,
        WellFoundedInduction

-----------------------------------------------------------------------------
(* Induction *)

\* A set of natural numbers that is not empty has a least element.
LEMMA LeastNatural ==
  ASSUME NEW T \in SUBSET Nat, T # {}
  PROVE  \E x \in T : \A y \in T : x <= y
<1>1. PICK x \in T : \A y \in T : ~ (<<y, x>> \in OpToRel(<, Nat))
  BY WFMin, NatLessThanWellFounded
<1>2. \A y \in T : ~ (y < x)
  BY <1>1 DEF OpToRel
<1> QED
  BY <1>2

LEMMA SetInduction ==
  ASSUME NEW S, 0 \in S, \A n \in Nat : n \in S => n + 1 \in S
  PROVE  Nat \subseteq S
<1> DEFINE T == Nat \ S
<1> SUFFICES ASSUME T # {} PROVE FALSE
  OBVIOUS
<1>1. PICK x \in T : \A y \in T : x <= y
  <2>1. T \in SUBSET Nat
    OBVIOUS
  <2> HIDE DEF T
  <2> QED
    BY <2>1, LeastNatural
<1>2. x \in Nat /\ x # 0 /\ x - 1 \in T
  OBVIOUS
<1> QED
  BY <1>1, <1>2

\* Digits of a number in base d.
LEMMA DivUnique ==
  \A q, r \in Nat, d \in Nat \ {0} :
    r < d => (q * d + r) \div d = q /\ (q * d + r) % d = r
  OBVIOUS

-----------------------------------------------------------------------------
(* Recursion over the natural numbers *)

\* c is the table of a, F[a], F[F[a]] and so on up to the n-th.
Iterates(c, n, a, F) == c = [k \in 0 .. n |-> IF k = 0 THEN a ELSE F[c[k - 1]]]
Iterate(n, a, F) == (CHOOSE c : Iterates(c, n, a, F))[n]

LEMMA IteratesAgree ==
  ASSUME NEW n \in Nat, NEW m \in Nat, n <= m, NEW a, NEW F, NEW c, NEW d,
         Iterates(c, n, a, F), Iterates(d, m, a, F)
  PROVE  \A k \in 0 .. n : c[k] = d[k]
<1> DEFINE H == {k \in Nat : k <= n => c[k] = d[k]}
<1>1. 0 \in H
  BY DEF Iterates
<1>2. ASSUME NEW k \in Nat, k \in H
      PROVE  k + 1 \in H
  <2> SUFFICES ASSUME k + 1 <= n PROVE c[k + 1] = d[k + 1]
    OBVIOUS
  <2>1. k + 1 \in 0 .. n /\ k + 1 \in 0 .. m /\ k + 1 # 0 /\ k + 1 - 1 = k
    OBVIOUS
  <2>2. c[k + 1] = F[c[k]]
    BY <2>1 DEF Iterates
  <2>3. d[k + 1] = F[d[k]]
    BY <2>1 DEF Iterates
  <2> QED
    BY <1>2, <2>2, <2>3
<1>3. Nat \subseteq H
  <2> HIDE DEF H
  <2> QED
    BY <1>1, <1>2, SetInduction
<1> QED
  BY <1>3

LEMMA Iteration ==
  ASSUME NEW V, NEW a \in V, NEW F \in [V -> V]
  PROVE  /\ Iterate(0, a, F) = a
         /\ \A n \in Nat : /\ Iterate(n, a, F) \in V
                           /\ Iterate(n + 1, a, F) = F[Iterate(n, a, F)]
<1> DEFINE H == {n \in Nat : \E c \in [0 .. n -> V] : Iterates(c, n, a, F)}
<1>1. 0 \in H
  <2> DEFINE c == [k \in 0 .. 0 |-> a]
  <2>1. c \in [0 .. 0 -> V] /\ Iterates(c, 0, a, F)
    BY DEF Iterates
  <2> QED
    BY <2>1
<1>2. ASSUME NEW n \in Nat, n \in H
      PROVE  n + 1 \in H
  <2>1. PICK c \in [0 .. n -> V] : Iterates(c, n, a, F)
    BY <1>2
  <2> DEFINE d == [k \in 0 .. n + 1 |-> IF k = 0 THEN a ELSE F[c[k - 1]]]
  <2>2. \A k \in 0 .. n : c[k] \in V /\ d[k] = c[k]
    BY <2>1 DEF Iterates
  <2>3. \A k \in 0 .. n + 1 : k # 0 => k - 1 \in 0 .. n
    OBVIOUS
  <2>4. d \in [0 .. n + 1 -> V]
    BY <2>2, <2>3
  <2>5. d = [k \in 0 .. n + 1 |-> IF k = 0 THEN a ELSE F[d[k - 1]]]
    <3>1. \A k \in 0 .. n + 1 : d[k] = IF k = 0 THEN a ELSE F[d[k - 1]]
      BY <2>2, <2>3
    <3> QED
      BY <3>1
  <2>6. Iterates(d, n + 1, a, F)
    <3> HIDE DEF d
    <3> QED
      BY <2>5 DEF Iterates
  <2>7. n + 1 \in Nat
    OBVIOUS
  <2> HIDE DEF d
  <2> QED
    BY <2>4, <2>6, <2>7
<1>3. Nat \subseteq H
  <2> HIDE DEF H
  <2> QED
    BY <1>1, <1>2, SetInduction
<1>4. ASSUME NEW n \in Nat
      PROVE  \E c \in [0 .. n -> V] : Iterates(c, n, a, F) /\ Iterate(n, a, F) = c[n]
  <2>1. PICK c \in [0 .. n -> V] : Iterates(c, n, a, F)
    BY <1>3
  <2>2. Iterates(CHOOSE d : Iterates(d, n, a, F), n, a, F)
    BY <2>1
  <2>3. (CHOOSE d : Iterates(d, n, a, F))[n] = c[n]
    BY <2>1, <2>2, IteratesAgree
  <2> QED
    BY <2>1, <2>3 DEF Iterate
<1>5. Iterate(0, a, F) = a
  <2>1. PICK c \in [0 .. 0 -> V] : Iterates(c, 0, a, F) /\ Iterate(0, a, F) = c[0]
    BY <1>4
  <2> QED
    BY <2>1 DEF Iterates
<1>6. ASSUME NEW n \in Nat
      PROVE  /\ Iterate(n, a, F) \in V
             /\ Iterate(n + 1, a, F) = F[Iterate(n, a, F)]
  <2>1. PICK c \in [0 .. n -> V] : Iterates(c, n, a, F) /\ Iterate(n, a, F) = c[n]
    BY <1>4
  <2>2. n + 1 \in Nat
    OBVIOUS
  <2>3. PICK d \in [0 .. n + 1 -> V] : Iterates(d, n + 1, a, F) /\ Iterate(n + 1, a, F) = d[n + 1]
    BY <1>4, <2>2
  <2>4. d[n + 1] = F[d[n]]
    <3>1. n + 1 \in 0 .. n + 1 /\ n + 1 # 0 /\ n + 1 - 1 = n
      OBVIOUS
    <3> QED
      BY <2>3, <3>1 DEF Iterates
  <2>5. c[n] = d[n]
    BY <2>1, <2>2, <2>3, IteratesAgree
  <2> QED
    BY <2>1, <2>3, <2>4, <2>5
<1> QED
  BY <1>5, <1>6

-----------------------------------------------------------------------------
(* Recursion over the subsets of a finite set *)

\* The recursion behind MapThenFoldSet has a solution: each subset takes
\* its value from the subset without its chosen element.
Recursive(S, V, base, ch, G) ==
  /\ IsFiniteSet(S)
  /\ base \in V
  /\ \A s \in SUBSET S : s # {} => ch[s] \in s
  /\ G \in [(SUBSET S) \X V -> V]

Solution(h, S, V, base, ch, G) ==
  /\ h \in [SUBSET S -> V]
  /\ \A s \in SUBSET S : h[s] = IF s = {} THEN base ELSE G[<<s, h[s \ {ch[s]}]>>]

LEMMA SubsetRecursion ==
  ASSUME NEW S, NEW V, NEW base, NEW ch, NEW G, Recursive(S, V, base, ch, G)
  PROVE  \E h : Solution(h, S, V, base, ch, G)
<1> USE DEF Recursive, Solution
<1> DEFINE Dom(n) == {s \in SUBSET S : Cardinality(s) <= n}
           Solves(h, n) ==
             \A s \in Dom(n) : h[s] = IF s = {} THEN base ELSE G[<<s, h[s \ {ch[s]}]>>]
           H == {n \in Nat : \E h \in [Dom(n) -> V] : Solves(h, n)}
<1>1. \A s \in SUBSET S : IsFiniteSet(s) /\ Cardinality(s) \in Nat
  BY FS_Subset, FS_CardinalityType
<1>2. ASSUME NEW n \in Nat, NEW s \in SUBSET S, s # {}, Cardinality(s) <= n + 1
      PROVE  s \ {ch[s]} \in Dom(n)
  <2>1. ch[s] \in s
    BY <1>2
  <2>2. Cardinality(s \ {ch[s]}) = Cardinality(s) - 1
    BY <1>1, <2>1, FS_RemoveElement
  <2> QED
    BY <1>1, <1>2, <2>2
<1>3. 0 \in H
  <2>1. Dom(0) = {{}}
    <3>1. \A s \in SUBSET S : Cardinality(s) <= 0 <=> s = {}
      BY <1>1, FS_EmptySet
    <3> QED
      BY <3>1
  <2> DEFINE h == [s \in Dom(0) |-> base]
  <2>2. h \in [Dom(0) -> V] /\ Solves(h, 0)
    BY <2>1
  <2> QED
    BY <2>2
<1>4. ASSUME NEW n \in Nat, n \in H
      PROVE  n + 1 \in H
  <2>1. PICK g \in [Dom(n) -> V] : Solves(g, n)
    BY <1>4
  <2> DEFINE h == [s \in Dom(n + 1) |-> IF s = {} THEN base ELSE G[<<s, g[s \ {ch[s]}]>>]]
  <2>2. h \in [Dom(n + 1) -> V]
    BY <1>2
  <2>3. \A s \in Dom(n) : h[s] = g[s]
    <3>1. \A s \in Dom(n) : s \in Dom(n + 1)
      BY <1>1
    <3> QED
      BY <2>1, <3>1
  <2>4. Solves(h, n + 1)
    <3> SUFFICES ASSUME NEW s \in Dom(n + 1)
                 PROVE  h[s] = IF s = {} THEN base ELSE G[<<s, h[s \ {ch[s]}]>>]
      OBVIOUS
    <3>1. s # {} => h[s \ {ch[s]}] = g[s \ {ch[s]}]
      BY <1>2, <2>3
    <3> QED
      BY <3>1
  <2>5. n + 1 \in Nat
    OBVIOUS
  <2> HIDE DEF h, Dom, Solves
  <2> QED
    BY <2>2, <2>4, <2>5
<1>5. Nat \subseteq H
  <2> HIDE DEF H
  <2> QED
    BY <1>3, <1>4, SetInduction
<1>6. Cardinality(S) \in H
  BY <1>5, FS_CardinalityType
<1>7. Dom(Cardinality(S)) = SUBSET S
  BY <1>1, FS_Subset
<1> QED
  BY <1>6, <1>7

-----------------------------------------------------------------------------
(* Sums *)

\* The sum of f over S, as FiniteSetsExt computes it.
SumOver(f, S) == MapThenSumSet(LAMBDA p : f[p], S)

\* h is the table of the sums of e over the subsets of S.
Sums(e, S, h) ==
  h = [s \in SUBSET S |->
         IF s = {} THEN 0
         ELSE e[CHOOSE x \in s : TRUE] + h[s \ {CHOOSE x \in s : TRUE}]]

LEMMA SumTable ==
  ASSUME NEW S, IsFiniteSet(S), NEW e, \A p \in S : e[p] \in Nat
  PROVE  \E h : Sums(e, S, h) /\ SumOver(e, S) = h[S]
<1> DEFINE ch == [s \in SUBSET S |-> CHOOSE x \in s : TRUE]
           G == [a \in (SUBSET S) \X Nat |->
                   IF a[1] = {} THEN 0 ELSE e[ch[a[1]]] + a[2]]
<1>1. \A s \in SUBSET S : s # {} => ch[s] \in s
  OBVIOUS
<1>2. G \in [(SUBSET S) \X Nat -> Nat]
  <2> SUFFICES ASSUME NEW s \in SUBSET S, NEW v \in Nat, s # {}
               PROVE  e[ch[s]] + v \in Nat
    OBVIOUS
  <2>1. ch[s] \in S
    BY <1>1
  <2> HIDE DEF ch
  <2> QED
    BY <2>1
<1>3. PICK h : Solution(h, S, Nat, 0, ch, G)
  <2> HIDE DEF G, ch
  <2>1. Recursive(S, Nat, 0, ch, G)
    BY <1>1, <1>2 DEF Recursive
  <2> QED
    BY <2>1, SubsetRecursion
<1>4. \A s \in SUBSET S :
        h[s] = IF s = {} THEN 0
               ELSE e[CHOOSE x \in s : TRUE] + h[s \ {CHOOSE x \in s : TRUE}]
  <2> SUFFICES ASSUME NEW s \in SUBSET S
               PROVE  h[s] = IF s = {} THEN 0 ELSE e[ch[s]] + h[s \ {ch[s]}]
    OBVIOUS
  <2>1. s \ {ch[s]} \in SUBSET S
    OBVIOUS
  <2>2. h[s \ {ch[s]}] \in Nat
    BY <1>3, <2>1 DEF Solution
  <2>3. h[s] = IF s = {} THEN 0 ELSE G[<<s, h[s \ {ch[s]}]>>]
    BY <1>3 DEF Solution
  <2> HIDE DEF ch
  <2> QED
    BY <2>2, <2>3
<1>5. Sums(e, S, h)
  BY <1>3, <1>4 DEF Solution, Sums
<1>6. SumOver(e, S) = (CHOOSE hh : Sums(e, S, hh))[S]
  BY DEF SumOver, MapThenSumSet, MapThenFoldSet, Sums
<1> QED
  BY <1>5, <1>6

LEMMA SumZero ==
  ASSUME NEW S, IsFiniteSet(S), NEW f, \A p \in S : f[p] = 0
  PROVE  SumOver(f, S) = 0
<1>1. PICK h : Sums(f, S, h) /\ SumOver(f, S) = h[S]
  BY SumTable
<1> DEFINE H == {n \in Nat : \A s \in SUBSET S : Cardinality(s) = n => h[s] = 0}
<1>2. \A s \in SUBSET S : IsFiniteSet(s) /\ Cardinality(s) \in Nat
  BY FS_Subset, FS_CardinalityType
<1>3. 0 \in H
  BY <1>1, <1>2, FS_EmptySet DEF Sums
<1>4. ASSUME NEW n \in Nat, n \in H
      PROVE  n + 1 \in H
  <2> SUFFICES ASSUME NEW s \in SUBSET S, Cardinality(s) = n + 1 PROVE h[s] = 0
    OBVIOUS
  <2>1. s # {}
    BY FS_EmptySet
  <2>2. PICK x \in s : x = CHOOSE y \in s : TRUE
    BY <2>1
  <2>3. Cardinality(s \ {x}) = n
    <3>1. Cardinality(s \ {x}) = Cardinality(s) - 1
      BY <1>2, <2>2, FS_RemoveElement
    <3> QED
      BY <3>1
  <2>4. h[s] = f[x] + h[s \ {x}]
    BY <1>1, <2>1, <2>2 DEF Sums
  <2>5. h[s \ {x}] = 0
    BY <1>4, <2>3
  <2> QED
    BY <2>4, <2>5
<1>5. Nat \subseteq H
  <2> HIDE DEF H
  <2> QED
    BY <1>3, <1>4, SetInduction
<1> QED
  BY <1>1, <1>2, <1>5

\* Two functions of which one is greater by 1 on T and equal elsewhere have
\* sums that differ by the size of T.
LEMMA SumStep ==
  ASSUME NEW S, IsFiniteSet(S), NEW T \in SUBSET S, NEW f, NEW g,
         \A p \in S : f[p] \in Nat /\ g[p] \in Nat,
         \A p \in T : g[p] = f[p] + 1,
         \A p \in S \ T : g[p] = f[p]
  PROVE  /\ SumOver(f, S) \in Nat
         /\ SumOver(g, S) = SumOver(f, S) + Cardinality(T)
<1>1. PICK hf : Sums(f, S, hf) /\ SumOver(f, S) = hf[S]
  BY SumTable
<1>2. PICK hg : Sums(g, S, hg) /\ SumOver(g, S) = hg[S]
  BY SumTable
<1> DEFINE Right(s) == hf[s] \in Nat /\ hg[s] = hf[s] + Cardinality(s \cap T)
           H == {n \in Nat : \A s \in SUBSET S : Cardinality(s) = n => Right(s)}
<1>3. \A s \in SUBSET S : IsFiniteSet(s) /\ Cardinality(s) \in Nat
  BY FS_Subset, FS_CardinalityType
<1>4. 0 \in H
  <2> SUFFICES ASSUME NEW s \in SUBSET S, Cardinality(s) = 0 PROVE Right(s)
    OBVIOUS
  <2>1. s = {}
    BY <1>3, FS_EmptySet
  <2>2. hf[s] = 0 /\ hg[s] = 0
    BY <1>1, <1>2, <2>1 DEF Sums
  <2>3. Cardinality(s \cap T) = 0
    BY <2>1, FS_EmptySet
  <2> QED
    BY <2>2, <2>3
<1>5. ASSUME NEW n \in Nat, n \in H
      PROVE  n + 1 \in H
  <2> SUFFICES ASSUME NEW s \in SUBSET S, Cardinality(s) = n + 1 PROVE Right(s)
    OBVIOUS
  <2>1. s # {}
    BY FS_EmptySet
  <2>2. PICK x \in s : x = CHOOSE y \in s : TRUE
    BY <2>1
  <2> DEFINE t == s \ {x}
  <2>3. t \in SUBSET S /\ Cardinality(t) = n
    <3>1. Cardinality(t) = Cardinality(s) - 1
      BY <1>3, <2>2, FS_RemoveElement
    <3> QED
      BY <3>1
  <2>4. Right(t)
    BY <1>5, <2>3
  <2>5. hf[s] = f[x] + hf[t]
    BY <1>1, <2>1, <2>2 DEF Sums
  <2>6. hg[s] = g[x] + hg[t]
    BY <1>2, <2>1, <2>2 DEF Sums
  <2>7. Cardinality(s \cap T) = Cardinality(t \cap T) + (IF x \in T THEN 1 ELSE 0)
    <3>1. IsFiniteSet(t \cap T) /\ x \notin t \cap T
      BY <1>3, FS_Subset
    <3>2. s \cap T = IF x \in T THEN (t \cap T) \cup {x} ELSE t \cap T
      OBVIOUS
    <3>3. Cardinality((t \cap T) \cup {x}) = Cardinality(t \cap T) + 1
      BY <3>1, FS_AddElement
    <3>4. Cardinality(t \cap T) \in Nat
      BY <3>1, FS_CardinalityType
    <3> QED
      BY <3>2, <3>3, <3>4
  <2>8. Cardinality(t \cap T) \in Nat
    BY <1>3, <2>3, FS_Subset, FS_CardinalityType
  <2>9. /\ f[x] \in Nat /\ g[x] \in Nat
        /\ g[x] = f[x] + (IF x \in T THEN 1 ELSE 0)
    OBVIOUS
  <2> HIDE DEF t
  <2> QED
    BY <2>4, <2>5, <2>6, <2>7, <2>8, <2>9
<1>6. Nat \subseteq H
  <2> HIDE DEF H
  <2> QED
    BY <1>4, <1>5, SetInduction
<1>7. Right(S)
  BY <1>3, <1>6
<1>8. S \cap T = T
  OBVIOUS
<1> QED
  BY <1>1, <1>2, <1>7, <1>8
===============================================================================
