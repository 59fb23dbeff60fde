----------------------------- MODULE FoldTheory -----------------------------
(***************************************************************************)
(* Folding a sequence from the left, and the values of a function over a   *)
(* finite set, for proofs about the readers.  A module that folds          *)
(* instantiates this one with its operator, its base and what it wants to  *)
(* keep true, and so has these theorems for its own fold:                  *)
(*   FoldOfNothing, FoldOfAppend   what the fold of a sequence computes    *)
(*   FoldKeeps                     induction over the sequence             *)
(*   OverAnyOrder                  any element of the set may be the last  *)
(*   OverRegroups                  group by group, then over the groups    *)
(*   SetInduction                  induction over the set                  *)
(* An instance, unlike a theorem with an operator as its parameter, asks   *)
(* nothing of the provers.                                                 *)
(***************************************************************************)
EXTENDS SequencesExt, FiniteSetTheorems, WellFoundedInduction, TLAPS

CONSTANTS
  Op(_, _),  \* Op(acc, x): the result so far and the next element
  Base,      \* the result for the empty sequence
  Inv(_, _)  \* Inv(s, acc): what holds of a sequence and its result

Fold(s) == FoldLeft(Op, Base, s)

(***************************************************************************)
(* FoldLeft is defined by recursion over sets of indices.                  *)
(***************************************************************************)

\* Each set of numbers has a least one.
LEMMA LeastNumber ==
  ASSUME NEW T \in SUBSET Nat, T # {}
  PROVE  \E m \in T : \A k \in T : ~(k < m)
<1>1. IsWellFoundedOn(OpToRel(<, Nat), Nat) BY NatLessThanWellFounded
<1>2. \E x \in T : \A y \in T : ~(<<y, x>> \in OpToRel(<, Nat))
  BY <1>1, WFMin
<1> QED BY <1>2 DEF OpToRel

\* g folds the first elements of s, up to n of them.
Unrolled(s, n, g) ==
  g = [t \in SUBSET (1 .. n) |->
         IF t = {} THEN Base ELSE Op(g[t \ {Max(t)}], s[Max(t)])]

\* The last index of a set of indices exists, and Max finds it.
LEMMA LastOf ==
  ASSUME NEW n \in Nat
  PROVE  /\ \A t \in SUBSET (1 .. n) : t # {} => Max(t) \in t /\ \A i \in t : i <= Max(t)
         /\ n # 0 => Max(1 .. n) = n
<1>1. ASSUME NEW t \in SUBSET (1 .. n), t # {}
      PROVE  \E x \in t : \A y \in t : x >= y
  <2> DEFINE T == {k \in Nat : \A y \in t : y <= k}
  <2>1. n \in T OBVIOUS
  <2>2. PICK m \in T : \A k \in T : ~(k < m) BY <2>1, LeastNumber
  <2>3. ASSUME m \notin t PROVE FALSE
    <3>1. \A y \in t : y <= m /\ y # m /\ y \in Nat BY <2>2, <2>3
    <3>2. m > 0
      <4>1. PICK y \in t : y \in 1 .. n BY <1>1
      <4> QED BY <4>1, <3>1
    <3>3. m - 1 \in T BY <3>1, <3>2
    <3> QED BY <2>2, <3>2, <3>3
  <2> QED BY <2>2, <2>3
<1>2. \A t \in SUBSET (1 .. n) : t # {} => Max(t) \in t /\ \A i \in t : Max(t) >= i
  BY <1>1 DEF Max
<1>3. ASSUME n # 0 PROVE Max(1 .. n) = n
  <2>1. Max(1 .. n) \in 1 .. n /\ \A i \in 1 .. n : Max(1 .. n) >= i BY <1>2, <1>3
  <2>2. n \in 1 .. n BY <1>3
  <2> QED BY <2>1, <2>2
<1> QED BY <1>2, <1>3

\* FoldLeft is one such g.
LEMMA FoldIsUnrolled ==
  ASSUME NEW S, NEW s \in Seq(S)
  PROVE  Fold(s) = (CHOOSE g : Unrolled(s, Len(s), g))[1 .. Len(s)]
<1>1. DOMAIN s = 1 .. Len(s) OBVIOUS
<1> QED BY <1>1 DEF Fold, FoldLeft, MapThenFoldSet, Unrolled

\* On beginnings of s, g goes one element at a time.
LEMMA UnrolledAt ==
  ASSUME NEW s, NEW n \in Nat, NEW g, Unrolled(s, n, g)
  PROVE  /\ g[1 .. 0] = Base
         /\ \A i \in 1 .. n : g[1 .. i] = Op(g[1 .. i - 1], s[i])
<1>1. \A t \in SUBSET (1 .. n) : g[t] = IF t = {} THEN Base ELSE Op(g[t \ {Max(t)}], s[Max(t)])
  BY DEF Unrolled
<1>2. 1 .. 0 = {} /\ 1 .. 0 \in SUBSET (1 .. n) OBVIOUS
<1>3. ASSUME NEW i \in 1 .. n PROVE g[1 .. i] = Op(g[1 .. i - 1], s[i])
  <2>1. Max(1 .. i) = i BY LastOf
  <2>2. 1 .. i # {} /\ (1 .. i) \ {i} = 1 .. i - 1 /\ 1 .. i \in SUBSET (1 .. n) OBVIOUS
  <2>3. g[1 .. i] = Op(g[(1 .. i) \ {Max(1 .. i)}], s[Max(1 .. i)]) BY <1>1, <2>2
  <2> QED BY <2>1, <2>2, <2>3
<1> QED BY <1>1, <1>2, <1>3

\* There is one for each length.
LEMMA FoldUnrolls ==
  ASSUME NEW s, NEW n \in Nat
  PROVE  \E g : Unrolled(s, n, g)
<1> DEFINE T == {k \in Nat : ~\E g : Unrolled(s, k, g)}
<1>1. SUFFICES ASSUME n \in T PROVE FALSE OBVIOUS
<1>2. PICK m \in T : \A k \in T : ~(k < m) BY <1>1, LeastNumber
<1>3. m # 0
  <2>1. Unrolled(s, 0, [t \in SUBSET (1 .. 0) |-> Base])
    <3>1. \A t \in SUBSET (1 .. 0) : t = {} OBVIOUS
    <3> QED BY <3>1 DEF Unrolled
  <2> QED BY <2>1, <1>2
<1>4. m - 1 \in Nat /\ m - 1 < m BY <1>2, <1>3
<1>5. PICK g : Unrolled(s, m - 1, g) BY <1>2, <1>4
<1> DEFINE h == [t \in SUBSET (1 .. m) |->
                   IF m \in t THEN Op(g[t \ {m}], s[m]) ELSE g[t]]
<1>6. ASSUME NEW t \in SUBSET (1 .. m)
      PROVE  h[t] = IF t = {} THEN Base ELSE Op(h[t \ {Max(t)}], s[Max(t)])
  <2>1. CASE m \in t
    <3>1. Max(t) = m
      <4>1. m \in Nat BY <1>2
      <4>2. Max(t) \in t /\ m <= Max(t) BY LastOf, <2>1, <4>1
      <4>3. Max(t) \in 1 .. m BY <4>2
      <4> HIDE DEF T, h
      <4> QED BY <4>1, <4>2, <4>3
    <3>2. t \ {m} \in SUBSET (1 .. m) /\ m \notin t \ {m} OBVIOUS
    <3>3. h[t \ {m}] = g[t \ {m}] BY <3>2
    <3> QED BY <2>1, <3>1, <3>3
  <2>2. CASE m \notin t
    <3>1. t \in SUBSET (1 .. m - 1)
      <4>1. ASSUME NEW i \in t PROVE i \in 1 .. m - 1 BY <2>2, <1>2
      <4> QED BY <4>1
    <3>2. g[t] = IF t = {} THEN Base ELSE Op(g[t \ {Max(t)}], s[Max(t)])
      BY <1>5, <3>1 DEF Unrolled
    <3>3. h[t] = g[t] /\ h[t \ {Max(t)}] = g[t \ {Max(t)}] BY <2>2
    <3> QED BY <3>2, <3>3
  <2> QED BY <2>1, <2>2
<1>7. Unrolled(s, m, h)
  <2> HIDE DEF h
  <2>1. h = [t \in SUBSET (1 .. m) |-> h[t]] BY DEF h
  <2> QED BY <1>6, <2>1 DEF Unrolled
<1> QED BY <1>2, <1>7

\* Two of them agree where their sequences do.
LEMMA FoldsAgree ==
  ASSUME NEW s, NEW z, NEW m \in Nat, NEW n \in Nat, NEW g, NEW h,
         Unrolled(s, m, g), Unrolled(z, n, h),
         NEW k \in Nat, k <= m, k <= n, \A i \in 1 .. k : s[i] = z[i]
  PROVE  g[1 .. k] = h[1 .. k]
<1> DEFINE T == {i \in Nat : i <= k /\ g[1 .. i] # h[1 .. i]}
<1>1. SUFFICES ASSUME k \in T PROVE FALSE OBVIOUS
<1>2. PICK i \in T : \A j \in T : ~(j < i) BY <1>1, LeastNumber
<1>4. CASE i = 0
  <2>1. g[1 .. 0] = Base /\ h[1 .. 0] = Base BY UnrolledAt
  <2> QED BY <1>2, <1>4, <2>1
<1>5. CASE i # 0
  <2>1. i \in 1 .. m /\ i \in 1 .. n /\ i \in 1 .. k BY <1>2, <1>5
  <2>2. g[1 .. i] = Op(g[1 .. i - 1], s[i]) BY <2>1, UnrolledAt
  <2>3. h[1 .. i] = Op(h[1 .. i - 1], z[i]) BY <2>1, UnrolledAt
  <2>4. g[1 .. i - 1] = h[1 .. i - 1] BY <1>2, <1>5
  <2> QED BY <1>2, <1>5, <2>2, <2>3, <2>4
<1> QED BY <1>4, <1>5

(***************************************************************************)
(* What the instances use.                                                 *)
(***************************************************************************)

\* The fold of the empty sequence is the base.
THEOREM FoldOfNothing == Fold(<< >>) = Base
<1>1. PICK g : Unrolled(<< >>, 0, g) BY FoldUnrolls
<1> DEFINE c == CHOOSE f : Unrolled(<< >>, 0, f)
<1>2. Unrolled(<< >>, 0, c) BY <1>1
<1>3. Fold(<< >>) = c[1 .. 0]
  <2>1. << >> \in Seq({}) /\ Len(<< >>) = 0 OBVIOUS
  <2> QED BY <2>1, FoldIsUnrolled
<1>4. 1 .. 0 = {} OBVIOUS
<1> HIDE DEF c
<1> QED BY <1>2, <1>3, <1>4 DEF Unrolled

\* Another element adds one application of the operator.
THEOREM FoldOfAppend ==
  ASSUME NEW S, NEW s \in Seq(S), NEW x \in S
  PROVE  Fold(Append(s, x)) = Op(Fold(s), x)
<1> DEFINE n == Len(s)
           m == Len(s) + 1
           z == Append(s, x)
           g == CHOOSE f : Unrolled(s, n, f)
           h == CHOOSE f : Unrolled(z, m, f)
<1>1. n \in Nat /\ z \in Seq(S) /\ Len(z) = m /\ z[m] = x
      /\ \A i \in 1 .. n : s[i] = z[i]
  OBVIOUS
<1>2. m \in Nat /\ m = n + 1 /\ m - 1 = n /\ m \in 1 .. m /\ n <= m OBVIOUS
<1>3. Fold(s) = g[1 .. n] /\ Fold(z) = h[1 .. m]
  BY <1>1, FoldIsUnrolled
<1> HIDE DEF n, z, m
<1>4. Unrolled(s, n, g)
  <2>1. PICK f : Unrolled(s, n, f) BY <1>1, FoldUnrolls
  <2> QED BY <2>1
<1>5. Unrolled(z, m, h)
  <2>1. PICK f : Unrolled(z, m, f) BY <1>2, FoldUnrolls
  <2> QED BY <2>1
<1> HIDE DEF g, h
<1>6. h[1 .. m] = Op(h[1 .. n], x) BY <1>1, <1>2, <1>5, UnrolledAt
<1>7. g[1 .. n] = h[1 .. n] BY <1>1, <1>2, <1>4, <1>5, FoldsAgree
<1> QED BY <1>3, <1>6, <1>7 DEF z

\* What holds of the base, and is kept by each element, holds of every fold.
THEOREM FoldKeeps ==
  ASSUME NEW S, Inv(<< >>, Base),
         \A s \in Seq(S), x \in S :
           Inv(s, Fold(s)) => Inv(Append(s, x), Op(Fold(s), x))
  PROVE  \A s \in Seq(S) : Inv(s, Fold(s))
<1> DEFINE F(s) == Fold(s)
           T == {n \in Nat : \E s \in Seq(S) : Len(s) = n /\ ~Inv(s, F(s))}
<1>0. \A s \in Seq(S), x \in S : Inv(s, F(s)) => Inv(Append(s, x), F(Append(s, x)))
  BY FoldOfAppend
<1>1. Inv(<< >>, F(<< >>)) BY FoldOfNothing
<1> HIDE DEF F
<1>2. ASSUME NEW z \in Seq(S), ~Inv(z, F(z)) PROVE FALSE
  <2>1. Len(z) \in T BY <1>2
  <2>2. PICK m \in T : \A k \in T : ~(k < m) BY <2>1, LeastNumber
  <2>3. PICK s \in Seq(S) : Len(s) = m /\ ~Inv(s, F(s)) BY <2>2
  <2>4. CASE m = 0 BY <1>1, <2>3, <2>4
  <2>5. CASE m # 0
    <3> DEFINE r == [i \in 1 .. m - 1 |-> s[i]]
    <3>1. r \in Seq(S) /\ Len(r) = m - 1 /\ s[m] \in S /\ s = Append(r, s[m]) BY <2>3, <2>5
    <3> HIDE DEF r
    <3>2. m - 1 \in Nat /\ m - 1 < m BY <2>2, <2>5
    <3>3. Inv(r, F(r)) BY <2>2, <3>1, <3>2
    <3> QED BY <1>0, <2>3, <3>1, <3>3
  <2> QED BY <2>4, <2>5
<1> QED BY <1>2 DEF F

(***************************************************************************)
(* Folding the values of a function over a finite set.                     *)
(***************************************************************************)

Over(S, w) == FoldFunctionOnSet(LAMBDA x, acc : Op(acc, x), Base, w, S)

Pick(t) == CHOOSE x \in t : TRUE

\* g folds w over each part of S.
Steps(S, w, g) ==
  g = [t \in SUBSET S |-> IF t = {} THEN Base ELSE Op(g[t \ {Pick(t)}], w[Pick(t)])]

\* FoldFunctionOnSet chooses one such g.
LEMMA OverIsSteps ==
  ASSUME NEW S, NEW w
  PROVE  Over(S, w) = (CHOOSE g : Steps(S, w, g))[S]
BY DEF Over, FoldFunctionOnSet, MapThenFoldSet, Steps, Pick

\* A part of a finite set without one element is one smaller.
LEMMA Smaller ==
  ASSUME NEW S, IsFiniteSet(S), NEW t \in SUBSET S, NEW x \in t
  PROVE  /\ IsFiniteSet(t) /\ t \ {x} \in SUBSET S
         /\ Cardinality(t) \in Nat /\ Cardinality(t \ {x}) \in Nat
         /\ Cardinality(t \ {x}) = Cardinality(t) - 1
<1>1. IsFiniteSet(t) BY FS_Subset
<1> QED BY <1>1, FS_RemoveElement, FS_CardinalityType

\* There is such a g.
LEMMA StepsExist ==
  ASSUME NEW S, IsFiniteSet(S), NEW w
  PROVE  \E g : Steps(S, w, g)
<1> DEFINE next(g, t) == IF t = {} THEN Base ELSE Op(g[t \ {Pick(t)}], w[Pick(t)])
           upto(n, g) == \A t \in SUBSET S : Cardinality(t) <= n => g[t] = next(g, t)
           T == {n \in Nat : ~\E g : upto(n, g)}
<1>1. ASSUME NEW n \in Nat PROVE \E g : upto(n, g)
  <2> SUFFICES ASSUME n \in T PROVE FALSE OBVIOUS
  <2>1. PICK m \in T : \A k \in T : ~(k < m) BY LeastNumber
  <2>2. m # 0
    <3> DEFINE g == [t \in SUBSET S |-> Base]
    <3>1. ASSUME NEW t \in SUBSET S, Cardinality(t) <= 0 PROVE t = {}
      <4>1. IsFiniteSet(t) BY FS_Subset
      <4>2. Cardinality(t) \in Nat BY <4>1, FS_CardinalityType
      <4> QED BY <3>1, <4>1, <4>2, FS_EmptySet
    <3>2. upto(0, g) BY <3>1
    <3> QED BY <2>1, <3>2
  <2>3. m - 1 \in Nat /\ m - 1 < m BY <2>1, <2>2
  <2>4. PICK g : upto(m - 1, g) BY <2>1, <2>3
  <2> DEFINE h == [t \in SUBSET S |-> next(g, t)]
  <2>5. ASSUME NEW t \in SUBSET S, Cardinality(t) <= m PROVE h[t] = next(h, t)
    <3>1. CASE t = {} BY <3>1
    <3>2. CASE t # {}
      <4> DEFINE u == t \ {Pick(t)}
      <4>1. Pick(t) \in t BY <3>2 DEF Pick
      <4>2. u \in SUBSET S /\ Cardinality(u) <= m - 1 BY <2>1, <2>5, <4>1, Smaller
      <4>3. h[u] = g[u] BY <2>4, <4>2
      <4>4. h[t] = next(g, t) OBVIOUS
      <4> HIDE DEF h
      <4> QED BY <3>2, <4>3, <4>4
    <3> QED BY <3>1, <3>2
  <2> HIDE DEF h
  <2>6. upto(m, h) BY <2>5
  <2> QED BY <2>1, <2>6
<1>2. PICK g : upto(Cardinality(S), g) BY <1>1, FS_CardinalityType
<1> DEFINE h == [t \in SUBSET S |-> g[t]]
<1>3. ASSUME NEW t \in SUBSET S PROVE h[t] = next(h, t)
  <2>1. Cardinality(t) <= Cardinality(S) BY FS_Subset
  <2>2. g[t] = next(g, t) BY <1>2, <2>1
  <2> QED BY <2>2
<1>4. h = [t \in SUBSET S |-> h[t]] OBVIOUS
<1> HIDE DEF h
<1>5. Steps(S, w, h) BY <1>3, <1>4 DEF Steps
<1> QED BY <1>5

\* Such functions agree on a set where their values do.
LEMMA StepsAgree ==
  ASSUME NEW S, NEW R, IsFiniteSet(S), IsFiniteSet(R), NEW w, NEW v, NEW g, NEW h,
         Steps(S, w, g), Steps(R, v, h),
         NEW A \in SUBSET S, A \in SUBSET R, \A x \in A : w[x] = v[x]
  PROVE  g[A] = h[A]
<1> DEFINE T == {n \in Nat : \E t \in SUBSET A : Cardinality(t) = n /\ g[t] # h[t]}
<1>0. IsFiniteSet(A) BY FS_Subset
<1>1. SUFFICES ASSUME g[A] # h[A] PROVE FALSE OBVIOUS
<1>2. Cardinality(A) \in T BY <1>0, <1>1, FS_CardinalityType
<1>3. PICK n \in T : \A k \in T : ~(k < n) BY <1>2, LeastNumber
<1>4. PICK t \in SUBSET A : Cardinality(t) = n /\ g[t] # h[t] BY <1>3
<1>5. /\ g[t] = IF t = {} THEN Base ELSE Op(g[t \ {Pick(t)}], w[Pick(t)])
      /\ h[t] = IF t = {} THEN Base ELSE Op(h[t \ {Pick(t)}], v[Pick(t)])
  BY <1>4 DEF Steps
<1>6. t # {} BY <1>4, <1>5
<1> DEFINE u == t \ {Pick(t)}
<1>7. Pick(t) \in t BY <1>6 DEF Pick
<1>8. u \in SUBSET A /\ Cardinality(u) \in Nat /\ Cardinality(u) = n - 1 BY <1>0, <1>4, <1>7, Smaller
<1>9. g[u] = h[u] BY <1>3, <1>8
<1> QED BY <1>4, <1>5, <1>6, <1>7, <1>9

\* Folding over no element gives the base, over others one of them more, and
\* two folds agree where their values do.
LEMMA OverUnfolds ==
  ASSUME NEW S, IsFiniteSet(S), NEW w
  PROVE  /\ S = {} => Over(S, w) = Base
         /\ S # {} => Over(S, w) = Op(Over(S \ {Pick(S)}, w), w[Pick(S)])
         /\ \A v : (\A x \in S : w[x] = v[x]) => Over(S, w) = Over(S, v)
<1> DEFINE c(R, u) == CHOOSE g : Steps(R, u, g)
<1>1. \A R, u : IsFiniteSet(R) => Steps(R, u, c(R, u)) /\ Over(R, u) = c(R, u)[R]
  BY StepsExist, OverIsSteps
<1> HIDE DEF c
<1>2. c(S, w)[S] = IF S = {} THEN Base ELSE Op(c(S, w)[S \ {Pick(S)}], w[Pick(S)])
  BY <1>1 DEF Steps
<1>3. ASSUME S # {} PROVE c(S, w)[S \ {Pick(S)}] = Over(S \ {Pick(S)}, w)
  <2> DEFINE R == S \ {Pick(S)}
  <2>1. IsFiniteSet(R) /\ R \in SUBSET S /\ R \in SUBSET R BY FS_Subset
  <2>2. Steps(S, w, c(S, w)) /\ Steps(R, w, c(R, w)) BY <1>1, <2>1
  <2>3. c(S, w)[R] = c(R, w)[R] BY <2>1, <2>2, StepsAgree
  <2> QED BY <1>1, <2>1, <2>3
<1>4. ASSUME NEW v, \A x \in S : w[x] = v[x] PROVE Over(S, w) = Over(S, v)
  <2>1. Steps(S, w, c(S, w)) /\ Steps(S, v, c(S, v)) BY <1>1
  <2>2. S \in SUBSET S OBVIOUS
  <2>3. c(S, w)[S] = c(S, v)[S] BY <1>4, <2>1, <2>2, StepsAgree
  <2> QED BY <1>1, <2>3
<1> QED BY <1>1, <1>2, <1>3, <1>4

\* What holds of no element, and is kept by each, holds of a finite set.
LEMMA SetInduction ==
  ASSUME NEW S, IsFiniteSet(S), NEW F, {} \in F,
         \A A \in SUBSET S : \A x \in A : A \ {x} \in F => A \in F
  PROVE  S \in F
<1> DEFINE T == {n \in Nat : \E t \in SUBSET S : Cardinality(t) = n /\ t \notin F}
<1>1. SUFFICES ASSUME S \notin F PROVE FALSE OBVIOUS
<1>2. Cardinality(S) \in T BY <1>1, FS_CardinalityType
<1>3. PICK n \in T : \A k \in T : ~(k < n) BY <1>2, LeastNumber
<1>4. PICK t \in SUBSET S : Cardinality(t) = n /\ t \notin F BY <1>3
<1>5. PICK x \in t : TRUE BY <1>4
<1>6. t \ {x} \in SUBSET S /\ Cardinality(t \ {x}) \in Nat /\ Cardinality(t \ {x}) < n
  BY <1>4, Smaller
<1>7. t \ {x} \in F BY <1>3, <1>6
<1> QED BY <1>4, <1>7

\* Op stays within M, and the order of the elements does not matter.
Commutes(M) ==
  /\ Base \in M
  /\ \A a, x \in M : Op(a, x) \in M
  /\ \A a, x, y \in M : Op(Op(a, x), y) = Op(Op(a, y), x)

\* Any element may be the last one.
THEOREM OverAnyOrder ==
  ASSUME NEW M, Commutes(M), NEW S, IsFiniteSet(S), NEW w, \A x \in S : w[x] \in M
  PROVE  /\ Over(S, w) \in M
         /\ \A x \in S : Over(S, w) = Op(Over(S \ {x}, w), w[x])
<1> DEFINE P(A) == /\ Over(A, w) \in M
                   /\ \A x \in A : Over(A, w) = Op(Over(A \ {x}, w), w[x])
           T == {n \in Nat : \E t \in SUBSET S : Cardinality(t) = n /\ ~P(t)}
<1>1. SUFFICES ASSUME ~P(S) PROVE FALSE OBVIOUS
<1>2. Cardinality(S) \in T BY <1>1, FS_CardinalityType
<1>3. PICK n \in T : \A k \in T : ~(k < n) BY <1>2, LeastNumber
<1>4. PICK t \in SUBSET S : Cardinality(t) = n /\ ~P(t) BY <1>3
<1>5. IsFiniteSet(t) BY FS_Subset
<1>6. t # {}
  <2>1. t = {} => P(t) BY <1>5, OverUnfolds DEF Commutes
  <2> QED BY <1>4, <2>1
<1> DEFINE c == Pick(t)
<1>7. c \in t BY <1>6 DEF Pick
<1>8. \A x \in t : t \ {x} \in SUBSET S /\ Cardinality(t \ {x}) \in Nat /\ Cardinality(t \ {x}) < n
  BY <1>4, Smaller
<1>9. \A x \in t : P(t \ {x}) BY <1>3, <1>8
<1>10. Over(t, w) = Op(Over(t \ {c}, w), w[c]) BY <1>5, <1>6, OverUnfolds
<1>a. /\ \A a, x \in M : Op(a, x) \in M
      /\ \A a, x, y \in M : Op(Op(a, x), y) = Op(Op(a, y), x)
      /\ \A x \in t : w[x] \in M
  BY DEF Commutes
<1> HIDE DEF c
<1>11. Over(t, w) \in M
  <2>1. Over(t \ {c}, w) \in M BY <1>7, <1>9
  <2>2. w[c] \in M BY <1>7, <1>a
  <2> HIDE DEF P
  <2>3. Op(Over(t \ {c}, w), w[c]) \in M BY <1>a, <2>1, <2>2
  <2> QED BY <1>10, <2>3
<1>12. ASSUME NEW x \in t PROVE Over(t, w) = Op(Over(t \ {x}, w), w[x])
  <2>1. CASE x = c BY <1>10, <2>1
  <2>2. CASE x # c
    <3> DEFINE r == Over((t \ {c}) \ {x}, w)
    <3>1. (t \ {c}) \ {x} = (t \ {x}) \ {c} OBVIOUS
    <3>2. Over(t \ {c}, w) = Op(r, w[x]) BY <1>7, <1>9, <2>2
    <3>3. Over(t \ {x}, w) = Op(r, w[c]) BY <1>7, <1>9, <2>2, <3>1
    <3>4. r \in M
      <4>1. (t \ {c}) \ {x} \in SUBSET S /\ Cardinality((t \ {c}) \ {x}) \in Nat
            /\ Cardinality((t \ {c}) \ {x}) < n
        <5>1. t \ {c} \in SUBSET S /\ x \in t \ {c} BY <2>2
        <5>2. Cardinality(t \ {c}) \in Nat /\ Cardinality(t \ {c}) < n /\ n \in Nat BY <1>3, <1>7, <1>8
        <5>3. /\ (t \ {c}) \ {x} \in SUBSET S /\ Cardinality((t \ {c}) \ {x}) \in Nat
              /\ Cardinality((t \ {c}) \ {x}) = Cardinality(t \ {c}) - 1
          BY <5>1, Smaller
        <5> QED BY <5>2, <5>3
      <4>2. P((t \ {c}) \ {x}) BY <1>3, <4>1
      <4> QED BY <4>2
    <3>5. w[x] \in M /\ w[c] \in M BY <1>7, <1>a
    <3> HIDE DEF r, P
    <3>6. Op(Op(r, w[x]), w[c]) = Op(Op(r, w[c]), w[x]) BY <1>a, <3>4, <3>5
    <3> QED BY <1>10, <3>2, <3>3, <3>6
  <2> QED BY <2>1, <2>2
<1> QED BY <1>4, <1>11, <1>12

\* Op adds: it ignores the base and may be grouped.
Adds(M) ==
  /\ Commutes(M)
  /\ \A a \in M : Op(a, Base) = a
  /\ \A a, x, y \in M : Op(Op(a, x), y) = Op(a, Op(x, y))

\* Nothing but bases gives the base.
LEMMA OverBases ==
  ASSUME NEW M, Adds(M), NEW S, IsFiniteSet(S), NEW w, \A x \in S : w[x] = Base
  PROVE  Over(S, w) = Base
<1> DEFINE F == {A \in SUBSET S : Over(A, w) = Base}
<1>1. Base \in M /\ Op(Base, Base) = Base /\ Commutes(M) BY DEF Adds, Commutes
<1>2. {} \in F BY FS_EmptySet, OverUnfolds
<1>3. ASSUME NEW A \in SUBSET S, NEW x \in A, A \ {x} \in F PROVE A \in F
  <2>1. IsFiniteSet(A) /\ \A y \in A : w[y] \in M BY <1>1, FS_Subset
  <2>2. Over(A, w) = Op(Over(A \ {x}, w), w[x]) BY <1>1, <2>1, OverAnyOrder
  <2> QED BY <1>1, <1>3, <2>2
<1> HIDE DEF F
<1>4. S \in F BY <1>2, <1>3, SetInduction
<1> QED BY <1>4 DEF F

\* Folding group by group, and then the groups, gives the fold of the whole.
THEOREM OverRegroups ==
  ASSUME NEW M, Adds(M), NEW S, IsFiniteSet(S), NEW w, \A x \in S : w[x] \in M,
         NEW G, IsFiniteSet(G), NEW k, \A x \in S : k[x] \in G
  PROVE  Over(S, w) = Over(G, [g \in G |-> Over({x \in S : k[x] = g}, w)])
<1> DEFINE of(A, g) == {x \in A : k[x] = g}
           sums(A) == [g \in G |-> Over(of(A, g), w)]
           F == {A \in SUBSET S : Over(A, w) = Over(G, sums(A))}
<1>1. /\ Commutes(M) /\ Base \in M
      /\ \A a, x, y \in M : Op(Op(a, x), y) = Op(a, Op(x, y))
  BY DEF Adds, Commutes
<1>2. \A A \in SUBSET S : \A g : IsFiniteSet(of(A, g)) /\ of(A, g) \in SUBSET S
  <2> SUFFICES ASSUME NEW A \in SUBSET S, NEW g
               PROVE  IsFiniteSet(of(A, g)) /\ of(A, g) \in SUBSET S
    OBVIOUS
  <2>1. of(A, g) \in SUBSET S OBVIOUS
  <2> QED BY <2>1, FS_Subset
<1>3. \A A \in SUBSET S : Over(A, w) \in M /\ \A x \in A : Over(A, w) = Op(Over(A \ {x}, w), w[x])
  <2> SUFFICES ASSUME NEW A \in SUBSET S
               PROVE  Over(A, w) \in M /\ \A x \in A : Over(A, w) = Op(Over(A \ {x}, w), w[x])
    OBVIOUS
  <2>1. IsFiniteSet(A) /\ \A x \in A : w[x] \in M BY FS_Subset
  <2> QED BY <1>1, <2>1, OverAnyOrder
<1> HIDE DEF of
<1>4. {} \in F
  <2>1. \A g \in G : of({}, g) = {} BY DEF of
  <2>2. Over({}, w) = Base BY FS_EmptySet, OverUnfolds
  <2>3. \A g \in G : sums({})[g] = Base BY <2>1, <2>2
  <2> HIDE DEF sums
  <2>4. Over(G, sums({})) = Base BY <2>3, OverBases
  <2> QED BY <2>2, <2>4
<1>5. ASSUME NEW A \in SUBSET S, NEW x \in A, A \ {x} \in F PROVE A \in F
  <2> DEFINE B == A \ {x}
             g == k[x]
  <2>1. B \in SUBSET S /\ g \in G /\ w[x] \in M OBVIOUS
  <2>2. ASSUME NEW h \in G, h # g PROVE of(A, h) = of(B, h) BY <2>2 DEF of
  <2>3. x \in of(A, g) /\ of(A, g) \ {x} = of(B, g) BY DEF of
  <2>4. \A h \in G : h # g => sums(A)[h] = sums(B)[h] BY <2>2
  <2>5. sums(A)[g] = Op(sums(B)[g], w[x])
    <3>1. Over(of(A, g), w) = Op(Over(of(A, g) \ {x}, w), w[x]) BY <1>2, <1>3, <2>3
    <3> QED BY <2>1, <2>3, <3>1
  <2>6. \A h \in G : sums(A)[h] \in M /\ sums(B)[h] \in M BY <1>2, <1>3, <2>1
  <2>7. Over(A, w) = Op(Over(B, w), w[x]) BY <1>3
  <2>8. Over(B, w) = Over(G, sums(B)) BY <1>5
  <2> HIDE DEF sums, B, g
  <2>a. ASSUME NEW v, \A h \in G : v[h] \in M PROVE Over(G, v) = Op(Over(G \ {g}, v), v[g])
    <3>1. \A h \in G : Over(G, v) = Op(Over(G \ {h}, v), v[h]) BY <1>1, <2>a, OverAnyOrder
    <3> QED BY <2>1, <3>1
  <2>9. Over(G, sums(A)) = Op(Over(G \ {g}, sums(A)), sums(A)[g]) BY <2>6, <2>a
  <2>10. Over(G, sums(B)) = Op(Over(G \ {g}, sums(B)), sums(B)[g]) BY <2>6, <2>a
  <2>11. Over(G \ {g}, sums(A)) = Over(G \ {g}, sums(B)) /\ Over(G \ {g}, sums(B)) \in M
    <3>1. IsFiniteSet(G \ {g}) BY FS_Subset
    <3>2. Over(G \ {g}, sums(A)) = Over(G \ {g}, sums(B)) BY <2>4, <3>1, OverUnfolds
    <3>3. \A h \in G \ {g} : sums(B)[h] \in M BY <2>6
    <3>4. Over(G \ {g}, sums(B)) \in M BY <1>1, <3>1, <3>3, OverAnyOrder
    <3> QED BY <3>2, <3>4
  <2> DEFINE rest == Over(G \ {g}, sums(B))
             one == sums(B)[g]
  <2>12. Op(Op(rest, one), w[x]) = Op(rest, Op(one, w[x])) BY <1>1, <2>1, <2>6, <2>11
  <2>13. Over(A, w) = Over(G, sums(A)) BY <2>5, <2>7, <2>8, <2>9, <2>10, <2>11, <2>12
  <2> QED BY <2>13
<1> HIDE DEF F
<1>6. S \in F BY <1>4, <1>5, SetInduction
<1> QED BY <1>6 DEF F, of

=============================================================================
