----------------------------- MODULE YamlProofs -----------------------------
(***************************************************************************)
(* The configuration reader loses nothing, whatever the file's length and  *)
(* nesting: proof by induction over the lines, from the last to the first. *)
(***************************************************************************)
EXTENDS Readers, FiniteSetTheorems, SequenceTheorems, TLAPS

(***************************************************************************)
(* Outlines.                                                               *)
(***************************************************************************)

\* What stands at a place, and where.
Labels == {"-"} \cup UNION {{l.key, l.value} : l \in YamlLines}
Places == Nat \X Labels

\* The document that the columns of these tokens show.
OutlineOf(ts) == [i \in DOMAIN ts |-> <<Depth(ts, i), ts[i][2]>>]

\* The tokens the i-th one is below.
Above(ts, i) == {j \in 1 .. i - 1 : \A k \in j + 1 .. i : ts[k][1] > ts[j][1]}

\* The depth of a token is a number.
LEMMA DepthIsAbove ==
  ASSUME NEW ts, NEW i \in Nat
  PROVE  /\ Depth(ts, i) = Cardinality(Above(ts, i))
         /\ IsFiniteSet(Above(ts, i))
         /\ Depth(ts, i) \in Nat
<1>1. IsFiniteSet(1 .. i - 1) BY FS_Interval
<1>2. Above(ts, i) \subseteq 1 .. i - 1 BY DEF Above
<1>3. IsFiniteSet(Above(ts, i)) BY <1>1, <1>2, FS_Subset
<1> QED BY <1>3, FS_CardinalityType DEF Depth, Above

\* An outline has as many places as there are tokens.
LEMMA OutlineIsPlaces ==
  ASSUME NEW ts \in Seq(Places)
  PROVE  OutlineOf(ts) \in Seq(Places) /\ Len(OutlineOf(ts)) = Len(ts)
<1>1. \A i \in 1 .. Len(ts) : <<Depth(ts, i), ts[i][2]>> \in Places
  BY DepthIsAbove DEF Places
<1>2. DOMAIN ts = 1 .. Len(ts) OBVIOUS
<1> QED BY <1>1, <1>2 DEF OutlineOf

\* Sequences joined: the places of the second come after those of the first.
LEMMA Joined ==
  ASSUME NEW S, NEW a \in Seq(S), NEW b \in Seq(S)
  PROVE  /\ a \o b \in Seq(S) /\ Len(a \o b) = Len(a) + Len(b)
         /\ Len(a) \in Nat /\ Len(b) \in Nat
         /\ \A i \in 1 .. Len(a) : (a \o b)[i] = a[i]
         /\ \A i \in 1 .. Len(b) : (a \o b)[Len(a) + i] = b[i]
         /\ \A i \in 1 .. Len(a) + Len(b) :
              i \in 1 .. Len(a) \/ \E j \in 1 .. Len(b) : i = Len(a) + j
<1>1. /\ a \o b \in Seq(S) /\ Len(a \o b) = Len(a) + Len(b)
      /\ \A i \in 1 .. Len(a) + Len(b) :
           (a \o b)[i] = IF i <= Len(a) THEN a[i] ELSE b[i - Len(a)]
  BY ConcatProperties
<1>2. Len(a) \in Nat /\ Len(b) \in Nat OBVIOUS
<1>3. ASSUME NEW i \in 1 .. Len(a) + Len(b), i \notin 1 .. Len(a)
      PROVE  i - Len(a) \in 1 .. Len(b) /\ i = Len(a) + (i - Len(a))
  BY <1>2, <1>3
<1>4. \A i \in 1 .. Len(a) : i \in 1 .. Len(a) + Len(b) /\ i <= Len(a) BY <1>2
<1>5. \A i \in 1 .. Len(b) : /\ Len(a) + i \in 1 .. Len(a) + Len(b) /\ ~(Len(a) + i <= Len(a))
                             /\ Len(a) + i - Len(a) = i
  BY <1>2
<1> QED BY <1>1, <1>2, <1>3, <1>4, <1>5

\* What stands before a token at its own column or to the left of it is not
\* part of what follows.
LEMMA DepthAfter ==
  ASSUME NEW a \in Seq(Places), NEW b \in Seq(Places), NEW i \in 1 .. Len(b),
         \A k \in 1 .. Len(a) : a[k][1] >= b[1][1]
  PROVE  Depth(a \o b, Len(a) + i) = Depth(b, i)
<1> DEFINE n == Len(a)
           s == a \o b
           f == [j \in Above(b, i) |-> n + j]
<1>1. /\ n \in Nat /\ Len(b) \in Nat
      /\ \A k \in 1 .. n : s[k] = a[k]
      /\ \A k \in 1 .. Len(b) : s[n + k] = b[k]
  BY Joined
<1>2. /\ \A k \in 1 .. n : a[k][1] \in Nat
      /\ \A k \in 1 .. Len(b) : b[k][1] \in Nat
  BY DEF Places
<1> HIDE DEF n, s
<1>3. ASSUME NEW j \in Above(s, n + i) PROVE \E k \in Above(b, i) : j = n + k
  <2>1. /\ j \in 1 .. n + i - 1 /\ j \in Nat /\ i \in Nat
        /\ \A k \in j + 1 .. n + i : s[k][1] > s[j][1]
    BY <1>1 DEF Above
  <2>2. CASE j <= n
    <3>1. j \in 1 .. n /\ n + 1 \in j + 1 .. n + i BY <1>1, <2>1, <2>2
    <3>2. s[n + 1][1] > s[j][1] BY <2>1, <3>1
    <3>3. s[n + 1] = b[1] /\ s[j] = a[j] BY <1>1, <3>1
    <3> QED BY <1>2, <3>1, <3>2, <3>3 DEF n
  <2>3. CASE j > n
    <3>1. j - n \in 1 .. i - 1 /\ j = n + (j - n) BY <1>1, <2>1, <2>3
    <3>2. ASSUME NEW k \in (j - n) + 1 .. i PROVE b[k][1] > b[j - n][1]
      <4>1. n + k \in j + 1 .. n + i /\ k \in 1 .. Len(b) /\ j - n \in 1 .. Len(b)
        BY <1>1, <2>1, <3>1, <3>2
      <4>2. s[n + k][1] > s[j][1] BY <2>1, <4>1
      <4> QED BY <1>1, <3>1, <4>1, <4>2
    <3> QED BY <3>1, <3>2 DEF Above
  <2> QED BY <1>1, <2>1, <2>2, <2>3
<1>4. ASSUME NEW j \in Above(b, i) PROVE n + j \in Above(s, n + i)
  <2>1. j \in 1 .. i - 1 /\ \A k \in j + 1 .. i : b[k][1] > b[j][1] BY DEF Above
  <2>2. ASSUME NEW k \in n + j + 1 .. n + i PROVE s[k][1] > s[n + j][1]
    <3>1. k - n \in j + 1 .. i /\ k = n + (k - n) /\ j \in 1 .. Len(b) /\ k - n \in 1 .. Len(b)
      BY <1>1, <2>1, <2>2
    <3> QED BY <1>1, <2>1, <3>1
  <2> QED BY <1>1, <2>1, <2>2 DEF Above
<1>5. f \in Bijection(Above(b, i), Above(s, n + i))
  <2>1. f \in [Above(b, i) -> Above(s, n + i)] BY <1>4
  <2>2. \A j, k \in Above(b, i) : f[j] = f[k] => j = k
    BY <1>1 DEF Above
  <2>3. \A j \in Above(s, n + i) : \E k \in Above(b, i) : f[k] = j BY <1>3
  <2> QED BY <2>1, <2>2, <2>3 DEF Bijection, Injection, Surjection, IsInjective
<1>6. Cardinality(Above(s, n + i)) = Cardinality(Above(b, i))
  BY <1>5, DepthIsAbove, FS_Bijection DEF ExistsBijection
<1>7. i \in Nat /\ n + i \in Nat BY <1>1
<1> QED BY <1>6, <1>7, DepthIsAbove DEF n, s

\* What follows a token does not move it.
LEMMA DepthBefore ==
  ASSUME NEW a \in Seq(Places), NEW b \in Seq(Places), NEW i \in 1 .. Len(a)
  PROVE  Depth(a \o b, i) = Depth(a, i)
<1>1. \A k \in 1 .. i : (a \o b)[k] = a[k] BY Joined
<1>2. i \in Nat /\ \A j \in 1 .. i - 1 : j \in 1 .. i /\ \A k \in j + 1 .. i : k \in 1 .. i OBVIOUS
<1> DEFINE s == a \o b
<1> HIDE DEF s
<1>3. \A k \in 1 .. i : s[k] = a[k] BY <1>1 DEF s
<1>4. Above(s, i) = Above(a, i) BY <1>2, <1>3 DEF Above
<1> QED BY <1>2, <1>4, DepthIsAbove DEF s

\* A token to the left of all that follows has them below it.
LEMMA DepthBelow ==
  ASSUME NEW t \in Places, NEW b \in Seq(Places), \A k \in 1 .. Len(b) : b[k][1] > t[1],
         NEW i \in 1 .. Len(b)
  PROVE  /\ Depth(<<t>> \o b, 1) = 0
         /\ Depth(<<t>> \o b, 1 + i) = Depth(b, i) + 1
<1> DEFINE s == <<t>> \o b
           up == {1 + j : j \in Above(b, i)}
           f == [j \in Above(b, i) |-> 1 + j]
<1>1. /\ s[1] = t /\ \A k \in 1 .. Len(b) : s[1 + k] = b[k]
      /\ Len(b) \in Nat /\ i \in Nat
  <2>1. <<t>> \in Seq(Places) /\ Len(<<t>>) = 1 /\ <<t>>[1] = t /\ 1 \in 1 .. 1 OBVIOUS
  <2> QED BY <2>1, Joined
<1>2. t[1] \in Nat /\ \A k \in 1 .. Len(b) : b[k][1] \in Nat BY DEF Places
<1> HIDE DEF s
<1>3. Above(s, 1) = {} BY DEF Above
<1>4. 1 \in Above(s, 1 + i)
  <2>1. 1 \in 1 .. (1 + i) - 1 BY <1>1
  <2>2. ASSUME NEW k \in 1 + 1 .. 1 + i PROVE s[k][1] > s[1][1]
    <3>1. k - 1 \in 1 .. Len(b) /\ k = 1 + (k - 1) BY <1>1, <2>2
    <3> QED BY <1>1, <3>1
  <2> QED BY <2>1, <2>2 DEF Above
<1>5. ASSUME NEW j \in Above(s, 1 + i), j # 1 PROVE \E k \in Above(b, i) : j = 1 + k
  <2>1. /\ j \in 1 .. (1 + i) - 1 /\ j \in Nat
        /\ \A k \in j + 1 .. 1 + i : s[k][1] > s[j][1]
    BY <1>1 DEF Above
  <2>2. j - 1 \in 1 .. i - 1 /\ j = 1 + (j - 1) BY <1>1, <1>5, <2>1
  <2>3. ASSUME NEW k \in (j - 1) + 1 .. i PROVE b[k][1] > b[j - 1][1]
    <3>1. 1 + k \in j + 1 .. 1 + i /\ k \in 1 .. Len(b) /\ j - 1 \in 1 .. Len(b)
      BY <1>1, <2>1, <2>2, <2>3
    <3>2. s[1 + k][1] > s[j][1] BY <2>1, <3>1
    <3> QED BY <1>1, <2>2, <3>1, <3>2
  <2> QED BY <2>2, <2>3 DEF Above
<1>6. ASSUME NEW j \in Above(b, i) PROVE 1 + j \in Above(s, 1 + i) /\ 1 + j # 1
  <2>1. j \in 1 .. i - 1 /\ j \in Nat /\ \A k \in j + 1 .. i : b[k][1] > b[j][1]
    BY <1>1 DEF Above
  <2>2. ASSUME NEW k \in 1 + j + 1 .. 1 + i PROVE s[k][1] > s[1 + j][1]
    <3>1. k - 1 \in j + 1 .. i /\ k = 1 + (k - 1) /\ j \in 1 .. Len(b) /\ k - 1 \in 1 .. Len(b)
      BY <1>1, <2>1, <2>2
    <3> QED BY <1>1, <2>1, <3>1
  <2> QED BY <1>1, <2>1, <2>2 DEF Above
<1>7. Above(s, 1 + i) = up \cup {1} /\ 1 \notin up BY <1>4, <1>5, <1>6
<1>8. f \in Bijection(Above(b, i), up)
  <2>1. f \in [Above(b, i) -> up] OBVIOUS
  <2>2. \A j, k \in Above(b, i) : f[j] = f[k] => j = k BY <1>1 DEF Above
  <2>3. \A j \in up : \E k \in Above(b, i) : f[k] = j OBVIOUS
  <2> QED BY <2>1, <2>2, <2>3 DEF Bijection, Injection, Surjection, IsInjective
<1>9. IsFiniteSet(up) /\ Cardinality(up) = Cardinality(Above(b, i))
  BY <1>1, <1>8, DepthIsAbove, FS_Bijection DEF ExistsBijection
<1> HIDE DEF up
<1>10. Cardinality(Above(s, 1 + i)) = Cardinality(Above(b, i)) + 1
  BY <1>7, <1>9, FS_AddElement
<1>11. Depth(s, 1) = 0 BY <1>3, DepthIsAbove, FS_EmptySet
<1> QED BY <1>1, <1>10, <1>11, DepthIsAbove DEF s

\* A token alone is at the top.
LEMMA DepthAlone == \A ts : Depth(ts, 1) = 0
<1>1. ASSUME NEW ts PROVE Depth(ts, 1) = 0
  <2>1. Above(ts, 1) = {} BY DEF Above
  <2> QED BY <2>1, DepthIsAbove, FS_EmptySet
<1> QED BY <1>1

\* Outlines one after the other.
LEMMA OutlineBeside ==
  ASSUME NEW a \in Seq(Places), NEW b \in Seq(Places),
         b = <<>> \/ \A k \in 1 .. Len(a) : a[k][1] >= b[1][1]
  PROVE  OutlineOf(a \o b) = OutlineOf(a) \o OutlineOf(b)
<1> DEFINE s == a \o b
           u == OutlineOf(a) \o OutlineOf(b)
<1>1. /\ OutlineOf(s) \in Seq(Places) /\ Len(OutlineOf(s)) = Len(s)
      /\ OutlineOf(a) \in Seq(Places) /\ Len(OutlineOf(a)) = Len(a)
      /\ OutlineOf(b) \in Seq(Places) /\ Len(OutlineOf(b)) = Len(b)
  BY OutlineIsPlaces, Joined
<1>2. /\ u \in Seq(Places) /\ Len(u) = Len(a) + Len(b)
      /\ \A i \in 1 .. Len(a) : u[i] = OutlineOf(a)[i]
      /\ \A i \in 1 .. Len(b) : u[Len(a) + i] = OutlineOf(b)[i]
  <2> DEFINE oa == OutlineOf(a)
             ob == OutlineOf(b)
  <2>1. /\ oa \in Seq(Places) /\ Len(oa) = Len(a)
        /\ ob \in Seq(Places) /\ Len(ob) = Len(b)
    BY <1>1
  <2> HIDE DEF oa, ob
  <2>2. /\ oa \o ob \in Seq(Places) /\ Len(oa \o ob) = Len(oa) + Len(ob)
        /\ \A i \in 1 .. Len(oa) : (oa \o ob)[i] = oa[i]
        /\ \A i \in 1 .. Len(ob) : (oa \o ob)[Len(oa) + i] = ob[i]
    <3>1. oa \in Seq(Places) /\ ob \in Seq(Places) BY <2>1
    <3> QED BY <3>1, Joined
  <2> QED BY <2>1, <2>2 DEF oa, ob
<1>3. /\ s \in Seq(Places) /\ Len(s) = Len(a) + Len(b)
      /\ \A i \in 1 .. Len(a) : s[i] = a[i]
      /\ \A i \in 1 .. Len(b) : s[Len(a) + i] = b[i]
      /\ \A i \in 1 .. Len(a) + Len(b) :
           i \in 1 .. Len(a) \/ \E j \in 1 .. Len(b) : i = Len(a) + j
      /\ Len(a) \in Nat /\ Len(b) \in Nat
  BY Joined
<1>4. ASSUME NEW i \in 1 .. Len(a) PROVE OutlineOf(s)[i] = u[i]
  <2>1. i \in DOMAIN s /\ i \in DOMAIN a BY <1>3
  <2> QED BY <1>2, <1>3, <2>1, DepthBefore DEF OutlineOf
<1>5. ASSUME NEW i \in 1 .. Len(b) PROVE OutlineOf(s)[Len(a) + i] = u[Len(a) + i]
  <2>1. Len(a) + i \in DOMAIN s /\ i \in DOMAIN b BY <1>3
  <2>2. b # <<>> BY <1>5
  <2>3. Depth(s, Len(a) + i) = Depth(b, i) BY <2>2, DepthAfter
  <2> QED BY <1>2, <1>3, <2>1, <2>3 DEF OutlineOf
<1>6. \A i \in 1 .. Len(s) : OutlineOf(s)[i] = u[i] BY <1>3, <1>4, <1>5
<1> HIDE DEF s, u
<1>7. OutlineOf(s) = u BY <1>1, <1>2, <1>3, <1>6, SeqEqual
<1> QED BY <1>7 DEF s, u

\* A key or dash with what is below it, place by place.
LEMMA UnderIsPlaces ==
  ASSUME NEW label \in Labels, NEW node \in Seq(Places)
  PROVE  /\ Yaml!Under(label, node) \in Seq(Places)
         /\ Len(Yaml!Under(label, node)) = 1 + Len(node)
         /\ Yaml!Under(label, node)[1] = <<0, label>>
         /\ \A i \in 1 .. Len(node) :
              Yaml!Under(label, node)[1 + i] = <<node[i][1] + 1, node[i][2]>>
<1> DEFINE first == <<<<0, label>>>>
           below == [n \in DOMAIN node |-> <<node[n][1] + 1, node[n][2]>>]
<1>1. first \in Seq(Places) /\ Len(first) = 1 /\ first[1] = <<0, label>> BY DEF Places
<1>2. /\ DOMAIN node = 1 .. Len(node) /\ Len(node) \in Nat
      /\ \A n \in 1 .. Len(node) : <<node[n][1] + 1, node[n][2]>> \in Places
  BY DEF Places
<1>3. /\ below \in Seq(Places) /\ Len(below) = Len(node)
      /\ \A n \in 1 .. Len(node) : below[n] = <<node[n][1] + 1, node[n][2]>>
  BY <1>2
<1> HIDE DEF first, below
<1> QED BY <1>1, <1>3, Joined DEF Yaml!Under, first, below

\* The outline of a block below its key or dash.
LEMMA OutlineBelow ==
  ASSUME NEW t \in Places, NEW b \in Seq(Places), \A k \in 1 .. Len(b) : b[k][1] > t[1]
  PROVE  OutlineOf(<<t>> \o b) = Yaml!Under(t[2], OutlineOf(b))
<1> DEFINE s == <<t>> \o b
           u == Yaml!Under(t[2], OutlineOf(b))
<1>1. /\ s \in Seq(Places) /\ Len(s) = 1 + Len(b) /\ Len(b) \in Nat
      /\ s[1] = t /\ \A k \in 1 .. Len(b) : s[1 + k] = b[k]
  <2>1. <<t>> \in Seq(Places) /\ Len(<<t>>) = 1 /\ <<t>>[1] = t /\ 1 \in 1 .. 1 OBVIOUS
  <2> QED BY <2>1, Joined
<1>2. /\ OutlineOf(s) \in Seq(Places) /\ Len(OutlineOf(s)) = Len(s)
      /\ OutlineOf(b) \in Seq(Places) /\ Len(OutlineOf(b)) = Len(b)
  BY <1>1, OutlineIsPlaces
<1>3. t[2] \in Labels BY DEF Places
<1>4. /\ u \in Seq(Places) /\ Len(u) = 1 + Len(b) /\ u[1] = <<0, t[2]>>
      /\ \A k \in 1 .. Len(b) : u[1 + k] = <<OutlineOf(b)[k][1] + 1, OutlineOf(b)[k][2]>>
  BY <1>2, <1>3, UnderIsPlaces
<1>5. OutlineOf(s)[1] = u[1]
  <2>1. 1 \in DOMAIN s BY <1>1
  <2> QED BY <1>1, <1>4, <2>1, DepthAlone DEF OutlineOf
<1>6. ASSUME NEW k \in 1 .. Len(b) PROVE OutlineOf(s)[1 + k] = u[1 + k]
  <2>1. 1 + k \in DOMAIN s /\ k \in DOMAIN b BY <1>1
  <2>2. Depth(s, 1 + k) = Depth(b, k) + 1 BY DepthBelow
  <2>3. OutlineOf(b)[k] = <<Depth(b, k), b[k][2]>> BY <2>1 DEF OutlineOf
  <2>4. OutlineOf(s)[1 + k] = <<Depth(s, 1 + k), s[1 + k][2]>> BY <2>1 DEF OutlineOf
  <2> HIDE DEF s, u
  <2> QED BY <1>1, <1>4, <2>2, <2>3, <2>4
<1>7. ASSUME NEW i \in 1 .. Len(s) PROVE OutlineOf(s)[i] = u[i]
  <2>1. CASE i = 1 BY <1>5, <2>1
  <2>2. CASE i # 1
    <3>1. i - 1 \in 1 .. Len(b) /\ i = 1 + (i - 1) BY <1>1, <2>2
    <3> HIDE DEF s, u
    <3> QED BY <1>6, <3>1
  <2> QED BY <2>1, <2>2
<1> HIDE DEF s, u
<1>8. OutlineOf(s) = u BY <1>1, <1>2, <1>4, <1>7, SeqEqual
<1> QED BY <1>8 DEF s, u

(***************************************************************************)
(* No key twice.                                                           *)
(***************************************************************************)

LEMMA TwinsUnder ==
  ASSUME NEW label \in Labels, NEW node \in Seq(Places), ~Twins(node)
  PROVE  ~Twins(Yaml!Under(label, node))
<1> DEFINE u == Yaml!Under(label, node)
<1>1. /\ u \in Seq(Places) /\ Len(u) = 1 + Len(node) /\ Len(node) \in Nat
      /\ u[1] = <<0, label>>
      /\ \A i \in 1 .. Len(node) : u[1 + i] = <<node[i][1] + 1, node[i][2]>>
  BY UnderIsPlaces
<1>2. \A i \in 1 .. Len(node) : node[i][1] \in Nat /\ node[i] = <<node[i][1], node[i][2]>>
  BY DEF Places
<1> HIDE DEF u
<1>3. DOMAIN u = 1 .. 1 + Len(node) /\ DOMAIN node = 1 .. Len(node) BY <1>1
<1>4. SUFFICES ASSUME NEW i \in DOMAIN u, NEW j \in DOMAIN u, i < j, u[i] = u[j], u[i][2] # "-",
                      \A k \in i .. j : u[k][1] >= u[i][1]
               PROVE  FALSE
  BY DEF Twins, u
<1>5. /\ j - 1 \in 1 .. Len(node) /\ j = 1 + (j - 1) /\ i \in Nat /\ j \in Nat
      /\ u[j] = <<node[j - 1][1] + 1, node[j - 1][2]>>
  BY <1>1, <1>3, <1>4
<1>6. i # 1
  <2>1. u[j][1] = node[j - 1][1] + 1 /\ node[j - 1][1] \in Nat BY <1>2, <1>5
  <2>2. u[1][1] = 0 BY <1>1
  <2> QED BY <1>4, <2>1, <2>2
<1>7. /\ i - 1 \in 1 .. Len(node) /\ i = 1 + (i - 1)
      /\ u[i] = <<node[i - 1][1] + 1, node[i - 1][2]>>
  BY <1>1, <1>3, <1>6
<1>8. node[i - 1] = node[j - 1] /\ node[i - 1][2] # "-"
  <2>1. /\ node[i - 1][1] + 1 = node[j - 1][1] + 1 /\ node[i - 1][2] = node[j - 1][2]
        /\ node[i - 1][2] # "-"
    BY <1>4, <1>5, <1>7
  <2>2. node[i - 1][1] = node[j - 1][1] BY <1>2, <1>5, <1>7, <2>1
  <2> QED BY <1>2, <1>5, <1>7, <2>1, <2>2
<1>9. ASSUME NEW k \in i - 1 .. j - 1 PROVE node[k][1] >= node[i - 1][1]
  <2>1. 1 + k \in i .. j /\ k \in 1 .. Len(node) BY <1>5, <1>7
  <2>2. u[1 + k][1] >= u[i][1] BY <1>4, <2>1
  <2>3. u[1 + k][1] = node[k][1] + 1 /\ u[i][1] = node[i - 1][1] + 1 BY <1>1, <1>7, <2>1
  <2> QED BY <1>2, <1>7, <2>1, <2>2, <2>3
<1>10. i - 1 < j - 1 /\ i - 1 \in DOMAIN node /\ j - 1 \in DOMAIN node BY <1>3, <1>4, <1>5, <1>7
<1> QED BY <1>8, <1>9, <1>10 DEF Twins

\* Blocks one after the other repeat no key when the second has none of the first.
LEMMA TwinsJoined ==
  ASSUME NEW a \in Seq(Places), NEW b \in Seq(Places), NEW n \in Nat, n = Len(a),
         n # 0, a[1][1] = 0, \A i \in 1 .. n : i # 1 => a[i][1] > 0,
         ~Twins(a), ~Twins(b), b = <<>> \/ b[1][1] = 0,
         a[1][2] = "-" \/ ~Yaml!HasKey(b, a[1][2])
  PROVE  ~Twins(a \o b)
<1> DEFINE s == a \o b
<1>2. /\ s \in Seq(Places) /\ Len(s) = n + Len(b) /\ Len(b) \in Nat
      /\ \A i \in 1 .. n : s[i] = a[i]
      /\ \A i \in 1 .. Len(b) : s[n + i] = b[i]
  BY Joined
<1> HIDE DEF s
<1>3. /\ DOMAIN a = 1 .. n /\ DOMAIN b = 1 .. Len(b) /\ DOMAIN s = 1 .. n + Len(b)
      /\ \A i \in 1 .. n : a[i] \in Places
      /\ \A i \in 1 .. Len(b) : b[i] \in Places
  BY <1>2
<1>4. SUFFICES ASSUME NEW i \in DOMAIN s, NEW j \in DOMAIN s, i < j, s[i] = s[j], s[i][2] # "-",
                      \A k \in i .. j : s[k][1] >= s[i][1]
               PROVE  FALSE
  BY DEF Twins, s
<1>0. i \in Nat /\ j \in Nat BY <1>2, <1>3
<1>5. CASE j <= n
  <2>1. i \in 1 .. n /\ j \in 1 .. n /\ \A k \in i .. j : k \in 1 .. n
    BY <1>2, <1>3, <1>4, <1>5
  <2>2. a[i] = a[j] /\ a[i][2] # "-" /\ \A k \in i .. j : a[k][1] >= a[i][1]
    BY <1>2, <1>4, <2>1
  <2> QED BY <1>3, <1>4, <2>1, <2>2 DEF Twins
<1>6. CASE i > n
  <2>1. /\ i - n \in 1 .. Len(b) /\ i = n + (i - n) /\ j - n \in 1 .. Len(b) /\ j = n + (j - n)
        /\ i - n < j - n
    <3>1. i \in 1 .. n + Len(b) /\ j \in 1 .. n + Len(b) /\ i < j /\ i > n
      BY <1>3, <1>4, <1>6
    <3>2. \A m, x \in Nat : x \in 1 .. n + m /\ x > n => x - n \in 1 .. m /\ x = n + (x - n)
      OBVIOUS
    <3>3. j > n /\ i - n < j - n BY <1>0, <3>1
    <3> QED BY <1>0, <1>2, <3>1, <3>2, <3>3
  <2>2. ASSUME NEW k \in i - n .. j - n PROVE b[k][1] >= b[i - n][1]
    <3>1. n + k \in i .. j /\ k \in 1 .. Len(b) BY <1>2, <2>1, SMTT(30)
    <3>2. s[n + k][1] >= s[i][1] BY <1>4, <3>1
    <3> QED BY <1>2, <2>1, <3>1, <3>2
  <2>3. b[i - n] = b[j - n] /\ b[i - n][2] # "-" BY <1>2, <1>4, <2>1
  <2> QED BY <1>3, <2>1, <2>2, <2>3 DEF Twins
<1>7. CASE i <= n /\ j > n
  <2>1. /\ i \in 1 .. n /\ j - n \in 1 .. Len(b) /\ j = n + (j - n)
        /\ n + 1 \in i .. j /\ 1 \in 1 .. Len(b)
    BY <1>2, <1>3, <1>4, <1>7
  <2>2. b[1][1] = 0 BY <2>1
  <2>3. 0 >= a[i][1]
    <3>1. s[n + 1][1] >= s[i][1] BY <1>4, <2>1
    <3> QED BY <1>2, <2>1, <2>2, <3>1
  <2>4. i = 1
    <3>1. a[i][1] \in Nat BY <1>3, <2>1 DEF Places
    <3> QED BY <2>1, <2>3, <3>1
  <2>5. b[j - n] = a[1] /\ a[1][2] # "-" BY <1>2, <1>4, <2>1, <2>4
  <2>6. a[1] = <<0, a[1][2]>>
    <3>1. a[1] \in Places BY <1>3, <2>1, <2>4
    <3> QED BY <3>1 DEF Places
  <2>7. Yaml!HasKey(b, a[1][2]) BY <1>3, <2>1, <2>5, <2>6 DEF Yaml!HasKey
  <2> QED BY <2>5, <2>7
<1> QED BY <1>0, <1>5, <1>6, <1>7

\* One entry or item beside the others of its block.
LEMMA TwinsBeside ==
  ASSUME NEW label \in Labels, NEW node \in Seq(Places), NEW b \in Seq(Places),
         ~Twins(node), ~Twins(b), b = <<>> \/ b[1][1] = 0,
         label = "-" \/ ~Yaml!HasKey(b, label)
  PROVE  ~Twins(Yaml!Under(label, node) \o b)
<1>1. /\ Yaml!Under(label, node) \in Seq(Places)
      /\ Len(Yaml!Under(label, node)) = 1 + Len(node)
      /\ Yaml!Under(label, node)[1] = <<0, label>>
      /\ \A i \in 1 .. Len(node) :
           Yaml!Under(label, node)[1 + i] = <<node[i][1] + 1, node[i][2]>>
  BY UnderIsPlaces
<1>2. ~Twins(Yaml!Under(label, node)) BY TwinsUnder
<1>3. Len(node) \in Nat /\ \A i \in 1 .. Len(node) : node[i][1] \in Nat BY DEF Places
<1>4. \A i \in 1 .. 1 + Len(node) : i # 1 => i - 1 \in 1 .. Len(node) /\ i = 1 + (i - 1)
  BY <1>3
<1>5. ASSUME NEW i \in 1 .. 1 + Len(node), i # 1 PROVE Yaml!Under(label, node)[i][1] > 0
  <2>1. Yaml!Under(label, node)[1 + (i - 1)][1] = node[i - 1][1] + 1 BY <1>1, <1>4, <1>5
  <2> QED BY <1>3, <1>4, <1>5, <2>1
<1>6. 1 + Len(node) \in Nat /\ 1 + Len(node) # 0 BY <1>3
<1>7. Yaml!Under(label, node)[1][1] = 0 /\ Yaml!Under(label, node)[1][2] = label BY <1>1
<1> QED BY <1>1, <1>2, <1>5, <1>6, <1>7, TwinsJoined

(***************************************************************************)
(* The recursion ends: what is read from a line on depends on later lines  *)
(* only.                                                                   *)
(***************************************************************************)

\* Reading went from line i to some line, or failed.
Ends(o, i, last) == o.err \in BOOLEAN /\ (~o.err => o.at \in i .. last)

\* All readings from line m on do.
AllEnd(blocks, m, last) ==
  \A i \in m .. last, kind \in Yaml!Kinds, indent \in Nat : Ends(blocks[i][kind][indent], i, last)

\* Two readers with the same results from line m on.
Alike(f, g, m, last) == \A i \in m .. last : f[i] = g[i]

\* The value of a line is read from later lines only.
LEMMA ValueIsLater ==
  ASSUME NEW lines \in Seq(YamlLines), NEW f, NEW g, NEW i \in 1 .. Len(lines),
         NEW last \in Nat, last = Len(lines) + 1, AllEnd(f, i + 1, last),
         Alike(f, g, i + 1, last), NEW column \in Nat
  PROVE  /\ Yaml!ParseValue(f, lines, i, column) = Yaml!ParseValue(g, lines, i, column)
         /\ Ends(Yaml!ParseValue(f, lines, i, column), i + 1, last)
<1>1. i + 1 \in i + 1 .. last /\ Len(lines) \in Nat OBVIOUS
<1>2. /\ Yaml!ParseChild(f, lines, i + 1, column) = Yaml!ParseChild(g, lines, i + 1, column)
      /\ Ends(Yaml!ParseChild(f, lines, i + 1, column), i + 1, last)
  <2>1. CASE i + 1 > Len(lines) \/ lines[i + 1].indent <= column
    BY <1>1, <2>1 DEF Yaml!ParseChild, Yaml!Parsed, Ends
  <2>2. CASE ~(i + 1 > Len(lines) \/ lines[i + 1].indent <= column)
    <3>1. i + 1 \in 1 .. Len(lines) BY <1>1, <2>2
    <3>2. lines[i + 1].indent \in Nat BY <3>1, LinesOK
    <3>3. \A h : Yaml!ParseChild(h, lines, i + 1, column)
                   = h[i + 1][IF lines[i + 1].item THEN "seq" ELSE "map"][lines[i + 1].indent]
      BY <2>2 DEF Yaml!ParseChild, Yaml!ParseNode
    <3> QED BY <1>1, <3>2, <3>3 DEF AllEnd, Alike, Yaml!Kinds
  <2> QED BY <2>1, <2>2
<1>3. Ends(Yaml!Failed, i + 1, last) BY DEF Ends, Yaml!Failed
<1>4. \A node : Ends(Yaml!Parsed(node, i + 1), i + 1, last) BY <1>1 DEF Ends, Yaml!Parsed
<1> QED BY <1>2, <1>3, <1>4 DEF Yaml!ParseValue

\* What parseMapping reads from a key on depends on later lines only.
LEMMA EntriesAreLater ==
  ASSUME NEW lines \in Seq(YamlLines), NEW f, NEW g, NEW i \in 1 .. Len(lines),
         NEW last \in Nat, last = Len(lines) + 1, AllEnd(f, i + 1, last),
         Alike(f, g, i + 1, last), NEW column \in Nat
  PROVE  /\ Yaml!ParseEntries(f, lines, i, column) = Yaml!ParseEntries(g, lines, i, column)
         /\ Ends(Yaml!ParseEntries(f, lines, i, column), i + 1, last)
<1> DEFINE v == Yaml!ParseValue(f, lines, i, column)
<1>1. v = Yaml!ParseValue(g, lines, i, column) /\ Ends(v, i + 1, last) BY ValueIsLater
<1> HIDE DEF v
<1>2. CASE v.err
  BY <1>1, <1>2 DEF Yaml!ParseEntries, v, Ends, Yaml!Failed
<1>3. CASE ~v.err
  <2>1. v.at \in i + 1 .. last /\ i \in Nat BY <1>1, <1>3 DEF Ends
  <2>2. f[v.at] = g[v.at] /\ Ends(f[v.at]["map"][column], v.at, last)
    BY <2>1 DEF AllEnd, Alike, Yaml!Kinds
  <2> DEFINE o == f[v.at]["map"][column]
  <2>3. o.err \in BOOLEAN /\ (~o.err => o.at \in i + 1 .. last)
    BY <2>1, <2>2 DEF Ends
  <2>4. \A node, at : at \in i + 1 .. last => Ends(Yaml!Parsed(node, at), i + 1, last)
    BY DEF Ends, Yaml!Parsed
  <2>5. Ends(Yaml!Failed, i + 1, last) BY DEF Ends, Yaml!Failed
  <2> QED BY <1>1, <2>2, <2>3, <2>4, <2>5 DEF Yaml!ParseEntries, v
<1> QED BY <1>1, <1>2, <1>3 DEF Ends

\* f has read the lines after i, and g reads them as f does.
Later(f, g, lines, i) ==
  AllEnd(f, i + 1, Len(lines) + 1) /\ Alike(f, g, i + 1, Len(lines) + 1)

\* So does what a block reads at a line.
LEMMA BlockIsLater ==
  ASSUME NEW lines \in Seq(YamlLines), NEW f, NEW g, NEW i \in 1 .. Len(lines) + 1,
         Later(f, g, lines, i), NEW kind \in Yaml!Kinds, NEW indent \in Nat
  PROVE  /\ Yaml!Block(f, lines, i, kind, indent) = Yaml!Block(g, lines, i, kind, indent)
         /\ Ends(Yaml!Block(f, lines, i, kind, indent), i, Len(lines) + 1)
<1> DEFINE last == Len(lines) + 1
<1>0. /\ i \in Nat /\ Len(lines) \in Nat /\ i \in i .. last /\ last \in Nat
      /\ last = Len(lines) + 1 /\ AllEnd(f, i + 1, last) /\ Alike(f, g, i + 1, last)
  BY DEF Later
<1> HIDE DEF last
<1>a. SUFFICES /\ Yaml!Block(f, lines, i, kind, indent) = Yaml!Block(g, lines, i, kind, indent)
              /\ Ends(Yaml!Block(f, lines, i, kind, indent), i, last)
  BY <1>0
<1>1. \A o : Ends(o, i + 1, last) => Ends(o, i, last) BY <1>0 DEF Ends
<1>2. Ends(Yaml!Failed, i, last) BY DEF Ends, Yaml!Failed
<1>3. \A node : Ends(Yaml!Parsed(node, i), i, last) BY <1>0 DEF Ends, Yaml!Parsed
<1>4. CASE ~Yaml!At(lines, i, indent)
  BY <1>3, <1>4 DEF Yaml!Block, Yaml!ParseMapping, Yaml!ParseSequence
<1>5. CASE Yaml!At(lines, i, indent)
  <2>1. i \in 1 .. Len(lines) BY <1>0, <1>5 DEF Yaml!At
  <2>2. CASE kind = "map"
    <3>1. /\ Yaml!ParseEntries(f, lines, i, indent) = Yaml!ParseEntries(g, lines, i, indent)
          /\ Ends(Yaml!ParseEntries(f, lines, i, indent), i, last)
      BY <1>0, <1>1, <2>1, EntriesAreLater
    <3> QED BY <1>2, <1>3, <2>2, <3>1 DEF Yaml!Block, Yaml!ParseMapping
  <2>3. CASE kind # "map"
    <3> DEFINE v == IF lines[i].key = None THEN Yaml!ParseValue(f, lines, i, indent)
                    ELSE Yaml!ParseEntries(f, lines, i, indent + 2)
    <3>1. /\ v = IF lines[i].key = None THEN Yaml!ParseValue(g, lines, i, indent)
                 ELSE Yaml!ParseEntries(g, lines, i, indent + 2)
          /\ Ends(v, i + 1, last)
      <4>1. indent + 2 \in Nat OBVIOUS
      <4> QED BY <1>0, <2>1, <4>1, ValueIsLater, EntriesAreLater
    <3> HIDE DEF v
    <3>2. CASE v.err
      BY <1>2, <1>3, <2>3, <3>1, <3>2 DEF Yaml!Block, Yaml!ParseSequence, v
    <3>3. CASE ~v.err
      <4>1. v.at \in i + 1 .. last BY <3>1, <3>3 DEF Ends
      <4>2. f[v.at] = g[v.at] /\ Ends(f[v.at]["seq"][indent], v.at, last)
        BY <1>0, <4>1 DEF AllEnd, Alike, Yaml!Kinds
      <4> DEFINE o == f[v.at]["seq"][indent]
      <4>3. o.err \in BOOLEAN /\ (~o.err => o.at \in i .. last)
        BY <1>0, <4>1, <4>2 DEF Ends
      <4>4. \A node, at : at \in i .. last => Ends(Yaml!Parsed(node, at), i, last)
        BY DEF Ends, Yaml!Parsed
      <4> QED BY <1>2, <1>3, <2>3, <3>1, <4>2, <4>3, <4>4 DEF Yaml!Block, Yaml!ParseSequence, v
    <3> QED BY <3>1, <3>2, <3>3 DEF Ends
  <2> QED BY <2>2, <2>3
<1> QED BY <1>0, <1>4, <1>5

(***************************************************************************)
(* The files' lines and tokens, as folds.                                  *)
(***************************************************************************)

\* The lines kept are lines of the file.
KeptLines(raw, lines) == lines \in Seq(YamlLines)

Kept == INSTANCE FoldTheory WITH
  Op   <- LAMBDA lines, l : IF l.mark = "text" THEN Append(lines, l) ELSE lines,
  Base <- <<>>,
  Inv  <- KeptLines

\* The tokens of a line as the reader takes it: the key two columns from a dash.
ReadTokens(l) == TokensAt(l, IF l.item THEN l.indent + 2 ELSE l.indent)

ReadTokensOf(lines) == FoldLeft(LAMBDA ts, l : ts \o ReadTokens(l), <<>>, lines)

\* The tokens of lines after others come after theirs.
Continues(lines, ts) ==
  /\ ts \in Seq(Places)
  /\ \A z \in Seq(YamlLines) :
       ReadTokensOf(z) \in Seq(Places) => ReadTokensOf(z \o lines) = ReadTokensOf(z) \o ts

Joins == INSTANCE FoldTheory WITH
  Op   <- LAMBDA ts, l : ts \o ReadTokens(l),
  Base <- <<>>,
  Inv  <- Continues

\* From the last line to the first.
LEMMA FromTheEnd ==
  ASSUME NEW last \in Nat, NEW F, last + 1 \in F, \A i \in 1 .. last : i + 1 \in F => i \in F
  PROVE  \A i \in 1 .. last + 1 : i \in F
<1> DEFINE T == {k \in Nat : k <= last /\ last + 1 - k \notin F}
<1>1. ASSUME NEW i \in 1 .. last + 1, i \notin F PROVE FALSE
  <2>1. last + 1 - i \in T
    <3>1. last + 1 - i \in Nat /\ last + 1 - i <= last /\ last + 1 - (last + 1 - i) = i OBVIOUS
    <3> QED BY <1>1, <3>1
  <2>2. PICK k \in T : \A j \in T : ~(j < k) BY <2>1, Kept!LeastNumber
  <2>3. k \in Nat /\ k <= last /\ last + 1 - k \notin F BY <2>2
  <2>4. k # 0
    <3>1. last + 1 - 0 = last + 1 OBVIOUS
    <3> QED BY <2>3, <3>1
  <2>5. last + 1 - k \in 1 .. last /\ last + 1 - k + 1 = last + 1 - (k - 1)
        /\ k - 1 \in Nat /\ k - 1 <= last /\ k - 1 < k
    BY <2>3, <2>4
  <2>6. last + 1 - k + 1 \notin F BY <2>3, <2>5
  <2>7. k - 1 \in T BY <2>5, <2>6
  <2> QED BY <2>2, <2>5, <2>7
<1> QED BY <1>1

\* The lines of a file are lines a file may have.
LEMMA ScanKeepsLines == \A raw \in Seq(YamlLines) : Yaml!Scan(raw) \in Seq(YamlLines)
<1>1. \A raw \in Seq(YamlLines) : KeptLines(raw, Kept!Fold(raw))
  <2>1. KeptLines(<<>>, <<>>) BY DEF KeptLines
  <2>2. ASSUME NEW raw \in Seq(YamlLines), NEW l \in YamlLines, NEW lines, KeptLines(raw, lines)
        PROVE  KeptLines(Append(raw, l), IF l.mark = "text" THEN Append(lines, l) ELSE lines)
    BY <2>2 DEF KeptLines
  <2> QED BY <2>1, <2>2, Kept!FoldKeeps
<1>2. \A raw : Yaml!Scan(raw) = Kept!Fold(raw)
  BY DEF Yaml!Scan, Yaml!FoldLeft, Yaml!MapThenFoldSet, Yaml!Max,
         Kept!Fold, Kept!FoldLeft, Kept!MapThenFoldSet, Kept!Max
<1> QED BY <1>1, <1>2 DEF KeptLines

\* The places of a line's key, dash and value.
LEMMA TokensOfLine ==
  ASSUME NEW l \in YamlLines
  PROVE  ReadTokens(l) \in Seq(Places)
<1> DEFINE inner == IF l.item THEN l.indent + 2 ELSE l.indent
           dash  == IF l.item THEN <<<<l.indent, "-">>>> ELSE <<>>
           key   == IF l.key # None THEN <<<<inner, l.key>>>> ELSE <<>>
           value == IF l.value # None THEN <<<<inner + 1, l.value>>>> ELSE <<>>
<1>1. l.indent \in Nat /\ l.item \in BOOLEAN BY LinesOK
<1>2. inner \in Nat /\ inner + 1 \in Nat BY <1>1
<1>3. {"-", l.key, l.value} \subseteq Labels BY DEF Labels
<1> HIDE DEF inner
<1>4. dash \in Seq(Places) /\ key \in Seq(Places) /\ value \in Seq(Places)
  <2>1. \A p \in Places : <<p>> \in Seq(Places) OBVIOUS
  <2>2. /\ <<l.indent, "-">> \in Places
        /\ <<inner, l.key>> \in Places
        /\ <<inner + 1, l.value>> \in Places
    BY <1>1, <1>2, <1>3 DEF Places
  <2>3. <<>> \in Seq(Places) OBVIOUS
  <2> QED BY <2>1, <2>2, <2>3
<1> HIDE DEF dash, key, value
<1>5. (dash \o key) \o value \in Seq(Places) BY <1>4
<1> QED BY <1>5 DEF ReadTokens, TokensAt, inner, dash, key, value

\* The tokens of a file are a fold of its lines.
LEMMA TokensIsFold == \A lines : ReadTokensOf(lines) = Joins!Fold(lines)
BY DEF ReadTokensOf, FoldLeft, MapThenFoldSet, Max,
       Joins!Fold, Joins!FoldLeft, Joins!MapThenFoldSet, Joins!Max

\* Lines one after the other have their tokens one after the other.
LEMMA TokensJoin ==
  /\ ReadTokensOf(<<>>) = <<>>
  /\ \A l \in YamlLines : ReadTokensOf(<<l>>) = ReadTokens(l)
  /\ \A lines \in Seq(YamlLines) :
       /\ ReadTokensOf(lines) \in Seq(Places)
       /\ \A z \in Seq(YamlLines) : ReadTokensOf(z \o lines) = ReadTokensOf(z) \o ReadTokensOf(lines)
<1>1. ReadTokensOf(<<>>) = <<>> BY Joins!FoldOfNothing, TokensIsFold
<1>2. \A lines \in Seq(YamlLines), l \in YamlLines :
        ReadTokensOf(Append(lines, l)) = ReadTokensOf(lines) \o ReadTokens(l)
  BY Joins!FoldOfAppend, TokensIsFold
<1>3. ASSUME NEW l \in YamlLines PROVE ReadTokensOf(<<l>>) = ReadTokens(l)
  <2>1. <<l>> = Append(<<>>, l) /\ <<>> \in Seq(YamlLines) OBVIOUS
  <2>2. ReadTokensOf(<<l>>) = ReadTokensOf(<<>>) \o ReadTokens(l) BY <1>2, <2>1
  <2>3. \A ts \in Seq(Places) : <<>> \o ts = ts OBVIOUS
  <2> QED BY <1>1, <2>2, <2>3, TokensOfLine
<1>4. \A lines \in Seq(YamlLines) : Continues(lines, Joins!Fold(lines))
  <2>1. Continues(<<>>, <<>>)
    <3>1. ASSUME NEW z \in Seq(YamlLines), ReadTokensOf(z) \in Seq(Places)
          PROVE  ReadTokensOf(z \o <<>>) = ReadTokensOf(z) \o <<>>
      <4>1. z \o <<>> = z OBVIOUS
      <4>2. \A ts \in Seq(Places) : ts \o <<>> = ts OBVIOUS
      <4> QED BY <3>1, <4>1, <4>2
    <3>2. <<>> \in Seq(Places) OBVIOUS
    <3> QED BY <3>1, <3>2 DEF Continues
  <2>2. ASSUME NEW lines \in Seq(YamlLines), NEW l \in YamlLines, NEW ts, Continues(lines, ts)
        PROVE  Continues(Append(lines, l), ts \o ReadTokens(l))
    <3>1. ts \o ReadTokens(l) \in Seq(Places) BY <2>2, TokensOfLine DEF Continues
    <3>2. ASSUME NEW z \in Seq(YamlLines), ReadTokensOf(z) \in Seq(Places)
          PROVE  ReadTokensOf(z \o Append(lines, l)) = ReadTokensOf(z) \o (ts \o ReadTokens(l))
      <4>1. z \o Append(lines, l) = Append(z \o lines, l) /\ z \o lines \in Seq(YamlLines) OBVIOUS
      <4>2. ReadTokensOf(Append(z \o lines, l)) = ReadTokensOf(z \o lines) \o ReadTokens(l)
        BY <1>2, <4>1
      <4>3. ReadTokensOf(z \o lines) = ReadTokensOf(z) \o ts BY <2>2, <3>2 DEF Continues
      <4>4. \A p, q, r \in Seq(Places) : (p \o q) \o r = p \o (q \o r) OBVIOUS
      <4>5. (ReadTokensOf(z) \o ts) \o ReadTokens(l) = ReadTokensOf(z) \o (ts \o ReadTokens(l))
        BY <2>2, <3>2, <4>4, TokensOfLine DEF Continues
      <4> QED BY <4>1, <4>2, <4>3, <4>5
    <3> QED BY <3>1, <3>2 DEF Continues
  <2> QED BY <2>1, <2>2, Joins!FoldKeeps
<1> QED BY <1>1, <1>3, <1>4, TokensIsFold DEF Continues

\* What the reader has at a line, and a reader of the lines from m on.
Row(g, lines, i) ==
  [kind \in Yaml!Kinds |-> [indent \in Nat |-> Yaml!Block(g, lines, i, kind, indent)]]
ReadsFrom(g, lines, m) == g = [i \in m .. Len(lines) + 1 |-> Row(g, lines, i)]

\* A row has the block of each kind and indent.
LEMMA RowAt ==
  ASSUME NEW g, NEW lines, NEW i, NEW kind \in Yaml!Kinds, NEW indent \in Nat
  PROVE  Row(g, lines, i)[kind][indent] = Yaml!Block(g, lines, i, kind, indent)
<1>1. Row(g, lines, i)[kind] = [n \in Nat |-> Yaml!Block(g, lines, i, kind, n)] BY DEF Row
<1> QED BY <1>1

\* Two readers alike after line i read the same there.
LEMMA RowIsLater ==
  ASSUME NEW lines \in Seq(YamlLines), NEW f, NEW g, NEW i \in 1 .. Len(lines) + 1,
         Later(f, g, lines, i)
  PROVE  /\ Row(f, lines, i) = Row(g, lines, i)
         /\ \A kind \in Yaml!Kinds, indent \in Nat :
              Ends(Yaml!Block(f, lines, i, kind, indent), i, Len(lines) + 1)
<1>1. ASSUME NEW kind \in Yaml!Kinds, NEW indent \in Nat
      PROVE  /\ Yaml!Block(f, lines, i, kind, indent) = Yaml!Block(g, lines, i, kind, indent)
             /\ Ends(Yaml!Block(f, lines, i, kind, indent), i, Len(lines) + 1)
  BY BlockIsLater
<1> QED BY <1>1 DEF Row

\* The recursive definition chooses a reader of all lines.
LEMMA BlocksReads ==
  ASSUME NEW lines
  PROVE  Yaml!Blocks(lines) = CHOOSE g : ReadsFrom(g, lines, 1)
BY DEF Yaml!Blocks, ReadsFrom, Row

\* There is a reader of all lines, and its results end.
LEMMA ReaderExists ==
  ASSUME NEW lines \in Seq(YamlLines)
  PROVE  \E g : ReadsFrom(g, lines, 1)
<1> DEFINE last == Len(lines) + 1
           F == {m \in 1 .. last + 1 : \E g : ReadsFrom(g, lines, m) /\ AllEnd(g, m, last)}
<1>0. last \in Nat /\ 1 \in 1 .. last + 1 /\ last + 1 \in 1 .. last + 1 OBVIOUS
<1>1. last + 1 \in F
  <2> DEFINE g == [i \in last + 1 .. last |-> Row(<<>>, lines, i)]
  <2>1. last + 1 .. last = {} BY <1>0
  <2>2. \A h : [i \in last + 1 .. last |-> Row(h, lines, i)] = g BY <2>1
  <2>3. ReadsFrom(g, lines, last + 1) BY <2>2 DEF ReadsFrom
  <2>4. AllEnd(g, last + 1, last) BY <2>1 DEF AllEnd
  <2> QED BY <1>0, <2>3, <2>4
<1>2. ASSUME NEW m \in 1 .. last, m + 1 \in F PROVE m \in F
  <2>1. PICK g : ReadsFrom(g, lines, m + 1) /\ AllEnd(g, m + 1, last) BY <1>2
  <2> DEFINE h == [i \in m .. last |-> IF i = m THEN Row(g, lines, m) ELSE g[i]]
  <2>2. /\ h[m] = Row(g, lines, m) /\ \A i \in m + 1 .. last : h[i] = g[i]
        /\ m \in Nat
    BY <1>0
  <2>3. \A i \in m + 1 .. last : g[i] = Row(g, lines, i) BY <2>1 DEF ReadsFrom
  <2>4. h = [i \in m .. last |-> h[i]] OBVIOUS
  <2> HIDE DEF h, F
  <2>5. ASSUME NEW i \in m .. last
        PROVE  /\ Row(g, lines, i) = Row(h, lines, i)
               /\ \A kind \in Yaml!Kinds, indent \in Nat :
                    Ends(Yaml!Block(g, lines, i, kind, indent), i, last)
    <3>1. /\ i \in 1 .. last /\ \A j \in i + 1 .. last : j \in m + 1 .. last
      BY <1>0, <2>2
    <3>2. AllEnd(g, i + 1, last) /\ Alike(g, h, i + 1, last)
      BY <2>1, <2>2, <3>1 DEF AllEnd, Alike
    <3>3. i \in 1 .. Len(lines) + 1 /\ Later(g, h, lines, i) BY <3>1, <3>2 DEF Later
    <3> QED BY <3>3, RowIsLater
  <2>6. ASSUME NEW i \in m .. last PROVE h[i] = Row(h, lines, i)
    <3>1. i = m \/ i \in m + 1 .. last BY <1>0, <2>2
    <3> QED BY <2>2, <2>3, <2>5, <3>1
  <2>7. ReadsFrom(h, lines, m) BY <2>4, <2>6 DEF ReadsFrom
  <2>8. AllEnd(h, m, last)
    <3>1. ASSUME NEW i \in m .. last, NEW kind \in Yaml!Kinds, NEW indent \in Nat
          PROVE  Ends(h[i][kind][indent], i, last)
      <4>1. h[i] = Row(g, lines, i) BY <2>5, <2>6
      <4>2. h[i][kind][indent] = Yaml!Block(g, lines, i, kind, indent) BY <4>1, RowAt
      <4> QED BY <2>5, <4>2
    <3> QED BY <3>1 DEF AllEnd
  <2>9. m \in 1 .. last + 1 BY <1>0
  <2> QED BY <2>7, <2>8, <2>9 DEF F
<1>3. 1 \in F
  <2> HIDE DEF F, last
  <2> QED BY <1>0, <1>1, <1>2, FromTheEnd
<1> QED BY <1>3

\* So the recursion of the code is well defined: each block is what its
\* function returns, given the blocks of the later lines.
LEMMA BlocksUnfold ==
  ASSUME NEW lines \in Seq(YamlLines), NEW g, g = Yaml!Blocks(lines)
  PROVE  \A i \in 1 .. Len(lines) + 1, kind \in Yaml!Kinds, indent \in Nat :
           g[i][kind][indent] = Yaml!Block(g, lines, i, kind, indent)
<1>1. ReadsFrom(g, lines, 1) BY ReaderExists, BlocksReads
<1>2. \A i \in 1 .. Len(lines) + 1 : g[i] = Row(g, lines, i) BY <1>1 DEF ReadsFrom
<1>3. ASSUME NEW i \in 1 .. Len(lines) + 1, NEW kind \in Yaml!Kinds, NEW indent \in Nat
      PROVE  g[i][kind][indent] = Yaml!Block(g, lines, i, kind, indent)
  BY <1>2, RowAt
<1> QED BY <1>3

(***************************************************************************)
(* A block is the outline of its lines.                                    *)
(***************************************************************************)

\* The tokens of the lines from i up to j, without j.
Segment(lines, i, j) == ReadTokensOf(SubSeq(lines, i, j - 1))

\* Segments of a file join to longer ones, and one line has its own tokens.
LEMMA Segments ==
  ASSUME NEW lines \in Seq(YamlLines), NEW i \in 1 .. Len(lines) + 1
  PROVE  /\ Segment(lines, i, i) = <<>>
         /\ i <= Len(lines) => Segment(lines, i, i + 1) = ReadTokens(lines[i])
         /\ \A j \in i .. Len(lines) + 1 : Segment(lines, i, j) \in Seq(Places)
         /\ \A j \in i .. Len(lines) + 1 : \A k \in j .. Len(lines) + 1 :
              Segment(lines, i, k) = Segment(lines, i, j) \o Segment(lines, j, k)
<1>1. i \in Nat /\ Len(lines) \in Nat OBVIOUS
<1>2. ASSUME NEW m \in 1 .. Len(lines) + 1, NEW n \in m .. Len(lines) + 1
      PROVE  /\ SubSeq(lines, m, n - 1) \in Seq(YamlLines)
             /\ Len(SubSeq(lines, m, n - 1)) = n - m
             /\ \A x \in 1 .. n - m : SubSeq(lines, m, n - 1)[x] = lines[m + x - 1]
             /\ m \in Nat /\ n \in Nat
  <2>1. m \in Nat /\ n \in Nat /\ n - 1 - m + 1 = n - m /\ n - m \in Nat BY <1>1
  <2>2. \A x \in m .. n - 1 : lines[x] \in YamlLines BY <1>1, <2>1
  <2>3. SubSeq(lines, m, n - 1) = [x \in 1 .. n - m |-> lines[m + x - 1]]
    BY <1>1, <2>1
  <2>4. \A x \in 1 .. n - m : m + x - 1 \in m .. n - 1 BY <2>1
  <2> QED BY <2>1, <2>2, <2>3, <2>4
<1>3. Segment(lines, i, i) = <<>>
  <2>1. i \in i .. Len(lines) + 1 /\ i - i = 0 BY <1>1
  <2>2. /\ SubSeq(lines, i, i - 1) \in Seq(YamlLines)
        /\ Len(SubSeq(lines, i, i - 1)) = 0
    BY <1>2, <2>1
  <2>3. SubSeq(lines, i, i - 1) = <<>> BY <2>2
  <2> QED BY <2>3, TokensJoin DEF Segment
<1>4. ASSUME i <= Len(lines) PROVE Segment(lines, i, i + 1) = ReadTokens(lines[i])
  <2>1. /\ i + 1 \in i .. Len(lines) + 1 /\ i + 1 - i = 1 /\ i + 1 - 1 = i
        /\ 1 \in 1 .. 1 /\ i + 1 - 1 = i /\ lines[i] \in YamlLines
    BY <1>1, <1>4
  <2>2. /\ SubSeq(lines, i, i) \in Seq(YamlLines)
        /\ Len(SubSeq(lines, i, i)) = 1 /\ SubSeq(lines, i, i)[1] = lines[i]
    BY <1>2, <2>1
  <2>3. \A s \in Seq(YamlLines) : Len(s) = 1 => s = <<s[1]>> OBVIOUS
  <2>4. SubSeq(lines, i, i) = <<lines[i]>> BY <2>2, <2>3
  <2>5. Segment(lines, i, i + 1) = ReadTokensOf(SubSeq(lines, i, i)) BY <2>1 DEF Segment
  <2>6. ReadTokensOf(<<lines[i]>>) = ReadTokens(lines[i]) BY <2>1, TokensJoin
  <2> QED BY <2>4, <2>5, <2>6
<1>5. ASSUME NEW j \in i .. Len(lines) + 1 PROVE Segment(lines, i, j) \in Seq(Places)
  BY <1>2, TokensJoin DEF Segment
<1>6. ASSUME NEW j \in i .. Len(lines) + 1, NEW k \in j .. Len(lines) + 1
      PROVE  Segment(lines, i, k) = Segment(lines, i, j) \o Segment(lines, j, k)
  <2> DEFINE a == SubSeq(lines, i, j - 1)
             b == SubSeq(lines, j, k - 1)
             c == SubSeq(lines, i, k - 1)
  <2>1. /\ j \in Nat /\ k \in Nat /\ j \in 1 .. Len(lines) + 1
        /\ k \in i .. Len(lines) + 1
    BY <1>1
  <2>2. /\ a \in Seq(YamlLines) /\ Len(a) = j - i
        /\ \A x \in 1 .. j - i : a[x] = lines[i + x - 1]
    BY <1>2
  <2>3. /\ b \in Seq(YamlLines) /\ Len(b) = k - j
        /\ \A x \in 1 .. k - j : b[x] = lines[j + x - 1]
    BY <1>2, <2>1
  <2>4. /\ c \in Seq(YamlLines) /\ Len(c) = k - i
        /\ \A x \in 1 .. k - i : c[x] = lines[i + x - 1]
    BY <1>2, <2>1
  <2> HIDE DEF a, b, c
  <2>5. /\ a \o b \in Seq(YamlLines) /\ Len(a \o b) = Len(a) + Len(b)
        /\ \A x \in 1 .. Len(a) : (a \o b)[x] = a[x]
        /\ \A x \in 1 .. Len(b) : (a \o b)[Len(a) + x] = b[x]
        /\ \A x \in 1 .. Len(a) + Len(b) :
              x \in 1 .. Len(a) \/ \E y \in 1 .. Len(b) : x = Len(a) + y
    <3>1. a \in Seq(YamlLines) /\ b \in Seq(YamlLines) BY <2>2, <2>3
    <3> QED BY <3>1, Joined
  <2>6. (j - i) + (k - j) = k - i BY <1>1, <2>1
  <2>7. ASSUME NEW x \in 1 .. k - i PROVE (a \o b)[x] = c[x]
    <3>1. CASE x \in 1 .. j - i BY <2>2, <2>4, <2>5, <3>1
    <3>2. CASE x \notin 1 .. j - i
      <4>1. PICK y \in 1 .. k - j : x = (j - i) + y BY <2>2, <2>3, <2>5, <2>6, <3>2
      <4>2. i + x - 1 = j + y - 1 BY <1>1, <2>1, <4>1
      <4> QED BY <2>2, <2>3, <2>4, <2>5, <4>1, <4>2
    <3> QED BY <3>1, <3>2
  <2>8. a \o b = c
    <3>1. Len(a \o b) = Len(c) BY <2>2, <2>3, <2>4, <2>5, <2>6
    <3>2. \A x \in 1 .. Len(a \o b) : (a \o b)[x] = c[x]
      BY <2>2, <2>3, <2>5, <2>6, <2>7
    <3> QED BY <2>4, <2>5, <3>1, <3>2, SeqEqual
  <2>9. ReadTokensOf(a \o b) = ReadTokensOf(a) \o ReadTokensOf(b) BY <2>2, <2>3, TokensJoin
  <2> QED BY <2>8, <2>9 DEF Segment, a, b, c
<1> QED BY <1>3, <1>4, <1>5, <1>6

\* The node is the outline of these tokens, which are at column c or to the
\* right of it and start there, and repeats no key.
Whole(ts, c, node) ==
  /\ ts \in Seq(Places) /\ node = OutlineOf(ts) /\ ~Twins(node)
  /\ \A k \in 1 .. Len(ts) : ts[k][1] >= c
  /\ ts = <<>> \/ ts[1][1] = c

\* No lines make an empty document.
LEMMA NothingIsWhole ==
  ASSUME NEW c \in Nat
  PROVE  Whole(<<>>, c, <<>>) /\ OutlineOf(<<>>) = <<>> /\ ~Twins(<<>>)
<1>1. <<>> \in Seq(Places) /\ Len(<<>>) = 0 OBVIOUS
<1>2. OutlineOf(<<>>) = <<>>
  <2>1. OutlineOf(<<>>) \in Seq(Places) /\ Len(OutlineOf(<<>>)) = 0 BY <1>1, OutlineIsPlaces
  <2>2. \A s \in Seq(Places) : Len(s) = 0 => s = <<>> OBVIOUS
  <2> QED BY <2>1, <2>2
<1>3. ~Twins(<<>>) BY DEF Twins
<1> QED BY <1>1, <1>2, <1>3 DEF Whole

\* A key or a dash, what is below it, and the rest of its block.
LEMMA ItemIsWhole ==
  ASSUME NEW c \in Nat, NEW label \in Labels,
         NEW body \in Seq(Places), \A k \in 1 .. Len(body) : body[k][1] > c,
         ~Twins(OutlineOf(body)),
         NEW rest, NEW node, Whole(rest, c, node),
         label = "-" \/ ~Yaml!HasKey(node, label)
  PROVE  Whole((<<<<c, label>>>> \o body) \o rest, c,
               Yaml!Under(label, OutlineOf(body)) \o node)
<1> DEFINE t == <<c, label>>
           a == <<t>> \o body
           below == Yaml!Under(label, OutlineOf(body))
<1>1. t \in Places /\ t[1] = c /\ t[2] = label BY DEF Places
<1> HIDE DEF t
<1>2. /\ a \in Seq(Places) /\ Len(a) = 1 + Len(body) /\ Len(body) \in Nat
      /\ a[1] = t /\ \A k \in 1 .. Len(body) : a[1 + k] = body[k]
  <2>1. <<t>> \in Seq(Places) /\ Len(<<t>>) = 1 /\ <<t>>[1] = t /\ 1 \in 1 .. 1 BY <1>1
  <2> QED BY <2>1, Joined
<1>3. OutlineOf(a) = below BY <1>1, OutlineBelow
<1> HIDE DEF a
<1>4. \A k \in 1 .. Len(body) : body[k][1] \in Nat BY DEF Places
<1>5. ASSUME NEW k \in 1 .. Len(a) PROVE a[k][1] >= c
  <2>1. CASE k = 1 BY <1>1, <1>2, <2>1
  <2>2. CASE k # 1
    <3>1. k - 1 \in 1 .. Len(body) /\ k = 1 + (k - 1) BY <1>2, <2>2
    <3>2. a[k] = body[k - 1] BY <1>2, <3>1
    <3>3. body[k - 1][1] > c /\ body[k - 1][1] \in Nat BY <1>4, <3>1
    <3> QED BY <3>2, <3>3
  <2> QED BY <2>1, <2>2
<1>6. /\ rest \in Seq(Places) /\ node = OutlineOf(rest) /\ ~Twins(node)
      /\ \A k \in 1 .. Len(rest) : rest[k][1] >= c
      /\ rest = <<>> \/ rest[1][1] = c
  BY DEF Whole
<1>7. OutlineOf(a \o rest) = below \o node
  <2>1. rest = <<>> \/ \A k \in 1 .. Len(a) : a[k][1] >= rest[1][1] BY <1>5, <1>6
  <2> QED BY <1>2, <1>3, <1>6, <2>1, OutlineBeside
<1>8. node \in Seq(Places) /\ OutlineOf(body) \in Seq(Places) /\ Len(node) = Len(rest)
  BY <1>6, OutlineIsPlaces
<1>9. node = <<>> \/ node[1][1] = 0
  <2>1. CASE Len(rest) = 0 BY <1>8, <2>1
  <2>2. CASE Len(rest) # 0
    <3>1. 1 \in DOMAIN rest BY <1>6, <2>2
    <3>2. node[1] = <<Depth(rest, 1), rest[1][2]>> BY <1>6, <3>1 DEF OutlineOf
    <3> QED BY <3>2, DepthAlone
  <2> QED BY <2>1, <2>2
<1>10. ~Twins(below \o node) BY <1>6, <1>8, <1>9, TwinsBeside
<1>11. /\ a \o rest \in Seq(Places) /\ Len(a \o rest) = Len(a) + Len(rest)
       /\ \A i \in 1 .. Len(a) : (a \o rest)[i] = a[i]
       /\ \A i \in 1 .. Len(rest) : (a \o rest)[Len(a) + i] = rest[i]
       /\ \A i \in 1 .. Len(a) + Len(rest) :
             i \in 1 .. Len(a) \/ \E j \in 1 .. Len(rest) : i = Len(a) + j
  <2>1. a \in Seq(Places) /\ rest \in Seq(Places) BY <1>2, <1>6
  <2> QED BY <2>1, Joined
<1> HIDE DEF below
<1>12. \A k \in 1 .. Len(a \o rest) : (a \o rest)[k][1] >= c BY <1>5, <1>6, <1>11
<1>13. (a \o rest)[1][1] = c
  <2>1. 1 \in 1 .. Len(a) BY <1>2
  <2> QED BY <1>1, <1>2, <1>11, <2>1
<1>14. Whole(a \o rest, c, below \o node)
  BY <1>7, <1>10, <1>11, <1>12, <1>13 DEF Whole
<1> QED BY <1>14 DEF a, t, below

\* What is below a key or dash at this column.
Below(ts, column, node) ==
  /\ ts \in Seq(Places) /\ node = OutlineOf(ts) /\ ~Twins(node)
  /\ \A k \in 1 .. Len(ts) : ts[k][1] > column

\* A block further right is below the column.
LEMMA WholeIsBelow ==
  ASSUME NEW c \in Nat, NEW column \in Nat, column < c, NEW ts, NEW node, Whole(ts, c, node)
  PROVE  Below(ts, column, node)
<1>1. \A k \in 1 .. Len(ts) : ts[k][1] >= c /\ ts[k][1] \in Nat BY DEF Whole, Places
<1>2. \A k \in 1 .. Len(ts) : ts[k][1] > column BY <1>1
<1> QED BY <1>2 DEF Whole, Below

\* What is read of a block from line i on, its lines at column c.
BlockIsWhole(o, lines, i, c) ==
  /\ o.err \in BOOLEAN
  /\ ~o.err => o.at \in i .. Len(lines) + 1 /\ Whole(Segment(lines, i, o.at), c, o.node)

\* All that is read of the lines after i.
AfterIsWhole(g, lines, i) ==
  \A j \in i + 1 .. Len(lines) + 1, kind \in Yaml!Kinds, indent \in Nat :
    BlockIsWhole(g[j][kind][indent], lines, j, indent)

\* The token of a line's value, at this place.
ValueTokens(l, place) == IF l.value # None THEN <<<<place, l.value>>>> ELSE <<>>

\* A scalar is below its key or dash, and so is the block of the next lines,
\* because its lines start further right.
LEMMA ValueIsBelow ==
  ASSUME NEW lines \in Seq(YamlLines), NEW i \in 1 .. Len(lines), NEW g, AfterIsWhole(g, lines, i),
         NEW column \in Nat, NEW place \in Nat, place > column,
         NEW v, v = Yaml!ParseValue(g, lines, i, column), ~v.err
  PROVE  /\ v.at \in i + 1 .. Len(lines) + 1
         /\ Below(ValueTokens(lines[i], place) \o Segment(lines, i + 1, v.at), column, v.node)
<1>1. /\ i \in Nat /\ i + 1 \in Nat /\ i + 1 \in 1 .. Len(lines) + 1
      /\ i + 1 \in i + 1 .. Len(lines) + 1 /\ Len(lines) \in Nat /\ lines[i] \in YamlLines
  OBVIOUS
<1>2. Segment(lines, i + 1, i + 1) = <<>> BY <1>1, Segments
<1>3. \A s \in Seq(Places) : s \o <<>> = s /\ <<>> \o s = s OBVIOUS
<1>4. <<>> \in Seq(Places) /\ <<>> \o <<>> = <<>> OBVIOUS
<1>5. Below(<<>>, column, <<>>) BY <1>4, NothingIsWhole DEF Below
<1>6. CASE lines[i].value = None
  <2>1. v = Yaml!ParseChild(g, lines, i + 1, column) BY <1>6, LinesOK DEF Yaml!ParseValue
  <2>2. ValueTokens(lines[i], place) = <<>> BY <1>6 DEF ValueTokens
  <2>3. CASE i + 1 > Len(lines) \/ lines[i + 1].indent <= column
    <3>1. v = Yaml!Parsed(Yaml!Null, i + 1) BY <2>1, <2>3 DEF Yaml!ParseChild
    <3>2. v.at = i + 1 /\ v.node = <<>> BY <3>1 DEF Yaml!Parsed, Yaml!Null
    <3> QED BY <1>1, <1>2, <1>4, <1>5, <2>2, <3>2
  <2>4. CASE ~(i + 1 > Len(lines) \/ lines[i + 1].indent <= column)
    <3> DEFINE kind == IF lines[i + 1].item THEN "seq" ELSE "map"
               indent == lines[i + 1].indent
    <3>1. v = g[i + 1][kind][indent] BY <2>1, <2>4 DEF Yaml!ParseChild, Yaml!ParseNode
    <3>2. i + 1 \in 1 .. Len(lines) BY <1>1, <2>4
    <3>3. indent \in Nat /\ column < indent /\ kind \in Yaml!Kinds
      BY <2>4, <3>2, LinesOK DEF Yaml!Kinds
    <3> HIDE DEF kind, indent
    <3>4. BlockIsWhole(v, lines, i + 1, indent) BY <1>1, <3>1, <3>3 DEF AfterIsWhole
    <3>5. v.at \in i + 1 .. Len(lines) + 1 /\ Whole(Segment(lines, i + 1, v.at), indent, v.node)
      BY <3>4 DEF BlockIsWhole
    <3>6. Below(Segment(lines, i + 1, v.at), column, v.node) BY <3>3, <3>5, WholeIsBelow
    <3>7. Segment(lines, i + 1, v.at) \in Seq(Places) BY <3>6 DEF Below
    <3> QED BY <1>3, <2>2, <3>5, <3>6, <3>7
  <2> QED BY <2>3, <2>4
<1>7. CASE lines[i].value # None
  <2>1. v = Yaml!Parsed(Yaml!Scalar(lines[i].value), i + 1)
    BY <1>7 DEF Yaml!ParseValue, Yaml!Failed
  <2>2. v.at = i + 1 /\ v.node = <<<<0, lines[i].value>>>>
    BY <2>1 DEF Yaml!Parsed, Yaml!Scalar
  <2> DEFINE t == <<place, lines[i].value>>
  <2>3. t \in Places /\ t[1] = place /\ t[2] = lines[i].value
    <3>1. lines[i].value \in Labels BY <1>1 DEF Labels
    <3> QED BY <3>1 DEF Places
  <2>4. ValueTokens(lines[i], place) = <<t>> BY <1>7 DEF ValueTokens
  <2> HIDE DEF t
  <2>5. /\ <<t>> \in Seq(Places) /\ Len(<<t>>) = 1 /\ <<t>>[1] = t /\ DOMAIN <<t>> = {1}
        /\ 1 .. 1 = {1} /\ <<t>> \o <<>> = <<t>>
    BY <2>3
  <2>6. OutlineOf(<<t>>) = <<<<0, t[2]>>>>
    <3>1. OutlineOf(<<t>>) = [x \in {1} |-> <<Depth(<<t>>, x), <<t>>[x][2]>>]
      BY <2>5 DEF OutlineOf
    <3>2. OutlineOf(<<t>>)[1] = <<0, t[2]>> BY <2>5, <3>1, DepthAlone
    <3>3. OutlineOf(<<t>>) \in Seq(Places) /\ Len(OutlineOf(<<t>>)) = 1 BY <2>5, OutlineIsPlaces
    <3>4. \A s \in Seq(Places) : Len(s) = 1 => s = <<s[1]>> OBVIOUS
    <3> QED BY <3>2, <3>3, <3>4
  <2>7. ~Twins(OutlineOf(<<t>>))
    <3>1. DOMAIN OutlineOf(<<t>>) = {1} BY <2>5 DEF OutlineOf
    <3> QED BY <3>1 DEF Twins
  <2>8. Below(<<t>>, column, OutlineOf(<<t>>)) BY <2>3, <2>5, <2>7 DEF Below
  <2>9. Below(<<t>> \o <<>>, column, v.node) BY <2>2, <2>3, <2>5, <2>6, <2>8
  <2> QED BY <1>1, <1>2, <2>2, <2>4, <2>9
<1> QED BY <1>6, <1>7

\* A key, what is below it, and the other entries of its mapping.
LEMMA EntriesAreWhole ==
  ASSUME NEW lines \in Seq(YamlLines), NEW i \in 1 .. Len(lines), NEW g, AfterIsWhole(g, lines, i),
         NEW column \in Nat, lines[i].key # None,
         NEW o, o = Yaml!ParseEntries(g, lines, i, column), ~o.err
  PROVE  /\ o.at \in i + 1 .. Len(lines) + 1
         /\ Whole(<<<<column, lines[i].key>>>>
                    \o (ValueTokens(lines[i], column + 1) \o Segment(lines, i + 1, o.at)),
                  column, o.node)
<1> DEFINE v == Yaml!ParseValue(g, lines, i, column)
           others == g[v.at]["map"][column]
           key == lines[i].key
           value == ValueTokens(lines[i], column + 1)
           near == Segment(lines, i + 1, v.at)
           far == Segment(lines, v.at, others.at)
           t == <<column, key>>
<1>1. /\ i \in Nat /\ i + 1 \in Nat /\ i + 1 \in 1 .. Len(lines) + 1 /\ Len(lines) \in Nat
      /\ lines[i] \in YamlLines /\ column + 1 \in Nat /\ column + 1 > column
  OBVIOUS
<1>2. o = IF v.err \/ others.err \/ Yaml!HasKey(others.node, key) THEN Yaml!Failed
          ELSE Yaml!Parsed(Yaml!Under(key, v.node) \o others.node, others.at)
  BY DEF Yaml!ParseEntries
<1>3. key \in Labels BY <1>1 DEF Labels
<1> HIDE DEF v, others, key
<1>4. ~v.err /\ ~others.err /\ ~Yaml!HasKey(others.node, key) BY <1>2 DEF Yaml!Failed
<1>5. o.at = others.at /\ o.node = Yaml!Under(key, v.node) \o others.node
  <2> DEFINE node == Yaml!Under(key, v.node) \o others.node
             at == others.at
  <2>1. o = Yaml!Parsed(node, at) BY <1>2, <1>4
  <2> HIDE DEF node, at
  <2>2. o.at = at /\ o.node = node BY <2>1 DEF Yaml!Parsed
  <2> QED BY <2>2 DEF node, at
<1>6. v.at \in i + 1 .. Len(lines) + 1 /\ Below(value \o near, column, v.node)
  BY <1>1, <1>4, ValueIsBelow DEF v
<1>7. BlockIsWhole(others, lines, v.at, column)
  BY <1>6 DEF AfterIsWhole, others, Yaml!Kinds
<1>8. others.at \in v.at .. Len(lines) + 1 /\ Whole(far, column, others.node)
  BY <1>4, <1>7 DEF BlockIsWhole
<1>9. /\ v.at \in Nat /\ others.at \in Nat /\ others.at \in i + 1 .. Len(lines) + 1
      /\ v.at \in 1 .. Len(lines) + 1
  BY <1>1, <1>6, <1>8
<1>10. Segment(lines, i + 1, others.at) = near \o far BY <1>1, <1>6, <1>8, Segments
<1>11. value \in Seq(Places) /\ near \in Seq(Places) /\ far \in Seq(Places)
  <2>1. value \in Seq(Places)
    <3>1. lines[i].value \in Labels BY <1>1 DEF Labels
    <3>2. <<column + 1, lines[i].value>> \in Places BY <1>1, <3>1 DEF Places
    <3>3. \A p \in Places : <<p>> \in Seq(Places) OBVIOUS
    <3>4. <<>> \in Seq(Places) OBVIOUS
    <3> QED BY <3>2, <3>3, <3>4 DEF ValueTokens
  <2> QED BY <1>1, <1>6, <1>8, <2>1, Segments DEF Whole
<1>12. <<t>> \in Seq(Places)
  <2>1. t \in Places BY <1>3 DEF Places
  <2> HIDE DEF t
  <2> QED BY <2>1
<1>13. /\ value \o near \in Seq(Places) /\ ~Twins(OutlineOf(value \o near))
       /\ v.node = OutlineOf(value \o near)
       /\ \A k \in 1 .. Len(value \o near) : (value \o near)[k][1] > column
  BY <1>6 DEF Below
<1> HIDE DEF value, near, far
<1>14. Whole((<<t>> \o (value \o near)) \o far, column,
             Yaml!Under(key, OutlineOf(value \o near)) \o others.node)
  BY <1>3, <1>4, <1>8, <1>13, ItemIsWhole
<1> HIDE DEF t
<1>15. (<<t>> \o (value \o near)) \o far = <<t>> \o (value \o (near \o far))
  <2>1. \A p, q, r \in Seq(Places) : (p \o q) \o r = p \o (q \o r) OBVIOUS
  <2>2. (<<t>> \o (value \o near)) \o far = <<t>> \o ((value \o near) \o far)
    BY <1>11, <1>12, <1>13, <2>1
  <2>3. (value \o near) \o far = value \o (near \o far) BY <1>11, <2>1
  <2> QED BY <2>2, <2>3
<1>16. Whole(<<t>> \o (value \o Segment(lines, i + 1, o.at)), column, o.node)
  BY <1>5, <1>10, <1>13, <1>14, <1>15
<1> QED BY <1>5, <1>9, <1>16 DEF t, value, key

\* A dash, what is below it, and the other items of its sequence.
LEMMA SequenceIsWhole ==
  ASSUME NEW lines \in Seq(YamlLines), NEW i \in 1 .. Len(lines), NEW g, AfterIsWhole(g, lines, i),
         NEW indent \in Nat, Yaml!At(lines, i, indent), lines[i].item,
         NEW o, o = Yaml!ParseSequence(g, lines, i, indent), ~o.err
  PROVE  o.at \in i + 1 .. Len(lines) + 1 /\ Whole(Segment(lines, i, o.at), indent, o.node)
<1> DEFINE v == IF lines[i].key = None THEN Yaml!ParseValue(g, lines, i, indent)
                ELSE Yaml!ParseEntries(g, lines, i, indent + 2)
           others == g[v.at]["seq"][indent]
           key == IF lines[i].key # None THEN <<<<indent + 2, lines[i].key>>>> ELSE <<>>
           value == ValueTokens(lines[i], indent + 2 + 1)
           near == Segment(lines, i + 1, v.at)
           far == Segment(lines, v.at, others.at)
           body == key \o (value \o near)
           dash == <<<<indent, "-">>>>
<1>1. /\ i \in Nat /\ i + 1 \in Nat /\ i + 1 \in 1 .. Len(lines) + 1 /\ Len(lines) \in Nat
      /\ i \in 1 .. Len(lines) + 1 /\ i + 1 \in i .. Len(lines) + 1 /\ i <= Len(lines)
      /\ lines[i] \in YamlLines /\ lines[i].indent = indent
      /\ indent + 2 \in Nat /\ indent + 2 + 1 \in Nat /\ indent + 2 + 1 > indent
      /\ indent + 2 > indent
  BY DEF Yaml!At
<1>2. o = IF v.err \/ others.err THEN Yaml!Failed
          ELSE Yaml!Parsed(Yaml!Under("-", v.node) \o others.node, others.at)
  BY DEF Yaml!ParseSequence
<1> HIDE DEF others
<1>3. ~v.err /\ ~others.err BY <1>2 DEF Yaml!Failed
<1>4. o.at = others.at /\ o.node = Yaml!Under("-", v.node) \o others.node
  <2> DEFINE node == Yaml!Under("-", v.node) \o others.node
             at == others.at
  <2>1. o = Yaml!Parsed(node, at) BY <1>2, <1>3
  <2> HIDE DEF node, at
  <2>2. o.at = at /\ o.node = node BY <2>1 DEF Yaml!Parsed
  <2> QED BY <2>2 DEF node, at
<1>5. \A p, q, r \in Seq(Places) : (p \o q) \o r = p \o (q \o r) OBVIOUS
<1>6. \A p \in Seq(Places) : <<>> \o p = p OBVIOUS
<1>7. value \in Seq(Places) /\ key \in Seq(Places) /\ dash \in Seq(Places)
  <2>1. {lines[i].value, lines[i].key, "-"} \subseteq Labels BY <1>1 DEF Labels
  <2>2. /\ <<indent + 2 + 1, lines[i].value>> \in Places
        /\ <<indent + 2, lines[i].key>> \in Places /\ <<indent, "-">> \in Places
    BY <1>1, <2>1 DEF Places
  <2>3. \A p \in Places : <<p>> \in Seq(Places) OBVIOUS
  <2>4. <<>> \in Seq(Places) OBVIOUS
  <2> QED BY <2>2, <2>3, <2>4 DEF ValueTokens
<1>8. v.at \in i + 1 .. Len(lines) + 1 /\ Below(body, indent, v.node)
  <2>1. CASE lines[i].key = None
    <3>1. v = Yaml!ParseValue(g, lines, i, indent) BY <2>1
    <3>2. key = <<>> BY <2>1
    <3> HIDE DEF v, key, value
    <3>3. v.at \in i + 1 .. Len(lines) + 1 /\ Below(value \o near, indent, v.node)
      BY <1>1, <1>3, <3>1, ValueIsBelow DEF value
    <3>4. value \o near \in Seq(Places) BY <3>3 DEF Below
    <3> HIDE DEF near
    <3>5. body = value \o near BY <1>6, <3>2, <3>4
    <3> QED BY <3>3, <3>5
  <2>2. CASE lines[i].key # None
    <3>1. v = Yaml!ParseEntries(g, lines, i, indent + 2) BY <2>2
    <3>2. key = <<<<indent + 2, lines[i].key>>>> BY <2>2
    <3> HIDE DEF v, key, value
    <3>3. /\ v.at \in i + 1 .. Len(lines) + 1
          /\ Whole(key \o (value \o near), indent + 2, v.node)
      BY <1>1, <1>3, <2>2, <3>1, <3>2, EntriesAreWhole DEF value
    <3> HIDE DEF near
    <3>4. Below(body, indent, v.node) BY <1>1, <3>3, WholeIsBelow
    <3> QED BY <3>3, <3>4
  <2> QED BY <2>1, <2>2
<1> HIDE DEF v, key, value
<1>9. BlockIsWhole(others, lines, v.at, indent)
  BY <1>8 DEF AfterIsWhole, others, Yaml!Kinds
<1>10. others.at \in v.at .. Len(lines) + 1 /\ Whole(far, indent, others.node)
  BY <1>3, <1>9 DEF BlockIsWhole
<1>11. /\ v.at \in Nat /\ others.at \in Nat /\ others.at \in i + 1 .. Len(lines) + 1
       /\ others.at \in i .. Len(lines) + 1 /\ v.at \in 1 .. Len(lines) + 1
  BY <1>1, <1>8, <1>10
<1>12. /\ Segment(lines, i, others.at) = Segment(lines, i, i + 1) \o Segment(lines, i + 1, others.at)
       /\ Segment(lines, i, i + 1) = ReadTokens(lines[i])
  BY <1>1, <1>11, Segments
<1>13. Segment(lines, i + 1, others.at) = near \o far BY <1>1, <1>8, <1>10, Segments
<1>14. near \in Seq(Places) /\ far \in Seq(Places) BY <1>1, <1>8, <1>10, Segments DEF Whole
<1>15. ReadTokens(lines[i]) = (dash \o key) \o value BY <1>1 DEF ReadTokens, TokensAt, key, value, ValueTokens
<1>16. /\ body \in Seq(Places) /\ ~Twins(OutlineOf(body)) /\ v.node = OutlineOf(body)
       /\ \A k \in 1 .. Len(body) : body[k][1] > indent
  BY <1>8 DEF Below
<1>17. "-" \in Labels BY DEF Labels
<1> HIDE DEF near, far
<1>18. Whole((dash \o body) \o far, indent, Yaml!Under("-", OutlineOf(body)) \o others.node)
  <2> HIDE DEF body
  <2> QED BY <1>10, <1>16, <1>17, ItemIsWhole
<1> HIDE DEF dash
<1>19. (dash \o body) \o far = ((dash \o key) \o value) \o (near \o far)
  <2>1. (dash \o body) \o far = dash \o (body \o far) BY <1>5, <1>7, <1>14, <1>16
  <2>2. value \o near \in Seq(Places) /\ near \o far \in Seq(Places)
        /\ value \o (near \o far) \in Seq(Places)
    BY <1>7, <1>14
  <2>3. body \o far = key \o ((value \o near) \o far) BY <1>5, <1>7, <1>14, <2>2, ZenonT(40)
  <2>4. (value \o near) \o far = value \o (near \o far) BY <1>5, <1>7, <1>14
  <2>5. ((dash \o key) \o value) \o (near \o far) = (dash \o key) \o (value \o (near \o far))
    <3>1. dash \o key \in Seq(Places) BY <1>7
    <3> QED BY <1>5, <1>7, <2>2, <3>1
  <2>6. (dash \o key) \o (value \o (near \o far)) = dash \o (key \o (value \o (near \o far)))
    BY <1>5, <1>7, <2>2
  <2> QED BY <2>1, <2>3, <2>4, <2>5, <2>6
<1> HIDE DEF body
<1>20. Segment(lines, i, o.at) = (dash \o body) \o far
  BY <1>4, <1>12, <1>13, <1>15, <1>19
<1> QED BY <1>4, <1>11, <1>16, <1>18, <1>20

\* An entry of a mapping starts at its line's column.
LEMMA MappingIsWhole ==
  ASSUME NEW lines \in Seq(YamlLines), NEW i \in 1 .. Len(lines), NEW g, AfterIsWhole(g, lines, i),
         NEW indent \in Nat, Yaml!At(lines, i, indent),
         NEW o, o = Yaml!ParseMapping(g, lines, i, indent), ~o.err
  PROVE  o.at \in i + 1 .. Len(lines) + 1 /\ Whole(Segment(lines, i, o.at), indent, o.node)
<1>1. /\ i \in Nat /\ i + 1 \in Nat /\ i + 1 \in 1 .. Len(lines) + 1 /\ Len(lines) \in Nat
      /\ i \in 1 .. Len(lines) + 1 /\ i + 1 \in i .. Len(lines) + 1 /\ i <= Len(lines)
      /\ lines[i] \in YamlLines /\ lines[i].indent = indent
  BY DEF Yaml!At
<1>2. /\ ~lines[i].item /\ lines[i].key # None
      /\ o = Yaml!ParseEntries(g, lines, i, indent)
  BY DEF Yaml!ParseMapping, Yaml!Failed
<1> DEFINE key == <<<<indent, lines[i].key>>>>
           value == ValueTokens(lines[i], indent + 1)
           later == Segment(lines, i + 1, o.at)
<1>3. /\ o.at \in i + 1 .. Len(lines) + 1
      /\ Whole(key \o (value \o later), indent, o.node)
  BY <1>2, EntriesAreWhole
<1>4. o.at \in Nat /\ o.at \in i .. Len(lines) + 1 BY <1>1, <1>3
<1>5. /\ Segment(lines, i, o.at) = Segment(lines, i, i + 1) \o later
      /\ Segment(lines, i, i + 1) = ReadTokens(lines[i])
  BY <1>1, <1>3, <1>4, Segments
<1>6. ReadTokens(lines[i]) = (<<>> \o key) \o value BY <1>1, <1>2 DEF ReadTokens, TokensAt, ValueTokens
<1>7. later \in Seq(Places) BY <1>1, <1>3, Segments
<1>8. key \in Seq(Places) /\ value \in Seq(Places)
  <2>1. {lines[i].value, lines[i].key} \subseteq Labels BY <1>1 DEF Labels
  <2>2. <<indent + 1, lines[i].value>> \in Places /\ <<indent, lines[i].key>> \in Places
    BY <2>1 DEF Places
  <2>3. \A p \in Places : <<p>> \in Seq(Places) OBVIOUS
  <2>4. <<>> \in Seq(Places) OBVIOUS
  <2> QED BY <2>2, <2>3, <2>4 DEF ValueTokens
<1> HIDE DEF key, value, later
<1>9. ((<<>> \o key) \o value) \o later = key \o (value \o later)
  <2>1. \A p, q, r \in Seq(Places) : (p \o q) \o r = p \o (q \o r) OBVIOUS
  <2>2. \A p \in Seq(Places) : <<>> \o p = p OBVIOUS
  <2> QED BY <1>7, <1>8, <2>1, <2>2
<1> QED BY <1>3, <1>4, <1>5, <1>6, <1>9

\* Either kind of block, also when it ends at once.
LEMMA BlockKeepsAll ==
  ASSUME NEW lines \in Seq(YamlLines), NEW i \in 1 .. Len(lines) + 1, NEW g, AfterIsWhole(g, lines, i),
         NEW kind \in Yaml!Kinds, NEW indent \in Nat,
         Yaml!Block(g, lines, i, kind, indent).err \in BOOLEAN
  PROVE  BlockIsWhole(Yaml!Block(g, lines, i, kind, indent), lines, i, indent)
<1> DEFINE o == Yaml!Block(g, lines, i, kind, indent)
<1>1. i \in Nat /\ Len(lines) \in Nat /\ i \in i .. Len(lines) + 1 OBVIOUS
<1>2. BlockIsWhole(Yaml!Parsed(Yaml!Null, i), lines, i, indent)
  BY <1>1, NothingIsWhole, Segments DEF BlockIsWhole, Yaml!Parsed, Yaml!Null
<1>3. CASE ~Yaml!At(lines, i, indent)
  BY <1>2, <1>3 DEF Yaml!Block, Yaml!ParseMapping, Yaml!ParseSequence
<1>4. CASE Yaml!At(lines, i, indent) /\ o.err
  BY <1>4 DEF BlockIsWhole
<1>5. CASE Yaml!At(lines, i, indent) /\ ~o.err
  <2>1. i \in 1 .. Len(lines) BY <1>1, <1>5 DEF Yaml!At
  <2>2. \A n \in i + 1 .. Len(lines) + 1 : n \in i .. Len(lines) + 1 BY <1>1
  <2>3. CASE kind = "map"
    <3>1. o = Yaml!ParseMapping(g, lines, i, indent) BY <2>3 DEF Yaml!Block
    <3> HIDE DEF o
    <3>2. o.at \in i + 1 .. Len(lines) + 1 /\ Whole(Segment(lines, i, o.at), indent, o.node)
      BY <1>5, <2>1, <3>1, MappingIsWhole
    <3> QED BY <2>2, <3>2 DEF BlockIsWhole, o
  <2>4. CASE kind # "map" /\ lines[i].item
    <3>1. o = Yaml!ParseSequence(g, lines, i, indent) BY <2>4 DEF Yaml!Block
    <3> HIDE DEF o
    <3>2. o.at \in i + 1 .. Len(lines) + 1 /\ Whole(Segment(lines, i, o.at), indent, o.node)
      BY <1>5, <2>1, <2>4, <3>1, SequenceIsWhole
    <3> QED BY <2>2, <3>2 DEF BlockIsWhole, o
  <2>5. CASE kind # "map" /\ ~lines[i].item
    BY <1>2, <2>5 DEF Yaml!Block, Yaml!ParseSequence
  <2> QED BY <2>3, <2>4, <2>5
<1> QED BY <1>3, <1>4, <1>5

\* Every block of a file that is read is the outline of its lines.
LEMMA BlocksKeepAll ==
  ASSUME NEW lines \in Seq(YamlLines), NEW g, g = Yaml!Blocks(lines)
  PROVE  \A i \in 1 .. Len(lines) + 1, kind \in Yaml!Kinds, indent \in Nat :
           BlockIsWhole(g[i][kind][indent], lines, i, indent)
<1> DEFINE last == Len(lines) + 1
           F == {m \in 1 .. last + 1 :
                   \A i \in m .. last, kind \in Yaml!Kinds, indent \in Nat :
                     BlockIsWhole(g[i][kind][indent], lines, i, indent)}
<1>1. last \in Nat /\ 1 \in 1 .. last + 1 OBVIOUS
<1>2. last + 1 \in F
  <2>1. last + 1 .. last = {} /\ last + 1 \in 1 .. last + 1 BY <1>1
  <2> QED BY <2>1
<1>3. ASSUME NEW m \in 1 .. last, m + 1 \in F PROVE m \in F
  <2>1. m \in Nat /\ m \in 1 .. Len(lines) + 1 /\ m \in 1 .. last + 1 OBVIOUS
  <2>2. AfterIsWhole(g, lines, m) BY <1>3 DEF AfterIsWhole
  <2>3. ASSUME NEW kind \in Yaml!Kinds, NEW indent \in Nat
        PROVE  BlockIsWhole(g[m][kind][indent], lines, m, indent)
    <3>1. g[m][kind][indent] = Yaml!Block(g, lines, m, kind, indent) BY <2>1, BlocksUnfold
    <3>2. Later(g, g, lines, m)
      <4>1. AllEnd(g, m + 1, Len(lines) + 1)
        BY <2>1, <2>2 DEF AllEnd, AfterIsWhole, BlockIsWhole, Ends
      <4> QED BY <4>1 DEF Later, Alike
    <3>3. Yaml!Block(g, lines, m, kind, indent).err \in BOOLEAN
      BY <2>1, <3>2, BlockIsLater DEF Ends
    <3> QED BY <2>1, <2>2, <3>1, <3>3, BlockKeepsAll
  <2>4. \A i \in m .. last : i = m \/ i \in m + 1 .. last BY <1>1, <2>1
  <2> QED BY <1>3, <2>1, <2>3, <2>4
<1>4. 1 \in F
  <2> HIDE DEF F, last
  <2> QED BY <1>1, <1>2, <1>3, FromTheEnd
<1> QED BY <1>4

\* A file that is accepted is one block, up to its last line.
LEMMA FileIsWhole ==
  ASSUME NEW raw \in Seq(YamlLines), NEW doc, doc = Yaml!ParseYaml(raw), ~doc.err
  PROVE  doc.node = OutlineOf(ReadTokensOf(Yaml!Scan(raw))) /\ ~Twins(doc.node)
<1> DEFINE lines == Yaml!Scan(raw)
           g == Yaml!Blocks(lines)
           kind == IF lines[1].item THEN "seq" ELSE "map"
           first == g[1][kind][lines[1].indent]
<1>1. lines \in Seq(YamlLines) BY ScanKeepsLines
<1>2. CASE lines = <<>>
  <2>1. doc.node = <<>>
    BY <1>2 DEF Yaml!ParseYaml, Yaml!Failed, Yaml!Parsed, Yaml!Null
  <2>2. ReadTokensOf(lines) = <<>> BY <1>2, TokensJoin
  <2>3. 0 \in Nat OBVIOUS
  <2> QED BY <2>1, <2>2, <2>3, NothingIsWhole
<1>3. CASE lines # <<>>
  <2>1. ~(first.err \/ first.at <= Len(lines)) /\ doc = first
    BY <1>3 DEF Yaml!ParseYaml, Yaml!ParseNode, Yaml!Failed
  <2>2. 1 \in 1 .. Len(lines) /\ 1 \in 1 .. Len(lines) + 1 /\ Len(lines) \in Nat
    <3> HIDE DEF lines
    <3> QED BY <1>1, <1>3
  <2>3. lines[1].indent \in Nat /\ kind \in Yaml!Kinds
    <3>1. lines[1] \in YamlLines
      <4> HIDE DEF lines
      <4> QED BY <1>1, <2>2
    <3> QED BY <3>1, LinesOK DEF Yaml!Kinds
  <2> HIDE DEF lines, g, kind
  <2>4. BlockIsWhole(first, lines, 1, lines[1].indent) BY <1>1, <2>2, <2>3, BlocksKeepAll DEF g
  <2>5. first.at \in 1 .. Len(lines) + 1 /\ Whole(Segment(lines, 1, first.at), lines[1].indent, first.node)
    BY <2>1, <2>4 DEF BlockIsWhole
  <2>6. first.at - 1 = Len(lines) BY <2>1, <2>2, <2>5
  <2>7. SubSeq(lines, 1, Len(lines)) = lines BY <1>1
  <2>8. Whole(ReadTokensOf(lines), lines[1].indent, doc.node) BY <2>1, <2>5, <2>6, <2>7 DEF Segment
  <2> QED BY <2>8 DEF Whole, lines
<1> QED BY <1>2, <1>3

(***************************************************************************)
(* What the reader takes the tokens to be, and what they are.              *)
(***************************************************************************)

\* Sequences of places with the same labels.
SameLabels(a, b) ==
  a \in Seq(Places) /\ b \in Seq(Places) /\ Len(a) = Len(b) /\ \A i \in 1 .. Len(a) : a[i][2] = b[i][2]

\* The tokens of these lines are what the reader takes them to be, but for
\* their columns, and these too where one blank follows each dash.
Shown(lines, ts) ==
  /\ SameLabels(ts, ReadTokensOf(lines))
  /\ (\A n \in 1 .. Len(lines) : Tight(lines[n])) => ts = ReadTokensOf(lines)

Real == INSTANCE FoldTheory WITH
  Op   <- LAMBDA ts, l : ts \o Tokens(l),
  Base <- <<>>,
  Inv  <- Shown

\* One after the other they have the same labels too.
LEMMA SameLabelsJoin ==
  ASSUME NEW a, NEW b, NEW c, NEW d, SameLabels(a, b), SameLabels(c, d)
  PROVE  SameLabels(a \o c, b \o d)
<1> USE DEF SameLabels
<1>1. ASSUME NEW i \in 1 .. Len(a \o c) PROVE (a \o c)[i][2] = (b \o d)[i][2]
  <2>1. CASE i <= Len(a)
    <3>1. (a \o c)[i] = a[i] /\ (b \o d)[i] = b[i] /\ i \in 1 .. Len(a) BY <2>1
    <3> QED BY <3>1
  <2>2. CASE i > Len(a)
    <3>1. (a \o c)[i] = c[i - Len(a)] /\ (b \o d)[i] = d[i - Len(a)] /\ i - Len(a) \in 1 .. Len(c)
      BY <2>2
    <3> QED BY <3>1
  <2> QED BY <2>1, <2>2
<1>2. a \o c \in Seq(Places) /\ b \o d \in Seq(Places) /\ Len(a \o c) = Len(b \o d) OBVIOUS
<1> QED BY <1>1, <1>2

\* Wherever the key of a line is taken to be, its labels are the same; where the
\* dash is followed by one blank, so are their columns.
LEMMA LineIsShown ==
  ASSUME NEW l \in YamlLines
  PROVE  SameLabels(Tokens(l), ReadTokens(l)) /\ (Tight(l) => Tokens(l) = ReadTokens(l))
<1> DEFINE read == IF l.item THEN l.indent + 2 ELSE l.indent
<1>1. l.indent \in Nat /\ l.inner \in Nat /\ (l.item \/ l.inner = l.indent) /\ l.item \in BOOLEAN
  BY LinesOK
<1>2. {"-", l.key, l.value} \subseteq Labels BY DEF Labels
<1>3. ASSUME NEW m \in Nat, NEW n \in Nat PROVE SameLabels(TokensAt(l, m), TokensAt(l, n))
  <2> DEFINE dash == IF l.item THEN <<<<l.indent, "-">>>> ELSE <<>>
             key(c) == IF l.key # None THEN <<<<c, l.key>>>> ELSE <<>>
             value(c) == IF l.value # None THEN <<<<c + 1, l.value>>>> ELSE <<>>
  <2>1. \A c \in Nat : /\ <<c, l.key>> \in Places /\ <<c + 1, l.value>> \in Places
                       /\ <<l.indent, "-">> \in Places
    BY <1>1, <1>2 DEF Places
  <2>2. dash \in Seq(Places) /\ \A c \in Nat : key(c) \in Seq(Places) /\ value(c) \in Seq(Places)
    <3>1. \A p \in Places : <<p>> \in Seq(Places) OBVIOUS
    <3>2. <<>> \in Seq(Places) OBVIOUS
    <3> QED BY <2>1, <3>1, <3>2
  <2>3. SameLabels(dash, dash) BY <2>2 DEF SameLabels
  <2>4. SameLabels(key(m), key(n))
    <3>1. Len(key(m)) = Len(key(n)) /\ \A i \in 1 .. Len(key(m)) : key(m)[i][2] = key(n)[i][2]
      OBVIOUS
    <3> HIDE DEF key
    <3> QED BY <2>2, <3>1 DEF SameLabels
  <2>5. SameLabels(value(m), value(n))
    <3>1. Len(value(m)) = Len(value(n)) /\ \A i \in 1 .. Len(value(m)) : value(m)[i][2] = value(n)[i][2]
      OBVIOUS
    <3> HIDE DEF value
    <3> QED BY <2>2, <3>1 DEF SameLabels
  <2> HIDE DEF dash, key, value
  <2>6. SameLabels(dash \o key(m), dash \o key(n)) BY <2>3, <2>4, SameLabelsJoin
  <2>7. SameLabels((dash \o key(m)) \o value(m), (dash \o key(n)) \o value(n))
    BY <2>5, <2>6, SameLabelsJoin
  <2> QED BY <2>7 DEF TokensAt, dash, key, value
<1>4. read \in Nat BY <1>1
<1>5. Tight(l) => l.inner = read BY <1>1 DEF Tight
<1> HIDE DEF read
<1> QED BY <1>1, <1>3, <1>4, <1>5 DEF Tokens, ReadTokens, read

\* The lines of a file are shown.
LEMMA LinesAreShown == \A lines \in Seq(YamlLines) : Shown(lines, TokensOf(lines))
<1>1. Shown(<<>>, <<>>)
  <2>1. <<>> \in Seq(Places) /\ Len(<<>>) = 0 OBVIOUS
  <2> QED BY <2>1, TokensJoin DEF Shown, SameLabels
<1>2. ASSUME NEW lines \in Seq(YamlLines), NEW l \in YamlLines, NEW ts, Shown(lines, ts)
      PROVE  Shown(Append(lines, l), ts \o Tokens(l))
  <2>1. ReadTokensOf(Append(lines, l)) = ReadTokensOf(lines) \o ReadTokens(l)
    BY Joins!FoldOfAppend, TokensIsFold
  <2>2. SameLabels(ts \o Tokens(l), ReadTokensOf(lines) \o ReadTokens(l))
    BY <1>2, LineIsShown, SameLabelsJoin DEF Shown
  <2>3. ASSUME \A n \in 1 .. Len(Append(lines, l)) : Tight(Append(lines, l)[n])
        PROVE  ts = ReadTokensOf(lines) /\ Tokens(l) = ReadTokens(l)
    <3>1. Len(Append(lines, l)) = Len(lines) + 1 /\ Append(lines, l)[Len(lines) + 1] = l
          /\ \A n \in 1 .. Len(lines) : Append(lines, l)[n] = lines[n]
      OBVIOUS
    <3>2. Tight(l) /\ \A n \in 1 .. Len(lines) : Tight(lines[n])
      BY <2>3, <3>1
    <3> QED BY <1>2, <3>2, LineIsShown DEF Shown
  <2> QED BY <2>1, <2>2, <2>3 DEF Shown
<1>3. \A lines \in Seq(YamlLines) : Shown(lines, Real!Fold(lines))
  BY <1>1, <1>2, Real!FoldKeeps
<1>4. \A lines : TokensOf(lines) = Real!Fold(lines)
  BY DEF TokensOf, FoldLeft, MapThenFoldSet, Max,
         Real!Fold, Real!FoldLeft, Real!MapThenFoldSet, Real!Max
<1> QED BY <1>3, <1>4

\* The reader loses nothing of a file it accepts, and misplaces nothing where
\* one blank follows each dash, whatever the file's length and nesting
\* (parseYaml, yaml-lite.ts).
THEOREM YamlNeverLoses == Spec => []YamlLosesNothing
<1>1. ASSUME file \in Seq(YamlLines) PROVE YamlLosesNothing
  <2> DEFINE doc   == Yaml!ParseYaml(file)
             lines == Yaml!Scan(file)
             ts    == TokensOf(lines)
             us    == ReadTokensOf(lines)
  <2> SUFFICES ASSUME ~doc.err
               PROVE  /\ [i \in DOMAIN doc.node |-> doc.node[i][2]] = [i \in DOMAIN ts |-> ts[i][2]]
                      /\ (\A n \in DOMAIN lines : Tight(lines[n])) => doc.node = OutlineOf(ts)
                      /\ ~Twins(doc.node)
    BY DEF YamlLosesNothing, OutlineOf
  <2>1. doc.node = OutlineOf(us) /\ ~Twins(doc.node) BY <1>1, FileIsWhole
  <2>2. lines \in Seq(YamlLines) /\ Shown(lines, ts) BY <1>1, ScanKeepsLines, LinesAreShown
  <2>3. us \in Seq(Places) BY <2>2, TokensJoin
  <2> HIDE DEF doc, lines, ts, us
  <2>4. ts \in Seq(Places) /\ Len(ts) = Len(us) /\ \A i \in 1 .. Len(ts) : ts[i][2] = us[i][2]
    BY <2>2 DEF Shown, SameLabels, us
  <2>5. [i \in DOMAIN doc.node |-> doc.node[i][2]] = [i \in DOMAIN ts |-> ts[i][2]]
    <3>1. DOMAIN doc.node = DOMAIN us /\ DOMAIN us = DOMAIN ts /\ DOMAIN ts = 1 .. Len(ts)
      BY <2>1, <2>3, <2>4 DEF OutlineOf
    <3>2. \A i \in DOMAIN ts : doc.node[i][2] = us[i][2] BY <2>1, <3>1 DEF OutlineOf
    <3> QED BY <2>4, <3>1, <3>2
  <2>6. (\A n \in DOMAIN lines : Tight(lines[n])) => ts = us
    <3>1. DOMAIN lines = 1 .. Len(lines) BY <2>2
    <3> QED BY <2>2, <3>1 DEF Shown, us
  <2> QED BY <2>1, <2>5, <2>6
<1>2. Init => file \in Seq(YamlLines) BY DEF Init
<1>3. file \in Seq(YamlLines) /\ [Next]_vars => (file \in Seq(YamlLines))'
  BY DEF Next, vars, AppendClaude, AppendCodex, WriteLine, Reply
<1> QED BY <1>1, <1>2, <1>3, PTL DEF Spec

=============================================================================
