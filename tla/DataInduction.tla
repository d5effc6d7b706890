----------------------------- MODULE DataInduction -----------------------------
(***************************************************************************)
(* What the proofs about sequences need of the natural numbers and of      *)
(* functions defined by recursion.  The library states induction with an   *)
(* operator for its parameter, which the provers cannot instantiate; here  *)
(* it is a set of numbers, and the step of a recursion is a function.      *)
(* Everything rests on the well-foundedness of < on Nat.                   *)
(***************************************************************************)
EXTENDS Naturals, SequencesExt, WellFoundedInduction, SequenceTheorems, TLAPS

LEMMA LeastNatural ==
  ASSUME NEW S \in SUBSET Nat, S # {}
  PROVE  \E x \in S : \A y \in S : x <= y
<1> DEFINE R == {ss \in Nat \X Nat : ss[1] < ss[2]}
<1>1. IsWellFoundedOn(R, Nat)
  BY NatLessThanWellFounded DEF OpToRel
<1>2. \A y, x \in Nat : y < x => <<y, x>> \in R
  OBVIOUS
<1> HIDE DEF R
<1>3. PICK x \in S : \A y \in S : ~ (<<y, x>> \in R)
  BY <1>1, WFMin
<1>4. \A y \in S : ~ (y < x)
  BY <1>2, <1>3
<1> QED
  BY <1>4

LEMMA MinOfNaturals ==
  ASSUME NEW S \in SUBSET Nat, S # {}
  PROVE  Min(S) \in S /\ \A y \in S : Min(S) <= y
<1>1. \E x \in S : \A y \in S : x =< y
  BY LeastNatural
<1> QED
  BY <1>1 DEF Min

LEMMA SetInduction ==
  ASSUME NEW S \in SUBSET Nat, 0 \in S, \A n \in S : n + 1 \in S
  PROVE  S = Nat
<1>1. SUFFICES ASSUME S # Nat PROVE FALSE
  OBVIOUS
<1>2. PICK x \in Nat \ S : \A y \in Nat \ S : x <= y
  <2>1. Nat \ S \in SUBSET Nat /\ Nat \ S # {}
    BY <1>1
  <2> QED
    BY <2>1, LeastNatural
<1>3. x - 1 \in Nat
  BY <1>2
<1>4. x - 1 \in S
  BY <1>2, <1>3
<1> QED
  BY <1>4, <1>2

\* f starts at e and follows the step G up to n.
Follows(f, n, e, G) == f[0] = e /\ \A i \in 1 .. n : f[i] = G[<<f[i - 1], i>>]

\* A function defined by recursion on the numbers up to n exists.
LEMMA RecursiveFunction ==
  ASSUME NEW n \in Nat, NEW V, NEW e \in V, NEW G \in [V \X (1 .. n) -> V]
  PROVE  \E f \in [0 .. n -> V] : Follows(f, n, e, G)
<1> DEFINE Ok(k, f) == f[0] = e /\ \A i \in 1 .. k : f[i] = G[<<f[i - 1], i>>]
           S == {k \in Nat : k <= n => \E f \in [0 .. k -> V] : Ok(k, f)}
<1>1. 0 \in S
  <2> DEFINE g == [i \in 0 .. 0 |-> e]
  <2>1. g \in [0 .. 0 -> V] /\ Ok(0, g)
    OBVIOUS
  <2> QED
    BY <2>1
<1>2. ASSUME NEW k \in S PROVE k + 1 \in S
  <2> SUFFICES ASSUME k + 1 <= n PROVE \E f \in [0 .. (k + 1) -> V] : Ok(k + 1, f)
    OBVIOUS
  <2>1. PICK f \in [0 .. k -> V] : Ok(k, f)
    OBVIOUS
  <2> DEFINE g == [i \in 0 .. (k + 1) |-> IF i <= k THEN f[i] ELSE G[<<f[k], k + 1>>]]
  <2>2. <<f[k], k + 1>> \in V \X (1 .. n)
    BY <2>1
  <2>3. g \in [0 .. (k + 1) -> V]
    BY <2>1, <2>2
  <2>4. g[0] = e
    BY <2>1
  <2>5. ASSUME NEW i \in 1 .. (k + 1) PROVE g[i] = G[<<g[i - 1], i>>]
    <3>1. CASE i <= k
      BY <3>1, <2>1
    <3>2. CASE i = k + 1
      BY <3>2, <2>1
    <3> QED
      BY <3>1, <3>2
  <2>6. Ok(k + 1, g)
    BY <2>4, <2>5
  <2> QED
    BY <2>3, <2>6
<1>3. S = Nat
  <2>1. S \in SUBSET Nat
    OBVIOUS
  <2> HIDE DEF S
  <2> QED
    BY <1>1, <1>2, <2>1, SetInduction
<1>4. n \in S
  BY <1>3
<1> QED
  BY <1>4 DEF Follows

\* So does one that applies the same step again and again.
Iterates(f, n, e, step) == f[0] = e /\ \A i \in 1 .. n : f[i] = step[f[i - 1]]

LEMMA Iteration ==
  ASSUME NEW n \in Nat, NEW V, NEW e \in V, NEW step \in [V -> V]
  PROVE  \E f \in [0 .. n -> V] : Iterates(f, n, e, step)
<1> DEFINE G == [p \in V \X (1 .. n) |-> step[p[1]]]
<1>1. G \in [V \X (1 .. n) -> V]
  OBVIOUS
<1>2. PICK f \in [0 .. n -> V] : Follows(f, n, e, G)
  <2> HIDE DEF G
  <2> QED
    BY <1>1, RecursiveFunction
<1>3. ASSUME NEW i \in 1 .. n PROVE f[i] = step[f[i - 1]]
  <2>1. f[i - 1] \in V
    OBVIOUS
  <2>2. G[<<f[i - 1], i>>] = step[f[i - 1]]
    BY <2>1
  <2> QED
    BY <1>2, <2>2 DEF Follows
<1>4. Iterates(f, n, e, step)
  BY <1>2, <1>3 DEF Follows, Iterates
<1> QED
  BY <1>4

-----------------------------------------------------------------------------
\* A sequence and the set of its elements.
LEMMA ToSetOfConcat ==
  ASSUME NEW V, NEW s \in Seq(V), NEW t \in Seq(V)
  PROVE  /\ s \o t \in Seq(V)
         /\ ToSet(s \o t) = ToSet(s) \cup ToSet(t)
<1>1. s \o t \in Seq(V) /\ Len(s \o t) = Len(s) + Len(t)
  OBVIOUS
<1>2. \A i \in 1 .. Len(s) : (s \o t)[i] = s[i]
  OBVIOUS
<1>3. \A i \in 1 .. Len(t) : (s \o t)[Len(s) + i] = t[i]
  OBVIOUS
<1>4. \A i \in 1 .. (Len(s) + Len(t)) :
        i \in 1 .. Len(s) \/ (i - Len(s) \in 1 .. Len(t) /\ i = Len(s) + (i - Len(s)))
  OBVIOUS
<1>5. ToSet(s \o t) \subseteq ToSet(s) \cup ToSet(t)
  BY <1>1, <1>2, <1>3, <1>4 DEF ToSet
<1>6. ToSet(s) \subseteq ToSet(s \o t)
  BY <1>1, <1>2 DEF ToSet
<1>7. ToSet(t) \subseteq ToSet(s \o t)
  <2>1. DOMAIN t = 1 .. Len(t) /\ \A i \in 1 .. Len(t) : Len(s) + i \in DOMAIN (s \o t)
    BY <1>1
  <2> QED
    BY <1>3, <2>1 DEF ToSet
<1> QED
  BY <1>1, <1>5, <1>6, <1>7

\* A sequence is its first k elements and the others.
LEMMA SplitSeq ==
  ASSUME NEW V, NEW t \in Seq(V), NEW k \in 0 .. Len(t)
  PROVE  /\ SubSeq(t, 1, k) \in Seq(V) /\ SubSeq(t, k + 1, Len(t)) \in Seq(V)
         /\ Len(SubSeq(t, 1, k)) = k /\ Len(SubSeq(t, k + 1, Len(t))) = Len(t) - k
         /\ SubSeq(t, 1, k) \o SubSeq(t, k + 1, Len(t)) = t
<1> DEFINE n == Len(t)
           a == SubSeq(t, 1, k)
           b == SubSeq(t, k + 1, n)
           c == a \o b
<1>0. k \in Nat /\ n \in Nat /\ k <= n /\ t \in Seq(V) /\ Len(t) = n
  OBVIOUS
<1>1. a \in Seq(V) /\ Len(a) = k /\ \A i \in 1 .. k : a[i] = t[i]
  OBVIOUS
<1>2. b \in Seq(V) /\ Len(b) = n - k /\ \A i \in 1 .. (n - k) : b[i] = t[k + i]
  OBVIOUS
<1> HIDE DEF a, b, n
<1>3. /\ c \in Seq(V) /\ Len(c) = Len(a) + Len(b)
      /\ \A i \in 1 .. (Len(a) + Len(b)) : c[i] = IF i <= Len(a) THEN a[i] ELSE b[i - Len(a)]
  BY ONLY <1>1, <1>2, ConcatProperties DEF c
<1> HIDE DEF c
<1>4. Len(a) + Len(b) = n
  BY <1>0, <1>1, <1>2
<1>5. ASSUME NEW i \in 1 .. n PROVE c[i] = t[i]
  <2>1. c[i] = IF i <= k THEN a[i] ELSE b[i - k]
    BY <1>1, <1>3, <1>4
  <2>2. CASE i <= k
    BY ONLY <1>0, <1>1, <2>1, <2>2, i \in 1 .. n
  <2>3. CASE i > k
    <3>1. i - k \in 1 .. (n - k) /\ k + (i - k) = i
      BY ONLY <1>0, <2>3, i \in 1 .. n
    <3> QED
      BY ONLY <1>0, <1>2, <2>1, <2>3, <3>1, i \in 1 .. n
  <2>4. i <= k \/ i > k
    BY <1>0
  <2> QED
    BY <2>2, <2>3, <2>4
<1>6. c = t
  BY <1>0, <1>3, <1>4, <1>5, SeqEqual
<1> QED
  BY <1>1, <1>2, <1>6 DEF a, b, c, n

LEMMA Join ==
  ASSUME NEW V, NEW s \in Seq(V), NEW a \in Seq(V), NEW b \in Seq(V), NEW t, t = a \o b
  PROVE  (s \o a) \o b = s \o t
OBVIOUS

LEMMA Pair ==
  ASSUME NEW V, NEW x \in V, NEW y \in V
  PROVE  <<x>> \o <<y>> = <<x, y>>
<1> DEFINE a == <<x>>
           b == <<y>>
           c == <<x, y>>
           e == a \o b
<1>1. a \in Seq(V) /\ b \in Seq(V) /\ Len(a) = 1 /\ Len(b) = 1 /\ a[1] = x /\ b[1] = y
  OBVIOUS
<1>2. c \in Seq(V) /\ Len(c) = 2 /\ c[1] = x /\ c[2] = y
  OBVIOUS
<1> HIDE DEF a, b, c
<1>3. e \in Seq(V) /\ Len(e) = 2 /\ e[1] = a[1] /\ e[2] = b[1]
  <2>1. /\ e \in Seq(V) /\ Len(e) = Len(a) + Len(b)
        /\ \A i \in 1 .. Len(a) + Len(b) : e[i] = IF i <= Len(a) THEN a[i] ELSE b[i - Len(a)]
    BY ONLY <1>1, ConcatProperties
  <2> HIDE DEF e
  <2>2. /\ Len(e) = 2
        /\ \A i \in 1 .. 2 : e[i] = IF i <= 1 THEN a[i] ELSE b[i - 1]
    BY <1>1, <2>1
  <2>3. e[1] = a[1]
    BY <2>2
  <2>4. e[2] = b[1]
    <3>1. e[2] = b[2 - 1]
      BY <2>2
    <3>2. 2 - 1 = 1
      OBVIOUS
    <3> QED
      BY <3>1, <3>2
  <2> QED
    BY <2>1, <2>2, <2>3, <2>4
<1> HIDE DEF e
<1>4. \A i \in 1 .. 2 : i = 1 \/ i = 2
  OBVIOUS
<1>5. \A i \in 1 .. Len(e) : e[i] = c[i]
  BY <1>1, <1>2, <1>3, <1>4
<1>6. e = c
  BY <1>2, <1>3, <1>5, SeqEqual
<1> QED
  BY <1>6 DEF a, b, c, e

LEMMA ToSetType ==
  ASSUME NEW V, NEW s \in Seq(V)
  PROVE  ToSet(s) \subseteq V
BY DEF ToSet

\* What FlattenSeq builds, part by part.
LEMMA FlattenFunction ==
  ASSUME NEW V, NEW ss \in Seq(Seq(V)), Len(ss) # 0
  PROVE  \E F \in [1 .. Len(ss) -> Seq(V)] :
           /\ FlattenSeq(ss) = F[Len(ss)]
           /\ F[1] = ss[1]
           /\ \A i \in 1 .. Len(ss) : i # 1 => F[i] = F[i - 1] \o ss[i]
<1> DEFINE n == Len(ss)
           Body(f) == [i \in 1 .. n |-> IF i = 1 THEN ss[i] ELSE f[i - 1] \o ss[i]]
           F == CHOOSE f : f = Body(f)
<1>1. FlattenSeq(ss) = F[n]
  BY DEF FlattenSeq
<1>2. n \in Nat \ {0} /\ 1 \in 1 .. n /\ \A i \in 1 .. n : ss[i] \in Seq(V)
  OBVIOUS
<1>3. \E f : f = Body(f)
  <2> DEFINE G == [p \in Seq(V) \X (1 .. n) |-> p[1] \o ss[p[2]]]
  <2>1. \A s, t \in Seq(V) : s \o t \in Seq(V)
    OBVIOUS
  <2>2. \A p \in Seq(V) \X (1 .. n) : p[1] \in Seq(V) /\ ss[p[2]] \in Seq(V)
    BY <1>2
  <2>3. G \in [Seq(V) \X (1 .. n) -> Seq(V)]
    BY <2>1, <2>2
  <2>4. PICK f \in [0 .. n -> Seq(V)] :
          f[0] = <<>> /\ \A i \in 1 .. n : f[i] = G[<<f[i - 1], i>>]
    <3> DEFINE W == Seq(V)
    <3>1. <<>> \in W /\ G \in [W \X (1 .. n) -> W] /\ n \in Nat
      BY <2>3, <1>2
    <3> HIDE DEF G, W, n, F, Body
    <3>2. \E f \in [0 .. n -> W] : Follows(f, n, <<>>, G)
      BY <3>1, RecursiveFunction
    <3> QED
      BY <3>2 DEF W, Follows
  <2> DEFINE g == [i \in 1 .. n |-> f[i]]
  <2>5. ASSUME NEW i \in 1 .. n PROVE f[i] = f[i - 1] \o ss[i]
    <3>1. i - 1 \in 0 .. n
      BY <1>2
    <3>2. <<f[i - 1], i>> \in Seq(V) \X (1 .. n)
      BY <3>1
    <3>3. G[<<f[i - 1], i>>] = f[i - 1] \o ss[i]
      BY <3>2
    <3> QED
      BY <3>3, <2>4
  <2>6. f[1] = ss[1]
    <3>1. f[1] = f[1 - 1] \o ss[1]
      BY <2>5, <1>2
    <3>2. f[1 - 1] = <<>>
      BY <2>4
    <3>3. f[1] = <<>> \o ss[1]
      BY <3>1, <3>2
    <3> QED
      BY <3>3, <1>2
  <2>7. ASSUME NEW i \in 1 .. n
        PROVE  g[i] = IF i = 1 THEN ss[i] ELSE g[i - 1] \o ss[i]
    <3>1. CASE i = 1
      BY <3>1, <2>6
    <3>2. CASE i # 1
      <4>1. i - 1 \in 1 .. n
        BY <3>2, <1>2
      <4> QED
        BY <3>2, <4>1, <2>5
    <3> QED
      BY <3>1, <3>2
  <2>8. g = Body(g)
    BY <2>7
  <2> QED
    BY <2>8
<1>4. F = Body(F)
  BY <1>3
<1> HIDE DEF F
<1>5. F[1] = ss[1] /\ \A i \in 1 .. n : i # 1 => F[i] = F[i - 1] \o ss[i]
  BY <1>2, <1>4
<1> DEFINE S == {k \in Nat : k + 1 <= n => F[k + 1] \in Seq(V)}
<1>6. 0 \in S
  BY <1>2, <1>5
<1>7. ASSUME NEW k \in S PROVE k + 1 \in S
  <2> SUFFICES ASSUME k + 2 <= n PROVE F[k + 2] \in Seq(V)
    OBVIOUS
  <2>1. k + 2 \in 1 .. n /\ k + 2 # 1 /\ (k + 2) - 1 = k + 1
    BY <1>2
  <2>2. F[k + 2] = F[(k + 2) - 1] \o ss[k + 2]
    BY <2>1, <1>5
  <2>3. F[k + 2] = F[k + 1] \o ss[k + 2]
    BY <2>1, <2>2
  <2>4. F[k + 1] \in Seq(V) /\ ss[k + 2] \in Seq(V)
    BY <1>2, <2>1
  <2> QED
    BY <2>3, <2>4
<1>8. S = Nat
  <2>1. S \in SUBSET Nat
    OBVIOUS
  <2> HIDE DEF S
  <2> QED
    BY <1>6, <1>7, <2>1, SetInduction
<1>9. ASSUME NEW i \in 1 .. n PROVE F[i] \in Seq(V)
  <2>1. i - 1 \in Nat /\ (i - 1) + 1 = i /\ i <= n
    BY <1>2
  <2>2. i - 1 \in S
    <3> HIDE DEF S
    <3> QED
      BY <2>1, <1>8
  <2>3. (i - 1) + 1 <= n => F[(i - 1) + 1] \in Seq(V)
    BY <2>2
  <2> QED
    BY <2>1, <2>3
<1>10. F \in [1 .. n -> Seq(V)]
  <2>1. F = [i \in 1 .. n |-> F[i]]
    <3> DEFINE f == F
    <3>1. f = Body(f)
      BY <1>4
    <3> HIDE DEF f
    <3>2. f = [i \in 1 .. n |-> f[i]]
      BY <3>1
    <3> QED
      BY <3>2 DEF f
  <2> QED
    BY <1>9, <2>1
<1> QED
  BY <1>1, <1>5, <1>10

\* FlattenSeq concatenates: what is in the result is in one of the parts.
LEMMA Flattened ==
  ASSUME NEW V, NEW ss \in Seq(Seq(V))
  PROVE  /\ FlattenSeq(ss) \in Seq(V)
         /\ \A v : v \in ToSet(FlattenSeq(ss)) <=> \E i \in DOMAIN ss : v \in ToSet(ss[i])
<1>1. CASE Len(ss) = 0
  <2>1. FlattenSeq(ss) = ss
    BY <1>1 DEF FlattenSeq
  <2>2. ss = <<>>
    BY <1>1
  <2> QED
    BY <2>1, <2>2 DEF ToSet
<1>2. CASE Len(ss) # 0
  <2> DEFINE n == Len(ss)
  <2>1. PICK F \in [1 .. n -> Seq(V)] :
          /\ FlattenSeq(ss) = F[n]
          /\ F[1] = ss[1]
          /\ \A i \in 1 .. n : i # 1 => F[i] = F[i - 1] \o ss[i]
    BY <1>2, FlattenFunction
  <2>2. n \in Nat \ {0} /\ 1 \in 1 .. n /\ \A i \in 1 .. n : ss[i] \in Seq(V)
    BY <1>2
  <2> DEFINE Ok(k) == \A v : v \in ToSet(F[k]) <=> \E i \in 1 .. k : v \in ToSet(ss[i])
             S == {k \in Nat : k + 1 <= n => Ok(k + 1)}
  <2>6. 0 \in S
    <3>1. Ok(1)
      BY <2>1, <2>2
    <3> QED
      BY <3>1
  <2>7. ASSUME NEW k \in S PROVE k + 1 \in S
    <3> SUFFICES ASSUME k + 2 <= n PROVE Ok(k + 2)
      OBVIOUS
    <3>1. Ok(k + 1)
      OBVIOUS
    <3>2. k + 2 \in 1 .. n /\ k + 2 # 1 /\ (k + 2) - 1 = k + 1 /\ k + 1 \in 1 .. n
      BY <2>2
    <3>3. F[k + 2] = F[(k + 2) - 1] \o ss[k + 2]
      BY <3>2, <2>1
    <3>4. ToSet(F[k + 2]) = ToSet(F[k + 1]) \cup ToSet(ss[k + 2])
      <4>1. F[k + 1] \in Seq(V) /\ ss[k + 2] \in Seq(V) /\ F[k + 2] = F[k + 1] \o ss[k + 2]
        BY <3>2, <3>3, <2>2
      <4> QED
        BY <4>1, ToSetOfConcat
    <3>5. 1 .. (k + 2) = (1 .. (k + 1)) \cup {k + 2}
      OBVIOUS
    <3>6. \A v : v \in ToSet(F[k + 2]) <=> \E i \in 1 .. (k + 2) : v \in ToSet(ss[i])
      <4> HIDE DEF n
      <4> QED
        BY <3>1, <3>4, <3>5
    <3> QED
      BY <3>6
  <2>8. S = Nat
    <3>1. S \in SUBSET Nat
      OBVIOUS
    <3> HIDE DEF S
    <3> QED
      BY <2>6, <2>7, <3>1, SetInduction
  <2>9. Ok(n)
    <3>1. n - 1 \in Nat /\ (n - 1) + 1 = n /\ (n - 1) + 1 <= n
      BY <2>2
    <3>2. n - 1 \in S
      <4> HIDE DEF S
      <4> QED
        BY <3>1, <2>8
    <3>3. Ok((n - 1) + 1)
      <4> HIDE DEF Ok, n
      <4> QED
        BY <3>1, <3>2
    <3> QED
      BY <3>1, <3>3
  <2>10. DOMAIN ss = 1 .. n
    OBVIOUS
  <2>11. F[n] \in Seq(V)
    BY <2>1, <2>2
  <2> HIDE DEF n
  <2> QED
    BY <2>1, <2>9, <2>10, <2>11
<1> QED
  BY <1>1, <1>2

LEMMA OneTyped ==
  ASSUME NEW V, NEW x \in V
  PROVE  <<x>> \in Seq(V)
OBVIOUS

LEMMA FlattenEmpty == FlattenSeq(<<>>) = <<>>
BY DEF FlattenSeq

LEMMA FlattenOne ==
  ASSUME NEW V, NEW s \in Seq(V)
  PROVE  FlattenSeq(<<s>>) = s
<1> DEFINE W == Seq(V)
           ss == <<s>>
<1>1. ss \in Seq(Seq(V)) /\ Len(ss) # 0
  <2>1. s \in W
    OBVIOUS
  <2> HIDE DEF W
  <2>2. ss \in Seq(W) /\ Len(ss) # 0
    BY <2>1
  <2> QED
    BY <2>2 DEF W
<1>2. Len(ss) = 1 /\ ss[1] = s
  OBVIOUS
<1> HIDE DEF ss, W
<1>3. PICK F \in [1 .. Len(ss) -> Seq(V)] :
        /\ FlattenSeq(ss) = F[Len(ss)]
        /\ F[1] = ss[1]
        /\ \A i \in 1 .. Len(ss) : i # 1 => F[i] = F[i - 1] \o ss[i]
  BY <1>1, FlattenFunction
<1> QED
  BY <1>2, <1>3 DEF ss

LEMMA FlattenAppend ==
  ASSUME NEW V, NEW ss \in Seq(Seq(V)), NEW s \in Seq(V)
  PROVE  FlattenSeq(Append(ss, s)) = FlattenSeq(ss) \o s
<1> DEFINE n == Len(ss)
           tt == Append(ss, s)
<1>1. /\ n \in Nat /\ tt \in Seq(Seq(V)) /\ Len(tt) = n + 1 /\ tt[n + 1] = s
      /\ \A i \in 1 .. n : tt[i] = ss[i] /\ ss[i] \in Seq(V)
  OBVIOUS
<1> HIDE DEF tt
<1>2. PICK G \in [1 .. (n + 1) -> Seq(V)] :
        /\ FlattenSeq(tt) = G[n + 1]
        /\ G[1] = tt[1]
        /\ \A i \in 1 .. (n + 1) : i # 1 => G[i] = G[i - 1] \o tt[i]
  <2>1. Len(tt) # 0
    BY <1>1
  <2>2. \E G \in [1 .. Len(tt) -> Seq(V)] :
          /\ FlattenSeq(tt) = G[Len(tt)]
          /\ G[1] = tt[1]
          /\ \A i \in 1 .. Len(tt) : i # 1 => G[i] = G[i - 1] \o tt[i]
    <3>1. tt \in Seq(Seq(V)) /\ Len(tt) # 0
      BY <1>1
    <3> QED
      BY ONLY <3>1, FlattenFunction
  <2> QED
    BY <1>1, <2>2
<1>3. CASE n = 0
  <2>1. ss = <<>>
    BY <1>3
  <2>2. FlattenSeq(ss) = <<>>
    BY <2>1, FlattenEmpty
  <2>3. FlattenSeq(tt) = s
    BY <1>1, <1>2, <1>3
  <2>4. <<>> \o s = s
    OBVIOUS
  <2> QED
    BY <2>2, <2>3, <2>4 DEF tt
<1>4. CASE n # 0
  <2>1. PICK F \in [1 .. n -> Seq(V)] :
          /\ FlattenSeq(ss) = F[n]
          /\ F[1] = ss[1]
          /\ \A i \in 1 .. n : i # 1 => F[i] = F[i - 1] \o ss[i]
    BY <1>4, FlattenFunction
  <2> DEFINE S == {k \in Nat : k + 1 <= n => F[k + 1] = G[k + 1]}
  <2>2. 0 \in S
    BY <1>1, <1>2, <1>4, <2>1
  <2>3. ASSUME NEW k \in S PROVE k + 1 \in S
    <3> SUFFICES ASSUME k + 2 <= n PROVE F[k + 2] = G[k + 2]
      OBVIOUS
    <3>1. /\ k + 2 \in 1 .. n /\ k + 2 \in 1 .. (n + 1) /\ k + 2 # 1
          /\ (k + 2) - 1 = k + 1 /\ k + 1 <= n
      BY <1>1
    <3>2. F[k + 2] = F[(k + 2) - 1] \o ss[k + 2] /\ G[k + 2] = G[(k + 2) - 1] \o tt[k + 2]
      BY <3>1, <1>2, <2>1
    <3>3. F[k + 1] = G[k + 1]
      BY <3>1
    <3> QED
      BY <1>1, <3>1, <3>2, <3>3
  <2>4. S = Nat
    <3>1. S \in SUBSET Nat
      OBVIOUS
    <3> HIDE DEF S
    <3> QED
      BY <2>2, <2>3, <3>1, SetInduction
  <2>5. n - 1 \in Nat /\ (n - 1) + 1 = n /\ (n - 1) + 1 <= n
    BY <1>1, <1>4
  <2>6. n - 1 \in S
    <3> HIDE DEF S
    <3> QED
      BY <2>4, <2>5
  <2>7. F[n] = G[n]
    BY <2>5, <2>6
  <2>8. G[n + 1] = G[(n + 1) - 1] \o tt[n + 1]
    <3>1. n + 1 \in 1 .. (n + 1) /\ n + 1 # 1
      BY <1>1, <1>4
    <3> QED
      BY <3>1, <1>2
  <2>9. (n + 1) - 1 = n
    BY <1>1
  <2> HIDE DEF n
  <2> QED
    BY <1>1, <1>2, <2>1, <2>7, <2>8, <2>9 DEF tt
<1> QED
  BY <1>3, <1>4

LEMMA FlattenConcat ==
  ASSUME NEW V, NEW ss \in Seq(Seq(V)), NEW tt \in Seq(Seq(V))
  PROVE  FlattenSeq(ss \o tt) = FlattenSeq(ss) \o FlattenSeq(tt)
<1> DEFINE W == Seq(V)
           n == Len(tt)
           First(k) == SubSeq(tt, 1, k)
           S == {k \in Nat : k <= n => FlattenSeq(ss \o First(k)) = FlattenSeq(ss) \o FlattenSeq(First(k))}
<1>1. 0 \in S
  <2>1. First(0) = <<>>
    OBVIOUS
  <2>2. ss \o <<>> = ss
    OBVIOUS
  <2>3. FlattenSeq(ss) \in Seq(V)
    BY Flattened
  <2>4. FlattenSeq(ss) \o <<>> = FlattenSeq(ss)
    BY <2>3
  <2> HIDE DEF First
  <2> QED
    BY <2>1, <2>2, <2>4, FlattenEmpty
<1>2. ASSUME NEW k \in S PROVE k + 1 \in S
  <2> SUFFICES ASSUME k + 1 <= n
               PROVE  FlattenSeq(ss \o First(k + 1)) = FlattenSeq(ss) \o FlattenSeq(First(k + 1))
    OBVIOUS
  <2> DEFINE u == First(k)
             x == tt[k + 1]
  <2>1. k \in Nat /\ n \in Nat /\ k <= n
    OBVIOUS
  <2>2. u \in Seq(W) /\ x \in W
    BY <2>1
  <2>3. First(k + 1) = Append(u, x)
    BY <2>1
  <2>4. FlattenSeq(ss \o u) = FlattenSeq(ss) \o FlattenSeq(u)
    BY <2>1
  <2> HIDE DEF First, u, x
  <2>5. ss \o Append(u, x) = Append(ss \o u, x)
    BY <2>2 DEF W
  <2>6. ss \o u \in Seq(W)
    BY <2>2
  <2>7. FlattenSeq(ss) \in Seq(V) /\ FlattenSeq(u) \in Seq(V)
    BY <2>2, Flattened
  <2>8. FlattenSeq(Append(ss \o u, x)) = FlattenSeq(ss \o u) \o x
    BY <2>2, <2>6, FlattenAppend
  <2>9. FlattenSeq(Append(u, x)) = FlattenSeq(u) \o x
    BY <2>2, FlattenAppend
  <2>10. (FlattenSeq(ss) \o FlattenSeq(u)) \o x = FlattenSeq(ss) \o (FlattenSeq(u) \o x)
    <3> DEFINE a == FlattenSeq(ss)
               b == FlattenSeq(u)
    <3>1. a \in Seq(V) /\ b \in Seq(V) /\ x \in Seq(V)
      BY <2>2, <2>7 DEF W
    <3> HIDE DEF a, b
    <3>2. (a \o b) \o x = a \o (b \o x)
      BY ONLY <3>1, ConcatAssociative
    <3> QED
      BY <3>2 DEF a, b
  <2> QED
    BY <2>3, <2>4, <2>5, <2>8, <2>9, <2>10
<1>3. S = Nat
  <2>1. S \in SUBSET Nat
    OBVIOUS
  <2> HIDE DEF S
  <2> QED
    BY <1>1, <1>2, <2>1, SetInduction
<1>4. n \in Nat /\ First(n) = tt
  OBVIOUS
<1>5. n \in S
  <2> HIDE DEF S
  <2> QED
    BY <1>3, <1>4
<1>6. FlattenSeq(ss \o First(n)) = FlattenSeq(ss) \o FlattenSeq(First(n))
  BY <1>4, <1>5
<1> HIDE DEF First
<1> QED
  BY <1>4, <1>6

-----------------------------------------------------------------------------
(* Those of a sequence that are in a set *)

PickParts(s, P) == [i \in DOMAIN s |-> IF s[i] \in P THEN <<s[i]>> ELSE <<>>]
Pick(s, P) == FlattenSeq(PickParts(s, P))

LEMMA PickPartsTyped ==
  ASSUME NEW V, NEW P, NEW s \in Seq(V)
  PROVE  PickParts(s, P) \in Seq(Seq(V))
<1> DEFINE W == Seq(V)
<1>1. Len(s) \in Nat /\ DOMAIN s = 1 .. Len(s) /\ \A i \in 1 .. Len(s) : s[i] \in V
  OBVIOUS
<1>2. \A i \in 1 .. Len(s) : (IF s[i] \in P THEN <<s[i]>> ELSE <<>>) \in W
  <2>1. \A i \in 1 .. Len(s) : <<s[i]>> \in W
    BY <1>1, OneTyped
  <2>2. <<>> \in W
    OBVIOUS
  <2> HIDE DEF W
  <2> QED
    BY <2>1, <2>2
<1> HIDE DEF W
<1>3. PickParts(s, P) \in Seq(W)
  BY <1>1, <1>2 DEF PickParts
<1> QED
  BY <1>3 DEF W

LEMMA PickTyped ==
  ASSUME NEW V, NEW P, NEW s \in Seq(V)
  PROVE  Pick(s, P) \in Seq(V)
BY PickPartsTyped, Flattened DEF Pick

LEMMA PickConcat ==
  ASSUME NEW V, NEW P, NEW s \in Seq(V), NEW t \in Seq(V)
  PROVE  Pick(s \o t, P) = Pick(s, P) \o Pick(t, P)
<1> DEFINE a == PickParts(s, P)
           b == PickParts(t, P)
<1>1. /\ Len(s) \in Nat /\ Len(t) \in Nat
      /\ DOMAIN s = 1 .. Len(s) /\ DOMAIN t = 1 .. Len(t)
      /\ DOMAIN (s \o t) = 1 .. (Len(s) + Len(t))
  OBVIOUS
<1>2. \A i \in 1 .. (Len(s) + Len(t)) :
        (s \o t)[i] = IF i <= Len(s) THEN s[i] ELSE t[i - Len(s)]
  OBVIOUS
<1>3. PickParts(s \o t, P) = a \o b
  BY <1>1, <1>2 DEF PickParts
<1>4. a \in Seq(Seq(V)) /\ b \in Seq(Seq(V))
  BY PickPartsTyped
<1> HIDE DEF a, b
<1>5. FlattenSeq(a \o b) = FlattenSeq(a) \o FlattenSeq(b)
  BY <1>4, FlattenConcat
<1> QED
  BY <1>3, <1>5 DEF Pick, a, b

LEMMA PickEmpty ==
  ASSUME NEW P
  PROVE  Pick(<<>>, P) = <<>>
<1>1. PickParts(<<>>, P) = <<>>
  BY DEF PickParts
<1> QED
  BY <1>1, FlattenEmpty DEF Pick

LEMMA PickOne ==
  ASSUME NEW V, NEW P, NEW x \in V
  PROVE  Pick(<<x>>, P) = IF x \in P THEN <<x>> ELSE <<>>
<1> DEFINE s == <<x>>
           a == IF x \in P THEN <<x>> ELSE <<>>
<1>1. DOMAIN s = {1} /\ s[1] = x
  OBVIOUS
<1>2. PickParts(s, P) = <<a>>
  BY <1>1 DEF PickParts
<1>3. a \in Seq(V)
  <2> DEFINE W == Seq(V)
  <2>1. <<x>> \in W /\ <<>> \in W
    BY OneTyped
  <2> HIDE DEF W
  <2>2. a \in W
    BY <2>1
  <2> QED
    BY <2>2 DEF W
<1> HIDE DEF a
<1>4. FlattenSeq(<<a>>) = a
  BY <1>3, FlattenOne
<1>5. Pick(s, P) = a
  BY <1>2, <1>4 DEF Pick
<1> QED
  BY <1>5 DEF a

\* All of them are in the sequence.
LEMMA PickWithin ==
  ASSUME NEW V, NEW P, NEW s \in Seq(V), NEW v, v \in ToSet(Pick(s, P))
  PROVE  v \in ToSet(s)
<1>1. PICK i \in DOMAIN PickParts(s, P) : v \in ToSet(PickParts(s, P)[i])
  BY PickPartsTyped, Flattened DEF Pick
<1>2. i \in DOMAIN s /\ PickParts(s, P)[i] = IF s[i] \in P THEN <<s[i]>> ELSE <<>>
  BY DEF PickParts
<1>3. v = s[i]
  BY <1>1, <1>2 DEF ToSet
<1> QED
  BY <1>2, <1>3 DEF ToSet

=============================================================================
