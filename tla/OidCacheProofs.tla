----------------------------- MODULE OidCacheProofs -----------------------------
(***************************************************************************)
(* Proofs about module OidCache.  First what extract_new_udts visits: it   *)
(* is defined by recursion over the nesting of the types, and so by        *)
(* induction on its depth.  Then the invariant of the cache: what is       *)
(* stored for a type the type has had, and while the Oids are asked for    *)
(* every type of the query without one is among the names asked for.       *)
(***************************************************************************)
EXTENDS OidCache, DataInduction

-----------------------------------------------------------------------------
(* The types a query mentions *)

\* What a type is composed of, as one step from what its members are.
Unfold(f, T) == <<T>> \o FlattenSeq([i \in DOMAIN Members[T] |-> f[Members[T][i]]])

LEMMA MembersTyped ==
  ASSUME NEW T \in Types
  PROVE  /\ Members[T] \in Seq(Types)
         /\ \A i \in DOMAIN Members[T] : /\ Members[T][i] \in Types
                                         /\ Depth[Members[T][i]] < Depth[T]
BY OidAssumption, NestingAssumption

LEMMA UnfoldTyped ==
  ASSUME NEW f \in [Types -> Seq(Types)], NEW T \in Types
  PROVE  /\ Unfold(f, T) \in Seq(Types)
         /\ \A U : U \in ToSet(Unfold(f, T))
                     <=> U = T \/ \E i \in DOMAIN Members[T] : U \in ToSet(f[Members[T][i]])
<1> DEFINE ss == [i \in DOMAIN Members[T] |-> f[Members[T][i]]]
<1>1. ss \in Seq(Seq(Types))
  <2> DEFINE W == Seq(Types)
             m == Members[T]
  <2>1. m \in Seq(Types) /\ Len(m) \in Nat /\ DOMAIN m = 1 .. Len(m)
    BY MembersTyped
  <2>2. \A i \in 1 .. Len(m) : f[m[i]] \in W
    BY MembersTyped, <2>1
  <2> HIDE DEF W, m
  <2>3. [i \in DOMAIN m |-> f[m[i]]] \in Seq(W)
    BY <2>1, <2>2
  <2> QED
    BY <2>3 DEF W, m
<1>2. DOMAIN ss = DOMAIN Members[T] /\ \A i \in DOMAIN ss : ss[i] = f[Members[T][i]]
  OBVIOUS
<1>3. Unfold(f, T) = <<T>> \o FlattenSeq(ss)
  BY DEF Unfold
<1> HIDE DEF ss
<1>4. /\ FlattenSeq(ss) \in Seq(Types)
      /\ \A v : v \in ToSet(FlattenSeq(ss)) <=> \E i \in DOMAIN ss : v \in ToSet(ss[i])
  BY <1>1, Flattened
<1>5. <<T>> \in Seq(Types) /\ \A U : U \in ToSet(<<T>>) <=> U = T
  BY DEF ToSet
<1>6. /\ Unfold(f, T) \in Seq(Types)
      /\ ToSet(Unfold(f, T)) = ToSet(<<T>>) \cup ToSet(FlattenSeq(ss))
  <2> DEFINE s == <<T>>
             t == FlattenSeq(ss)
  <2>1. s \in Seq(Types) /\ t \in Seq(Types) /\ Unfold(f, T) = s \o t
    BY <1>3, <1>4, <1>5
  <2> HIDE DEF s, t
  <2>2. s \o t \in Seq(Types) /\ ToSet(s \o t) = ToSet(s) \cup ToSet(t)
    BY <2>1, ToSetOfConcat
  <2> QED
    BY <2>1, <2>2 DEF s, t
<1>7. \A i \in DOMAIN Members[T] : ss[i] = f[Members[T][i]]
  BY <1>2
<1>8. \A U : U \in ToSet(FlattenSeq(ss))
                <=> \E i \in DOMAIN Members[T] : U \in ToSet(f[Members[T][i]])
  BY <1>2, <1>4, <1>7
<1>9. \A U : U \in ToSet(Unfold(f, T)) <=> U = T \/ U \in ToSet(FlattenSeq(ss))
  BY <1>5, <1>6, Zenon
<1> QED
  BY <1>6, <1>8, <1>9, Zenon

LEMMA UnfoldSame ==
  ASSUME NEW f, NEW g, NEW T,
         \A i \in DOMAIN Members[T] : f[Members[T][i]] = g[Members[T][i]]
  PROVE  Unfold(f, T) = Unfold(g, T)
<1>1. [i \in DOMAIN Members[T] |-> f[Members[T][i]]]
        = [i \in DOMAIN Members[T] |-> g[Members[T][i]]]
  OBVIOUS
<1> QED
  BY <1>1 DEF Unfold

\* f is right for the types of depth less than k.
UnfoldsBelow(k, f) == \A T \in Types : Depth[T] < k => f[T] = Unfold(f, T)

LEMMA UnfoldsBelowExists ==
  ASSUME NEW n \in Nat
  PROVE  \E f \in [Types -> Seq(Types)] : UnfoldsBelow(n, f)
<1> DEFINE S == {k \in Nat : \E f \in [Types -> Seq(Types)] : UnfoldsBelow(k, f)}
<1>1. 0 \in S
  <2> DEFINE f == [T \in Types |-> <<>>]
  <2>1. f \in [Types -> Seq(Types)]
    OBVIOUS
  <2>2. UnfoldsBelow(0, f)
    BY NestingAssumption DEF UnfoldsBelow
  <2> HIDE DEF f
  <2> QED
    BY <2>1, <2>2
<1>2. ASSUME NEW k \in S PROVE k + 1 \in S
  <2>1. PICK f \in [Types -> Seq(Types)] : UnfoldsBelow(k, f)
    OBVIOUS
  <2> DEFINE g == [T \in Types |-> Unfold(f, T)]
  <2>2. g \in [Types -> Seq(Types)]
    BY UnfoldTyped
  <2>3. ASSUME NEW T \in Types, Depth[T] < k + 1
        PROVE  g[T] = Unfold(g, T)
    <3>1. ASSUME NEW i \in DOMAIN Members[T]
          PROVE  f[Members[T][i]] = g[Members[T][i]]
      <4>1. Members[T][i] \in Types /\ Depth[Members[T][i]] < Depth[T]
        BY MembersTyped
      <4>2. Depth[Members[T][i]] < k
        BY <4>1, <2>3, NestingAssumption
      <4> QED
        BY <4>1, <4>2, <2>1 DEF UnfoldsBelow
    <3>2. g[T] = Unfold(f, T)
      OBVIOUS
    <3> HIDE DEF g
    <3>3. Unfold(f, T) = Unfold(g, T)
      BY ONLY <3>1, UnfoldSame
    <3> QED
      BY <3>2, <3>3
  <2>4. UnfoldsBelow(k + 1, g)
    BY <2>3 DEF UnfoldsBelow
  <2> HIDE DEF g
  <2> QED
    BY <2>2, <2>4
<1>3. S \in SUBSET Nat
  OBVIOUS
<1>4. n \in S
  <2> HIDE DEF S
  <2> QED
    BY <1>1, <1>2, <1>3, SetInduction
<1> QED
  BY <1>4

LEMMA UnfoldsBelowUnique ==
  ASSUME NEW n \in Nat
  PROVE  \A f, g \in [Types -> Seq(Types)] : \A T \in Types :
           UnfoldsBelow(n, f) /\ UnfoldsBelow(n, g) /\ Depth[T] < n => f[T] = g[T]
<1> DEFINE Agree(k) == \A f, g \in [Types -> Seq(Types)] : \A T \in Types :
             UnfoldsBelow(k, f) /\ UnfoldsBelow(k, g) /\ Depth[T] < k => f[T] = g[T]
           S == {k \in Nat : Agree(k)}
<1>1. 0 \in S
  BY NestingAssumption
<1>2. ASSUME NEW k \in S PROVE k + 1 \in S
  <2>1. Agree(k)
    OBVIOUS
  <2>2. ASSUME NEW f \in [Types -> Seq(Types)], NEW g \in [Types -> Seq(Types)],
               NEW T \in Types,
               UnfoldsBelow(k + 1, f), UnfoldsBelow(k + 1, g), Depth[T] < k + 1
        PROVE  f[T] = g[T]
    <3>1. UnfoldsBelow(k, f) /\ UnfoldsBelow(k, g)
      BY <2>2, NestingAssumption DEF UnfoldsBelow
    <3>2. ASSUME NEW i \in DOMAIN Members[T]
          PROVE  f[Members[T][i]] = g[Members[T][i]]
      <4>1. Members[T][i] \in Types /\ Depth[Members[T][i]] < Depth[T]
        BY MembersTyped
      <4>2. Depth[Members[T][i]] < k
        BY <4>1, <2>2, NestingAssumption
      <4> QED
        BY <4>1, <4>2, <2>1, <3>1
    <3>3. Unfold(f, T) = Unfold(g, T)
      BY <3>2, UnfoldSame
    <3> QED
      BY <2>2, <3>3 DEF UnfoldsBelow
  <2>3. Agree(k + 1)
    BY <2>2
  <2> HIDE DEF Agree
  <2> QED
    BY <2>3
<1>3. S \in SUBSET Nat
  OBVIOUS
<1>4. n \in S
  <2> HIDE DEF S
  <2> QED
    BY <1>1, <1>2, <1>3, SetInduction
<1> QED
  BY <1>4

\* Because nesting ends, Flat is what its recursive definition says.
LEMMA FlatUnfolds ==
  /\ Flat \in [Types -> Seq(Types)]
  /\ \A T \in Types : Flat[T] = Unfold(Flat, T)
<1> DEFINE F(k) == CHOOSE f \in [Types -> Seq(Types)] : UnfoldsBelow(k, f)
           h == [T \in Types |-> F(Depth[T] + 1)[T]]
<1>1. ASSUME NEW k \in Nat
      PROVE  F(k) \in [Types -> Seq(Types)] /\ UnfoldsBelow(k, F(k))
  BY UnfoldsBelowExists
<1>2. \A T \in Types : Depth[T] \in Nat /\ Depth[T] + 1 \in Nat /\ Depth[T] < Depth[T] + 1
  BY NestingAssumption
<1> HIDE DEF F
<1>3. h \in [Types -> Seq(Types)]
  BY <1>1, <1>2
<1>4. ASSUME NEW T \in Types PROVE h[T] = Unfold(h, T)
  <2> DEFINE f == F(Depth[T] + 1)
  <2>1. f \in [Types -> Seq(Types)] /\ UnfoldsBelow(Depth[T] + 1, f)
    BY <1>1, <1>2
  <2>2. h[T] = f[T]
    OBVIOUS
  <2>3. ASSUME NEW i \in DOMAIN Members[T]
        PROVE  h[Members[T][i]] = f[Members[T][i]]
    <3> DEFINE U == Members[T][i]
               g == F(Depth[U] + 1)
    <3>1. U \in Types /\ Depth[U] < Depth[T]
      BY MembersTyped
    <3>2. g \in [Types -> Seq(Types)] /\ UnfoldsBelow(Depth[U] + 1, g)
      BY <1>1, <1>2, <3>1
    <3>3. UnfoldsBelow(Depth[U] + 1, f)
      BY <2>1, <3>1, <1>2 DEF UnfoldsBelow
    <3>4. h[U] = g[U]
      BY <3>1
    <3>5. Depth[U] + 1 \in Nat /\ Depth[U] < Depth[U] + 1
      BY <1>2, <3>1
    <3> HIDE DEF U, f, g, h
    <3>6. g[U] = f[U]
      BY <3>1, <3>2, <3>3, <3>5, <2>1, UnfoldsBelowUnique
    <3> QED
      BY <3>4, <3>6 DEF U
  <2>4. f[T] = Unfold(f, T)
    BY <2>1, <1>2 DEF UnfoldsBelow
  <2> HIDE DEF f, h
  <2>5. Unfold(h, T) = Unfold(f, T)
    BY <2>3, UnfoldSame
  <2> QED
    BY <2>2, <2>4, <2>5
<1>5. h = [T \in Types |-> <<T>> \o FlattenSeq([i \in DOMAIN Members[T] |-> h[Members[T][i]]])]
  <2>1. h = [T \in Types |-> h[T]]
    OBVIOUS
  <2> HIDE DEF h
  <2> QED
    BY <1>4, <2>1 DEF Unfold
<1>6. Flat = [T \in Types |-> <<T>> \o FlattenSeq([i \in DOMAIN Members[T] |-> Flat[Members[T][i]]])]
  <2> HIDE DEF h
  <2> QED
    BY <1>5 DEF Flat
<1>7. \A T \in Types : Flat[T] = Unfold(Flat, T)
  BY <1>6 DEF Unfold
<1>8. Flat \in [Types -> Seq(Types)]
  \* By induction on the depth: only now are the values of Flat sequences.
  <2> DEFINE S == {k \in Nat : \A T \in Types : Depth[T] < k => Flat[T] = h[T]}
  <2>1. 0 \in S
    BY NestingAssumption
  <2>2. ASSUME NEW k \in S PROVE k + 1 \in S
    <3>1. SUFFICES ASSUME NEW T \in Types, Depth[T] < k + 1
                   PROVE  Flat[T] = h[T]
      OBVIOUS
    <3>2. ASSUME NEW i \in DOMAIN Members[T]
          PROVE  Flat[Members[T][i]] = h[Members[T][i]]
      <4>1. Members[T][i] \in Types /\ Depth[Members[T][i]] < Depth[T]
        BY MembersTyped
      <4>2. Depth[Members[T][i]] < k
        BY <4>1, <3>1, NestingAssumption
      <4> HIDE DEF h
      <4> QED
        BY <4>1, <4>2
    <3> HIDE DEF h
    <3>3. Unfold(Flat, T) = Unfold(h, T)
      BY <3>2, UnfoldSame
    <3> QED
      BY <3>3, <1>4, <1>7
  <2>3. S \in SUBSET Nat
    OBVIOUS
  <2>4. S = Nat
    <3> HIDE DEF S
    <3> QED
      BY <2>1, <2>2, <2>3, SetInduction
  <2> HIDE DEF h
  <2>5. \A T \in Types : Flat[T] = h[T]
    BY <2>4, <1>2
  <2> QED
    BY <2>5, <1>3, <1>6
<1> QED
  BY <1>7, <1>8

\* What a type is composed of contains the members of all that is in it.
LEMMA FlatClosed ==
  ASSUME NEW T \in Types, NEW U \in ToSet(Flat[T])
  PROVE  /\ U \in Types
         /\ \A i \in DOMAIN Members[U] : Members[U][i] \in ToSet(Flat[T])
<1> DEFINE Closed(R) == \A V \in ToSet(Flat[R]) : \A i \in DOMAIN Members[V] :
                          Members[V][i] \in ToSet(Flat[R])
           S == {k \in Nat : \A R \in Types : Depth[R] < k => Closed(R)}
<1>1. ASSUME NEW R \in Types
      PROVE  \A V : V \in ToSet(Flat[R])
                      <=> V = R \/ \E i \in DOMAIN Members[R] : V \in ToSet(Flat[Members[R][i]])
  <2>1. \A V : V \in ToSet(Unfold(Flat, R))
                 <=> V = R \/ \E i \in DOMAIN Members[R] : V \in ToSet(Flat[Members[R][i]])
    BY FlatUnfolds, UnfoldTyped
  <2> QED
    BY <2>1, FlatUnfolds
<1>2. 0 \in S
  BY NestingAssumption
<1>3. ASSUME NEW k \in S PROVE k + 1 \in S
  <2>1. ASSUME NEW R \in Types, Depth[R] < k + 1,
               NEW V \in ToSet(Flat[R]), NEW i \in DOMAIN Members[V]
        PROVE  Members[V][i] \in ToSet(Flat[R])
    <3>1. CASE V = R
      <4>1. Members[R][i] \in Types
        BY <3>1, MembersTyped
      <4>2. Members[R][i] \in ToSet(Flat[Members[R][i]])
        BY <4>1, <1>1
      <4> QED
        BY <3>1, <4>2, <1>1
    <3>2. CASE \E j \in DOMAIN Members[R] : V \in ToSet(Flat[Members[R][j]])
      <4>1. PICK j \in DOMAIN Members[R] : V \in ToSet(Flat[Members[R][j]])
        BY <3>2
      <4>2. Members[R][j] \in Types /\ Depth[Members[R][j]] < k
        BY <2>1, MembersTyped, NestingAssumption
      <4>3. Closed(Members[R][j])
        BY <4>2
      <4>4. Members[V][i] \in ToSet(Flat[Members[R][j]])
        BY <4>1, <4>3
      <4> QED
        BY <4>4, <1>1
    <3> QED
      BY <3>1, <3>2, <1>1
  <2>2. \A R \in Types : Depth[R] < k + 1 => Closed(R)
    BY <2>1
  <2> HIDE DEF Closed
  <2> QED
    BY <2>2
<1>4. S \in SUBSET Nat
  OBVIOUS
<1>5. S = Nat
  <2> HIDE DEF S
  <2> QED
    BY <1>2, <1>3, <1>4, SetInduction
<1>6. Closed(T)
  <2>1. Depth[T] + 1 \in S /\ Depth[T] < Depth[T] + 1
    <3> HIDE DEF S
    <3> QED
      BY <1>5, NestingAssumption
  <2> HIDE DEF Closed
  <2> QED
    BY <2>1
<1>7. Flat[T] \in Seq(Types)
  BY FlatUnfolds
<1> QED
  BY <1>6, <1>7, ToSetType

LEMMA MentionedTyped ==
  ASSUME NEW q \in Queries
  PROVE  /\ q.params \in Seq(Types)
         /\ Mentioned(q) \in Seq(Types)
         /\ \A U : U \in Needed(q) <=> \E i \in DOMAIN q.params : U \in ToSet(Flat[q.params[i]])
<1>1. q.params \in Seq(Types)
  BY OidAssumption
<1> DEFINE W == Seq(Types)
           m == q.params
           ss == [i \in DOMAIN m |-> Flat[m[i]]]
<1>2. ss \in Seq(Seq(Types))
  <2>1. m \in Seq(Types) /\ Len(m) \in Nat /\ DOMAIN m = 1 .. Len(m)
    BY <1>1
  <2>2. \A i \in 1 .. Len(m) : Flat[m[i]] \in W
    BY <2>1, FlatUnfolds
  <2> HIDE DEF W, m
  <2>3. ss \in Seq(W)
    BY <2>1, <2>2
  <2> QED
    BY <2>3 DEF W
<1>3. DOMAIN ss = DOMAIN m /\ \A i \in DOMAIN m : ss[i] = Flat[m[i]]
  OBVIOUS
<1>4. Mentioned(q) = FlattenSeq(ss)
  BY DEF Mentioned
<1> HIDE DEF ss
<1>5. /\ FlattenSeq(ss) \in Seq(Types)
      /\ \A v : v \in ToSet(FlattenSeq(ss)) <=> \E i \in DOMAIN ss : v \in ToSet(ss[i])
  BY <1>2, Flattened
<1> QED
  BY <1>1, <1>3, <1>4, <1>5 DEF Needed

(* extract_new_udts visits every type of the parameters and, with a type, all
   its members, however deep they nest. *)
THEOREM NeededIsComplete ==
  ASSUME NEW q \in Queries
  PROVE  /\ Needed(q) \subseteq Types
         /\ ToSet(q.params) \subseteq Needed(q)
         /\ \A T \in Needed(q) : ToSet(Members[T]) \subseteq Needed(q)
<1>1. q.params \in Seq(Types) /\ Mentioned(q) \in Seq(Types)
  BY MentionedTyped
<1>2. \A U : U \in Needed(q) <=> \E i \in DOMAIN q.params : U \in ToSet(Flat[q.params[i]])
  BY MentionedTyped
<1>3. Needed(q) \subseteq Types
  BY <1>1, ToSetType DEF Needed
<1>4. ASSUME NEW i \in DOMAIN q.params PROVE q.params[i] \in Needed(q)
  <2>1. q.params[i] \in Types
    BY <1>1
  <2>2. q.params[i] \in ToSet(Unfold(Flat, q.params[i]))
    BY <2>1, FlatUnfolds, UnfoldTyped
  <2>3. q.params[i] \in ToSet(Flat[q.params[i]])
    BY <2>1, <2>2, FlatUnfolds
  <2> QED
    BY <1>2, <2>3
<1>5. ASSUME NEW T \in Needed(q), NEW j \in DOMAIN Members[T]
      PROVE  Members[T][j] \in Needed(q)
  <2>1. PICK i \in DOMAIN q.params : T \in ToSet(Flat[q.params[i]])
    BY <1>2
  <2>2. q.params[i] \in Types
    BY <1>1
  <2>3. Members[T][j] \in ToSet(Flat[q.params[i]])
    BY <2>1, <2>2, FlatClosed
  <2> QED
    BY <1>2, <2>3
<1> QED
  BY <1>3, <1>4, <1>5 DEF ToSet

\* extract_new_udts adds the types that have no Oid, and only those.
LEMMA UnknownTyped ==
  ASSUME NEW s \in Seq(Types)
  PROVE  /\ Unknown(s) \in Seq(Types)
         /\ \A U : U \in ToSet(Unknown(s)) <=> U \in ToSet(s) /\ oid_map[U] = NoOid
<1> DEFINE W == Seq(Types)
           ss == [i \in DOMAIN s |-> IF oid_map[s[i]] = NoOid THEN <<s[i]>> ELSE <<>>]
<1>1. ss \in Seq(Seq(Types))
  <2>1. Len(s) \in Nat /\ DOMAIN s = 1 .. Len(s)
    OBVIOUS
  <2>2. \A i \in 1 .. Len(s) : (IF oid_map[s[i]] = NoOid THEN <<s[i]>> ELSE <<>>) \in W
    OBVIOUS
  <2> HIDE DEF W
  <2>3. ss \in Seq(W)
    BY <2>1, <2>2
  <2> QED
    BY <2>3 DEF W
<1>2. DOMAIN ss = DOMAIN s
  OBVIOUS
<1>3. ASSUME NEW i \in DOMAIN s
      PROVE  \A U : U \in ToSet(ss[i]) <=> U = s[i] /\ oid_map[U] = NoOid
  BY DEF ToSet
<1>4. Unknown(s) = FlattenSeq(ss)
  BY DEF Unknown
<1> HIDE DEF ss
<1>5. /\ FlattenSeq(ss) \in Seq(Types)
      /\ \A v : v \in ToSet(FlattenSeq(ss)) <=> \E i \in DOMAIN ss : v \in ToSet(ss[i])
  BY <1>1, Flattened
<1>6. \A U : U \in ToSet(Unknown(s)) <=> \E i \in DOMAIN s : U = s[i] /\ oid_map[U] = NoOid
  BY <1>2, <1>3, <1>4, <1>5
<1> QED
  BY <1>4, <1>5, <1>6 DEF ToSet

-----------------------------------------------------------------------------
(* The answer to the query for Oids *)

LEMMA RowsTyped ==
  ASSUME TypeOK
  PROVE  /\ Len(Rows) = Len(new_udts) /\ Len(new_udts) \in Nat
         /\ DOMAIN Rows = 1 .. Len(new_udts) /\ DOMAIN new_udts = 1 .. Len(new_udts)
         /\ \A i \in 1 .. Len(new_udts) :
              /\ new_udts[i] \in Types
              /\ \/ Rows[i] = InvalidOid
                 \/ Rows[i] = registry[new_udts[i]] /\ registry[new_udts[i]] # NoOid
<1>1. Len(new_udts) \in Nat /\ DOMAIN new_udts = 1 .. Len(new_udts)
  BY DEF TypeOK
<1>2. DOMAIN Rows = 1 .. Len(new_udts) /\ Len(Rows) = Len(new_udts)
  BY <1>1 DEF Rows
<1> QED
  BY <1>1, <1>2 DEF TypeOK, Rows

LEMMA GoodRowsTyped ==
  ASSUME TypeOK
  PROVE  /\ GoodRows(Rows) \in 0 .. Len(new_udts)
         /\ \A i \in 1 .. GoodRows(Rows) : Rows[i] # InvalidOid
<1> DEFINE bad == {i \in DOMAIN Rows : Rows[i] = InvalidOid}
<1>1. bad \in SUBSET Nat /\ \A i \in bad : i \in 1 .. Len(new_udts)
  BY RowsTyped
<1>2. CASE bad = {}
  BY <1>2, RowsTyped DEF GoodRows
<1>3. CASE bad # {}
  <2>1. GoodRows(Rows) = Min(bad) - 1
    BY <1>3 DEF GoodRows
  <2>2. Min(bad) \in bad /\ \A y \in bad : Min(bad) <= y
    <3> HIDE DEF bad
    <3> QED
      BY <1>1, <1>3, MinOfNaturals
  <2>3. Min(bad) \in 1 .. Len(new_udts)
    BY <1>1, <2>2
  <2>4. ASSUME NEW i \in 1 .. (Min(bad) - 1) PROVE i \notin bad /\ i \in DOMAIN Rows
    <3>1. i < Min(bad) /\ i \in 1 .. Len(new_udts)
      BY <2>3, RowsTyped
    <3>2. i \in DOMAIN Rows
      BY <3>1, RowsTyped
    <3> HIDE DEF bad
    <3> QED
      BY <2>2, <2>3, <3>1, <3>2
  <2>5. ASSUME NEW i \in 1 .. (Min(bad) - 1) PROVE Rows[i] # InvalidOid
    BY <2>4
  <2> HIDE DEF bad
  <2> QED
    BY <2>1, <2>3, <2>5, RowsTyped
<1> QED
  BY <1>2, <1>3

\* A type without an Oid gets the one the server has for it; the others keep
\* theirs; the types of the good rows have one.
LEMMA Emplaced ==
  ASSUME TypeOK, NEW T \in Types
  PROVE  /\ \/ Emplace(Rows)[T] = oid_map[T]
            \/ /\ oid_map[T] = NoOid /\ registry[T] # NoOid
               /\ Emplace(Rows)[T] = registry[T]
         /\ (\E i \in 1 .. GoodRows(Rows) : new_udts[i] = T) => Emplace(Rows)[T] # NoOid
<1> DEFINE at == {i \in 1 .. GoodRows(Rows) : new_udts[i] = T}
<1>1. Emplace(Rows)[T] = IF oid_map[T] = NoOid /\ at # {} THEN Rows[Min(at)] ELSE oid_map[T]
  BY DEF Emplace
<1>2. at \in SUBSET Nat
  BY GoodRowsTyped
<1>3. CASE oid_map[T] = NoOid /\ at # {}
  <2>1. Min(at) \in at
    <3> HIDE DEF at
    <3> QED
      BY <1>2, <1>3, MinOfNaturals
  <2>2. /\ Min(at) \in 1 .. Len(new_udts)
        /\ Rows[Min(at)] # InvalidOid
        /\ new_udts[Min(at)] = T
    BY <2>1, GoodRowsTyped, RowsTyped
  <2>3. Rows[Min(at)] = registry[T] /\ registry[T] # NoOid
    <3> HIDE DEF at
    <3> QED
      BY <2>2, RowsTyped
  <2> QED
    BY <1>1, <1>3, <2>3
<1>4. CASE ~(oid_map[T] = NoOid /\ at # {})
  <2>1. Emplace(Rows)[T] = oid_map[T]
    BY <1>1, <1>4
  <2> QED
    BY <2>1, <1>4
<1> QED
  BY <1>3, <1>4

-----------------------------------------------------------------------------
(* The invariant *)

\* The server's own record of the Oids each type has had.
Recorded == \A T \in Types : registry[T] # NoOid => registry[T] \in had[T]

\* While it asks, every type of the query without an Oid is among the names.
AsksForAll ==
  pc = "asking" =>
    \A T \in Needed(query) : oid_map[T] # NoOid \/ \E i \in DOMAIN new_udts : new_udts[i] = T

Ind == TypeOK /\ Recorded /\ CacheTruthful /\ AsksForAll /\ SendComplete

LEMMA InitEstablishes == Init => Ind
<1> SUFFICES ASSUME Init PROVE Ind
  OBVIOUS
<1>1. TypeOK
  BY OidAssumption DEF Init, TypeOK, Oids
<1> QED
  BY <1>1 DEF Init, Ind, Recorded, CacheTruthful, AsksForAll, SendComplete

\* What Send leaves behind is complete if the map it is given is.
LEMMA SendIsComplete ==
  ASSUME NEW q \in Queries, NEW map, Send(q, map),
         \A T \in Needed(q) : map[T] # NoOid
  PROVE  /\ pc' = "running"
         /\ DOMAIN sent' \subseteq Types
         /\ \A T \in Needed(q) : sent'[T] # NoOid
<1>1. Needed(q) \subseteq Types
  BY NeededIsComplete
<1> QED
  BY <1>1 DEF Send

LEMMA StartQueryPreserves ==
  ASSUME Ind, NEW q \in Queries, StartQuery(q)
  PROVE  Ind'
<1>1. Mentioned(q) \in Seq(Types)
  BY MentionedTyped
<1>2. /\ Extract(q) \in Seq(Types)
      /\ \A U : U \in ToSet(Extract(q)) <=> U \in Needed(q) /\ oid_map[U] = NoOid
  <2> DEFINE m == Mentioned(q)
  <2>1. m \in Seq(Types) /\ Extract(q) = Unknown(m) /\ Needed(q) = ToSet(m)
    BY <1>1 DEF Extract, Needed
  <2> HIDE DEF m
  <2>2. /\ Unknown(m) \in Seq(Types)
        /\ \A U : U \in ToSet(Unknown(m)) <=> U \in ToSet(m) /\ oid_map[U] = NoOid
    BY <2>1, UnknownTyped
  <2> QED
    BY <2>1, <2>2
<1>3. /\ new_udts' \in Seq(Types)
      /\ ToSet(new_udts') = ToSet(new_udts) \cup ToSet(Extract(q))
  <2> DEFINE e == Extract(q)
  <2>1. new_udts \in Seq(Types) /\ e \in Seq(Types) /\ new_udts' = new_udts \o e
    BY <1>2 DEF StartQuery, Ind, TypeOK
  <2> HIDE DEF e
  <2>2. new_udts \o e \in Seq(Types) /\ ToSet(new_udts \o e) = ToSet(new_udts) \cup ToSet(e)
    BY <2>1, ToSetOfConcat
  <2> QED
    BY <2>1, <2>2 DEF e
<1>4. \A T \in Needed(q) : oid_map[T] # NoOid \/ T \in ToSet(new_udts')
  BY <1>2, <1>3
<1>5. query' = q /\ UNCHANGED <<oid_map, registry, next_oid, txn, had>>
  BY DEF StartQuery, server
<1>6. CASE new_udts' = <<>>
  <2>1. \A T \in Needed(q) : oid_map[T] # NoOid
    BY <1>4, <1>6 DEF ToSet
  <2>2. Send(q, oid_map)
    BY <1>6 DEF StartQuery
  <2>3. pc' = "running" /\ DOMAIN sent' \subseteq Types /\ \A T \in Needed(q) : sent'[T] # NoOid
    BY <2>1, <2>2, SendIsComplete
  <2>4. TypeOK'
    BY <1>3, <1>5, <2>3 DEF Ind, TypeOK
  <2>5. SendComplete'
    BY <1>5, <2>3 DEF SendComplete, Needed, Mentioned
  <2>6. AsksForAll'
    BY <2>3 DEF AsksForAll
  <2>7. (Recorded /\ CacheTruthful)'
    BY <1>5 DEF Ind, Recorded, CacheTruthful
  <2> QED
    BY <2>4, <2>5, <2>6, <2>7 DEF Ind
<1>7. CASE new_udts' # <<>>
  <2>1. pc' = "asking" /\ UNCHANGED sent
    BY <1>7 DEF StartQuery
  <2>2. TypeOK'
    BY <1>3, <1>5, <2>1 DEF Ind, TypeOK
  <2>3. SendComplete'
    BY <2>1 DEF SendComplete
  <2>4. AsksForAll'
    BY <1>4, <1>5 DEF AsksForAll, Needed, Mentioned, ToSet
  <2>5. (Recorded /\ CacheTruthful)'
    BY <1>5 DEF Ind, Recorded, CacheTruthful
  <2> QED
    BY <2>2, <2>3, <2>4, <2>5 DEF Ind
<1> QED
  BY <1>6, <1>7

LEMMA StartPipelinePreserves ==
  ASSUME Ind, NEW q \in Queries, StartPipeline(q)
  PROVE  Ind'
<1>1. query' = q /\ UNCHANGED <<oid_map, new_udts, registry, next_oid, txn, had>>
  BY DEF StartPipeline, server
<1>2. (Recorded /\ CacheTruthful)'
  BY <1>1 DEF Ind, Recorded, CacheTruthful
<1>3. CASE \A T \in Needed(q) : oid_map[T] # NoOid
  <2>1. Send(q, oid_map)
    BY <1>3 DEF StartPipeline
  <2>2. pc' = "running" /\ DOMAIN sent' \subseteq Types /\ \A T \in Needed(q) : sent'[T] # NoOid
    BY <1>3, <2>1, SendIsComplete
  <2>3. TypeOK'
    BY <1>1, <2>2 DEF Ind, TypeOK
  <2>4. SendComplete'
    BY <1>1, <2>2 DEF SendComplete, Needed, Mentioned
  <2> QED
    BY <1>2, <2>2, <2>3, <2>4 DEF Ind, AsksForAll
<1>4. CASE ~ \A T \in Needed(q) : oid_map[T] # NoOid
  <2>1. pc' = "idle" /\ UNCHANGED sent
    BY <1>4 DEF StartPipeline, Fail
  <2>2. TypeOK'
    BY <1>1, <2>1 DEF Ind, TypeOK
  <2> QED
    BY <1>2, <2>1, <2>2 DEF Ind, AsksForAll, SendComplete
<1> QED
  BY <1>3, <1>4

LEMMA OidsReceivedPreserves ==
  ASSUME Ind, OidsReceived
  PROVE  Ind'
<1>1. /\ pc = "asking" /\ oid_map' = Emplace(Rows)
      /\ UNCHANGED <<new_udts, query, registry, next_oid, txn, had>>
  BY DEF OidsReceived, server
<1>2. TypeOK /\ Recorded /\ CacheTruthful /\ AsksForAll /\ query \in Queries
  BY DEF Ind, TypeOK
<1>3. oid_map' = [T \in Types |-> oid_map'[T]]
  BY <1>1 DEF Emplace
<1>4. ASSUME NEW T \in Types
      PROVE  /\ oid_map'[T] \in Oids \cup {NoOid}
             /\ oid_map'[T] # NoOid => oid_map'[T] \in had[T]
  <2>1. \/ oid_map'[T] = oid_map[T]
        \/ registry[T] # NoOid /\ oid_map'[T] = registry[T]
    BY <1>1, <1>2, Emplaced
  <2> QED
    BY <1>2, <2>1 DEF TypeOK, Recorded, CacheTruthful
<1>5. oid_map' \in [Types -> Oids \cup {NoOid}]
  BY <1>3, <1>4
<1>6. Recorded' /\ CacheTruthful'
  BY <1>1, <1>2, <1>4 DEF Recorded, CacheTruthful
<1>7. CASE GoodRows(Rows) = Len(Rows)
  <2>1. Send(query, oid_map')
    BY <1>7 DEF OidsReceived
  <2>2. ASSUME NEW T \in Needed(query) PROVE oid_map'[T] # NoOid
    <3>1. T \in Types
      BY <1>2, NeededIsComplete
    <3>2. CASE oid_map[T] # NoOid
      BY <1>1, <1>2, <3>1, <3>2, Emplaced
    <3>3. CASE \E i \in DOMAIN new_udts : new_udts[i] = T
      <4>1. GoodRows(Rows) = Len(new_udts) /\ DOMAIN new_udts = 1 .. Len(new_udts)
        BY <1>2, <1>7, RowsTyped
      <4>2. \E i \in 1 .. GoodRows(Rows) : new_udts[i] = T
        BY <3>3, <4>1
      <4> QED
        BY <1>1, <1>2, <3>1, <4>2, Emplaced
    <3> QED
      BY <1>1, <1>2, <3>2, <3>3 DEF AsksForAll
  <2>3. pc' = "running" /\ DOMAIN sent' \subseteq Types
        /\ \A T \in Needed(query) : sent'[T] # NoOid
    <3> DEFINE map == oid_map'
    <3>1. Send(query, map) /\ \A T \in Needed(query) : map[T] # NoOid
      BY <2>1, <2>2
    <3> HIDE DEF map
    <3> QED
      BY <1>2, <3>1, SendIsComplete
  <2>4. TypeOK'
    BY <1>1, <1>2, <1>5, <2>3 DEF TypeOK
  <2>5. SendComplete'
    BY <1>1, <2>3 DEF SendComplete, Needed, Mentioned
  <2> QED
    BY <1>6, <2>3, <2>4, <2>5 DEF Ind, AsksForAll
<1>8. CASE GoodRows(Rows) # Len(Rows)
  <2>1. pc' = "idle" /\ UNCHANGED sent
    BY <1>8 DEF OidsReceived, Fail
  <2>2. TypeOK'
    BY <1>1, <1>2, <1>5, <2>1 DEF TypeOK
  <2> QED
    BY <1>6, <2>1, <2>2 DEF Ind, AsksForAll, SendComplete
<1> QED
  BY <1>7, <1>8

\* The failures and what the server does leave the stored Oids alone.
LEMMA OthersPreserve ==
  ASSUME Ind,
         \/ OidsFailed
         \/ \E ok \in BOOLEAN : Run(ok)
         \/ \E T \in Types : CreateType(T) \/ DropType(T)
  PROVE  Ind'
<1>1. TypeOK /\ Recorded /\ CacheTruthful /\ AsksForAll /\ SendComplete
  BY DEF Ind
<1>2. CASE OidsFailed
  <2>1. /\ pc' = "idle" /\ txn' \in {"none", "open", "aborted"}
        /\ UNCHANGED <<oid_map, new_udts, query, sent, registry, next_oid, had>>
    BY <1>2 DEF OidsFailed, Fail
  <2>2. TypeOK'
    BY <1>1, <2>1 DEF TypeOK
  <2> QED
    BY <1>1, <2>1, <2>2 DEF Ind, Recorded, CacheTruthful, AsksForAll, SendComplete
<1>3. CASE \E ok \in BOOLEAN : Run(ok)
  <2>1. /\ pc' = "idle" /\ txn' \in {"none", "open", "aborted"}
        /\ UNCHANGED <<oid_map, new_udts, query, sent, registry, next_oid, had>>
    BY <1>1, <1>3 DEF Run, TypeOK
  <2>2. TypeOK'
    BY <1>1, <2>1 DEF TypeOK
  <2> QED
    BY <1>1, <2>1, <2>2 DEF Ind, Recorded, CacheTruthful, AsksForAll, SendComplete
<1>4. ASSUME NEW T \in Types, CreateType(T) PROVE Ind'
  <2>1. UNCHANGED <<oid_map, new_udts, pc, query, sent, outcome, txn>>
    BY <1>4 DEF CreateType, client
  <2>2. /\ next_oid \in Oids
        /\ registry' = [registry EXCEPT ![T] = next_oid]
        /\ had' = [had EXCEPT ![T] = had[T] \cup {next_oid}]
        /\ next_oid' = next_oid + 1
    BY <1>4 DEF CreateType
  <2>3. TypeOK'
    BY <1>1, <2>1, <2>2, OidAssumption DEF TypeOK, Oids
  <2>4. Recorded' /\ CacheTruthful'
    <3> SUFFICES ASSUME NEW U \in Types
                 PROVE  /\ registry'[U] # NoOid => registry'[U] \in had'[U]
                        /\ oid_map'[U] # NoOid => oid_map'[U] \in had'[U]
      BY DEF Recorded, CacheTruthful
    <3>1. CASE U = T
      BY <1>1, <2>1, <2>2, <3>1 DEF TypeOK, Recorded, CacheTruthful
    <3>2. CASE U # T
      BY <1>1, <2>1, <2>2, <3>2 DEF TypeOK, Recorded, CacheTruthful
    <3> QED
      BY <3>1, <3>2
  <2>5. AsksForAll' /\ SendComplete'
    BY <1>1, <2>1 DEF AsksForAll, SendComplete, Needed, Mentioned
  <2> QED
    BY <2>3, <2>4, <2>5 DEF Ind
<1>5. ASSUME NEW T \in Types, DropType(T) PROVE Ind'
  <2>1. /\ registry' = [registry EXCEPT ![T] = NoOid]
        /\ UNCHANGED <<oid_map, new_udts, pc, query, sent, outcome, next_oid, txn, had>>
    BY <1>5 DEF DropType, client
  <2>2. TypeOK'
    BY <1>1, <2>1 DEF TypeOK
  <2>3. Recorded' /\ CacheTruthful'
    BY <1>1, <2>1 DEF TypeOK, Recorded, CacheTruthful
  <2>4. AsksForAll' /\ SendComplete'
    BY <1>1, <2>1 DEF AsksForAll, SendComplete, Needed, Mentioned
  <2> QED
    BY <2>2, <2>3, <2>4 DEF Ind
<1> QED
  BY <1>2, <1>3, <1>4, <1>5

LEMMA NextPreserves == Ind /\ [Next]_vars => Ind'
<1> SUFFICES ASSUME Ind, [Next]_vars PROVE Ind'
  OBVIOUS
<1>1. CASE \E q \in Queries : StartQuery(q) \/ StartPipeline(q)
  BY <1>1, StartQueryPreserves, StartPipelinePreserves
<1>2. CASE OidsReceived
  BY <1>2, OidsReceivedPreserves
<1>3. CASE \/ OidsFailed
           \/ \E ok \in BOOLEAN : Run(ok)
           \/ \E T \in Types : CreateType(T) \/ DropType(T)
  BY <1>3, OthersPreserve
<1>4. CASE UNCHANGED vars
  BY <1>4 DEF vars, client, server, Ind, TypeOK, Recorded, CacheTruthful, AsksForAll,
              SendComplete, Needed, Mentioned
<1> QED
  BY <1>1, <1>2, <1>3, <1>4 DEF Next

(* Ind holds in every state the connection reaches. *)
THEOREM Invariance == Spec => []Ind
<1> QED
  BY InitEstablishes, NextPreserves, PTL DEF Spec

(* Whatever types the program uses, however they nest and whichever of them
   the server has, creates and drops, the variables keep their types. *)
THEOREM TypeCorrect == Spec => []TypeOK
<1>1. Ind => TypeOK
  BY DEF Ind
<1> QED
  BY <1>1, Invariance, PTL

(* What is stored for a type is an Oid this type has had. *)
THEOREM CacheIsTruthful == Spec => []CacheTruthful
<1>1. Ind => CacheTruthful
  BY DEF Ind
<1> QED
  BY <1>1, Invariance, PTL

(* A query is only sent when every type in its parameters has its Oid. *)
THEOREM SendIsAlwaysComplete == Spec => []SendComplete
<1>1. Ind => SendComplete
  BY DEF Ind
<1> QED
  BY <1>1, Invariance, PTL

(* A stored Oid is never replaced. *)
THEOREM CacheIsStable == Spec => CacheStable
<1> DEFINE Kept == \A T \in Types : oid_map[T] # NoOid => oid_map'[T] = oid_map[T]
<1>1. Ind /\ [Next]_vars => [Kept]_vars
  <2> SUFFICES ASSUME Ind, Next PROVE Kept
    OBVIOUS
  <2>1. CASE OidsReceived
    <3>1. oid_map' = Emplace(Rows) /\ TypeOK
      BY <2>1 DEF OidsReceived, Ind
    <3> QED
      BY <3>1, Emplaced
  <2>2. CASE ~OidsReceived
    <3>1. UNCHANGED oid_map
      BY <2>2 DEF Next, StartQuery, StartPipeline, OidsFailed, Run, CreateType, DropType, client
    <3> QED
      BY <3>1
  <2> QED
    BY <2>1, <2>2
<1> QED
  BY <1>1, Invariance, PTL DEF Spec, CacheStable
=============================================================================
