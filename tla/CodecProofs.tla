------------------------------ MODULE CodecProofs ------------------------------
(***************************************************************************)
(* The theorems of Codec.                                                  *)
(***************************************************************************)
EXTENDS Codec, DataInduction

-----------------------------------------------------------------------------
(* What the templates do for a type is what they do for it with its parts:   *)
(* no type contains itself, so that the recursive definitions have a value.  *)

LEMMA PartsOf ==
  ASSUME NEW T \in Types
  PROVE  /\ Depth[T] \in Nat /\ Depth[T] <= Nesting /\ Nesting \in Nat
         /\ \A i \in DOMAIN T.of : T.of[i] \in Types /\ Depth[T.of[i]] < Depth[T]
<1>1. T.of \in Seq(Types) /\ Depth \in [Types -> 0 .. Nesting] /\ Nesting \in Nat
  BY TypesAssumption
<1>2. Depth[T] \in 0 .. Nesting
  BY <1>1
<1>3. \A i \in DOMAIN T.of : T.of[i] \in Types
  BY <1>1
<1>4. \A i \in DOMAIN T.of : Depth[T.of[i]] < Depth[T]
  BY TypesAssumption
<1> QED
  BY <1>1, <1>2, <1>3, <1>4

LEMMA SizesUnfold ==
  ASSUME NEW T \in Types
  PROVE  Sizes[T] = SizeWith(T, [i \in DOMAIN T.of |-> Sizes[T.of[i]]])
<1> DEFINE Parts(f, U) == [i \in DOMAIN U.of |-> f[U.of[i]]]
           Body(f) == [U \in Types |-> SizeWith(U, Parts(f, U))]
           Below(k, f) == \A U \in Types : Depth[U] < k => f[U] = SizeWith(U, Parts(f, U))
           K == {k \in Nat : \E f : Below(k, f)}
<1>1. 0 \in K
  <2>1. \A U \in Types : ~(Depth[U] < 0)
    BY PartsOf
  <2> QED
    BY <2>1
<1>2. ASSUME NEW k \in K PROVE k + 1 \in K
  <2>1. PICK f : Below(k, f)
    OBVIOUS
  <2> DEFINE g == [U \in Types |-> IF Depth[U] < k THEN f[U] ELSE SizeWith(U, Parts(f, U))]
  <2>2. ASSUME NEW U \in Types, Depth[U] < k + 1 PROVE g[U] = SizeWith(U, Parts(g, U))
    <3>1. \A i \in DOMAIN U.of : U.of[i] \in Types /\ Depth[U.of[i]] < k
      BY <2>2, PartsOf
    <3>2. Parts(g, U) = Parts(f, U)
      BY <3>1
    <3>3. g[U] = SizeWith(U, Parts(f, U))
      BY <2>1
    <3> HIDE DEF Parts, g
    <3> QED
      BY <3>2, <3>3
  <2>3. Below(k + 1, g)
    BY <2>2
  <2> HIDE DEF g, Below
  <2> QED
    BY <2>3
<1>3. K = Nat
  <2>1. K \in SUBSET Nat
    OBVIOUS
  <2> HIDE DEF K
  <2> QED
    BY <1>1, <1>2, <2>1, SetInduction
<1>4. Nesting + 1 \in K
  <2>1. Nesting + 1 \in Nat
    BY TypesAssumption
  <2> HIDE DEF K
  <2> QED
    BY <1>3, <2>1
<1>5. PICK f : Below(Nesting + 1, f)
  BY <1>4
<1>6. \A U \in Types : f[U] = SizeWith(U, Parts(f, U))
  BY <1>5, PartsOf
<1> DEFINE g == [U \in Types |-> f[U]]
<1>7. \A U \in Types : g[U] = SizeWith(U, Parts(g, U))
  <2>1. ASSUME NEW U \in Types PROVE Parts(g, U) = Parts(f, U)
    BY PartsOf
  <2>2. \A U \in Types : g[U] = f[U]
    OBVIOUS
  <2> HIDE DEF Parts, g
  <2> QED
    BY <1>6, <2>1, <2>2
<1>8. g = Body(g)
  BY <1>7
<1>9. Sizes = CHOOSE h : h = Body(h)
  BY DEF Sizes
<1>10. Sizes = Body(Sizes)
  BY <1>8, <1>9
<1> QED
  BY <1>10

LEMMA WritesUnfold ==
  ASSUME NEW T \in Types
  PROVE  Writes[T] = WriteWith(T, [i \in DOMAIN T.of |-> Writes[T.of[i]]])
<1> DEFINE Parts(f, U) == [i \in DOMAIN U.of |-> f[U.of[i]]]
           Body(f) == [U \in Types |-> WriteWith(U, Parts(f, U))]
           Below(k, f) == \A U \in Types : Depth[U] < k => f[U] = WriteWith(U, Parts(f, U))
           K == {k \in Nat : \E f : Below(k, f)}
<1>1. 0 \in K
  <2>1. \A U \in Types : ~(Depth[U] < 0)
    BY PartsOf
  <2> QED
    BY <2>1
<1>2. ASSUME NEW k \in K PROVE k + 1 \in K
  <2>1. PICK f : Below(k, f)
    OBVIOUS
  <2> DEFINE g == [U \in Types |-> IF Depth[U] < k THEN f[U] ELSE WriteWith(U, Parts(f, U))]
  <2>2. ASSUME NEW U \in Types, Depth[U] < k + 1 PROVE g[U] = WriteWith(U, Parts(g, U))
    <3>1. \A i \in DOMAIN U.of : U.of[i] \in Types /\ Depth[U.of[i]] < k
      BY <2>2, PartsOf
    <3>2. Parts(g, U) = Parts(f, U)
      BY <3>1
    <3>3. g[U] = WriteWith(U, Parts(f, U))
      BY <2>1
    <3> HIDE DEF Parts, g
    <3> QED
      BY <3>2, <3>3
  <2>3. Below(k + 1, g)
    BY <2>2
  <2> HIDE DEF g, Below
  <2> QED
    BY <2>3
<1>3. K = Nat
  <2>1. K \in SUBSET Nat
    OBVIOUS
  <2> HIDE DEF K
  <2> QED
    BY <1>1, <1>2, <2>1, SetInduction
<1>4. Nesting + 1 \in K
  <2>1. Nesting + 1 \in Nat
    BY TypesAssumption
  <2> HIDE DEF K
  <2> QED
    BY <1>3, <2>1
<1>5. PICK f : Below(Nesting + 1, f)
  BY <1>4
<1>6. \A U \in Types : f[U] = WriteWith(U, Parts(f, U))
  BY <1>5, PartsOf
<1> DEFINE g == [U \in Types |-> f[U]]
<1>7. \A U \in Types : g[U] = WriteWith(U, Parts(g, U))
  <2>1. ASSUME NEW U \in Types PROVE Parts(g, U) = Parts(f, U)
    BY PartsOf
  <2>2. \A U \in Types : g[U] = f[U]
    OBVIOUS
  <2> HIDE DEF Parts, g
  <2> QED
    BY <1>6, <2>1, <2>2
<1>8. g = Body(g)
  BY <1>7
<1>9. Writes = CHOOSE h : h = Body(h)
  BY DEF Writes
<1>10. Writes = Body(Writes)
  BY <1>8, <1>9
<1> QED
  BY <1>10

LEMMA ReadersUnfold ==
  ASSUME NEW T \in Types
  PROVE  Readers[T] = ReadWith(T, [i \in DOMAIN T.of |-> Readers[T.of[i]]])
<1> DEFINE Parts(f, U) == [i \in DOMAIN U.of |-> f[U.of[i]]]
           Body(f) == [U \in Types |-> ReadWith(U, Parts(f, U))]
           Below(k, f) == \A U \in Types : Depth[U] < k => f[U] = ReadWith(U, Parts(f, U))
           K == {k \in Nat : \E f : Below(k, f)}
<1>1. 0 \in K
  <2>1. \A U \in Types : ~(Depth[U] < 0)
    BY PartsOf
  <2> QED
    BY <2>1
<1>2. ASSUME NEW k \in K PROVE k + 1 \in K
  <2>1. PICK f : Below(k, f)
    OBVIOUS
  <2> DEFINE g == [U \in Types |-> IF Depth[U] < k THEN f[U] ELSE ReadWith(U, Parts(f, U))]
  <2>2. ASSUME NEW U \in Types, Depth[U] < k + 1 PROVE g[U] = ReadWith(U, Parts(g, U))
    <3>1. \A i \in DOMAIN U.of : U.of[i] \in Types /\ Depth[U.of[i]] < k
      BY <2>2, PartsOf
    <3>2. Parts(g, U) = Parts(f, U)
      BY <3>1
    <3>3. g[U] = ReadWith(U, Parts(f, U))
      BY <2>1
    <3> HIDE DEF Parts, g
    <3> QED
      BY <3>2, <3>3
  <2>3. Below(k + 1, g)
    BY <2>2
  <2> HIDE DEF g, Below
  <2> QED
    BY <2>3
<1>3. K = Nat
  <2>1. K \in SUBSET Nat
    OBVIOUS
  <2> HIDE DEF K
  <2> QED
    BY <1>1, <1>2, <2>1, SetInduction
<1>4. Nesting + 1 \in K
  <2>1. Nesting + 1 \in Nat
    BY TypesAssumption
  <2> HIDE DEF K
  <2> QED
    BY <1>3, <2>1
<1>5. PICK f : Below(Nesting + 1, f)
  BY <1>4
<1>6. \A U \in Types : f[U] = ReadWith(U, Parts(f, U))
  BY <1>5, PartsOf
<1> DEFINE g == [U \in Types |-> f[U]]
<1>7. \A U \in Types : g[U] = ReadWith(U, Parts(g, U))
  <2>1. ASSUME NEW U \in Types PROVE Parts(g, U) = Parts(f, U)
    BY PartsOf
  <2>2. \A U \in Types : g[U] = f[U]
    OBVIOUS
  <2> HIDE DEF Parts, g
  <2> QED
    BY <1>6, <2>1, <2>2
<1>8. g = Body(g)
  BY <1>7
<1>9. Readers = CHOOSE h : h = Body(h)
  BY DEF Readers
<1>10. Readers = Body(Readers)
  BY <1>8, <1>9
<1> QED
  BY <1>10

LEMMA ReceivesUnfold ==
  ASSUME NEW T \in Types
  PROVE  Receives[T] = ReceiveWith(T, [i \in DOMAIN T.of |-> Receives[T.of[i]]])
<1> DEFINE Parts(f, U) == [i \in DOMAIN U.of |-> f[U.of[i]]]
           Body(f) == [U \in Types |-> ReceiveWith(U, Parts(f, U))]
           Below(k, f) == \A U \in Types : Depth[U] < k => f[U] = ReceiveWith(U, Parts(f, U))
           K == {k \in Nat : \E f : Below(k, f)}
<1>1. 0 \in K
  <2>1. \A U \in Types : ~(Depth[U] < 0)
    BY PartsOf
  <2> QED
    BY <2>1
<1>2. ASSUME NEW k \in K PROVE k + 1 \in K
  <2>1. PICK f : Below(k, f)
    OBVIOUS
  <2> DEFINE g == [U \in Types |-> IF Depth[U] < k THEN f[U] ELSE ReceiveWith(U, Parts(f, U))]
  <2>2. ASSUME NEW U \in Types, Depth[U] < k + 1 PROVE g[U] = ReceiveWith(U, Parts(g, U))
    <3>1. \A i \in DOMAIN U.of : U.of[i] \in Types /\ Depth[U.of[i]] < k
      BY <2>2, PartsOf
    <3>2. Parts(g, U) = Parts(f, U)
      BY <3>1
    <3>3. g[U] = ReceiveWith(U, Parts(f, U))
      BY <2>1
    <3> HIDE DEF Parts, g
    <3> QED
      BY <3>2, <3>3
  <2>3. Below(k + 1, g)
    BY <2>2
  <2> HIDE DEF g, Below
  <2> QED
    BY <2>3
<1>3. K = Nat
  <2>1. K \in SUBSET Nat
    OBVIOUS
  <2> HIDE DEF K
  <2> QED
    BY <1>1, <1>2, <2>1, SetInduction
<1>4. Nesting + 1 \in K
  <2>1. Nesting + 1 \in Nat
    BY TypesAssumption
  <2> HIDE DEF K
  <2> QED
    BY <1>3, <2>1
<1>5. PICK f : Below(Nesting + 1, f)
  BY <1>4
<1>6. \A U \in Types : f[U] = ReceiveWith(U, Parts(f, U))
  BY <1>5, PartsOf
<1> DEFINE g == [U \in Types |-> f[U]]
<1>7. \A U \in Types : g[U] = ReceiveWith(U, Parts(g, U))
  <2>1. ASSUME NEW U \in Types PROVE Parts(g, U) = Parts(f, U)
    BY PartsOf
  <2>2. \A U \in Types : g[U] = f[U]
    OBVIOUS
  <2> HIDE DEF Parts, g
  <2> QED
    BY <1>6, <2>1, <2>2
<1>8. g = Body(g)
  BY <1>7
<1>9. Receives = CHOOSE h : h = Body(h)
  BY DEF Receives
<1>10. Receives = Body(Receives)
  BY <1>8, <1>9
<1> QED
  BY <1>10

LEMMA SentUnfold ==
  ASSUME NEW T \in Types
  PROVE  Sent[T] = SendWith(T, [i \in DOMAIN T.of |-> Sent[T.of[i]]])
<1> DEFINE Parts(f, U) == [i \in DOMAIN U.of |-> f[U.of[i]]]
           Body(f) == [U \in Types |-> SendWith(U, Parts(f, U))]
           Below(k, f) == \A U \in Types : Depth[U] < k => f[U] = SendWith(U, Parts(f, U))
           K == {k \in Nat : \E f : Below(k, f)}
<1>1. 0 \in K
  <2>1. \A U \in Types : ~(Depth[U] < 0)
    BY PartsOf
  <2> QED
    BY <2>1
<1>2. ASSUME NEW k \in K PROVE k + 1 \in K
  <2>1. PICK f : Below(k, f)
    OBVIOUS
  <2> DEFINE g == [U \in Types |-> IF Depth[U] < k THEN f[U] ELSE SendWith(U, Parts(f, U))]
  <2>2. ASSUME NEW U \in Types, Depth[U] < k + 1 PROVE g[U] = SendWith(U, Parts(g, U))
    <3>1. \A i \in DOMAIN U.of : U.of[i] \in Types /\ Depth[U.of[i]] < k
      BY <2>2, PartsOf
    <3>2. Parts(g, U) = Parts(f, U)
      BY <3>1
    <3>3. g[U] = SendWith(U, Parts(f, U))
      BY <2>1
    <3> HIDE DEF Parts, g
    <3> QED
      BY <3>2, <3>3
  <2>3. Below(k + 1, g)
    BY <2>2
  <2> HIDE DEF g, Below
  <2> QED
    BY <2>3
<1>3. K = Nat
  <2>1. K \in SUBSET Nat
    OBVIOUS
  <2> HIDE DEF K
  <2> QED
    BY <1>1, <1>2, <2>1, SetInduction
<1>4. Nesting + 1 \in K
  <2>1. Nesting + 1 \in Nat
    BY TypesAssumption
  <2> HIDE DEF K
  <2> QED
    BY <1>3, <2>1
<1>5. PICK f : Below(Nesting + 1, f)
  BY <1>4
<1>6. \A U \in Types : f[U] = SendWith(U, Parts(f, U))
  BY <1>5, PartsOf
<1> DEFINE g == [U \in Types |-> f[U]]
<1>7. \A U \in Types : g[U] = SendWith(U, Parts(g, U))
  <2>1. ASSUME NEW U \in Types PROVE Parts(g, U) = Parts(f, U)
    BY PartsOf
  <2>2. \A U \in Types : g[U] = f[U]
    OBVIOUS
  <2> HIDE DEF Parts, g
  <2> QED
    BY <1>6, <2>1, <2>2
<1>8. g = Body(g)
  BY <1>7
<1>9. Sent = CHOOSE h : h = Body(h)
  BY DEF Sent
<1>10. Sent = Body(Sent)
  BY <1>8, <1>9
<1> QED
  BY <1>10

LEMMA StoresUnfold ==
  ASSUME NEW T \in Types
  PROVE  Stores[T] = StoreWith(T, [i \in DOMAIN T.of |-> Stores[T.of[i]]])
<1> DEFINE Parts(f, U) == [i \in DOMAIN U.of |-> f[U.of[i]]]
           Body(f) == [U \in Types |-> StoreWith(U, Parts(f, U))]
           Below(k, f) == \A U \in Types : Depth[U] < k => f[U] = StoreWith(U, Parts(f, U))
           K == {k \in Nat : \E f : Below(k, f)}
<1>1. 0 \in K
  <2>1. \A U \in Types : ~(Depth[U] < 0)
    BY PartsOf
  <2> QED
    BY <2>1
<1>2. ASSUME NEW k \in K PROVE k + 1 \in K
  <2>1. PICK f : Below(k, f)
    OBVIOUS
  <2> DEFINE g == [U \in Types |-> IF Depth[U] < k THEN f[U] ELSE StoreWith(U, Parts(f, U))]
  <2>2. ASSUME NEW U \in Types, Depth[U] < k + 1 PROVE g[U] = StoreWith(U, Parts(g, U))
    <3>1. \A i \in DOMAIN U.of : U.of[i] \in Types /\ Depth[U.of[i]] < k
      BY <2>2, PartsOf
    <3>2. Parts(g, U) = Parts(f, U)
      BY <3>1
    <3>3. g[U] = StoreWith(U, Parts(f, U))
      BY <2>1
    <3> HIDE DEF Parts, g
    <3> QED
      BY <3>2, <3>3
  <2>3. Below(k + 1, g)
    BY <2>2
  <2> HIDE DEF g, Below
  <2> QED
    BY <2>3
<1>3. K = Nat
  <2>1. K \in SUBSET Nat
    OBVIOUS
  <2> HIDE DEF K
  <2> QED
    BY <1>1, <1>2, <2>1, SetInduction
<1>4. Nesting + 1 \in K
  <2>1. Nesting + 1 \in Nat
    BY TypesAssumption
  <2> HIDE DEF K
  <2> QED
    BY <1>3, <2>1
<1>5. PICK f : Below(Nesting + 1, f)
  BY <1>4
<1>6. \A U \in Types : f[U] = StoreWith(U, Parts(f, U))
  BY <1>5, PartsOf
<1> DEFINE g == [U \in Types |-> f[U]]
<1>7. \A U \in Types : g[U] = StoreWith(U, Parts(g, U))
  <2>1. ASSUME NEW U \in Types PROVE Parts(g, U) = Parts(f, U)
    BY PartsOf
  <2>2. \A U \in Types : g[U] = f[U]
    OBVIOUS
  <2> HIDE DEF Parts, g
  <2> QED
    BY <1>6, <2>1, <2>2
<1>8. g = Body(g)
  BY <1>7
<1>9. Stores = CHOOSE h : h = Body(h)
  BY DEF Stores
<1>10. Stores = Body(Stores)
  BY <1>8, <1>9
<1> QED
  BY <1>10

LEMMA MeaningsUnfold ==
  ASSUME NEW T \in Types
  PROVE  Meanings[T] = MeanWith(T, [i \in DOMAIN T.of |-> Meanings[T.of[i]]])
<1> DEFINE Parts(f, U) == [i \in DOMAIN U.of |-> f[U.of[i]]]
           Body(f) == [U \in Types |-> MeanWith(U, Parts(f, U))]
           Below(k, f) == \A U \in Types : Depth[U] < k => f[U] = MeanWith(U, Parts(f, U))
           K == {k \in Nat : \E f : Below(k, f)}
<1>1. 0 \in K
  <2>1. \A U \in Types : ~(Depth[U] < 0)
    BY PartsOf
  <2> QED
    BY <2>1
<1>2. ASSUME NEW k \in K PROVE k + 1 \in K
  <2>1. PICK f : Below(k, f)
    OBVIOUS
  <2> DEFINE g == [U \in Types |-> IF Depth[U] < k THEN f[U] ELSE MeanWith(U, Parts(f, U))]
  <2>2. ASSUME NEW U \in Types, Depth[U] < k + 1 PROVE g[U] = MeanWith(U, Parts(g, U))
    <3>1. \A i \in DOMAIN U.of : U.of[i] \in Types /\ Depth[U.of[i]] < k
      BY <2>2, PartsOf
    <3>2. Parts(g, U) = Parts(f, U)
      BY <3>1
    <3>3. g[U] = MeanWith(U, Parts(f, U))
      BY <2>1
    <3> HIDE DEF Parts, g
    <3> QED
      BY <3>2, <3>3
  <2>3. Below(k + 1, g)
    BY <2>2
  <2> HIDE DEF g, Below
  <2> QED
    BY <2>3
<1>3. K = Nat
  <2>1. K \in SUBSET Nat
    OBVIOUS
  <2> HIDE DEF K
  <2> QED
    BY <1>1, <1>2, <2>1, SetInduction
<1>4. Nesting + 1 \in K
  <2>1. Nesting + 1 \in Nat
    BY TypesAssumption
  <2> HIDE DEF K
  <2> QED
    BY <1>3, <2>1
<1>5. PICK f : Below(Nesting + 1, f)
  BY <1>4
<1>6. \A U \in Types : f[U] = MeanWith(U, Parts(f, U))
  BY <1>5, PartsOf
<1> DEFINE g == [U \in Types |-> f[U]]
<1>7. \A U \in Types : g[U] = MeanWith(U, Parts(g, U))
  <2>1. ASSUME NEW U \in Types PROVE Parts(g, U) = Parts(f, U)
    BY PartsOf
  <2>2. \A U \in Types : g[U] = f[U]
    OBVIOUS
  <2> HIDE DEF Parts, g
  <2> QED
    BY <1>6, <2>1, <2>2
<1>8. g = Body(g)
  BY <1>7
<1>9. Meanings = CHOOSE h : h = Body(h)
  BY DEF Meanings
<1>10. Meanings = Body(Meanings)
  BY <1>8, <1>9
<1> QED
  BY <1>10

-----------------------------------------------------------------------------
(* Functions defined by recursion on the positions of a sequence *)

\* h starts at e, and follows the step G up to n where it can.
Steps(h, n, V, e, G) ==
  h[0] = e /\ \A i \in 1 .. n : h[i - 1] \in V => h[i] = G[<<h[i - 1], i>>]

\* Such a function follows it everywhere.
LEMMA FollowsAll ==
  ASSUME NEW n \in Nat, NEW V, NEW e \in V, NEW G \in [V \X (1 .. n) -> V],
         NEW h, Steps(h, n, V, e, G)
  PROVE  Follows(h, n, e, G) /\ \A i \in 0 .. n : h[i] \in V
<1> DEFINE K == {k \in Nat : k <= n => h[k] \in V}
<1>0. h[0] = e /\ \A i \in 1 .. n : h[i - 1] \in V => h[i] = G[<<h[i - 1], i>>]
  BY DEF Steps
<1>1. 0 \in K
  BY <1>0
<1>2. ASSUME NEW k \in K PROVE k + 1 \in K
  <2> SUFFICES ASSUME k + 1 <= n PROVE h[k + 1] \in V
    OBVIOUS
  <2>1. h[k] \in V /\ k + 1 \in 1 .. n /\ (k + 1) - 1 = k
    OBVIOUS
  <2>2. h[k + 1] = G[<<h[k], k + 1>>]
    BY <1>0, <2>1
  <2>3. <<h[k], k + 1>> \in V \X (1 .. n)
    BY <2>1
  <2> QED
    BY <2>2, <2>3
<1>3. K = Nat
  <2>1. K \in SUBSET Nat
    OBVIOUS
  <2> HIDE DEF K
  <2> QED
    BY <1>1, <1>2, <2>1, SetInduction
<1>4. \A i \in 0 .. n : i \in K
  <2>1. \A i \in 0 .. n : i \in Nat
    OBVIOUS
  <2> HIDE DEF K
  <2> QED
    BY <1>3, <2>1
<1>5. \A i \in 0 .. n : h[i] \in V
  BY <1>4
<1> HIDE DEF K
<1>6. \A i \in 1 .. n : h[i] = G[<<h[i - 1], i>>]
  <2>1. \A i \in 1 .. n : i - 1 \in 0 .. n
    OBVIOUS
  <2> QED
    BY <1>0, <1>5, <2>1
<1> QED
  BY <1>0, <1>5, <1>6 DEF Follows

\* A function on 1 .. n is a sequence.
LEMMA TableSeq ==
  ASSUME NEW V, NEW n \in Nat, NEW s \in [1 .. n -> V]
  PROVE  s \in Seq(V) /\ Len(s) = n /\ DOMAIN s = 1 .. n
OBVIOUS

-----------------------------------------------------------------------------
(* SQLSTATEs *)

SqlDigits == [1 .. 5 -> 0 .. 35]

LEMMA SqlDigitsTyped ==
  ASSUME NEW s \in SqlDigits
  PROVE  s \in Seq(Nat) /\ Len(s) = 5
<1>1. s \in [1 .. 5 -> Nat] /\ 5 \in Nat
  BY DEF SqlDigits
<1> QED
  BY <1>1, TableSeq

LEMMA Strtol36Follows ==
  ASSUME NEW s \in SqlDigits
  PROVE  \E h : /\ Strtol36(s) = h[5] /\ h[0] = 0
                /\ \A i \in 1 .. 5 : h[i] = h[i - 1] * 36 + s[i]
<1> DEFINE Body(f) == [i \in 0 .. Len(s) |-> IF i = 0 THEN 0 ELSE f[i - 1] * 36 + s[i]]
           h == CHOOSE f : f = Body(f)
<1>1. Len(s) = 5 /\ \A i \in 1 .. 5 : s[i] \in 0 .. 35
  <2>1. s \in [1 .. 5 -> 0 .. 35] /\ 5 \in Nat
    BY DEF SqlDigits
  <2> QED
    BY <2>1, TableSeq
<1>2. Strtol36(s) = h[5]
  BY <1>1 DEF Strtol36
<1>3. \E f : f = Body(f)
  <2> DEFINE G == [p \in Nat \X (1 .. 5) |-> p[1] * 36 + s[p[2]]]
  <2>1. G \in [Nat \X (1 .. 5) -> Nat]
    BY <1>1
  <2>2. PICK f \in [0 .. 5 -> Nat] : Follows(f, 5, 0, G)
    <3> HIDE DEF G
    <3> QED
      BY <2>1, RecursiveFunction
  <2>3. ASSUME NEW i \in 1 .. 5 PROVE f[i] = f[i - 1] * 36 + s[i]
    <3>1. <<f[i - 1], i>> \in Nat \X (1 .. 5)
      OBVIOUS
    <3>2. G[<<f[i - 1], i>>] = f[i - 1] * 36 + s[i]
      BY <3>1
    <3> QED
      BY <2>2, <3>2 DEF Follows
  <2>4. f = Body(f)
    BY <1>1, <2>2, <2>3 DEF Follows
  <2> QED
    BY <2>4
<1>4. h = Body(h)
  BY <1>3
<1> HIDE DEF h
<1>5. h[0] = 0 /\ \A i \in 1 .. 5 : h[i] = h[i - 1] * 36 + s[i]
  BY <1>1, <1>4
<1> QED
  BY <1>2, <1>5

LEMMA Strtol36Value ==
  ASSUME NEW s \in SqlDigits
  PROVE  Strtol36(s) = (((s[1] * 36 + s[2]) * 36 + s[3]) * 36 + s[4]) * 36 + s[5]
<1>1. PICK h : /\ Strtol36(s) = h[5] /\ h[0] = 0
               /\ \A i \in 1 .. 5 : h[i] = h[i - 1] * 36 + s[i]
  BY Strtol36Follows
<1>2. \A i \in 1 .. 5 : s[i] \in Int
  BY DEF SqlDigits
<1>3. h[1] = h[1 - 1] * 36 + s[1] /\ 1 - 1 = 0
  BY <1>1
<1>4. h[2] = h[2 - 1] * 36 + s[2] /\ 2 - 1 = 1
  BY <1>1
<1>5. h[3] = h[3 - 1] * 36 + s[3] /\ 3 - 1 = 2
  BY <1>1
<1>6. h[4] = h[4 - 1] * 36 + s[4] /\ 4 - 1 = 3
  BY <1>1
<1>7. h[5] = h[5 - 1] * 36 + s[5] /\ 5 - 1 = 4
  BY <1>1
<1>8. h[1] = s[1]
  BY <1>1, <1>2, <1>3
<1> QED
  BY <1>1, <1>4, <1>5, <1>6, <1>7, <1>8

\* What is left of the value after each turn of the loop.
LEMMA ToBase36Follows ==
  ASSUME NEW c \in Nat
  PROVE  \E h \in [0 .. MaxDigits -> Nat] :
           /\ h[0] = c /\ \A i \in 1 .. MaxDigits : h[i] = h[i - 1] \div 36
           /\ LET turns == Min({i \in 0 .. MaxDigits : h[i] = 0})
              IN  ToBase36(c) = [j \in 1 .. turns |-> h[turns - j] % 36]
<1> DEFINE Body(f) == [i \in 0 .. MaxDigits |-> IF i = 0 THEN c ELSE f[i - 1] \div 36]
           h == CHOOSE f : f = Body(f)
           G == [p \in Nat \X (1 .. MaxDigits) |-> p[1] \div 36]
<1>0. MaxDigits \in Nat
  BY DEF MaxDigits
<1>1. G \in [Nat \X (1 .. MaxDigits) -> Nat]
  OBVIOUS
<1>2. ASSUME NEW x \in Nat, NEW i \in 1 .. MaxDigits PROVE G[<<x, i>>] = x \div 36
  OBVIOUS
<1> HIDE DEF G
<1>3. \E f : f = Body(f)
  <2>1. PICK f \in [0 .. MaxDigits -> Nat] : Follows(f, MaxDigits, c, G)
    BY <1>0, <1>1, RecursiveFunction
  <2>2. ASSUME NEW i \in 1 .. MaxDigits PROVE f[i] = f[i - 1] \div 36
    <3>1. f[i] = G[<<f[i - 1], i>>] /\ i - 1 \in 0 .. MaxDigits
      BY <1>0, <2>1 DEF Follows
    <3>2. f[i - 1] \in Nat
      BY <2>1, <3>1
    <3> QED
      BY <1>2, <3>1, <3>2
  <2>3. f = Body(f)
    BY <2>1, <2>2 DEF Follows
  <2> QED
    BY <2>3
<1>4. h = Body(h)
  BY <1>3
<1>5. ToBase36(c) = LET turns == Min({i \in 0 .. MaxDigits : h[i] = 0})
                    IN  [j \in 1 .. turns |-> h[turns - j] % 36]
  BY DEF ToBase36
<1> HIDE DEF h
<1>6. h[0] = c /\ \A i \in 1 .. MaxDigits : h[i] = h[i - 1] \div 36
  BY <1>0, <1>4
<1>7. \A i \in 0 .. MaxDigits : h[i] \in Nat
  <2>1. Steps(h, MaxDigits, Nat, c, G)
    BY <1>2, <1>6 DEF Steps
  <2> QED
    BY <1>0, <1>1, <2>1, FollowsAll
<1>8. h \in [0 .. MaxDigits -> Nat]
  BY <1>4, <1>7
<1> QED
  BY <1>5, <1>6, <1>8

\* y is x and then the digit d.
IsDigit(y, x, d) ==
  /\ y \in Nat /\ (y = 0 => x = 0 /\ d = 0)
  /\ y \div 36 = x /\ (y % 36) = d

LEMMA Digit ==
  ASSUME NEW x \in Nat, NEW d \in 0 .. 35
  PROVE  IsDigit(x * 36 + d, x, d)
<1>1. (x * 36 + d) \div 36 = x /\ (x * 36 + d) % 36 = d
  OBVIOUS
<1>2. x * 36 + d \in Nat /\ (x * 36 + d = 0 => x = 0 /\ d = 0)
  OBVIOUS
<1> QED
  BY <1>1, <1>2 DEF IsDigit

\* to_base36 gives back, after the zeros it starts with, the SQLSTATE that strtol
\* made the error code from, and the code of an error is not the one of success.
THEOREM SqlStateTold ==
  ASSUME NEW s \in SqlDigits, NEW c, c = Strtol36(s), \E i \in 1 .. 5 : s[i] # 0
  PROVE  /\ c \in Nat /\ c # 0
         /\ LET digits == ToBase36(c)
            IN  [i \in 1 .. 5 - Len(digits) |-> 0] \o digits = s
<1>1. \A i \in 1 .. 5 : s[i] \in 0 .. 35
  BY DEF SqlDigits
<1> DEFINE x1 == s[1]
           x2 == x1 * 36 + s[2]
           x3 == x2 * 36 + s[3]
           x4 == x3 * 36 + s[4]
<1>2. c = x4 * 36 + s[5]
  BY Strtol36Value
<1>3. /\ s[1] \in 0 .. 35 /\ s[2] \in 0 .. 35 /\ s[3] \in 0 .. 35 /\ s[4] \in 0 .. 35
      /\ s[5] \in 0 .. 35 /\ x1 = s[1]
  BY <1>1
<1> HIDE DEF x1
<1>4. x1 \in Nat /\ IsDigit(x2, x1, s[2])
  <2>1. x1 \in Nat
    BY <1>3
  <2> QED
    BY <1>3, <2>1, Digit DEF x2
<1> HIDE DEF x2
<1>5. x2 \in Nat /\ IsDigit(x3, x2, s[3])
  <2>1. x2 \in Nat
    BY <1>4 DEF IsDigit
  <2> QED
    BY <1>3, <2>1, Digit DEF x3
<1> HIDE DEF x3
<1>6. x3 \in Nat /\ IsDigit(x4, x3, s[4])
  <2>1. x3 \in Nat
    BY <1>5 DEF IsDigit
  <2> QED
    BY <1>3, <2>1, Digit DEF x4
<1> HIDE DEF x4
<1>10. x4 \in Nat /\ IsDigit(c, x4, s[5])
  <2>1. x4 \in Nat
    BY <1>6 DEF IsDigit
  <2> QED
    BY <1>2, <1>3, <2>1, Digit
<1>7. c \in Nat /\ c # 0
  <2>1. c \in Nat /\ (c = 0 => x1 = 0 /\ s[2] = 0 /\ s[3] = 0 /\ s[4] = 0 /\ s[5] = 0)
    BY <1>4, <1>5, <1>6, <1>10 DEF IsDigit
  <2>2. s[1] # 0 \/ s[2] # 0 \/ s[3] # 0 \/ s[4] # 0 \/ s[5] # 0
    OBVIOUS
  <2> QED
    BY <1>3, <2>1, <2>2
<1>8. PICK h \in [0 .. MaxDigits -> Nat] :
        /\ h[0] = c /\ \A i \in 1 .. MaxDigits : h[i] = h[i - 1] \div 36
        /\ LET turns == Min({i \in 0 .. MaxDigits : h[i] = 0})
           IN  ToBase36(c) = [j \in 1 .. turns |-> h[turns - j] % 36]
  BY <1>7, ToBase36Follows
<1>9. /\ h[1] = h[0] \div 36 /\ h[2] = h[1] \div 36 /\ h[3] = h[2] \div 36
      /\ h[4] = h[3] \div 36 /\ h[5] = h[4] \div 36
  <2>1. h[1] = h[1 - 1] \div 36 /\ h[2] = h[2 - 1] \div 36 /\ h[3] = h[3 - 1] \div 36
    BY <1>8 DEF MaxDigits
  <2>2. h[4] = h[4 - 1] \div 36 /\ h[5] = h[5 - 1] \div 36
    BY <1>8 DEF MaxDigits
  <2> QED
    BY <2>1, <2>2
<1>11. /\ c \div 36 = x4 /\ x4 \div 36 = x3 /\ x3 \div 36 = x2 /\ x2 \div 36 = x1
       /\ (c % 36) = s[5] /\ (x4 % 36) = s[4] /\ (x3 % 36) = s[3] /\ (x2 % 36) = s[2]
  BY <1>4, <1>5, <1>6, <1>10 DEF IsDigit
<1>12. (x2 = 0 => x1 = 0 /\ s[2] = 0) /\ (x3 = 0 => x2 = 0 /\ s[3] = 0) /\ (x4 = 0 => x3 = 0 /\ s[4] = 0)
  BY <1>4, <1>5, <1>6 DEF IsDigit
<1>14. /\ x1 \div 36 = 0 /\ x1 % 36 = s[1]
  <2>1. \A d \in 0 .. 35 : d \div 36 = 0 /\ d % 36 = d
    OBVIOUS
  <2> QED
    BY <1>3, <2>1
<1>15. /\ h[0] = c /\ h[1] = x4 /\ h[2] = x3 /\ h[3] = x2 /\ h[4] = x1 /\ h[5] = 0
  BY <1>8, <1>9, <1>11, <1>14
<1> DEFINE zeros == {i \in 0 .. MaxDigits : h[i] = 0}
           t == Min(zeros)
<1>20. t \in zeros /\ \A i \in zeros : t <= i
  <2>1. zeros \in SUBSET Nat /\ 5 \in zeros
    BY <1>15 DEF MaxDigits
  <2> HIDE DEF zeros
  <2> QED
    BY <2>1, MinOfNaturals
<1>21. t \in 0 .. 5 /\ h[t] = 0
  BY <1>15, <1>20 DEF MaxDigits
<1>22. ToBase36(c) = [j \in 1 .. t |-> h[t - j] % 36]
  BY <1>8
<1> HIDE DEF t, zeros
<1> DEFINE d == [j \in 1 .. t |-> h[t - j] % 36]
           z == [i \in 1 .. 5 - t |-> 0]
<1>23. d \in Seq(Nat) /\ Len(d) = t /\ \A j \in 1 .. t : d[j] = h[t - j] % 36
  <2>1. \A j \in 1 .. t : h[t - j] % 36 \in Nat
    <3> TAKE j \in 1 .. t
    <3>1. t - j \in 0 .. MaxDigits
      BY <1>21 DEF MaxDigits
    <3>2. h[t - j] \in Nat
      BY <1>8, <3>1
    <3> QED
      BY <3>2
  <2> HIDE DEF d
  <2>2. d \in [1 .. t -> Nat] /\ t \in Nat
    BY <1>21, <2>1 DEF d
  <2>3. \A j \in 1 .. t : d[j] = h[t - j] % 36
    BY DEF d
  <2> QED
    BY <2>2, <2>3, TableSeq
<1>24. z \in Seq(Nat) /\ Len(z) = 5 - t /\ \A i \in 1 .. 5 - t : z[i] = 0
  BY <1>21
<1>25. \A k \in 0 .. 4 : h[k] % 36 = s[5 - k]
  <2>1. \A k \in 0 .. 4 : k = 0 \/ k = 1 \/ k = 2 \/ k = 3 \/ k = 4
    OBVIOUS
  <2>2. 5 - 0 = 5 /\ 5 - 1 = 4 /\ 5 - 2 = 3 /\ 5 - 3 = 2 /\ 5 - 4 = 1
    OBVIOUS
  <2> QED
    BY <1>3, <1>11, <1>14, <1>15, <2>1, <2>2
<1>26. \A i \in 1 .. 5 - t : s[i] = 0
  <2>1. t = 0 \/ t = 1 \/ t = 2 \/ t = 3 \/ t = 4 \/ t = 5
    BY <1>21
  <2>2. h[0] # 0
    BY <1>7, <1>15
  <2>3. CASE t = 5
    BY <2>3
  <2>4. CASE t = 4
    <3>1. \A i \in 1 .. 5 - t : i = 1
      BY <2>4
    <3>2. s[1] = 0
      BY <1>3, <1>15, <1>21, <2>4
    <3> QED
      BY <3>1, <3>2
  <2>5. CASE t = 3
    <3>1. \A i \in 1 .. 5 - t : i = 1 \/ i = 2
      BY <2>5
    <3>2. s[1] = 0 /\ s[2] = 0
      BY <1>3, <1>12, <1>15, <1>21, <2>5
    <3> QED
      BY <3>1, <3>2
  <2>6. CASE t = 2
    <3>1. \A i \in 1 .. 5 - t : i = 1 \/ i = 2 \/ i = 3
      BY <2>6
    <3>2. s[1] = 0 /\ s[2] = 0 /\ s[3] = 0
      BY <1>3, <1>12, <1>15, <1>21, <2>6
    <3> QED
      BY <3>1, <3>2
  <2>7. CASE t = 1
    <3>1. \A i \in 1 .. 5 - t : i = 1 \/ i = 2 \/ i = 3 \/ i = 4
      BY <2>7
    <3>2. s[1] = 0 /\ s[2] = 0 /\ s[3] = 0 /\ s[4] = 0
      BY <1>3, <1>12, <1>15, <1>21, <2>7
    <3> QED
      BY <3>1, <3>2
  <2>8. CASE t = 0
    BY <1>21, <2>2, <2>8
  <2> QED
    BY <2>1, <2>3, <2>4, <2>5, <2>6, <2>7, <2>8
<1>27. \A j \in 1 .. t : d[j] = s[5 - t + j]
  <2> TAKE j \in 1 .. t
  <2>1. t - j \in 0 .. 4 /\ 5 - (t - j) = 5 - t + j
    BY <1>21
  <2> QED
    BY <1>23, <1>25, <2>1
<1> HIDE DEF d, z
<1> DEFINE whole == z \o d
<1>28. /\ whole \in Seq(Nat) /\ Len(whole) = Len(z) + Len(d)
       /\ \A i \in 1 .. Len(z) + Len(d) : whole[i] = IF i <= Len(z) THEN z[i] ELSE d[i - Len(z)]
  BY ONLY <1>23, <1>24, ConcatProperties
<1> HIDE DEF whole
<1>29. Len(z) + Len(d) = 5
  BY <1>21, <1>23, <1>24
<1>30. ASSUME NEW i \in 1 .. 5 PROVE whole[i] = s[i]
  <2>1. whole[i] = IF i <= 5 - t THEN z[i] ELSE d[i - (5 - t)]
    BY <1>24, <1>28, <1>29
  <2>2. CASE i <= 5 - t
    <3>1. i \in 1 .. 5 - t
      BY <1>21, <2>2
    <3> QED
      BY <1>24, <1>26, <2>1, <2>2, <3>1
  <2>3. CASE ~(i <= 5 - t)
    <3>1. i - (5 - t) \in 1 .. t /\ 5 - t + (i - (5 - t)) = i
      BY <1>21, <2>3
    <3> QED
      BY <1>27, <2>1, <2>3, <3>1
  <2> QED
    BY <2>2, <2>3
<1>31. s \in Seq(Nat) /\ Len(s) = 5
  BY SqlDigitsTyped
<1>32. whole = s
  <2>1. Len(whole) = Len(s) /\ \A i \in 1 .. Len(whole) : whole[i] = s[i]
    BY <1>28, <1>29, <1>30, <1>31
  <2> QED
    BY ONLY <1>28, <1>31, <2>1, SeqEqual
<1>33. [i \in 1 .. 5 - Len(d) |-> 0] = z
  BY <1>23 DEF z
<1> QED
  BY <1>7, <1>22, <1>32, <1>33 DEF whole, d

\* One proof for all the values of what follows of types.
LEMMA TypeInduction ==
  ASSUME NEW S \in SUBSET Types,
         \A T \in Types : (\A i \in DOMAIN T.of : T.of[i] \in S) => T \in S
  PROVE  S = Types
<1> DEFINE K == {k \in Nat : \A T \in Types : Depth[T] < k => T \in S}
<1>1. 0 \in K
  <2>1. \A T \in Types : ~(Depth[T] < 0)
    BY PartsOf
  <2> QED
    BY <2>1
<1>2. ASSUME NEW k \in K PROVE k + 1 \in K
  <2>1. ASSUME NEW T \in Types, Depth[T] < k + 1 PROVE T \in S
    <3>1. \A i \in DOMAIN T.of : T.of[i] \in Types /\ Depth[T.of[i]] < k
      BY <2>1, PartsOf
    <3> QED
      BY <3>1
  <2> QED
    BY <2>1
<1>3. K = Nat
  <2>1. K \in SUBSET Nat
    OBVIOUS
  <2> HIDE DEF K
  <2> QED
    BY <1>1, <1>2, <2>1, SetInduction
<1>4. Nesting + 1 \in K
  <2>1. Nesting + 1 \in Nat
    BY TypesAssumption
  <2> HIDE DEF K
  <2> QED
    BY <1>3, <2>1
<1>5. \A T \in Types : Depth[T] < Nesting + 1
  BY PartsOf
<1> QED
  BY <1>4, <1>5

-----------------------------------------------------------------------------
(* Bytes *)

\* Two functions that apply the same step from the same start agree.
LEMMA IteratesSame ==
  ASSUME NEW n \in Nat, NEW m \in Nat, n <= m, NEW e, NEW step, NEW f, NEW h,
         Iterates(f, n, e, step), Iterates(h, m, e, step)
  PROVE  \A i \in 0 .. n : f[i] = h[i]
<1> DEFINE K == {k \in Nat : k <= n => f[k] = h[k]}
<1>1. 0 \in K
  BY DEF Iterates
<1>2. ASSUME NEW k \in K PROVE k + 1 \in K
  <2> SUFFICES ASSUME k + 1 <= n PROVE f[k + 1] = h[k + 1]
    OBVIOUS
  <2>1. k + 1 \in 1 .. n /\ k + 1 \in 1 .. m /\ (k + 1) - 1 = k /\ f[k] = h[k]
    OBVIOUS
  <2>2. f[k + 1] = step[f[(k + 1) - 1]] /\ h[k + 1] = step[h[(k + 1) - 1]]
    BY <2>1 DEF Iterates
  <2> QED
    BY <2>1, <2>2
<1>3. K = Nat
  <2>1. K \in SUBSET Nat
    OBVIOUS
  <2> HIDE DEF K
  <2> QED
    BY <1>1, <1>2, <2>1, SetInduction
<1> QED
  BY <1>3

ByteShift == [x \in Int |-> x \div 256]

LEMMA ShiftIterates ==
  ASSUME NEW v \in Int, NEW n \in Nat
  PROVE  \E h \in [0 .. n -> Int] : Iterates(h, n, v, ByteShift) /\ ShiftRight(v, n) = h[n]
<1> DEFINE Body(f) == [i \in 0 .. n |-> IF i = 0 THEN v ELSE f[i - 1] \div 256]
           h == CHOOSE f : f = Body(f)
           G == [p \in Int \X (1 .. n) |-> p[1] \div 256]
<1>1. G \in [Int \X (1 .. n) -> Int]
  OBVIOUS
<1>2. ASSUME NEW x \in Int, NEW i \in 1 .. n PROVE G[<<x, i>>] = x \div 256
  OBVIOUS
<1> HIDE DEF G
<1>3. \E f : f = Body(f)
  <2>1. PICK f \in [0 .. n -> Int] : Follows(f, n, v, G)
    BY <1>1, RecursiveFunction
  <2>2. ASSUME NEW i \in 1 .. n PROVE f[i] = f[i - 1] \div 256
    <3>1. f[i] = G[<<f[i - 1], i>>] /\ i - 1 \in 0 .. n
      BY <2>1 DEF Follows
    <3>2. f[i - 1] \in Int
      BY <2>1, <3>1
    <3> QED
      BY <1>2, <3>1, <3>2
  <2>3. f = Body(f)
    BY <2>1, <2>2 DEF Follows
  <2> QED
    BY <2>3
<1>4. h = Body(h)
  BY <1>3
<1>5. ShiftRight(v, n) = h[n]
  BY DEF ShiftRight
<1> HIDE DEF h
<1>6. h[0] = v /\ \A i \in 1 .. n : h[i] = h[i - 1] \div 256
  BY <1>4
<1>7. \A i \in 0 .. n : h[i] \in Int
  <2>1. Steps(h, n, Int, v, G)
    BY <1>2, <1>6 DEF Steps
  <2> QED
    BY <1>1, <2>1, FollowsAll
<1>8. h \in [0 .. n -> Int]
  BY <1>4, <1>7
<1>9. Iterates(h, n, v, ByteShift)
  <2>1. \A i \in 1 .. n : i - 1 \in 0 .. n /\ h[i - 1] \in Int
    BY <1>7
  <2> QED
    BY <1>6, <2>1 DEF Iterates, ByteShift
<1> QED
  BY <1>5, <1>8, <1>9

LEMMA Shifts ==
  ASSUME NEW v \in Int, NEW n \in Nat
  PROVE  /\ ShiftRight(v, 0) = v /\ ShiftRight(v, n) \in Int
         /\ ShiftRight(v, n + 1) = ShiftRight(v, n) \div 256
<1>1. PICK f \in [0 .. n -> Int] : Iterates(f, n, v, ByteShift) /\ ShiftRight(v, n) = f[n]
  BY ShiftIterates
<1>2. PICK h \in [0 .. n + 1 -> Int] :
        Iterates(h, n + 1, v, ByteShift) /\ ShiftRight(v, n + 1) = h[n + 1]
  <2>1. n + 1 \in Nat
    OBVIOUS
  <2> QED
    BY <2>1, ShiftIterates
<1>3. PICK z \in [0 .. 0 -> Int] : Iterates(z, 0, v, ByteShift) /\ ShiftRight(v, 0) = z[0]
  <2>1. 0 \in Nat
    OBVIOUS
  <2> QED
    BY <2>1, ShiftIterates
<1>4. f[n] = h[n]
  <2>1. n + 1 \in Nat /\ n <= n + 1
    OBVIOUS
  <2>2. \A i \in 0 .. n : f[i] = h[i]
    BY <1>1, <1>2, <2>1, IteratesSame
  <2> QED
    BY <2>2
<1>5. h[n + 1] = ByteShift[h[(n + 1) - 1]] /\ (n + 1) - 1 = n
  BY <1>2 DEF Iterates
<1>6. h[n] \in Int
  BY <1>2
<1>7. h[n + 1] = h[n] \div 256
  BY <1>5, <1>6 DEF ByteShift
<1>8. z[0] = v
  BY <1>3 DEF Iterates
<1> QED
  BY <1>1, <1>2, <1>3, <1>4, <1>6, <1>7, <1>8

LEMMA ByteOf ==
  ASSUME NEW x \in Int
  PROVE  x % 256 \in Byte /\ (x \div 256) * 256 + (x % 256) = x
<1>1. x % 256 \in 0 .. 255
  OBVIOUS
<1>2. x \div 256 \in Int /\ x % 256 = x - 256 * (x \div 256)
  OBVIOUS
<1>3. (x \div 256) * 256 = 256 * (x \div 256)
  BY <1>2
<1>4. (x \div 256) * 256 + (x % 256) = x
  BY <1>2, <1>3
<1>5. x % 256 \in Byte
  BY <1>1 DEF Byte
<1> QED
  BY <1>4, <1>5

LEMMA SignOf ==
  ASSUME NEW x \in -128 .. 127
  PROVE  x \div 256 = IF x % 256 >= 128 THEN -1 ELSE 0
<1>1. x \div 256 = IF x < 0 THEN -1 ELSE 0
  OBVIOUS
<1>2. x % 256 = IF x < 0 THEN x + 256 ELSE x
  OBVIOUS
<1> QED
  BY <1>1, <1>2

Bytes == Seq(Byte)

LEMMA BigEndianTyped ==
  ASSUME NEW v \in Int, NEW w \in Nat
  PROVE  /\ BigEndian(v, w) \in Bytes /\ Len(BigEndian(v, w)) = w
         /\ \A i \in 1 .. w : BigEndian(v, w)[i] = ShiftRight(v, w - i) % 256
<1>1. \A i \in 1 .. w : ShiftRight(v, w - i) % 256 \in Byte
  <2> TAKE i \in 1 .. w
  <2>1. w - i \in Nat
    OBVIOUS
  <2>2. ShiftRight(v, w - i) \in Int
    BY <2>1, Shifts
  <2> QED
    BY <2>2, ByteOf
<1>2. BigEndian(v, w) \in [1 .. w -> Byte]
  BY <1>1 DEF BigEndian
<1> QED
  BY <1>2, TableSeq DEF BigEndian, Bytes

\* The loop of FromBigEndian.
LEMMA OneByte ==
  ASSUME NEW v \in Int
  PROVE  BigEndian(v, 1) = <<v % 256>>
<1>1. ShiftRight(v, 0) = v
  BY Shifts
<1>2. BigEndian(v, 1) = [i \in 1 .. 1 |-> v % 256]
  <2>1. \A i \in 1 .. 1 : 1 - i = 0
    OBVIOUS
  <2> QED
    BY <1>1, <2>1 DEF BigEndian
<1> QED
  BY <1>2

LEMMA FromBigEndianFollows ==
  ASSUME NEW b \in Bytes, Len(b) # 0
  PROVE  \E h \in [0 .. Len(b) -> Int] :
           /\ h[0] = IF b[1] >= 128 THEN -1 ELSE 0
           /\ \A i \in 1 .. Len(b) : h[i] = h[i - 1] * 256 + b[i]
           /\ FromBigEndian(b) = h[Len(b)]
<1> DEFINE n == Len(b)
           first == IF b[1] >= 128 THEN -1 ELSE 0
           Body(f) == [i \in 0 .. Len(b) |-> IF i = 0 THEN IF b[1] >= 128 THEN -1 ELSE 0
                                             ELSE f[i - 1] * 256 + b[i]]
           h == CHOOSE f : f = Body(f)
           G == [p \in Int \X (1 .. n) |-> p[1] * 256 + b[p[2]]]
<1>0. n \in Nat /\ first \in Int /\ \A i \in 1 .. n : b[i] \in Int
  <2>1. n \in Nat /\ \A i \in 1 .. n : b[i] \in Byte
    BY DEF Bytes
  <2>2. \A x \in Byte : x \in Int
    BY DEF Byte
  <2> HIDE DEF n
  <2> QED
    BY <2>1, <2>2
<1>1. G \in [Int \X (1 .. n) -> Int]
  BY <1>0
<1>2. ASSUME NEW x \in Int, NEW i \in 1 .. n PROVE G[<<x, i>>] = x * 256 + b[i]
  OBVIOUS
<1> HIDE DEF G
<1>3. \E f : f = Body(f)
  <2>1. PICK f \in [0 .. n -> Int] : Follows(f, n, first, G)
    <3> HIDE DEF n, first
    <3> QED
      BY <1>0, <1>1, RecursiveFunction
  <2>2. ASSUME NEW i \in 1 .. n PROVE f[i] = f[i - 1] * 256 + b[i]
    <3>1. f[i] = G[<<f[i - 1], i>>] /\ i - 1 \in 0 .. n
      BY <1>0, <2>1 DEF Follows
    <3>2. f[i - 1] \in Int
      BY <2>1, <3>1
    <3> QED
      BY <1>2, <3>1, <3>2
  <2>3. f = Body(f)
    BY <1>0, <2>1, <2>2 DEF Follows
  <2> QED
    BY <2>3
<1>4. h = Body(h)
  BY <1>3
<1>5. FromBigEndian(b) = h[n]
  BY DEF FromBigEndian
<1> HIDE DEF h
<1>6. h[0] = first /\ \A i \in 1 .. n : h[i] = h[i - 1] * 256 + b[i]
  BY <1>0, <1>4
<1>7. \A i \in 0 .. n : h[i] \in Int
  <2>1. Steps(h, n, Int, first, G)
    BY <1>2, <1>6 DEF Steps
  <2> HIDE DEF n, first
  <2> QED
    BY <1>0, <1>1, <2>1, FollowsAll
<1>8. h \in [0 .. n -> Int]
  BY <1>4, <1>7
<1> QED
  BY <1>5, <1>6, <1>8

LEMMA FromBigEndianTyped ==
  ASSUME NEW b \in Bytes, Len(b) # 0
  PROVE  FromBigEndian(b) \in Int
<1>1. PICK h \in [0 .. Len(b) -> Int] : FromBigEndian(b) = h[Len(b)]
  BY FromBigEndianFollows
<1>2. Len(b) \in 0 .. Len(b)
  BY DEF Bytes
<1> QED
  BY <1>1, <1>2

\* Whatever number of w bytes endian_store puts in the buffer, endian_load gets back.
THEOREM RoundTrip ==
  ASSUME NEW v, NEW w \in Nat, w # 0, FitsIn(v, w)
  PROVE  FromBigEndian(BigEndian(v, w)) = v
<1> DEFINE b == BigEndian(v, w)
<1>1. v \in Int /\ ShiftRight(v, w - 1) \in -128 .. 127
  BY DEF FitsIn
<1>2. b \in Bytes /\ Len(b) = w /\ \A i \in 1 .. w : b[i] = ShiftRight(v, w - i) % 256
  BY <1>1, BigEndianTyped
<1> HIDE DEF b
<1>3. PICK h \in [0 .. w -> Int] :
        /\ h[0] = IF b[1] >= 128 THEN -1 ELSE 0
        /\ \A i \in 1 .. w : h[i] = h[i - 1] * 256 + b[i]
        /\ FromBigEndian(b) = h[w]
  <2>1. Len(b) # 0
    BY <1>2
  <2> QED
    BY <1>2, <2>1, FromBigEndianFollows
<1> DEFINE K == {k \in Nat : k <= w => h[k] = ShiftRight(v, w - k)}
<1>4. 0 \in K
  <2> DEFINE x == ShiftRight(v, w - 1)
  <2>1. w - 1 \in Nat /\ (w - 1) + 1 = w /\ 1 \in 1 .. w /\ w - 0 = w
    OBVIOUS
  <2>2. ShiftRight(v, w) = x \div 256
    BY <1>1, <2>1, Shifts
  <2>3. b[1] = x % 256
    BY <1>2, <2>1
  <2>4. x \in -128 .. 127
    BY <1>1
  <2> HIDE DEF x
  <2>5. x \div 256 = IF x % 256 >= 128 THEN -1 ELSE 0
    BY <2>4, SignOf
  <2>6. h[0] = ShiftRight(v, w - 0)
    BY <1>3, <2>1, <2>2, <2>3, <2>5
  <2> QED
    BY <2>6
<1>5. ASSUME NEW k \in K PROVE k + 1 \in K
  <2> SUFFICES ASSUME k + 1 <= w PROVE h[k + 1] = ShiftRight(v, w - (k + 1))
    OBVIOUS
  <2> DEFINE x == ShiftRight(v, w - (k + 1))
  <2>1. /\ k + 1 \in 1 .. w /\ (k + 1) - 1 = k /\ w - (k + 1) \in Nat /\ k <= w
        /\ (w - (k + 1)) + 1 = w - k
    OBVIOUS
  <2>2. h[k + 1] = h[(k + 1) - 1] * 256 + b[k + 1] /\ b[k + 1] = x % 256
    BY <1>2, <1>3, <2>1
  <2>3. h[k] = ShiftRight(v, w - k)
    BY <2>1
  <2>4. x \in Int /\ ShiftRight(v, w - k) = x \div 256
    <3> DEFINE m == w - (k + 1)
    <3>1. m \in Nat /\ m + 1 = w - k
      BY <2>1
    <3> HIDE DEF m
    <3>2. ShiftRight(v, m) \in Int /\ ShiftRight(v, m + 1) = ShiftRight(v, m) \div 256
      BY ZenonT(60), <1>1, <3>1, Shifts
    <3> QED
      BY <3>1, <3>2 DEF m
  <2> HIDE DEF x
  <2>5. h[k + 1] = (x \div 256) * 256 + (x % 256)
    BY <2>1, <2>2, <2>3, <2>4
  <2>6. h[k + 1] = x
    BY <2>4, <2>5, ByteOf
  <2> QED
    BY <2>6 DEF x
<1>6. K = Nat
  <2>1. K \in SUBSET Nat
    OBVIOUS
  <2> HIDE DEF K
  <2> QED
    BY <1>4, <1>5, <2>1, SetInduction
<1>7. h[w] = ShiftRight(v, w - w) /\ w - w = 0
  BY <1>6
<1>8. h[w] = v
  BY <1>1, <1>7, Shifts
<1> QED
  BY <1>3, <1>8 DEF b

LEMMA SmallFits ==
  ASSUME NEW v \in Int, -1 <= v, v <= 65535
  PROVE  FitsIn(v, 4)
<1>1. v \in Int /\ 0 \in Nat /\ 1 \in Nat /\ 2 \in Nat /\ 0 + 1 = 1 /\ 1 + 1 = 2 /\ 2 + 1 = 3 /\ 4 - 1 = 3
  OBVIOUS
<1>2. ShiftRight(v, 1) = v \div 256
  <2>1. ShiftRight(v, 0 + 1) = ShiftRight(v, 0) \div 256 /\ ShiftRight(v, 0) = v
    BY <1>1, Shifts
  <2> QED
    BY <1>1, <2>1
<1>3. ShiftRight(v, 2) = (v \div 256) \div 256
  <2>1. ShiftRight(v, 1 + 1) = ShiftRight(v, 1) \div 256
    BY <1>1, Shifts
  <2> QED
    BY <1>1, <1>2, <2>1
<1>4. ShiftRight(v, 3) = ((v \div 256) \div 256) \div 256
  <2>1. ShiftRight(v, 2 + 1) = ShiftRight(v, 2) \div 256
    BY <1>1, Shifts
  <2> QED
    BY <1>1, <1>3, <2>1
<1>5. v \div 256 \in -1 .. 255
  <2> DEFINE q == v \div 256
             r == v % 256
  <2>1. q \in Int /\ r \in Int /\ 0 <= r /\ r <= 255 /\ q * 256 + r = v
    BY <1>1, ByteOf DEF Byte
  <2>2. -1 <= v /\ v <= 65535 /\ v \in Int
    OBVIOUS
  <2> HIDE DEF q, r
  <2>3. -1 <= q /\ q <= 255
    BY ONLY <2>1, <2>2
  <2>4. q \in -1 .. 255
    BY ONLY <2>1, <2>3
  <2> QED
    BY <2>4 DEF q
<1>6. \A x \in -1 .. 255 : x \div 256 = IF x < 0 THEN -1 ELSE 0
  OBVIOUS
<1>7. \A x \in -1 .. 255 : x \div 256 \in -1 .. 0 /\ x \div 256 \in -1 .. 255
  BY <1>6
<1>8. ((v \div 256) \div 256) \div 256 \in -128 .. 127
  <2>1. (v \div 256) \div 256 \in -1 .. 255
    BY <1>5, <1>7
  <2>2. ((v \div 256) \div 256) \div 256 \in -1 .. 0
    BY <1>7, <2>1
  <2> QED
    BY <2>2
<1> QED
  BY <1>1, <1>4, <1>8 DEF FitsIn

-----------------------------------------------------------------------------
(* Sequences of parts *)

LEMMA SumFollows ==
  ASSUME NEW s \in Seq(Int)
  PROVE  \E h \in [0 .. Len(s) -> Int] :
           /\ h[0] = 0 /\ \A i \in 1 .. Len(s) : h[i] = h[i - 1] + s[i]
           /\ SumOver(s) = h[Len(s)]
<1> DEFINE n == Len(s)
           Body(f) == [i \in 0 .. Len(s) |-> IF i = 0 THEN 0 ELSE f[i - 1] + s[i]]
           h == CHOOSE f : f = Body(f)
           G == [p \in Int \X (1 .. n) |-> p[1] + s[p[2]]]
<1>0. n \in Nat /\ 0 \in Int /\ \A i \in 1 .. n : s[i] \in Int
  OBVIOUS
<1>1. G \in [Int \X (1 .. n) -> Int]
  BY <1>0
<1>2. ASSUME NEW x \in Int, NEW i \in 1 .. n PROVE G[<<x, i>>] = x + s[i]
  OBVIOUS
<1> HIDE DEF G
<1>3. \E f : f = Body(f)
  <2>1. PICK f \in [0 .. n -> Int] : Follows(f, n, 0, G)
    <3> HIDE DEF n
    <3> QED
      BY <1>0, <1>1, RecursiveFunction
  <2>2. ASSUME NEW i \in 1 .. n PROVE f[i] = f[i - 1] + s[i]
    <3>1. f[i] = G[<<f[i - 1], i>>] /\ i - 1 \in 0 .. n
      BY <1>0, <2>1 DEF Follows
    <3>2. f[i - 1] \in Int
      BY <2>1, <3>1
    <3> QED
      BY <1>2, <3>1, <3>2
  <2>3. f = Body(f)
    BY <1>0, <2>1, <2>2 DEF Follows
  <2> QED
    BY <2>3
<1>4. h = Body(h)
  BY <1>3
<1>5. SumOver(s) = IF s = <<>> THEN 0 ELSE h[n]
  BY DEF SumOver
<1> HIDE DEF h
<1>6. h[0] = 0 /\ \A i \in 1 .. n : h[i] = h[i - 1] + s[i]
  BY <1>0, <1>4
<1>7. \A i \in 0 .. n : h[i] \in Int
  <2>1. Steps(h, n, Int, 0, G)
    BY <1>2, <1>6 DEF Steps
  <2> HIDE DEF n
  <2> QED
    BY <1>0, <1>1, <2>1, FollowsAll
<1>8. h \in [0 .. n -> Int]
  BY <1>4, <1>7
<1>9. SumOver(s) = h[n]
  <2>1. s = <<>> => n = 0
    OBVIOUS
  <2> QED
    BY <1>5, <1>6, <2>1
<1> QED
  BY <1>6, <1>8, <1>9

\* The parts of ss one after the other, and how long they are.
PartLists == Seq(Bytes)

LEMMA PartListTyped ==
  ASSUME NEW ss \in PartLists
  PROVE  Len(ss) \in Nat /\ DOMAIN ss = 1 .. Len(ss) /\ \A i \in 1 .. Len(ss) : ss[i] \in Bytes
BY DEF PartLists

LEMMA ConcatenatedFollows ==
  ASSUME NEW ss \in PartLists
  PROVE  \E F \in [0 .. Len(ss) -> Bytes] :
           /\ F[0] = <<>> /\ \A i \in 1 .. Len(ss) : F[i] = F[i - 1] \o ss[i]
           /\ Concatenated(ss) = F[Len(ss)]
<1> DEFINE n == Len(ss)
<1>1. n \in Nat /\ \A i \in 1 .. n : ss[i] \in Bytes
  BY PartListTyped
<1>2. <<>> \in Bytes
  BY DEF Bytes
<1>3. CASE ss = <<>>
  <2> DEFINE F == [i \in 0 .. n |-> <<>>]
  <2>1. n = 0 /\ F \in [0 .. n -> Bytes] /\ F[0] = <<>>
    BY <1>2, <1>3
  <2>2. Concatenated(ss) = F[n]
    BY <1>3, <2>1 DEF Concatenated
  <2>3. ~(\E i \in 1 .. n : TRUE)
    BY <2>1
  <2> HIDE DEF F
  <2> QED
    BY <2>1, <2>2, <2>3
<1>4. CASE ss # <<>>
  <2>1. n # 0
    BY <1>4 DEF PartLists
  <2>2. Concatenated(ss) = FlattenSeq(ss)
    BY <1>4 DEF Concatenated
  <2>3. PICK E \in [1 .. n -> Bytes] :
          /\ FlattenSeq(ss) = E[n] /\ E[1] = ss[1]
          /\ \A i \in 1 .. n : i # 1 => E[i] = E[i - 1] \o ss[i]
    <3>1. ss \in Seq(Seq(Byte)) /\ Len(ss) # 0
      BY <2>1 DEF Bytes, PartLists
    <3>2. \E E \in [1 .. Len(ss) -> Seq(Byte)] :
            /\ FlattenSeq(ss) = E[Len(ss)]
            /\ E[1] = ss[1]
            /\ \A i \in 1 .. Len(ss) : i # 1 => E[i] = E[i - 1] \o ss[i]
      BY ONLY <3>1, FlattenFunction
    <3> QED
      BY <3>2 DEF Bytes
  <2> DEFINE F == [i \in 0 .. n |-> IF i = 0 THEN <<>> ELSE E[i]]
  <2> HIDE DEF n
  <2>4. F \in [0 .. n -> Bytes]
    <3>1. \A i \in 0 .. n : i # 0 => i \in 1 .. n
      BY <1>1
    <3> QED
      BY <1>1, <1>2, <3>1
  <2>5. F[0] = <<>> /\ F[n] = FlattenSeq(ss)
    BY <1>1, <2>1, <2>3
  <2>6. ASSUME NEW i \in 1 .. n PROVE F[i] = F[i - 1] \o ss[i]
    <3>1. CASE i = 1
      <4>1. <<>> \o ss[1] = ss[1]
        BY <1>1, <3>1, ConcatEmptySeq DEF Bytes
      <4>2. i - 1 = 0 /\ F[1] = E[1]
        BY <1>1, <2>1, <3>1
      <4> QED
        BY <2>3, <2>5, <3>1, <4>1, <4>2
    <3>2. CASE i # 1
      <4>1. i - 1 \in 1 .. n /\ F[i] = E[i] /\ F[i - 1] = E[i - 1]
        BY <1>1, <3>2
      <4> QED
        BY <2>3, <3>2, <4>1
    <3> QED
      BY <3>1, <3>2
  <2> HIDE DEF F
  <2> QED
    BY <2>2, <2>4, <2>5, <2>6 DEF n
<1> QED
  BY <1>3, <1>4

\* The length of bytes: the provers do better with it than with Len.
Length(b) == Len(b)

LEMMA LengthTyped ==
  ASSUME NEW b \in Bytes
  PROVE  Length(b) \in Nat /\ (Length(b) = 0 <=> b = <<>>)
BY DEF Length, Bytes

LEMMA NumberTyped ==
  ASSUME NEW v \in Int, NEW w \in Nat
  PROVE  BigEndian(v, w) \in Bytes /\ Length(BigEndian(v, w)) = w
<1>1. BigEndian(v, w) \in Bytes /\ Len(BigEndian(v, w)) = w
  BY BigEndianTyped
<1> QED
  BY <1>1 DEF Length

\* e is the bytes a and then the bytes c.
Joins(e, a, c) ==
  /\ e \in Bytes /\ Length(e) = Length(a) + Length(c)
  /\ \A i \in 1 .. Length(a) : e[i] = a[i]
  /\ \A i \in 1 .. Length(c) : e[Length(a) + i] = c[i]

LEMMA Joined ==
  ASSUME NEW a \in Bytes, NEW c \in Bytes, NEW e, e = a \o c
  PROVE  Joins(e, a, c)
BY DEF Bytes, Joins, Length

LEMMA BytesThrice ==
  ASSUME NEW a \in Bytes, NEW c \in Bytes, NEW d \in Bytes
  PROVE  (a \o c) \o d = a \o (c \o d)
BY ConcatAssociative DEF Bytes

LEMMA SubSeqIs ==
  ASSUME NEW b \in Bytes, NEW t \in Bytes, NEW p \in Nat, NEW q, q = p + Length(t),
         q <= Length(b), \A j \in 1 .. Length(t) : b[p + j] = t[j]
  PROVE  SubSeq(b, p + 1, q) = t
<1> DEFINE u == SubSeq(b, p + 1, q)
           n == Length(t)
<1>1. n \in Nat /\ Length(b) \in Nat /\ q = p + n
  BY DEF Bytes, Length
<1>2. u \in Bytes /\ Len(u) = n /\ \A j \in 1 .. n : u[j] = b[p + j]
  <2>1. b \in Seq(Byte)
    BY DEF Bytes
  <2> HIDE DEF n
  <2>2. u \in Seq(Byte) /\ Len(u) = n
    BY <1>1, <2>1 DEF Length
  <2>3. \A j \in 1 .. n : u[j] = b[p + j]
    <3> TAKE j \in 1 .. n
    <3>1. u[j] = b[(p + 1) + j - 1]
      BY <1>1, <2>1
    <3>2. (p + 1) + j - 1 = p + j
      BY <1>1
    <3> QED
      BY <3>1, <3>2
  <2> QED
    BY <2>2, <2>3 DEF Bytes
<1> HIDE DEF u
<1>3. Len(u) = Len(t) /\ \A j \in 1 .. Len(u) : u[j] = t[j]
  BY <1>2 DEF Length
<1>4. u = t
  BY <1>2, <1>3, SeqEqual DEF Bytes
<1> QED
  BY <1>4 DEF u

\* The parts ss follow one another in b, the first after from and the last to the
\* end: P is where each of them ends.
Placed(b, from, ss, P) ==
  /\ P \in [0 .. Len(ss) -> Nat] /\ P[0] = from /\ P[Len(ss)] = Length(b)
  /\ \A i \in 1 .. Len(ss) :
       /\ P[i] = P[i - 1] + Length(ss[i]) /\ P[i] <= Length(b)
       /\ SubSeq(b, P[i - 1] + 1, P[i]) = ss[i]

LEMMA Placement ==
  ASSUME NEW hd \in Bytes, NEW ss \in PartLists
  PROVE  /\ hd \o Concatenated(ss) \in Bytes /\ Concatenated(ss) \in Bytes
         /\ \E P : Placed(hd \o Concatenated(ss), Length(hd), ss, P)
<1> DEFINE n == Len(ss)
           b == hd \o Concatenated(ss)
<1>1. /\ n \in Nat /\ 0 \in 0 .. n /\ n \in 0 .. n
      /\ \A i \in 1 .. n : ss[i] \in Bytes /\ i \in 0 .. n /\ i - 1 \in 0 .. n
  <2>1. n \in Nat /\ \A i \in 1 .. n : ss[i] \in Bytes
    BY PartListTyped
  <2> HIDE DEF n
  <2> QED
    BY <2>1
<1>2. PICK F \in [0 .. n -> Bytes] :
        /\ F[0] = <<>> /\ \A i \in 1 .. n : F[i] = F[i - 1] \o ss[i]
        /\ Concatenated(ss) = F[n]
  BY ConcatenatedFollows
<1> HIDE DEF n
<1>3. \A i \in 0 .. n : F[i] \in Bytes
  BY <1>2
<1>4. b = hd \o F[n] /\ F[n] \in Bytes
  BY <1>1, <1>2, <1>3
<1>5. b \in Bytes /\ Length(b) = Length(hd) + Length(F[n]) /\ Length(hd) \in Nat
      /\ \A j \in 1 .. Length(F[n]) : b[Length(hd) + j] = F[n][j]
  <2> HIDE DEF b
  <2>1. Joins(b, hd, F[n])
    BY <1>4, Joined
  <2>2. Length(hd) \in Nat
    BY LengthTyped
  <2> QED
    BY <2>1, <2>2 DEF Joins
<1> HIDE DEF b
<1>6. ASSUME NEW i \in 1 .. n
      PROVE  /\ Length(F[i]) = Length(F[i - 1]) + Length(ss[i]) /\ Length(F[i - 1]) \in Nat /\ Length(ss[i]) \in Nat
             /\ \A j \in 1 .. Length(F[i - 1]) : F[i][j] = F[i - 1][j]
             /\ \A j \in 1 .. Length(ss[i]) : F[i][Length(F[i - 1]) + j] = ss[i][j]
  <2>1. F[i] = F[i - 1] \o ss[i] /\ F[i - 1] \in Bytes /\ ss[i] \in Bytes
    BY <1>1, <1>2, <1>3
  <2>2. Joins(F[i], F[i - 1], ss[i])
    BY <2>1, Joined
  <2>3. Length(F[i - 1]) \in Nat /\ Length(ss[i]) \in Nat
    BY <2>1, LengthTyped
  <2> QED
    BY <2>2, <2>3 DEF Joins
<1> DEFINE Within(i) == Length(F[i]) <= Length(F[n]) /\ \A j \in 1 .. Length(F[i]) : F[n][j] = F[i][j]
           K == {k \in Nat : k <= n => Within(n - k)}
<1>7. 0 \in K
  <2>1. n - 0 = n /\ Length(F[n]) <= Length(F[n])
    BY <1>1, <1>4, LengthTyped
  <2> QED
    BY <2>1
<1>8. ASSUME NEW k \in K PROVE k + 1 \in K
  <2> SUFFICES ASSUME k + 1 <= n PROVE Within(n - (k + 1))
    BY DEF K
  <2> DEFINE i == n - k
  <2>1. i \in 1 .. n /\ n - (k + 1) = i - 1 /\ k <= n
    BY <1>1
  <2>2. Within(i)
    BY <2>1
  <2> HIDE DEF i
  <2>3. Length(F[i - 1]) <= Length(F[i]) /\ \A j \in 1 .. Length(F[i - 1]) : j \in 1 .. Length(F[i])
    <3>1. Length(F[i]) = Length(F[i - 1]) + Length(ss[i]) /\ Length(F[i - 1]) \in Nat /\ Length(ss[i]) \in Nat
      BY <1>6, <2>1
    <3> QED
      BY <3>1
  <2>4. Length(F[i - 1]) <= Length(F[n])
    <3>1. Length(F[i - 1]) \in Nat /\ Length(F[i]) \in Nat /\ Length(F[n]) \in Nat
      BY <1>3, <1>1, <2>1, LengthTyped
    <3> QED
      BY <2>2, <2>3, <3>1
  <2>5. \A j \in 1 .. Length(F[i - 1]) : F[n][j] = F[i - 1][j]
    BY <1>6, <2>1, <2>2, <2>3
  <2>6. Within(i - 1)
    BY <2>4, <2>5
  <2> QED
    BY <2>1, <2>6
<1>9. K = Nat
  <2>1. K \in SUBSET Nat
    OBVIOUS
  <2> HIDE DEF K
  <2> QED
    BY <1>7, <1>8, <2>1, SetInduction
<1>10. ASSUME NEW i \in 0 .. n PROVE Within(i)
  <2>1. n - i \in Nat /\ n - i <= n /\ n - (n - i) = i
    BY <1>1
  <2>2. n - i \in K
    <3> HIDE DEF K
    <3> QED
      BY <1>9, <2>1
  <2>3. Within(n - (n - i))
    <3> HIDE DEF Within
    <3> QED
      BY <2>1, <2>2
  <2> QED
    BY <2>1, <2>3
<1> HIDE DEF K, Within
<1> DEFINE P == [i \in 0 .. n |-> Length(hd) + Length(F[i])]
<1>11. ASSUME NEW i \in 0 .. n PROVE P[i] = Length(hd) + Length(F[i]) /\ P[i] \in Nat /\ P[i] <= Length(b)
  <2>1. Length(F[i]) \in Nat /\ Length(F[n]) \in Nat
    BY <1>1, <1>3, LengthTyped
  <2>2. Length(F[i]) <= Length(F[n])
    BY <1>10 DEF Within
  <2> QED
    BY <1>5, <2>1, <2>2
<1>12. P \in [0 .. n -> Nat]
  BY <1>11
<1> HIDE DEF P
<1>13. P[0] = Length(hd) /\ P[n] = Length(b)
  <2>1. Length(F[0]) = 0
    BY <1>1, <1>2, <1>3, LengthTyped
  <2> QED
    BY <1>1, <1>5, <1>11, <2>1
<1>14. ASSUME NEW i \in 1 .. n
       PROVE  /\ P[i] = P[i - 1] + Length(ss[i]) /\ P[i] <= Length(b)
              /\ SubSeq(b, P[i - 1] + 1, P[i]) = ss[i]
  <2>1. i \in 0 .. n /\ i - 1 \in 0 .. n
    BY <1>1
  <2>2. P[i] = P[i - 1] + Length(ss[i]) /\ P[i] <= Length(b) /\ P[i - 1] \in Nat
    <3>1. Length(F[i]) = Length(F[i - 1]) + Length(ss[i]) /\ Length(F[i - 1]) \in Nat /\ Length(ss[i]) \in Nat
      BY <1>6
    <3>2. /\ P[i] = Length(hd) + Length(F[i]) /\ P[i] <= Length(b)
          /\ P[i - 1] = Length(hd) + Length(F[i - 1]) /\ P[i - 1] \in Nat
      BY <1>11, <2>1
    <3> QED
      BY <1>5, <3>1, <3>2
  <2>3. ASSUME NEW j \in 1 .. Length(ss[i]) PROVE b[P[i - 1] + j] = ss[i][j]
    <3> DEFINE m == Length(F[i - 1]) + j
    <3>1. /\ Length(F[i - 1]) \in Nat /\ Length(ss[i]) \in Nat /\ Length(F[i]) = Length(F[i - 1]) + Length(ss[i])
          /\ F[i][m] = ss[i][j]
      BY <1>6
    <3>2. m \in 1 .. Length(F[i])
      <4>1. j \in Nat /\ j >= 1 /\ j <= Length(ss[i])
        BY <3>1
      <4> QED
        BY <3>1, <4>1
    <3>3. Length(F[i]) <= Length(F[n]) /\ \A l \in 1 .. Length(F[i]) : F[n][l] = F[i][l]
      BY <1>10, <2>1 DEF Within
    <3>4. Length(F[n]) \in Nat
      BY <1>4, LengthTyped
    <3>5. m \in 1 .. Length(F[n])
      <4>1. Length(F[i]) \in Nat
        BY <3>1
      <4> HIDE DEF m
      <4> QED
        BY <3>2, <3>3, <3>4, <4>1
    <3>6. P[i - 1] + j = Length(hd) + m
      BY <1>5, <1>11, <2>1, <3>1
    <3> HIDE DEF m
    <3> QED
      BY <1>5, <3>1, <3>2, <3>3, <3>5, <3>6
  <2>4. ss[i] \in Bytes
    BY <1>1
  <2>5. SubSeq(b, P[i - 1] + 1, P[i]) = ss[i]
    BY <1>5, <2>2, <2>3, <2>4, SubSeqIs
  <2> QED
    BY <2>2, <2>5
<1>15. Placed(b, Length(hd), ss, P)
  BY <1>12, <1>13, <1>14 DEF Placed, n
<1>16. Concatenated(ss) \in Bytes
  BY <1>2, <1>4
<1> QED
  BY <1>5, <1>15, <1>16 DEF b

\* The bytes after the first l, up to the m-th.
Cut(b, l, m) == SubSeq(b, l + 1, m)

LEMMA CutTyped ==
  ASSUME NEW b \in Bytes, NEW l \in Nat, NEW m \in Nat, l <= m, m <= Length(b)
  PROVE  /\ Cut(b, l, m) \in Bytes /\ Length(Cut(b, l, m)) = m - l
         /\ \A j \in 1 .. m - l : Cut(b, l, m)[j] = b[l + j]
<1>1. b \in Seq(Byte) /\ m <= Len(b) /\ Len(b) \in Nat
  BY DEF Bytes, Length
<1> DEFINE u == SubSeq(b, l + 1, m)
<1>2. u \in Seq(Byte) /\ Len(u) = m - l
  BY <1>1
<1>3. \A j \in 1 .. m - l : u[j] = b[l + j]
  <2> TAKE j \in 1 .. m - l
  <2>1. u[j] = b[(l + 1) + j - 1]
    BY <1>1
  <2>2. (l + 1) + j - 1 = l + j
    OBVIOUS
  <2> QED
    BY <2>1, <2>2
<1> QED
  BY <1>2, <1>3 DEF Cut, Bytes, Length

LEMMA CutIs ==
  ASSUME NEW b \in Bytes, NEW t \in Bytes, NEW p \in Nat, NEW q, q = p + Length(t),
         q <= Length(b), \A j \in 1 .. Length(t) : b[p + j] = t[j]
  PROVE  Cut(b, p, q) = t
BY SubSeqIs DEF Cut

\* What is cut out of a part that lies at p.
LEMMA CutOfCut ==
  ASSUME NEW b \in Bytes, NEW t \in Bytes, NEW p \in Nat, NEW q, q = p + Length(t), q <= Length(b),
         Cut(b, p, q) = t, NEW l \in Nat, NEW m \in Nat, l <= m, m <= Length(t)
  PROVE  Cut(b, p + l, p + m) = Cut(t, l, m)
<1> DEFINE u == Cut(t, l, m)
<1>1. Length(t) \in Nat /\ Length(b) \in Nat
  BY LengthTyped
<1>2. u \in Bytes /\ Length(u) = m - l /\ \A j \in 1 .. m - l : u[j] = t[l + j]
  BY <1>1, CutTyped
<1>3. \A j \in 1 .. Length(t) : t[j] = b[p + j]
  <2>1. q \in Nat /\ p <= q /\ q - p = Length(t)
    BY <1>1
  <2>2. \A j \in 1 .. q - p : Cut(b, p, q)[j] = b[p + j]
    BY <2>1, CutTyped
  <2> QED
    BY <2>1, <2>2
<1> HIDE DEF u
<1>4. ASSUME NEW j \in 1 .. Length(u) PROVE b[(p + l) + j] = u[j]
  <2>1. j \in 1 .. m - l /\ l + j \in 1 .. Length(t) /\ (p + l) + j = p + (l + j)
    BY <1>1, <1>2
  <2> QED
    BY <1>2, <1>3, <2>1
<1>5. p + l \in Nat /\ p + m = (p + l) + Length(u) /\ p + m <= Length(b)
  BY <1>1, <1>2
<1>6. Cut(b, p + l, p + m) = u
  BY <1>2, <1>4, <1>5, CutIs
<1> QED
  BY <1>6 DEF u

\* What is cut out of e, which is a and then c.
Splits(e, a, c) ==
  /\ Cut(e, 0, Length(a)) = a /\ Cut(e, Length(a), Length(e)) = c
  /\ \A l \in Nat : \A m \in Nat :
       l <= m /\ m <= Length(a) => Cut(e, l, m) = Cut(a, l, m)

LEMMA CutOfJoin ==
  ASSUME NEW a \in Bytes, NEW c \in Bytes, NEW e, e = a \o c
  PROVE  Splits(e, a, c)
<1>1. Joins(e, a, c)
  BY Joined
<1>2. /\ e \in Bytes /\ Length(e) = Length(a) + Length(c)
      /\ \A i \in 1 .. Length(a) : e[i] = a[i]
      /\ \A i \in 1 .. Length(c) : e[Length(a) + i] = c[i]
  BY <1>1 DEF Joins
<1>3. Length(a) \in Nat /\ Length(c) \in Nat
  BY LengthTyped
<1>4. Cut(e, 0, Length(a)) = a
  <2>1. 0 \in Nat /\ Length(a) = 0 + Length(a) /\ Length(a) <= Length(e)
    BY <1>2, <1>3
  <2>2. \A j \in 1 .. Length(a) : e[0 + j] = a[j]
    <3> TAKE j \in 1 .. Length(a)
    <3>1. 0 + j = j
      BY <1>3
    <3> QED
      BY <1>2, <3>1
  <2> QED
    BY ZenonT(60), <1>2, <2>1, <2>2, CutIs
<1>5. Cut(e, Length(a), Length(e)) = c
  <2>1. Length(e) <= Length(e)
    BY <1>2, <1>3
  <2> QED
    BY <1>2, <1>3, <2>1, CutIs
<1>6. ASSUME NEW l \in Nat, NEW m \in Nat, l <= m, m <= Length(a) PROVE Cut(e, l, m) = Cut(a, l, m)
  <2>1. Length(a) = 0 + Length(a) /\ Length(a) <= Length(e) /\ 0 + l = l /\ 0 + m = m /\ 0 \in Nat
    BY <1>2, <1>3
  <2>2. Cut(e, 0 + l, 0 + m) = Cut(a, l, m)
    BY <1>2, <1>4, <1>6, <2>1, CutOfCut
  <2> QED
    BY <2>1, <2>2
<1> QED
  BY <1>4, <1>5, <1>6 DEF Splits

-----------------------------------------------------------------------------
(* Where the parts are found *)

\* The body of a part at p, with a header of h bytes.
HasPart(b, p, h, body) ==
  /\ p \in Nat /\ p + h + Length(body) <= Length(b)
  /\ FromBigEndian(Cut(b, p + h - 4, p + h)) = Length(body)
  /\ Cut(b, p + h, p + h + Length(body)) = body

\* The part t is a header of h bytes, of which the last four are the length of the
\* body, and the body.
IsPart(t, h, head, body) ==
  /\ t = head \o body /\ Length(head) = h
  /\ FromBigEndian(Cut(head, h - 4, h)) = Length(body)

LEMMA PartFound ==
  ASSUME NEW b \in Bytes, NEW t \in Bytes, NEW head \in Bytes, NEW body \in Bytes,
         NEW h \in {4, 8}, IsPart(t, h, head, body), NEW p \in Nat, NEW q, q = p + Length(t),
         q <= Length(b), Cut(b, p, q) = t
  PROVE  HasPart(b, p, h, body) /\ Cut(b, p, p + h) = head /\ q = p + h + Length(body)
<1>1. t = head \o body /\ Length(head) = h /\ FromBigEndian(Cut(head, h - 4, h)) = Length(body)
  BY DEF IsPart
<1>2. Length(body) \in Nat /\ Length(b) \in Nat /\ h \in Nat /\ h - 4 \in Nat
  BY LengthTyped
<1>3. Length(t) = h + Length(body)
  <2>1. Joins(t, head, body)
    BY <1>1, Joined
  <2> QED
    BY <1>1, <2>1 DEF Joins
<1>4. /\ Cut(t, 0, h) = head /\ Cut(t, h, Length(t)) = body
      /\ Cut(t, h - 4, h) = Cut(head, h - 4, h)
  <2>1. /\ Cut(t, 0, Length(head)) = head /\ Cut(t, Length(head), Length(t)) = body
        /\ \A l \in Nat : \A m \in Nat :
             l <= m /\ m <= Length(head) => Cut(t, l, m) = Cut(head, l, m)
    <3>1. Splits(t, head, body)
      BY <1>1, CutOfJoin
    <3> QED
      BY <3>1 DEF Splits
  <2>2. h - 4 <= h /\ h <= Length(head)
    BY <1>1, <1>2
  <2>3. Cut(t, h - 4, h) = Cut(head, h - 4, h)
    <3> DEFINE k == h - 4
    <3>1. k \in Nat /\ h \in Nat /\ k <= h
      BY <1>2
    <3> HIDE DEF k
    <3>2. Cut(t, k, h) = Cut(head, k, h)
      BY <2>1, <2>2, <3>1
    <3> QED
      BY <3>2 DEF k
  <2>4. Length(head) = h
    BY <1>1
  <2>5. Cut(t, 0, h) = head /\ Cut(t, h, Length(t)) = body
    BY ONLY <2>1, <2>4
  <2> QED
    BY <2>3, <2>5
<1>5. Cut(b, p + 0, p + h) = Cut(t, 0, h) /\ p + 0 = p
  <2>1. 0 \in Nat /\ 0 <= h /\ h <= Length(t)
    BY <1>2, <1>3
  <2> QED
    BY <1>2, <2>1, CutOfCut
<1>6. Cut(b, p + h, p + Length(t)) = Cut(t, h, Length(t))
  <2>1. Length(t) \in Nat /\ h <= Length(t) /\ Length(t) <= Length(t)
    BY <1>2, <1>3
  <2> QED
    BY <1>2, <2>1, CutOfCut
<1>7. Cut(b, p + (h - 4), p + h) = Cut(t, h - 4, h) /\ p + (h - 4) = p + h - 4
  <2>1. h - 4 <= h /\ h <= Length(t)
    BY <1>2, <1>3
  <2> QED
    BY <1>2, <2>1, CutOfCut
<1>8. p + Length(t) = p + h + Length(body)
  BY <1>2, <1>3
<1> QED
  BY <1>1, <1>4, <1>5, <1>6, <1>7, <1>8 DEF HasPart

\* P is where each of n parts ends.
Ends(b, P, h, n) ==
  \A i \in 1 .. n : \E body \in Bytes :
    HasPart(b, P[i - 1], h, body) /\ P[i] = P[i - 1] + h + Length(body)

LEMMA OffsetsFollow ==
  ASSUME NEW b \in Bytes, NEW from \in Nat, NEW h \in {4, 8}, NEW n \in Nat,
         NEW P \in [0 .. n -> Nat], P[0] = from, Ends(b, P, h, n)
  PROVE  \A i \in 0 .. n : Offsets(b, from, h, n)[i] = P[i]
<1> DEFINE next == [p \in Int |->
             IF p \in 0 .. Len(b) - h THEN p + h + FromBigEndian(SubSeq(b, p + h - 3, p + h)) ELSE p]
           Body(f) == [i \in 0 .. n |-> IF i = 0 THEN from ELSE next[f[i - 1]]]
           at == CHOOSE f : f = Body(f)
<1>1. Offsets(b, from, h, n) = at
  BY DEF Offsets
<1>2. next \in [Int -> Int]
  <2>1. ASSUME NEW p \in 0 .. Len(b) - h PROVE p + h + FromBigEndian(SubSeq(b, p + h - 3, p + h)) \in Int
    <3> DEFINE l == p + h - 4
               m == p + h
    <3>1. Length(b) \in Nat /\ Len(b) = Length(b)
      BY LengthTyped DEF Length
    <3>2. l \in Nat /\ m \in Nat /\ l <= m /\ m <= Length(b) /\ m - l = 4 /\ l + 1 = p + h - 3
      BY <3>1
    <3> HIDE DEF l, m
    <3>3. Cut(b, l, m) \in Bytes /\ Length(Cut(b, l, m)) # 0
      BY <3>2, CutTyped
    <3>4. FromBigEndian(Cut(b, l, m)) \in Int
      BY <3>3, FromBigEndianTyped DEF Length
    <3>5. Cut(b, l, m) = SubSeq(b, p + h - 3, p + h)
      BY <3>2 DEF Cut, m
    <3> QED
      BY <3>4, <3>5
  <2> QED
    BY <2>1
<1>3. ASSUME NEW i \in 1 .. n PROVE next[P[i - 1]] = P[i]
  <2>1. PICK body \in Bytes : HasPart(b, P[i - 1], h, body) /\ P[i] = P[i - 1] + h + Length(body)
    BY DEF Ends
  <2> DEFINE p == P[i - 1]
  <2>2. /\ p \in Nat /\ p + h + Length(body) <= Length(b)
        /\ FromBigEndian(Cut(b, p + h - 4, p + h)) = Length(body)
    BY <2>1 DEF HasPart
  <2>3. Length(b) \in Nat /\ Len(b) = Length(b) /\ Length(body) \in Nat
    BY LengthTyped DEF Length
  <2> HIDE DEF p
  <2>4. p \in 0 .. Len(b) - h /\ p \in Int
    BY <2>2, <2>3
  <2>5. Cut(b, p + h - 4, p + h) = SubSeq(b, p + h - 3, p + h)
    <3>1. (p + h - 4) + 1 = p + h - 3
      BY <2>2
    <3> QED
      BY <3>1 DEF Cut
  <2>6. next[p] = p + h + Length(body)
    BY <2>2, <2>4, <2>5
  <2> HIDE DEF next
  <2> QED
    BY <2>1, <2>6 DEF p
<1> HIDE DEF next
<1>4. \E f : f = Body(f)
  <2>1. PICK f \in [0 .. n -> Int] : Iterates(f, n, from, next)
    <3>1. from \in Int
      OBVIOUS
    <3> QED
      BY <1>2, <3>1, Iteration
  <2>2. f = Body(f)
    BY <2>1 DEF Iterates
  <2> QED
    BY <2>2
<1>5. at = Body(at)
  BY <1>4
<1> HIDE DEF at
<1>6. Iterates(at, n, from, next)
  <2>1. at[0] = from /\ \A i \in 1 .. n : at[i] = next[at[i - 1]]
    BY <1>5
  <2> QED
    BY <2>1 DEF Iterates
<1>7. Iterates(P, n, from, next)
  BY <1>3 DEF Iterates
<1>8. \A i \in 0 .. n : at[i] = P[i]
  <2>1. n <= n
    OBVIOUS
  <2> QED
    BY <1>6, <1>7, <2>1, IteratesSame
<1> QED
  BY <1>1, <1>8

\* The parts ts follow one another in b, after the bytes of the header: at is where
\* each begins and the last ends, heads and bodies are what they are made of.
Laid(b, at, h, n, heads, bodies) ==
  /\ at[n] = Length(b) /\ n <= Length(b)
  /\ \A i \in 1 .. n : HasPart(b, at[i - 1], h, bodies[i]) /\ Cut(b, at[i - 1], at[i - 1] + h) = heads[i]

Framed(ts, h, heads, bodies) ==
  \A i \in 1 .. Len(ts) :
    heads[i] \in Bytes /\ bodies[i] \in Bytes /\ IsPart(ts[i], h, heads[i], bodies[i])

\* b begins with hd.
StartsWith(b, hd) ==
  \A l \in Nat : \A m \in Nat : l <= m /\ m <= Length(hd) => Cut(b, l, m) = Cut(hd, l, m)

LEMMA PartsPlaced ==
  ASSUME NEW hd \in Bytes, NEW ts \in PartLists, NEW b, b = hd \o Concatenated(ts),
         NEW h \in {4, 8}, NEW heads, NEW bodies, Framed(ts, h, heads, bodies)
  PROVE  /\ b \in Bytes /\ Laid(b, Offsets(b, Length(hd), h, Len(ts)), h, Len(ts), heads, bodies)
         /\ StartsWith(b, hd)
<1> DEFINE n == Len(ts)
           from == Length(hd)
           at == Offsets(b, from, h, n)
<1>1. n \in Nat /\ from \in Nat /\ \A i \in 1 .. n : ts[i] \in Bytes
  BY PartListTyped, LengthTyped
<1>2. b \in Bytes /\ Length(b) \in Nat /\ Concatenated(ts) \in Bytes
  BY Placement, LengthTyped
<1>3. PICK P : Placed(b, from, ts, P)
  BY Placement
<1>4. /\ P \in [0 .. n -> Nat] /\ P[0] = from /\ P[n] = Length(b)
      /\ \A i \in 1 .. n :
           /\ P[i] = P[i - 1] + Length(ts[i]) /\ P[i] <= Length(b)
           /\ SubSeq(b, P[i - 1] + 1, P[i]) = ts[i]
  BY <1>3 DEF Placed
<1> HIDE DEF n
<1>5. ASSUME NEW i \in 1 .. n
      PROVE  /\ HasPart(b, P[i - 1], h, bodies[i]) /\ Cut(b, P[i - 1], P[i - 1] + h) = heads[i]
             /\ P[i] = P[i - 1] + h + Length(bodies[i])
             /\ bodies[i] \in Bytes /\ P[i - 1] \in Nat /\ Length(bodies[i]) \in Nat
  <2>1. heads[i] \in Bytes /\ bodies[i] \in Bytes /\ IsPart(ts[i], h, heads[i], bodies[i])
    BY DEF Framed, n
  <2>2. P[i - 1] \in Nat /\ ts[i] \in Bytes
    BY <1>1, <1>4
  <2>3. Cut(b, P[i - 1], P[i]) = ts[i] /\ P[i] = P[i - 1] + Length(ts[i]) /\ P[i] <= Length(b)
    BY <1>4 DEF Cut
  <2>4. HasPart(b, P[i - 1], h, bodies[i]) /\ Cut(b, P[i - 1], P[i - 1] + h) = heads[i]
        /\ P[i] = P[i - 1] + h + Length(bodies[i])
    BY <1>2, <2>1, <2>2, <2>3, PartFound
  <2> QED
    BY <2>1, <2>2, <2>4, LengthTyped
<1>6. \A i \in 0 .. n : at[i] = P[i]
  <2>1. Ends(b, P, h, n)
    BY <1>5 DEF Ends
  <2>2. P \in [0 .. n -> Nat] /\ P[0] = from
    BY <1>4
  <2> HIDE DEF at, from
  <2>3. \A i \in 0 .. n : Offsets(b, from, h, n)[i] = P[i]
    <3>1. b \in Bytes /\ from \in Nat /\ n \in Nat /\ h \in {4, 8}
      BY <1>1, <1>2 DEF from
    <3> QED
      BY ONLY <2>1, <2>2, <3>1, OffsetsFollow
  <2> QED
    BY <2>3 DEF at
<1> HIDE DEF at
<1>7. n <= Length(b)
  <2> DEFINE K == {k \in Nat : k <= n => k <= P[k]}
  <2>1. 0 \in K
    BY <1>1, <1>4
  <2>2. ASSUME NEW k \in K PROVE k + 1 \in K
    <3> SUFFICES ASSUME k + 1 <= n PROVE k + 1 <= P[k + 1]
      OBVIOUS
    <3> DEFINE i == k + 1
    <3>1. i \in 1 .. n /\ i - 1 = k /\ k <= P[k]
      BY <1>1
    <3> HIDE DEF i
    <3>2. P[i] = P[i - 1] + h + Length(bodies[i]) /\ P[i - 1] \in Nat /\ Length(bodies[i]) \in Nat
      BY <1>5, <3>1
    <3>3. i <= P[i]
      BY <3>1, <3>2
    <3> QED
      BY <3>3 DEF i
  <2>3. K = Nat
    <3>1. K \in SUBSET Nat
      OBVIOUS
    <3> HIDE DEF K
    <3> QED
      BY <2>1, <2>2, <3>1, SetInduction
  <2>4. n \in K
    <3> HIDE DEF K
    <3> QED
      BY <1>1, <2>3
  <2> QED
    BY <1>1, <1>4, <2>4
<1>8. at[n] = Length(b)
  BY <1>1, <1>4, <1>6
<1>9. ASSUME NEW i \in 1 .. n
      PROVE  HasPart(b, at[i - 1], h, bodies[i]) /\ Cut(b, at[i - 1], at[i - 1] + h) = heads[i]
  <2>1. i - 1 \in 0 .. n
    BY <1>1
  <2>2. at[i - 1] = P[i - 1]
    BY <1>6, <2>1
  <2> QED
    BY <1>5, <2>2
<1>10. Laid(b, at, h, n, heads, bodies)
  BY <1>7, <1>8, <1>9 DEF Laid
<1>11. StartsWith(b, hd)
  <2>1. Splits(b, hd, Concatenated(ts))
    BY <1>2, CutOfJoin
  <2> QED
    BY <2>1 DEF Splits, StartsWith
<1> QED
  BY <1>2, <1>10, <1>11 DEF at, n

\* How long they are.
LEMMA SumOfParts ==
  ASSUME NEW ts \in PartLists, NEW s, DOMAIN s = DOMAIN ts, s \in Seq(Int),
         \A i \in DOMAIN ts : s[i] = Length(ts[i])
  PROVE  Length(Concatenated(ts)) = SumOver(s)
<1> DEFINE n == Len(ts)
<1>1. n \in Nat /\ DOMAIN ts = 1 .. n /\ Len(s) = n /\ \A i \in 1 .. n : ts[i] \in Bytes
  <2>1. n \in Nat /\ DOMAIN ts = 1 .. n /\ \A i \in 1 .. n : ts[i] \in Bytes
    BY PartListTyped
  <2>2. Len(s) \in Nat /\ DOMAIN s = 1 .. Len(s)
    OBVIOUS
  <2> HIDE DEF n
  <2>3. Len(s) = n
    BY <2>1, <2>2
  <2> QED
    BY <2>1, <2>3
<1>2. PICK F \in [0 .. n -> Bytes] :
        /\ F[0] = <<>> /\ \A i \in 1 .. n : F[i] = F[i - 1] \o ts[i]
        /\ Concatenated(ts) = F[n]
  BY ConcatenatedFollows
<1> HIDE DEF n
<1>3. PICK g \in [0 .. n -> Int] :
        /\ g[0] = 0 /\ \A i \in 1 .. n : g[i] = g[i - 1] + s[i]
        /\ SumOver(s) = g[n]
  <2>1. \E g \in [0 .. Len(s) -> Int] :
           /\ g[0] = 0 /\ \A i \in 1 .. Len(s) : g[i] = g[i - 1] + s[i]
           /\ SumOver(s) = g[Len(s)]
    BY SumFollows
  <2> QED
    BY <1>1, <2>1
<1> DEFINE K == {k \in Nat : k <= n => Length(F[k]) = g[k]}
<1>4. 0 \in K
  <2>1. 0 \in 0 .. n
    BY <1>1
  <2>2. Length(F[0]) = 0
    BY <1>2, <2>1, LengthTyped
  <2> QED
    BY <1>3, <2>2
<1>5. ASSUME NEW k \in K PROVE k + 1 \in K
  <2> SUFFICES ASSUME k + 1 <= n PROVE Length(F[k + 1]) = g[k + 1]
    OBVIOUS
  <2> DEFINE i == k + 1
  <2>1. i \in 1 .. n /\ i - 1 = k /\ i - 1 \in 0 .. n /\ Length(F[k]) = g[k]
    BY <1>1
  <2> HIDE DEF i
  <2>2. F[i] = F[i - 1] \o ts[i] /\ F[i - 1] \in Bytes /\ ts[i] \in Bytes
    BY <1>1, <1>2, <2>1
  <2>3. Length(F[i]) = Length(F[i - 1]) + Length(ts[i])
    <3>1. Joins(F[i], F[i - 1], ts[i])
      BY <2>2, Joined
    <3> QED
      BY <3>1 DEF Joins
  <2>4. g[i] = g[i - 1] + s[i] /\ s[i] = Length(ts[i])
    BY <1>1, <1>3, <2>1
  <2>5. Length(F[i]) = g[i]
    BY <2>1, <2>3, <2>4
  <2> QED
    BY <2>5 DEF i
<1>6. K = Nat
  <2>1. K \in SUBSET Nat
    OBVIOUS
  <2> HIDE DEF K
  <2> QED
    BY <1>4, <1>5, <2>1, SetInduction
<1>7. n \in K
  <2> HIDE DEF K
  <2> QED
    BY <1>1, <1>6
<1>8. Length(F[n]) = g[n]
  BY <1>1, <1>7
<1> QED
  BY <1>2, <1>3, <1>8

-----------------------------------------------------------------------------
(* Numbers of four bytes *)

Word(v) == BigEndian(v, 4)

LEMMA WordTyped ==
  ASSUME NEW v \in Int
  PROVE  Word(v) \in Bytes /\ Length(Word(v)) = 4 /\ Int32(v) = Word(v)
<1>1. 4 \in Nat
  OBVIOUS
<1>2. BigEndian(v, 4) \in Bytes /\ Length(BigEndian(v, 4)) = 4
  BY <1>1, NumberTyped
<1> QED
  BY <1>2 DEF Word, Int32, EndianStore

LEMMA WordRead ==
  ASSUME NEW v, FitsIn(v, 4)
  PROVE  v \in Int /\ FromBigEndian(Word(v)) = v
BY RoundTrip DEF FitsIn, Word

\* b has the number v at p.
WordAt(b, p, v) == FromBigEndian(Cut(b, p, p + 4)) = v

\* e is a and then the number v.
Extended(e, a, v) ==
  /\ e \in Bytes /\ Length(e) = Length(a) + 4 /\ WordAt(e, Length(a), v)
  /\ \A l \in Nat : \A m \in Nat : l <= m /\ m <= Length(a) => Cut(e, l, m) = Cut(a, l, m)

LEMMA WordAppended ==
  ASSUME NEW a \in Bytes, NEW v, FitsIn(v, 4), NEW e, e = a \o Word(v)
  PROVE  Extended(e, a, v)
<1>1. v \in Int /\ FromBigEndian(Word(v)) = v /\ Word(v) \in Bytes /\ Length(Word(v)) = 4
  BY WordRead, WordTyped
<1>2. Joins(e, a, Word(v)) /\ Splits(e, a, Word(v))
  BY <1>1, Joined, CutOfJoin
<1>3. e \in Bytes /\ Length(e) = Length(a) + 4
  BY <1>1, <1>2 DEF Joins
<1>4. Cut(e, Length(a), Length(e)) = Word(v)
  BY <1>2 DEF Splits
<1>5. \A l \in Nat : \A m \in Nat : l <= m /\ m <= Length(a) => Cut(e, l, m) = Cut(a, l, m)
  BY <1>2 DEF Splits
<1> QED
  BY <1>1, <1>3, <1>4, <1>5 DEF Extended, WordAt

\* The header of an array.
Header(a, c, d, e, f) == Word(a) \o Word(c) \o Word(d) \o Word(e) \o Word(f)

LEMMA HeaderRead ==
  ASSUME NEW a, NEW c, NEW d, NEW e, NEW f,
         FitsIn(a, 4), FitsIn(c, 4), FitsIn(d, 4), FitsIn(e, 4), FitsIn(f, 4)
  PROVE  LET b == Header(a, c, d, e, f)
         IN  /\ b \in Bytes /\ Length(b) = 20
             /\ WordAt(b, 0, a) /\ WordAt(b, 4, c) /\ WordAt(b, 8, d) /\ WordAt(b, 12, e)
<1> DEFINE b1 == Word(a)
           b2 == b1 \o Word(c)
           b3 == b2 \o Word(d)
           b4 == b3 \o Word(e)
           b5 == b4 \o Word(f)
<1>1. b1 \in Bytes /\ Length(b1) = 4 /\ FromBigEndian(b1) = a
  BY WordTyped, WordRead
<1>2. Cut(b1, 0, 4) = b1
  <2>1. 4 = 0 + Length(b1) /\ 4 <= Length(b1) /\ 0 \in Nat
    BY <1>1
  <2>2. \A j \in 1 .. Length(b1) : b1[0 + j] = b1[j]
    <3> HIDE DEF b1
    <3> TAKE j \in 1 .. Length(b1)
    <3>1. 0 + j = j
      BY <1>1
    <3> QED
      BY <3>1
  <2> HIDE DEF b1
  <2> QED
    BY <1>1, <2>1, <2>2, CutIs
<1>3. Header(a, c, d, e, f) = b5
  BY DEF Header
<1> HIDE DEF b1
<1>4. Extended(b2, b1, c)
  BY <1>1, WordAppended
<1> HIDE DEF b2
<1>5. b2 \in Bytes /\ Length(b2) = 8 /\ WordAt(b2, 4, c) /\ Cut(b2, 0, 4) = Cut(b1, 0, 4)
  BY <1>1, <1>4 DEF Extended
<1>6. Extended(b3, b2, d)
  BY <1>5, WordAppended
<1> HIDE DEF b3
<1>7. /\ b3 \in Bytes /\ Length(b3) = 12 /\ WordAt(b3, 8, d)
      /\ Cut(b3, 0, 4) = Cut(b2, 0, 4) /\ Cut(b3, 4, 8) = Cut(b2, 4, 8)
  BY <1>5, <1>6 DEF Extended
<1>8. Extended(b4, b3, e)
  BY <1>7, WordAppended
<1> HIDE DEF b4
<1>9. /\ b4 \in Bytes /\ Length(b4) = 16 /\ WordAt(b4, 12, e)
      /\ Cut(b4, 0, 4) = Cut(b3, 0, 4) /\ Cut(b4, 4, 8) = Cut(b3, 4, 8) /\ Cut(b4, 8, 12) = Cut(b3, 8, 12)
  BY <1>7, <1>8 DEF Extended
<1>10. Extended(b5, b4, f)
  BY <1>9, WordAppended
<1> HIDE DEF b5
<1>11. /\ b5 \in Bytes /\ Length(b5) = 20
       /\ Cut(b5, 0, 4) = Cut(b4, 0, 4) /\ Cut(b5, 4, 8) = Cut(b4, 4, 8)
       /\ Cut(b5, 8, 12) = Cut(b4, 8, 12) /\ Cut(b5, 12, 16) = Cut(b4, 12, 16)
  BY <1>9, <1>10 DEF Extended
<1>12. WordAt(b5, 0, a) /\ WordAt(b5, 4, c) /\ WordAt(b5, 8, d) /\ WordAt(b5, 12, e)
  <2>1. 0 + 4 = 4 /\ 4 + 4 = 8 /\ 8 + 4 = 12 /\ 12 + 4 = 16
    OBVIOUS
  <2>2. FromBigEndian(Cut(b5, 0, 4)) = a
    BY <1>1, <1>2, <1>5, <1>7, <1>9, <1>11
  <2>3. FromBigEndian(Cut(b5, 4, 8)) = c /\ FromBigEndian(Cut(b5, 8, 12)) = d
        /\ FromBigEndian(Cut(b5, 12, 16)) = e
    BY <1>5, <1>7, <1>9, <1>11, <2>1 DEF WordAt
  <2> QED
    BY <2>1, <2>2, <2>3 DEF WordAt
<1> QED
  BY <1>3, <1>11, <1>12

-----------------------------------------------------------------------------
(* Kinds of types, and their object identifiers *)

IsScalar(T) == T.k \in DOMAIN Width

\* To the server a byte is no number, but a text of any length.
IsString(T) == T.k \in {"text", "byte"}
IsNumber(T) == IsScalar(T) /\ T.k # "byte"

LEMMA Widths ==
  ASSUME NEW k \in DOMAIN Width
  PROVE  Width[k] \in {1, 2, 4, 8} /\ k \notin {"text", "time", "array", "tuple", "udt"}
BY DEF Width

LEMMA ByteWidth == "byte" \in DOMAIN Width /\ Width["byte"] = 1
BY DEF Width

LEMMA Kinds ==
  ASSUME NEW T \in Types
  PROVE  /\ IsScalar(T) \/ T.k \in {"text", "time", "array"} \/ IsComposite(T)
         /\ T.of \in Seq(Types) /\ Len(T.of) \in Nat /\ DOMAIN T.of = 1 .. Len(T.of)
         /\ FitsIn(Len(T.of), 4) /\ \A i \in DOMAIN T.of : T.of[i] \in Types
         /\ T.k = "array" => 1 \in DOMAIN T.of /\ Len(T.of) = 1 /\ T.of[1] \in Types /\ T.of[1].k # "array"
         /\ T.k = "udt" => T.name \in DOMAIN UdtOids
<1>1. /\ T.k \in DOMAIN Width \union {"text", "time", "array", "tuple", "udt"}
      /\ T.of \in Seq(Types) /\ FitsIn(Len(T.of), 4)
      /\ T.k = "array" => Len(T.of) = 1 /\ T.of[1].k # "array"
      /\ T.k = "udt" => T.name \in DOMAIN UdtOids
  BY TypesAssumption
<1>2. IsScalar(T) \/ T.k \in {"text", "time", "array"} \/ IsComposite(T)
  BY <1>1 DEF IsScalar, IsComposite
<1>3. Len(T.of) \in Nat /\ DOMAIN T.of = 1 .. Len(T.of) /\ \A i \in DOMAIN T.of : T.of[i] \in Types
  BY <1>1
<1>4. T.k = "array" => 1 \in DOMAIN T.of /\ Len(T.of) = 1 /\ T.of[1] \in Types /\ T.of[1].k # "array"
  <2>1. Len(T.of) = 1 => 1 \in 1 .. Len(T.of)
    OBVIOUS
  <2> QED
    BY <1>1, <1>3, <2>1
<1> QED
  BY <1>1, <1>2, <1>3, <1>4

\* A name of builtins.hpp.
IsBuiltin(k) ==
  k \in {"bool", "byte", "char", "int8", "int2", "int4", "text", "oid", "float4", "float8", "time", "tuple"}

LEMMA BuiltinTable ==
  /\ Builtin["bool"][1] = 16 /\ Builtin["bool"][2] = 1000
  /\ Builtin["byte"][1] = 17 /\ Builtin["byte"][2] = 1001
  /\ Builtin["char"][1] = 18 /\ Builtin["char"][2] = 1002
  /\ Builtin["int8"][1] = 20 /\ Builtin["int8"][2] = 1016
  /\ Builtin["int2"][1] = 21 /\ Builtin["int2"][2] = 1005
  /\ Builtin["int4"][1] = 23 /\ Builtin["int4"][2] = 1007
  /\ Builtin["text"][1] = 25 /\ Builtin["text"][2] = 1009
  /\ Builtin["oid"][1] = 26 /\ Builtin["oid"][2] = 1028
  /\ Builtin["float4"][1] = 700 /\ Builtin["float4"][2] = 1021
  /\ Builtin["float8"][1] = 701 /\ Builtin["float8"][2] = 1022
  /\ Builtin["time"][1] = 1114 /\ Builtin["time"][2] = 1115
  /\ Builtin["tuple"][1] = 2249 /\ Builtin["tuple"][2] = 2287
BY DEF Builtin

LEMMA BuiltinOids ==
  ASSUME NEW k, IsBuiltin(k), NEW j \in {1, 2}
  PROVE  Builtin[k][j] \in Int /\ 16 <= Builtin[k][j] /\ Builtin[k][j] <= 2287
<1>1. Builtin[k][1] \in Int /\ 16 <= Builtin[k][1] /\ Builtin[k][1] <= 2287
  BY BuiltinTable DEF IsBuiltin
<1>2. Builtin[k][2] \in Int /\ 16 <= Builtin[k][2] /\ Builtin[k][2] <= 2287
  BY BuiltinTable DEF IsBuiltin
<1> QED
  BY <1>1, <1>2

LEMMA BuiltinsDiffer ==
  ASSUME NEW k, IsBuiltin(k), NEW l, IsBuiltin(l)
  PROVE  /\ Builtin[k][1] # Builtin[l][2]
         /\ Builtin[k][1] = Builtin[l][1] => k = l
         /\ Builtin[k][2] = Builtin[l][2] => k = l
BY BuiltinTable DEF IsBuiltin

LEMMA KindIsBuiltin ==
  ASSUME NEW T \in Types, T.k \notin {"array", "udt"}
  PROVE  IsBuiltin(T.k)
<1>1. \A k \in DOMAIN Width : IsBuiltin(k)
  BY DEF Width, IsBuiltin
<1>2. IsBuiltin("text") /\ IsBuiltin("time") /\ IsBuiltin("tuple")
  BY DEF IsBuiltin
<1> QED
  BY <1>1, <1>2, Kinds DEF IsScalar, IsComposite

\* An Oid is a builtin's or a user's, and a word.
LEMMA OidsTyped ==
  ASSUME NEW T \in Types
  PROVE  /\ FitsIn(OidOf(T), 4) /\ OidOf(T) \in Int
         /\ T.k = "udt" \/ (T.k = "array" /\ T.of[1].k = "udt") => OidOf(T) >= 16384
<1>1. ASSUME NEW n \in DOMAIN UdtOids, NEW j \in {1, 2}
      PROVE  FitsIn(UdtOids[n][j], 4) /\ UdtOids[n][j] >= 16384
  BY CatalogAssumption DEF FirstNormalObjectId
<1>2. ASSUME NEW k, IsBuiltin(k), NEW j \in {1, 2} PROVE FitsIn(Builtin[k][j], 4)
  <2> DEFINE o == Builtin[k][j]
  <2>1. o \in Int /\ 16 <= o /\ o <= 2287
    BY <1>2, BuiltinOids
  <2> HIDE DEF o
  <2>2. -1 <= o /\ o <= 65535
    BY <2>1
  <2>3. FitsIn(o, 4)
    BY <2>1, <2>2, SmallFits
  <2> QED
    BY <2>3 DEF o
<1>3. CASE T.k = "udt"
  <2>1. T.name \in DOMAIN UdtOids
    BY <1>3, Kinds
  <2>2. OidOf(T) = UdtOids[T.name][1] /\ 1 \in {1, 2}
    BY <1>3 DEF OidOf
  <2>3. FitsIn(OidOf(T), 4) /\ OidOf(T) >= 16384
    BY <1>1, <2>1, <2>2
  <2>4. OidOf(T) \in Int
    BY <2>3 DEF FitsIn
  <2> QED
    BY <2>3, <2>4
<1>4. CASE T.k = "array"
  <2>1. T.of[1] \in Types /\ T.of[1].k # "array"
    BY <1>4, Kinds
  <2>2. OidOf(T) = IF T.of[1].k = "udt" THEN UdtOids[T.of[1].name][2] ELSE Builtin[T.of[1].k][2]
    BY <1>4 DEF OidOf
  <2>3. CASE T.of[1].k = "udt"
    <3>1. T.of[1].name \in DOMAIN UdtOids
      BY <2>1, <2>3, Kinds
    <3>2. OidOf(T) = UdtOids[T.of[1].name][2] /\ 2 \in {1, 2}
      BY <2>2, <2>3
    <3>3. FitsIn(OidOf(T), 4) /\ OidOf(T) >= 16384
      BY <1>1, <3>1, <3>2
    <3>4. OidOf(T) \in Int
      BY <3>3 DEF FitsIn
    <3> QED
      BY <3>3, <3>4
  <2>4. CASE T.of[1].k # "udt"
    <3>1. IsBuiltin(T.of[1].k)
      BY <2>1, <2>4, KindIsBuiltin
    <3>2. OidOf(T) = Builtin[T.of[1].k][2] /\ 2 \in {1, 2}
      BY <2>2, <2>4
    <3>3. FitsIn(OidOf(T), 4)
      BY <1>2, <3>1, <3>2
    <3> QED
      BY <1>4, <2>4, <3>3 DEF FitsIn
  <2> QED
    BY <2>3, <2>4
<1>5. CASE T.k \notin {"array", "udt"}
  <2>1. IsBuiltin(T.k)
    BY <1>5, KindIsBuiltin
  <2>2. OidOf(T) = Builtin[T.k][1]
    BY <1>5 DEF OidOf
  <2> QED
    BY <1>2, <1>5, <2>1, <2>2 DEF FitsIn
<1> QED
  BY <1>3, <1>4, <1>5

\* Whether a reader of T knows the type it is given from its Oid.
Told(T) == T.k # "udt" /\ (T.k = "array" => T.of[1].k # "udt")
SameKind(T, S) == T.k = S.k /\ (T.k = "array" => T.of[1].k = S.of[1].k)

LEMMA OidsTell ==
  ASSUME NEW T \in Types, NEW S \in Types
  PROVE  OidsAgree(ExpectedOid(T), OidOf(S)) <=> (Told(T) => SameKind(T, S))
<1>1. CASE ~Told(T)
  <2>1. ExpectedOid(T) = 0
    BY <1>1 DEF Told, ExpectedOid
  <2> QED
    BY <1>1, <2>1 DEF OidsAgree
<1>2. CASE Told(T) /\ T.k = "array"
  <2>1. T.of[1] \in Types /\ IsBuiltin(T.of[1].k) /\ ExpectedOid(T) = Builtin[T.of[1].k][2]
    <3>1. T.of[1] \in Types /\ T.of[1].k # "array" /\ T.of[1].k # "udt"
      BY <1>2, Kinds DEF Told
    <3>2. IsBuiltin(T.of[1].k)
      BY <3>1, KindIsBuiltin
    <3> QED
      BY <1>2, <3>1, <3>2 DEF ExpectedOid
  <2>2. ExpectedOid(T) \in Int /\ 16 <= ExpectedOid(T) /\ ExpectedOid(T) <= 2287
    BY <2>1, BuiltinOids
  <2>3. CASE S.k = "udt" \/ (S.k = "array" /\ S.of[1].k = "udt")
    <3>1. OidOf(S) >= 16384 /\ OidOf(S) \in Int
      BY <2>3, OidsTyped
    <3>2. ~OidsAgree(ExpectedOid(T), OidOf(S))
      BY <2>2, <3>1 DEF OidsAgree
    <3>3. ~SameKind(T, S)
      BY <1>2, <2>3 DEF SameKind, Told
    <3> QED
      BY <1>2, <3>2, <3>3
  <2>4. CASE S.k = "array" /\ S.of[1].k # "udt"
    <3>1. S.of[1] \in Types /\ S.of[1].k # "array"
      BY <2>4, Kinds
    <3>2. IsBuiltin(S.of[1].k) /\ OidOf(S) = Builtin[S.of[1].k][2]
      BY <2>4, <3>1, KindIsBuiltin DEF OidOf
    <3>3. ExpectedOid(T) = OidOf(S) <=> T.of[1].k = S.of[1].k
      BY <2>1, <3>2, BuiltinsDiffer
    <3> QED
      BY <1>2, <2>2, <2>4, <3>3 DEF OidsAgree, SameKind
  <2>5. CASE S.k \notin {"array", "udt"}
    <3>1. IsBuiltin(S.k) /\ OidOf(S) = Builtin[S.k][1]
      BY <2>5, KindIsBuiltin DEF OidOf
    <3>2. ExpectedOid(T) # OidOf(S)
      BY <2>1, <3>1, BuiltinsDiffer
    <3> QED
      BY <1>2, <2>2, <2>5, <3>2 DEF OidsAgree, SameKind
  <2> QED
    BY <2>3, <2>4, <2>5
<1>3. CASE Told(T) /\ T.k # "array"
  <2>1. IsBuiltin(T.k) /\ ExpectedOid(T) = Builtin[T.k][1]
    BY <1>3, KindIsBuiltin DEF Told, ExpectedOid
  <2>2. ExpectedOid(T) \in Int /\ 16 <= ExpectedOid(T) /\ ExpectedOid(T) <= 2287
    BY <2>1, BuiltinOids
  <2>3. CASE S.k = "udt" \/ (S.k = "array" /\ S.of[1].k = "udt")
    <3>1. OidOf(S) >= 16384 /\ OidOf(S) \in Int
      BY <2>3, OidsTyped
    <3>2. ~OidsAgree(ExpectedOid(T), OidOf(S))
      BY <2>2, <3>1 DEF OidsAgree
    <3>3. ~SameKind(T, S)
      BY <1>3, <2>3 DEF SameKind, Told
    <3> QED
      BY <1>3, <3>2, <3>3
  <2>4. CASE S.k = "array" /\ S.of[1].k # "udt"
    <3>1. S.of[1] \in Types /\ S.of[1].k # "array"
      BY <2>4, Kinds
    <3>2. IsBuiltin(S.of[1].k) /\ OidOf(S) = Builtin[S.of[1].k][2]
      BY <2>4, <3>1, KindIsBuiltin DEF OidOf
    <3>3. ExpectedOid(T) # OidOf(S)
      BY <2>1, <3>2, BuiltinsDiffer
    <3> QED
      BY <1>3, <2>2, <2>4, <3>3 DEF OidsAgree, SameKind
  <2>5. CASE S.k \notin {"array", "udt"}
    <3>1. IsBuiltin(S.k) /\ OidOf(S) = Builtin[S.k][1]
      BY <2>5, KindIsBuiltin DEF OidOf
    <3>2. ExpectedOid(T) = OidOf(S) <=> T.k = S.k
      BY <2>1, <3>1, BuiltinsDiffer
    <3> QED
      BY <1>3, <2>2, <2>5, <3>2 DEF OidsAgree, SameKind
  <2> QED
    BY <2>3, <2>4, <2>5
<1> QED
  BY <1>1, <1>2, <1>3

-----------------------------------------------------------------------------
(* What is written *)

\* A type with parts: an array's are all of one type.
HasParts(T) == T.k = "array" \/ IsComposite(T)
PartType(T, i) == IF T.k = "array" THEN T.of[1] ELSE T.of[i]
HeadSize(T) == IF T.k = "array" THEN 4 ELSE 8

LEMMA ValueTyped ==
  ASSUME NEW T \in Types, NEW v \in Values[T]
  PROVE  /\ FitsIn(SizeOf(T, v), 4)
         /\ T.k = "text" => v \in Bytes
         /\ T.k = "time" => v \in Int /\ FitsIn(Quotient(v, TickRatio) - EpochShift, 8)
         /\ T.k = "array" => v \in Seq(Values[T.of[1]]) /\ FitsIn(Len(v), 4)
         /\ IsComposite(T) => DOMAIN v = DOMAIN T.of /\ \A i \in DOMAIN v : v[i] \in Values[T.of[i]]
         /\ IsScalar(T) => FitsIn(v, Width[T.k])
<1>1. /\ FitsIn(SizeOf(T, v), 4)
      /\ CASE T.k = "text" -> v \in Seq(Byte)
           [] T.k = "time" -> v \in Int /\ FitsIn(Quotient(v, TickRatio) - EpochShift, 8)
           [] T.k = "array" -> v \in Seq(Values[T.of[1]]) /\ FitsIn(Len(v), 4)
           [] IsComposite(T) -> /\ DOMAIN v = DOMAIN T.of
                                /\ \A i \in DOMAIN v : v[i] \in Values[T.of[i]]
           [] OTHER -> FitsIn(v, Width[T.k])
  BY ValuesAssumption
<1>2. T.k = "text" => v \in Bytes
  BY <1>1 DEF Bytes, IsComposite
<1>3. T.k = "time" => v \in Int /\ FitsIn(Quotient(v, TickRatio) - EpochShift, 8)
  BY <1>1 DEF IsComposite
<1>4. T.k = "array" => v \in Seq(Values[T.of[1]]) /\ FitsIn(Len(v), 4)
  BY <1>1 DEF IsComposite
<1>5. IsComposite(T) => DOMAIN v = DOMAIN T.of /\ \A i \in DOMAIN v : v[i] \in Values[T.of[i]]
  BY <1>1 DEF IsComposite
<1>6. IsScalar(T) => FitsIn(v, Width[T.k])
  BY <1>1, Widths DEF IsScalar, IsComposite
<1> QED
  BY <1>1, <1>2, <1>3, <1>4, <1>5, <1>6

\* v is of n parts, for which T has the types.
PartsAre(T, v, n) ==
  /\ n \in Nat /\ DOMAIN v = 1 .. n
  /\ T.k = "array" => n = Len(v) /\ FitsIn(n, 4)
  /\ IsComposite(T) => n = Len(T.of) /\ DOMAIN T.of = 1 .. n
  /\ \A i \in 1 .. n :
       /\ PartType(T, i) \in Types /\ v[i] \in Values[PartType(T, i)]
       /\ \E j \in DOMAIN T.of : PartType(T, i) = T.of[j]

LEMMA ValueParts ==
  ASSUME NEW T \in Types, HasParts(T), NEW v \in Values[T]
  PROVE  \E n : PartsAre(T, v, n)
<1>1. CASE T.k = "array"
  <2>1. /\ 1 \in DOMAIN T.of /\ T.of[1] \in Types /\ ~IsComposite(T)
        /\ v \in Seq(Values[T.of[1]]) /\ FitsIn(Len(v), 4)
    BY <1>1, Kinds, ValueTyped DEF IsComposite
  <2>2. Len(v) \in Nat /\ DOMAIN v = 1 .. Len(v) /\ \A i \in 1 .. Len(v) : v[i] \in Values[T.of[1]]
    BY <2>1
  <2>3. \A i : PartType(T, i) = T.of[1]
    BY <1>1 DEF PartType
  <2>4. PartsAre(T, v, Len(v))
    BY <1>1, <2>1, <2>2, <2>3 DEF PartsAre
  <2> QED
    BY <2>4
<1>2. CASE IsComposite(T)
  <2>1. /\ T.k # "array" /\ Len(T.of) \in Nat /\ DOMAIN T.of = 1 .. Len(T.of)
        /\ \A i \in DOMAIN T.of : T.of[i] \in Types
        /\ DOMAIN v = DOMAIN T.of /\ \A i \in DOMAIN v : v[i] \in Values[T.of[i]]
    <3>1. T.k # "array"
      BY <1>2 DEF IsComposite
    <3>2. Len(T.of) \in Nat /\ DOMAIN T.of = 1 .. Len(T.of) /\ \A i \in DOMAIN T.of : T.of[i] \in Types
      BY Kinds
    <3>3. DOMAIN v = DOMAIN T.of /\ \A i \in DOMAIN v : v[i] \in Values[T.of[i]]
      BY <1>2, ValueTyped
    <3> QED
      BY <3>1, <3>2, <3>3
  <2>2. \A i : PartType(T, i) = T.of[i]
    BY <2>1 DEF PartType
  <2>3. PartsAre(T, v, Len(T.of))
    BY <2>1, <2>2 DEF PartsAre
  <2> QED
    BY <2>3
<1> QED
  BY <1>1, <1>2 DEF HasParts

\* size_of_impl of each kind of type.
LEMMA SizeOfKinds ==
  ASSUME NEW T \in Types, NEW v \in Values[T]
  PROVE  /\ T.k = "text" => SizeOf(T, v) = Len(v)
         /\ T.k = "time" => SizeOf(T, v) = 8
         /\ IsScalar(T) => SizeOf(T, v) = Width[T.k]
         /\ HasParts(T) =>
              SizeOf(T, v) = (IF T.k = "array" THEN 20 ELSE 4)
                             + SumOver([i \in DOMAIN v |-> SizeOf(PartType(T, i), v[i]) + HeadSize(T)])
<1> DEFINE size == [i \in DOMAIN T.of |-> Sizes[T.of[i]]]
<1>1. Sizes[T] = SizeWith(T, size)
  BY SizesUnfold
<1>2. \A i \in DOMAIN T.of : size[i] = Sizes[T.of[i]]
  OBVIOUS
<1> HIDE DEF size
<1>3. SizeOf(T, v) =
        CASE T.k = "text" -> Len(v)
          [] T.k = "time" -> 8
          [] T.k = "array" -> 20 + SumOver([i \in DOMAIN v |-> size[1][v[i]] + 4])
          [] IsComposite(T) -> 4 + SumOver([i \in DOMAIN v |-> size[i][v[i]] + 8])
          [] OTHER -> Width[T.k]
  BY <1>1 DEF SizeOf, SizeWith
<1>4. (T.k = "text" => SizeOf(T, v) = Len(v)) /\ (T.k = "time" => SizeOf(T, v) = 8)
  BY <1>3 DEF IsComposite
<1>5. IsScalar(T) => SizeOf(T, v) = Width[T.k]
  BY <1>3, Widths DEF IsScalar, IsComposite
<1> DEFINE all == [i \in DOMAIN v |-> SizeOf(PartType(T, i), v[i]) + HeadSize(T)]
<1>6. CASE T.k = "array"
  <2>1. 1 \in DOMAIN T.of
    BY <1>6, Kinds
  <2>2. [i \in DOMAIN v |-> size[1][v[i]] + 4] = all
    BY <1>2, <1>6, <2>1 DEF SizeOf, PartType, HeadSize
  <2>3. SizeOf(T, v) = 20 + SumOver(all)
    BY <1>3, <1>6, <2>2 DEF IsComposite
  <2> QED
    BY <1>4, <1>5, <1>6, <2>3
<1>7. CASE IsComposite(T)
  <2>1. DOMAIN v = DOMAIN T.of /\ T.k # "array" /\ T.k # "text" /\ T.k # "time"
    BY <1>7, ValueTyped DEF IsComposite
  <2>2. [i \in DOMAIN v |-> size[i][v[i]] + 8] = all
    BY <1>2, <2>1 DEF SizeOf, PartType, HeadSize
  <2>3. SizeOf(T, v) = 4 + SumOver(all)
    BY <1>3, <1>7, <2>1, <2>2
  <2> QED
    BY <1>4, <1>5, <2>1, <2>3
<1> QED
  BY <1>4, <1>5, <1>6, <1>7 DEF HasParts

\* serialize_impl of each kind of type.
HeaderOf(T, v) ==
  IF T.k = "array" THEN Header(1, 0, OidOf(T.of[1]), Len(v), 0) ELSE Word(Len(T.of))
PartHead(T, v, i) ==
  IF T.k = "array" THEN Word(SizeOf(PartType(T, i), v[i]))
  ELSE Word(OidOf(PartType(T, i))) \o Word(SizeOf(PartType(T, i), v[i]))
PartsWritten(T, v) == [i \in DOMAIN v |-> PartHead(T, v, i) \o Serialized(PartType(T, i), v[i])]

LEMMA WriteKinds ==
  ASSUME NEW T \in Types, NEW v \in Values[T]
  PROVE  /\ T.k = "text" => Serialized(T, v) = v
         /\ T.k = "time" => Serialized(T, v) = BigEndian(Quotient(v, TickRatio) - EpochShift, 8)
         /\ IsScalar(T) => Serialized(T, v) = BigEndian(v, Width[T.k])
         /\ HasParts(T) => Serialized(T, v) = HeaderOf(T, v) \o Concatenated(PartsWritten(T, v))
<1> DEFINE write == [i \in DOMAIN T.of |-> Writes[T.of[i]]]
<1>1. Writes[T] = WriteWith(T, write)
  BY WritesUnfold
<1>2. \A i \in DOMAIN T.of : write[i] = Writes[T.of[i]]
  OBVIOUS
<1> HIDE DEF write
<1> DEFINE items == [i \in DOMAIN v |-> Int32(SizeOf(T.of[1], v[i])) \o write[1][v[i]]]
           members == [i \in DOMAIN v |->
             Int32(OidOf(T.of[i])) \o Int32(SizeOf(T.of[i], v[i])) \o write[i][v[i]]]
<1>3. Serialized(T, v) =
        CASE T.k = "text" -> v
          [] T.k = "time" -> EndianStore(Quotient(v, TickRatio) - EpochShift, 8)
          [] T.k = "array" ->
               Int32(1) \o Int32(0) \o Int32(OidOf(T.of[1])) \o Int32(Len(v)) \o Int32(0)
               \o Concatenated(items)
          [] IsComposite(T) -> Int32(Len(T.of)) \o Concatenated(members)
          [] OTHER -> EndianStore(v, Width[T.k])
  BY <1>1 DEF Serialized, WriteWith
<1> HIDE DEF items, members
<1>4. T.k = "text" => Serialized(T, v) = v
  BY <1>3 DEF IsComposite
<1>5. T.k = "time" => Serialized(T, v) = BigEndian(Quotient(v, TickRatio) - EpochShift, 8)
  BY <1>3 DEF EndianStore, IsComposite
<1>6. IsScalar(T) => Serialized(T, v) = BigEndian(v, Width[T.k])
  BY <1>3, Widths DEF IsScalar, IsComposite, EndianStore
<1>7. CASE T.k = "array"
  <2>1. 1 \in DOMAIN T.of
    BY <1>7, Kinds
  <2>2. items = PartsWritten(T, v)
    BY <1>2, <1>7, <2>1 DEF items, PartsWritten, PartHead, PartType, Serialized, Word, Int32, EndianStore
  <2>3. HeaderOf(T, v) = Int32(1) \o Int32(0) \o Int32(OidOf(T.of[1])) \o Int32(Len(v)) \o Int32(0)
    BY <1>7 DEF HeaderOf, Header, Word, Int32, EndianStore
  <2>4. Serialized(T, v) = Int32(1) \o Int32(0) \o Int32(OidOf(T.of[1])) \o Int32(Len(v)) \o Int32(0)
                           \o Concatenated(items)
    BY <1>3, <1>7 DEF IsComposite
  <2> QED
    BY <1>4, <1>5, <1>6, <2>2, <2>3, <2>4
<1>8. CASE IsComposite(T)
  <2>1. DOMAIN v = DOMAIN T.of /\ T.k # "array" /\ T.k # "text" /\ T.k # "time"
    BY <1>8, ValueTyped DEF IsComposite
  <2>2. members = PartsWritten(T, v)
    BY <1>2, <2>1 DEF members, PartsWritten, PartHead, PartType, Serialized, Word, Int32, EndianStore
  <2>3. HeaderOf(T, v) = Int32(Len(T.of))
    BY <2>1 DEF HeaderOf, Word, Int32, EndianStore
  <2>4. Serialized(T, v) = Int32(Len(T.of)) \o Concatenated(members)
    BY <1>3, <1>8, <2>1
  <2> QED
    BY <1>4, <1>5, <1>6, <2>2, <2>3, <2>4
<1> QED
  BY <1>4, <1>5, <1>6, <1>7, <1>8 DEF HasParts

\* t is the part of a head, with an Oid if it has eight bytes, and a body.
PartIs(t, h, head, oid, body) ==
  /\ t \in Bytes /\ head \in Bytes /\ body \in Bytes /\ IsPart(t, h, head, body)
  /\ Length(t) = h + Length(body)
  /\ h = 8 => WordAt(head, 0, oid)

LEMMA WordCut ==
  ASSUME NEW v \in Int
  PROVE  Cut(Word(v), 0, 4) = Word(v)
<1> DEFINE b == Word(v)
<1>1. b \in Bytes /\ Length(b) = 4
  BY WordTyped
<1> HIDE DEF b
<1>2. 4 = 0 + Length(b) /\ 4 <= Length(b) /\ 0 \in Nat
  BY <1>1
<1>3. \A j \in 1 .. Length(b) : b[0 + j] = b[j]
  <2> TAKE j \in 1 .. Length(b)
  <2>1. 0 + j = j
    BY <1>1
  <2> QED
    BY <2>1
<1>4. Cut(b, 0, 4) = b
  BY <1>1, <1>2, <1>3, CutIs
<1> QED
  BY <1>4 DEF b

LEMMA ItemFramed ==
  ASSUME NEW body \in Bytes, FitsIn(Length(body), 4), NEW oid
  PROVE  PartIs(Word(Length(body)) \o body, 4, Word(Length(body)), oid, body)
<1> DEFINE head == Word(Length(body))
           t == head \o body
<1>1. Length(body) \in Int /\ FromBigEndian(head) = Length(body)
  BY WordRead
<1>2. head \in Bytes /\ Length(head) = 4 /\ Cut(head, 0, 4) = head
  BY <1>1, WordTyped, WordCut
<1> HIDE DEF head
<1>3. Joins(t, head, body)
  BY <1>2, Joined
<1>4. t \in Bytes /\ Length(t) = 4 + Length(body)
  BY <1>2, <1>3 DEF Joins
<1>5. FromBigEndian(Cut(head, 4 - 4, 4)) = Length(body)
  <2>1. 4 - 4 = 0
    OBVIOUS
  <2> QED
    BY <1>1, <1>2, <2>1
<1>6. PartIs(t, 4, head, oid, body)
  BY <1>2, <1>4, <1>5 DEF PartIs, IsPart
<1> QED
  BY <1>6 DEF head

LEMMA MemberFramed ==
  ASSUME NEW body \in Bytes, FitsIn(Length(body), 4), NEW oid, FitsIn(oid, 4)
  PROVE  LET head == Word(oid) \o Word(Length(body))
         IN  PartIs(head \o body, 8, head, oid, body)
<1> DEFINE first == Word(oid)
           head == first \o Word(Length(body))
           t == head \o body
<1>1. /\ oid \in Int /\ FromBigEndian(first) = oid
      /\ first \in Bytes /\ Length(first) = 4 /\ Cut(first, 0, 4) = first
  BY WordRead, WordTyped, WordCut
<1> HIDE DEF first
<1>2. Extended(head, first, Length(body))
  BY <1>1, WordAppended
<1> HIDE DEF head
<1>3. head \in Bytes /\ Length(head) = 8 /\ FromBigEndian(Cut(head, 4, 8)) = Length(body)
  BY <1>1, <1>2 DEF Extended, WordAt
<1>4. FromBigEndian(Cut(head, 0, 4)) = oid
  BY <1>1, <1>2 DEF Extended
<1>5. Joins(t, head, body)
  BY <1>3, Joined
<1>6. t \in Bytes /\ Length(t) = 8 + Length(body)
  BY <1>3, <1>5 DEF Joins
<1>7. FromBigEndian(Cut(head, 8 - 4, 8)) = Length(body)
  <2>1. 8 - 4 = 4
    OBVIOUS
  <2> QED
    BY <1>3, <2>1
<1>8. WordAt(head, 0, oid)
  <2>1. 0 + 4 = 4
    OBVIOUS
  <2> QED
    BY <1>4, <2>1 DEF WordAt
<1>9. PartIs(t, 8, head, oid, body)
  BY <1>3, <1>6, <1>7, <1>8 DEF PartIs, IsPart
<1> QED
  BY <1>9 DEF head, first

\* A value is written in as many bytes as size_of says.
Written(T, v) ==
  Serialized(T, v) \in Bytes /\ Length(Serialized(T, v)) = SizeOf(T, v) /\ SizeOf(T, v) \in Nat

LEMMA PartFramed ==
  ASSUME NEW T \in Types, HasParts(T), NEW v \in Values[T], NEW n, PartsAre(T, v, n), NEW i \in 1 .. n,
         Written(PartType(T, i), v[i])
  PROVE  PartIs(PartsWritten(T, v)[i], HeadSize(T), PartHead(T, v, i), OidOf(PartType(T, i)),
                Serialized(PartType(T, i), v[i]))
<1> DEFINE U == PartType(T, i)
           body == Serialized(U, v[i])
<1>1. U \in Types /\ v[i] \in Values[U] /\ i \in DOMAIN v
  BY DEF PartsAre
<1>2. body \in Bytes /\ Length(body) = SizeOf(U, v[i]) /\ FitsIn(Length(body), 4) /\ FitsIn(OidOf(U), 4)
  BY <1>1, ValueTyped, OidsTyped DEF Written
<1>3. PartsWritten(T, v)[i] = PartHead(T, v, i) \o body
  BY <1>1 DEF PartsWritten
<1>4. CASE T.k = "array"
  <2>1. PartHead(T, v, i) = Word(Length(body)) /\ HeadSize(T) = 4
    BY <1>2, <1>4 DEF PartHead, HeadSize
  <2> HIDE DEF body, U
  <2>2. PartIs(Word(Length(body)) \o body, 4, Word(Length(body)), OidOf(U), body)
    BY <1>2, ItemFramed
  <2> QED
    BY <1>3, <2>1, <2>2 DEF U, body
<1>5. CASE T.k # "array"
  <2>1. PartHead(T, v, i) = Word(OidOf(U)) \o Word(Length(body)) /\ HeadSize(T) = 8
    BY <1>2, <1>5 DEF PartHead, HeadSize
  <2> HIDE DEF body, U
  <2>2. PartIs((Word(OidOf(U)) \o Word(Length(body))) \o body, 8, Word(OidOf(U)) \o Word(Length(body)),
               OidOf(U), body)
    BY <1>2, MemberFramed
  <2> QED
    BY <1>3, <2>1, <2>2 DEF U, body
<1> QED
  BY <1>4, <1>5

LEMMA HeaderWritten ==
  ASSUME NEW T \in Types, HasParts(T), NEW v \in Values[T]
  PROVE  HeaderOf(T, v) \in Bytes /\ Length(HeaderOf(T, v)) = IF T.k = "array" THEN 20 ELSE 4
<1>1. CASE T.k = "array"
  <2>1. FitsIn(1, 4) /\ FitsIn(0, 4)
    BY SmallFits
  <2>2. FitsIn(Len(v), 4)
    BY <1>1, ValueTyped
  <2>3. FitsIn(OidOf(T.of[1]), 4)
    BY <1>1, Kinds, OidsTyped
  <2> DEFINE b == Header(1, 0, OidOf(T.of[1]), Len(v), 0)
  <2>4. b \in Bytes /\ Length(b) = 20
    BY <2>1, <2>2, <2>3, HeaderRead
  <2> HIDE DEF b
  <2>5. HeaderOf(T, v) = b
    BY <1>1 DEF HeaderOf, b
  <2> QED
    BY <1>1, <2>4, <2>5
<1>2. CASE T.k # "array"
  <2>1. Len(T.of) \in Int
    BY Kinds
  <2> QED
    BY <1>2, <2>1, WordTyped DEF HeaderOf
<1> QED
  BY <1>1, <1>2

LEMMA PartsListed ==
  ASSUME NEW T \in Types, HasParts(T), NEW v \in Values[T], NEW n, PartsAre(T, v, n),
         \A i \in 1 .. n : Written(PartType(T, i), v[i])
  PROVE  /\ PartsWritten(T, v) \in PartLists /\ Len(PartsWritten(T, v)) = n
         /\ DOMAIN PartsWritten(T, v) = 1 .. n
<1> DEFINE ts == PartsWritten(T, v)
<1>1. n \in Nat /\ DOMAIN v = 1 .. n
  BY DEF PartsAre
<1>2. ASSUME NEW i \in 1 .. n PROVE ts[i] \in Bytes
  <2>1. Written(PartType(T, i), v[i])
    OBVIOUS
  <2> QED
    BY <2>1, PartFramed DEF PartIs
<1>3. ts \in [1 .. n -> Bytes]
  <2>1. ts = [i \in 1 .. n |-> ts[i]]
    BY <1>1 DEF PartsWritten
  <2> HIDE DEF ts
  <2> QED
    BY <1>2, <2>1
<1> HIDE DEF ts
<1>4. ts \in Seq(Bytes) /\ Len(ts) = n /\ DOMAIN ts = 1 .. n
  BY <1>1, <1>3, TableSeq
<1> QED
  BY <1>4 DEF ts, PartLists

LEMMA SizesWritten ==
  ASSUME NEW T \in Types, NEW v \in Values[T]
  PROVE  Written(T, v)
<1> DEFINE S == {U \in Types : \A w \in Values[U] : Written(U, w)}
<1>1. ASSUME NEW U \in Types, \A i \in DOMAIN U.of : U.of[i] \in S PROVE U \in S
  <2> SUFFICES ASSUME NEW w \in Values[U] PROVE Written(U, w)
    OBVIOUS
  <2>1. CASE U.k = "text"
    BY <2>1, ValueTyped, SizeOfKinds, WriteKinds, LengthTyped DEF Written, Length
  <2>2. CASE U.k = "time"
    <3> DEFINE x == Quotient(w, TickRatio) - EpochShift
    <3>1. x \in Int /\ 8 \in Nat
      BY <2>2, ValueTyped DEF FitsIn
    <3> HIDE DEF x
    <3>2. BigEndian(x, 8) \in Bytes /\ Length(BigEndian(x, 8)) = 8
      BY <3>1, NumberTyped
    <3>3. Serialized(U, w) = BigEndian(x, 8) /\ SizeOf(U, w) = 8
      BY <2>2, SizeOfKinds, WriteKinds DEF x
    <3> QED
      BY <3>2, <3>3 DEF Written
  <2>3. CASE IsScalar(U)
    <3>1. w \in Int /\ Width[U.k] \in Nat
      BY <2>3, ValueTyped, Widths DEF FitsIn, IsScalar
    <3>2. BigEndian(w, Width[U.k]) \in Bytes /\ Length(BigEndian(w, Width[U.k])) = Width[U.k]
      BY <3>1, NumberTyped
    <3> QED
      BY <2>3, <3>1, <3>2, SizeOfKinds, WriteKinds DEF Written
  <2>4. CASE HasParts(U)
    <3>1. PICK n : PartsAre(U, w, n)
      BY <2>4, ValueParts
    <3>2. ASSUME NEW i \in 1 .. n PROVE Written(PartType(U, i), w[i])
      BY <1>1, <3>1 DEF PartsAre
    <3> DEFINE ts == PartsWritten(U, w)
               hd == HeaderOf(U, w)
               base == IF U.k = "array" THEN 20 ELSE 4
               s == [i \in DOMAIN w |-> SizeOf(PartType(U, i), w[i]) + HeadSize(U)]
    <3>3. ts \in PartLists /\ Len(ts) = n /\ DOMAIN ts = 1 .. n
      BY <2>4, <3>1, <3>2, PartsListed
    <3>4. hd \in Bytes /\ Length(hd) = base
      BY <2>4, HeaderWritten
    <3>5. \A i \in 1 .. n : Length(ts[i]) = HeadSize(U) + SizeOf(PartType(U, i), w[i])
      <4> TAKE i \in 1 .. n
      <4>1. PartIs(ts[i], HeadSize(U), PartHead(U, w, i), OidOf(PartType(U, i)),
                   Serialized(PartType(U, i), w[i]))
        BY <2>4, <3>1, <3>2, PartFramed
      <4> QED
        BY <3>2, <4>1 DEF PartIs, Written
    <3>6. /\ s \in Seq(Int) /\ DOMAIN s = DOMAIN ts
          /\ \A i \in DOMAIN ts : s[i] = Length(ts[i])
      <4>1. n \in Nat /\ DOMAIN w = 1 .. n
        BY <3>1 DEF PartsAre
      <4>2. HeadSize(U) \in Int /\ \A i \in 1 .. n : SizeOf(PartType(U, i), w[i]) \in Int
        BY <3>2 DEF Written, HeadSize
      <4> HIDE DEF ts
      <4>3. s \in [1 .. n -> Int] /\ \A i \in 1 .. n : s[i] = Length(ts[i])
        BY <3>5, <4>1, <4>2
      <4> HIDE DEF s
      <4>4. s \in Seq(Int) /\ DOMAIN s = 1 .. n
        BY <4>1, <4>3, TableSeq
      <4> QED
        BY <3>3, <4>3, <4>4
    <3>7. SizeOf(U, w) = base + SumOver(s)
      BY <2>4, SizeOfKinds
    <3>8. Serialized(U, w) = hd \o Concatenated(ts)
      BY <2>4, WriteKinds
    <3> HIDE DEF ts, hd, s
    <3>9. Length(Concatenated(ts)) = SumOver(s)
      BY <3>3, <3>6, SumOfParts
    <3>10. Concatenated(ts) \in Bytes
      BY <3>3, <3>4, Placement
    <3>11. Joins(Serialized(U, w), hd, Concatenated(ts))
      BY <3>4, <3>8, <3>10, Joined
    <3>12. Serialized(U, w) \in Bytes /\ Length(Serialized(U, w)) = base + SumOver(s)
      BY <3>4, <3>9, <3>11 DEF Joins
    <3> QED
      BY <3>7, <3>12, LengthTyped DEF Written
  <2> QED
    BY <2>1, <2>2, <2>3, <2>4, Kinds DEF HasParts
<1>2. S = Types
  <2>1. S \in SUBSET Types
    OBVIOUS
  <2> HIDE DEF S
  <2> QED
    BY <1>1, <2>1, TypeInduction
<1> QED
  BY <1>2

-----------------------------------------------------------------------------
(* The buffer *)

\* size_of is the number of bytes serialize appends, for every type and value: what
\* the reserve of the buffer, and the lengths passed to the server, rest on.
THEOREM SizeOfIsWritten ==
  ASSUME NEW T \in Types, NEW v \in Values[T]
  PROVE  Len(Serialized(T, v)) = SizeOf(T, v)
BY SizesWritten DEF Written, Length


Buffers == [bytes : Seq(Byte), capacity : Nat, reallocated : Nat]

LEMMA LargerOfTwo ==
  ASSUME NEW a \in Nat, NEW c \in Nat
  PROVE  /\ Max({a, c}) \in Nat /\ a <= Max({a, c}) /\ c <= Max({a, c})
         /\ c <= a => Max({a, c}) = a
<1>1. \E x \in {a, c} : \A y \in {a, c} : x >= y
  <2>1. CASE a >= c
    BY <2>1
  <2>2. CASE ~(a >= c)
    BY <2>2
  <2> QED
    BY <2>1, <2>2
<1>2. Max({a, c}) \in {a, c} /\ \A y \in {a, c} : Max({a, c}) >= y
  BY <1>1 DEF Max
<1> QED
  BY <1>2

LEMMA BufferTyped ==
  ASSUME NEW b \in Buffers
  PROVE  b.bytes \in Bytes /\ b.capacity \in Nat /\ b.reallocated \in Nat
BY DEF Buffers, Bytes

LEMMA AppendedIs ==
  ASSUME NEW b \in Buffers, NEW c \in Bytes, NEW e, e = Appended(b, c)
  PROVE  /\ e \in Buffers /\ e.bytes = b.bytes \o c
         /\ Length(b.bytes) + Length(c) <= b.capacity =>
              e.capacity = b.capacity /\ e.reallocated = b.reallocated
<1> DEFINE n == Len(b.bytes) + Len(c)
<1>1. c \in Seq(Byte) /\ b.bytes \in Seq(Byte) /\ b.capacity \in Nat /\ b.reallocated \in Nat
  BY BufferTyped DEF Bytes
<1>2. n \in Nat
  <2>1. Len(b.bytes) \in Nat /\ Len(c) \in Nat
    BY <1>1
  <2> QED
    BY <2>1
<1>3. e = [bytes |-> b.bytes \o c, capacity |-> Max({b.capacity, n}),
           reallocated |-> b.reallocated + IF n > b.capacity THEN 1 ELSE 0]
  BY DEF Appended
<1> HIDE DEF n
<1>4. Max({b.capacity, n}) \in Nat /\ (n <= b.capacity => Max({b.capacity, n}) = b.capacity)
  BY <1>1, <1>2, LargerOfTwo
<1>5. e.bytes = b.bytes \o c /\ e.bytes \in Seq(Byte)
  BY <1>1, <1>3
<1>6. e.capacity = Max({b.capacity, n}) /\ e.reallocated = b.reallocated + IF n > b.capacity THEN 1 ELSE 0
  BY <1>3
<1>7. e \in Buffers
  BY <1>1, <1>3, <1>4 DEF Buffers
<1>8. n <= b.capacity => e.capacity = b.capacity /\ e.reallocated = b.reallocated
  <2>1. n <= b.capacity => ~(n > b.capacity)
    BY <1>1, <1>2
  <2> QED
    BY <1>1, <1>4, <1>6, <2>1
<1> QED
  BY <1>5, <1>7, <1>8 DEF n, Length

LEMMA ClearedIs ==
  ASSUME NEW b \in Buffers, NEW size \in Nat
  PROVE  LET c == Cleared(b, size)
         IN  c \in Buffers /\ c.bytes = <<>> /\ size <= c.capacity
<1>1. Max({b.capacity, size}) \in Nat /\ size <= Max({b.capacity, size})
  BY BufferTyped, LargerOfTwo
<1>2. b.reallocated + (IF size > b.capacity THEN 1 ELSE 0) \in Nat /\ <<>> \in Seq(Byte)
  BY BufferTyped
<1> QED
  BY <1>1, <1>2 DEF Cleared, Buffers

\* ps is a query's parameters, as many as n.
ParamsAre(ps, n) ==
  /\ n \in Nat /\ DOMAIN ps = 1 .. n
  /\ \A i \in 1 .. n : ps[i].t \in Types /\ ps[i].v \in Values[ps[i].t]

\* s is the buffer and what is passed: each parameter's pointer is to what was
\* written of it, in the buffer as it is at the end.
Passed(ps, n, s) ==
  /\ s.buffer \in Buffers /\ Length(s.buffer.bytes) <= s.buffer.capacity
  /\ DOMAIN s.params = 1 .. n
  /\ Length(s.buffer.bytes) = SumOver([i \in 1 .. n |-> SizeOf(ps[i].t, ps[i].v)])
  /\ \A i \in 1 .. n :
       LET p == s.params[i]
       IN  /\ p.oid = OidOf(ps[i].t) /\ p.length = SizeOf(ps[i].t, ps[i].v)
           /\ p.pointer.in = s.buffer.reallocated
           /\ SubSeq(s.buffer.bytes, p.pointer.at + 1, p.pointer.at + p.length)
                = Serialized(ps[i].t, ps[i].v)

LEMMA SerializePasses ==
  ASSUME NEW b \in Buffers, NEW ps, NEW n, ParamsAre(ps, n)
  PROVE  Passed(ps, n, Serialize(b, ps)) /\ Len(ps) = n
<1> DEFINE ts == [i \in 1 .. n |-> Serialized(ps[i].t, ps[i].v)]
           sizes == [i \in 1 .. n |-> SizeOf(ps[i].t, ps[i].v)]
           start == Cleared(b, SumOver([i \in DOMAIN ps |-> SizeOf(ps[i].t, ps[i].v)]))
           Body(f) == [i \in 0 .. Len(ps) |->
             IF i = 0 THEN start ELSE Appended(f[i - 1], Serialized(ps[i].t, ps[i].v))]
           after == CHOOSE f : f = Body(f)
           G == [x \in Buffers \X (1 .. n) |-> Appended(x[1], ts[x[2]])]
<1>1. n \in Nat /\ DOMAIN ps = 1 .. n /\ 0 \in 0 .. n /\ n \in 0 .. n
      /\ \A i \in 1 .. n : i \in 0 .. n /\ i - 1 \in 0 .. n
  <2>1. n \in Nat /\ DOMAIN ps = 1 .. n
    BY DEF ParamsAre
  <2> QED
    BY <2>1
<1>2. Len(ps) = n
  BY <1>1
<1>3. \A i \in 1 .. n : Written(ps[i].t, ps[i].v)
  BY SizesWritten DEF ParamsAre
<1>4. /\ ts \in PartLists /\ Len(ts) = n /\ DOMAIN ts = 1 .. n
      /\ \A i \in 1 .. n : ts[i] \in Bytes /\ Length(ts[i]) = sizes[i] /\ ts[i] = Serialized(ps[i].t, ps[i].v)
  <2>1. ts \in [1 .. n -> Bytes] /\ \A i \in 1 .. n : Length(ts[i]) = sizes[i]
    BY <1>3 DEF Written
  <2>2. \A i \in 1 .. n : ts[i] = Serialized(ps[i].t, ps[i].v)
    OBVIOUS
  <2> HIDE DEF ts, sizes
  <2> QED
    BY <1>1, <2>1, <2>2, TableSeq DEF PartLists
<1>5. sizes \in Seq(Int) /\ DOMAIN sizes = 1 .. n
  <2>1. sizes \in [1 .. n -> Int]
    BY <1>3 DEF Written
  <2> HIDE DEF sizes
  <2> QED
    BY <1>1, <2>1, TableSeq
<1>6. [i \in DOMAIN ps |-> SizeOf(ps[i].t, ps[i].v)] = sizes
  BY <1>1
<1>7. Serialize(b, ps) = [buffer |-> after[n], params |-> [i \in DOMAIN ps |-> ParamAt(after[i - 1], ps[i])]]
  <2>1. Serialize(b, ps) =
          [buffer |-> after[Len(ps)], params |-> [i \in DOMAIN ps |-> ParamAt(after[i - 1], ps[i])]]
    BY DEF Serialize
  <2> HIDE DEF after
  <2> QED
    BY <1>2, <2>1
<1> HIDE DEF ts, sizes
<1>8. SumOver(sizes) = Length(Concatenated(ts)) /\ SumOver(sizes) \in Nat
  <2>1. \A i \in DOMAIN ts : sizes[i] = Length(ts[i])
    BY <1>4
  <2>2. SumOver(sizes) = Length(Concatenated(ts))
    BY <1>4, <1>5, <2>1, SumOfParts
  <2>3. Concatenated(ts) \in Bytes
    <3>1. <<>> \in Bytes
      BY DEF Bytes
    <3> QED
      BY <1>4, <3>1, Placement
  <2> QED
    BY <2>2, <2>3, LengthTyped
<1>9. start \in Buffers /\ start.bytes = <<>> /\ SumOver(sizes) <= start.capacity
  <2>1. start = Cleared(b, SumOver(sizes))
    BY <1>6
  <2> HIDE DEF start
  <2> QED
    BY <1>8, <2>1, ClearedIs
<1> HIDE DEF start
<1>10. G \in [Buffers \X (1 .. n) -> Buffers]
  <2>1. ASSUME NEW x \in Buffers, NEW i \in 1 .. n PROVE Appended(x, ts[i]) \in Buffers
    BY <1>4, AppendedIs
  <2> QED
    BY <2>1
<1>11. \A x \in Buffers : \A i \in 1 .. n : G[<<x, i>>] = Appended(x, ts[i])
  OBVIOUS
<1> HIDE DEF G
<1>12. \E f : f = Body(f)
  <2>1. PICK f \in [0 .. n -> Buffers] : Follows(f, n, start, G)
    BY <1>1, <1>9, <1>10, RecursiveFunction
  <2>2. f[0] = start /\ \A i \in 1 .. n : f[i] = Appended(f[i - 1], Serialized(ps[i].t, ps[i].v))
    <3>1. ASSUME NEW i \in 1 .. n PROVE f[i] = Appended(f[i - 1], Serialized(ps[i].t, ps[i].v))
      <4>1. f[i] = G[<<f[i - 1], i>>] /\ f[i - 1] \in Buffers
        BY <1>1, <2>1 DEF Follows
      <4> QED
        BY <1>4, <1>11, <4>1
    <3> QED
      BY <2>1, <3>1 DEF Follows
  <2>3. f = Body(f)
    BY <1>1, <1>2, <2>1, <2>2
  <2> QED
    BY <2>3
<1>13. after = Body(after)
  BY <1>12
<1> HIDE DEF after
<1>14. after[0] = start /\ \A i \in 1 .. n : after[i] = Appended(after[i - 1], ts[i])
  <2>1. after[0] = start /\ \A i \in 1 .. n : after[i] = Appended(after[i - 1], Serialized(ps[i].t, ps[i].v))
    BY <1>1, <1>2, <1>13
  <2> QED
    BY <1>4, <2>1
<1>15. \A i \in 0 .. n : after[i] \in Buffers
  <2>1. Steps(after, n, Buffers, start, G)
    BY <1>11, <1>14 DEF Steps
  <2> QED
    BY <1>1, <1>9, <1>10, <2>1, FollowsAll
<1>16. PICK F \in [0 .. n -> Bytes] :
         /\ F[0] = <<>> /\ \A i \in 1 .. n : F[i] = F[i - 1] \o ts[i]
         /\ Concatenated(ts) = F[n]
  <2>1. \E F \in [0 .. Len(ts) -> Bytes] :
           /\ F[0] = <<>> /\ \A i \in 1 .. Len(ts) : F[i] = F[i - 1] \o ts[i]
           /\ Concatenated(ts) = F[Len(ts)]
    BY <1>4, ConcatenatedFollows
  <2> QED
    BY <1>4, <2>1
<1>17. /\ <<>> \in Bytes /\ Length(<<>>) = 0 /\ <<>> \o Concatenated(ts) = Concatenated(ts)
       /\ Concatenated(ts) \in Bytes
  <2>1. <<>> \in Bytes /\ Length(<<>>) = 0
    BY DEF Bytes, Length
  <2>2. Concatenated(ts) \in Bytes
    BY <1>4, <2>1, Placement
  <2>3. Concatenated(ts) \in Seq(Byte)
    BY <2>2 DEF Bytes
  <2> QED
    BY <2>1, <2>2, <2>3, ConcatEmptySeq
<1>18. PICK P : Placed(Concatenated(ts), 0, ts, P)
  <2>1. \E P : Placed(<<>> \o Concatenated(ts), Length(<<>>), ts, P)
    BY <1>4, <1>17, Placement
  <2> QED
    BY <1>17, <2>1
<1> DEFINE b1 == Concatenated(ts)
           cap == start.capacity
<1>19. /\ P \in [0 .. n -> Nat] /\ P[0] = 0 /\ P[n] = Length(b1)
       /\ \A i \in 1 .. n :
            /\ P[i] = P[i - 1] + Length(ts[i]) /\ P[i] <= Length(b1)
            /\ SubSeq(b1, P[i - 1] + 1, P[i]) = ts[i]
  BY <1>4, <1>18 DEF Placed
<1> DEFINE Same(k) == /\ after[k].bytes = F[k] /\ Length(F[k]) = P[k]
                      /\ after[k].capacity = cap /\ after[k].reallocated = start.reallocated
           K == {k \in Nat : k <= n => Same(k)}
<1>20. 0 \in K
  BY <1>1, <1>9, <1>14, <1>16, <1>17, <1>19
<1>21. ASSUME NEW k \in K PROVE k + 1 \in K
  <2> SUFFICES ASSUME k + 1 <= n PROVE Same(k + 1)
    OBVIOUS
  <2> DEFINE i == k + 1
  <2>1. i \in 1 .. n /\ i - 1 = k /\ Same(k)
    BY <1>1
  <2> HIDE DEF i, b1, cap
  <2>2. /\ after[i] = Appended(after[k], ts[i]) /\ after[k] \in Buffers /\ ts[i] \in Bytes
        /\ F[i] = F[k] \o ts[i] /\ F[k] \in Bytes
    BY <1>1, <1>4, <1>14, <1>15, <1>16, <2>1
  <2>3. /\ P[i] = P[k] + Length(ts[i]) /\ P[i] <= Length(b1)
    BY <1>19, <2>1
  <2>4. Length(F[i]) = P[i]
    <3>1. Joins(F[i], F[k], ts[i])
      BY <2>2, Joined
    <3> QED
      BY <2>1, <2>3, <3>1 DEF Joins
  <2>5. Length(after[k].bytes) + Length(ts[i]) <= after[k].capacity
    <3>1. P[i] \in Nat /\ Length(b1) \in Nat /\ cap \in Nat /\ Length(b1) <= cap
      BY <1>1, <1>8, <1>9, <1>17, <1>19, <2>1, LengthTyped, BufferTyped DEF b1, cap
    <3> QED
      BY <2>1, <2>3, <3>1
  <2>6. /\ after[i].bytes = after[k].bytes \o ts[i]
        /\ after[i].capacity = after[k].capacity /\ after[i].reallocated = after[k].reallocated
    BY ZenonT(60), <2>2, <2>5, AppendedIs
  <2>7. Same(i)
    BY <2>1, <2>2, <2>4, <2>6
  <2> QED
    BY <2>7 DEF i
<1>22. K = Nat
  <2>1. K \in SUBSET Nat
    OBVIOUS
  <2> HIDE DEF K
  <2> QED
    BY <1>20, <1>21, <2>1, SetInduction
<1>23. ASSUME NEW i \in 0 .. n PROVE Same(i)
  <2>1. i \in K /\ i <= n
    <3> HIDE DEF K
    <3> QED
      BY <1>1, <1>22
  <2> HIDE DEF Same
  <2> QED
    BY <2>1
<1> HIDE DEF K
<1> DEFINE s == Serialize(b, ps)
<1>24. s.buffer = after[n] /\ DOMAIN s.params = 1 .. n /\ \A i \in 1 .. n : s.params[i] = ParamAt(after[i - 1], ps[i])
  BY <1>1, <1>7
<1> HIDE DEF s
<1>25. /\ s.buffer \in Buffers /\ s.buffer.bytes = b1 /\ s.buffer.reallocated = start.reallocated
       /\ s.buffer.capacity = cap
  BY <1>1, <1>15, <1>16, <1>23, <1>24
<1>26. Length(s.buffer.bytes) <= s.buffer.capacity /\ Length(s.buffer.bytes) = SumOver(sizes)
  BY <1>8, <1>9, <1>25
<1>27. ASSUME NEW i \in 1 .. n
       PROVE  LET p == s.params[i]
              IN  /\ p.oid = OidOf(ps[i].t) /\ p.length = SizeOf(ps[i].t, ps[i].v)
                  /\ p.pointer.in = s.buffer.reallocated
                  /\ SubSeq(s.buffer.bytes, p.pointer.at + 1, p.pointer.at + p.length)
                       = Serialized(ps[i].t, ps[i].v)
  <2> DEFINE p == s.params[i]
  <2>1. p = [oid |-> OidOf(ps[i].t), length |-> SizeOf(ps[i].t, ps[i].v),
             pointer |-> [at |-> Len(after[i - 1].bytes), in |-> after[i - 1].reallocated]]
    BY <1>24 DEF ParamAt
  <2>2. p.oid = OidOf(ps[i].t) /\ p.length = SizeOf(ps[i].t, ps[i].v)
        /\ p.pointer.at = Length(after[i - 1].bytes) /\ p.pointer.in = after[i - 1].reallocated
    BY <2>1 DEF Length
  <2> HIDE DEF p
  <2>3. Length(after[i - 1].bytes) = P[i - 1] /\ after[i - 1].reallocated = start.reallocated
    BY <1>1, <1>23
  <2>4. P[i] = P[i - 1] + Length(ts[i]) /\ SubSeq(b1, P[i - 1] + 1, P[i]) = ts[i]
    BY <1>19
  <2>5. Length(ts[i]) = SizeOf(ps[i].t, ps[i].v) /\ ts[i] = Serialized(ps[i].t, ps[i].v)
    BY <1>3, <1>4 DEF Written
  <2>6. p.pointer.at + 1 = P[i - 1] + 1 /\ p.pointer.at + p.length = P[i]
    BY <2>2, <2>3, <2>4, <2>5
  <2>7. SubSeq(s.buffer.bytes, p.pointer.at + 1, p.pointer.at + p.length) = Serialized(ps[i].t, ps[i].v)
    BY <1>25, <2>4, <2>5, <2>6
  <2> QED
    BY <1>25, <2>2, <2>3, <2>7 DEF p
<1>28. sizes = [i \in 1 .. n |-> SizeOf(ps[i].t, ps[i].v)]
  BY DEF sizes
<1>29. Passed(ps, n, s)
  BY <1>24, <1>25, <1>26, <1>27, <1>28 DEF Passed
<1> QED
  BY <1>2, <1>29 DEF s

-----------------------------------------------------------------------------
(* Microseconds *)

LEMMA QuotientIs ==
  ASSUME NEW a \in Int, NEW R \in Nat \ {0}, NEW q \in Int, NEW r \in Int, 0 <= r, r < R, a = q * R + r
  PROVE  a \div R = q
<1> DEFINE p == a \div R
           m == a % R
<1>1. p \in Int /\ m \in Int /\ 0 <= m /\ m < R /\ p * R + m = a
  OBVIOUS
<1> HIDE DEF p, m
<1>2. ASSUME NEW x \in Int, NEW y \in Int, x > y PROVE x * R >= y * R + R
  <2> DEFINE d == x - y - 1
  <2>1. d \in Nat /\ x = y + 1 + d
    BY <1>2
  <2> HIDE DEF d
  <2>2. d * R >= 0
    BY <2>1
  <2>3. x * R = y * R + R + d * R
    BY <2>1
  <2>4. x * R \in Int /\ y * R \in Int /\ d * R \in Int /\ R \in Int
    BY <2>1
  <2> QED
    BY <2>2, <2>3, <2>4
<1>3. q * R \in Int /\ p * R \in Int
  BY <1>1
<1>4. ~(p > q)
  <2> SUFFICES ASSUME p > q PROVE FALSE
    OBVIOUS
  <2>1. p * R >= q * R + R
    BY <1>1, <1>2
  <2> QED
    BY <1>1, <1>3, <2>1
<1>5. ~(q > p)
  <2> SUFFICES ASSUME q > p PROVE FALSE
    OBVIOUS
  <2>1. q * R >= p * R + R
    BY <1>1, <1>2
  <2> QED
    BY <1>1, <1>3, <2>1
<1>6. p = q
  BY <1>1, <1>4, <1>5
<1> QED
  BY <1>6 DEF p

\* What is written of a time is its microsecond.
LEMMA MicrosecondIs ==
  ASSUME NEW t \in Int
  PROVE  Microsecond(t) = Quotient(t, TickRatio) - EpochShift
<1> DEFINE R == TickRatio
           E == EpochShift
           q == t \div R
           r == t % R
           Right(m) == IF t >= 0 THEN (m + E) * R \in t - R + 1 .. t ELSE (m + E) * R \in t .. t + R - 1
<1>1. R \in Nat \ {0} /\ E \in Nat
  BY ValuesAssumption
<1> HIDE DEF R, E
<1>2. q \in Int /\ r \in Int /\ 0 <= r /\ r < R /\ t = q * R + r
  BY <1>1
<1> HIDE DEF q, r
<1>3. /\ ((q - E) + E) * R = t - r
      /\ ((q + 1 - E) + E) * R = t - r + R
  <2>1. (q - E) + E = q /\ (q + 1 - E) + E = q + 1
    BY <1>1, <1>2
  <2>2. (q + 1) * R = q * R + R /\ q * R \in Int
    BY <1>1, <1>2
  <2>3. q * R = t - r
    BY <1>2, <2>2
  <2> QED
    BY <1>1, <1>2, <2>1, <2>2, <2>3
<1>4. Microsecond(t) = CHOOSE m \in {q - E, q + 1 - E} : Right(m)
  BY DEF Microsecond, q, R, E
<1>5. Quotient(t, TickRatio) = IF t >= 0 THEN q ELSE -((-t) \div R)
  BY DEF Quotient, q, R
<1>6. Right(q - E) <=> t >= 0 \/ r = 0
  BY <1>1, <1>2, <1>3
<1>7. Right(q + 1 - E) <=> ~(t >= 0) /\ r # 0
  BY <1>1, <1>2, <1>3
<1> HIDE DEF Right
<1>8. CASE t >= 0
  <2>1. Microsecond(t) = q - E
    BY <1>4, <1>6, <1>7, <1>8
  <2> QED
    BY <1>5, <1>8, <2>1 DEF E
<1>9. CASE ~(t >= 0) /\ r = 0
  <2>1. Microsecond(t) = q - E
    BY <1>4, <1>6, <1>7, <1>9
  <2>2. -t = (-q) * R + 0
    <3>1. (-q) * R = -(q * R) /\ q * R \in Int
      BY <1>1, <1>2
    <3> QED
      BY <1>2, <1>9, <3>1
  <2>3. (-t) \div R = -q
    <3>1. -t \in Int /\ -q \in Int /\ 0 \in Int /\ 0 <= 0 /\ 0 < R
      BY <1>1, <1>2
    <3> QED
      BY <1>1, <2>2, <3>1, QuotientIs
  <2>4. -(-q) = q
    BY <1>2
  <2> QED
    BY <1>5, <1>9, <2>1, <2>3, <2>4 DEF E
<1>10. CASE ~(t >= 0) /\ r # 0
  <2>1. Microsecond(t) = q + 1 - E
    BY <1>4, <1>6, <1>7, <1>10
  <2> DEFINE p == -q - 1
             s == R - r
  <2>2. -t = p * R + s
    <3>1. p * R = -(q * R) - R /\ q * R \in Int
      BY <1>1, <1>2
    <3> HIDE DEF p
    <3> QED
      BY <1>1, <1>2, <3>1
  <2>3. -t \in Int /\ p \in Int /\ s \in Int /\ 0 <= s /\ s < R
    BY <1>1, <1>2, <1>10
  <2>4. -p = q + 1
    BY <1>2
  <2> HIDE DEF p, s
  <2>5. (-t) \div R = p
    BY <1>1, <2>2, <2>3, QuotientIs
  <2> QED
    <3>1. q + 1 - E = (-p) - E
      BY <1>1, <1>2, <2>3, <2>4
    <3>2. Quotient(t, TickRatio) = -p
      BY <1>5, <1>10, <2>5
    <3> QED
      BY <2>1, <3>1, <3>2 DEF E
<1> QED
  BY <1>8, <1>9, <1>10

-----------------------------------------------------------------------------
(* Where a reader finds what was written *)

LEMMA HeadWord ==
  ASSUME NEW b \in Bytes, NEW head \in Bytes, Length(head) = 8, NEW p \in Nat, p + 8 <= Length(b),
         Cut(b, p, p + 8) = head, NEW oid, WordAt(head, 0, oid)
  PROVE  WordAt(b, p, oid)
<1>1. 0 + 4 = 4 /\ p + 0 = p /\ 0 \in Nat /\ 4 \in Nat /\ 0 <= 4 /\ 4 <= Length(head)
  OBVIOUS
<1>2. p + 8 = p + Length(head)
  OBVIOUS
<1>3. Cut(b, p + 0, p + 4) = Cut(head, 0, 4)
  BY <1>1, <1>2, CutOfCut
<1> QED
  BY <1>1, <1>3 DEF WordAt

\* What follows the header of b, the parts of heads and bodies, and begins with it.
Encodes(b, hd, h, n, heads, bodies) ==
  /\ b \in Bytes /\ Length(hd) <= Length(b)
  /\ Laid(b, Offsets(b, Length(hd), h, n), h, n, heads, bodies)
  /\ \A p \in Nat : \A x : p + 4 <= Length(hd) /\ WordAt(hd, p, x) => WordAt(b, p, x)

LEMMA Encoded ==
  ASSUME NEW hd \in Bytes, NEW ts \in PartLists, NEW b, b = hd \o Concatenated(ts),
         NEW h \in {4, 8}, NEW heads, NEW bodies, NEW oids,
         \A i \in 1 .. Len(ts) : PartIs(ts[i], h, heads[i], oids[i], bodies[i])
  PROVE  Encodes(b, hd, h, Len(ts), heads, bodies)
<1>1. Framed(ts, h, heads, bodies)
  BY DEF Framed, PartIs
<1>2. /\ b \in Bytes /\ Laid(b, Offsets(b, Length(hd), h, Len(ts)), h, Len(ts), heads, bodies)
      /\ StartsWith(b, hd)
  <2>1. hd \in Bytes /\ ts \in PartLists /\ b = hd \o Concatenated(ts) /\ h \in {4, 8}
    OBVIOUS
  <2> QED
    BY ONLY <1>1, <2>1, PartsPlaced
<1>3. Length(hd) <= Length(b)
  <2>1. Concatenated(ts) \in Bytes
    BY Placement
  <2>2. Joins(b, hd, Concatenated(ts))
    BY <2>1, Joined
  <2>3. Length(hd) \in Nat /\ Length(Concatenated(ts)) \in Nat
    BY <2>1, LengthTyped
  <2> QED
    BY <2>2, <2>3 DEF Joins
<1>4. ASSUME NEW p \in Nat, NEW x, p + 4 <= Length(hd), WordAt(hd, p, x) PROVE WordAt(b, p, x)
  <2>1. p + 4 \in Nat /\ p <= p + 4
    OBVIOUS
  <2>2. Cut(b, p, p + 4) = Cut(hd, p, p + 4)
    BY <1>2, <1>4, <2>1 DEF StartsWith
  <2> QED
    BY <1>4, <2>2 DEF WordAt
<1> QED
  BY <1>2, <1>3, <1>4 DEF Encodes

\* Each part of b, and its Oid.
LEMMA PartAt ==
  ASSUME NEW b, NEW hd, NEW h \in {4, 8}, NEW n, NEW heads, NEW bodies, Encodes(b, hd, h, n, heads, bodies),
         NEW i \in 1 .. n, NEW t, NEW oid, PartIs(t, h, heads[i], oid, bodies[i])
  PROVE  LET p == Offsets(b, Length(hd), h, n)[i - 1]
         IN  HasPart(b, p, h, bodies[i]) /\ (h = 8 => WordAt(b, p, oid))
<1> DEFINE p == Offsets(b, Length(hd), h, n)[i - 1]
<1>1. b \in Bytes /\ HasPart(b, p, h, bodies[i]) /\ Cut(b, p, p + h) = heads[i]
  BY DEF Encodes, Laid
<1> HIDE DEF p
<1>2. p \in Nat /\ p + h + Length(bodies[i]) <= Length(b)
  BY <1>1 DEF HasPart
<1>3. heads[i] \in Bytes /\ Length(heads[i]) = h /\ bodies[i] \in Bytes /\ (h = 8 => WordAt(heads[i], 0, oid))
  BY DEF PartIs, IsPart
<1>4. ASSUME h = 8 PROVE WordAt(b, p, oid)
  <2>1. p + 8 <= Length(b)
    <3>1. Length(bodies[i]) \in Nat /\ Length(b) \in Nat
      BY <1>1, <1>3, LengthTyped
    <3> QED
      BY <1>2, <1>4, <3>1
  <2> QED
    BY <1>1, <1>2, <1>3, <1>4, <2>1, HeadWord
<1> QED
  BY <1>1, <1>4 DEF p

\* The bytes of a value with parts.
LEMMA ValueEncoded ==
  ASSUME NEW T \in Types, HasParts(T), NEW v \in Values[T], NEW n, PartsAre(T, v, n)
  PROVE  LET heads == [i \in 1 .. n |-> PartHead(T, v, i)]
             bodies == [i \in 1 .. n |-> Serialized(PartType(T, i), v[i])]
         IN  /\ Encodes(Serialized(T, v), HeaderOf(T, v), HeadSize(T), n, heads, bodies)
             /\ \A i \in 1 .. n : PartIs(PartsWritten(T, v)[i], HeadSize(T), heads[i],
                                         OidOf(PartType(T, i)), bodies[i])
<1> DEFINE heads == [i \in 1 .. n |-> PartHead(T, v, i)]
           bodies == [i \in 1 .. n |-> Serialized(PartType(T, i), v[i])]
           oids == [i \in 1 .. n |-> OidOf(PartType(T, i))]
           ts == PartsWritten(T, v)
           b == Serialized(T, v)
<1>1. ASSUME NEW i \in 1 .. n PROVE Written(PartType(T, i), v[i])
  BY SizesWritten DEF PartsAre
<1>2. ASSUME NEW i \in 1 .. n
      PROVE PartIs(ts[i], HeadSize(T), heads[i], OidOf(PartType(T, i)), bodies[i])
  BY <1>1, PartFramed
<1>3. ts \in PartLists /\ Len(ts) = n
  BY <1>1, PartsListed
<1>4. HeaderOf(T, v) \in Bytes /\ b = HeaderOf(T, v) \o Concatenated(ts)
  BY HeaderWritten, WriteKinds
<1>5. HeadSize(T) \in {4, 8}
  BY DEF HeadSize
<1>6. \A i \in 1 .. n : oids[i] = OidOf(PartType(T, i))
  OBVIOUS
<1> HIDE DEF heads, bodies, oids, ts, b
<1>7. \A i \in 1 .. Len(ts) : PartIs(ts[i], HeadSize(T), heads[i], oids[i], bodies[i])
  BY <1>2, <1>3, <1>6
<1>8. Encodes(b, HeaderOf(T, v), HeadSize(T), n, heads, bodies)
  BY <1>3, <1>4, <1>5, <1>7, Encoded
<1> QED
  BY <1>2, <1>8 DEF heads, bodies, ts, b

-----------------------------------------------------------------------------
(* The server *)

LEMMA AllOfValues ==
  ASSUME NEW n \in Nat, NEW ds, DOMAIN ds = 1 .. n, NEW x, DOMAIN x = 1 .. n,
         \A i \in 1 .. n : ds[i] = Val(x[i])
  PROVE  AllOf(ds) = Val([i \in 1 .. n |-> x[i]])
<1>1. \A i \in DOMAIN ds : ds[i].st = "value" /\ ds[i].val = x[i]
  BY DEF Val
<1>2. AllOf(ds) = Val([i \in DOMAIN ds |-> ds[i].val])
  BY <1>1 DEF AllOf
<1>3. [i \in DOMAIN ds |-> ds[i].val] = [i \in 1 .. n |-> x[i]]
  BY <1>1
<1> QED
  BY <1>2, <1>3

LEMMA PartReceivedIs ==
  ASSUME NEW b \in Bytes, NEW p, NEW body \in Bytes, HasPart(b, p, 4, body), NEW receive
  PROVE  PartReceived(b, p, receive) = receive[body]
<1> DEFINE size == FromBigEndian(SubSeq(b, p + 1, p + 4))
<1>1. /\ p \in Nat /\ p + 4 + Length(body) <= Length(b)
      /\ FromBigEndian(Cut(b, p + 4 - 4, p + 4)) = Length(body)
      /\ Cut(b, p + 4, p + 4 + Length(body)) = body
  BY DEF HasPart
<1>2. Length(body) \in Nat /\ Length(b) \in Nat /\ Len(b) = Length(b)
  BY LengthTyped DEF Length
<1>3. size = Length(body)
  <2>1. p + 4 - 4 = p
    BY <1>1
  <2> QED
    BY <1>1, <2>1 DEF Cut
<1>4. SubSeq(b, p + 5, p + 4 + Length(body)) = body
  <2>1. (p + 4) + 1 = p + 5
    BY <1>1
  <2> QED
    BY <1>1, <2>1 DEF Cut
<1>5. p \in 0 .. Len(b) - 4 /\ ~(Length(body) < 0) /\ ~(p + 4 + Length(body) > Len(b))
  BY <1>1, <1>2
<1>6. PartReceived(b, p, receive) =
        IF p \notin 0 .. Len(b) - 4 THEN Throws
        ELSE IF size < 0 \/ p + 4 + size > Len(b) THEN Throws
        ELSE receive[SubSeq(b, p + 5, p + 4 + size)]
  BY DEF PartReceived
<1> HIDE DEF size
<1>7. PartReceived(b, p, receive) = receive[SubSeq(b, p + 5, p + 4 + Length(body))]
  BY <1>3, <1>5, <1>6
<1> QED
  BY <1>4, <1>7

LEMMA MemberReceivedIs ==
  ASSUME NEW b \in Bytes, NEW p, NEW body \in Bytes, HasPart(b, p, 8, body), NEW U,
         WordAt(b, p, OidOf(U)), NEW receive
  PROVE  MemberReceived(b, p, U, receive) = receive[body]
<1>1. /\ p \in Nat /\ p + 8 + Length(body) <= Length(b)
      /\ FromBigEndian(Cut(b, p + 8 - 4, p + 8)) = Length(body)
      /\ Cut(b, p + 8, p + 8 + Length(body)) = body
  BY DEF HasPart
<1>2. Length(body) \in Nat /\ Length(b) \in Nat /\ Len(b) = Length(b)
  BY LengthTyped DEF Length
<1>3. HasPart(b, p + 4, 4, body)
  <2>1. p + 8 - 4 = (p + 4) + 4 - 4 /\ p + 8 = (p + 4) + 4 /\ p + 4 \in Nat
    BY <1>1
  <2>2. (p + 4) + 4 + Length(body) <= Length(b)
    BY <1>1, <1>2
  <2> DEFINE q == p + 4
  <2>3. q \in Nat /\ p + 8 - 4 = q + 4 - 4 /\ p + 8 = q + 4
    BY <2>1
  <2>4. q + 4 + Length(body) <= Length(b)
    BY <2>2
  <2> HIDE DEF q
  <2>5. HasPart(b, q, 4, body)
    BY <1>1, <2>3, <2>4 DEF HasPart
  <2> QED
    BY <2>5 DEF q
<1>4. FromBigEndian(SubSeq(b, p + 1, p + 4)) = OidOf(U)
  BY DEF WordAt, Cut
<1>5. p \in 0 .. Len(b) - 4
  BY <1>1, <1>2
<1>6. PartReceived(b, p + 4, receive) = receive[body]
  BY <1>3, PartReceivedIs
<1> QED
  BY <1>4, <1>5, <1>6 DEF MemberReceived

\* The receive functions of each kind of type.
LEMMA ReceiveKinds ==
  ASSUME NEW S \in Types, NEW b \in Bytes
  PROVE  /\ IsString(S) => Received(S, b) = Val(b)
         /\ S.k = "tuple" => Received(S, b) = Throws
         /\ S.k = "time" /\ Len(b) = 8 => Received(S, b) = Val(FromBigEndian(b))
         /\ IsNumber(S) /\ Len(b) = Width[S.k] => Received(S, b) = Val(FromBigEndian(b))
<1> DEFINE receive == [i \in DOMAIN S.of |-> Receives[S.of[i]]]
           IntAt(n) == FromBigEndian(SubSeq(b, n + 1, n + 4))
           members ==
             IF Len(b) < 4 \/ IntAt(0) # Len(S.of) THEN Throws
             ELSE LET at == Offsets(b, 4, 8, Len(S.of))
                  IN  Exactly(b, [i \in DOMAIN S.of |-> MemberReceived(b, at[i - 1], S.of[i], receive[i])],
                              at[Len(S.of)])
           items ==
             IF Len(b) >= 20 /\ IntAt(0) = 1 /\ IntAt(4) \in {0, 1} /\ IntAt(8) = OidOf(S.of[1])
                /\ IntAt(12) \in 0 .. Len(b)
             THEN LET at == Offsets(b, 20, 4, IntAt(12))
                  IN  Exactly(b, [i \in 1 .. IntAt(12) |-> PartReceived(b, at[i - 1], receive[1])],
                              at[IntAt(12)])
             ELSE Throws
<1>1. Receives[S] = ReceiveWith(S, receive) /\ b \in Seq(Byte)
  BY ReceivesUnfold DEF Bytes
<1>2. Received(S, b) =
        CASE S.k \in {"text", "byte"} -> Val(b)
          [] S.k = "tuple" -> Throws
          [] S.k = "udt" -> members
          [] S.k = "array" -> items
          [] OTHER -> IF Len(b) = (IF S.k = "time" THEN 8 ELSE Width[S.k]) THEN Val(FromBigEndian(b)) ELSE Throws
  BY <1>1 DEF Received, ReceiveWith
<1> HIDE DEF members, items
<1>3. (IsString(S) => Received(S, b) = Val(b)) /\ (S.k = "tuple" => Received(S, b) = Throws)
  BY <1>2 DEF IsString
<1>4. S.k = "time" /\ Len(b) = 8 => Received(S, b) = Val(FromBigEndian(b))
  BY <1>2
<1>5. IsNumber(S) /\ Len(b) = Width[S.k] => Received(S, b) = Val(FromBigEndian(b))
  <2>1. IsNumber(S) => S.k \notin {"text", "byte", "time", "array", "tuple", "udt"}
    BY Widths DEF IsScalar, IsNumber
  <2> QED
    BY <1>2, <2>1
<1> QED
  BY <1>3, <1>4, <1>5

LEMMA ReceiveMembers ==
  ASSUME NEW S \in Types, S.k = "udt", NEW b \in Bytes, 4 <= Length(b), WordAt(b, 0, Len(S.of))
  PROVE  LET at == Offsets(b, 4, 8, Len(S.of))
         IN  Received(S, b) =
               Exactly(b, [i \in DOMAIN S.of |-> MemberReceived(b, at[i - 1], S.of[i], Receives[S.of[i]])],
                       at[Len(S.of)])
<1> DEFINE receive == [i \in DOMAIN S.of |-> Receives[S.of[i]]]
           at == Offsets(b, 4, 8, Len(S.of))
<1>1. Receives[S] = ReceiveWith(S, receive) /\ b \in Seq(Byte)
  BY ReceivesUnfold DEF Bytes
<1>2. ~(Len(b) < 4) /\ FromBigEndian(SubSeq(b, 0 + 1, 0 + 4)) = Len(S.of)
  <2>1. FromBigEndian(SubSeq(b, 0 + 1, 0 + 4)) = Len(S.of)
    BY DEF WordAt, Cut
  <2>2. Len(b) = Length(b) /\ Length(b) \in Nat
    BY LengthTyped DEF Length
  <2> QED
    BY <2>1, <2>2
<1>3. [i \in DOMAIN S.of |-> MemberReceived(b, at[i - 1], S.of[i], receive[i])]
        = [i \in DOMAIN S.of |-> MemberReceived(b, at[i - 1], S.of[i], Receives[S.of[i]])]
  OBVIOUS
<1> DEFINE rs == [i \in DOMAIN S.of |-> MemberReceived(b, at[i - 1], S.of[i], receive[i])]
<1>4. Received(S, b) = IF Len(b) < 4 \/ FromBigEndian(SubSeq(b, 0 + 1, 0 + 4)) # Len(S.of) THEN Throws
                       ELSE Exactly(b, rs, at[Len(S.of)])
  BY <1>1 DEF Received, ReceiveWith
<1>5. Received(S, b) = Exactly(b, rs, at[Len(S.of)])
  <2> HIDE DEF rs, at
  <2> QED
    BY <1>2, <1>4
<1> QED
  BY <1>3, <1>5

LEMMA ReceiveItems ==
  ASSUME NEW S \in Types, S.k = "array", NEW b \in Bytes, 20 <= Length(b), NEW n \in 0 .. Length(b),
         WordAt(b, 0, 1), WordAt(b, 4, 0), WordAt(b, 8, OidOf(S.of[1])), WordAt(b, 12, n)
  PROVE  LET at == Offsets(b, 20, 4, n)
         IN  Received(S, b) =
               Exactly(b, [i \in 1 .. n |-> PartReceived(b, at[i - 1], Receives[S.of[1]])], at[n])
<1> DEFINE receive == [i \in DOMAIN S.of |-> Receives[S.of[i]]]
           IntAt(m) == FromBigEndian(SubSeq(b, m + 1, m + 4))
           Items(m) == LET at == Offsets(b, 20, 4, m)
                       IN  Exactly(b, [i \in 1 .. m |-> PartReceived(b, at[i - 1], receive[1])], at[m])
<1>1. Receives[S] = ReceiveWith(S, receive) /\ b \in Seq(Byte)
  BY ReceivesUnfold DEF Bytes
<1>2. /\ IntAt(0) = 1 /\ IntAt(4) = 0 /\ IntAt(8) = OidOf(S.of[1]) /\ IntAt(12) = n
  BY DEF WordAt, Cut
<1>3. Len(b) >= 20 /\ n \in 0 .. Len(b)
  <2>1. Len(b) = Length(b) /\ Length(b) \in Nat
    BY LengthTyped DEF Length
  <2> QED
    BY <2>1
<1>4. receive[1] = Receives[S.of[1]]
  BY Kinds
<1>5. Received(S, b) =
        IF Len(b) >= 20 /\ IntAt(0) = 1 /\ IntAt(4) \in {0, 1} /\ IntAt(8) = OidOf(S.of[1])
           /\ IntAt(12) \in 0 .. Len(b)
        THEN Items(IntAt(12)) ELSE Throws
  BY <1>1 DEF Received, ReceiveWith
<1> HIDE DEF receive
<1>6. Items(n) = LET at == Offsets(b, 20, 4, n)
                 IN  Exactly(b, [i \in 1 .. n |-> PartReceived(b, at[i - 1], Receives[S.of[1]])], at[n])
  BY <1>4
<1> HIDE DEF Items, IntAt
<1>7. Received(S, b) = Items(n)
  BY <1>2, <1>3, <1>5
<1> QED
  BY <1>6, <1>7

LEMMA StoreKinds ==
  ASSUME NEW T \in Types, NEW v \in Values[T]
  PROVE  /\ T.k = "time" => Stored(T, v) = Microsecond(v)
         /\ T.k = "text" \/ IsNumber(T) => Stored(T, v) = v
         /\ T.k = "byte" => Stored(T, v) = <<v % 256>>
         /\ HasParts(T) => Stored(T, v) = [i \in DOMAIN v |-> Stored(PartType(T, i), v[i])]
<1> DEFINE store == [i \in DOMAIN T.of |-> Stores[T.of[i]]]
<1>1. Stores[T] = StoreWith(T, store)
  BY StoresUnfold
<1>2. \A i \in DOMAIN T.of : store[i] = Stores[T.of[i]]
  OBVIOUS
<1> HIDE DEF store
<1>3. Stored(T, v) =
        CASE T.k = "time" -> Microsecond(v)
          [] T.k = "array" -> [i \in DOMAIN v |-> store[1][v[i]]]
          [] IsComposite(T) -> [i \in DOMAIN v |-> store[i][v[i]]]
          [] T.k = "byte" -> <<v % 256>>
          [] OTHER -> v
  BY <1>1 DEF Stored, StoreWith
<1>4. T.k = "time" => Stored(T, v) = Microsecond(v)
  BY <1>3 DEF IsComposite
<1>5. /\ T.k = "text" \/ IsNumber(T) => Stored(T, v) = v
      /\ T.k = "byte" => Stored(T, v) = <<v % 256>>
  <2>1. IsNumber(T) => T.k \notin {"text", "byte", "time", "array", "tuple", "udt"}
    BY Widths DEF IsScalar, IsNumber
  <2> QED
    BY <1>3, <2>1 DEF IsComposite
<1>6. CASE T.k = "array"
  <2>1. 1 \in DOMAIN T.of
    BY <1>6, Kinds
  <2>2. [i \in DOMAIN v |-> store[1][v[i]]] = [i \in DOMAIN v |-> Stored(PartType(T, i), v[i])]
    BY <1>2, <1>6, <2>1 DEF Stored, PartType
  <2>3. Stored(T, v) = [i \in DOMAIN v |-> store[1][v[i]]]
    BY <1>3, <1>6 DEF IsComposite
  <2> QED
    BY <1>4, <1>5, <2>2, <2>3
<1>7. CASE IsComposite(T)
  <2>1. DOMAIN v = DOMAIN T.of /\ T.k \notin {"text", "byte", "time", "array"}
    BY <1>7, ValueTyped DEF IsComposite
  <2>2. [i \in DOMAIN v |-> store[i][v[i]]] = [i \in DOMAIN v |-> Stored(PartType(T, i), v[i])]
    BY <1>2, <2>1 DEF Stored, PartType
  <2>3. Stored(T, v) = [i \in DOMAIN v |-> store[i][v[i]]]
    BY <1>3, <1>7, <2>1
  <2> QED
    BY <1>4, <1>5, <2>2, <2>3
<1> QED
  BY <1>4, <1>5, <1>6, <1>7 DEF HasParts

LEMMA ExactlyValues ==
  ASSUME NEW b \in Bytes, NEW n \in Nat, NEW rs, DOMAIN rs = 1 .. n, NEW x, DOMAIN x = 1 .. n,
         \A i \in 1 .. n : rs[i] = Val(x[i]), NEW end, end = Length(b)
  PROVE  Exactly(b, rs, end) = Val([i \in 1 .. n |-> x[i]])
<1>1. AllOf(rs) = Val([i \in 1 .. n |-> x[i]])
  BY AllOfValues
<1>2. AllOf(rs).st = "value"
  BY <1>1 DEF Val
<1> QED
  BY <1>1, <1>2 DEF Exactly, Length

\* The words of the header.
LEMMA HeaderWords ==
  ASSUME NEW T \in Types, HasParts(T), NEW v \in Values[T], NEW n, PartsAre(T, v, n)
  PROVE  LET hd == HeaderOf(T, v)
         IN  /\ T.k = "array" => /\ WordAt(hd, 0, 1) /\ WordAt(hd, 4, 0)
                                 /\ WordAt(hd, 8, OidOf(T.of[1])) /\ WordAt(hd, 12, n)
             /\ IsComposite(T) => WordAt(hd, 0, n)
<1>1. CASE T.k = "array"
  <2>1. FitsIn(1, 4) /\ FitsIn(0, 4)
    BY SmallFits
  <2>2. FitsIn(Len(v), 4) /\ n = Len(v)
    BY <1>1, ValueTyped DEF PartsAre
  <2>3. FitsIn(OidOf(T.of[1]), 4)
    BY <1>1, Kinds, OidsTyped
  <2> DEFINE b == Header(1, 0, OidOf(T.of[1]), Len(v), 0)
  <2>4. WordAt(b, 0, 1) /\ WordAt(b, 4, 0) /\ WordAt(b, 8, OidOf(T.of[1])) /\ WordAt(b, 12, Len(v))
    BY <2>1, <2>2, <2>3, HeaderRead
  <2> HIDE DEF b
  <2>5. HeaderOf(T, v) = b /\ ~IsComposite(T)
    BY <1>1 DEF HeaderOf, b, IsComposite
  <2> QED
    BY <2>2, <2>4, <2>5
<1>2. CASE T.k # "array"
  <2>1. FitsIn(n, 4) /\ n = Len(T.of)
    BY <1>2, Kinds DEF PartsAre, HasParts
  <2>2. HeaderOf(T, v) = Word(n)
    BY <1>2, <2>1 DEF HeaderOf
  <2>3. FromBigEndian(Word(n)) = n /\ Cut(Word(n), 0, 4) = Word(n)
    BY <2>1, WordRead, WordCut
  <2>4. 0 + 4 = 4
    OBVIOUS
  <2> QED
    BY <1>2, <2>2, <2>3, <2>4 DEF WordAt
<1> QED
  BY <1>1, <1>2

\* The server, reading strictly what serialize_impl writes of a value of any type it
\* has an input for, however it nests, makes the value of it that was meant.
THEOREM ServerReceives ==
  ASSUME NEW T \in Catalog, ~Anonymous(T), NEW v \in Values[T]
  PROVE  Received(T, Serialized(T, v)) = Val(Stored(T, v))
<1> DEFINE Good(U) == U \in Catalog /\ ~Anonymous(U) =>
                        \A w \in Values[U] : Received(U, Serialized(U, w)) = Val(Stored(U, w))
           S == {U \in Types : Good(U)}
<1>1. ASSUME NEW U \in Types, \A i \in DOMAIN U.of : U.of[i] \in S PROVE U \in S
  <2> SUFFICES ASSUME U \in Catalog, ~Anonymous(U), NEW w \in Values[U]
               PROVE  Received(U, Serialized(U, w)) = Val(Stored(U, w))
    OBVIOUS
  <2> DEFINE b == Serialized(U, w)
  <2>0. b \in Bytes /\ Len(b) = SizeOf(U, w)
    BY SizesWritten DEF Written, Length
  <2>1. CASE U.k = "text"
    BY <2>0, <2>1, ReceiveKinds, WriteKinds, StoreKinds DEF IsString
  <2>2. CASE U.k = "time"
    <3> DEFINE x == Quotient(w, TickRatio) - EpochShift
    <3>1. w \in Int /\ FitsIn(x, 8)
      BY <2>2, ValueTyped
    <3>2. Stored(U, w) = x
      BY <2>2, <3>1, StoreKinds, MicrosecondIs
    <3>3. b = BigEndian(x, 8) /\ Len(b) = 8
      BY <2>0, <2>2, WriteKinds, SizeOfKinds
    <3> HIDE DEF x, b
    <3>4. FromBigEndian(b) = x
      <4>1. 8 \in Nat /\ 8 # 0
        OBVIOUS
      <4> QED
        BY <3>1, <3>3, <4>1, RoundTrip
    <3>5. Received(U, b) = Val(FromBigEndian(b))
      BY <2>0, <2>2, <3>3, ReceiveKinds
    <3> QED
      BY <3>2, <3>4, <3>5 DEF b
  <2>5. CASE U.k = "byte"
    <3>1. FitsIn(w, 1) /\ IsScalar(U) /\ Width[U.k] = 1
      BY <2>5, ValueTyped, ByteWidth DEF IsScalar
    <3>2. b = BigEndian(w, 1) /\ Stored(U, w) = <<w % 256>>
      BY <2>5, <3>1, WriteKinds, StoreKinds
    <3>3. b = <<w % 256>>
      BY <3>1, <3>2, OneByte DEF FitsIn
    <3>4. Received(U, b) = Val(b)
      BY <2>0, <2>5, ReceiveKinds DEF IsString
    <3> QED
      BY <3>2, <3>3, <3>4
  <2>3. CASE IsNumber(U)
    <3>1. FitsIn(w, Width[U.k]) /\ Width[U.k] \in Nat /\ Width[U.k] # 0
      BY <2>3, ValueTyped, Widths DEF IsScalar, IsNumber
    <3>2. b = BigEndian(w, Width[U.k]) /\ Len(b) = Width[U.k] /\ Stored(U, w) = w
      BY <2>0, <2>3, WriteKinds, SizeOfKinds, StoreKinds DEF IsNumber
    <3> HIDE DEF b
    <3>3. FromBigEndian(b) = w
      BY <3>1, <3>2, RoundTrip
    <3>4. Received(U, b) = Val(FromBigEndian(b))
      BY <2>0, <2>3, <3>2, ReceiveKinds
    <3> QED
      BY <3>2, <3>3, <3>4 DEF b
  <2>4. CASE HasParts(U)
    <3> DEFINE hd == HeaderOf(U, w)
    <3>1. PICK n : PartsAre(U, w, n)
      BY <2>4, ValueParts
    <3> DEFINE heads == [i \in 1 .. n |-> PartHead(U, w, i)]
               bodies == [i \in 1 .. n |-> Serialized(PartType(U, i), w[i])]
               x == [i \in 1 .. n |-> Stored(PartType(U, i), w[i])]
               at == Offsets(b, Length(hd), HeadSize(U), n)
    <3>2. /\ Encodes(b, hd, HeadSize(U), n, heads, bodies)
          /\ \A i \in 1 .. n : PartIs(PartsWritten(U, w)[i], HeadSize(U), heads[i],
                                      OidOf(PartType(U, i)), bodies[i])
      BY <2>4, <3>1, ValueEncoded
    <3>3. n \in Nat /\ DOMAIN w = 1 .. n /\ \A i \in 1 .. n : PartType(U, i) \in Types /\ w[i] \in Values[PartType(U, i)]
      BY <3>1 DEF PartsAre
    <3>4. ASSUME NEW i \in 1 .. n, PartType(U, i) \in Catalog, ~Anonymous(PartType(U, i))
          PROVE Received(PartType(U, i), bodies[i]) = Val(x[i])
      <4>1. PartType(U, i) \in S
        BY <1>1, <3>1 DEF PartsAre
      <4> QED
        BY <3>3, <3>4, <4>1
    <3>5. Stored(U, w) = [i \in 1 .. n |-> x[i]] /\ DOMAIN x = 1 .. n
      <4>1. Stored(U, w) = [i \in DOMAIN w |-> Stored(PartType(U, i), w[i])]
        BY <2>4, StoreKinds
      <4> QED
        BY <3>3, <4>1
    <3>6. \A i \in 1 .. n : bodies[i] \in Bytes
      BY <3>2 DEF PartIs
    <3>7. HeadSize(U) \in {4, 8}
      BY DEF HeadSize
    <3> HIDE DEF S, Good, b, hd, heads, bodies, x
    <3>8. ASSUME NEW i \in 1 .. n
          PROVE HasPart(b, at[i - 1], HeadSize(U), bodies[i])
                /\ (HeadSize(U) = 8 => WordAt(b, at[i - 1], OidOf(PartType(U, i))))
      BY <3>2, <3>7, PartAt
    <3>9. /\ at[n] = Length(b) /\ n <= Length(b) /\ Length(hd) <= Length(b)
          /\ \A p \in Nat : \A y : p + 4 <= Length(hd) /\ WordAt(hd, p, y) => WordAt(b, p, y)
      BY <3>2 DEF Encodes, Laid
    <3>10. CASE U.k = "array"
      <4>1. Length(hd) = 20 /\ HeadSize(U) = 4
        BY <2>4, <3>10, HeaderWritten DEF hd, HeadSize
      <4>2. WordAt(hd, 0, 1) /\ WordAt(hd, 4, 0) /\ WordAt(hd, 8, OidOf(U.of[1])) /\ WordAt(hd, 12, n)
        BY <2>4, <3>1, <3>10, HeaderWords DEF hd
      <4>3. WordAt(b, 0, 1) /\ WordAt(b, 4, 0) /\ WordAt(b, 8, OidOf(U.of[1])) /\ WordAt(b, 12, n)
        BY <3>9, <4>1, <4>2
      <4> DEFINE at4 == Offsets(b, 20, 4, n)
                 rs == [i \in 1 .. n |-> PartReceived(b, at4[i - 1], Receives[U.of[1]])]
      <4>4. Received(U, b) = Exactly(b, rs, at4[n])
        <5>1. n \in 0 .. Length(b) /\ 20 <= Length(b)
          BY <2>0, <3>3, <3>9, <4>1, LengthTyped DEF b
        <5> QED
          BY <2>0, <3>10, <4>3, <5>1, ReceiveItems DEF b
      <4>5. ASSUME NEW i \in 1 .. n PROVE rs[i] = Val(x[i])
        <5>1. PartType(U, i) = U.of[1] /\ U.of[1] \in Catalog /\ ~Anonymous(U.of[1])
          <6>1. 1 \in DOMAIN U.of /\ U.of[1].k # "array" /\ U.of[1].k # "tuple"
            BY <3>10, Kinds DEF Anonymous
          <6> QED
            BY <3>10, <6>1, CatalogAssumption DEF Anonymous, PartType
        <5>2. rs[i] = Receives[U.of[1]][bodies[i]]
          <6>1. HasPart(b, at4[i - 1], 4, bodies[i])
            BY <3>8, <4>1
          <6> QED
            BY <2>0, <3>6, <6>1, PartReceivedIs DEF b
        <5> QED
          BY <3>4, <5>1, <5>2 DEF Received
      <4>6. at4[n] = Length(b) /\ DOMAIN rs = 1 .. n
        BY <3>9, <4>1
      <4> HIDE DEF rs, at4
      <4>7. Exactly(b, rs, at4[n]) = Val([i \in 1 .. n |-> x[i]])
        BY <2>0, <3>3, <3>5, <4>5, <4>6, ExactlyValues DEF b
      <4> QED
        BY <3>5, <4>4, <4>7 DEF b
    <3>11. CASE U.k # "array"
      <4>1. U.k = "udt" /\ IsComposite(U)
        BY <2>4, <3>11 DEF HasParts, IsComposite, Anonymous
      <4>2. Length(hd) = 4 /\ HeadSize(U) = 8 /\ n = Len(U.of) /\ DOMAIN U.of = 1 .. n
        BY <2>4, <3>1, <3>11, <4>1, HeaderWritten DEF hd, HeadSize, PartsAre
      <4>3. WordAt(b, 0, n)
        <5>1. WordAt(hd, 0, n)
          BY <2>4, <3>1, <4>1, HeaderWords DEF hd
        <5>2. 0 + 4 <= Length(hd)
          BY <4>2
        <5> QED
          BY <3>9, <5>1, <5>2
      <4> DEFINE at8 == Offsets(b, 4, 8, n)
                 rs == [i \in 1 .. n |-> MemberReceived(b, at8[i - 1], U.of[i], Receives[U.of[i]])]
      <4>4. Received(U, b) = Exactly(b, rs, at8[n])
        <5>1. 4 <= Length(b) /\ WordAt(b, 0, Len(U.of))
          BY <3>9, <4>2, <4>3
        <5>2. LET a == Offsets(b, 4, 8, Len(U.of))
              IN  Received(U, b) =
                    Exactly(b, [i \in DOMAIN U.of |-> MemberReceived(b, a[i - 1], U.of[i], Receives[U.of[i]])],
                            a[Len(U.of)])
          BY <2>0, <4>1, <5>1, ReceiveMembers DEF b
        <5> QED
          BY <4>2, <5>2
      <4>5. ASSUME NEW i \in 1 .. n PROVE rs[i] = Val(x[i])
        <5>1. PartType(U, i) = U.of[i] /\ U.of[i] \in Catalog /\ ~Anonymous(U.of[i])
          BY <3>11, <4>1, <4>2, CatalogAssumption DEF PartType
        <5>2. rs[i] = Receives[U.of[i]][bodies[i]]
          <6>1. HasPart(b, at8[i - 1], 8, bodies[i]) /\ WordAt(b, at8[i - 1], OidOf(U.of[i]))
            BY <3>8, <4>2, <5>1
          <6> QED
            BY <2>0, <3>6, <6>1, MemberReceivedIs DEF b
        <5> QED
          BY <3>4, <5>1, <5>2 DEF Received
      <4>6. at8[n] = Length(b) /\ DOMAIN rs = 1 .. n
        BY <3>9, <4>2
      <4> HIDE DEF rs, at8
      <4>7. Exactly(b, rs, at8[n]) = Val([i \in 1 .. n |-> x[i]])
        BY <2>0, <3>3, <3>5, <4>5, <4>6, ExactlyValues DEF b
      <4> QED
        BY <3>5, <4>4, <4>7 DEF b
    <3> QED
      BY <3>10, <3>11
  <2> QED
    BY <2>1, <2>2, <2>3, <2>4, <2>5, Kinds DEF HasParts, IsNumber
<1>2. S = Types
  <2>1. S \in SUBSET Types
    OBVIOUS
  <2> HIDE DEF S
  <2> QED
    BY <1>1, <2>1, TypeInduction
<1>3. T \in Types
  BY CatalogAssumption
<1> QED
  BY <1>2, <1>3

-----------------------------------------------------------------------------
(* The types the server takes the parameters for *)

LEMMA TypeFound ==
  ASSUME NEW T \in Catalog
  PROVE  /\ KnowsOid(OidOf(T))
         /\ TypeOfOid(OidOf(T)) \in Catalog /\ OidOf(TypeOfOid(OidOf(T))) = OidOf(T)
         /\ ~Anonymous(T) => TypeOfOid(OidOf(T)) = T
<1> DEFINE S == TypeOfOid(OidOf(T))
<1>1. S \in Catalog /\ OidOf(S) = OidOf(T)
  BY DEF TypeOfOid
<1>2. ~Anonymous(T) => S = T
  BY <1>1, CatalogAssumption
<1> QED
  BY <1>1, <1>2 DEF KnowsOid

LEMMA SameOid ==
  ASSUME NEW T \in Types, Anonymous(T), NEW S \in Types, OidOf(S) = OidOf(T)
  PROVE  SameKind(T, S)
<1>1. Told(T) /\ ExpectedOid(T) = OidOf(T)
  BY DEF Anonymous, Told, ExpectedOid, OidOf
<1>2. OidsAgree(ExpectedOid(T), OidOf(S))
  BY <1>1 DEF OidsAgree
<1> QED
  BY <1>1, <1>2, OidsTell

\* Of an anonymous composite's array the server has no use, unless it is empty.
LEMMA AnonymousReceived ==
  ASSUME NEW T \in Types, Anonymous(T), NEW v \in Values[T], NEW S \in Types, OidOf(S) = OidOf(T),
         Received(S, Serialized(T, v)).st = "value"
  PROVE  Received(S, Serialized(T, v)).val \in Data[S]
<1> DEFINE b == Serialized(T, v)
<1>1. SameKind(T, S)
  BY SameOid
<1>2. b \in Bytes
  BY SizesWritten DEF Written
<1>3. CASE T.k = "tuple"
  <2>1. Received(S, b) = Throws
    BY <1>1, <1>2, <1>3, ReceiveKinds DEF SameKind
  <2> QED
    BY <2>1 DEF Throws
<1>4. CASE T.k # "tuple"
  <2>1. T.k = "array" /\ T.of[1].k = "tuple" /\ S.k = "array" /\ S.of[1].k = "tuple" /\ S.of[1] \in Types
    BY <1>1, <1>4, Kinds DEF Anonymous, SameKind
  <2>2. OidOf(T.of[1]) = OidOf(S.of[1]) /\ HasParts(T)
    BY <2>1 DEF OidOf, HasParts
  <2>3. PICK n : PartsAre(T, v, n)
    BY <2>2, ValueParts
  <2> DEFINE hd == HeaderOf(T, v)
             heads == [i \in 1 .. n |-> PartHead(T, v, i)]
             bodies == [i \in 1 .. n |-> Serialized(PartType(T, i), v[i])]
  <2>4. /\ Encodes(b, hd, HeadSize(T), n, heads, bodies)
        /\ \A i \in 1 .. n : PartIs(PartsWritten(T, v)[i], HeadSize(T), heads[i],
                                    OidOf(PartType(T, i)), bodies[i])
    BY <2>2, <2>3, ValueEncoded
  <2>5. Length(hd) = 20 /\ HeadSize(T) = 4 /\ n \in Nat
    BY <2>1, <2>2, <2>3, HeaderWritten DEF HeadSize, PartsAre
  <2>6. WordAt(hd, 0, 1) /\ WordAt(hd, 4, 0) /\ WordAt(hd, 8, OidOf(T.of[1])) /\ WordAt(hd, 12, n)
    BY <2>1, <2>2, <2>3, HeaderWords
  <2>7. \A i \in 1 .. n : bodies[i] \in Bytes
    BY <2>4 DEF PartIs
  <2> HIDE DEF b, hd, heads, bodies
  <2> DEFINE at == Offsets(b, 20, 4, n)
             rs == [i \in 1 .. n |-> PartReceived(b, at[i - 1], Receives[S.of[1]])]
  <2>8. /\ n <= Length(b) /\ Length(hd) <= Length(b)
        /\ \A p \in Nat : \A y : p + 4 <= Length(hd) /\ WordAt(hd, p, y) => WordAt(b, p, y)
    BY <2>4 DEF Encodes, Laid
  <2>9. WordAt(b, 0, 1) /\ WordAt(b, 4, 0) /\ WordAt(b, 8, OidOf(S.of[1])) /\ WordAt(b, 12, n)
    BY <2>2, <2>5, <2>6, <2>8
  <2>10. Received(S, b) = Exactly(b, rs, at[n])
    <3>1. n \in 0 .. Length(b) /\ 20 <= Length(b)
      BY <1>2, <2>5, <2>8, LengthTyped DEF b
    <3> QED
      BY <1>2, <2>1, <2>9, <3>1, ReceiveItems DEF b
  <2>11. ASSUME NEW i \in 1 .. n PROVE rs[i] = Throws
    <3>1. HasPart(b, at[i - 1], 4, bodies[i])
      BY <2>4, <2>5, PartAt
    <3>2. rs[i] = Received(S.of[1], bodies[i])
      BY <1>2, <2>7, <3>1, PartReceivedIs DEF Received, b
    <3> QED
      BY <2>1, <2>7, <3>2, ReceiveKinds
  <2>12. DOMAIN rs = 1 .. n
    OBVIOUS
  <2> HIDE DEF rs, at
  <2>13. CASE n = 0
    <3>1. ~(\E i \in 1 .. n : TRUE)
      BY <2>13
    <3>2. AllOf(rs) = Val([i \in DOMAIN rs |-> rs[i].val])
      BY <2>12, <3>1 DEF AllOf
    <3>3. [i \in DOMAIN rs |-> rs[i].val] = <<>>
      BY <2>12, <2>13
    <3>4. Received(S, b).val \in {<<>>}
      <4>1. Received(S, b).st = "value"
        BY DEF b
      <4>2. Received(S, b) = Throws \/ Received(S, b) = AllOf(rs)
        BY <2>10 DEF Exactly
      <4> QED
        BY <3>2, <3>3, <4>1, <4>2 DEF Throws, Val
    <3>5. <<>> \in Data[S]
      BY <2>1, DataAssumption
    <3> QED
      BY <3>4, <3>5 DEF b
  <2>14. CASE n # 0
    <3>1. 1 \in 1 .. n /\ rs # <<>>
      <4>1. 1 \in 1 .. n
        BY <2>5, <2>14
      <4>2. 1 \in DOMAIN rs /\ 1 \notin DOMAIN <<>>
        BY <2>12, <4>1
      <4> QED
        BY <4>1, <4>2
    <3>2. rs[1].st # "value" /\ \A i \in DOMAIN rs : rs[i].st = "throw"
      BY <2>11, <2>12, <3>1 DEF Throws
    <3>3. AllOf(rs).st = "throw"
      <4> DEFINE First(i) == (\A j \in 1 .. i - 1 : rs[j].st = "value") /\ rs[i].st # "value"
                 first == CHOOSE i \in DOMAIN rs : First(i)
      <4>1. AllOf(rs) = [st |-> rs[first].st, val |-> <<>>]
        BY <2>12, <3>1, <3>2 DEF AllOf
      <4>2. First(1)
        BY <3>2
      <4>3. first \in DOMAIN rs
        <5> HIDE DEF First
        <5> QED
          BY <2>12, <3>1, <4>2
      <4> HIDE DEF first
      <4> QED
        BY <3>2, <4>1, <4>3
    <3>4. Received(S, b) = Throws
      BY <2>10, <3>3 DEF Exactly
    <3> QED
      BY <3>4 DEF Throws, b
  <2> QED
    BY <2>13, <2>14
<1> QED
  BY <1>3, <1>4

\* Whatever the server makes of a parameter, it is a value it can have.
LEMMA ReceivedTyped ==
  ASSUME NEW T \in Types, NEW v \in Values[T], ~Anonymous(T) => T \in Catalog,
         KnowsOid(OidOf(T)), Received(TypeOfOid(OidOf(T)), Serialized(T, v)).st = "value"
  PROVE  /\ TypeOfOid(OidOf(T)) \in Types
         /\ Received(TypeOfOid(OidOf(T)), Serialized(T, v)).val \in Data[TypeOfOid(OidOf(T))]
<1> DEFINE S == TypeOfOid(OidOf(T))
<1>1. S \in Types /\ OidOf(S) = OidOf(T)
  BY CatalogAssumption DEF KnowsOid, TypeOfOid
<1>2. CASE Anonymous(T)
  BY <1>1, <1>2, AnonymousReceived
<1>3. CASE ~Anonymous(T)
  <2>1. S = T
    BY <1>3, TypeFound
  <2>2. Received(T, Serialized(T, v)) = Val(Stored(T, v))
    BY <1>3, ServerReceives
  <2>3. Stored(T, v) \in Data[T]
    BY DataAssumption
  <2> QED
    BY <1>1, <2>1, <2>2, <2>3 DEF Val
<1> QED
  BY <1>2, <1>3

-----------------------------------------------------------------------------
(* The states of the program *)

\* A query on its way: what the server was given is what the program meant.
Transferred ==
  stage = "sent" =>
    /\ meant \in Seq(DOMAIN Samples) /\ Len(meant) < SizeRange /\ DOMAIN sent = DOMAIN meant
    /\ Length(buffer.bytes) = SumOver([i \in DOMAIN sent |-> sent[i].length])
    /\ \A i \in DOMAIN sent :
         LET p == Samples[meant[i]]
         IN  /\ sent[i].oid = OidOf(p.t) /\ sent[i].length = SizeOf(p.t, p.v)
             /\ BytesOf(sent[i]) = Serialized(p.t, p.v)

BufferHolds == buffer \in Buffers /\ Length(buffer.bytes) <= buffer.capacity

CodeTells ==
  \/ state = <<>> /\ code = 0
  \/ state \in SqlStates /\ code = Strtol36(state)

NothingRead == stage # "read" => got.how = "none"

Ind ==
  /\ stage \in {"idle", "sent", "answered", "read"} /\ oid_map \subseteq DOMAIN UdtOids
  /\ BufferHolds /\ PointersValid /\ Transferred /\ IsAnswer(answer) /\ CodeTells /\ NothingRead

LEMMA SampleTyped ==
  ASSUME NEW i \in DOMAIN Samples
  PROVE  LET p == Samples[i]
         IN  p.t \in Types /\ p.v \in Values[p.t] /\ (~Anonymous(p.t) => p.t \in Catalog)
BY ProgramAssumption

LEMMA StartInd == Init => Ind
<1> SUFFICES ASSUME Init PROVE Ind
  OBVIOUS
<1> USE DEF Init
<1>1. stage \in {"idle", "sent", "answered", "read"} /\ oid_map \subseteq DOMAIN UdtOids
  OBVIOUS
<1>2. BufferHolds
  BY DEF BufferHolds, Buffers, Length
<1>3. PointersValid /\ Transferred /\ CodeTells /\ NothingRead
  BY DEF PointersValid, Transferred, CodeTells, NothingRead, NoRead
<1>4. IsAnswer(NoTable)
  BY DEF IsAnswer, NoTable, SizeRange
<1> QED
  BY <1>1, <1>2, <1>3, <1>4 DEF Ind

LEMMA LearnTypesInd == Ind /\ LearnTypes => Ind'
<1> SUFFICES ASSUME Ind, LearnTypes PROVE Ind'
  OBVIOUS
<1> QED
  BY DEF Ind, LearnTypes, BufferHolds, PointersValid, Transferred, IsAnswer, CodeTells, NothingRead, BytesOf

LEMMA NoTableIsAnswer == IsAnswer(NoTable)
BY DEF IsAnswer, NoTable, SizeRange

LEMMA PushQueryInd == ASSUME NEW is \in Queries PROVE Ind /\ PushQuery(is) => Ind'
<1> SUFFICES ASSUME Ind, PushQuery(is) PROVE Ind'
  OBVIOUS
<1> DEFINE ps == [i \in DOMAIN is |-> Samples[is[i]]]
           n == Len(is)
           s == Serialize(buffer, ps)
           throws == \E i \in DOMAIN ps : ~(AsksFor(ps[i].t, ps[i].v) \subseteq oid_map)
<1>1. /\ answer' = NoTable /\ code' = 0 /\ state' = <<>> /\ got' = NoRead /\ oid_map' = oid_map
      /\ \/ throws /\ stage' = "idle" /\ sent' = <<>> /\ meant' = <<>> /\ buffer' = buffer
         \/ ~throws /\ stage' = "sent" /\ buffer' = s.buffer /\ sent' = s.params /\ meant' = is
  BY DEF PushQuery
<1> HIDE DEF throws
<1>2. IsAnswer(answer)' /\ CodeTells' /\ NothingRead' /\ oid_map' \subseteq DOMAIN UdtOids
  BY <1>1, NoTableIsAnswer DEF Ind, CodeTells, NothingRead, NoRead
<1>3. CASE throws
  BY <1>1, <1>2, <1>3 DEF Ind, BufferHolds, PointersValid, Transferred
<1>4. CASE ~throws
  <2>1. is \in Seq(DOMAIN Samples) /\ n < SizeRange /\ n \in Nat /\ DOMAIN is = 1 .. n
    BY ProgramAssumption
  <2>2. ParamsAre(ps, n)
    BY <2>1, SampleTyped DEF ParamsAre
  <2>3. \A i \in 1 .. n : ps[i] = Samples[is[i]]
    BY <2>1
  <2> HIDE DEF ps, n
  <2>4. Passed(ps, n, s)
    BY <2>2, SerializePasses DEF Ind, BufferHolds
  <2> HIDE DEF s
  <2>5. BufferHolds'
    BY <1>1, <1>4, <2>4 DEF Passed, BufferHolds
  <2>6. DOMAIN sent' = 1 .. n /\ meant' = is /\ buffer' = s.buffer /\ sent' = s.params /\ stage' = "sent"
    BY <1>1, <1>4, <2>4 DEF Passed
  <2>7. ASSUME NEW i \in 1 .. n
        PROVE  /\ sent'[i].oid = OidOf(Samples[is[i]].t)
               /\ sent'[i].length = SizeOf(Samples[is[i]].t, Samples[is[i]].v)
               /\ sent'[i].length = SizeOf(ps[i].t, ps[i].v)
               /\ sent'[i].pointer.in = buffer'.reallocated
               /\ SubSeq(buffer'.bytes, sent'[i].pointer.at + 1, sent'[i].pointer.at + sent'[i].length)
                    = Serialized(Samples[is[i]].t, Samples[is[i]].v)
    BY <2>3, <2>4, <2>6 DEF Passed
  <2>8. PointersValid'
    BY <2>6, <2>7 DEF PointersValid
  <2>9. Transferred'
    <3>1. [i \in 1 .. n |-> SizeOf(ps[i].t, ps[i].v)] = [i \in DOMAIN sent' |-> sent'[i].length]
      BY <2>6, <2>7
    <3>2. Length(buffer'.bytes) = SumOver([i \in DOMAIN sent' |-> sent'[i].length])
      BY <2>4, <2>6, <3>1 DEF Passed
    <3>3. ASSUME NEW i \in DOMAIN sent'
          PROVE  LET p == Samples[meant'[i]]
                 IN  /\ sent'[i].oid = OidOf(p.t) /\ sent'[i].length = SizeOf(p.t, p.v)
                     /\ BytesOf(sent[i])' = Serialized(p.t, p.v)
      BY <2>6, <2>7 DEF BytesOf
    <3> QED
      BY <2>1, <2>6, <3>2, <3>3 DEF Transferred, n
  <2> QED
    BY <1>2, <2>5, <2>6, <2>8, <2>9 DEF Ind
<1> QED
  BY <1>3, <1>4

LEMMA ServerEchoesInd == Ind /\ ServerEchoes => Ind'
<1> SUFFICES ASSUME Ind, ServerEchoes PROVE Ind'
  OBVIOUS
<1> DEFINE n == Len(meant)
           types == [i \in DOMAIN sent |-> TypeOfOid(sent[i].oid)]
           row == [i \in DOMAIN sent |-> ServerReads(sent[i]).val]
           names == [i \in DOMAIN sent |-> "column"]
           table == [names |-> names, types |-> types, rows |-> <<row>>]
<1>1. /\ answer' = table /\ stage' = "answered" /\ stage = "sent"
      /\ \A i \in DOMAIN sent : ServerReads(sent[i]).st = "value"
      /\ UNCHANGED <<oid_map, buffer, sent, meant, code, state, got>>
  BY DEF ServerEchoes
<1>2. /\ meant \in Seq(DOMAIN Samples) /\ n < SizeRange /\ DOMAIN sent = 1 .. n /\ n \in Nat
      /\ \A i \in 1 .. n :
           LET p == Samples[meant[i]]
           IN  sent[i].oid = OidOf(p.t) /\ BytesOf(sent[i]) = Serialized(p.t, p.v) /\ meant[i] \in DOMAIN Samples
  BY <1>1 DEF Ind, Transferred
<1>3. ASSUME NEW i \in 1 .. n
      PROVE  types[i] \in Types /\ row[i] \in Data[types[i]]
  <2> DEFINE p == Samples[meant[i]]
             d == ServerReads(sent[i])
  <2>1. p.t \in Types /\ p.v \in Values[p.t] /\ (~Anonymous(p.t) => p.t \in Catalog)
    BY <1>2, SampleTyped
  <2>2. d.st = "value" /\ sent[i].oid = OidOf(p.t) /\ BytesOf(sent[i]) = Serialized(p.t, p.v)
    BY <1>1, <1>2
  <2>3. KnowsOid(OidOf(p.t)) /\ d = Received(TypeOfOid(OidOf(p.t)), Serialized(p.t, p.v))
    BY <2>2 DEF ServerReads, Throws
  <2>4. types[i] = TypeOfOid(OidOf(p.t)) /\ row[i] = d.val
    BY <1>2, <2>2
  <2> HIDE DEF p, d
  <2> QED
    BY <2>1, <2>2, <2>3, <2>4, ReceivedTyped
<1>4. DOMAIN types = 1 .. n /\ DOMAIN row = 1 .. n /\ DOMAIN names = 1 .. n /\ \A c \in 1 .. n : names[c] = "column"
  BY <1>2
<1>5. table.names = names /\ table.types = types /\ table.rows = <<row>>
  OBVIOUS
<1> HIDE DEF types, row, names, table
<1>6. types \in Seq(Types) /\ Len(types) = n
  <2>1. types \in [1 .. n -> Types]
    <3>1. types = [i \in 1 .. n |-> types[i]]
      BY <1>2 DEF types
    <3> QED
      BY <1>3, <3>1
  <2> QED
    BY <1>2, <2>1, TableSeq
<1>7. /\ Len(<<row>>) = 1 /\ DOMAIN <<row>> = 1 .. 1 /\ \A r \in DOMAIN <<row>> : <<row>>[r] = row
      /\ 1 \in 0 .. SizeRange - 1
  BY DEF SizeRange
<1>8. IsAnswer(table)
  BY <1>2, <1>3, <1>4, <1>5, <1>6, <1>7 DEF IsAnswer
<1>9. BufferHolds' /\ PointersValid' /\ Transferred' /\ CodeTells' /\ NothingRead'
  BY <1>1 DEF Ind, BufferHolds, PointersValid, Transferred, CodeTells, NothingRead
<1> QED
  BY <1>1, <1>8, <1>9 DEF Ind

LEMMA ServerAnswersInd == Ind /\ ServerAnswers => Ind'
<1> SUFFICES ASSUME Ind, ServerAnswers PROVE Ind'
  OBVIOUS
<1>1. /\ \E i \in DOMAIN Tables : answer' = Tables[i]
      /\ stage = "sent" /\ stage' = "answered" /\ UNCHANGED <<oid_map, buffer, sent, meant, code, state, got>>
  BY DEF ServerAnswers
<1>2. IsAnswer(answer')
  BY <1>1, ProgramAssumption
<1>3. BufferHolds' /\ PointersValid' /\ Transferred' /\ CodeTells' /\ NothingRead'
  BY <1>1 DEF Ind, BufferHolds, PointersValid, Transferred, CodeTells, NothingRead
<1> QED
  BY <1>1, <1>2, <1>3 DEF Ind

LEMMA ServerFailsInd == Ind /\ ServerFails => Ind'
<1> SUFFICES ASSUME Ind, ServerFails PROVE Ind'
  OBVIOUS
<1>1. /\ \E s \in SqlStates : state' = s /\ code' = Strtol36(s)
      /\ stage' = "read" /\ UNCHANGED <<oid_map, buffer, sent, meant, answer, got>>
  BY DEF ServerFails
<1>2. BufferHolds' /\ PointersValid' /\ Transferred' /\ CodeTells' /\ NothingRead' /\ IsAnswer(answer)'
  BY <1>1 DEF Ind, BufferHolds, PointersValid, Transferred, CodeTells, NothingRead
<1> QED
  BY <1>1, <1>2 DEF Ind

LEMMA ReadInd == Ind /\ Read => Ind'
<1> SUFFICES ASSUME Ind, Read PROVE Ind'
  OBVIOUS
<1>1. stage' = "read" /\ UNCHANGED <<oid_map, buffer, sent, meant, answer, code, state>>
  BY DEF Read
<1>2. BufferHolds' /\ PointersValid' /\ Transferred' /\ CodeTells' /\ NothingRead' /\ IsAnswer(answer)'
  BY <1>1 DEF Ind, BufferHolds, PointersValid, Transferred, CodeTells, NothingRead
<1> QED
  BY <1>1, <1>2 DEF Ind

LEMMA StutterInd == Ind /\ UNCHANGED vars => Ind'
<1> SUFFICES ASSUME Ind, UNCHANGED vars PROVE Ind'
  OBVIOUS
<1>1. UNCHANGED <<oid_map, buffer, sent, meant, answer, code, state, got, stage>>
  BY DEF vars
<1>2. BufferHolds' /\ PointersValid' /\ CodeTells' /\ NothingRead' /\ IsAnswer(answer)'
  BY <1>1 DEF Ind, BufferHolds, PointersValid, CodeTells, NothingRead
<1>3. Transferred'
  BY <1>1 DEF Ind, Transferred, BytesOf
<1> QED
  BY <1>1, <1>2, <1>3 DEF Ind

\* The inductive invariant: the buffer, what was passed of it, the answer, the code.
THEOREM Invariance == Spec => []Ind
<1>1. Ind /\ [Next]_vars => Ind'
  BY LearnTypesInd, PushQueryInd, ServerEchoesInd, ServerAnswersInd, ServerFailsInd, ReadInd, StutterInd
     DEF Next
<1> QED
  BY <1>1, StartInd, PTL DEF Spec

LEMMA IndTypeOK == Ind => TypeOK
<1> SUFFICES ASSUME Ind PROVE TypeOK
  OBVIOUS
<1>1. code \in Nat
  <2>1. CASE code = 0
    BY <2>1
  <2>2. CASE state \in SqlStates /\ code = Strtol36(state)
    <3>1. state \in SqlDigits /\ \E i \in 1 .. 5 : state[i] # 0
      BY <2>2, ProgramAssumption DEF SqlDigits
    <3> QED
      BY <2>2, <3>1, SqlStateTold
  <2> QED
    BY <2>1, <2>2 DEF Ind, CodeTells
<1> QED
  BY <1>1 DEF Ind, TypeOK, BufferHolds, Transferred, Length

\* The variables have their types, and the sizes of what is in the buffer add up.
THEOREM TypeCorrect == Spec => []TypeOK
BY Invariance, IndTypeOK, PTL

\* No append of serialize moves the buffer a pointer was already taken of.
THEOREM PointersAreValid == Spec => []PointersValid
<1>1. Ind => PointersValid
  BY DEF Ind
<1> QED
  BY <1>1, Invariance, PTL

LEMMA IndServerUnderstands == Ind => ServerUnderstands
<1> SUFFICES ASSUME Ind, stage = "sent", NEW i \in DOMAIN sent, ~Anonymous(Samples[meant[i]].t)
             PROVE  LET p == Samples[meant[i]]
                        d == ServerReads(sent[i])
                    IN  d.st = "value" /\ d.val = Stored(p.t, p.v)
  BY DEF ServerUnderstands
<1> DEFINE p == Samples[meant[i]]
<1>1. /\ meant[i] \in DOMAIN Samples /\ sent[i].oid = OidOf(p.t)
      /\ BytesOf(sent[i]) = Serialized(p.t, p.v)
  BY DEF Ind, Transferred
<1>2. p.t \in Types /\ p.v \in Values[p.t] /\ p.t \in Catalog
  BY <1>1, SampleTyped
<1>3. KnowsOid(sent[i].oid) /\ TypeOfOid(sent[i].oid) = p.t
  BY <1>1, <1>2, TypeFound
<1>4. ServerReads(sent[i]) = Received(p.t, Serialized(p.t, p.v))
  BY <1>1, <1>3 DEF ServerReads
<1>5. Received(p.t, Serialized(p.t, p.v)) = Val(Stored(p.t, p.v))
  BY <1>2, ServerReceives
<1> QED
  BY <1>4, <1>5 DEF Val

\* What PQsendQueryParams gets of each parameter, the server reads as the value.
THEOREM ServerUnderstandsAll == Spec => []ServerUnderstands
BY Invariance, IndServerUnderstands, PTL

LEMMA IndSqlStateKept == Ind => SqlStateKept
<1> SUFFICES ASSUME Ind, state # <<>> PROVE SqlStateKept
  BY DEF SqlStateKept
<1>1. state \in SqlStates /\ code = Strtol36(state)
  BY DEF Ind, CodeTells
<1>2. state \in SqlDigits /\ \E i \in 1 .. 5 : state[i] # 0
  BY <1>1, ProgramAssumption DEF SqlDigits
<1> QED
  BY <1>1, <1>2, SqlStateTold DEF SqlStateKept

\* An error's code is not zero and tells its SQLSTATE.
THEOREM SqlStatesAreKept == Spec => []SqlStateKept
BY Invariance, IndSqlStateKept, PTL

-----------------------------------------------------------------------------
(* What the server sends *)

LEMMA DataTyped ==
  ASSUME NEW S \in Types, NEW v \in Data[S]
  PROVE  /\ v # Null /\ FitsIn(Length(Sends(S, v)), 4)
         /\ IsString(S) => v \in Bytes
         /\ S.k = "time" => FitsIn(v, 8)
         /\ S.k = "array" => v \in Seq(Data[S.of[1]] \union {Null}) /\ FitsIn(Len(v), 4)
         /\ IsComposite(S) => /\ DOMAIN v = DOMAIN S.of
                              /\ \A i \in DOMAIN v : v[i] \in Data[S.of[i]] \union {Null}
         /\ IsNumber(S) => FitsIn(v, Width[S.k])
<1>1. /\ Null \notin Data[S] /\ FitsIn(Len(Sends(S, v)), 4)
      /\ CASE S.k \in {"text", "byte"} -> v \in Seq(Byte)
           [] S.k = "time" -> FitsIn(v, 8)
           [] S.k = "array" -> v \in Seq(Data[S.of[1]] \union {Null}) /\ FitsIn(Len(v), 4)
           [] IsComposite(S) -> /\ DOMAIN v = DOMAIN S.of
                                /\ \A i \in DOMAIN v : v[i] \in Data[S.of[i]] \union {Null}
           [] OTHER -> FitsIn(v, Width[S.k])
  BY DataAssumption
<1>2. v # Null /\ FitsIn(Length(Sends(S, v)), 4)
  BY <1>1 DEF Length
<1>3. IsString(S) => v \in Bytes
  BY <1>1 DEF Bytes, IsString, IsComposite
<1>4. S.k = "time" => FitsIn(v, 8)
  BY <1>1 DEF IsComposite
<1>5. S.k = "array" => v \in Seq(Data[S.of[1]] \union {Null}) /\ FitsIn(Len(v), 4)
  BY <1>1 DEF IsComposite
<1>6. IsComposite(S) => /\ DOMAIN v = DOMAIN S.of
                        /\ \A i \in DOMAIN v : v[i] \in Data[S.of[i]] \union {Null}
  BY <1>1 DEF IsComposite
<1>7. IsNumber(S) => FitsIn(v, Width[S.k])
  BY <1>1, Widths DEF IsScalar, IsNumber, IsComposite
<1> QED
  BY <1>2, <1>3, <1>4, <1>5, <1>6, <1>7

\* v is of n parts, for which S has the types; they may be Null.
DataPartsAre(S, v, n) ==
  /\ n \in Nat /\ DOMAIN v = 1 .. n /\ (v = <<>> => n = 0)
  /\ S.k = "array" => n = Len(v) /\ FitsIn(n, 4) /\ (n = 0 => v = <<>>)
  /\ IsComposite(S) => n = Len(S.of) /\ DOMAIN S.of = 1 .. n
  /\ \A i \in 1 .. n :
       /\ PartType(S, i) \in Types /\ v[i] \in Data[PartType(S, i)] \union {Null}
       /\ \E j \in DOMAIN S.of : PartType(S, i) = S.of[j]

LEMMA DataParts ==
  ASSUME NEW S \in Types, HasParts(S), NEW v \in Data[S]
  PROVE  \E n : DataPartsAre(S, v, n)
<1>1. CASE S.k = "array"
  <2>1. /\ 1 \in DOMAIN S.of /\ S.of[1] \in Types /\ ~IsComposite(S)
        /\ v \in Seq(Data[S.of[1]] \union {Null}) /\ FitsIn(Len(v), 4)
    BY <1>1, Kinds, DataTyped DEF IsComposite
  <2>2. /\ Len(v) \in Nat /\ DOMAIN v = 1 .. Len(v)
        /\ \A i \in 1 .. Len(v) : v[i] \in Data[S.of[1]] \union {Null}
        /\ (Len(v) = 0 <=> v = <<>>)
    BY <2>1
  <2>3. \A i : PartType(S, i) = S.of[1]
    BY <1>1 DEF PartType
  <2>4. DataPartsAre(S, v, Len(v))
    BY <1>1, <2>1, <2>2, <2>3 DEF DataPartsAre
  <2> QED
    BY <2>4
<1>2. CASE IsComposite(S)
  <2>1. S.k # "array"
    BY <1>2 DEF IsComposite
  <2>2. Len(S.of) \in Nat /\ DOMAIN S.of = 1 .. Len(S.of) /\ \A i \in DOMAIN S.of : S.of[i] \in Types
    BY Kinds
  <2>3. DOMAIN v = DOMAIN S.of /\ \A i \in DOMAIN v : v[i] \in Data[S.of[i]] \union {Null}
    BY <1>2, DataTyped
  <2>4. \A i : PartType(S, i) = S.of[i]
    BY <2>1 DEF PartType
  <2>5. v = <<>> => Len(S.of) = 0
    <3>1. v = <<>> => DOMAIN v = {}
      OBVIOUS
    <3>2. Len(S.of) # 0 => 1 \in 1 .. Len(S.of)
      BY <2>2
    <3> QED
      BY <2>2, <2>3, <3>1, <3>2
  <2>6. DataPartsAre(S, v, Len(S.of))
    BY <2>1, <2>2, <2>3, <2>4, <2>5 DEF DataPartsAre
  <2> QED
    BY <2>6
<1> QED
  BY <1>1, <1>2 DEF HasParts

SentHeader(S, v) ==
  IF S.k = "array" THEN Header(1, Nulls(v), OidOf(S.of[1]), Len(v), 1) ELSE Word(Len(S.of))
Body(S, v, i) == Sends(PartType(S, i), v[i])
SizedPart(S, v, i) == IF v[i] = Null THEN Word(-1) ELSE Word(Length(Body(S, v, i))) \o Body(S, v, i)
SentPart(S, v, i) ==
  IF S.k = "array" THEN SizedPart(S, v, i) ELSE Word(OidOf(PartType(S, i))) \o SizedPart(S, v, i)
PartsSent(S, v) == [i \in DOMAIN v |-> SentPart(S, v, i)]

\* An array without items is sent without a dimension.
NoItems(S, v) == S.k = "array" /\ v = <<>>

\* The send functions of each kind of type.
LEMMA SendKinds ==
  ASSUME NEW S \in Types, NEW v \in Data[S]
  PROVE  /\ IsString(S) => Sends(S, v) = v
         /\ S.k = "time" => Sends(S, v) = BigEndian(v, 8)
         /\ IsNumber(S) => Sends(S, v) = BigEndian(v, Width[S.k])
         /\ NoItems(S, v) => Sends(S, v) = Word(0) \o Word(0) \o Word(OidOf(S.of[1]))
         /\ HasParts(S) /\ ~NoItems(S, v) => Sends(S, v) = SentHeader(S, v) \o Concatenated(PartsSent(S, v))
<1> DEFINE send == [i \in DOMAIN S.of |-> Sent[S.of[i]]]
<1>1. Sent[S] = SendWith(S, send)
  BY SentUnfold
<1>2. \A i \in DOMAIN S.of : send[i] = Sent[S.of[i]]
  OBVIOUS
<1> HIDE DEF send
<1> DEFINE items == [i \in DOMAIN v |-> SizedOrNull(v[i], send[1])]
           members == [i \in DOMAIN v |-> BigEndian(OidOf(S.of[i]), 4) \o SizedOrNull(v[i], send[i])]
           none == BigEndian(0, 4) \o BigEndian(0, 4) \o BigEndian(OidOf(S.of[1]), 4)
<1>3. Sends(S, v) =
        CASE S.k \in {"text", "byte"} -> v
          [] S.k = "time" -> BigEndian(v, 8)
          [] S.k = "array" ->
               IF v = <<>> THEN none
               ELSE BigEndian(1, 4) \o BigEndian(Nulls(v), 4) \o BigEndian(OidOf(S.of[1]), 4)
                    \o BigEndian(Len(v), 4) \o BigEndian(1, 4) \o Concatenated(items)
          [] IsComposite(S) -> BigEndian(Len(S.of), 4) \o Concatenated(members)
          [] OTHER -> BigEndian(v, Width[S.k])
  BY <1>1 DEF Sends, SendWith
<1> HIDE DEF items, members, none
<1>4. IsString(S) => Sends(S, v) = v
  BY <1>3 DEF IsString, IsComposite
<1>5. S.k = "time" => Sends(S, v) = BigEndian(v, 8)
  BY <1>3 DEF IsComposite
<1>6. IsNumber(S) => Sends(S, v) = BigEndian(v, Width[S.k])
  BY <1>3, Widths DEF IsScalar, IsNumber, IsComposite
<1>7. CASE S.k = "array"
  <2>1. 1 \in DOMAIN S.of
    BY <1>7, Kinds
  <2>2. items = PartsSent(S, v)
    BY <1>2, <1>7, <2>1 DEF items, PartsSent, SentPart, SizedPart, Body, SizedOrNull, Sized, PartType,
                            Sends, Word, Length
  <2>3. SentHeader(S, v) = BigEndian(1, 4) \o BigEndian(Nulls(v), 4) \o BigEndian(OidOf(S.of[1]), 4)
                           \o BigEndian(Len(v), 4) \o BigEndian(1, 4)
    BY <1>7 DEF SentHeader, Header, Word
  <2>4. v = <<>> => Sends(S, v) = Word(0) \o Word(0) \o Word(OidOf(S.of[1]))
    BY <1>3, <1>7 DEF none, Word, IsComposite
  <2>5. v # <<>> => Sends(S, v) = BigEndian(1, 4) \o BigEndian(Nulls(v), 4) \o BigEndian(OidOf(S.of[1]), 4)
                                  \o BigEndian(Len(v), 4) \o BigEndian(1, 4) \o Concatenated(items)
    BY <1>3, <1>7 DEF IsComposite
  <2>6. v # <<>> => Sends(S, v) = SentHeader(S, v) \o Concatenated(PartsSent(S, v))
    BY <2>2, <2>3, <2>5
  <2>7. NoItems(S, v) <=> v = <<>>
    BY <1>7 DEF NoItems
  <2> QED
    BY <1>4, <1>5, <1>6, <2>4, <2>6, <2>7
<1>8. CASE IsComposite(S)
  <2>1. DOMAIN v = DOMAIN S.of /\ S.k \notin {"text", "byte", "time", "array"}
    BY <1>8, DataTyped DEF IsComposite
  <2>2. members = PartsSent(S, v)
    BY <1>2, <2>1 DEF members, PartsSent, SentPart, SizedPart, Body, SizedOrNull, Sized, PartType,
                      Sends, Word, Length
  <2>3. SentHeader(S, v) = BigEndian(Len(S.of), 4)
    BY <2>1 DEF SentHeader, Word
  <2>4. Sends(S, v) = BigEndian(Len(S.of), 4) \o Concatenated(members)
    BY <1>3, <1>8, <2>1
  <2> QED
    BY <1>4, <1>5, <1>6, <2>1, <2>2, <2>3, <2>4 DEF NoItems
<1>9. NoItems(S, v) \/ HasParts(S) => S.k = "array" \/ IsComposite(S)
  BY DEF NoItems, HasParts
<1> QED
  BY <1>4, <1>5, <1>6, <1>7, <1>8, <1>9

LEMMA JoinTyped ==
  ASSUME NEW a \in Bytes, NEW c \in Bytes
  PROVE  a \o c \in Bytes /\ Length(a \o c) = Length(a) + Length(c)
BY Joined DEF Joins

LEMMA SentHeaderIs ==
  ASSUME NEW S \in Types, HasParts(S), NEW v \in Data[S]
  PROVE  LET hd == SentHeader(S, v)
         IN  /\ hd \in Bytes /\ Length(hd) = IF S.k = "array" THEN 20 ELSE 4
             /\ S.k = "array" => /\ WordAt(hd, 0, 1) /\ WordAt(hd, 8, OidOf(S.of[1]))
                                 /\ WordAt(hd, 12, Len(v))
             /\ IsComposite(S) => WordAt(hd, 0, Len(S.of))
<1>1. CASE S.k = "array"
  <2>1. FitsIn(1, 4) /\ FitsIn(0, 4)
    BY SmallFits
  <2>2. FitsIn(Nulls(v), 4)
    BY <2>1 DEF Nulls
  <2>3. FitsIn(OidOf(S.of[1]), 4) /\ FitsIn(Len(v), 4) /\ ~IsComposite(S)
    <3>1. S.of[1] \in Types /\ ~IsComposite(S)
      BY <1>1, Kinds DEF IsComposite
    <3>2. FitsIn(OidOf(S.of[1]), 4)
      BY <3>1, OidsTyped
    <3>3. FitsIn(Len(v), 4)
      BY <1>1, DataTyped
    <3> QED
      BY <3>1, <3>2, <3>3
  <2> QED
    BY <1>1, <2>1, <2>2, <2>3, HeaderRead DEF SentHeader
<1>2. CASE S.k # "array"
  <2>1. Len(S.of) \in Int /\ FitsIn(Len(S.of), 4)
    BY Kinds
  <2>2. Cut(Word(Len(S.of)), 0, 4) = Word(Len(S.of)) /\ 0 + 4 = 4
    BY <2>1, WordCut
  <2>3. WordAt(Word(Len(S.of)), 0, Len(S.of))
    BY <2>1, <2>2, WordRead DEF WordAt
  <2> QED
    BY <1>2, <2>1, <2>3, WordTyped DEF SentHeader
<1> QED
  BY <1>1, <1>2

LEMMA PartsSentListed ==
  ASSUME NEW S \in Types, HasParts(S), NEW v \in Data[S], NEW n, DataPartsAre(S, v, n),
         \A i \in 1 .. n : v[i] # Null => Body(S, v, i) \in Bytes
  PROVE  PartsSent(S, v) \in PartLists /\ Len(PartsSent(S, v)) = n
<1> DEFINE ts == PartsSent(S, v)
<1>1. n \in Nat /\ DOMAIN v = 1 .. n
  BY DEF DataPartsAre
<1>2. ASSUME NEW i \in 1 .. n PROVE SentPart(S, v, i) \in Bytes
  <2>1. Word(-1) \in Bytes
    BY WordTyped
  <2>2. v[i] # Null => Word(Length(Body(S, v, i))) \in Bytes
    BY WordTyped, LengthTyped
  <2>3. SizedPart(S, v, i) \in Bytes
    BY <2>1, <2>2, JoinTyped DEF SizedPart
  <2>4. Word(OidOf(PartType(S, i))) \in Bytes
    BY WordTyped, OidsTyped DEF DataPartsAre
  <2> QED
    BY <2>3, <2>4, JoinTyped DEF SentPart
<1>3. ts \in [1 .. n -> Bytes]
  BY <1>1, <1>2 DEF PartsSent
<1> HIDE DEF ts
<1>4. ts \in Seq(Bytes) /\ Len(ts) = n
  BY <1>1, <1>3, TableSeq
<1> QED
  BY <1>4 DEF ts, PartLists

LEMMA SentTyped ==
  ASSUME NEW T \in Types, NEW v \in Data[T]
  PROVE  Sends(T, v) \in Bytes
<1> DEFINE S == {U \in Types : \A w \in Data[U] : Sends(U, w) \in Bytes}
<1>1. ASSUME NEW U \in Types, \A i \in DOMAIN U.of : U.of[i] \in S PROVE U \in S
  <2> SUFFICES ASSUME NEW w \in Data[U] PROVE Sends(U, w) \in Bytes
    OBVIOUS
  <2>1. CASE IsString(U)
    BY <2>1, DataTyped, SendKinds
  <2>2. CASE U.k = "time"
    <3>1. w \in Int /\ 8 \in Nat
      <4>1. FitsIn(w, 8)
        BY <2>2, DataTyped
      <4> QED
        BY <4>1 DEF FitsIn
    <3>2. BigEndian(w, 8) \in Bytes
      BY <3>1, BigEndianTyped
    <3> QED
      BY <2>2, <3>2, SendKinds
  <2>3. CASE IsNumber(U)
    <3>1. w \in Int /\ Width[U.k] \in Nat
      <4>1. FitsIn(w, Width[U.k])
        BY <2>3, DataTyped
      <4>2. Width[U.k] \in {1, 2, 4, 8}
        BY <2>3, Widths DEF IsScalar, IsNumber
      <4> QED
        BY <4>1, <4>2 DEF FitsIn
    <3> QED
      BY <2>3, <3>1, SendKinds, BigEndianTyped
  <2>4. CASE NoItems(U, w)
    <3>1. OidOf(U.of[1]) \in Int
      BY <2>4, Kinds, OidsTyped DEF NoItems
    <3>2. Word(0) \in Bytes /\ Word(OidOf(U.of[1])) \in Bytes
      BY <3>1, WordTyped
    <3>3. Word(0) \o Word(0) \o Word(OidOf(U.of[1])) \in Bytes
      BY <3>2, JoinTyped
    <3> QED
      BY <2>4, <3>3, SendKinds
  <2>5. CASE HasParts(U) /\ ~NoItems(U, w)
    <3>1. PICK n : DataPartsAre(U, w, n)
      BY <2>5, DataParts
    <3>2. ASSUME NEW i \in 1 .. n, w[i] # Null PROVE Body(U, w, i) \in Bytes
      BY <1>1, <3>1, <3>2 DEF DataPartsAre, Body
    <3>3. PartsSent(U, w) \in PartLists
      BY <2>5, <3>1, <3>2, PartsSentListed
    <3>4. SentHeader(U, w) \in Bytes
      BY <2>5, SentHeaderIs
    <3> QED
      BY <2>5, <3>3, <3>4, SendKinds, Placement
  <2> QED
    BY <2>1, <2>2, <2>3, <2>4, <2>5, Kinds DEF HasParts, IsNumber, IsString
<1>2. S = Types
  <2>1. S \in SUBSET Types
    OBVIOUS
  <2> HIDE DEF S
  <2> QED
    BY <1>1, <2>1, TypeInduction
<1> QED
  BY <1>2

\* A value none of whose parts is Null is sent as its parts one after the other.
LEMMA DataEncoded ==
  ASSUME NEW S \in Types, HasParts(S), NEW v \in Data[S], ~NoItems(S, v), NEW n, DataPartsAre(S, v, n),
         \A i \in 1 .. n : v[i] # Null
  PROVE  \E heads, bodies :
           /\ Encodes(Sends(S, v), SentHeader(S, v), HeadSize(S), n, heads, bodies)
           /\ \A i \in 1 .. n : /\ bodies[i] = Body(S, v, i)
                                /\ PartIs(PartsSent(S, v)[i], HeadSize(S), heads[i], OidOf(PartType(S, i)), bodies[i])
<1> DEFINE FrameHead(i) == IF S.k = "array" THEN Word(Length(Body(S, v, i)))
                      ELSE Word(OidOf(PartType(S, i))) \o Word(Length(Body(S, v, i)))
           heads == [i \in 1 .. n |-> FrameHead(i)]
           bodies == [i \in 1 .. n |-> Body(S, v, i)]
           oids == [i \in 1 .. n |-> OidOf(PartType(S, i))]
           ts == PartsSent(S, v)
           b == Sends(S, v)
<1>1. ASSUME NEW i \in 1 .. n
      PROVE  /\ i \in DOMAIN v /\ FitsIn(OidOf(PartType(S, i)), 4) /\ OidOf(PartType(S, i)) \in Int
             /\ Body(S, v, i) \in Bytes /\ FitsIn(Length(Body(S, v, i)), 4)
  <2> DEFINE U == PartType(S, i)
  <2>1. U \in Types /\ v[i] \in Data[U] /\ i \in DOMAIN v
    BY DEF DataPartsAre
  <2> HIDE DEF U
  <2>2. FitsIn(OidOf(U), 4) /\ OidOf(U) \in Int
    BY <2>1, OidsTyped
  <2>3. Sends(U, v[i]) \in Bytes
    BY <2>1, SentTyped
  <2>4. FitsIn(Length(Sends(U, v[i])), 4)
    BY <2>1, DataTyped
  <2> QED
    BY <2>1, <2>2, <2>3, <2>4 DEF Body, U
<1>2. ASSUME NEW i \in 1 .. n
      PROVE PartIs(ts[i], HeadSize(S), FrameHead(i), OidOf(PartType(S, i)), Body(S, v, i))
  <2> DEFINE body == Body(S, v, i)
             oid == OidOf(PartType(S, i))
  <2>1. ts[i] = SentPart(S, v, i) /\ SizedPart(S, v, i) = Word(Length(body)) \o body
    BY <1>1 DEF PartsSent, SizedPart
  <2>2. body \in Bytes /\ FitsIn(Length(body), 4) /\ FitsIn(oid, 4) /\ oid \in Int /\ Length(body) \in Int
    BY <1>1, LengthTyped
  <2>3. CASE S.k = "array"
    <3>1. ts[i] = Word(Length(body)) \o body /\ HeadSize(S) = 4 /\ FrameHead(i) = Word(Length(body))
      BY <2>1, <2>3 DEF SentPart, HeadSize
    <3> HIDE DEF body, oid, FrameHead, ts
    <3>2. PartIs(Word(Length(body)) \o body, 4, Word(Length(body)), oid, body)
      BY <2>2, ItemFramed
    <3> QED
      BY <3>1, <3>2 DEF body, oid
  <2>4. CASE S.k # "array"
    <3>1. ts[i] = Word(oid) \o (Word(Length(body)) \o body) /\ HeadSize(S) = 8
          /\ FrameHead(i) = Word(oid) \o Word(Length(body))
      BY <2>1, <2>4 DEF SentPart, HeadSize
    <3> HIDE DEF body, oid, FrameHead, ts
    <3>2. Word(oid) \in Bytes /\ Word(Length(body)) \in Bytes
      BY <2>2, WordTyped
    <3>3. ts[i] = (Word(oid) \o Word(Length(body))) \o body
      BY <2>2, <3>1, <3>2, BytesThrice
    <3>4. PartIs((Word(oid) \o Word(Length(body))) \o body, 8, Word(oid) \o Word(Length(body)), oid, body)
      BY <2>2, MemberFramed
    <3> QED
      BY <3>1, <3>3, <3>4 DEF body, oid
  <2> QED
    BY <2>3, <2>4
<1>3. ts \in PartLists /\ Len(ts) = n
  BY <1>1, PartsSentListed
<1>4. SentHeader(S, v) \in Bytes /\ b = SentHeader(S, v) \o Concatenated(ts)
  BY SentHeaderIs, SendKinds
<1>5. HeadSize(S) \in {4, 8}
  BY DEF HeadSize
<1>6. \A i \in 1 .. n : /\ oids[i] = OidOf(PartType(S, i)) /\ bodies[i] = Body(S, v, i)
                        /\ heads[i] = FrameHead(i)
  OBVIOUS
<1> HIDE DEF heads, bodies, oids, ts, b, FrameHead
<1>7. \A i \in 1 .. Len(ts) : PartIs(ts[i], HeadSize(S), heads[i], oids[i], bodies[i])
  BY <1>2, <1>3, <1>6
<1>8. Encodes(b, SentHeader(S, v), HeadSize(S), n, heads, bodies)
  BY <1>3, <1>4, <1>5, <1>7, Encoded
<1>9. \A i \in 1 .. n : PartIs(ts[i], HeadSize(S), heads[i], OidOf(PartType(S, i)), bodies[i])
  BY <1>2, <1>6
<1> QED
  BY <1>6, <1>8, <1>9 DEF ts, b

-----------------------------------------------------------------------------
(* What the library reads *)

LEMMA LoadWhole ==
  ASSUME NEW c \in Bytes, NEW w, w = Length(c)
  PROVE  EndianLoad(c, w) = FromBigEndian(c)
<1>1. Length(c) \in Nat /\ 0 + Length(c) = Length(c) /\ \A j \in 1 .. Length(c) : 0 + j = j
  BY LengthTyped
<1>2. Cut(c, 0, w) = c
  BY <1>1, CutIs
<1>3. SubSeq(c, 0 + 1, w) = c /\ 0 + 1 = 1
  BY <1>2 DEF Cut
<1>4. SubSeq(c, 1, w) = c
  BY <1>3
<1> QED
  BY <1>4 DEF EndianLoad

LEMMA LoadWord ==
  ASSUME NEW b \in Bytes, NEW p \in Nat, p + 4 <= Length(b), NEW x, WordAt(b, p, x)
  PROVE  EndianLoad(SubSeq(b, p + 1, p + 4), 4) = x /\ (p = 0 => EndianLoad(b, 4) = x)
<1> DEFINE c == Cut(b, p, p + 4)
<1>1. c \in Bytes /\ Length(c) = 4
  <2>1. p + 4 \in Nat /\ p <= p + 4 /\ (p + 4) - p = 4
    OBVIOUS
  <2> QED
    BY <2>1, CutTyped
<1>2. FromBigEndian(c) = x
  BY DEF WordAt
<1> HIDE DEF c
<1>3. EndianLoad(c, 4) = x
  BY <1>1, <1>2, LoadWhole
<1>4. p = 0 => EndianLoad(b, 4) = x
  BY <1>2 DEF EndianLoad, c, Cut
<1> QED
  BY <1>3, <1>4 DEF c, Cut

LEMMA PartReadIs ==
  ASSUME NEW b \in Bytes, NEW p, NEW h \in {4, 8}, NEW body \in Bytes, HasPart(b, p, h, body), NEW read
  PROVE  PartRead(b, p, h, read) = read[body]
<1>1. /\ p \in Nat /\ p + h + Length(body) <= Length(b)
      /\ FromBigEndian(Cut(b, p + h - 4, p + h)) = Length(body)
      /\ Cut(b, p + h, p + h + Length(body)) = body
  BY DEF HasPart
<1>2. Length(body) \in Nat /\ Length(b) \in Nat /\ Len(b) = Length(b)
  BY LengthTyped DEF Length
<1> DEFINE q == p + h - 4
           size == EndianLoad(SubSeq(b, p + h - 3, p + h), 4)
<1>3. q \in Nat /\ q + 4 = p + h /\ q + 1 = p + h - 3 /\ q + 4 <= Length(b)
  BY <1>1, <1>2
<1>4. WordAt(b, q, Length(body))
  BY <1>1, <1>3 DEF WordAt
<1>5. size = Length(body)
  <2>1. size = EndianLoad(SubSeq(b, q + 1, q + 4), 4)
    BY <1>3
  <2> HIDE DEF q, size
  <2> QED
    BY <1>3, <1>4, <2>1, LoadWord
<1>6. SubSeq(b, p + h + 1, p + h + Length(body)) = body
  BY <1>1 DEF Cut
<1>7. ~(Length(body) < -1) /\ ~(p + h + Length(body) > Len(b)) /\ Length(body) # -1 /\ p + h <= Len(b)
  BY <1>1, <1>2
<1>8. PartRead(b, p, h, read) =
        IF size < -1 \/ p + h + size > Len(b) THEN Undefined
        ELSE read[SubSeq(b, p + h + 1, IF size = -1 THEN Len(b) ELSE p + h + size)]
  BY DEF PartRead
<1> HIDE DEF size
<1>9. PartRead(b, p, h, read) = read[SubSeq(b, p + h + 1, p + h + Length(body))]
  BY <1>5, <1>7, <1>8
<1> QED
  BY <1>6, <1>9

LEMMA MemberReadIs ==
  ASSUME NEW b \in Bytes, NEW p, NEW body \in Bytes, HasPart(b, p, 8, body), NEW U, NEW oid,
         WordAt(b, p, oid), NEW read
  PROVE  MemberRead(b, p, U, read) = IF OidsAgree(ExpectedOid(U), oid) THEN read[body] ELSE Throws
<1>1. PartRead(b, p, 8, read) = read[body]
  BY PartReadIs
<1>2. p \in Nat /\ p + 8 + Length(body) <= Length(b)
  BY DEF HasPart
<1>3. Len(b) = Length(b) /\ Length(b) \in Nat /\ Length(body) \in Nat
  BY LengthTyped DEF Length
<1>4. p \in 0 .. Len(b) - 8 /\ p + 4 <= Length(b)
  BY <1>2, <1>3
<1>5. EndianLoad(SubSeq(b, p + 1, p + 4), 4) = oid
  BY <1>2, <1>4, LoadWord
<1> QED
  BY <1>1, <1>4, <1>5 DEF MemberRead

LEMMA ItemReadIs ==
  ASSUME NEW b \in Bytes, NEW p, NEW body \in Bytes, HasPart(b, p, 4, body), NEW read
  PROVE  ItemRead(b, p, read) = read[body]
<1>1. PartRead(b, p, 4, read) = read[body]
  BY PartReadIs
<1>2. p \in Nat /\ p + 4 + Length(body) <= Length(b)
  BY DEF HasPart
<1>3. Len(b) = Length(b) /\ Length(b) \in Nat /\ Length(body) \in Nat
  BY LengthTyped DEF Length
<1>4. p \in 0 .. Len(b) - 4
  BY <1>2, <1>3
<1> QED
  BY <1>1, <1>4 DEF ItemRead

\* deserialize_impl of each kind of type.
InstantRead(m) == IF FitsIn(Instant(m), ClockBytes) THEN Val(Instant(m)) ELSE Undefined
ItemsRead(T, b, n) ==
  LET at == Offsets(b, 20, 4, n) IN AllOf([i \in 1 .. n |-> ItemRead(b, at[i - 1], Readers[T.of[1]])])
MembersRead(T, b) ==
  LET at == Offsets(b, 4, 8, Len(T.of))
  IN  AllOf([i \in DOMAIN T.of |-> MemberRead(b, at[i - 1], T.of[i], Readers[T.of[i]])])

LEMMA ReadUnfolded ==
  ASSUME NEW T \in Types, NEW b \in Bytes
  PROVE  Deserialized(T, b) =
           CASE T.k = "text" -> Val(b)
             [] T.k = "time" ->
                  IF Len(b) < 8 THEN Undefined ELSE InstantRead(EndianLoad(b, 8))
             [] IsComposite(T) ->
                  IF Len(b) < 4 THEN Undefined
                  ELSE IF EndianLoad(b, 4) # Len(T.of) THEN Throws ELSE MembersRead(T, b)
             [] T.k = "array" ->
                  IF Len(b) < 4 THEN Undefined
                  ELSE IF EndianLoad(b, 4) # 1 THEN Throws
                  ELSE IF Len(b) < 20 THEN Undefined
                  ELSE IF ~OidsAgree(ExpectedOid(T.of[1]), EndianLoad(SubSeq(b, 9, 12), 4)) THEN Throws
                  ELSE LET n == EndianLoad(SubSeq(b, 13, 16), 4)
                       IN  IF n < 0 THEN Throws
                           ELSE IF n > Len(b) THEN Undefined ELSE ItemsRead(T, b, n)
             [] OTHER -> IF Len(b) < Width[T.k] THEN Undefined ELSE Val(EndianLoad(b, Width[T.k]))
<1> DEFINE read == [i \in DOMAIN T.of |-> Readers[T.of[i]]]
           Members == LET at == Offsets(b, 4, 8, Len(T.of))
                      IN  AllOf([i \in DOMAIN T.of |-> MemberRead(b, at[i - 1], T.of[i], read[i])])
           Items(n) == LET at == Offsets(b, 20, 4, n)
                       IN  AllOf([i \in 1 .. n |-> ItemRead(b, at[i - 1], read[1])])
<1>1. Readers[T] = ReadWith(T, read) /\ b \in Seq(Byte)
  BY ReadersUnfold DEF Bytes
<1>2. Deserialized(T, b) =
        CASE T.k = "text" -> Val(b)
          [] T.k = "time" ->
               IF Len(b) < 8 THEN Undefined ELSE InstantRead(EndianLoad(b, 8))
          [] IsComposite(T) ->
               IF Len(b) < 4 THEN Undefined
               ELSE IF EndianLoad(b, 4) # Len(T.of) THEN Throws ELSE Members
          [] T.k = "array" ->
               IF Len(b) < 4 THEN Undefined
               ELSE IF EndianLoad(b, 4) # 1 THEN Throws
               ELSE IF Len(b) < 20 THEN Undefined
               ELSE IF ~OidsAgree(ExpectedOid(T.of[1]), EndianLoad(SubSeq(b, 9, 12), 4)) THEN Throws
               ELSE LET n == EndianLoad(SubSeq(b, 13, 16), 4)
                    IN  IF n < 0 THEN Throws ELSE IF n > Len(b) THEN Undefined ELSE Items(n)
          [] OTHER -> IF Len(b) < Width[T.k] THEN Undefined ELSE Val(EndianLoad(b, Width[T.k]))
  BY <1>1 DEF Deserialized, ReadWith, InstantRead
<1>3. Members = MembersRead(T, b)
  BY DEF MembersRead
<1>4. CASE T.k = "array"
  <2>1. 1 \in DOMAIN T.of /\ ~IsComposite(T)
    BY <1>4, Kinds DEF IsComposite
  <2>2. read[1] = Readers[T.of[1]]
    BY <2>1
  <2>3. \A n : Items(n) = ItemsRead(T, b, n)
    <3> HIDE DEF read
    <3> QED
      BY <2>2, Zenon DEF ItemsRead
  <2> HIDE DEF Members, Items
  <2> QED
    BY <1>2, <1>4, <2>1, <2>3
<1>5. CASE T.k # "array"
  <2> HIDE DEF Members, Items
  <2> QED
    BY <1>2, <1>3, <1>5
<1> QED
  BY <1>4, <1>5

LEMMA ReadKinds ==
  ASSUME NEW T \in Types, NEW b \in Bytes
  PROVE  /\ T.k = "text" => Deserialized(T, b) = Val(b)
         /\ T.k = "time" /\ Length(b) = 8 =>
              Deserialized(T, b) = InstantRead(FromBigEndian(b))
         /\ IsScalar(T) /\ Length(b) = Width[T.k] => Deserialized(T, b) = Val(FromBigEndian(b))
<1>1. T.k = "text" => Deserialized(T, b) = Val(b)
  BY ReadUnfolded DEF IsComposite
<1>2. CASE T.k = "time" /\ Length(b) = 8
  <2>1. EndianLoad(b, 8) = FromBigEndian(b) /\ ~(Len(b) < 8)
    <3>1. EndianLoad(b, 8) = FromBigEndian(b)
      BY <1>2, LoadWhole
    <3>2. ~(Len(b) < 8)
      BY <1>2 DEF Length
    <3> QED
      BY <3>1, <3>2
  <2>2. ~IsScalar(T)
    BY <1>2, Widths DEF IsScalar
  <2>3. Deserialized(T, b) = IF Len(b) < 8 THEN Undefined ELSE InstantRead(EndianLoad(b, 8))
    BY <1>2, ReadUnfolded DEF IsComposite
  <2> QED
    BY <1>2, <2>1, <2>2, <2>3
<1>3. CASE IsScalar(T) /\ Length(b) = Width[T.k]
  <2>1. T.k \notin {"text", "time", "array", "tuple", "udt"} /\ Width[T.k] \in {1, 2, 4, 8}
    BY <1>3, Widths DEF IsScalar
  <2>2. EndianLoad(b, Width[T.k]) = FromBigEndian(b) /\ ~(Len(b) < Width[T.k])
    BY <1>3, <2>1, LoadWhole DEF Length
  <2>3. Deserialized(T, b) = IF Len(b) < Width[T.k] THEN Undefined ELSE Val(EndianLoad(b, Width[T.k]))
    BY <2>1, ReadUnfolded DEF IsComposite
  <2> QED
    BY <2>1, <2>2, <2>3
<1> QED
  BY <1>1, <1>2, <1>3

LEMMA ReadMembers ==
  ASSUME NEW T \in Types, IsComposite(T), NEW b \in Bytes, 4 <= Length(b), NEW m, WordAt(b, 0, m)
  PROVE  Deserialized(T, b) = IF m # Len(T.of) THEN Throws ELSE MembersRead(T, b)
<1>1. T.k \notin {"text", "time", "array"}
  BY DEF IsComposite
<1>2. Len(b) = Length(b) /\ Length(b) \in Nat
  BY LengthTyped DEF Length
<1>3. ~(Len(b) < 4) /\ 0 + 4 = 4 /\ 0 \in Nat
  BY <1>2
<1>4. EndianLoad(b, 4) = m
  BY <1>3, LoadWord
<1>5. Deserialized(T, b) =
        IF Len(b) < 4 THEN Undefined
        ELSE IF EndianLoad(b, 4) # Len(T.of) THEN Throws ELSE MembersRead(T, b)
  BY <1>1, ReadUnfolded
<1> QED
  BY <1>3, <1>4, <1>5

LEMMA ReadItems ==
  ASSUME NEW T \in Types, T.k = "array", NEW b \in Bytes, 4 <= Length(b), NEW m, WordAt(b, 0, m)
  PROVE  /\ m # 1 => Deserialized(T, b) = Throws
         /\ \A oid, n :
              m = 1 /\ 20 <= Length(b) /\ WordAt(b, 8, oid) /\ WordAt(b, 12, n) /\ n \in Nat /\ n <= Length(b)
                => Deserialized(T, b) =
                     IF OidsAgree(ExpectedOid(T.of[1]), oid) THEN ItemsRead(T, b, n) ELSE Throws
<1>1. ~IsComposite(T)
  BY DEF IsComposite
<1>2. Len(b) = Length(b) /\ Length(b) \in Nat
  BY LengthTyped DEF Length
<1>3. ~(Len(b) < 4) /\ 0 + 4 = 4 /\ 0 \in Nat
  BY <1>2
<1>4. EndianLoad(b, 4) = m
  BY <1>3, LoadWord
<1>5. Deserialized(T, b) =
        IF Len(b) < 4 THEN Undefined
        ELSE IF EndianLoad(b, 4) # 1 THEN Throws
        ELSE IF Len(b) < 20 THEN Undefined
        ELSE IF ~OidsAgree(ExpectedOid(T.of[1]), EndianLoad(SubSeq(b, 9, 12), 4)) THEN Throws
        ELSE LET n == EndianLoad(SubSeq(b, 13, 16), 4)
             IN  IF n < 0 THEN Throws ELSE IF n > Len(b) THEN Undefined ELSE ItemsRead(T, b, n)
  BY <1>1, ReadUnfolded
<1>6. m # 1 => Deserialized(T, b) = Throws
  BY <1>3, <1>4, <1>5
<1>7. ASSUME NEW oid, NEW n, m = 1, 20 <= Length(b), WordAt(b, 8, oid), WordAt(b, 12, n), n \in Nat,
             n <= Length(b)
      PROVE  Deserialized(T, b) = IF OidsAgree(ExpectedOid(T.of[1]), oid) THEN ItemsRead(T, b, n) ELSE Throws
  <2>1. ~(Len(b) < 20) /\ ~(n < 0) /\ ~(n > Len(b)) /\ 8 + 4 <= Length(b) /\ 12 + 4 <= Length(b)
    BY <1>2, <1>7
  <2>2. EndianLoad(SubSeq(b, 8 + 1, 8 + 4), 4) = oid
    BY <1>7, <2>1, LoadWord
  <2>3. EndianLoad(SubSeq(b, 12 + 1, 12 + 4), 4) = n
    BY <1>7, <2>1, LoadWord
  <2>4. 8 + 1 = 9 /\ 8 + 4 = 12 /\ 12 + 1 = 13 /\ 12 + 4 = 16
    OBVIOUS
  <2>5. EndianLoad(SubSeq(b, 9, 12), 4) = oid /\ EndianLoad(SubSeq(b, 13, 16), 4) = n
    BY <2>2, <2>3, <2>4
  <2> QED
    BY <1>3, <1>4, <1>5, <1>7, <2>1, <2>5
<1> QED
  BY <1>6, <1>7

-----------------------------------------------------------------------------
(* A value read is what the value of the server is to the type asked for *)

Unknown == [Throws EXCEPT !.st = "unspecified"]
MeaningOfParts(ds) == IF \E i \in DOMAIN ds : ds[i].st = "unspecified" THEN Unknown ELSE AllOf(ds)

\* MeanWith, of what the parts are: as members, or as items.
MeaningCases(T, S, v, members, items) ==
  CASE v = Null -> Unknown
    [] v # Null /\ T.k = "udt" ->
         IF S.k # "udt" THEN Unknown
         ELSE IF S.name # T.name THEN Unknown
         ELSE IF Len(T.of) # Len(S.of) THEN Throws ELSE MeaningOfParts(members)
    [] v # Null /\ T.k = "array" ->
         IF S.k # "array" THEN IF T.of[1].k = "udt" THEN Unknown ELSE Throws
         ELSE IF (T.of[1].k # "udt" /\ T.of[1].k # S.of[1].k) \/ v = <<>> THEN Throws
         ELSE MeaningOfParts(items)
    [] v # Null /\ T.k = "tuple" ->
         IF S.k # "tuple" \/ Len(T.of) # Len(S.of) THEN Throws ELSE MeaningOfParts(members)
    [] v # Null /\ T.k = "time" /\ S.k = "time" ->
         IF FitsIn(Instant(v), ClockBytes) THEN Val(Instant(v)) ELSE Unknown
    [] v # Null /\ T.k = "byte" /\ S.k = "byte" ->
         IF Len(v) = 1 THEN Val(FromBigEndian(v)) ELSE Unknown
    [] OTHER -> IF T.k # S.k THEN Throws ELSE Val(v)

LEMMA MeaningUnfolded ==
  ASSUME NEW T \in Types, NEW S \in Types, NEW v \in Data[S] \union {Null}
  PROVE  LET mean == [i \in DOMAIN T.of |-> Meanings[T.of[i]]]
             members == [i \in DOMAIN T.of |-> mean[i][S.of[i]][v[i]]]
             items == [i \in DOMAIN v |-> mean[1][S.of[1]][v[i]]]
         IN  Meaning(T, S, v) = MeaningCases(T, S, v, members, items)
<1> DEFINE mean == [i \in DOMAIN T.of |-> Meanings[T.of[i]]]
           E(R, w) == MeaningCases(T, R, w, [i \in DOMAIN T.of |-> mean[i][R.of[i]][w[i]]],
                                   [i \in DOMAIN w |-> mean[1][R.of[1]][w[i]]])
<1>1. Meanings[T] = MeanWith(T, mean)
  BY MeaningsUnfold
<1> HIDE DEF mean
<1>2. MeanWith(T, mean) = [R \in Types |-> [w \in Data[R] \union {Null} |-> E(R, w)]]
  BY DEF MeanWith, MeaningCases, Unknown, MeaningOfParts
<1> HIDE DEF E
<1>3. Meanings[T][S] = [w \in Data[S] \union {Null} |-> E(S, w)]
  BY <1>1, <1>2
<1>4. Meaning(T, S, v) = E(S, v)
  BY <1>3 DEF Meaning
<1> QED
  BY <1>4 DEF E, mean

LEMMA UnknownIs == Unknown.st = "unspecified"
BY DEF Unknown, Throws

\* S is of the members a T expects: the same user-defined type, or a tuple.
SameComposite(T, S) == IF T.k = "udt" THEN S.k = "udt" /\ S.name = T.name ELSE S.k = "tuple"

LEMMA MeaningOfMembers ==
  ASSUME NEW T \in Types, IsComposite(T), NEW S \in Types, NEW v \in Data[S]
  PROVE  /\ T.k = "udt" /\ ~SameComposite(T, S) => Meaning(T, S, v).st = "unspecified"
         /\ T.k = "tuple" /\ ~SameComposite(T, S) => Meaning(T, S, v) = Throws
         /\ SameComposite(T, S) =>
              Meaning(T, S, v) =
                IF Len(T.of) # Len(S.of) THEN Throws
                ELSE MeaningOfParts([i \in DOMAIN T.of |-> Meaning(T.of[i], S.of[i], v[i])])
<1> DEFINE mean == [i \in DOMAIN T.of |-> Meanings[T.of[i]]]
           members == [i \in DOMAIN T.of |-> mean[i][S.of[i]][v[i]]]
           items == [i \in DOMAIN v |-> mean[1][S.of[1]][v[i]]]
<1>1. members = [i \in DOMAIN T.of |-> Meaning(T.of[i], S.of[i], v[i])]
  BY DEF Meaning
<1>2. Meaning(T, S, v) = MeaningCases(T, S, v, members, items)
  BY MeaningUnfolded
<1>3. v # Null
  BY DataTyped
<1> HIDE DEF members, items, mean
<1>4. CASE T.k = "udt"
  <2>1. Meaning(T, S, v) = IF ~SameComposite(T, S) THEN Unknown
                           ELSE IF Len(T.of) # Len(S.of) THEN Throws ELSE MeaningOfParts(members)
    BY <1>2, <1>3, <1>4 DEF MeaningCases, SameComposite
  <2> QED
    BY <1>1, <1>4, <2>1, UnknownIs
<1>5. CASE T.k = "tuple"
  <2>1. Meaning(T, S, v) =
          IF S.k # "tuple" \/ Len(T.of) # Len(S.of) THEN Throws ELSE MeaningOfParts(members)
    BY <1>2, <1>3, <1>5 DEF MeaningCases
  <2> QED
    BY <1>1, <1>5, <2>1 DEF SameComposite
<1> QED
  BY <1>4, <1>5 DEF IsComposite

LEMMA MeaningOfItems ==
  ASSUME NEW T \in Types, T.k = "array", NEW S \in Types, NEW v \in Data[S]
  PROVE  /\ S.k # "array" /\ T.of[1].k = "udt" => Meaning(T, S, v).st = "unspecified"
         /\ S.k # "array" /\ T.of[1].k # "udt" => Meaning(T, S, v) = Throws
         /\ S.k = "array" /\ ((T.of[1].k # "udt" /\ T.of[1].k # S.of[1].k) \/ v = <<>>) =>
              Meaning(T, S, v) = Throws
         /\ S.k = "array" /\ (T.of[1].k = "udt" \/ T.of[1].k = S.of[1].k) /\ v # <<>> =>
              Meaning(T, S, v) = MeaningOfParts([i \in DOMAIN v |-> Meaning(T.of[1], S.of[1], v[i])])
<1> DEFINE mean == [i \in DOMAIN T.of |-> Meanings[T.of[i]]]
           members == [i \in DOMAIN T.of |-> mean[i][S.of[i]][v[i]]]
           items == [i \in DOMAIN v |-> mean[1][S.of[1]][v[i]]]
<1>1. items = [i \in DOMAIN v |-> Meaning(T.of[1], S.of[1], v[i])]
  <2>1. 1 \in DOMAIN T.of
    BY Kinds
  <2>2. mean[1] = Meanings[T.of[1]]
    BY <2>1
  <2> HIDE DEF mean
  <2> QED
    BY <2>2 DEF Meaning
<1>2. Meaning(T, S, v) = MeaningCases(T, S, v, members, items)
  BY MeaningUnfolded
<1>3. v # Null
  BY DataTyped
<1> HIDE DEF members, items, mean
<1>4. Meaning(T, S, v) =
        IF S.k # "array" THEN IF T.of[1].k = "udt" THEN Unknown ELSE Throws
        ELSE IF (T.of[1].k # "udt" /\ T.of[1].k # S.of[1].k) \/ v = <<>> THEN Throws
        ELSE MeaningOfParts(items)
  BY <1>2, <1>3 DEF MeaningCases
<1> QED
  BY <1>1, <1>4, UnknownIs

LEMMA MeaningOfKinds ==
  ASSUME NEW T \in Types, ~HasParts(T), NEW S \in Types, NEW v \in Data[S]
  PROVE  /\ T.k # S.k => Meaning(T, S, v) = Throws
         /\ T.k = S.k /\ T.k = "time" =>
              Meaning(T, S, v) = IF FitsIn(Instant(v), ClockBytes) THEN Val(Instant(v)) ELSE Unknown
         /\ T.k = S.k /\ T.k = "byte" =>
              Meaning(T, S, v) = IF Len(v) = 1 THEN Val(FromBigEndian(v)) ELSE Unknown
         /\ T.k = S.k /\ T.k \notin {"time", "byte"} => Meaning(T, S, v) = Val(v)
<1> DEFINE mean == [i \in DOMAIN T.of |-> Meanings[T.of[i]]]
           members == [i \in DOMAIN T.of |-> mean[i][S.of[i]][v[i]]]
           items == [i \in DOMAIN v |-> mean[1][S.of[1]][v[i]]]
<1>1. v # Null
  BY DataTyped
<1>2. T.k \notin {"udt", "array", "tuple"}
  BY DEF HasParts, IsComposite
<1>3. Meaning(T, S, v) = MeaningCases(T, S, v, members, items)
  BY MeaningUnfolded
<1> HIDE DEF members, items, mean
<1> QED
  BY <1>1, <1>2, <1>3 DEF MeaningCases

LEMMA MeaningOfNull ==
  ASSUME NEW T \in Types, NEW S \in Types
  PROVE  Meaning(T, S, Null).st = "unspecified"
<1>1. Meaning(T, S, Null) = Unknown
  BY MeaningUnfolded DEF MeaningCases
<1> QED
  BY <1>1, UnknownIs

\* As a T, a value of S: deserialize_and_verify_oid of what the server sends.
ReadAs(T, S, v) == IF OidsAgree(ExpectedOid(T), OidOf(S)) THEN Deserialized(T, Sends(S, v)) ELSE Throws

Faithful(T, S, v) ==
  \/ Meaning(T, S, v).st = "unspecified"
  \/ v # Null /\ ReadAs(T, S, v) = Meaning(T, S, v)

\* A number is read back from its bytes, and so is a byte; a text is its bytes.
LEMMA KindsFaithful ==
  ASSUME NEW T \in Types, ~HasParts(T), NEW S \in Types, NEW v \in Data[S]
  PROVE  Meaning(T, S, v).st = "unspecified" \/ ReadAs(T, S, v) = Meaning(T, S, v)
<1>1. T.k \notin {"udt", "array", "tuple"} /\ (IsNumber(T) \/ T.k \in {"text", "byte", "time"})
  BY Kinds DEF HasParts, IsComposite, IsNumber
<1>2. OidsAgree(ExpectedOid(T), OidOf(S)) <=> T.k = S.k
  BY <1>1, OidsTell DEF Told, SameKind
<1>3. CASE T.k # S.k
  BY <1>2, <1>3, MeaningOfKinds DEF ReadAs
<1>4. CASE T.k = S.k /\ T.k = "text"
  <2>1. Sends(S, v) = v /\ v \in Bytes
    BY <1>4, SendKinds, DataTyped DEF IsString
  <2>2. Deserialized(T, v) = Val(v)
    BY <1>4, <2>1, ReadKinds
  <2>3. Meaning(T, S, v) = Val(v)
    BY <1>4, MeaningOfKinds
  <2> QED
    BY <1>2, <1>4, <2>1, <2>2, <2>3 DEF ReadAs
<1>5. CASE T.k = S.k /\ T.k = "time"
  <2> DEFINE b == BigEndian(v, 8)
  <2>1. FitsIn(v, 8) /\ Sends(S, v) = b
    BY <1>5, SendKinds, DataTyped
  <2>2. v \in Int /\ 8 \in Nat /\ 8 # 0
    BY <2>1 DEF FitsIn
  <2>3. b \in Bytes /\ Length(b) = 8
    BY <2>2, NumberTyped
  <2>4. FromBigEndian(b) = v
    BY <2>1, <2>2, RoundTrip
  <2> HIDE DEF b
  <2>5. Deserialized(T, b) = InstantRead(v)
    BY <1>5, <2>3, <2>4, ReadKinds
  <2>6. Meaning(T, S, v) = IF FitsIn(Instant(v), ClockBytes) THEN Val(Instant(v)) ELSE Unknown
    BY <1>5, MeaningOfKinds
  <2>7. ReadAs(T, S, v) = InstantRead(v)
    BY <1>2, <1>5, <2>1, <2>5 DEF ReadAs
  <2> QED
    BY <2>6, <2>7, UnknownIs DEF InstantRead
<1>7. CASE T.k = S.k /\ T.k = "byte"
  <2>1. Sends(S, v) = v /\ v \in Bytes
    BY <1>7, SendKinds, DataTyped DEF IsString
  <2>2. Meaning(T, S, v) = IF Len(v) = 1 THEN Val(FromBigEndian(v)) ELSE Unknown
    BY <1>7, MeaningOfKinds
  <2>3. Len(v) = 1 => Deserialized(T, v) = Val(FromBigEndian(v))
    <3>1. IsScalar(T) /\ Width[T.k] = 1
      BY <1>7, ByteWidth DEF IsScalar
    <3> QED
      BY <2>1, <3>1, ReadKinds DEF Length
  <2>4. ReadAs(T, S, v) = Deserialized(T, v)
    BY <1>2, <1>7, <2>1 DEF ReadAs
  <2> QED
    BY <2>2, <2>3, <2>4, UnknownIs
<1>6. CASE T.k = S.k /\ IsNumber(T)
  <2> DEFINE w == Width[T.k]
             b == BigEndian(v, w)
  <2>1. IsNumber(S) /\ Width[S.k] = w
    BY <1>6 DEF IsScalar, IsNumber
  <2>2. FitsIn(v, w) /\ Sends(S, v) = b
    BY <2>1, SendKinds, DataTyped
  <2>3. w \in Nat /\ w # 0 /\ T.k \notin {"time", "byte"}
    <3>1. w \in {1, 2, 4, 8} /\ T.k \notin {"time", "byte"}
      BY <1>6, Widths DEF IsScalar, IsNumber
    <3> QED
      BY <3>1
  <2>4. v \in Int
    BY <2>2 DEF FitsIn
  <2> HIDE DEF w
  <2>5. b \in Bytes /\ Length(b) = w
    BY <2>3, <2>4, BigEndianTyped DEF Length
  <2>6. FromBigEndian(b) = v
    BY <2>2, <2>3, RoundTrip
  <2> HIDE DEF b
  <2>7. Deserialized(T, b) = Val(v)
    BY <1>6, <2>5, <2>6, ReadKinds DEF w, IsNumber
  <2>8. Meaning(T, S, v) = Val(v)
    BY <1>6, <2>3, MeaningOfKinds
  <2> QED
    BY <1>2, <1>6, <2>2, <2>7, <2>8 DEF ReadAs
<1> QED
  BY <1>1, <1>3, <1>4, <1>5, <1>6, <1>7

\* What the server sends begins with its header.
LEMMA SentStarts ==
  ASSUME NEW S \in Types, HasParts(S), NEW v \in Data[S], ~NoItems(S, v)
  PROVE  LET b == Sends(S, v)
             hd == SentHeader(S, v)
         IN  /\ b \in Bytes /\ Length(hd) <= Length(b)
             /\ \A p \in Nat : \A x : p + 4 <= Length(hd) /\ WordAt(hd, p, x) => WordAt(b, p, x)
<1> DEFINE hd == SentHeader(S, v)
           c == Concatenated(PartsSent(S, v))
           b == Sends(S, v)
<1>1. PICK n : DataPartsAre(S, v, n)
  BY DataParts
<1>2. \A i \in 1 .. n : v[i] # Null => Body(S, v, i) \in Bytes
  BY <1>1, SentTyped DEF DataPartsAre, Body
<1>3. PartsSent(S, v) \in PartLists
  BY <1>1, <1>2, PartsSentListed
<1>4. hd \in Bytes
  BY SentHeaderIs
<1>5. c \in Bytes
  BY <1>3, <1>4, Placement
<1>6. b = hd \o c
  BY SendKinds
<1> HIDE DEF hd, c, b
<1>7. Joins(b, hd, c) /\ Splits(b, hd, c)
  BY <1>4, <1>5, <1>6, Joined, CutOfJoin
<1>8. b \in Bytes /\ Length(hd) <= Length(b)
  <2>1. b \in Bytes /\ Length(b) = Length(hd) + Length(c)
    BY <1>7 DEF Joins
  <2>2. Length(hd) \in Nat /\ Length(c) \in Nat
    BY <1>4, <1>5, LengthTyped
  <2> QED
    BY <2>1, <2>2
<1>9. ASSUME NEW p \in Nat, NEW x, p + 4 <= Length(hd), WordAt(hd, p, x) PROVE WordAt(b, p, x)
  <2>1. p + 4 \in Nat /\ p <= p + 4
    OBVIOUS
  <2>2. Cut(b, p, p + 4) = Cut(hd, p, p + 4)
    BY <1>7, <1>9, <2>1 DEF Splits
  <2> QED
    BY <1>9, <2>2 DEF WordAt
<1> QED
  BY <1>8, <1>9 DEF hd, b

LEMMA PartsFaithful ==
  ASSUME NEW n \in Nat, NEW ds, DOMAIN ds = 1 .. n, NEW rs, DOMAIN rs = 1 .. n,
         rs = [i \in 1 .. n |-> rs[i]], ds = [i \in 1 .. n |-> ds[i]],
         \A i \in 1 .. n : ds[i].st # "unspecified" => rs[i] = ds[i]
  PROVE  MeaningOfParts(ds).st = "unspecified" \/ AllOf(rs) = MeaningOfParts(ds)
<1>1. CASE \E i \in 1 .. n : ds[i].st = "unspecified"
  BY <1>1, UnknownIs DEF MeaningOfParts
<1>2. CASE ~(\E i \in 1 .. n : ds[i].st = "unspecified")
  <2>1. \A i \in 1 .. n : rs[i] = ds[i]
    BY <1>2
  <2>2. rs = ds
    BY <2>1
  <2>3. MeaningOfParts(ds) = AllOf(ds)
    BY <1>2 DEF MeaningOfParts
  <2> QED
    BY <2>2, <2>3
<1> QED
  BY <1>1, <1>2

\* A member by member reading of a composite value.
LEMMA MembersFaithful ==
  ASSUME NEW T \in Types, IsComposite(T), NEW S \in Types, IsComposite(S), NEW v \in Data[S],
         SameComposite(T, S),
         \A i \in DOMAIN T.of : \A U \in Types : \A w \in Data[U] \union {Null} : Faithful(T.of[i], U, w)
  PROVE  Faithful(T, S, v)
<1> DEFINE b == Sends(S, v)
           hd == SentHeader(S, v)
           ds == [i \in DOMAIN T.of |-> Meaning(T.of[i], S.of[i], v[i])]
<1>1. Meaning(T, S, v) = IF Len(T.of) # Len(S.of) THEN Throws ELSE MeaningOfParts(ds)
  BY MeaningOfMembers
<1>2. v # Null /\ HasParts(S) /\ ~NoItems(S, v) /\ S.k # "array" /\ HeadSize(S) = 8
  BY DataTyped DEF HasParts, NoItems, IsComposite, HeadSize
<1>3. hd \in Bytes /\ Length(hd) = 4 /\ WordAt(hd, 0, Len(S.of))
  BY <1>2, SentHeaderIs
<1>4. b \in Bytes /\ 4 <= Length(b) /\ WordAt(b, 0, Len(S.of))
  <2>1. /\ b \in Bytes /\ Length(hd) <= Length(b)
        /\ \A p \in Nat : \A x : p + 4 <= Length(hd) /\ WordAt(hd, p, x) => WordAt(b, p, x)
    BY <1>2, SentStarts
  <2>2. 0 \in Nat /\ 0 + 4 <= Length(hd)
    BY <1>3
  <2> HIDE DEF b, hd
  <2> QED
    BY <1>3, <2>1, <2>2
<1>5. OidsAgree(ExpectedOid(T), OidOf(S))
  BY OidsTell DEF Told, SameKind, SameComposite, IsComposite
<1> HIDE DEF b
<1>6. ReadAs(T, S, v) = IF Len(S.of) # Len(T.of) THEN Throws ELSE MembersRead(T, b)
  BY <1>4, <1>5, ReadMembers DEF ReadAs, b
<1>7. CASE Len(T.of) # Len(S.of)
  BY <1>1, <1>2, <1>6, <1>7 DEF Faithful
<1>8. CASE Len(T.of) = Len(S.of)
  <2>1. PICK n : DataPartsAre(S, v, n)
    BY <1>2, DataParts
  <2>2. n \in Nat /\ n = Len(S.of) /\ DOMAIN S.of = 1 .. n /\ DOMAIN T.of = 1 .. n /\ Len(T.of) = n
    BY <1>8, <2>1, Kinds DEF DataPartsAre
  <2>3. \A i \in 1 .. n : /\ T.of[i] \in Types /\ S.of[i] \in Types /\ PartType(S, i) = S.of[i]
                          /\ v[i] \in Data[S.of[i]] \union {Null}
    BY <1>2, <2>1, <2>2, Kinds DEF DataPartsAre, PartType
  <2>4. \A i \in 1 .. n : ds[i] = Meaning(T.of[i], S.of[i], v[i])
    BY <2>2
  <2>5. DOMAIN ds = 1 .. n /\ ds = [i \in 1 .. n |-> ds[i]]
    BY <2>2
  <2>6. Meaning(T, S, v) = MeaningOfParts(ds)
    BY <1>1, <1>8
  <2> HIDE DEF ds
  <2>7. CASE \E i \in 1 .. n : v[i] = Null
    <3>1. PICK i \in 1 .. n : v[i] = Null
      BY <2>7
    <3>2. ds[i].st = "unspecified"
      BY <2>3, <2>4, <3>1, MeaningOfNull
    <3>3. MeaningOfParts(ds).st = "unspecified"
      BY <2>5, <3>2, UnknownIs DEF MeaningOfParts
    <3> QED
      BY <2>6, <3>3 DEF Faithful
  <2>8. CASE \A i \in 1 .. n : v[i] # Null
    <3>1. PICK heads, bodies :
             /\ Encodes(Sends(S, v), SentHeader(S, v), HeadSize(S), n, heads, bodies)
             /\ \A i \in 1 .. n :
                  /\ bodies[i] = Body(S, v, i)
                  /\ PartIs(PartsSent(S, v)[i], HeadSize(S), heads[i], OidOf(PartType(S, i)), bodies[i])
      BY <1>2, <2>1, <2>8, DataEncoded
    <3> DEFINE at == Offsets(b, 4, 8, n)
               rs == [i \in 1 .. n |-> MemberRead(b, at[i - 1], T.of[i], Readers[T.of[i]])]
    <3>2. MembersRead(T, b) = AllOf(rs)
      BY <2>2 DEF MembersRead
    <3>3. Encodes(b, hd, 8, n, heads, bodies)
      BY <1>2, <3>1 DEF b
    <3>4. ASSUME NEW i \in 1 .. n PROVE rs[i] = ReadAs(T.of[i], S.of[i], v[i])
      <4> DEFINE p == at[i - 1]
      <4>1. /\ bodies[i] = Sends(S.of[i], v[i])
            /\ PartIs(PartsSent(S, v)[i], 8, heads[i], OidOf(S.of[i]), bodies[i])
        BY <1>2, <2>3, <3>1 DEF Body
      <4>2. bodies[i] \in Bytes
        BY <4>1 DEF PartIs
      <4>3. HasPart(b, p, 8, bodies[i]) /\ WordAt(b, p, OidOf(S.of[i]))
        <5> DEFINE h == 8
        <5>1. h \in {4, 8} /\ Encodes(b, hd, h, n, heads, bodies)
              /\ PartIs(PartsSent(S, v)[i], h, heads[i], OidOf(S.of[i]), bodies[i]) /\ h = 8
          BY <3>3, <4>1
        <5> HIDE DEF h, at
        <5>2. LET q == Offsets(b, Length(hd), h, n)[i - 1]
              IN  HasPart(b, q, h, bodies[i]) /\ (h = 8 => WordAt(b, q, OidOf(S.of[i])))
          BY <5>1, PartAt
        <5> QED
          BY <1>3, <5>1, <5>2 DEF h, at
      <4> HIDE DEF p
      <4>4. MemberRead(b, p, T.of[i], Readers[T.of[i]])
              = IF OidsAgree(ExpectedOid(T.of[i]), OidOf(S.of[i])) THEN Readers[T.of[i]][bodies[i]] ELSE Throws
        BY <1>4, <4>2, <4>3, MemberReadIs
      <4>5. rs[i] = MemberRead(b, p, T.of[i], Readers[T.of[i]])
        BY DEF p
      <4> QED
        BY <4>1, <4>4, <4>5 DEF ReadAs, Deserialized
    <3> HIDE DEF at
    <3>5. DOMAIN rs = 1 .. n /\ rs = [i \in 1 .. n |-> rs[i]]
      OBVIOUS
    <3> HIDE DEF rs
    <3>6. \A i \in 1 .. n : ds[i].st # "unspecified" => rs[i] = ds[i]
      <4> TAKE i \in 1 .. n
      <4>1. i \in DOMAIN T.of /\ S.of[i] \in Types /\ v[i] \in Data[S.of[i]] \union {Null}
        BY <2>2, <2>3
      <4>2. Faithful(T.of[i], S.of[i], v[i])
        BY <4>1
      <4> QED
        BY <2>4, <3>4, <4>2 DEF Faithful
    <3>7. MeaningOfParts(ds).st = "unspecified" \/ AllOf(rs) = MeaningOfParts(ds)
      BY <2>2, <2>5, <3>5, <3>6, PartsFaithful
    <3> QED
      BY <1>2, <1>6, <1>8, <2>6, <3>2, <3>7 DEF Faithful
  <2> QED
    BY <2>7, <2>8
<1> QED
  BY <1>7, <1>8

\* An item by item reading of an array.
LEMMA ItemsFaithful ==
  ASSUME NEW T \in Types, T.k = "array", NEW S \in Types, S.k = "array", NEW v \in Data[S],
         \A U \in Types : \A w \in Data[U] \union {Null} : Faithful(T.of[1], U, w)
  PROVE  Faithful(T, S, v)
<1> DEFINE b == Sends(S, v)
           hd == SentHeader(S, v)
           Same == T.of[1].k = "udt" \/ T.of[1].k = S.of[1].k
           ds == [i \in DOMAIN v |-> Meaning(T.of[1], S.of[1], v[i])]
<1>1. /\ v # Null /\ HasParts(S) /\ (NoItems(S, v) <=> v = <<>>) /\ HeadSize(S) = 4 /\ ~IsComposite(S)
      /\ T.of[1] \in Types /\ S.of[1] \in Types /\ T.of[1].k # "array" /\ S.of[1].k # "array"
  BY DataTyped, Kinds DEF HasParts, NoItems, IsComposite, HeadSize
<1>2. /\ OidsAgree(ExpectedOid(T), OidOf(S)) <=> Same
      /\ OidsAgree(ExpectedOid(T.of[1]), OidOf(S.of[1])) <=> Same
  BY <1>1, OidsTell DEF Told, SameKind
<1>3. CASE ~Same
  BY <1>1, <1>2, <1>3, MeaningOfItems DEF Faithful, ReadAs
<1>4. CASE Same /\ v = <<>>
  <2>1. Meaning(T, S, v) = Throws
    BY <1>4, MeaningOfItems
  <2>2. b = Word(0) \o Word(0) \o Word(OidOf(S.of[1]))
    BY <1>1, <1>4, SendKinds
  <2>3. OidOf(S.of[1]) \in Int /\ FitsIn(0, 4) /\ FitsIn(OidOf(S.of[1]), 4)
    BY <1>1, OidsTyped, SmallFits
  <2>4. 4 <= Length(b) /\ WordAt(b, 0, 0)
    <3> DEFINE w0 == Word(0)
               w1 == w0 \o Word(0)
               w2 == w1 \o Word(OidOf(S.of[1]))
    <3>1. w0 \in Bytes /\ Length(w0) = 4 /\ Cut(w0, 0, 4) = w0 /\ FromBigEndian(w0) = 0
      BY <2>3, WordTyped, WordCut, WordRead
    <3> HIDE DEF w0
    <3>2. Extended(w1, w0, 0)
      BY <2>3, <3>1, WordAppended DEF w0
    <3> HIDE DEF w1
    <3>3. w1 \in Bytes
      BY <3>2 DEF Extended
    <3>4. Extended(w2, w1, OidOf(S.of[1]))
      BY <2>3, <3>3, WordAppended
    <3> HIDE DEF w2
    <3>5. Length(w1) = 8 /\ Length(w2) = 12
      BY <3>1, <3>2, <3>4 DEF Extended
    <3>6. Cut(w2, 0, 4) = Cut(w1, 0, 4) /\ Cut(w1, 0, 4) = Cut(w0, 0, 4)
      BY <3>1, <3>2, <3>4, <3>5 DEF Extended
    <3>7. w2 = b
      BY <2>2 DEF w2, w1, w0
    <3>8. FromBigEndian(Cut(b, 0, 4)) = 0 /\ 0 + 4 = 4
      BY <3>1, <3>6, <3>7
    <3> QED
      BY <3>5, <3>7, <3>8 DEF WordAt
  <2>5. b \in Bytes
    BY SentTyped
  <2>6. Deserialized(T, b) = Throws
    <3> HIDE DEF b
    <3>1. 0 # 1
      OBVIOUS
    <3> QED
      BY <2>4, <2>5, <3>1, ReadItems
  <2> QED
    BY <1>1, <2>1, <2>6 DEF Faithful, ReadAs
<1>5. CASE Same /\ v # <<>>
  <2>1. PICK n : DataPartsAre(S, v, n)
    BY <1>1, DataParts
  <2>2. n \in Nat /\ n = Len(v) /\ DOMAIN v = 1 .. n /\ n # 0
    BY <1>5, <2>1 DEF DataPartsAre
  <2>3. \A i \in 1 .. n : PartType(S, i) = S.of[1] /\ v[i] \in Data[S.of[1]] \union {Null}
    BY <2>1 DEF DataPartsAre, PartType
  <2>4. \A i \in 1 .. n : ds[i] = Meaning(T.of[1], S.of[1], v[i])
    BY <2>2
  <2>5. DOMAIN ds = 1 .. n /\ ds = [i \in 1 .. n |-> ds[i]]
    BY <2>2
  <2>6. Meaning(T, S, v) = MeaningOfParts(ds)
    BY <1>5, MeaningOfItems
  <2> HIDE DEF ds
  <2>7. CASE \E i \in 1 .. n : v[i] = Null
    <3>1. PICK i \in 1 .. n : v[i] = Null
      BY <2>7
    <3>2. ds[i].st = "unspecified"
      BY <1>1, <2>4, <3>1, MeaningOfNull
    <3>3. MeaningOfParts(ds).st = "unspecified"
      BY <2>5, <3>2, UnknownIs DEF MeaningOfParts
    <3> QED
      BY <2>6, <3>3 DEF Faithful
  <2>8. CASE \A i \in 1 .. n : v[i] # Null
    <3>1. PICK heads, bodies :
             /\ Encodes(Sends(S, v), SentHeader(S, v), HeadSize(S), n, heads, bodies)
             /\ \A i \in 1 .. n :
                  /\ bodies[i] = Body(S, v, i)
                  /\ PartIs(PartsSent(S, v)[i], HeadSize(S), heads[i], OidOf(PartType(S, i)), bodies[i])
      BY <1>1, <1>5, <2>1, <2>8, DataEncoded
    <3> DEFINE at == Offsets(b, 20, 4, n)
               rs == [i \in 1 .. n |-> ItemRead(b, at[i - 1], Readers[T.of[1]])]
    <3>2. ItemsRead(T, b, n) = AllOf(rs)
      BY DEF ItemsRead
    <3>3. Encodes(b, hd, 4, n, heads, bodies)
      BY <1>1, <3>1
    <3>4. /\ hd \in Bytes /\ Length(hd) = 20
          /\ WordAt(hd, 0, 1) /\ WordAt(hd, 8, OidOf(S.of[1])) /\ WordAt(hd, 12, n)
      BY <1>1, <2>2, SentHeaderIs
    <3> HIDE DEF b, hd
    <3>5. b \in Bytes /\ 20 <= Length(b) /\ n <= Length(b)
      BY <3>3, <3>4 DEF Encodes, Laid
    <3>6. WordAt(b, 0, 1) /\ WordAt(b, 8, OidOf(S.of[1])) /\ WordAt(b, 12, n)
      <4>1. \A p \in Nat : \A x : p + 4 <= 20 /\ WordAt(hd, p, x) => WordAt(b, p, x)
        BY <3>3, <3>4 DEF Encodes
      <4> QED
        BY <3>4, <4>1
    <3>7. ReadAs(T, S, v) = AllOf(rs)
      <4>1. 4 <= Length(b) /\ OidsAgree(ExpectedOid(T.of[1]), OidOf(S.of[1]))
        BY <1>2, <1>5, <3>5, LengthTyped
      <4>2. Deserialized(T, b) = ItemsRead(T, b, n)
        BY <2>2, <3>5, <3>6, <4>1, ReadItems
      <4> QED
        BY <1>2, <1>5, <3>2, <4>2 DEF ReadAs, b
    <3>8. ASSUME NEW i \in 1 .. n PROVE rs[i] = ReadAs(T.of[1], S.of[1], v[i])
      <4> DEFINE p == at[i - 1]
      <4>1. /\ bodies[i] = Sends(S.of[1], v[i])
            /\ PartIs(PartsSent(S, v)[i], 4, heads[i], OidOf(S.of[1]), bodies[i])
        BY <1>1, <2>3, <3>1 DEF Body
      <4>2. bodies[i] \in Bytes
        BY <4>1 DEF PartIs
      <4>3. HasPart(b, p, 4, bodies[i])
        <5> DEFINE h == 4
        <5>1. h \in {4, 8} /\ Encodes(b, hd, h, n, heads, bodies)
              /\ PartIs(PartsSent(S, v)[i], h, heads[i], OidOf(S.of[1]), bodies[i])
          BY <3>3, <4>1
        <5> HIDE DEF h, at
        <5>2. LET q == Offsets(b, Length(hd), h, n)[i - 1]
              IN  HasPart(b, q, h, bodies[i])
          BY <5>1, PartAt
        <5> QED
          BY <3>4, <5>2 DEF h, at
      <4> HIDE DEF p
      <4>4. ItemRead(b, p, Readers[T.of[1]]) = Readers[T.of[1]][bodies[i]]
        BY <3>5, <4>2, <4>3, ItemReadIs
      <4>5. rs[i] = ItemRead(b, p, Readers[T.of[1]])
        BY DEF p
      <4> QED
        BY <1>2, <1>5, <4>1, <4>4, <4>5 DEF ReadAs, Deserialized
    <3> HIDE DEF at
    <3>9. DOMAIN rs = 1 .. n /\ rs = [i \in 1 .. n |-> rs[i]]
      OBVIOUS
    <3> HIDE DEF rs
    <3>10. \A i \in 1 .. n : ds[i].st # "unspecified" => rs[i] = ds[i]
      BY <1>1, <2>3, <2>4, <3>8 DEF Faithful
    <3>11. MeaningOfParts(ds).st = "unspecified" \/ AllOf(rs) = MeaningOfParts(ds)
      BY <2>2, <2>5, <3>9, <3>10, PartsFaithful
    <3> QED
      BY <1>1, <2>6, <3>7, <3>11 DEF Faithful
  <2> QED
    BY <2>7, <2>8
<1> QED
  BY <1>3, <1>4, <1>5

\* Asked for a type, of a value of any type the server has: deserialize_impl returns
\* the value, or throws where the types or the counts of members differ or an array
\* is empty, and never reads beyond the bytes.  Meaning excepts, also of parts, a
\* null, an instant the clock does not reach, a std::byte asked for of a bytea that
\* is not one byte, and a user-defined type asked for of another type.
THEOREM ReadFaithful ==
  ASSUME NEW T \in Types, NEW S \in Types, NEW v \in Data[S] \union {Null}
  PROVE  Faithful(T, S, v)
<1> DEFINE Q == {U \in Types : \A R \in Types : \A w \in Data[R] \union {Null} : Faithful(U, R, w)}
<1>1. ASSUME NEW U \in Types, \A i \in DOMAIN U.of : U.of[i] \in Q PROVE U \in Q
  <2> SUFFICES ASSUME NEW R \in Types, NEW w \in Data[R] \union {Null} PROVE Faithful(U, R, w)
    OBVIOUS
  <2>1. CASE w = Null
    BY <2>1, MeaningOfNull DEF Faithful
  <2>2. CASE w # Null /\ ~HasParts(U)
    BY <2>2, KindsFaithful DEF Faithful
  <2>3. CASE w # Null /\ U.k = "array"
    <3>1. U.of[1] \in Q /\ ~IsComposite(U)
      BY <1>1, <2>3, Kinds DEF IsComposite
    <3>2. CASE R.k = "array"
      BY <2>3, <3>1, <3>2, ItemsFaithful
    <3>3. CASE R.k # "array" /\ U.of[1].k = "udt"
      BY <2>3, <3>3, MeaningOfItems DEF Faithful
    <3>4. CASE R.k # "array" /\ U.of[1].k # "udt"
      <4>1. ~OidsAgree(ExpectedOid(U), OidOf(R))
        BY <2>3, <3>4, OidsTell DEF Told, SameKind
      <4> QED
        BY <2>3, <3>4, <4>1, MeaningOfItems DEF Faithful, ReadAs
    <3> QED
      BY <3>2, <3>3, <3>4
  <2>4. CASE w # Null /\ IsComposite(U)
    <3>1. \A i \in DOMAIN U.of : \A P \in Types : \A x \in Data[P] \union {Null} : Faithful(U.of[i], P, x)
      BY <1>1
    <3>2. CASE U.k = "udt" /\ ~SameComposite(U, R)
      BY <2>4, <3>2, MeaningOfMembers DEF Faithful
    <3>3. CASE U.k = "tuple" /\ R.k # "tuple"
      <4>1. ~OidsAgree(ExpectedOid(U), OidOf(R))
        BY <3>3, OidsTell DEF Told, SameKind
      <4> QED
        BY <2>4, <3>3, <4>1, MeaningOfMembers DEF Faithful, ReadAs, SameComposite
    <3>4. CASE SameComposite(U, R)
      <4>1. IsComposite(R)
        BY <3>4 DEF IsComposite, SameComposite
      <4> QED
        BY <2>4, <3>1, <3>4, <4>1, MembersFaithful
    <3> QED
      BY <2>4, <3>2, <3>3, <3>4 DEF IsComposite, SameComposite
  <2> QED
    BY <2>1, <2>2, <2>3, <2>4 DEF HasParts
<1>2. Q = Types
  <2>1. Q \in SUBSET Types
    OBVIOUS
  <2> HIDE DEF Q
  <2> QED
    BY <1>1, <2>1, TypeInduction
<1> QED
  BY <1>2

-----------------------------------------------------------------------------
(* What a program reads: ReadTruthful of the answer a and what was read, g *)

Cell(a, T, r, c) ==
  IF r \in 1 .. Len(a.rows) /\ c \in 1 .. Len(a.types) THEN Meaning(T, a.types[c], a.rows[r][c]) ELSE Throws
RowOf(a, Ts, r) == [j \in DOMAIN Ts |-> Cell(a, Ts[j], r, j)]
TypesAsked(a, ts) == IF ts = 0 THEN a.types ELSE Reads[ts]

FitsAll(g, cells) ==
  \/ \E i \in DOMAIN cells : cells[i].st = "unspecified"
  \/ LET all == AllOf(cells) IN g.st = all.st /\ (all.st = "value" => g.val = all.val)
FitsOne(g, cell) ==
  cell.st = "unspecified" \/ (g.st = cell.st /\ (cell.st = "value" => g.val = cell.val))

Truth(a, g) ==
  g.how # "none" =>
    LET Ts == TypesAsked(a, g.ts)
    IN  CASE g.how = "result" -> FitsAll(g, IF Len(a.rows) = 0 THEN <<Throws>> ELSE RowOf(a, Ts, 1))
          [] g.how = "rows" ->
               \/ \E r \in 1 .. Len(a.rows) : \E i \in DOMAIN RowOf(a, Ts, r) : RowOf(a, Ts, r)[i].st = "unspecified"
               \/ FitsAll(g, [r \in 1 .. Len(a.rows) |-> AllOf(RowOf(a, Ts, r))])
          [] g.how = "at" -> FitsOne(g, Cell(a, Ts[1], g.r + 1, g.c + 1))
          [] g.how = "index" ->
               \/ ~(g.r \in 0 .. Len(a.rows) - 1 /\ g.c \in 0 .. Len(a.types) - 1)
               \/ FitsOne(g, Cell(a, Ts[1], g.r + 1, g.c + 1))
          [] g.how = "name" ->
               \/ g.c = Len(a.types) /\ g.st = "throw"
               \/ \E c \in 1 .. Len(a.types) :
                    /\ g.c < Len(a.types) /\ a.names[c] = a.names[g.c + 1]
                    /\ FitsOne(g, Cell(a, Ts[1], 1, c))

LEMMA TruthIs == ReadTruthful <=> Truth(answer, got)
BY DEF ReadTruthful, Truth, Cell, RowOf, TypesAsked, FitsAll, FitsOne, Ntuples, Nfields

LEMMA TruthNext == ReadTruthful' <=> Truth(answer', got')
BY DEF ReadTruthful, Truth, Cell, RowOf, TypesAsked, FitsAll, FitsOne, Ntuples, Nfields

LEMMA AnswerTyped ==
  ASSUME IsAnswer(answer)
  PROVE  /\ Ntuples \in Nat /\ Ntuples < SizeRange /\ Nfields \in Nat /\ Nfields < SizeRange
         /\ Ntuples = Len(answer.rows) /\ Nfields = Len(answer.types)
         /\ \A c \in 1 .. Nfields : answer.types[c] \in Types /\ answer.names[c] # "nobody"
         /\ \A r \in 1 .. Ntuples : \A c \in 1 .. Nfields : answer.rows[r][c] \in Data[answer.types[c]] \union {Null}
<1>1. Nfields \in Nat /\ DOMAIN answer.types = 1 .. Nfields /\ \A c \in 1 .. Nfields : answer.types[c] \in Types
  BY DEF IsAnswer, Nfields
<1>2. SizeRange \in Nat
  BY DEF SizeRange
<1>3. Ntuples \in Nat /\ Ntuples < SizeRange /\ DOMAIN answer.rows = 1 .. Ntuples
  BY <1>2 DEF IsAnswer, Ntuples
<1> QED
  BY <1>1, <1>3 DEF IsAnswer, Ntuples, Nfields

\* The cells are numbered from 0 by the library, from 1 here.
LEMMA FieldRead ==
  ASSUME IsAnswer(answer), NEW T \in Types, NEW r \in 1 .. Ntuples, NEW c \in 1 .. Nfields
  PROVE  \/ Cell(answer, T, r, c).st = "unspecified"
         \/ AsField(T, r - 1, c - 1) = Cell(answer, T, r, c)
<1> DEFINE S == answer.types[c]
           v == answer.rows[r][c]
<1>1. S \in Types /\ v \in Data[S] \union {Null}
  BY AnswerTyped
<1>2. /\ (r - 1) + 1 = r /\ (c - 1) + 1 = c /\ r - 1 \in 0 .. Ntuples - 1 /\ c - 1 \in 0 .. Nfields - 1
  BY AnswerTyped
<1>3. Cell(answer, T, r, c) = Meaning(T, S, v)
  BY AnswerTyped DEF Cell
<1>4. v # Null => AsField(T, r - 1, c - 1) = ReadAs(T, S, v)
  BY <1>2 DEF AsField, ReadAs
<1> HIDE DEF S, v
<1>5. Faithful(T, S, v)
  BY <1>1, ReadFaithful
<1> QED
  BY <1>3, <1>4, <1>5 DEF Faithful

LEMMA RestIs ==
  ASSUME NEW a \in Int, NEW R \in Nat \ {0}, NEW q \in Int, NEW r \in Int, 0 <= r, r < R, a = q * R + r
  PROVE  (a % R) = r
<1> DEFINE p == a \div R
           m == a % R
<1>1. p \in Int /\ m \in Int /\ 0 <= m /\ m < R /\ p * R + m = a
  OBVIOUS
<1>2. p = q
  BY QuotientIs
<1> HIDE DEF p, m
<1>3. m = r
  <2>1. q * R \in Int
    OBVIOUS
  <2> QED
    BY <1>1, <1>2, <2>1
<1> QED
  BY <1>3 DEF m

LEMMA AsSizeIs ==
  ASSUME NEW a \in Int, NEW q \in Int, NEW r \in Int, 0 <= r, r < SizeRange, a = q * SizeRange + r
  PROVE  AsSize(a) = r
<1>1. SizeRange \in Nat \ {0}
  BY DEF SizeRange
<1>2. (a % SizeRange) = r
  BY <1>1, RestIs
<1> QED
  BY <1>2 DEF AsSize

\* static_cast<size_t>: -1 is beyond every number of rows or columns.
LEMMA CheckedIs ==
  ASSUME NEW n \in Nat, n < SizeRange, NEW i \in Int, -1 <= i, i < SizeRange
  PROVE  Checked(i, n) <=> 0 <= i /\ i < n
<1>1. SizeRange = 65536
  BY DEF SizeRange
<1>2. CASE i = -1
  <2>1. 65535 \in Int /\ -1 \in Int /\ i = (-1) * SizeRange + 65535 /\ 0 <= 65535 /\ 65535 < SizeRange
    BY <1>1, <1>2
  <2>2. AsSize(i) = 65535
    BY <2>1, AsSizeIs
  <2> QED
    BY <1>1, <1>2, <2>2 DEF Checked
<1>3. CASE 0 <= i
  <2>1. 0 \in Int /\ i = 0 * SizeRange + i
    BY <1>1
  <2>2. AsSize(i) = i
    BY <1>3, <2>1, AsSizeIs
  <2> QED
    BY <1>1, <1>3, <2>2 DEF Checked
<1> QED
  BY <1>2, <1>3

LEMMA RowAtRead ==
  ASSUME IsAnswer(answer), NEW T \in Types, NEW r \in 1 .. Ntuples, NEW c \in Int, 0 <= c, c <= SizeRange
  PROVE  \/ Cell(answer, T, r, c).st = "unspecified"
         \/ AsRowAt(T, r - 1, c - 1) = Cell(answer, T, r, c)
<1>1. Nfields \in Nat /\ Nfields < SizeRange /\ Nfields = Len(answer.types) /\ SizeRange = 65536
  BY AnswerTyped DEF SizeRange
<1> DEFINE d == c - 1
<1>2. d \in Int /\ -1 <= d /\ d < SizeRange
  BY <1>1
<1>3. Checked(d, Nfields) <=> 0 <= d /\ d < Nfields
  <2> HIDE DEF d
  <2> QED
    BY <1>1, <1>2, CheckedIs
<1>4. CASE c \in 1 .. Nfields
  <2>1. Checked(d, Nfields)
    BY <1>1, <1>3, <1>4
  <2> QED
    BY <1>4, <2>1, FieldRead DEF AsRowAt
<1>5. CASE c \notin 1 .. Nfields
  <2>1. ~Checked(d, Nfields)
    BY <1>1, <1>3, <1>5
  <2> QED
    BY <1>1, <1>5, <2>1 DEF AsRowAt, Cell
<1> QED
  BY <1>4, <1>5

\* The types of a row's columns.
AreAsked(Ts) == Ts \in Seq(Types) /\ Len(Ts) < SizeRange

LEMMA AskedTyped ==
  ASSUME IsAnswer(answer), NEW ts \in DOMAIN Reads \union {0}
  PROVE  AreAsked(TypesAsked(answer, ts))
BY ProgramAssumption DEF IsAnswer, TypesAsked, AreAsked

LEMMA AskedParts ==
  ASSUME NEW Ts, AreAsked(Ts)
  PROVE  /\ Len(Ts) \in Nat /\ Len(Ts) < SizeRange /\ DOMAIN Ts = 1 .. Len(Ts)
         /\ \A j \in 1 .. Len(Ts) : Ts[j] \in Types
BY DEF AreAsked

LEMMA RowRead ==
  ASSUME IsAnswer(answer), NEW Ts, AreAsked(Ts), NEW r \in 1 .. Ntuples
  PROVE  \/ \E j \in DOMAIN RowOf(answer, Ts, r) : RowOf(answer, Ts, r)[j].st = "unspecified"
         \/ AsRow(Ts, r - 1) = AllOf(RowOf(answer, Ts, r))
<1> DEFINE cells == RowOf(answer, Ts, r)
           read == [j \in DOMAIN Ts |-> AsRowAt(Ts[j], r - 1, Column(j))]
<1>1. /\ Len(Ts) \in Nat /\ Len(Ts) < SizeRange /\ DOMAIN Ts = 1 .. Len(Ts)
      /\ \A j \in 1 .. Len(Ts) : Ts[j] \in Types
  BY AskedParts
<1>2. AsRow(Ts, r - 1) = AllOf(read)
  BY DEF AsRow
<1>3. ASSUME NEW j \in DOMAIN Ts PROVE cells[j].st = "unspecified" \/ read[j] = cells[j]
  <2>1. j \in Int /\ 0 <= j /\ j <= SizeRange /\ Ts[j] \in Types
    <3>1. SizeRange \in Int
      BY DEF SizeRange
    <3> QED
      BY <1>1, <3>1
  <2>2. Column(j) = j - 1
    BY <2>1 DEF Column
  <2>3. Cell(answer, Ts[j], r, j).st = "unspecified" \/ AsRowAt(Ts[j], r - 1, j - 1) = Cell(answer, Ts[j], r, j)
    BY <2>1, RowAtRead
  <2>4. cells[j] = Cell(answer, Ts[j], r, j) /\ read[j] = AsRowAt(Ts[j], r - 1, Column(j))
    BY DEF RowOf
  <2> QED
    BY <2>2, <2>3, <2>4
<1>4. DOMAIN cells = DOMAIN Ts /\ cells = [j \in DOMAIN Ts |-> cells[j]] /\ read = [j \in DOMAIN Ts |-> read[j]]
  BY DEF RowOf
<1> HIDE DEF cells, read
<1>5. CASE \A j \in DOMAIN Ts : cells[j].st # "unspecified"
  <2>1. read = cells
    BY <1>3, <1>4, <1>5
  <2> QED
    BY <1>2, <2>1 DEF cells
<1>6. CASE ~(\A j \in DOMAIN Ts : cells[j].st # "unspecified")
  BY <1>4, <1>6 DEF cells
<1> QED
  BY <1>5, <1>6

-----------------------------------------------------------------------------
(* The loop over the rows *)

IsList(f, n) == f = [k \in 1 .. n |-> f[k]]

LEMMA AppendedNext ==
  ASSUME NEW m \in Nat, NEW f, NEW g, IsList(f, m), IsList(g, m + 1),
         \A k \in 1 .. m : f[k] = g[k]
  PROVE  Append(f, g[m + 1]) = g
<1> DEFINE W == {g[k] : k \in 1 .. m + 1}
           x == g[m + 1]
<1>1. x \in W /\ \A k \in 1 .. m : g[k] \in W
  OBVIOUS
<1>2. g \in [1 .. m + 1 -> W]
  BY DEF IsList
<1> HIDE DEF W
<1>3. f \in [1 .. m -> W]
  BY <1>1 DEF IsList
<1>4. f \in Seq(W) /\ Len(f) = m
  BY <1>3
<1>5. g \in Seq(W) /\ Len(g) = m + 1 /\ g[m + 1] = x
  BY <1>2
<1> HIDE DEF x
<1>6. Append(f, x) \in Seq(W) /\ Len(Append(f, x)) = m + 1 /\ Append(f, x)[m + 1] = x
  BY <1>1, <1>4
<1>7. \A k \in 1 .. m : Append(f, x)[k] = f[k]
  BY <1>1, <1>4
<1>8. \A k \in 1 .. m + 1 : Append(f, x)[k] = g[k]
  BY <1>5, <1>6, <1>7
<1> DEFINE z == Append(f, x)
<1>9. z \in Seq(W) /\ Len(z) = m + 1 /\ \A k \in 1 .. m + 1 : z[k] = g[k]
  BY <1>6, <1>8
<1>10. g = [k \in 1 .. m + 1 |-> g[k]]
  BY DEF IsList
<1> HIDE DEF z
<1>11. z = [k \in 1 .. m + 1 |-> z[k]] /\ \A k \in 1 .. m + 1 : z[k] = g[k]
  BY <1>9
<1>12. z = g
  BY ONLY <1>10, <1>11
<1> QED
  BY ONLY <1>12 DEF x, z

LEMMA RowsAre ==
  ASSUME Ntuples \in Nat, NEW Ts
  PROVE  AsRows(Ts) = [r \in 1 .. Ntuples |-> AsRow(Ts, r - 1)]
<1> DEFINE n == Ntuples
           Unfolded(f) == [r \in 0 .. n |-> IF r = 0 THEN <<>> ELSE Append(f[r - 1], AsRow(Ts, r - 1))]
           w == [r \in 0 .. n |-> [k \in 1 .. r |-> AsRow(Ts, k - 1)]]
           h == CHOOSE f : f = Unfolded(f)
<1>1. ASSUME NEW r \in 1 .. n PROVE w[r] = Append(w[r - 1], AsRow(Ts, r - 1))
  <2> DEFINE m == r - 1
             a == w[m]
             b == w[r]
  <2>1. m \in Nat /\ r = m + 1 /\ m \in 0 .. n /\ r \in 0 .. n
    OBVIOUS
  <2>2. a = [k \in 1 .. m |-> AsRow(Ts, k - 1)] /\ b = [k \in 1 .. r |-> AsRow(Ts, k - 1)]
    BY <2>1
  <2>3. IsList(a, m) /\ IsList(b, m + 1)
    BY <2>1, <2>2 DEF IsList
  <2>4. \A k \in 1 .. m : a[k] = b[k]
    BY <2>1, <2>2
  <2>5. b[m + 1] = AsRow(Ts, r - 1)
    BY <2>1, <2>2
  <2> HIDE DEF a, b, m
  <2>6. Append(a, b[m + 1]) = b
    BY <2>1, <2>3, <2>4, AppendedNext
  <2>7. Append(a, AsRow(Ts, r - 1)) = b
    BY <2>5, <2>6
  <2> QED
    BY ONLY <2>7 DEF a, b, m
<1>2. w[0] = <<>>
  OBVIOUS
<1>3. w = Unfolded(w)
  BY <1>1, <1>2
<1> HIDE DEF w
<1>4. h = Unfolded(h)
  BY <1>3
<1>5. AsRows(Ts) = h[n]
  BY DEF AsRows
<1> HIDE DEF h
<1>6. h[0] = <<>> /\ \A r \in 1 .. n : h[r] = Append(h[r - 1], AsRow(Ts, r - 1))
  <2>1. \A r \in 0 .. n : h[r] = Unfolded(h)[r]
    BY ONLY <1>4
  <2>2. 0 \in 0 .. n /\ \A r \in 1 .. n : r \in 0 .. n /\ r # 0
    OBVIOUS
  <2>3. \A r \in 0 .. n : h[r] = IF r = 0 THEN <<>> ELSE Append(h[r - 1], AsRow(Ts, r - 1))
    BY <2>1
  <2> QED
    BY <2>2, <2>3
<1>7. h[n] = w[n]
  <2> DEFINE S == {k \in Nat : k <= n => h[k] = w[k]}
  <2>1. 0 \in S
    BY <1>2, <1>6
  <2>2. ASSUME NEW k \in S PROVE k + 1 \in S
    <3> SUFFICES ASSUME k + 1 <= n PROVE h[k + 1] = w[k + 1]
      OBVIOUS
    <3>1. k + 1 \in 1 .. n /\ (k + 1) - 1 = k /\ h[k] = w[k]
      OBVIOUS
    <3> QED
      BY <1>1, <1>6, <3>1
  <2>3. S = Nat
    <3> HIDE DEF S
    <3>1. S \in SUBSET Nat
      BY DEF S
    <3> QED
      BY <2>1, <2>2, <3>1, SetInduction
  <2>4. n \in S
    BY <2>3
  <2> QED
    BY <2>4
<1>8. w[n] = [k \in 1 .. n |-> AsRow(Ts, k - 1)]
  BY DEF w
<1> QED
  BY <1>5, <1>7, <1>8

-----------------------------------------------------------------------------
(* One way of reading after the other *)

Taken(how, ts, r, c, x) == [how |-> how, ts |-> ts, r |-> r, c |-> c, st |-> x.st, val |-> x.val]

LEMMA NothingToRead == AllOf(<<Throws>>) = Throws
<1> DEFINE ds == <<Throws>>
           first == CHOOSE i \in DOMAIN ds : (\A j \in 1 .. i - 1 : ds[j].st = "value") /\ ds[i].st # "value"
<1>1. DOMAIN ds = {1} /\ ds[1] = Throws /\ ds # <<>>
  OBVIOUS
<1>2. Throws.st # "value" /\ [st |-> Throws.st, val |-> <<>>] = Throws
  BY DEF Throws
<1> HIDE DEF ds
<1>3. first = 1
  <2>1. \A j \in 1 .. 1 - 1 : ds[j].st = "value"
    OBVIOUS
  <2> QED
    BY <1>1, <1>2, <2>1
<1> HIDE DEF first
<1>4. AllOf(ds) = [st |-> ds[first].st, val |-> <<>>]
  BY <1>1, <1>2 DEF AllOf, first
<1> QED
  BY <1>1, <1>2, <1>3, <1>4 DEF ds

LEMMA FitsWhatIsRead ==
  ASSUME NEW how, NEW ts, NEW r, NEW c, NEW x, NEW cells,
         (\E i \in DOMAIN cells : cells[i].st = "unspecified") \/ x = AllOf(cells)
  PROVE  FitsAll(Taken(how, ts, r, c, x), cells)
BY DEF FitsAll, Taken

LEMMA FitsCellRead ==
  ASSUME NEW how, NEW ts, NEW r, NEW c, NEW x, NEW cell, cell.st = "unspecified" \/ x = cell
  PROVE  FitsOne(Taken(how, ts, r, c, x), cell)
BY DEF FitsOne, Taken

LEMMA ResultTrue ==
  ASSUME IsAnswer(answer), NEW ts \in DOMAIN Reads \union {0}
  PROVE  Truth(answer, Taken("result", ts, 0, 0, AsResult(TypesAsked(answer, ts))))
<1> DEFINE Ts == TypesAsked(answer, ts)
           x == AsResult(Ts)
           g == Taken("result", ts, 0, 0, x)
           cells == IF Len(answer.rows) = 0 THEN <<Throws>> ELSE RowOf(answer, Ts, 1)
<1>1. AreAsked(Ts)
  BY AskedTyped
<1>2. Ntuples \in Nat /\ Ntuples < SizeRange /\ Ntuples = Len(answer.rows) /\ SizeRange \in Nat
  BY AnswerTyped DEF SizeRange
<1>3. Checked(0, Ntuples) <=> 0 < Ntuples
  BY <1>2, CheckedIs
<1> HIDE DEF Ts
<1> HIDE DEF x, cells
<1>6. (\E i \in DOMAIN cells : cells[i].st = "unspecified") \/ x = AllOf(cells)
  <2>1. CASE Ntuples = 0
    <3>1. x = Throws /\ cells = <<Throws>>
      BY <1>2, <1>3, <2>1 DEF AsResult, x, cells
    <3> QED
      BY <3>1, NothingToRead
  <2>2. CASE Ntuples # 0
    <3>1. 1 \in 1 .. Ntuples /\ 1 - 1 = 0
      BY <1>2, <2>2
    <3>2. x = AsRow(Ts, 0) /\ cells = RowOf(answer, Ts, 1)
      BY <1>2, <1>3, <2>2 DEF AsResult, x, cells
    <3>3. (\E j \in DOMAIN RowOf(answer, Ts, 1) : RowOf(answer, Ts, 1)[j].st = "unspecified") \/ AsRow(Ts, 1 - 1) = AllOf(RowOf(answer, Ts, 1))
      BY <1>1, <3>1, RowRead
    <3> QED
      BY <3>1, <3>2, <3>3
  <2> QED
    BY <2>1, <2>2
<1>7. FitsAll(g, cells)
  BY <1>6, FitsWhatIsRead
<1>8. g.how = "result" /\ g.ts = ts
  BY DEF Taken
<1> HIDE DEF g
<1>9. Truth(answer, g)
  BY <1>7, <1>8 DEF Truth, cells, Ts
<1> QED
  BY <1>9 DEF g, x, Ts

LEMMA RowsTrue ==
  ASSUME IsAnswer(answer), NEW ts \in DOMAIN Reads \union {0}
  PROVE  Truth(answer, Taken("rows", ts, 0, 0, AllOf(AsRows(TypesAsked(answer, ts)))))
<1> DEFINE Ts == TypesAsked(answer, ts)
           rows == AsRows(Ts)
           x == AllOf(rows)
           g == Taken("rows", ts, 0, 0, x)
           cells == [r \in 1 .. Len(answer.rows) |-> AllOf(RowOf(answer, Ts, r))]
           Open(r) == \E j \in DOMAIN RowOf(answer, Ts, r) : RowOf(answer, Ts, r)[j].st = "unspecified"
<1>1. AreAsked(Ts)
  BY AskedTyped
<1>2. Ntuples \in Nat /\ Ntuples = Len(answer.rows)
  BY AnswerTyped
<1>3. rows = [r \in 1 .. Ntuples |-> AsRow(Ts, r - 1)]
  BY <1>2, RowsAre
<1> HIDE DEF Ts
<1>4. ASSUME NEW r \in 1 .. Ntuples PROVE Open(r) \/ AsRow(Ts, r - 1) = AllOf(RowOf(answer, Ts, r))
  BY <1>1, RowRead
<1> HIDE DEF Open, rows
<1>5. (\E r \in 1 .. Ntuples : Open(r)) \/ rows = cells
  BY <1>2, <1>3, <1>4
<1> HIDE DEF cells
<1>6. FitsAll(g, cells) \/ \E r \in 1 .. Ntuples : Open(r)
  <2>1. CASE rows = cells
    <3>1. x = AllOf(cells)
      BY <2>1
    <3> HIDE DEF x
    <3> QED
      BY <3>1, FitsWhatIsRead
  <2> QED
    BY <1>5, <2>1
<1>7. g.how = "rows" /\ g.ts = ts
  BY DEF Taken
<1> HIDE DEF g
<1>8. Truth(answer, g)
  BY <1>2, <1>6, <1>7 DEF Truth, cells, Ts, Open
<1> QED
  BY <1>8 DEF g, x, rows, Ts

LEMMA AtTrue ==
  ASSUME IsAnswer(answer), NEW ts \in DOMAIN Reads \union {0}, Len(TypesAsked(answer, ts)) = 1,
         NEW r \in -1 .. Ntuples, NEW c \in -1 .. Nfields
  PROVE  Truth(answer, Taken("at", ts, r, c,
           IF Checked(r, Ntuples) THEN AsRowAt(TypesAsked(answer, ts)[1], r, c) ELSE Throws))
<1> DEFINE Ts == TypesAsked(answer, ts)
           x == IF Checked(r, Ntuples) THEN AsRowAt(Ts[1], r, c) ELSE Throws
           g == Taken("at", ts, r, c, x)
           i == r + 1
           k == c + 1
<1>1. Ts[1] \in Types
  <2> HIDE DEF Ts
  <2>1. AreAsked(Ts)
    BY AskedTyped DEF Ts
  <2> QED
    BY <2>1, AskedParts DEF Ts
<1>2. /\ Ntuples \in Nat /\ Ntuples < SizeRange /\ Ntuples = Len(answer.rows) /\ Nfields \in Nat /\ Nfields < SizeRange
      /\ SizeRange \in Nat
  BY AnswerTyped DEF SizeRange
<1>3. /\ r \in Int /\ -1 <= r /\ r < SizeRange
      /\ i \in Int /\ (i \in 1 .. Ntuples <=> 0 <= r /\ r < Ntuples) /\ i - 1 = r
      /\ k \in Int /\ 0 <= k /\ k <= SizeRange /\ k - 1 = c
  BY <1>2
<1>4. Checked(r, Ntuples) <=> 0 <= r /\ r < Ntuples
  BY <1>2, <1>3, CheckedIs
<1> HIDE DEF Ts, i, k
<1>5. Cell(answer, Ts[1], i, k).st = "unspecified" \/ x = Cell(answer, Ts[1], i, k)
  <2>1. CASE Checked(r, Ntuples)
    <3>1. Cell(answer, Ts[1], i, k).st = "unspecified" \/ AsRowAt(Ts[1], i - 1, k - 1) = Cell(answer, Ts[1], i, k)
      BY <1>1, <1>3, <1>4, <2>1, RowAtRead
    <3> QED
      BY <1>3, <2>1, <3>1
  <2>2. CASE ~Checked(r, Ntuples)
    BY <1>2, <1>3, <1>4, <2>2 DEF Cell
  <2> QED
    BY <2>1, <2>2
<1> HIDE DEF x
<1>6. FitsOne(g, Cell(answer, Ts[1], i, k))
  BY <1>5, FitsCellRead
<1>7. g.how = "at" /\ g.ts = ts /\ g.r = r /\ g.c = c
  BY DEF Taken
<1> HIDE DEF g
<1>8. Truth(answer, g)
  BY <1>6, <1>7 DEF Truth, Ts, i, k
<1> QED
  BY <1>8 DEF g, x, Ts

LEMMA IndexTrue ==
  ASSUME IsAnswer(answer), NEW ts \in DOMAIN Reads \union {0}, Len(TypesAsked(answer, ts)) = 1,
         NEW r \in -1 .. Ntuples, NEW c \in -1 .. Nfields
  PROVE  Truth(answer, Taken("index", ts, r, c, AsField(TypesAsked(answer, ts)[1], r, c)))
<1> DEFINE Ts == TypesAsked(answer, ts)
           x == AsField(Ts[1], r, c)
           g == Taken("index", ts, r, c, x)
           i == r + 1
           k == c + 1
           inside == r \in 0 .. Len(answer.rows) - 1 /\ c \in 0 .. Len(answer.types) - 1
<1>1. Ts[1] \in Types
  <2> HIDE DEF Ts
  <2>1. AreAsked(Ts)
    BY AskedTyped DEF Ts
  <2> QED
    BY <2>1, AskedParts DEF Ts
<1>2. Ntuples \in Nat /\ Ntuples = Len(answer.rows) /\ Nfields \in Nat /\ Nfields = Len(answer.types)
  BY AnswerTyped
<1>3. i - 1 = r /\ k - 1 = c /\ (inside => i \in 1 .. Ntuples /\ k \in 1 .. Nfields)
  BY <1>2
<1> HIDE DEF Ts, i, k, inside
<1>4. ~inside \/ Cell(answer, Ts[1], i, k).st = "unspecified" \/ x = Cell(answer, Ts[1], i, k)
  <2>1. CASE inside
    <3>1. Cell(answer, Ts[1], i, k).st = "unspecified" \/ AsField(Ts[1], i - 1, k - 1) = Cell(answer, Ts[1], i, k)
      BY <1>1, <1>3, <2>1, FieldRead
    <3> QED
      BY <1>3, <3>1
  <2> QED
    BY <2>1
<1> HIDE DEF x
<1>5. ~inside \/ FitsOne(g, Cell(answer, Ts[1], i, k))
  BY <1>4, FitsCellRead
<1>6. g.how = "index" /\ g.ts = ts /\ g.r = r /\ g.c = c
  BY DEF Taken
<1> HIDE DEF g
<1>7. Truth(answer, g)
  BY <1>5, <1>6 DEF Truth, Ts, i, k, inside
<1> QED
  BY <1>7 DEF g, x, Ts

LEMMA NameTrue ==
  ASSUME IsAnswer(answer), NEW ts \in DOMAIN Reads \union {0}, Len(TypesAsked(answer, ts)) = 1,
         Ntuples > 0, NEW c \in 0 .. Nfields
  PROVE  Truth(answer, Taken("name", ts, 0, c,
           AsNamed(TypesAsked(answer, ts)[1], 0, IF c = Nfields THEN "nobody" ELSE answer.names[c + 1])))
<1> DEFINE Ts == TypesAsked(answer, ts)
           name == IF c = Nfields THEN "nobody" ELSE answer.names[c + 1]
           x == AsNamed(Ts[1], 0, name)
           g == Taken("name", ts, 0, c, x)
           S == {j \in 1 .. Nfields : answer.names[j] = name}
           k == Min(S)
<1>1. Ts[1] \in Types
  <2> HIDE DEF Ts
  <2>1. AreAsked(Ts)
    BY AskedTyped DEF Ts
  <2> QED
    BY <2>1, AskedParts DEF Ts
<1>2. /\ Ntuples \in Nat /\ Ntuples = Len(answer.rows) /\ Nfields \in Nat /\ Nfields = Len(answer.types)
      /\ \A j \in 1 .. Nfields : answer.names[j] # "nobody"
  BY AnswerTyped
<1> HIDE DEF Ts
<1>3. x = IF S # {} THEN AsField(Ts[1], 0, k - 1) ELSE Throws
  BY DEF AsNamed
<1>4. g.how = "name" /\ g.ts = ts /\ g.c = c /\ g.st = x.st
  BY DEF Taken
<1>5. CASE c = Nfields
  <2>1. S = {}
    BY <1>2, <1>5
  <2>2. x = Throws
    BY <1>3, <2>1
  <2>3. g.st = "throw"
    BY <1>4, <2>2 DEF Throws
  <2> HIDE DEF g
  <2>4. Truth(answer, g)
    BY <1>2, <1>4, <1>5, <2>3 DEF Truth
  <2> QED
    BY <2>4 DEF g, x, name, Ts
<1>6. CASE c # Nfields
  <2>1. c + 1 \in 1 .. Nfields /\ c < Nfields /\ name = answer.names[c + 1]
    BY <1>2, <1>6
  <2> HIDE DEF name
  <2>2. S \in SUBSET Nat /\ S # {}
    BY <2>1
  <2>3. k \in S
    <3> HIDE DEF S
    <3> QED
      BY <2>2, MinOfNaturals
  <2>4. k \in 1 .. Nfields /\ answer.names[k] = answer.names[c + 1]
    BY <2>1, <2>3
  <2> HIDE DEF S
  <2>5. x = AsField(Ts[1], 0, k - 1)
    BY <1>3, <2>2
  <2> HIDE DEF x, k
  <2>6. 1 \in 1 .. Ntuples /\ 1 - 1 = 0
    BY <1>2
  <2>7. Cell(answer, Ts[1], 1, k).st = "unspecified" \/ AsField(Ts[1], 1 - 1, k - 1) = Cell(answer, Ts[1], 1, k)
    BY <1>1, <2>4, <2>6, FieldRead
  <2>8. Cell(answer, Ts[1], 1, k).st = "unspecified" \/ x = Cell(answer, Ts[1], 1, k)
    BY <2>5, <2>6, <2>7
  <2>9. FitsOne(g, Cell(answer, Ts[1], 1, k))
    BY <2>8, FitsCellRead
  <2> HIDE DEF g
  <2>10. Truth(answer, g)
    BY <1>2, <1>4, <2>1, <2>4, <2>9 DEF Truth, Ts
  <2> QED
    BY <2>10 DEF g, x, name, Ts
<1> QED
  BY <1>5, <1>6

-----------------------------------------------------------------------------
(* No step makes a wrong reading *)

LEMMA ReadTrue == Ind /\ Read => ReadTruthful'
<1> SUFFICES ASSUME Ind, Read PROVE Truth(answer, got')
  BY TruthNext DEF Read
<1>1. IsAnswer(answer)
  BY DEF Ind
<1>2. PICK ts \in DOMAIN Reads \union {0} :
        LET Ts == TypesAsked(answer, ts)
        IN  \/ got' = Taken("result", ts, 0, 0, AsResult(Ts))
            \/ got' = Taken("rows", ts, 0, 0, AllOf(AsRows(Ts)))
            \/ /\ Len(Ts) = 1
               /\ \E r \in -1 .. Ntuples, c \in -1 .. Nfields :
                    \/ got' = Taken("at", ts, r, c,
                         IF Checked(r, Ntuples) THEN AsRowAt(Ts[1], r, c) ELSE Throws)
                    \/ got' = Taken("index", ts, r, c, AsField(Ts[1], r, c))
            \/ /\ Len(Ts) = 1 /\ Ntuples > 0
               /\ \E c \in 0 .. Nfields :
                    got' = Taken("name", ts, 0, c,
                      AsNamed(Ts[1], 0, IF c = Nfields THEN "nobody" ELSE answer.names[c + 1]))
  BY DEF Read, Reading, Taken, TypesAsked
<1> DEFINE Ts == TypesAsked(answer, ts)
<1>3. CASE got' = Taken("result", ts, 0, 0, AsResult(Ts))
  BY <1>1, <1>3, ResultTrue
<1>4. CASE got' = Taken("rows", ts, 0, 0, AllOf(AsRows(Ts)))
  BY <1>1, <1>4, RowsTrue
<1>5. ASSUME Len(Ts) = 1, NEW r \in -1 .. Ntuples, NEW c \in -1 .. Nfields,
             got' = Taken("at", ts, r, c, IF Checked(r, Ntuples) THEN AsRowAt(Ts[1], r, c) ELSE Throws)
      PROVE  Truth(answer, got')
  BY <1>1, <1>5, AtTrue
<1>6. ASSUME Len(Ts) = 1, NEW r \in -1 .. Ntuples, NEW c \in -1 .. Nfields,
             got' = Taken("index", ts, r, c, AsField(Ts[1], r, c))
      PROVE  Truth(answer, got')
  BY <1>1, <1>6, IndexTrue
<1>7. ASSUME Len(Ts) = 1, Ntuples > 0, NEW c \in 0 .. Nfields,
             got' = Taken("name", ts, 0, c,
               AsNamed(Ts[1], 0, IF c = Nfields THEN "nobody" ELSE answer.names[c + 1]))
      PROVE  Truth(answer, got')
  BY <1>1, <1>7, NameTrue
<1> HIDE DEF Ts
<1> QED
  BY <1>2, <1>3, <1>4, <1>5, <1>6, <1>7 DEF Ts

LEMMA NoReadTrue == ASSUME got'.how = "none" PROVE ReadTruthful'
BY TruthNext DEF Truth

LEMMA StepTrue == Ind /\ ReadTruthful /\ [Next]_vars => ReadTruthful'
<1> SUFFICES ASSUME Ind, ReadTruthful, [Next]_vars PROVE ReadTruthful'
  OBVIOUS
<1>1. ASSUME UNCHANGED <<answer, got>> PROVE ReadTruthful'
  BY <1>1, TruthIs, TruthNext
<1>2. CASE LearnTypes
  BY <1>1, <1>2 DEF LearnTypes
<1>3. ASSUME NEW is \in Queries, PushQuery(is) PROVE ReadTruthful'
  <2>1. got' = NoRead
    BY <1>3 DEF PushQuery
  <2> QED
    BY <2>1, NoReadTrue DEF NoRead
<1>4. CASE ServerEchoes \/ ServerAnswers
  <2>1. stage = "sent" /\ got' = got
    BY <1>4 DEF ServerEchoes, ServerAnswers
  <2>2. got.how = "none"
    BY <2>1 DEF Ind, NothingRead
  <2> QED
    BY <2>1, <2>2, NoReadTrue
<1>5. CASE ServerFails
  BY <1>1, <1>5 DEF ServerFails
<1>6. CASE Read
  BY <1>6, ReadTrue
<1>7. CASE UNCHANGED vars
  BY <1>1, <1>7 DEF vars
<1> QED
  BY <1>2, <1>3, <1>4, <1>5, <1>6, <1>7 DEF Next

\* The accessors of result, row and field, asked for whatever types, give the value of
\* that row and column or throw, also for indices outside the result but those given
\* to operator[], and with the exceptions of ReadFaithful.
THEOREM ReadsAreTruthful == Spec => []ReadTruthful
<1>1. Init => ReadTruthful
  BY TruthIs DEF Init, Truth, NoRead
<1> QED
  BY <1>1, StepTrue, Invariance, PTL DEF Spec
=============================================================================
