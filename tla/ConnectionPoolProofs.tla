------------------------- MODULE ConnectionPoolProofs -------------------------
(***************************************************************************)
(* Theorems about ConnectionPool for any finite set of tasks, any set of   *)
(* sessions and any sizes: its invariants, and, at the end, that it        *)
(* implements the safety part of PoolContract.                             *)
(***************************************************************************)
EXTENDS ConnectionPool, MCPoolRefinement, FiniteSetTheorems, TLAPS

(* A pending acquire is backed by its caller's handle. *)
HandleHeld == \A t \in Tasks : pc[t] \in Pending => t \in handles

(* A task between TakeSlot and the end of return_connection owns a session. *)
SessionHeld == \A t \in Tasks : pc[t] \in Counted => conn[t] \in Conns

(* The timer's queue holds parked tasks, each once. *)
QueueOfParked ==
  /\ \A i \in DOMAIN cv : pc[cv[i]] = "parked"
  /\ \A i, j \in DOMAIN cv : cv[i] = cv[j] => i = j

IInv ==
  /\ TypeOK
  /\ HandleHeld
  /\ SessionHeld
  /\ QueueOfParked
  /\ CountExact
  /\ NoLostWakeup
  /\ SessionsBounded
  /\ max_size <= peak
-----------------------------------------------------------------------------
(* How many tasks are in the places of S, for a given assignment p. *)
Count(p, S) == Cardinality({t \in Tasks : p[t] \in S})

(* Any set of tasks is finite, so that its cardinality is a number. *)
LEMMA CountType ==
  ASSUME NEW p, NEW S
  PROVE  /\ IsFiniteSet({t \in Tasks : p[t] \in S})
         /\ Count(p, S) \in Nat
         /\ (\E t \in Tasks : p[t] \in S) => Count(p, S) > 0
<1>1. {t \in Tasks : p[t] \in S} \in SUBSET Tasks
  OBVIOUS
<1>2. IsFiniteSet({t \in Tasks : p[t] \in S})
  BY <1>1, FS_Subset, PoolAssumption
<1>3. QED
  BY <1>2, FS_CardinalityType, FS_EmptySet DEF Count

(* One task changes its place: the number of tasks in a set of places grows
   when the task enters it, and shrinks when the task leaves it. *)
LEMMA OneMoves ==
  ASSUME NEW p, NEW q, NEW t \in Tasks, NEW S,
         \A u \in Tasks : u # t => q[u] = p[u]
  PROVE  Count(q, S) =
           IF q[t] \in S THEN IF p[t] \in S THEN Count(p, S) ELSE Count(p, S) + 1
                         ELSE IF p[t] \in S THEN Count(p, S) - 1 ELSE Count(p, S)
<1> DEFINE old == {u \in Tasks : p[u] \in S}
           new == {u \in Tasks : q[u] \in S}
<1>1. IsFiniteSet(old)
  BY CountType
<1>2. t \in old <=> p[t] \in S
  OBVIOUS
<1>3. CASE q[t] \in S
  <2>1. new = old \cup {t}
    BY <1>3
  <2>2. QED
    BY <1>1, <1>2, <1>3, <2>1, FS_AddElement DEF Count
<1>4. CASE q[t] \notin S
  <2>1. new = old \ {t}
    BY <1>4
  <2>2. QED
    BY <1>1, <1>2, <1>4, <2>1, FS_RemoveElement DEF Count
<1>5. QED
  BY <1>3, <1>4

(* The cases of OneMoves, as they are cited below. *)
LEMMA CountOutside ==
  ASSUME NEW p, NEW q, NEW t \in Tasks, NEW S,
         \A u \in Tasks : u # t => q[u] = p[u],
         p[t] \notin S, q[t] \notin S
  PROVE  Count(q, S) = Count(p, S)
BY OneMoves

LEMMA CountInside ==
  ASSUME NEW p, NEW q, NEW t \in Tasks, NEW S,
         \A u \in Tasks : u # t => q[u] = p[u],
         p[t] \in S, q[t] \in S
  PROVE  Count(q, S) = Count(p, S)
BY OneMoves

LEMMA CountEnters ==
  ASSUME NEW p, NEW q, NEW t \in Tasks, NEW S,
         \A u \in Tasks : u # t => q[u] = p[u],
         p[t] \notin S, q[t] \in S
  PROVE  Count(q, S) = Count(p, S) + 1
BY OneMoves

LEMMA CountLeaves ==
  ASSUME NEW p, NEW q, NEW t \in Tasks, NEW S,
         \A u \in Tasks : u # t => q[u] = p[u],
         p[t] \in S, q[t] \notin S
  PROVE  Count(q, S) = Count(p, S) - 1
BY OneMoves

(* Taking one element out of a sequence: what is left was there, in the
   same order and no more often. *)
LEMMA RemoveAtProperties ==
  ASSUME NEW S, NEW s \in Seq(S), NEW i \in DOMAIN s
  PROVE  /\ RemoveAt(s, i) \in Seq(S)
         /\ Len(RemoveAt(s, i)) = Len(s) - 1
         /\ \A j \in 1 .. (Len(s) - 1) :
              RemoveAt(s, i)[j] = IF j < i THEN s[j] ELSE s[j + 1]
<1> DEFINE front == SubSeq(s, 1, i - 1)
           back  == SubSeq(s, i + 1, Len(s))
<1>1. /\ front \in Seq(S)
      /\ Len(front) = i - 1
      /\ \A j \in 1 .. (i - 1) : front[j] = s[j]
  OBVIOUS
<1>2. /\ back \in Seq(S)
      /\ Len(back) = Len(s) - i
      /\ \A j \in 1 .. (Len(s) - i) : back[j] = s[j + i]
  OBVIOUS
<1>3. RemoveAt(s, i) = front \o back
  BY DEF RemoveAt
<1> HIDE DEF front, back
<1>4. /\ front \o back \in Seq(S)
      /\ Len(front \o back) = Len(s) - 1
  BY <1>1, <1>2
<1>5. ASSUME NEW j \in 1 .. (Len(s) - 1)
      PROVE  (front \o back)[j] = IF j < i THEN s[j] ELSE s[j + 1]
  <2>1. CASE j < i
    BY <1>1, <1>2, <2>1
  <2>2. CASE ~(j < i)
    <3>1. (front \o back)[j] = back[j - (i - 1)]
      BY <1>1, <1>2, <2>2
    <3>2. j - (i - 1) \in 1 .. (Len(s) - i)
      BY <2>2
    <3>3. QED
      BY <1>2, <2>2, <3>1, <3>2
  <2>3. QED
    BY <2>1, <2>2
<1>6. QED
  BY <1>3, <1>4, <1>5

(* The initial states satisfy the invariant. *)
LEMMA InitInv == Init => IInv
<1> SUFFICES ASSUME Init PROVE IInv
  OBVIOUS
<1> USE DEF Init
<1>1. TypeOK
  BY PoolAssumption DEF TypeOK, States, Pending, Waiting, Opening, Pinning, SessionStates
<1>2. In(Counted) = {}
  BY DEF In, Counted, Opening
<1>3. CountExact
  BY <1>2, FS_EmptySet DEF CountExact
<1>4. HandleHeld /\ SessionHeld /\ QueueOfParked
  BY DEF HandleHeld, SessionHeld, QueueOfParked, Counted, Opening, Pending, Waiting
<1>5. NoLostWakeup
  BY DEF NoLostWakeup
<1>6. SessionsBounded /\ max_size <= peak
  BY PoolAssumption DEF SessionsBounded
<1>7. QED
  BY <1>1, <1>3, <1>4, <1>5, <1>6 DEF IInv

-----------------------------------------------------------------------------
(* Each action preserves the invariant. *)

(* Going to sleep: only with every slot taken, so nothing can be missed. *)
LEMMA ParkInv ==
  ASSUME IInv, NEW t \in Tasks, pc[t] \in {"out", "ready"}, t \in handles,
         Full, Park(t), UNCHANGED <<max_size, handles, peak>>
  PROVE  IInv'
<1> USE DEF IInv, Park
<1>1. TypeOK'
  BY DEF TypeOK, States, Pending, Waiting
<1>2. HandleHeld' /\ SessionHeld'
  BY DEF TypeOK, HandleHeld, SessionHeld, Pending, Waiting, Counted, Opening
<1>3. QueueOfParked'
  <2>1. \A i \in DOMAIN cv : cv[i] # t
    BY DEF QueueOfParked
  <2>2. /\ cv' \in Seq(Tasks) /\ Len(cv') = Len(cv) + 1 /\ cv'[Len(cv')] = t
        /\ \A i \in 1 .. Len(cv) : cv'[i] = cv[i]
    BY DEF TypeOK
  <2>3. QED
    BY <2>1, <2>2 DEF QueueOfParked, TypeOK
<1>4. CountExact'
  <2>1. pc[t] \notin Counted /\ pc'[t] \notin Counted
    BY DEF Counted, Opening, TypeOK
  <2>2. Count(pc', Counted) = Count(pc, Counted)
    <3>1. \A u \in Tasks : u # t => pc'[u] = pc[u]
      BY DEF TypeOK
    <3>2. QED
      BY ONLY t \in Tasks, <2>1, <3>1, CountOutside
  <2>3. Alive' => Alive
    BY DEF Alive, Referenced, Pinning, TypeOK
  <2>4. QED
    BY <2>2, <2>3 DEF CountExact, Count, In
<1>5. NoLostWakeup'
  <2>1. Count(pc', {"ready", "cancelled"}) \in Nat
    BY CountType
  <2>2. aquired_conns' >= max_size'
    BY DEF Full
  <2>3. QED
    BY <2>1, <2>2 DEF NoLostWakeup, TypeOK, Count, In
<1>6. SessionsBounded' /\ (max_size <= peak)'
  BY DEF SessionsBounded
<1>7. QED
  BY <1>1, <1>2, <1>3, <1>4, <1>5, <1>6

(* Taking a slot: the counter and the set of counted tasks grow together,
   and a woken task that takes one leaves the others covered. *)
LEMMA TakeSlotInv ==
  ASSUME IInv, NEW t \in Tasks, pc[t] \in {"out", "ready", "cancelled"},
         t \in handles, ~Full, TakeSlot(t), UNCHANGED <<max_size, handles, peak>>
  PROVE  IInv'
<1> USE DEF IInv
<1>1. TypeOK'
  <2>1. CASE idle_conns = <<>>
    BY <2>1 DEF TakeSlot, TypeOK, States, Pending, Opening, SessionStates
  <2>2. CASE idle_conns # <<>>
    <3>1. Head(idle_conns) \in Conns /\ Tail(idle_conns) \in Seq(Conns)
      BY <2>2 DEF TypeOK
    <3>2. /\ conn' = [conn EXCEPT ![t] = Head(idle_conns)]
          /\ idle_conns' = Tail(idle_conns)
          /\ pc' = [pc EXCEPT ![t] = "reusing"]
          /\ aquired_conns' = aquired_conns + 1
          /\ UNCHANGED <<pgconn, cv>>
      BY <2>2 DEF TakeSlot
    <3>3. "reusing" \in States
      BY DEF States, Pending
    <3>4. QED
      BY <3>1, <3>2, <3>3 DEF TypeOK
  <2>3. QED
    BY <2>1, <2>2
<1>2. \A u \in Tasks : u # t => pc'[u] = pc[u]
  BY DEF TypeOK, TakeSlot
<1>3. \A u \in Tasks : u # t => conn'[u] = conn[u]
  BY DEF TypeOK, TakeSlot
<1>4. pc'[t] \in {"connecting", "reusing"} /\ conn'[t] \in Conns
  BY DEF TypeOK, TakeSlot
<1>5. HandleHeld' /\ SessionHeld'
  BY <1>1, <1>2, <1>3, <1>4 DEF TypeOK, HandleHeld, SessionHeld, Counted, Opening
<1>6. QueueOfParked'
  BY <1>2 DEF QueueOfParked, TypeOK, TakeSlot
<1>7. CountExact'
  <2>1. pc[t] \notin Counted /\ pc'[t] \in Counted
    BY <1>4 DEF Counted, Opening
  <2>2. Count(pc', Counted) = Count(pc, Counted) + 1
    BY ONLY t \in Tasks, <1>2, <2>1, CountEnters
  <2>3. Alive
    BY DEF Alive, Referenced
  <2>4. QED
    BY <2>2, <2>3 DEF CountExact, Count, In, TakeSlot
<1>8. NoLostWakeup'
  <2> DEFINE W == {"ready", "cancelled"}
  <2>1. Count(pc, W) \in Nat /\ Count(pc', W) \in Nat
    BY CountType
  <2>2. Count(pc', W) = IF pc[t] \in W THEN Count(pc, W) - 1 ELSE Count(pc, W)
    <3>1. pc'[t] \notin W
      BY <1>4
    <3> HIDE DEF W
    <3>2. CASE pc[t] \in W
      <4>1. Count(pc', W) = Count(pc, W) - 1
        BY ONLY t \in Tasks, <1>2, <3>1, <3>2, CountLeaves
      <4>2. QED
        BY <3>2, <4>1
    <3>3. CASE pc[t] \notin W
      <4>1. Count(pc', W) = Count(pc, W)
        BY ONLY t \in Tasks, <1>2, <3>1, <3>3, CountOutside
      <4>2. QED
        BY <3>3, <4>1
    <3>4. QED
      BY <3>2, <3>3
  <2>3. cv # <<>> => Count(pc', W) + aquired_conns' >= max_size'
    BY <2>1, <2>2 DEF NoLostWakeup, TypeOK, Count, In, TakeSlot
  <2>4. QED
    BY <2>3 DEF NoLostWakeup, Count, In, TakeSlot
<1>9. SessionsBounded' /\ (max_size <= peak)'
  BY DEF SessionsBounded, Full, TypeOK, TakeSlot
<1>10. QED
  BY <1>1, <1>5, <1>6, <1>7, <1>8, <1>9

(* Giving up after a cancellation takes and returns nothing. *)
LEMMA GiveUpInv ==
  ASSUME IInv, NEW t \in Tasks, pc[t] = "cancelled",
         Full, GiveUp(t), UNCHANGED <<max_size, handles, peak>>
  PROVE  IInv'
<1> USE DEF IInv
<1>1. TypeOK'
  BY DEF TypeOK, States, GiveUp
<1>2. pc'[t] = "out"
  BY DEF TypeOK, GiveUp
<1>3. \A u \in Tasks : u # t => pc'[u] = pc[u]
  BY DEF TypeOK, GiveUp
<1>4. HandleHeld' /\ SessionHeld' /\ QueueOfParked'
  BY <1>2, <1>3 DEF TypeOK, HandleHeld, SessionHeld, QueueOfParked, GiveUp,
                    Pending, Waiting, Counted, Opening
<1>5. CountExact'
  <2>1. pc[t] \notin Counted /\ pc'[t] \notin Counted
    BY <1>2 DEF Counted, Opening
  <2>2. Count(pc', Counted) = Count(pc, Counted)
    BY ONLY t \in Tasks, <1>3, <2>1, CountOutside
  <2>3. Alive' => Alive
    BY <1>2, <1>3 DEF Alive, Referenced, Pinning
  <2>4. QED
    BY <2>2, <2>3 DEF CountExact, Count, In, GiveUp
<1>6. NoLostWakeup'
  <2>1. Count(pc', {"ready", "cancelled"}) \in Nat
    BY CountType
  <2>2. QED
    BY <2>1 DEF NoLostWakeup, Full, TypeOK, Count, In, GiveUp
<1>7. SessionsBounded' /\ (max_size <= peak)'
  BY DEF SessionsBounded, GiveUp
<1>8. QED
  BY <1>1, <1>4, <1>5, <1>6, <1>7

(* The three runs of the composed operation up to its first yield. *)
LEMMA AcquireInv ==
  ASSUME IInv, NEW t \in Tasks, Acquire(t) \/ Resume(t) \/ ResumeCancelled(t)
  PROVE  IInv'
<1>1. t \in handles
  BY DEF IInv, HandleHeld, Acquire, Resume, ResumeCancelled, Pending, Waiting
<1>2. CASE Full
  BY <1>1, <1>2, ParkInv, GiveUpInv DEF Acquire, Resume, ResumeCancelled
<1>3. CASE ~Full
  BY <1>1, <1>3, TakeSlotInv DEF Acquire, Resume, ResumeCancelled
<1>4. QED
  BY <1>2, <1>3

(* Steps that move task t within the counted places and leave the queues
   and the counter alone. *)
LEMMA CountedInv ==
  ASSUME IInv, NEW t \in Tasks, TypeOK',
         pc[t] \in Counted, pc'[t] \in Counted,
         pc'[t] \in Pending => pc[t] \in Pending,
         \A u \in Tasks : u # t => pc'[u] = pc[u],
         \A u \in Tasks : conn[u] \in Conns => conn'[u] \in Conns,
         pc[t] \in Pinning <=> pc'[t] \in Pinning,
         UNCHANGED <<max_size, aquired_conns, idle_conns, cv, handles, peak>>
  PROVE  IInv'
<1> USE DEF IInv
<1>1. HandleHeld' /\ SessionHeld'
  BY DEF HandleHeld, SessionHeld
<1>2. QueueOfParked'
  BY DEF QueueOfParked, Counted, Opening, TypeOK
<1>3. CountExact'
  <2>1. Count(pc', Counted) = Count(pc, Counted)
    BY CountInside
  <2>2. Alive' => Alive
    BY DEF Alive, Referenced
  <2>3. QED
    BY <2>1, <2>2 DEF CountExact, Count, In
<1>4. NoLostWakeup'
  <2>1. pc[t] \notin {"ready", "cancelled"} /\ pc'[t] \notin {"ready", "cancelled"}
    BY DEF Counted, Opening
  <2>2. Count(pc', {"ready", "cancelled"}) = Count(pc, {"ready", "cancelled"})
    BY <2>1, CountOutside
  <2>3. QED
    BY <2>2 DEF NoLostWakeup, Count, In
<1>5. SessionsBounded' /\ (max_size <= peak)'
  BY DEF SessionsBounded
<1>6. QED
  BY <1>1, <1>2, <1>3, <1>4, <1>5

(* The connect ends, or the posted handler runs. *)
LEMMA ConnectedInv ==
  ASSUME IInv, NEW t \in Tasks,
         (\E ok \in BOOLEAN : Connected(t, ok)) \/ Reused(t)
  PROVE  IInv'
<1>1. TypeOK'
  BY DEF IInv, TypeOK, Connected, Reused, States, Pending, SessionStates
<1>2. pc[t] \in Opening \cup {"reusing"} /\ pc' = [pc EXCEPT ![t] = "holding"]
  BY DEF Connected, Reused
<1>3. UNCHANGED <<max_size, aquired_conns, idle_conns, cv, conn, handles, peak>>
  BY DEF Connected, Reused
<1>4. pc'[t] = "holding" /\ \A u \in Tasks : u # t => pc'[u] = pc[u]
  BY <1>2 DEF IInv, TypeOK
<1>5. pc[t] \in Counted /\ pc'[t] \in Counted /\ pc[t] \notin Pinning
      /\ pc'[t] \notin Pinning /\ pc'[t] \notin Pending
  BY <1>2, <1>4 DEF Counted, Opening, Pinning, Pending, Waiting
<1>6. QED
  BY <1>1, <1>3, <1>4, <1>5, CountedInv

(* What a task or the server does to a session, and the swap of two pooled
   connections, leave the pool's own state alone. *)
LEMMA SessionStepInv ==
  ASSUME IInv,
         \/ \E t \in Tasks : Use(t) \/ \E u \in Tasks : MoveAssign(t, u)
         \/ \E c \in Conns : ServerEnds(c)
  PROVE  IInv'
<1> USE DEF IInv
<1>1. UNCHANGED <<max_size, aquired_conns, idle_conns, cv, pc, handles, peak>>
  BY DEF Use, MoveAssign, ServerEnds
<1>2. TypeOK' /\ SessionHeld'
  <2>1. ASSUME NEW t \in Tasks, NEW u \in Tasks, MoveAssign(t, u)
        PROVE  TypeOK' /\ SessionHeld'
    BY <2>1 DEF MoveAssign, TypeOK, SessionHeld, Counted
  <2>2. ASSUME NEW t \in Tasks, Use(t)
        PROVE  TypeOK' /\ SessionHeld'
    BY <2>2 DEF Use, TypeOK, SessionHeld, SessionStates
  <2>3. ASSUME NEW c \in Conns, ServerEnds(c)
        PROVE  TypeOK' /\ SessionHeld'
    BY <2>3 DEF ServerEnds, TypeOK, SessionHeld, SessionStates
  <2>4. QED
    BY <2>1, <2>2, <2>3
<1>3. HandleHeld' /\ QueueOfParked'
  BY <1>1 DEF HandleHeld, QueueOfParked
<1>4. CountExact' /\ NoLostWakeup'
  BY <1>1 DEF CountExact, NoLostWakeup, Alive, Referenced, In
<1>5. SessionsBounded' /\ (max_size <= peak)'
  BY <1>1 DEF SessionsBounded
<1>6. QED
  BY <1>2, <1>3, <1>4, <1>5

(* Cancelling a pending acquire: a wait that leaves the timer's queue is
   counted among the woken ones until its handler has run. *)
LEMMA CancelInv ==
  ASSUME IInv, NEW t \in Tasks, Cancel(t)
  PROVE  IInv'
<1> USE DEF IInv
<1>1. CASE pc[t] = "connecting"
  <2>1. pc' = [pc EXCEPT ![t] = "aborting"]
        /\ UNCHANGED <<max_size, aquired_conns, idle_conns, cv, conn, pgconn, handles, peak>>
    BY <1>1 DEF Cancel
  <2>2. TypeOK'
    BY <2>1 DEF TypeOK, States, Pending, Opening
  <2>3. pc'[t] = "aborting"
    BY <2>1 DEF TypeOK
  <2>4. \A u \in Tasks : u # t => pc'[u] = pc[u]
    BY <2>1 DEF TypeOK
  <2>5. pc[t] \in Counted /\ pc'[t] \in Counted /\ pc[t] \in Pending
        /\ pc[t] \notin Pinning /\ pc'[t] \notin Pinning
    BY <1>1, <2>3 DEF Counted, Pending, Opening, Pinning
  <2>6. QED
    BY <2>1, <2>2, <2>4, <2>5, CountedInv
<1>2. CASE pc[t] \in {"parked", "ready"}
  <2>1. pc' = [pc EXCEPT ![t] = "cancelled"]
        /\ UNCHANGED <<max_size, aquired_conns, idle_conns, conn, pgconn, handles, peak>>
    BY <1>2 DEF Cancel
  <2>2. pc'[t] = "cancelled"
    BY <2>1 DEF TypeOK
  <2>3. \A u \in Tasks : u # t => pc'[u] = pc[u]
    BY <2>1 DEF TypeOK
  <2>4. cv' \in Seq(Tasks) /\ QueueOfParked'
    <3>1. CASE pc[t] = "ready"
      <4>1. cv' = cv
        BY <3>1 DEF Cancel
      <4>2. QED
        BY <2>3, <3>1, <4>1 DEF TypeOK, QueueOfParked
    <3>2. CASE pc[t] = "parked"
      <4>1. PICK i \in DOMAIN cv : cv[i] = t /\ cv' = RemoveAt(cv, i)
        BY <3>2 DEF Cancel
      <4>2. /\ cv' \in Seq(Tasks)
            /\ Len(cv') = Len(cv) - 1
            /\ \A j \in 1 .. (Len(cv) - 1) :
                 cv'[j] = IF j < i THEN cv[j] ELSE cv[j + 1]
        BY <4>1, RemoveAtProperties DEF TypeOK
      <4> DEFINE from(j) == IF j < i THEN j ELSE j + 1
      <4>3. \A j \in DOMAIN cv' : /\ from(j) \in DOMAIN cv
                                  /\ from(j) # i
                                  /\ cv'[j] = cv[from(j)]
        <5>1. DOMAIN cv' = 1 .. (Len(cv) - 1) /\ i \in 1 .. Len(cv)
              /\ DOMAIN cv = 1 .. Len(cv) /\ Len(cv) \in Nat
          BY <4>1, <4>2 DEF TypeOK
        <5>2. QED
          BY <4>2, <5>1
      <4>4. \A j, k \in DOMAIN cv' : from(j) = from(k) => j = k
        <5>1. DOMAIN cv' \subseteq Int /\ i \in Int
          BY <4>1, <4>2 DEF TypeOK
        <5>2. QED
          BY <5>1
      <4>5. \A j \in DOMAIN cv' : cv'[j] \in Tasks /\ cv'[j] # t /\ pc[cv'[j]] = "parked"
        BY <4>1, <4>2, <4>3 DEF QueueOfParked
      <4>6. \A j, k \in DOMAIN cv' : cv'[j] = cv'[k] => j = k
        BY <4>3, <4>4 DEF QueueOfParked
      <4>7. \A j \in DOMAIN cv' : pc'[cv'[j]] = "parked"
        BY <2>3, <4>5
      <4>8. QED
        BY <4>2, <4>6, <4>7 DEF QueueOfParked
    <3>3. QED
      BY <1>2, <3>1, <3>2
  <2>5. TypeOK'
    BY <2>1, <2>4 DEF TypeOK, States, Pending, Waiting
  <2>6. HandleHeld' /\ SessionHeld'
    BY <1>2, <2>1, <2>2, <2>3 DEF HandleHeld, SessionHeld, TypeOK,
                                  Pending, Waiting, Counted, Opening
  <2>7. CountExact'
    <3>1. pc[t] \notin Counted /\ pc'[t] \notin Counted
      BY <1>2, <2>2 DEF Counted, Opening
    <3>2. Count(pc', Counted) = Count(pc, Counted)
      BY ONLY t \in Tasks, <2>3, <3>1, CountOutside
    <3>3. Alive' => Alive
      BY <2>1, <2>2, <2>3 DEF Alive, Referenced, Pinning
    <3>4. QED
      BY <2>1, <3>2, <3>3 DEF CountExact, Count, In
  <2>8. NoLostWakeup'
    <3> DEFINE W == {"ready", "cancelled"}
    <3>1. Count(pc, W) \in Nat /\ Count(pc', W) \in Nat
      BY CountType
    <3>2. Count(pc', W) = IF pc[t] \in W THEN Count(pc, W) ELSE Count(pc, W) + 1
      <4>1. pc'[t] \in W
        BY <2>2
      <4> HIDE DEF W
      <4>2. CASE pc[t] \in W
        <5>1. Count(pc', W) = Count(pc, W)
          BY ONLY t \in Tasks, <2>3, <4>1, <4>2, CountInside
        <5>2. QED
          BY <4>2, <5>1
      <4>3. CASE pc[t] \notin W
        <5>1. Count(pc', W) = Count(pc, W) + 1
          BY ONLY t \in Tasks, <2>3, <4>1, <4>3, CountEnters
        <5>2. QED
          BY <4>3, <5>1
      <4>4. QED
        BY <4>2, <4>3
    <3>3. cv' # <<>> => cv # <<>>
      <4>1. CASE pc[t] = "ready"
        BY <4>1 DEF Cancel
      <4>2. CASE pc[t] = "parked"
        BY <4>2 DEF Cancel, TypeOK
      <4>3. QED
        BY <1>2, <4>1, <4>2
    <3>4. cv' # <<>> => Count(pc', W) + aquired_conns' >= max_size'
      BY <2>1, <3>1, <3>2, <3>3 DEF NoLostWakeup, TypeOK, Count, In
    <3>5. QED
      BY <3>4 DEF NoLostWakeup, Count, In
  <2>9. SessionsBounded' /\ (max_size <= peak)'
    BY <2>1 DEF SessionsBounded
  <2>10. QED
    BY <2>4, <2>5, <2>6, <2>7, <2>8, <2>9
<1>3. QED
  BY <1>1, <1>2 DEF Cancel

(* Steps that move task t out of its place without passing through the
   waiting room: the wake-ups are as they were. *)
LEMMA WakeupsKept ==
  ASSUME IInv, NEW t \in Tasks,
         pc[t] \in {"holding", "releasing"}, pc'[t] \in {"out", "returning"},
         \A u \in Tasks : u # t => pc'[u] = pc[u],
         UNCHANGED <<max_size, aquired_conns, cv>>
  PROVE  QueueOfParked' /\ NoLostWakeup'
<1> USE DEF IInv
<1>1. QueueOfParked'
  BY DEF QueueOfParked, TypeOK
<1>2. NoLostWakeup'
  <2>1. pc[t] \notin {"ready", "cancelled"} /\ pc'[t] \notin {"ready", "cancelled"}
    OBVIOUS
  <2>2. Count(pc', {"ready", "cancelled"}) = Count(pc, {"ready", "cancelled"})
    BY <2>1, CountOutside
  <2>3. QED
    BY <2>2 DEF NoLostWakeup, Count, In
<1>3. QED
  BY <1>1, <1>2

(* The destructor of a pooled connection begins: it pins the pool, or finds
   it gone for good. *)
LEMMA DestroyInv ==
  ASSUME IInv, NEW t \in Tasks, Destroy(t)
  PROVE  IInv'
<1> USE DEF IInv
<1>1. pc[t] = "holding" /\ pc'[t] \in {"out", "returning"}
  BY DEF Destroy, TypeOK
<1>2. \A u \in Tasks : u # t => pc'[u] = pc[u]
  BY DEF Destroy, TypeOK
<1>3. UNCHANGED <<max_size, aquired_conns, idle_conns, cv, handles, peak>>
  BY DEF Destroy
<1>4. TypeOK'
  BY DEF Destroy, TypeOK, States, Pinning, SessionStates
<1>5. HandleHeld' /\ SessionHeld'
  BY <1>1, <1>2 DEF Destroy, TypeOK, HandleHeld, SessionHeld,
                    Pending, Waiting, Counted, Opening
<1>6. CountExact'
  <2>1. CASE Alive
    <3>1. pc'[t] = "returning"
      BY <2>1 DEF Destroy, TypeOK
    <3>2. pc[t] \in Counted /\ pc'[t] \in Counted
      BY <1>1, <3>1 DEF Counted
    <3>3. Count(pc', Counted) = Count(pc, Counted)
      BY ONLY t \in Tasks, <1>2, <3>2, CountInside
    <3>4. QED
      BY <1>3, <2>1, <3>3 DEF CountExact, Count, In
  <2>2. CASE ~Alive
    <3>1. pc'[t] = "out"
      BY <2>2 DEF Destroy, TypeOK
    <3>2. ~Alive'
      BY <1>2, <1>3, <2>2, <3>1 DEF Alive, Referenced, Pinning
    <3>3. QED
      BY <3>2 DEF CountExact
  <2>3. QED
    BY <2>1, <2>2
<1>7. QueueOfParked' /\ NoLostWakeup'
  BY <1>1, <1>2, <1>3, WakeupsKept
<1>8. SessionsBounded' /\ (max_size <= peak)'
  BY <1>3 DEF SessionsBounded
<1>9. QED
  BY <1>4, <1>5, <1>6, <1>7, <1>8

(* What is left of the pool after a reference to it has gone. *)
LEMMA DropReferenceType ==
  ASSUME TypeOK, NEW h, NEW p, NEW S, DropReference(h, p, S)
  PROVE  /\ pgconn' \in [Conns -> SessionStates]
         /\ idle_conns' \in Seq(Conns)
         /\ Len(idle_conns') <= Len(idle_conns)
<1>1. CASE Referenced(h, p)
  BY <1>1 DEF DropReference, TypeOK, SessionStates
<1>2. CASE ~Referenced(h, p)
  BY <1>2 DEF DropReference, TypeOK, SessionStates
<1>3. QED
  BY <1>1, <1>2

(* The end of the destructor. *)
LEMMA ReleaseInv ==
  ASSUME IInv, NEW t \in Tasks, Release(t)
  PROVE  IInv'
<1> USE DEF IInv
<1>1. pc[t] = "releasing" /\ pc'[t] = "out"
  BY DEF Release, TypeOK
<1>2. \A u \in Tasks : u # t => pc'[u] = pc[u]
  BY DEF Release, TypeOK
<1>3. UNCHANGED <<max_size, aquired_conns, cv, handles, peak>>
  BY DEF Release
<1>4. /\ pgconn' \in [Conns -> SessionStates]
      /\ idle_conns' \in Seq(Conns)
      /\ Len(idle_conns') <= Len(idle_conns)
  BY DropReferenceType DEF Release
<1>5. TypeOK'
  BY <1>3, <1>4 DEF Release, TypeOK, States
<1>6. HandleHeld' /\ SessionHeld'
  BY <1>1, <1>2, <1>3 DEF Release, TypeOK, HandleHeld, SessionHeld,
                          Pending, Waiting, Counted, Opening
<1>7. CountExact'
  <2>1. pc[t] \notin Counted /\ pc'[t] \notin Counted
    BY <1>1 DEF Counted, Opening
  <2>2. Count(pc', Counted) = Count(pc, Counted)
    BY ONLY t \in Tasks, <1>2, <2>1, CountOutside
  <2>3. Alive' => Alive
    BY <1>1, <1>2, <1>3 DEF Alive, Referenced, Pinning
  <2>4. QED
    BY <1>3, <2>2, <2>3 DEF CountExact, Count, In
<1>8. QueueOfParked' /\ NoLostWakeup'
  BY <1>1, <1>2, <1>3, WakeupsKept
<1>9. SessionsBounded' /\ (max_size <= peak)'
  BY <1>3, <1>4 DEF SessionsBounded, TypeOK
<1>10. QED
  BY <1>5, <1>6, <1>7, <1>8, <1>9

(* A copy of the pool goes away, none of them under a pending acquire. *)
LEMMA DropHandleInv ==
  ASSUME IInv, NEW t \in Tasks, DropHandle(t)
  PROVE  IInv'
<1> USE DEF IInv
<1>1. UNCHANGED <<max_size, aquired_conns, cv, pc, conn, peak>>
      /\ handles' = handles \ {t} /\ pc[t] \notin Pending
  BY DEF DropHandle
<1>2. /\ pgconn' \in [Conns -> SessionStates]
      /\ idle_conns' \in Seq(Conns)
      /\ Len(idle_conns') <= Len(idle_conns)
  BY DropReferenceType DEF DropHandle
<1>3. TypeOK'
  BY <1>1, <1>2 DEF TypeOK
<1>4. HandleHeld' /\ SessionHeld' /\ QueueOfParked' /\ NoLostWakeup'
  BY <1>1 DEF HandleHeld, SessionHeld, QueueOfParked, NoLostWakeup, In
<1>5. CountExact'
  BY <1>1 DEF CountExact, Alive, Referenced, In
<1>6. SessionsBounded' /\ (max_size <= peak)'
  BY <1>1, <1>2 DEF SessionsBounded, TypeOK
<1>7. QED
  BY <1>3, <1>4, <1>5, <1>6

(* A new maximum wakes everybody: nobody is left in the timer's queue. *)
LEMMA SetMaxSizeInv ==
  ASSUME IInv, NEW t \in Tasks, NEW v \in Sizes, SetMaxSize(t, v)
  PROVE  IInv'
<1> USE DEF IInv
<1>1. TypeOK'
  BY PoolAssumption DEF SetMaxSize, TypeOK, States, Pending, Waiting
<1>2. \A u \in Tasks : pc'[u] = IF pc[u] = "parked" THEN "ready" ELSE pc[u]
  BY DEF SetMaxSize
<1>3. HandleHeld' /\ SessionHeld'
  BY <1>2 DEF SetMaxSize, HandleHeld, SessionHeld, Pending, Waiting, Counted, Opening
<1>4. QueueOfParked' /\ NoLostWakeup'
  BY DEF SetMaxSize, QueueOfParked, NoLostWakeup
<1>5. CountExact'
  <2>1. \A u \in Tasks : pc'[u] \in Counted <=> pc[u] \in Counted
    BY <1>2 DEF Counted, Opening
  <2>2. In(Counted)' = In(Counted)
    BY <2>1 DEF In
  <2>3. Alive' => Alive
    BY <1>2 DEF SetMaxSize, Alive, Referenced, Pinning
  <2>4. QED
    BY <2>2, <2>3 DEF SetMaxSize, CountExact
<1>6. SessionsBounded' /\ (max_size <= peak)'
  BY PoolAssumption DEF SetMaxSize, SessionsBounded, TypeOK
<1>7. QED
  BY <1>1, <1>3, <1>4, <1>5, <1>6

(* return_connection: the slot given back and the wait it completes. *)
LEMMA ReturnConnectionInv ==
  ASSUME IInv, NEW t \in Tasks, ReturnConnection(t)
  PROVE  IInv'
<1> USE DEF IInv
<1> DEFINE W == {"ready", "cancelled"}
           mid == [pc EXCEPT ![t] = "releasing"]
<1>1. pc[t] = "returning" /\ aquired_conns' = aquired_conns - 1
      /\ UNCHANGED <<max_size, pgconn, handles, peak>>
  BY DEF ReturnConnection
<1>2. Alive /\ aquired_conns \in Nat \ {0}
  <2>1. Alive
    BY <1>1 DEF Alive, Referenced, Pinning
  <2>2. Count(pc, Counted) > 0 /\ Count(pc, Counted) \in Nat
    BY <1>1, CountType DEF Counted
  <2>3. QED
    BY <2>1, <2>2 DEF CountExact, Count, In
<1>3. /\ mid[t] = "releasing" /\ \A u \in Tasks : u # t => mid[u] = pc[u]
      /\ mid \in [Tasks -> States]
  BY DEF TypeOK, States, Pinning
<1>4. Count(mid, Counted) = Count(pc, Counted) - 1 /\ Count(mid, W) = Count(pc, W)
  <2>1. pc[t] \in Counted /\ mid[t] \notin Counted /\ pc[t] \notin W /\ mid[t] \notin W
    BY <1>1, <1>3 DEF Counted, Opening
  <2> HIDE DEF mid, W
  <2>2. Count(mid, Counted) = Count(pc, Counted) - 1
    BY ONLY t \in Tasks, <1>3, <2>1, CountLeaves
  <2>3. Count(mid, W) = Count(pc, W)
    BY ONLY t \in Tasks, <1>3, <2>1, CountOutside
  <2>4. QED
    BY <2>2, <2>3
<1>5. /\ idle_conns' \in Seq(Conns)
      /\ Len(idle_conns') <= Len(idle_conns) + 1
      /\ conn' \in [Tasks -> Conns \cup {NoConn}]
      /\ \A u \in Tasks : u # t => conn'[u] = conn[u]
  <2>1. conn[t] \in Conns
    BY <1>1 DEF SessionHeld, Counted
  <2>2. idle_conns \in Seq(Conns) /\ conn \in [Tasks -> Conns \cup {NoConn}]
    BY DEF TypeOK
  <2>3. CASE Reusable(conn[t])
    <3>1. /\ idle_conns' = Append(idle_conns, conn[t])
          /\ conn' = [conn EXCEPT ![t] = NoConn]
      BY <2>3 DEF ReturnConnection
    <3>2. idle_conns' \in Seq(Conns) /\ Len(idle_conns') = Len(idle_conns) + 1
      BY <2>1, <2>2, <3>1
    <3>3. QED
      BY <2>2, <3>1, <3>2
  <2>4. CASE ~Reusable(conn[t])
    <3>1. idle_conns' = idle_conns /\ conn' = conn
      BY <2>4 DEF ReturnConnection
    <3>2. QED
      BY <2>2, <3>1
  <2>5. QED
    BY <2>3, <2>4
<1>6. CASE cv = <<>>
  <2>1. pc' = mid /\ cv' = cv
    BY <1>6 DEF ReturnConnection, CancelOne
  <2>2. TypeOK'
    BY <1>1, <1>2, <1>3, <1>5, <2>1 DEF TypeOK
  <2>3. HandleHeld' /\ SessionHeld' /\ QueueOfParked'
    BY <1>1, <1>3, <1>5, <1>6, <2>1 DEF HandleHeld, SessionHeld, QueueOfParked,
                                        Counted, Opening, Pending, Waiting
  <2>4. CountExact'
    BY <1>1, <1>2, <1>4, <2>1 DEF CountExact, Count, In
  <2>5. NoLostWakeup'
    BY <1>6, <2>1 DEF NoLostWakeup
  <2>6. QED
    BY <1>1, <1>2, <1>5, <2>2, <2>3, <2>4, <2>5 DEF SessionsBounded, TypeOK
<1>7. CASE cv # <<>>
  <2> DEFINE h == Head(cv)
  <2>1. /\ pc' = [pc EXCEPT ![t] = "releasing", ![h] = "ready"]
        /\ cv' = Tail(cv)
    BY <1>7 DEF ReturnConnection, CancelOne
  <2>2. h \in Tasks /\ pc[h] = "parked" /\ h # t /\ h = cv[1]
    BY <1>1, <1>7 DEF TypeOK, QueueOfParked
  <2>3. pc'[h] = "ready" /\ \A u \in Tasks : u # h => pc'[u] = mid[u]
    BY <2>1, <2>2 DEF TypeOK
  <2>4. pc' \in [Tasks -> States]
    BY <2>1 DEF TypeOK, States, Pinning, Pending, Waiting
  <2>5. /\ cv' \in Seq(Tasks) /\ Len(cv') = Len(cv) - 1
        /\ \A i \in 1 .. Len(cv') : cv'[i] = cv[i + 1]
    BY <1>7, <2>1 DEF TypeOK
  <2>6. TypeOK'
    BY <1>1, <1>2, <1>5, <2>4, <2>5 DEF TypeOK
  <2>7. HandleHeld' /\ SessionHeld'
    BY <1>1, <1>3, <1>5, <2>2, <2>3 DEF HandleHeld, SessionHeld,
                                        Counted, Opening, Pending, Waiting
  <2>8. QueueOfParked'
    <3>1. \A i \in DOMAIN cv' : /\ i + 1 \in DOMAIN cv /\ i + 1 # 1
                                /\ cv'[i] = cv[i + 1] /\ cv[i + 1] \in Tasks
      BY <1>7, <2>5 DEF TypeOK
    <3>2. \A i \in DOMAIN cv' : cv'[i] # h /\ cv'[i] # t /\ pc[cv'[i]] = "parked"
      BY <1>1, <1>7, <2>2, <3>1 DEF QueueOfParked, TypeOK
    <3>3. \A i \in DOMAIN cv' : pc'[cv'[i]] = "parked"
      BY <1>3, <2>3, <3>1, <3>2
    <3>4. \A i, j \in DOMAIN cv' : cv'[i] = cv'[j] => i = j
      <4>1. DOMAIN cv' \subseteq Int
        BY <2>5
      <4>2. QED
        BY <3>1, <4>1 DEF QueueOfParked
    <3>5. QED
      BY <3>3, <3>4 DEF QueueOfParked
  <2>9. mid[h] = "parked"
    BY <1>3, <2>2
  <2>10. Count(pc', Counted) = Count(mid, Counted)
    <3>1. mid[h] \notin Counted /\ pc'[h] \notin Counted
      BY <2>3, <2>9 DEF Counted, Opening
    <3> HIDE DEF mid, h
    <3>2. QED
      BY ONLY <2>2, <2>3, <3>1, CountOutside
  <2>11. Count(pc', W) = Count(mid, W) + 1
    <3>1. mid[h] \notin W /\ pc'[h] \in W
      BY <2>3, <2>9
    <3> HIDE DEF mid, h, W
    <3>2. QED
      BY ONLY <2>2, <2>3, <3>1, CountEnters
  <2>12. CountExact'
    BY <1>1, <1>2, <1>4, <2>10 DEF CountExact, Count, In
  <2>13. NoLostWakeup'
    <3>1. Count(pc, W) \in Nat
      BY CountType
    <3>2. Count(pc, W) + aquired_conns >= max_size
      BY <1>7 DEF NoLostWakeup, Count, In
    <3>3. Count(pc', W) + aquired_conns' >= max_size'
      BY <1>1, <1>2, <1>4, <2>11, <3>1, <3>2 DEF TypeOK
    <3>4. QED
      BY <3>3 DEF NoLostWakeup, Count, In
  <2>14. QED
    BY <1>1, <1>2, <1>5, <2>6, <2>7, <2>8, <2>12, <2>13 DEF SessionsBounded, TypeOK
<1>8. QED
  BY <1>6, <1>7

-----------------------------------------------------------------------------
(* IInv is inductive. *)
LEMMA StepInv == IInv /\ [Next]_vars => IInv'
<1> SUFFICES ASSUME IInv, [Next]_vars PROVE IInv'
  OBVIOUS
<1>1. CASE UNCHANGED vars
  BY <1>1 DEF vars, IInv, TypeOK, HandleHeld, SessionHeld, QueueOfParked,
              CountExact, NoLostWakeup, SessionsBounded, Alive, Referenced, In
<1>2. ASSUME NEW t \in Tasks, TaskStep(t)
      PROVE  IInv'
  BY <1>2, AcquireInv, ConnectedInv, SessionStepInv, CancelInv, DestroyInv,
     ReturnConnectionInv, ReleaseInv, DropHandleInv, SetMaxSizeInv DEF TaskStep
<1>3. ASSUME NEW c \in Conns, ServerEnds(c)
      PROVE  IInv'
  BY <1>3, SessionStepInv
<1>4. QED
  BY <1>1, <1>2, <1>3 DEF Next

(* Every reachable state satisfies the invariant. *)
LEMMA Invariance == Spec => []IInv
BY InitInv, StepInv, PTL DEF Spec

(* The pool's variables keep their types; in particular the counter of
   acquired connections, a size_t, never wraps below zero. *)
THEOREM TypeCorrect == Spec => []TypeOK
<1>1. IInv => TypeOK
  BY DEF IInv
<1>2. QED
  BY <1>1, Invariance, PTL

(* num_aquired() is the number of connections being opened, in use or being
   returned, for any number of tasks. *)
THEOREM CounterCorrect == Spec => []CountExact
<1>1. IInv => CountExact
  BY DEF IInv
<1>2. QED
  BY <1>1, Invariance, PTL

(* No acquire sleeps beside a free slot that nobody is on the way to. *)
THEOREM WakeupCorrect == Spec => []NoLostWakeup
<1>1. IInv => NoLostWakeup
  BY DEF IInv
<1>2. QED
  BY <1>1, Invariance, PTL

(* Idle and acquired connections together stay within the largest max_size
   the pool has had. *)
THEOREM SizeCorrect == Spec => []SessionsBounded
<1>1. IInv => SessionsBounded
  BY DEF IInv
<1>2. QED
  BY <1>1, Invariance, PTL
-----------------------------------------------------------------------------
(* Every step of the pool is a step of the resizable semaphore or leaves it as it
   is, for any number of tasks.  The fairness part stays with TLC. *)
USE PoolAssumption

(* What a step that moves one task does to a set of tasks. *)
LEMMA TaskEnters ==
  ASSUME TypeOK, NEW t \in Tasks, NEW s, NEW S, pc' = [pc EXCEPT ![t] = s], s \in S
  PROVE  In(S)' = In(S) \cup {t}
BY DEF TypeOK, In

LEMMA TaskLeaves ==
  ASSUME TypeOK, NEW t \in Tasks, NEW s, NEW S, pc' = [pc EXCEPT ![t] = s], s \notin S
  PROVE  In(S)' = In(S) \ {t}
BY DEF TypeOK, In

(* The code's test of its counter is the contract's test of its holders. *)
LEMMA FullMeansNoRoom == IInv /\ handles # {} => (Full <=> ~Contract!Room)
<1> SUFFICES ASSUME IInv, handles # {} PROVE Full <=> ~Contract!Room
  OBVIOUS
<1>1. aquired_conns = Cardinality(In(Counted))
  BY DEF IInv, CountExact, Alive, Referenced
<1>2. max_size \in Nat /\ aquired_conns \in Nat
  BY DEF IInv, TypeOK
<1>3. QED
  BY <1>1, <1>2 DEF Full, Contract!Room, Cardinality, Contract!Cardinality

LEMMA StartsEmpty == Init => Contract!Init
BY DEF Init, Contract!Init, In, Counted, Opening, Waiting

(* A run of the acquire loop: let through, waiting, or given up. *)
LEMMA AcquireRefines ==
  ASSUME IInv, NEW t \in Tasks, Acquire(t) \/ Resume(t) \/ ResumeCancelled(t)
  PROVE  [Contract!Next]_Contract!cvars
<1>1. t \in handles
  BY DEF IInv, HandleHeld, Acquire, Resume, ResumeCancelled, Pending, Waiting
<1>2. Full <=> ~Contract!Room
  BY <1>1, FullMeansNoRoom
<1>3. TypeOK /\ max_size' = max_size
  BY DEF IInv, Acquire, Resume, ResumeCancelled
<1>4. t \notin In(Counted) /\ (t \in In(Waiting) <=> pc[t] # "out")
  BY DEF In, Counted, Opening, Waiting, Acquire, Resume, ResumeCancelled
<1>5. CASE TakeSlot(t) /\ ~Full
  <2>1. PICK s \in {"connecting", "reusing"} : pc' = [pc EXCEPT ![t] = s]
    BY <1>5 DEF TakeSlot
  <2>2. In(Counted)' = In(Counted) \cup {t} /\ In(Waiting)' = In(Waiting) \ {t}
    <3>1. s \in Counted /\ s \notin Waiting
      BY DEF Counted, Opening, Waiting
    <3>2. QED
      BY <1>3, <2>1, <3>1, TaskEnters, TaskLeaves
  <2>3. Contract!Request(t) \/ Contract!Grant(t)
    BY <1>2, <1>3, <1>4, <1>5, <2>2 DEF Contract!Request, Contract!Grant
  <2>4. QED
    BY <2>3 DEF Contract!Next
<1>6. CASE Park(t) /\ Full
  <2>1. pc' = [pc EXCEPT ![t] = "parked"]
    BY <1>6 DEF Park
  <2>2. In(Counted)' = In(Counted) /\ In(Waiting)' = In(Waiting) \cup {t}
    <3>1. "parked" \notin Counted /\ "parked" \in Waiting
      BY DEF Counted, Opening, Waiting
    <3>2. In(Counted)' = In(Counted) \ {t} /\ In(Waiting)' = In(Waiting) \cup {t}
      BY <1>3, <2>1, <3>1, TaskEnters, TaskLeaves
    <3>3. QED
      BY <1>4, <3>2
  <2>3. CASE t \in In(Waiting)
    BY <1>3, <2>2, <2>3 DEF Contract!cvars
  <2>4. CASE t \notin In(Waiting)
    BY <1>2, <1>3, <1>4, <1>6, <2>2, <2>4 DEF Contract!Request, Contract!Next
  <2>5. QED
    BY <2>3, <2>4
<1>7. CASE GiveUp(t) /\ Full /\ pc[t] = "cancelled"
  <2>1. pc' = [pc EXCEPT ![t] = "out"]
    BY <1>7 DEF GiveUp
  <2>2. In(Counted)' = In(Counted) /\ In(Waiting)' = In(Waiting) \ {t}
    <3>1. "out" \notin Counted /\ "out" \notin Waiting
      BY DEF Counted, Opening, Waiting
    <3>2. In(Counted)' = In(Counted) \ {t} /\ In(Waiting)' = In(Waiting) \ {t}
      BY <1>3, <2>1, <3>1, TaskEnters, TaskLeaves
    <3>3. QED
      BY <1>4, <3>2
  <2>3. Contract!Abandon(t)
    BY <1>2, <1>3, <1>4, <1>7, <2>2 DEF Contract!Abandon
  <2>4. QED
    BY <2>3 DEF Contract!Next
<1>8. QED
  BY <1>5, <1>6, <1>7 DEF Acquire, Resume, ResumeCancelled

(* The end of a connection's use, by its destructor or by the return. *)
LEMMA ReturnRefines ==
  ASSUME IInv, NEW t \in Tasks, Destroy(t) \/ ReturnConnection(t)
  PROVE  [Contract!Next]_Contract!cvars
<1>1. TypeOK /\ max_size' = max_size
  BY DEF IInv, Destroy, ReturnConnection
<1>2. t \in In(Counted) /\ t \notin In(Waiting)
  BY DEF In, Counted, Waiting, Destroy, ReturnConnection
<1>3. CASE pc' = [pc EXCEPT ![t] = "returning"]
  <2>1. In(Counted)' = In(Counted) /\ In(Waiting)' = In(Waiting)
    <3>1. "returning" \in Counted /\ "returning" \notin Waiting
      BY DEF Counted, Waiting
    <3>2. In(Counted)' = In(Counted) \cup {t} /\ In(Waiting)' = In(Waiting) \ {t}
      BY <1>1, <1>3, <3>1, TaskEnters, TaskLeaves
    <3>3. QED
      BY <1>2, <3>2
  <2>2. QED
    BY <1>1, <2>1 DEF Contract!cvars
<1>4. CASE \E s \in {"out", "releasing"} : pc' = [pc EXCEPT ![t] = s]
  <2>1. PICK s \in {"out", "releasing"} : pc' = [pc EXCEPT ![t] = s]
    BY <1>4
  <2>2. In(Counted)' = In(Counted) \ {t} /\ In(Waiting)' = In(Waiting)
    <3>1. s \notin Counted /\ s \notin Waiting
      BY DEF Counted, Opening, Waiting
    <3>2. In(Counted)' = In(Counted) \ {t} /\ In(Waiting)' = In(Waiting) \ {t}
      BY <1>1, <2>1, <3>1, TaskEnters, TaskLeaves
    <3>3. QED
      BY <1>2, <3>2
  <2>3. Contract!Return(t)
    BY <1>1, <1>2, <2>2 DEF Contract!Return
  <2>4. QED
    BY <2>3 DEF Contract!Next
<1>5. CASE ReturnConnection(t) /\ cv # <<>>
  <2> DEFINE h == Head(cv)
  <2>1. h \in Tasks /\ pc[h] = "parked" /\ h # t
    BY <1>5 DEF IInv, TypeOK, QueueOfParked, ReturnConnection
  <2>2. pc' = [pc EXCEPT ![t] = "releasing", ![h] = "ready"]
    BY <1>5 DEF ReturnConnection, CancelOne
  <2> HIDE DEF h
  <2>3. /\ pc'[t] = "releasing" /\ pc'[h] = "ready"
        /\ \A u \in Tasks \ {t, h} : pc'[u] = pc[u]
    BY <1>1, <2>1, <2>2 DEF TypeOK
  <2>4. In(Counted)' = In(Counted) \ {t}
    BY <2>1, <2>3 DEF In, Counted, Opening
  <2>5. In(Waiting)' = In(Waiting)
    BY <1>2, <2>1, <2>3 DEF In, Waiting
  <2>6. Contract!Return(t)
    BY <1>1, <1>2, <2>4, <2>5 DEF Contract!Return
  <2>7. QED
    BY <2>6 DEF Contract!Next
<1>6. QED
  BY <1>3, <1>4, <1>5 DEF Destroy, ReturnConnection, CancelOne

(* A change of the maximum; the waits it cancels still wait for a slot. *)
LEMMA SetMaxSizeRefines ==
  ASSUME IInv, NEW t \in Tasks, NEW v \in Sizes, SetMaxSize(t, v)
  PROVE  Contract!Next
<1>1. In(Counted)' = In(Counted) /\ In(Waiting)' = In(Waiting)
  BY DEF SetMaxSize, In, Counted, Opening, Waiting
<1>2. Contract!Resize(v)
  BY <1>1 DEF SetMaxSize, Contract!Resize
<1>3. QED
  BY <1>2 DEF Contract!Next

(* Everything else moves a task inside a set, or none. *)
LEMMA OthersStutter ==
  ASSUME IInv, NEW t \in Tasks,
         \/ \E ok \in BOOLEAN : Connected(t, ok)
         \/ Reused(t) \/ Cancel(t) \/ Use(t) \/ Release(t) \/ DropHandle(t)
         \/ \E u \in Tasks : MoveAssign(t, u)
  PROVE  UNCHANGED Contract!cvars
<1>1. TypeOK /\ max_size' = max_size
  BY DEF IInv, Connected, Reused, Cancel, Use, Release, DropHandle, MoveAssign
<1>2. CASE pc' = pc
  BY <1>1, <1>2 DEF Contract!cvars, In
<1>3. CASE \/ \E ok \in BOOLEAN : Connected(t, ok)
           \/ Reused(t) \/ Cancel(t) \/ Release(t)
  <2>1. PICK s \in {"holding", "cancelled", "aborting", "out"} :
          /\ pc' = [pc EXCEPT ![t] = s]
          /\ s \in Counted <=> pc[t] \in Counted
          /\ s \in Waiting <=> pc[t] \in Waiting
    BY <1>3 DEF Connected, Reused, Cancel, Release, Counted, Opening, Waiting
  <2>2. In(Counted)' = In(Counted) /\ In(Waiting)' = In(Waiting)
    BY <1>1, <2>1, TaskEnters, TaskLeaves DEF In
  <2>3. QED
    BY <1>1, <2>2 DEF Contract!cvars
<1>4. QED
  BY <1>2, <1>3 DEF Use, DropHandle, MoveAssign

LEMMA StepRefines == IInv /\ [Next]_vars => [Contract!Next]_Contract!cvars
<1> SUFFICES ASSUME IInv, [Next]_vars PROVE [Contract!Next]_Contract!cvars
  OBVIOUS
<1>1. CASE UNCHANGED vars
  BY <1>1 DEF vars, Contract!cvars, In
<1>2. ASSUME NEW t \in Tasks, TaskStep(t)
      PROVE  [Contract!Next]_Contract!cvars
  BY <1>2, AcquireRefines, ReturnRefines, SetMaxSizeRefines, OthersStutter DEF TaskStep
<1>3. CASE \E c \in Conns : ServerEnds(c)
  BY <1>3 DEF ServerEnds, Contract!cvars, In
<1>4. QED
  BY <1>1, <1>2, <1>3 DEF Next

(* "If the number of acquired connections reaches the max_size, this operation
   will wait until a connection is returned" (README.md): for any number of
   tasks, an acquire is let through exactly when fewer than max_size are, a
   waiter gives up only while there is no slot, and nothing else changes who
   holds or waits. *)
THEOREM PoolImplementsContract == Spec => Contract!Safety
<1>1. Spec => []IInv
  BY Invariance
<1>2. QED
  BY <1>1, StartsEmpty, StepRefines, PTL DEF Spec, Contract!Safety
=============================================================================
