---------------------- MODULE ConnectionPoolSessionProofs ----------------------
(***************************************************************************)
(* Theorems about the sessions of ConnectionPool: who has each, which ones *)
(* wait in the idle queue, and what happens to them when the pool dies.    *)
(***************************************************************************)
EXTENDS ConnectionPoolProofs

(* Before it takes a slot and after it let go, a task owns no session. *)
OwnsNothing == \A t \in Tasks : pc[t] \in Waiting \cup {"out"} => conn[t] = NoConn

(* What the steps preserve, on top of IInv: NoLeak is needed for the others,
   as it makes a closed session one that nobody has. *)
SInv == OwnsNothing /\ NoSharing /\ NoLeak /\ IdleReusable

USE PoolAssumption
-----------------------------------------------------------------------------
(* The elements of a queue after a push and a pop. *)
LEMMA PushElements ==
  ASSUME NEW S, NEW s \in Seq(S), NEW x \in S
  PROVE  /\ ToSet(Append(s, x)) = ToSet(s) \cup {x}
         /\ (x \notin ToSet(s) /\ \A i, j \in DOMAIN s : s[i] = s[j] => i = j)
              => \A i, j \in DOMAIN Append(s, x) : Append(s, x)[i] = Append(s, x)[j] => i = j
<1> DEFINE a == Append(s, x)
<1>1. /\ DOMAIN s = 1 .. Len(s) /\ DOMAIN a = 1 .. Len(s) + 1 /\ Len(s) \in Nat
      /\ a[Len(s) + 1] = x
      /\ \A i \in 1 .. Len(s) : a[i] = s[i]
  OBVIOUS
<1>2. DOMAIN a = DOMAIN s \cup {Len(s) + 1} /\ Len(s) + 1 \notin DOMAIN s
  BY <1>1
<1> HIDE DEF a
<1>3. ToSet(a) = ToSet(s) \cup {x}
  BY <1>1, <1>2 DEF ToSet
<1>4. ASSUME x \notin ToSet(s), \A i, j \in DOMAIN s : s[i] = s[j] => i = j,
             NEW i \in DOMAIN a, NEW j \in DOMAIN a, a[i] = a[j]
      PROVE  i = j
  BY <1>1, <1>2, <1>4 DEF ToSet
<1>5. QED
  BY <1>3, <1>4 DEF a

LEMMA PopElements ==
  ASSUME NEW S, NEW s \in Seq(S), s # <<>>
  PROVE  /\ Head(s) \in ToSet(s)
         /\ ToSet(s) = ToSet(Tail(s)) \cup {Head(s)}
         /\ (\A i, j \in DOMAIN s : s[i] = s[j] => i = j)
              => /\ Head(s) \notin ToSet(Tail(s))
                 /\ \A i, j \in DOMAIN Tail(s) : Tail(s)[i] = Tail(s)[j] => i = j
<1> DEFINE r == Tail(s)
<1>1. /\ DOMAIN s = 1 .. Len(s) /\ Len(s) \in Nat \ {0} /\ Head(s) = s[1]
      /\ DOMAIN r = 1 .. Len(s) - 1 /\ \A i \in 1 .. Len(s) - 1 : r[i] = s[i + 1]
  OBVIOUS
<1> HIDE DEF r
<1>2. ToSet(s) = ToSet(r) \cup {Head(s)}
  <2>1. ASSUME NEW i \in DOMAIN s, i # 1
        PROVE  i - 1 \in DOMAIN r /\ s[i] = r[i - 1]
    BY <1>1, <2>1
  <2>2. ASSUME NEW i \in DOMAIN r
        PROVE  i + 1 \in DOMAIN s /\ r[i] = s[i + 1]
    BY <1>1
  <2>3. 1 \in DOMAIN s
    BY <1>1
  <2>4. QED
    BY <1>1, <2>1, <2>2, <2>3 DEF ToSet
<1>3. ASSUME \A i, j \in DOMAIN s : s[i] = s[j] => i = j
      PROVE  /\ Head(s) \notin ToSet(r)
             /\ \A i, j \in DOMAIN r : r[i] = r[j] => i = j
  <2>1. ASSUME NEW i \in DOMAIN r, NEW j \in DOMAIN r, r[i] = r[j]
        PROVE  i = j
    <3>1. i + 1 = j + 1
      BY <1>1, <1>3, <2>1
    <3>2. QED
      BY <1>1, <3>1
  <2>2. ASSUME NEW i \in DOMAIN r
        PROVE  r[i] # s[1]
    BY <1>1, <1>3
  <2>3. QED
    BY <1>1, <2>1, <2>2 DEF ToSet
<1>4. QED
  BY <1>1, <1>2, <1>3 DEF r

LEMMA EmptyQueue == ToSet(<<>>) = {} /\ DOMAIN <<>> = {}
  BY DEF ToSet
-----------------------------------------------------------------------------
LEMMA InitSessions == Init => SInv
<1> SUFFICES ASSUME Init PROVE SInv
  OBVIOUS
<1>1. OwnsNothing
  BY DEF Init, OwnsNothing
<1>2. NoSharing
  BY EmptyQueue DEF Init, NoSharing
<1>3. NoLeak
  BY EmptyQueue DEF Init, NoLeak
<1>4. IdleReusable
  BY EmptyQueue DEF Init, IdleReusable
<1>5. QED
  BY <1>1, <1>2, <1>3, <1>4 DEF SInv

(* A step that moves no session and changes the status of at most one, which
   stays open and, in the queue, reusable. *)
LEMMA StatusChange ==
  ASSUME IInv, SInv, OwnsNothing', UNCHANGED <<idle_conns, conn>>,
         \A c \in Conns :
           \/ pgconn'[c] = pgconn[c]
           \/ /\ pgconn[c] # "closed" /\ pgconn'[c] # "closed"
              /\ c \in ToSet(idle_conns) => pgconn'[c] \in {"clean", "stale"}
  PROVE  SInv'
<1>1. ToSet(idle_conns) \subseteq Conns
  BY DEF IInv, TypeOK, ToSet
<1>2. NoSharing'
  BY DEF SInv, NoSharing
<1>3. NoLeak'
  BY DEF SInv, NoLeak
<1>4. IdleReusable'
  BY <1>1 DEF SInv, IdleReusable
<1>5. QED
  BY <1>2, <1>3, <1>4 DEF SInv

(* The steps that only move tasks, or change a status. *)
LEMMA QuietSteps ==
  ASSUME IInv, SInv, NEW t \in Tasks,
         \/ pc[t] \in Waiting \cup {"out"} /\ (Park(t) \/ GiveUp(t))
         \/ Reused(t) \/ Cancel(t)
         \/ \E v \in Sizes : SetMaxSize(t, v)
         \/ Destroy(t) /\ Alive
  PROVE  SInv'
<1>1. UNCHANGED <<idle_conns, conn, pgconn>>
  BY DEF Park, GiveUp, Reused, Cancel, SetMaxSize, Destroy
<1>2. ASSUME NEW u \in Tasks, pc'[u] \in Waiting \cup {"out"}
      PROVE  pc[u] \in Waiting \cup {"out"}
  <2>1. CASE pc[t] \in Waiting \cup {"out"} /\ (Park(t) \/ GiveUp(t))
    BY <1>2, <2>1 DEF Park, GiveUp, IInv, TypeOK
  <2>2. CASE Cancel(t)
    BY <1>2, <2>2 DEF Cancel, Waiting, IInv, TypeOK
  <2>3. CASE Reused(t) \/ (Destroy(t) /\ Alive)
    BY <1>2, <2>3 DEF Reused, Destroy, Waiting, IInv, TypeOK
  <2>4. CASE \E v \in Sizes : SetMaxSize(t, v)
    BY <1>2, <2>4 DEF SetMaxSize, Waiting
  <2>5. QED
    BY <2>1, <2>2, <2>3, <2>4
<1>3. OwnsNothing'
  BY <1>1, <1>2 DEF SInv, OwnsNothing
<1>4. QED
  BY <1>1, <1>3, StatusChange

LEMMA StatusSteps ==
  ASSUME IInv, SInv,
         \/ \E t \in Tasks : Use(t) \/ \E ok \in BOOLEAN : Connected(t, ok)
         \/ \E c \in Conns : ServerEnds(c)
  PROVE  SInv'
<1>1. CASE \E c \in Conns : ServerEnds(c)
  <2>1. PICK c \in Conns : ServerEnds(c)
    BY <1>1
  <2>2. OwnsNothing' /\ UNCHANGED <<idle_conns, conn>>
    BY <2>1 DEF SInv, OwnsNothing, ServerEnds
  <2>3. /\ \A d \in Conns : d # c => pgconn'[d] = pgconn[d]
        /\ pgconn[c] = "clean" /\ pgconn'[c] = "stale"
    BY <2>1 DEF ServerEnds, IInv, TypeOK
  <2>4. QED
    BY <2>2, <2>3, StatusChange
<1>2. CASE \E t \in Tasks : Use(t) \/ \E ok \in BOOLEAN : Connected(t, ok)
  <2>1. PICK t \in Tasks : Use(t) \/ \E ok \in BOOLEAN : Connected(t, ok)
    BY <1>2
  <2>2. pc[t] \in Counted /\ conn[t] \in Conns
    BY <2>1 DEF Use, Connected, Counted, Opening, IInv, SessionHeld
  <2>3. conn[t] \notin ToSet(idle_conns) /\ pgconn[conn[t]] # "closed"
    BY <2>2 DEF SInv, NoSharing, NoLeak
  <2>4. UNCHANGED <<idle_conns, conn>>
    BY <2>1 DEF Use, Connected
  <2>5. OwnsNothing'
    BY <2>1, <2>4 DEF SInv, OwnsNothing, Use, Connected, IInv, TypeOK, Waiting
  <2>6. /\ \A d \in Conns : d # conn[t] => pgconn'[d] = pgconn[d]
        /\ pgconn'[conn[t]] # "closed"
    BY <2>1, <2>2 DEF Use, Connected, IInv, TypeOK
  <2>7. QED
    BY <2>2, <2>3, <2>4, <2>5, <2>6, StatusChange
<1>3. QED
  BY <1>1, <1>2

LEMMA TakeSlotSessions ==
  ASSUME IInv, SInv, NEW t \in Tasks, pc[t] \in Waiting \cup {"out"}, TakeSlot(t)
  PROVE  SInv'
<1>1. conn[t] = NoConn
  BY DEF SInv, OwnsNothing
<1>2. CASE idle_conns = <<>>
  <2>1. PICK c \in Conns :
          /\ pgconn[c] = "closed"
          /\ conn' = [conn EXCEPT ![t] = c]
          /\ pgconn' = [pgconn EXCEPT ![c] = "opening"]
    BY <1>2 DEF TakeSlot
  <2>2. pc' = [pc EXCEPT ![t] = "connecting"] /\ idle_conns' = <<>>
    BY <1>2 DEF TakeSlot
  <2>3. OwnsNothing'
    BY <2>1, <2>2 DEF SInv, OwnsNothing, IInv, TypeOK, Waiting
  <2>4. \A u \in Tasks : conn[u] # c
    BY <2>1 DEF SInv, NoLeak
  <2>5. NoSharing'
    BY <2>1, <2>2, <2>4, EmptyQueue DEF SInv, NoSharing, IInv, TypeOK
  <2>6. NoLeak'
    <3> SUFFICES ASSUME NEW d \in Conns
                 PROVE  pgconn'[d] # "closed" <=> \E u \in Tasks : d = conn'[u]
      BY <2>2, EmptyQueue DEF NoLeak
    <3>1. pgconn[d] # "closed" <=> \E u \in Tasks : d = conn[u]
      BY <1>2, EmptyQueue DEF SInv, NoLeak
    <3>2. QED
      BY <1>1, <2>1, <3>1 DEF IInv, TypeOK
  <2>7. IdleReusable'
    BY <2>2, EmptyQueue DEF IdleReusable
  <2>8. QED
    BY <2>3, <2>5, <2>6, <2>7 DEF SInv
<1>3. CASE idle_conns # <<>>
  <2> DEFINE c == Head(idle_conns)
  <2>1. /\ conn' = [conn EXCEPT ![t] = c]
        /\ idle_conns' = Tail(idle_conns)
        /\ pc' = [pc EXCEPT ![t] = "reusing"]
        /\ UNCHANGED pgconn
    BY <1>3 DEF TakeSlot
  <2>2. /\ c \in Conns
        /\ ToSet(idle_conns) = ToSet(idle_conns') \cup {c}
        /\ c \notin ToSet(idle_conns')
        /\ \A i, j \in DOMAIN idle_conns' : idle_conns'[i] = idle_conns'[j] => i = j
    BY <1>3, <2>1, PopElements DEF SInv, NoSharing, IInv, TypeOK
  <2> HIDE DEF c
  <2>3. OwnsNothing'
    BY <2>1 DEF SInv, OwnsNothing, IInv, TypeOK, Waiting
  <2>4. \A u \in Tasks : conn[u] # c
    BY <2>2 DEF SInv, NoSharing
  <2>5. NoSharing'
    BY <2>1, <2>2, <2>4 DEF SInv, NoSharing, IInv, TypeOK
  <2>6. NoLeak'
    <3> SUFFICES ASSUME NEW d \in Conns
                 PROVE  pgconn'[d] # "closed"
                          <=> d \in ToSet(idle_conns') \/ \E u \in Tasks : d = conn'[u]
      BY DEF NoLeak
    <3>1. pgconn[d] # "closed" <=> d \in ToSet(idle_conns) \/ \E u \in Tasks : d = conn[u]
      BY DEF SInv, NoLeak
    <3>2. QED
      BY <1>1, <2>1, <2>2, <3>1 DEF IInv, TypeOK
  <2>7. IdleReusable'
    BY <2>1, <2>2 DEF SInv, IdleReusable
  <2>8. QED
    BY <2>3, <2>5, <2>6, <2>7 DEF SInv
<1>4. QED
  BY <1>2, <1>3

LEMMA MoveAssignSessions ==
  ASSUME IInv, SInv, NEW t \in Tasks, NEW u \in Tasks, MoveAssign(t, u)
  PROVE  SInv'
<1>1. /\ conn' = [conn EXCEPT ![t] = conn[u], ![u] = conn[t]]
      /\ pc[t] = "holding" /\ pc[u] = "holding" /\ t # u
      /\ UNCHANGED <<pc, pgconn, idle_conns>>
  BY DEF MoveAssign
<1>2. /\ conn'[t] = conn[u] /\ conn'[u] = conn[t]
      /\ \A w \in Tasks \ {t, u} : conn'[w] = conn[w]
  BY <1>1 DEF IInv, TypeOK
<1>3. OwnsNothing'
  BY <1>1, <1>2 DEF SInv, OwnsNothing, Waiting
<1>4. NoSharing'
  <2>1. \A w \in Tasks : conn'[w] \notin ToSet(idle_conns)
    BY <1>2 DEF SInv, NoSharing
  <2>2. ASSUME NEW w \in Tasks, NEW x \in Tasks, w # x, conn'[w] # NoConn
        PROVE  conn'[w] # conn'[x]
    <3> DEFINE swap(y) == IF y = t THEN u ELSE IF y = u THEN t ELSE y
    <3>1. /\ conn'[w] = conn[swap(w)] /\ conn'[x] = conn[swap(x)]
          /\ swap(w) \in Tasks /\ swap(x) \in Tasks /\ swap(w) # swap(x)
      BY <1>2, <2>2
    <3> HIDE DEF swap
    <3>2. QED
      BY <2>2, <3>1 DEF SInv, NoSharing
  <2>3. QED
    BY <1>1, <2>1, <2>2 DEF SInv, NoSharing
<1>5. NoLeak'
  <2>1. {conn'[w] : w \in Tasks} = {conn[w] : w \in Tasks}
    BY <1>2
  <2>2. QED
    BY <1>1, <2>1 DEF SInv, NoLeak
<1>6. IdleReusable'
  BY <1>1 DEF SInv, IdleReusable
<1>7. QED
  BY <1>3, <1>4, <1>5, <1>6 DEF SInv

LEMMA ReturnSessions ==
  ASSUME IInv, SInv, NEW t \in Tasks, ReturnConnection(t)
  PROVE  SInv'
<1>1. /\ pc[t] = "returning" /\ conn[t] \in Conns
      /\ UNCHANGED pgconn
  BY DEF ReturnConnection, IInv, SessionHeld, Counted
<1>2. \A u \in Tasks : u # t /\ pc'[u] \in Waiting \cup {"out"}
                        => pc[u] \in Waiting \cup {"out"}
  <2>1. CASE cv = <<>>
    BY <2>1 DEF ReturnConnection, CancelOne, IInv, TypeOK
  <2>2. CASE cv # <<>>
    <3>1. pc[Head(cv)] = "parked" /\ Head(cv) \in Tasks
      BY <2>2 DEF IInv, TypeOK, QueueOfParked
    <3>2. pc' = [pc EXCEPT ![t] = "releasing", ![Head(cv)] = "ready"]
      BY <2>2 DEF ReturnConnection, CancelOne
    <3>3. QED
      BY <3>1, <3>2 DEF IInv, TypeOK, Waiting
  <2>3. QED
    BY <2>1, <2>2
<1>3. pc'[t] = "releasing"
  <2>1. CASE cv = <<>>
    BY <2>1 DEF ReturnConnection, CancelOne, IInv, TypeOK
  <2>2. CASE cv # <<>>
    <3>1. Head(cv) # t
      BY <2>2, <1>1 DEF IInv, TypeOK, QueueOfParked
    <3>2. pc' = [pc EXCEPT ![t] = "releasing", ![Head(cv)] = "ready"]
      BY <2>2 DEF ReturnConnection, CancelOne
    <3>3. QED
      BY <3>1, <3>2 DEF IInv, TypeOK
  <2>3. QED
    BY <2>1, <2>2
<1>4. CASE ~Reusable(conn[t])
  <2>1. UNCHANGED <<idle_conns, conn>>
    BY <1>4 DEF ReturnConnection
  <2>2. OwnsNothing'
    BY <1>2, <1>3, <2>1 DEF SInv, OwnsNothing, Waiting
  <2>3. QED
    BY <1>1, <2>1, <2>2, StatusChange
<1>5. CASE Reusable(conn[t])
  <2>1. /\ idle_conns' = Append(idle_conns, conn[t])
        /\ conn' = [conn EXCEPT ![t] = NoConn]
    BY <1>5 DEF ReturnConnection
  <2>2. conn[t] \notin ToSet(idle_conns)
    BY DEF SInv, NoSharing
  <2>3. /\ ToSet(idle_conns') = ToSet(idle_conns) \cup {conn[t]}
        /\ \A i, j \in DOMAIN idle_conns' : idle_conns'[i] = idle_conns'[j] => i = j
    BY <1>1, <2>1, <2>2, PushElements DEF SInv, NoSharing, IInv, TypeOK
  <2>4. /\ conn'[t] = NoConn
        /\ \A u \in Tasks \ {t} : conn'[u] = conn[u] /\ conn[u] # conn[t]
    BY <1>1, <2>1 DEF SInv, NoSharing, IInv, TypeOK
  <2>5. NoConn \notin ToSet(idle_conns')
    <3>1. ToSet(idle_conns) \subseteq Conns
      BY DEF IInv, TypeOK, ToSet
    <3>2. QED
      BY <1>1, <2>3, <3>1
  <2>6. OwnsNothing'
    BY <1>2, <2>4 DEF SInv, OwnsNothing
  <2>7. NoSharing'
    BY <2>3, <2>4, <2>5 DEF SInv, NoSharing
  <2>8. NoLeak'
    <3> SUFFICES ASSUME NEW d \in Conns
                 PROVE  pgconn'[d] # "closed"
                          <=> d \in ToSet(idle_conns') \/ \E u \in Tasks : d = conn'[u]
      BY DEF NoLeak
    <3>1. pgconn[d] # "closed" <=> d \in ToSet(idle_conns) \/ \E u \in Tasks : d = conn[u]
      BY DEF SInv, NoLeak
    <3>2. QED
      BY <1>1, <2>3, <2>4, <3>1
  <2>9. IdleReusable'
    <3>1. pgconn[conn[t]] \in {"clean", "stale"}
      BY <1>5 DEF Reusable, PQstatusOk, PQtransactionIdle
    <3>2. QED
      BY <1>1, <2>3, <3>1 DEF SInv, IdleReusable
  <2>10. QED
    BY <2>6, <2>7, <2>8, <2>9 DEF SInv
<1>6. QED
  BY <1>4, <1>5

(* A task lets go of its session, which the same step closes, and the pool
   loses a reference, perhaps its last. *)
LEMMA DropSessions ==
  ASSUME IInv, SInv, OwnsNothing', NEW S \in SUBSET (Conns \cup {NoConn}),
         NEW h, NEW p, DropReference(h, p, S),
         \A t \in Tasks : \/ conn'[t] = conn[t] /\ conn[t] \notin S \ {NoConn}
                          \/ conn'[t] = NoConn /\ conn[t] \in S,
         S \cap ToSet(idle_conns) = {}, NoConn \notin ToSet(idle_conns),
         \A c \in S \ {NoConn} : \E t \in Tasks : conn[t] = c
  PROVE  SInv'
<1>1. NoSharing'
  <2>1. \A t, u \in Tasks : t # u /\ conn'[t] # NoConn => conn'[t] # conn'[u]
    BY DEF SInv, NoSharing
  <2>2. CASE idle_conns' = idle_conns
    BY <2>1, <2>2 DEF SInv, NoSharing
  <2>3. CASE idle_conns' = <<>>
    BY <2>1, <2>3, EmptyQueue DEF NoSharing
  <2>4. QED
    BY <2>2, <2>3 DEF DropReference
<1>2. CASE Referenced(h, p)
  <2>1. idle_conns' = idle_conns
        /\ \A c \in Conns : pgconn'[c] = IF c \in S THEN "closed" ELSE pgconn[c]
    BY <1>2 DEF DropReference
  <2>2. IdleReusable'
    BY <2>1 DEF SInv, IdleReusable, IInv, TypeOK, ToSet
  <2>3. NoLeak'
    <3> SUFFICES ASSUME NEW d \in Conns
                 PROVE  pgconn'[d] # "closed"
                          <=> d \in ToSet(idle_conns) \/ \E u \in Tasks : d = conn'[u]
      BY <2>1 DEF NoLeak
    <3>1. pgconn[d] # "closed" <=> d \in ToSet(idle_conns) \/ \E u \in Tasks : d = conn[u]
      BY DEF SInv, NoLeak
    <3>2. (\E u \in Tasks : d = conn'[u]) <=> d \notin S /\ \E u \in Tasks : d = conn[u]
      BY PoolAssumption
    <3>3. QED
      BY <2>1, <3>1, <3>2
  <2>4. QED
    BY <1>1, <2>2, <2>3 DEF SInv
<1>3. CASE ~Referenced(h, p)
  <2>1. /\ idle_conns' = <<>>
        /\ \A c \in Conns : pgconn'[c] = IF c \in S \/ c \in ToSet(idle_conns)
                                         THEN "closed" ELSE pgconn[c]
    BY <1>3 DEF DropReference
  <2>2. IdleReusable'
    BY <2>1, EmptyQueue DEF IdleReusable
  <2>3. NoLeak'
    <3> SUFFICES ASSUME NEW d \in Conns
                 PROVE  pgconn'[d] # "closed" <=> \E u \in Tasks : d = conn'[u]
      BY <2>1, EmptyQueue DEF NoLeak
    <3>1. pgconn[d] # "closed" <=> d \in ToSet(idle_conns) \/ \E u \in Tasks : d = conn[u]
      BY DEF SInv, NoLeak
    <3>2. (\E u \in Tasks : d = conn'[u]) <=> d \notin S /\ \E u \in Tasks : d = conn[u]
      BY PoolAssumption
    <3>3. \A u \in Tasks : conn[u] \notin ToSet(idle_conns)
      BY DEF SInv, NoSharing
    <3>4. QED
      BY <2>1, <3>1, <3>2, <3>3
  <2>4. QED
    BY <1>1, <2>2, <2>3 DEF SInv
<1>4. QED
  BY <1>2, <1>3
LEMMA QueueHoldsSessions == IInv => ToSet(idle_conns) \subseteq Conns
  BY DEF IInv, TypeOK, ToSet

LEMMA ReleaseSessions ==
  ASSUME IInv, SInv, NEW t \in Tasks, Release(t)
  PROVE  SInv'
<1>1. /\ conn' = [conn EXCEPT ![t] = NoConn]
      /\ pc' = [pc EXCEPT ![t] = "out"]
      /\ DropReference(handles, pc', {conn[t]})
  BY DEF Release
<1>2. conn'[t] = NoConn /\ \A u \in Tasks \ {t} : conn'[u] = conn[u] /\ pc'[u] = pc[u]
  BY <1>1 DEF IInv, TypeOK
<1>3. OwnsNothing'
  BY <1>2 DEF SInv, OwnsNothing
<1>4. \A u \in Tasks \ {t} : conn[u] \notin {conn[t]} \ {NoConn}
  BY DEF SInv, NoSharing
<1>5. {conn[t]} \in SUBSET (Conns \cup {NoConn})
  BY DEF IInv, TypeOK
<1>6. {conn[t]} \cap ToSet(idle_conns) = {} /\ NoConn \notin ToSet(idle_conns)
  BY QueueHoldsSessions DEF SInv, NoSharing
<1>7. \A u \in Tasks : \/ conn'[u] = conn[u] /\ conn[u] \notin {conn[t]} \ {NoConn}
                       \/ conn'[u] = NoConn /\ conn[u] \in {conn[t]}
  BY <1>2, <1>4
<1>8. QED
  BY <1>1, <1>3, <1>5, <1>6, <1>7, DropSessions

LEMMA DropHandleSessions ==
  ASSUME IInv, SInv, NEW t \in Tasks, DropHandle(t)
  PROVE  SInv'
<1>1. UNCHANGED <<pc, conn>> /\ DropReference(handles', pc, {})
  BY DEF DropHandle
<1>2. OwnsNothing'
  BY <1>1 DEF SInv, OwnsNothing
<1>3. NoConn \notin ToSet(idle_conns)
  BY QueueHoldsSessions
<1>4. QED
  BY <1>1, <1>2, <1>3, DropSessions

(* The connection outlives its pool: its destructor closes the session and
   leaves the rest as a release under a living pool does. *)
LEMMA DestroySessions ==
  ASSUME IInv, SInv, NEW t \in Tasks, Destroy(t), ~Alive
  PROVE  SInv'
<1>1. /\ pc[t] = "holding"
      /\ conn' = [conn EXCEPT ![t] = NoConn]
      /\ pc' = [pc EXCEPT ![t] = "out"]
      /\ pgconn' = [pgconn EXCEPT ![conn[t]] = "closed"]
      /\ UNCHANGED idle_conns
  BY DEF Destroy
<1>2. conn'[t] = NoConn /\ \A u \in Tasks \ {t} : conn'[u] = conn[u] /\ pc'[u] = pc[u]
  BY <1>1 DEF IInv, TypeOK
<1>3. OwnsNothing'
  BY <1>2 DEF SInv, OwnsNothing
<1>4. \A u \in Tasks \ {t} : conn[u] \notin {conn[t]} \ {NoConn}
  BY DEF SInv, NoSharing
<1>5. {conn[t]} \in SUBSET (Conns \cup {NoConn})
  BY DEF IInv, TypeOK
<1>6. {conn[t]} \cap ToSet(idle_conns) = {} /\ NoConn \notin ToSet(idle_conns)
  BY QueueHoldsSessions DEF SInv, NoSharing
<1>7. DropReference({t}, pc, {conn[t]})
  BY <1>1 DEF DropReference, Referenced, IInv, TypeOK
<1>8. \A u \in Tasks : \/ conn'[u] = conn[u] /\ conn[u] \notin {conn[t]} \ {NoConn}
                       \/ conn'[u] = NoConn /\ conn[u] \in {conn[t]}
  BY <1>2, <1>4
<1>9. QED
  BY <1>3, <1>5, <1>6, <1>7, <1>8, DropSessions

LEMMA AcquireSessions ==
  ASSUME IInv, SInv, NEW t \in Tasks, Acquire(t) \/ Resume(t) \/ ResumeCancelled(t)
  PROVE  SInv'
<1>1. pc[t] \in Waiting \cup {"out"}
  BY DEF Acquire, Resume, ResumeCancelled, Waiting
<1>2. Park(t) \/ GiveUp(t) \/ TakeSlot(t)
  BY DEF Acquire, Resume, ResumeCancelled
<1>3. QED
  BY <1>1, <1>2, QuietSteps, TakeSlotSessions
-----------------------------------------------------------------------------
LEMMA SessionsStep == IInv /\ SInv /\ [Next]_vars => SInv'
<1> SUFFICES ASSUME IInv, SInv, [Next]_vars PROVE SInv'
  OBVIOUS
<1>1. CASE UNCHANGED vars
  <2>1. OwnsNothing' /\ UNCHANGED <<idle_conns, conn, pgconn>>
    BY <1>1 DEF vars, SInv, OwnsNothing
  <2>2. QED
    BY <2>1, StatusChange
<1>2. ASSUME NEW t \in Tasks, TaskStep(t)
      PROVE  SInv'
  <2>1. CASE Destroy(t)
    BY <2>1, QuietSteps, DestroySessions
  <2>2. CASE Reused(t) \/ Cancel(t) \/ \E v \in Sizes : SetMaxSize(t, v)
    BY <2>2, QuietSteps
  <2>3. CASE Use(t) \/ \E ok \in BOOLEAN : Connected(t, ok)
    BY <2>3, StatusSteps
  <2>4. CASE Acquire(t) \/ Resume(t) \/ ResumeCancelled(t)
    BY <2>4, AcquireSessions
  <2>5. CASE ReturnConnection(t) \/ Release(t) \/ DropHandle(t)
    BY <2>5, ReturnSessions, ReleaseSessions, DropHandleSessions
  <2>6. CASE \E u \in Tasks : MoveAssign(t, u)
    BY <2>6, MoveAssignSessions
  <2>7. QED
    BY <1>2, <2>1, <2>2, <2>3, <2>4, <2>5, <2>6 DEF TaskStep
<1>3. ASSUME NEW c \in Conns, ServerEnds(c)
      PROVE  SInv'
  BY <1>3, StatusSteps
<1>4. QED
  BY <1>1, <1>2, <1>3 DEF Next

LEMMA Sessions == Spec => []SInv
BY InitSessions, SessionsStep, Invariance, PTL DEF Spec

(* A PGconn has one owner: the idle queue, which holds it once, or one task,
   whatever the order of returns, reuse, swaps and the pool's end. *)
THEOREM OneOwner == Spec => []NoSharing
<1>1. SInv => NoSharing
  BY DEF SInv
<1>2. QED
  BY <1>1, Sessions, PTL

(* PQfinish runs for exactly the sessions that nobody has any more: no failed
   connect, refused return or dying pool leaks one or closes one in use. *)
THEOREM OpenIffOwned == Spec => []NoLeak
<1>1. SInv => NoLeak
  BY DEF SInv
<1>2. QED
  BY <1>1, Sessions, PTL

(* return_connection lets into idle_conns_ only connected sessions outside a
   transaction, and nothing that happens while one waits there changes what
   libpq knows of it. *)
THEOREM IdleAreReusable == Spec => []IdleReusable
<1>1. SInv => IdleReusable
  BY DEF SInv
<1>2. QED
  BY <1>1, Sessions, PTL
-----------------------------------------------------------------------------
(* With no handle and no locked pointer left, no acquire is pending, and
   only the connections that are still held can move. *)
LEMMA DeadStep ==
  IInv /\ [Next]_vars => (~Alive => ~Alive' /\ UNCHANGED <<max_size, aquired_conns, idle_conns, cv>>)
<1> SUFFICES ASSUME IInv, [Next]_vars, ~Alive
             PROVE  ~Alive' /\ UNCHANGED <<max_size, aquired_conns, idle_conns, cv>>
  OBVIOUS
<1>1. handles = {} /\ \A t \in Tasks : pc[t] \notin Pinning /\ pc[t] \notin Pending
  BY DEF Alive, Referenced, IInv, HandleHeld
<1>2. CASE UNCHANGED vars
  BY <1>2 DEF vars, Alive, Referenced
<1>3. ASSUME NEW t \in Tasks, TaskStep(t)
      PROVE  ~Alive' /\ UNCHANGED <<max_size, aquired_conns, idle_conns, cv>>
  <2>1. Destroy(t) \/ Use(t) \/ \E u \in Tasks : MoveAssign(t, u)
    BY <1>1, <1>3 DEF TaskStep, Acquire, Resume, ResumeCancelled, Connected, Reused, Cancel,
                      ReturnConnection, Release, DropHandle, SetMaxSize,
                      Pending, Waiting, Opening, Pinning
  <2>2. CASE Use(t) \/ \E u \in Tasks : MoveAssign(t, u)
    BY <2>2 DEF Use, MoveAssign, Alive, Referenced
  <2>3. CASE Destroy(t)
    <3>1. /\ pc' = [pc EXCEPT ![t] = "out"]
          /\ UNCHANGED <<max_size, aquired_conns, idle_conns, cv, handles>>
      BY <2>3 DEF Destroy
    <3>2. \A u \in Tasks : pc'[u] \notin Pinning
      BY <1>1, <3>1 DEF IInv, TypeOK, Pinning
    <3>3. QED
      BY <1>1, <3>1, <3>2 DEF Alive, Referenced
  <2>4. QED
    BY <2>1, <2>2, <2>3
<1>4. ASSUME NEW c \in Conns, ServerEnds(c)
      PROVE  ~Alive' /\ UNCHANGED <<max_size, aquired_conns, idle_conns, cv>>
  BY <1>4 DEF ServerEnds, Alive, Referenced
<1>5. QED
  BY <1>2, <1>3, <1>4 DEF Next

(* The weak_ptr of a late pooled_connection finds nothing to lock: once the
   last reference is gone no step of anyone reads or writes the pool again. *)
THEOREM DeadStaysDead == Spec => DeadPoolUntouched
BY Invariance, DeadStep, PTL DEF Spec, DeadPoolUntouched
=============================================================================
