--------------------------- MODULE DescriptorProofs ---------------------------
(***************************************************************************)
(* Proofs about Descriptor, for every set of objects and of descriptors.   *)
(***************************************************************************)
EXTENDS Descriptor, TLAPS

(* The two owners of a descriptor, of callers who use an object as in
   NoForeignClose. *)

\* A PGconn has a socket of its own, which is open.
OneOwner ==
  /\ \A o \in Objs : pgconn[o] \in Fds => table[pgconn[o]] = "libpq"
  /\ \A o, p \in Objs : pgconn[o] \in Fds /\ pgconn[o] = pgconn[p] => o = p

\* socket_ is set only beside a PGconn, which releases it in the destructor;
\* between the two assignments of a move it is set in neither way twice.
Beside ==
  /\ \A o \in Objs :
       phase[o] \in {"live", "connecting", "polling"} /\ socket[o] # None => pgconn[o] # None
  /\ \A o \in Objs : phase[o] \in {"dying", "gone", "moving"} => socket[o] = None
  /\ \A o \in Objs : phase[o] \in {"gone", "moved"} => pgconn[o] = None

\* A move in progress: what it moves from waits for it alone.
Moving ==
  /\ \A o \in Objs : phase[o] = "moving" =>
       /\ phase[source[o]] = "moved"
       /\ socket[source[o]] # None => pgconn[o] # None
  /\ \A o, p \in Objs :
       phase[o] = "moving" /\ phase[p] = "moving" /\ source[o] = source[p] => o = p

Types ==
  /\ table \in [Fds -> {"free", "libpq", "other"}]
  /\ pgconn \in [Objs -> Fds \cup {None, Broken}]
  /\ socket \in [Objs -> Fds \cup {None}]
  /\ phase \in [Objs -> {"live", "dying", "gone", "moving", "moved", "connecting",
                      "polling"}]
  /\ source \in [Objs -> Objs]
  /\ foreign \in BOOLEAN /\ misused \in BOOLEAN

\* Between two sockets of the poll loop there is none.
Polling == \A o \in Objs : phase[o] = "polling" => pgconn[o] = Broken

InStep == ~misused => OneOwner /\ Beside /\ Moving /\ ~foreign

IInv == Types /\ Polling /\ NoDescriptorLeak /\ InStep

USE DescriptorAssumption

LEMMA InitIInv == Init => IInv
<1> SUFFICES ASSUME Init PROVE IInv
  OBVIOUS
<1>1. Types
  BY DEF Init, Types
<1>2. Polling /\ NoDescriptorLeak
  BY DEF Init, Polling, NoDescriptorLeak
<1>3. OneOwner /\ Beside /\ Moving /\ ~foreign
  BY DEF Init, OneOwner, Beside, Moving
<1>4. QED
  BY <1>1, <1>2, <1>3 DEF IInv, InStep

LEMMA OtherOpensStep ==
  ASSUME IInv, NEW f \in Fds, OtherOpens(f)
  PROVE  IInv'
<1>1. Types' /\ Polling'
  BY DEF IInv, Types, Polling, OtherOpens, LowestFree
<1>2. NoDescriptorLeak'
  BY DEF IInv, Types, Polling, NoDescriptorLeak, OtherOpens, LowestFree
<1>3. InStep'
  BY <1>1 DEF IInv, Types, InStep, OneOwner, Beside, Moving, OtherOpens, LowestFree
<1>4. QED
  BY <1>1, <1>2, <1>3 DEF IInv

LEMMA OtherClosesStep ==
  ASSUME IInv, NEW f \in Fds, OtherCloses(f)
  PROVE  IInv'
<1>1. Types' /\ Polling'
  BY DEF IInv, Types, Polling, OtherCloses, Close
<1>2. NoDescriptorLeak'
  BY DEF IInv, Types, Polling, NoDescriptorLeak, OtherCloses, Close
<1>3. InStep'
  BY <1>1 DEF IInv, Types, InStep, OneOwner, Beside, Moving, OtherCloses, Close
<1>4. QED
  BY <1>1, <1>2, <1>3 DEF IInv

LEMMA ConnectStep ==
  ASSUME IInv, NEW o \in Objs, NEW f \in Fds, Connect(o, f)
  PROVE  IInv'
<1>1. Types' /\ Polling'
  BY DEF IInv, Types, Polling, Connect, LowestFree
<1>2. NoDescriptorLeak'
  BY DEF IInv, Types, Polling, NoDescriptorLeak, Connect, LowestFree
<1>3. InStep'
  BY <1>1 DEF IInv, Types, InStep, OneOwner, Beside, Moving, Connect, LowestFree, Hits, Fresh
<1>4. QED
  BY <1>1, <1>2, <1>3 DEF IInv

LEMMA ConnectFailsStep ==
  ASSUME IInv, NEW o \in Objs, ConnectFails(o)
  PROVE  IInv'
<1>1. Types' /\ Polling'
  BY DEF IInv, Types, Polling, ConnectFails, Finish, Close
<1>2. NoDescriptorLeak'
  BY DEF IInv, Types, Polling, NoDescriptorLeak, ConnectFails, Finish, Close
<1>3. InStep'
  <2> SUFFICES ASSUME ~misused' PROVE (OneOwner /\ Beside /\ Moving /\ ~foreign)'
    BY DEF InStep
  <2>1. OneOwner /\ Beside /\ Moving /\ ~foreign
    BY DEF IInv, InStep, ConnectFails
  <2>2. /\ phase[o] = "live"
        /\ pgconn' = [pgconn EXCEPT ![o] = Broken]
        /\ UNCHANGED <<table, socket, phase, source, foreign>>
    BY DEF ConnectFails, Finish, Fresh
  <2>3. (OneOwner /\ Beside)'
    BY <2>1, <2>2 DEF IInv, Types, OneOwner, Beside
  <2>4. Moving'
    BY <2>1, <2>2 DEF IInv, Types, Moving
  <2>5. QED
    BY <2>1, <2>2, <2>3, <2>4
<1>4. QED
  BY <1>1, <1>2, <1>3 DEF IInv

LEMMA PollEndsStep ==
  ASSUME IInv, NEW o \in Objs, PollEnds(o)
  PROVE  IInv'
<1>1. Types' /\ Polling'
  BY DEF IInv, Types, Polling, PollEnds
<1>2. NoDescriptorLeak'
  BY DEF IInv, Types, Polling, NoDescriptorLeak, PollEnds
<1>3. InStep'
  BY <1>1 DEF IInv, Types, InStep, OneOwner, Beside, Moving, PollEnds
<1>4. QED
  BY <1>1, <1>2, <1>3 DEF IInv

LEMMA PollReconnectsStep ==
  ASSUME IInv, NEW o \in Objs, PollReconnects(o)
  PROVE  IInv'
<1>1. Types' /\ Polling'
  BY DEF IInv, Types, Polling, PollReconnects, Finish, Close
<1>2. NoDescriptorLeak'
  BY DEF IInv, Types, Polling, NoDescriptorLeak, PollReconnects, Finish, Close
<1>3. InStep'
  <2> SUFFICES ASSUME ~misused' PROVE (OneOwner /\ Beside /\ Moving /\ ~foreign)'
    BY DEF InStep
  <2>1. OneOwner /\ Beside /\ Moving /\ ~foreign
    BY DEF IInv, InStep, PollReconnects, Finish, Close, Hits
  <2>2. OneOwner'
    BY <2>1 DEF IInv, Types, OneOwner, Beside, PollReconnects, Finish, Close, Hits
  <2>3. Beside'
    BY <2>1, <1>1 DEF IInv, Types, Beside, Moving, PollReconnects, Finish, Close, Hits
  <2>4. Moving'
    BY <2>1, <1>1 DEF IInv, Types, Beside, Moving, PollReconnects, Finish, Close, Hits
  <2>5. ~foreign'
    BY <2>1 DEF IInv, Types, OneOwner, Beside, PollReconnects, Finish, Close, Hits
  <2>6. QED
    BY <2>2, <2>3, <2>4, <2>5
<1>4. QED
  BY <1>1, <1>2, <1>3 DEF IInv

LEMMA PollReopensStep ==
  ASSUME IInv, NEW o \in Objs, NEW f \in Fds, PollReopens(o, f)
  PROVE  IInv'
<1>1. Types' /\ Polling'
  BY DEF IInv, Types, Polling, PollReopens, LowestFree
<1>2. NoDescriptorLeak'
  BY DEF IInv, Types, Polling, NoDescriptorLeak, PollReopens, LowestFree
<1>3. InStep'
  BY <1>1 DEF IInv, Types, InStep, OneOwner, Beside, Moving, PollReopens, LowestFree
<1>4. QED
  BY <1>1, <1>2, <1>3 DEF IInv

LEMMA PollExhaustsStep ==
  ASSUME IInv, NEW o \in Objs, PollExhausts(o)
  PROVE  IInv'
<1>1. Types' /\ Polling'
  BY DEF IInv, Types, Polling, PollExhausts
<1>2. NoDescriptorLeak'
  BY DEF IInv, Types, Polling, NoDescriptorLeak, PollExhausts
<1>3. InStep'
  BY <1>1 DEF IInv, Types, InStep, OneOwner, Beside, Moving, PollExhausts
<1>4. QED
  BY <1>1, <1>2, <1>3 DEF IInv

LEMMA BreakStep ==
  ASSUME IInv, NEW o \in Objs, Break(o)
  PROVE  IInv'
<1>1. Types' /\ Polling'
  BY DEF IInv, Types, Polling, Break, Finish, Close
<1>2. NoDescriptorLeak'
  BY DEF IInv, Types, Polling, NoDescriptorLeak, Break, Finish, Close
<1>3. InStep'
  <2> SUFFICES ASSUME ~misused' PROVE (OneOwner /\ Beside /\ Moving /\ ~foreign)'
    BY DEF InStep
  <2>1. OneOwner /\ Beside /\ Moving /\ ~foreign
    BY DEF IInv, InStep, Break
  <2>2. OneOwner'
    BY <2>1 DEF IInv, Types, OneOwner, Beside, Break, Finish, Close
  <2>3. Beside'
    BY <2>1, <1>1 DEF IInv, Types, Beside, Moving, Break
  <2>4. Moving'
    BY <2>1, <1>1 DEF IInv, Types, Beside, Moving, Break
  <2>5. ~foreign'
    BY <2>1 DEF IInv, Types, OneOwner, Break, Finish, Hits
  <2>6. QED
    BY <2>2, <2>3, <2>4, <2>5
<1>4. QED
  BY <1>1, <1>2, <1>3 DEF IInv

LEMMA CloseConnectionStep ==
  ASSUME IInv, NEW o \in Objs, CloseConnection(o)
  PROVE  IInv'
<1>1. Types' /\ Polling'
  BY DEF IInv, Types, Polling, CloseConnection, Finish, Close
<1>2. NoDescriptorLeak'
  BY DEF IInv, Types, Polling, NoDescriptorLeak, CloseConnection, Finish, Close
<1>3. InStep'
  BY <1>1 DEF IInv, Types, InStep, OneOwner, Beside, Moving, CloseConnection, Finish, Close, Hits
<1>4. QED
  BY <1>1, <1>2, <1>3 DEF IInv

LEMMA DestroyStep ==
  ASSUME IInv, NEW o \in Objs, Destroy(o)
  PROVE  IInv'
<1>1. Types' /\ Polling'
  BY DEF IInv, Types, Polling, Destroy, CloseSocket, Close
<1>2. NoDescriptorLeak'
  BY DEF IInv, Types, Polling, NoDescriptorLeak, Destroy, CloseSocket, Close
<1>3. InStep'
  BY <1>1 DEF IInv, Types, InStep, OneOwner, Beside, Moving, Destroy, CloseSocket, Close, Hits
<1>4. QED
  BY <1>1, <1>2, <1>3 DEF IInv

LEMMA DestroyPgconnStep ==
  ASSUME IInv, NEW o \in Objs, DestroyPgconn(o)
  PROVE  IInv'
<1>1. Types' /\ Polling'
  BY DEF IInv, Types, Polling, DestroyPgconn, Finish, Close
<1>2. NoDescriptorLeak'
  BY DEF IInv, Types, Polling, NoDescriptorLeak, DestroyPgconn, Finish, Close
<1>3. InStep'
  <2> SUFFICES ASSUME ~misused' PROVE (OneOwner /\ Beside /\ Moving /\ ~foreign)'
    BY DEF InStep
  <2>1. OneOwner /\ Beside /\ Moving /\ ~foreign
    BY DEF IInv, InStep, DestroyPgconn, Finish, Close, Hits
  <2>2. OneOwner'
    BY <2>1 DEF IInv, Types, OneOwner, Beside, DestroyPgconn, Finish, Close, Hits
  <2>3. Beside'
    BY <2>1, <1>1 DEF IInv, Types, Beside, Moving, DestroyPgconn, Finish, Close, Hits
  <2>4. Moving'
    BY <2>1, <1>1 DEF IInv, Types, Beside, Moving, DestroyPgconn, Finish, Close, Hits
  <2>5. ~foreign'
    BY <2>1 DEF IInv, Types, OneOwner, Beside, DestroyPgconn, Finish, Close, Hits
  <2>6. QED
    BY <2>2, <2>3, <2>4, <2>5
<1>4. QED
  BY <1>1, <1>2, <1>3 DEF IInv

LEMMA ConstructStep ==
  ASSUME IInv, NEW o \in Objs, Construct(o)
  PROVE  IInv'
<1>1. Types' /\ Polling'
  BY DEF IInv, Types, Polling, Construct
<1>2. NoDescriptorLeak'
  BY DEF IInv, Types, Polling, NoDescriptorLeak, Construct
<1>3. InStep'
  BY <1>1 DEF IInv, Types, InStep, OneOwner, Beside, Moving, Construct
<1>4. QED
  BY <1>1, <1>2, <1>3 DEF IInv

LEMMA MoveAssignStep ==
  ASSUME IInv, NEW o \in Objs, NEW p \in Objs, MoveAssign(o, p)
  PROVE  IInv'
<1>1. Types' /\ Polling'
  BY DEF IInv, Types, Polling, MoveAssign, Finish, Close
<1>2. NoDescriptorLeak'
  BY DEF IInv, Types, Polling, NoDescriptorLeak, MoveAssign, Finish, Close
<1>3. InStep'
  <2> SUFFICES ASSUME ~misused' PROVE (OneOwner /\ Beside /\ Moving /\ ~foreign)'
    BY DEF InStep
  <2>1. OneOwner /\ Beside /\ Moving /\ ~foreign
    BY DEF IInv, InStep, MoveAssign
  <2>2. /\ o # p /\ phase[o] = "live" /\ phase[p] = "live"
        /\ pgconn[o] = None /\ socket[o] = None
        /\ pgconn' = [pgconn EXCEPT ![o] = pgconn[p], ![p] = None]
        /\ phase' = [phase EXCEPT ![o] = "moving", ![p] = "moved"]
        /\ source' = [source EXCEPT ![o] = p]
        /\ UNCHANGED <<table, socket, foreign>>
    BY DEF MoveAssign, Finish, Fresh
  <2>3. OneOwner'
    BY <2>1, <2>2 DEF IInv, Types, OneOwner
  <2>4. Beside'
    BY <2>1, <2>2 DEF IInv, Types, Beside
  <2>5. Moving'
    BY <2>1, <2>2 DEF IInv, Types, Beside, Moving
  <2>6. QED
    BY <2>1, <2>2, <2>3, <2>4, <2>5
<1>4. QED
  BY <1>1, <1>2, <1>3 DEF IInv

LEMMA MoveAssignSocketStep ==
  ASSUME IInv, NEW o \in Objs, MoveAssignSocket(o)
  PROVE  IInv'
<1>1. Types' /\ Polling'
  BY DEF IInv, Types, Polling, MoveAssignSocket, CloseSocket, Close
<1>2. NoDescriptorLeak'
  BY DEF IInv, Types, Polling, NoDescriptorLeak, MoveAssignSocket, CloseSocket, Close
<1>3. InStep'
  BY <1>1 DEF IInv, Types, InStep, OneOwner, Beside, Moving, MoveAssignSocket, CloseSocket, Close, Hits
<1>4. QED
  BY <1>1, <1>2, <1>3 DEF IInv

-----------------------------------------------------------------------------
(* IInv is inductive: one lemma above per action. *)
LEMMA Inductive == IInv /\ [Next]_vars => IInv'
<1> SUFFICES ASSUME IInv, [Next]_vars PROVE IInv'
  OBVIOUS
<1>1. ASSUME NEW o \in Objs, ConnectFails(o) \/ PollReconnects(o) \/ PollExhausts(o)
                              \/ PollEnds(o) \/ Break(o) \/ CloseConnection(o)
      PROVE  IInv'
  BY <1>1, ConnectFailsStep, PollReconnectsStep, PollExhaustsStep, PollEndsStep,
     BreakStep, CloseConnectionStep
<1>2. ASSUME NEW o \in Objs, NEW f \in Fds, Connect(o, f) \/ PollReopens(o, f)
      PROVE  IInv'
  BY <1>2, ConnectStep, PollReopensStep
<1>3. ASSUME NEW o \in Objs, Destroy(o) \/ DestroyPgconn(o) \/ Construct(o)
      PROVE  IInv'
  BY <1>3, DestroyStep, DestroyPgconnStep, ConstructStep
<1>4. ASSUME NEW o \in Objs, MoveAssignSocket(o) \/ \E p \in Objs : MoveAssign(o, p)
      PROVE  IInv'
  BY <1>4, MoveAssignStep, MoveAssignSocketStep
<1>5. ASSUME NEW f \in Fds, OtherOpens(f) \/ OtherCloses(f)
      PROVE  IInv'
  BY <1>5, OtherOpensStep, OtherClosesStep
<1>6. CASE UNCHANGED vars
  BY <1>6 DEF vars, IInv, Types, Polling, NoDescriptorLeak, InStep, OneOwner, Beside, Moving
<1>7. QED
  BY <1>1, <1>2, <1>3, <1>4, <1>5, <1>6 DEF Next

(* Every reachable state satisfies the invariant. *)
LEMMA Invariant == Spec => []IInv
BY InitIInv, Inductive, PTL DEF Spec

(* The types of the variables, and that no two PGconns have one socket as long
   as callers do as in NoForeignClose. *)
THEOREM TypeCorrect == Spec => []TypeOK
<1>1. IInv => TypeOK
  BY DEF IInv, Types, TypeOK, InStep, OneOwner
<1>2. QED
  BY <1>1, Invariant, PTL

(* A caller who connects each object once, never calls close() and assigns only
   to unconnected objects never closes a descriptor that is not his: the
   destructor's release and the member-wise move suffice for that. *)
THEOREM OwnershipCorrect == Spec => []NoForeignClose
<1>1. IInv => NoForeignClose
  BY DEF IInv, InStep, Types, NoForeignClose
<1>2. QED
  BY <1>1, Invariant, PTL

(* Whatever callers do, a descriptor that libpq opened is one a PGconn still
   has, until it is closed. *)
THEOREM NothingLeaks == Spec => []NoDescriptorLeak
<1>1. IInv => NoDescriptorLeak
  BY DEF IInv
<1>2. QED
  BY <1>1, Invariant, PTL

=============================================================================
