---------------------------- MODULE ConnectionPool ----------------------------
(***************************************************************************)
(* The connection pool of include/psql/connection_pool.hpp: the shared     *)
(* implementation object basic_connection_pool_impl, the handles that      *)
(* share it, and the pooled connections it hands out.                      *)
(*                                                                         *)
(* Each task runs async_aquire, uses what it gets and destroys it, over    *)
(* and over.  Every section of the pool that runs under mtx_ is one        *)
(* action; the executor may run on several threads, so the sections of     *)
(* different tasks interleave freely between two lock acquisitions.        *)
(***************************************************************************)
EXTENDS Naturals, FiniteSets, SequencesExt

CONSTANTS
  Tasks,    \* the tasks that share the pool; a task runs one acquire at a time
  Conns,    \* identities of server sessions (PGconn objects)
  Sizes,    \* the values max_size_ may be given
  NoConn    \* a basic_connection that owns no PGconn

ASSUME PoolAssumption ==
  /\ IsFiniteSet(Tasks)
  /\ Sizes \subseteq Nat
  /\ NoConn \notin Conns

VARIABLES
  max_size,       \* max_size_
  aquired_conns,  \* aquired_conns_
  idle_conns,     \* idle_conns_: a FIFO queue of connections
  cv,             \* the waits pending on the timer cv_, oldest first
  pc,             \* where each task is in acquire / use / return
  conn,           \* the PGconn a task's connection object owns, or NoConn
  pgconn,         \* what is true of each PGconn
  handles,        \* the tasks that hold a basic_connection_pool (a shared_ptr)
  peak            \* history variable: the largest max_size_ there has been

vars == <<max_size, aquired_conns, idle_conns, cv, pc, conn, pgconn, handles, peak>>

(***************************************************************************)
(* A pending acquire is parked (its wait is in cv), ready (cancel_one or   *)
(* cancel completed its wait, the handler is queued), cancelled (the same, *)
(* and self.cancelled() is set), connecting, aborting (the connect's own   *)
(* wait was cancelled) or reusing (posted with an idle connection).  Then  *)
(* the task holds a pooled_connection, until its destructor is returning   *)
(* it (conn_pool_.lock() succeeded) and releasing it (return_connection    *)
(* is done, the locked pointer and the member conn_ are not yet gone).     *)
(***************************************************************************)
Waiting == {"parked", "ready", "cancelled"}
Opening == {"connecting", "aborting"}
Pending == Waiting \cup Opening \cup {"reusing"}
Counted == Opening \cup {"reusing", "holding", "returning"}
Pinning == {"returning", "releasing"}
States  == Pending \cup {"out", "holding"} \cup Pinning

(***************************************************************************)
(* A session is clean (CONNECTION_OK, PQTRANS_IDLE), busy (a command or a  *)
(* transaction is open), stale (the server ended it and libpq has not      *)
(* noticed, so it still looks clean), broken (not CONNECTION_OK), opening  *)
(* or closed (PQfinish was called, or the object never existed).           *)
(***************************************************************************)
SessionStates == {"closed", "opening", "clean", "busy", "stale", "broken"}

PQstatusOk(s) == s \in {"clean", "busy", "stale"}
PQtransactionIdle(s) == s \in {"clean", "stale"}

In(S) == {t \in Tasks : pc[t] \in S}

\* The impl exists while a handle or a locked weak_ptr refers to it.
Referenced(h, p) == h # {} \/ \E t \in Tasks : p[t] \in Pinning
Alive == Referenced(handles, pc)

Init ==
  /\ max_size \in Sizes
  /\ peak = max_size
  /\ aquired_conns = 0
  /\ idle_conns = <<>>
  /\ cv = <<>>
  /\ pc = [t \in Tasks |-> "out"]
  /\ conn = [t \in Tasks |-> NoConn]
  /\ pgconn = [c \in Conns |-> "closed"]
  /\ handles = Tasks

-----------------------------------------------------------------------------
(* async_aquire *)

\* Variants named Wrong... are not part of Next.  Each is a slip this code
\* could have had, kept to show that a property below notices it.
WrongFullOffByOne == aquired_conns > max_size

Full == aquired_conns >= max_size

\* BOOST_ASIO_CORO_YIELD cv_.async_wait, entered with mtx_ held.
Park(t) ==
  /\ cv' = Append(cv, t)
  /\ pc' = [pc EXCEPT ![t] = "parked"]
  /\ UNCHANGED <<aquired_conns, idle_conns, conn, pgconn>>

WrongTakeSlotCountsNewOnly(t) ==
  /\ IF idle_conns = <<>>
     THEN /\ \E c \in Conns :
               /\ pgconn[c] = "closed"
               /\ conn' = [conn EXCEPT ![t] = c]
               /\ pgconn' = [pgconn EXCEPT ![c] = "opening"]
          /\ aquired_conns' = aquired_conns + 1
          /\ pc' = [pc EXCEPT ![t] = "connecting"]
          /\ UNCHANGED idle_conns
     ELSE /\ conn' = [conn EXCEPT ![t] = Head(idle_conns)]
          /\ idle_conns' = Tail(idle_conns)
          /\ pc' = [pc EXCEPT ![t] = "reusing"]
          /\ UNCHANGED <<aquired_conns, pgconn>>
  /\ UNCHANGED cv

WrongTakeSlotNeverReuses(t) ==
  /\ aquired_conns' = aquired_conns + 1
  /\ \E c \in Conns :
       /\ pgconn[c] = "closed"
       /\ conn' = [conn EXCEPT ![t] = c]
       /\ pgconn' = [pgconn EXCEPT ![c] = "opening"]
  /\ pc' = [pc EXCEPT ![t] = "connecting"]
  /\ UNCHANGED <<idle_conns, cv>>

WrongTakeSlotKeepsFront(t) ==
  /\ aquired_conns' = aquired_conns + 1
  /\ IF idle_conns = <<>>
     THEN /\ \E c \in Conns :
               /\ pgconn[c] = "closed"
               /\ conn' = [conn EXCEPT ![t] = c]
               /\ pgconn' = [pgconn EXCEPT ![c] = "opening"]
          /\ pc' = [pc EXCEPT ![t] = "connecting"]
     ELSE /\ conn' = [conn EXCEPT ![t] = Head(idle_conns)]
          /\ pc' = [pc EXCEPT ![t] = "reusing"]
          /\ UNCHANGED pgconn
  /\ UNCHANGED <<idle_conns, cv>>

\* aquired_conns_++, then either a new connection or the oldest idle one.
TakeSlot(t) ==
  /\ aquired_conns' = aquired_conns + 1
  /\ \/ /\ idle_conns = <<>>
        /\ \E c \in Conns :
             /\ pgconn[c] = "closed"
             /\ conn' = [conn EXCEPT ![t] = c]
             /\ pgconn' = [pgconn EXCEPT ![c] = "opening"]
        /\ pc' = [pc EXCEPT ![t] = "connecting"]
        /\ UNCHANGED idle_conns
     \/ /\ idle_conns # <<>>
        /\ conn' = [conn EXCEPT ![t] = Head(idle_conns)]
        /\ idle_conns' = Tail(idle_conns)
        /\ pc' = [pc EXCEPT ![t] = "reusing"]
        /\ UNCHANGED pgconn
  /\ UNCHANGED cv

\* The first run of the composed operation, in the caller's thread.
Acquire(t) ==
  /\ pc[t] = "out"
  /\ t \in handles
  /\ IF Full THEN Park(t) ELSE TakeSlot(t)
  /\ UNCHANGED <<max_size, handles, peak>>

\* The wait's handler after cancel_one or cancel: the loop test again.
Resume(t) ==
  /\ pc[t] = "ready"
  /\ IF Full THEN Park(t) ELSE TakeSlot(t)
  /\ UNCHANGED <<max_size, handles, peak>>

\* The same with self.cancelled() set: gives up if there is still no slot,
\* and completes with an object that refers to no pool.
GiveUp(t) ==
  /\ pc' = [pc EXCEPT ![t] = "out"]
  /\ UNCHANGED <<aquired_conns, idle_conns, cv, conn, pgconn>>

WrongResumeCancelledSleepsAgain(t) ==
  /\ pc[t] = "cancelled"
  /\ IF Full THEN Park(t) ELSE TakeSlot(t)
  /\ UNCHANGED <<max_size, handles, peak>>

ResumeCancelled(t) ==
  /\ pc[t] = "cancelled"
  /\ IF Full THEN GiveUp(t) ELSE TakeSlot(t)
  /\ UNCHANGED <<max_size, handles, peak>>

WrongConnectedLosesPool(t, ok) ==
  /\ pc[t] \in Opening
  /\ ok => pc[t] = "connecting"
  /\ IF ok
     THEN /\ pc' = [pc EXCEPT ![t] = "holding"]
          /\ pgconn' = [pgconn EXCEPT ![conn[t]] = "clean"]
          /\ UNCHANGED conn
     ELSE /\ pc' = [pc EXCEPT ![t] = "out"]
          /\ pgconn' = [pgconn EXCEPT ![conn[t]] = "closed"]
          /\ conn' = [conn EXCEPT ![t] = NoConn]
  /\ UNCHANGED <<max_size, aquired_conns, idle_conns, cv, handles, peak>>

\* async_connect completed, or failed: either way the caller gets a pooled
\* connection that knows its pool.  An aborted connect can only fail.
Connected(t, ok) ==
  /\ pc[t] \in Opening
  /\ ok => pc[t] = "connecting"
  /\ pc' = [pc EXCEPT ![t] = "holding"]
  /\ pgconn' = [pgconn EXCEPT ![conn[t]] = IF ok THEN "clean" ELSE "broken"]
  /\ UNCHANGED <<max_size, aquired_conns, idle_conns, cv, conn, handles, peak>>

\* The posted handler of the idle-connection branch.
Reused(t) ==
  /\ pc[t] = "reusing"
  /\ pc' = [pc EXCEPT ![t] = "holding"]
  /\ UNCHANGED <<max_size, aquired_conns, idle_conns, cv, conn, pgconn, handles, peak>>

\* The caller emits cancellation on a pending acquire.  A parked one leaves
\* the timer's queue at once.  A posted one, and a connect whose wait has
\* just completed, do not notice: those are the stuttering outcomes.
Cancel(t) ==
  /\ \/ /\ pc[t] = "parked"
        /\ \E i \in DOMAIN cv : cv[i] = t /\ cv' = RemoveAt(cv, i)
        /\ pc' = [pc EXCEPT ![t] = "cancelled"]
     \/ /\ pc[t] = "ready"
        /\ pc' = [pc EXCEPT ![t] = "cancelled"]
        /\ UNCHANGED cv
     \/ /\ pc[t] = "connecting"
        /\ pc' = [pc EXCEPT ![t] = "aborting"]
        /\ UNCHANGED cv
  /\ UNCHANGED <<max_size, aquired_conns, idle_conns, conn, pgconn, handles, peak>>

-----------------------------------------------------------------------------
(* pooled_connection and the handles *)

\* The task runs operations on its connection, which may leave it in any
\* libpq state; or the server ends a session that is queued or held.
Use(t) ==
  /\ pc[t] = "holding"
  /\ \E s \in {"clean", "busy", "broken"} :
       /\ pgconn[conn[t]] = "stale" => s = "broken"
       /\ pgconn[conn[t]] # "broken"
       /\ pgconn' = [pgconn EXCEPT ![conn[t]] = s]
  /\ UNCHANGED <<max_size, aquired_conns, idle_conns, cv, pc, conn, handles, peak>>

ServerEnds(c) ==
  /\ pgconn[c] = "clean"
  /\ pgconn' = [pgconn EXCEPT ![c] = "stale"]
  /\ UNCHANGED <<max_size, aquired_conns, idle_conns, cv, pc, conn, handles, peak>>

\* a = std::move(b): the two pooled connections are swapped, so that what a
\* held is returned by the destructor of b.
MoveAssign(t, u) ==
  /\ t # u
  /\ pc[t] = "holding"
  /\ pc[u] = "holding"
  /\ conn' = [conn EXCEPT ![t] = conn[u], ![u] = conn[t]]
  /\ UNCHANGED <<max_size, aquired_conns, idle_conns, cv, pc, pgconn, handles, peak>>

WrongDestroyKeepsPoolAlive(t) ==
  /\ pc[t] = "holding"
  /\ pc' = [pc EXCEPT ![t] = "returning"]
  /\ UNCHANGED <<max_size, aquired_conns, idle_conns, cv, conn, pgconn, handles, peak>>

\* ~basic_pooled_connection: conn_pool_.lock().  With the pool gone, nothing
\* is returned and the member's destructor closes the connection.
Destroy(t) ==
  /\ pc[t] = "holding"
  /\ \/ /\ Alive
        /\ pc' = [pc EXCEPT ![t] = "returning"]
        /\ UNCHANGED <<conn, pgconn>>
     \/ /\ ~Alive
        /\ pc' = [pc EXCEPT ![t] = "out"]
        /\ conn' = [conn EXCEPT ![t] = NoConn]
        /\ pgconn' = [pgconn EXCEPT ![conn[t]] = "closed"]
  /\ UNCHANGED <<max_size, aquired_conns, idle_conns, cv, handles, peak>>

WrongReusableInTransaction(c) == PQstatusOk(pgconn[c])

\* What return_connection puts back: the two early returns.
Reusable(c) == PQstatusOk(pgconn[c]) /\ PQtransactionIdle(pgconn[c])

WrongCancelOneAfterChecks(t) ==
  IF cv = <<>> \/ ~Reusable(conn[t])
  THEN /\ pc' = [pc EXCEPT ![t] = "releasing"]
       /\ UNCHANGED cv
  ELSE /\ pc' = [pc EXCEPT ![t] = "releasing", ![Head(cv)] = "ready"]
       /\ cv' = Tail(cv)

\* cv_.cancel_one(): the oldest pending wait, if there is one.
CancelOne(t) ==
  IF cv = <<>>
  THEN /\ pc' = [pc EXCEPT ![t] = "releasing"]
       /\ UNCHANGED cv
  ELSE /\ pc' = [pc EXCEPT ![t] = "releasing", ![Head(cv)] = "ready"]
       /\ cv' = Tail(cv)

\* return_connection, under mtx_.
ReturnConnection(t) ==
  /\ pc[t] = "returning"
  /\ aquired_conns' = aquired_conns - 1
  /\ CancelOne(t)
  /\ IF Reusable(conn[t])
     THEN /\ idle_conns' = Append(idle_conns, conn[t])
          /\ conn' = [conn EXCEPT ![t] = NoConn]
     ELSE UNCHANGED <<idle_conns, conn>>
  /\ UNCHANGED <<max_size, pgconn, handles, peak>>

WrongDropReferenceForgetsIdle(h, p, S) ==
  /\ pgconn' = [c \in Conns |-> IF c \in S THEN "closed" ELSE pgconn[c]]
  /\ idle_conns' = IF Referenced(h, p) THEN idle_conns ELSE <<>>

\* A shared_ptr goes away, and with the last one the impl and the idle
\* connections in its queue; S is what the same step closes anyway.
DropReference(h, p, S) ==
  IF Referenced(h, p)
  THEN /\ pgconn' = [c \in Conns |-> IF c \in S THEN "closed" ELSE pgconn[c]]
       /\ UNCHANGED idle_conns
  ELSE /\ pgconn' = [c \in Conns |-> IF c \in S \cup ToSet(idle_conns)
                                     THEN "closed" ELSE pgconn[c]]
       /\ idle_conns' = <<>>

\* The rest of the destructor: the locked pointer, then the member conn_.
Release(t) ==
  /\ pc[t] = "releasing"
  /\ pc' = [pc EXCEPT ![t] = "out"]
  /\ conn' = [conn EXCEPT ![t] = NoConn]
  /\ DropReference(handles, pc', {conn[t]})
  /\ UNCHANGED <<max_size, aquired_conns, cv, handles, peak>>

\* A task's copy of the pool is destroyed.  A pending acquire refers to the
\* impl by a plain `this`, so the caller keeps its copy until it completes
\* (example/connection_pool.cpp passes one to every child task for that).
DropHandle(t) ==
  /\ t \in handles
  /\ pc[t] \notin Pending
  /\ handles' = handles \ {t}
  /\ DropReference(handles', pc, {})
  /\ UNCHANGED <<max_size, aquired_conns, cv, pc, conn, peak>>

WrongSetMaxSizeWakesNobody(t, v) ==
  /\ t \in handles
  /\ max_size' = v
  /\ peak' = IF v > peak THEN v ELSE peak
  /\ UNCHANGED <<aquired_conns, idle_conns, cv, pc, conn, pgconn, handles>>

\* max_size(value): every pending wait is cancelled and will test again.
SetMaxSize(t, v) ==
  /\ t \in handles
  /\ max_size' = v
  /\ peak' = IF v > peak THEN v ELSE peak
  /\ pc' = [u \in Tasks |-> IF pc[u] = "parked" THEN "ready" ELSE pc[u]]
  /\ cv' = <<>>
  /\ UNCHANGED <<aquired_conns, idle_conns, conn, pgconn, handles>>

-----------------------------------------------------------------------------
TaskStep(t) ==
  \/ Acquire(t) \/ Resume(t) \/ ResumeCancelled(t)
  \/ \E ok \in BOOLEAN : Connected(t, ok)
  \/ Reused(t) \/ Cancel(t) \/ Use(t) \/ Destroy(t)
  \/ ReturnConnection(t) \/ Release(t) \/ DropHandle(t)
  \/ \E v \in Sizes : SetMaxSize(t, v)
  \/ \E u \in Tasks : MoveAssign(t, u)

Next == (\E t \in Tasks : TaskStep(t)) \/ (\E c \in Conns : ServerEnds(c))

Spec == Init /\ [][Next]_vars

\* Handlers that are queued run, and a destructor that began ends.  Nothing
\* is assumed of the server (a connect may hang) nor of the callers (a
\* connection may be kept forever).
HandlerFairness ==
  \A t \in Tasks :
    /\ WF_vars(Resume(t))
    /\ WF_vars(ResumeCancelled(t))
    /\ WF_vars(pc[t] = "aborting" /\ Connected(t, FALSE))
    /\ WF_vars(Reused(t))
    /\ WF_vars(ReturnConnection(t))
    /\ WF_vars(Release(t))

FairSpec == Spec /\ HandlerFairness

\* What the server and the callers owe: every connect gets an answer and every
\* holder lets go.  The code guarantees neither, so this is no part of FairSpec.
CallerFairness ==
  \A t \in Tasks : /\ WF_vars(\E ok \in BOOLEAN : Connected(t, ok))
                   /\ WF_vars(Destroy(t))

-----------------------------------------------------------------------------
TypeOK ==
  /\ max_size \in Nat
  /\ peak \in Nat
  /\ aquired_conns \in Nat
  /\ idle_conns \in Seq(Conns)
  /\ cv \in Seq(Tasks)
  /\ pc \in [Tasks -> States]
  /\ conn \in [Tasks -> Conns \cup {NoConn}]
  /\ pgconn \in [Conns -> SessionStates]
  /\ handles \in SUBSET Tasks

(* num_aquired() counts exactly the connections that are being opened, in
   use or on their way back: no failed connect, cancelled acquire or broken
   connection leaks a slot or gives one back twice. *)
CountExact == Alive => aquired_conns = Cardinality(In(Counted))

(* While an acquire is parked, the wake-ups in flight cover every free slot:
   whichever way a slot came free (return, failed connect, larger max_size)
   and whoever overtook whom, no waiter is left asleep beside a free slot. *)
NoLostWakeup ==
  cv # <<>> => Cardinality(In({"ready", "cancelled"})) + aquired_conns >= max_size

(* The connections in the pool and in use never exceed the largest max_size
   there has been: recycling and reconnecting do not add up. *)
SessionsBounded == Len(idle_conns) + aquired_conns <= peak

(* A session is in one place at a time: once in the idle queue, or with one
   task, never both and never with two tasks. *)
NoSharing ==
  /\ \A i, j \in DOMAIN idle_conns : idle_conns[i] = idle_conns[j] => i = j
  /\ \A t \in Tasks : conn[t] \notin ToSet(idle_conns)
  /\ \A t, u \in Tasks : t # u /\ conn[t] # NoConn => conn[t] # conn[u]

(* Every open session is reachable from the pool or from a task, and what
   they refer to is open: nothing is leaked when a connect fails, a broken
   connection is returned or the pool dies, and nothing is closed in use. *)
NoLeak ==
  \A c \in Conns :
    pgconn[c] # "closed" <=> c \in ToSet(idle_conns) \cup {conn[t] : t \in Tasks}

(* What waits in the idle queue is, as far as libpq can tell, connected and
   outside any transaction: nobody inherits another task's transaction. *)
IdleReusable == \A c \in ToSet(idle_conns) : pgconn[c] \in {"clean", "stale"}

(* A pool that died stays dead: a late destructor neither revives it nor
   touches its fields, and no acquire is pending on it. *)
DeadPoolUntouched ==
  [][~Alive => ~Alive' /\ UNCHANGED <<max_size, aquired_conns, idle_conns, cv>>]_vars

(* An acquire cancelled while it waits stops waiting, even if no connection
   is ever returned. *)
CancelledStopsWaiting ==
  \A t \in Tasks : pc[t] = "cancelled" ~> pc[t] \in {"out"} \cup (Pending \ Waiting)

(* Once no task starts a new acquire or changes a positive max_size, every
   waiter is served, given that connects end and holders let go: whatever came
   before, no task stays for ever between asking and holding or giving up. *)
Quiet ==
  <>[][\A t \in Tasks : ~Acquire(t) /\ \A v \in Sizes : ~SetMaxSize(t, v)]_vars
EveryWaiterServed ==
  CallerFairness /\ Quiet /\ <>[](max_size > 0) =>
    \A t \in Tasks : []<>(pc[t] \in {"holding", "out"})
=============================================================================
