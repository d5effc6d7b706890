------------------------------ MODULE Descriptor ------------------------------
(***************************************************************************)
(* Who closes the socket of a connection.  basic_connection of             *)
(* include/psql/connection.hpp keeps its descriptor twice: inside the      *)
(* PGconn (pgconn_, closed by PQfinish) and in the Asio object socket_,    *)
(* which closes what it holds when it is destroyed or assigned to.         *)
(*                                                                         *)
(* The process has other threads that open and close descriptors of their  *)
(* own, and the kernel hands out the lowest free number, so a number that  *)
(* is closed twice may by then belong to somebody else.                    *)
(***************************************************************************)
EXTENDS Integers

CONSTANTS
  Objs,      \* basic_connection objects
  Fds,       \* descriptor numbers
  None,      \* no PGconn, or a socket_ that is not open
  Broken     \* a PGconn that has lost its socket

ASSUME DescriptorAssumption ==
  /\ Fds \subseteq Nat
  /\ None \notin Fds /\ Broken \notin Fds /\ None # Broken

VARIABLES
  table,    \* the kernel's table: free, libpq or other, per descriptor
  pgconn,   \* the PGconn of each object, by its descriptor
  socket,   \* the descriptor its socket_ holds
  phase,    \* live, connecting, gone, or between two members: see the actions
  source,   \* what a move assignment in progress moves from
  foreign,  \* history variable: somebody else's descriptor was closed
  misused   \* history variable: a caller used close(), connected again or
            \* assigned over a connection

vars == <<table, pgconn, socket, phase, source, foreign, misused>>

Init ==
  /\ table = [f \in Fds |-> "free"]
  /\ pgconn = [o \in Objs |-> None]
  /\ socket = [o \in Objs |-> None]
  /\ phase = [o \in Objs |-> "live"]
  /\ source = [o \in Objs |-> o]
  /\ foreign = FALSE
  /\ misused = FALSE

-----------------------------------------------------------------------------
(* The kernel (external) *)

\* The lowest free number, which the next descriptor opened gets.
LowestFree(f) ==
  /\ table[f] = "free"
  /\ \A g \in Fds : table[g] = "free" => f <= g

\* close(f): the table after it, and whether it hit somebody else's.
Close(f) == [table EXCEPT ![f] = "free"]
Hits(o, f) ==
  table[f] = "other" \/ \E p \in Objs \ {o} : pgconn[p] = f

OtherOpens(f) ==
  /\ LowestFree(f)
  /\ table' = [table EXCEPT ![f] = "other"]
  /\ UNCHANGED <<pgconn, socket, phase, source, foreign, misused>>

OtherCloses(f) ==
  /\ table[f] = "other"
  /\ table' = Close(f)
  /\ UNCHANGED <<pgconn, socket, phase, source, foreign, misused>>

-----------------------------------------------------------------------------
(* The two owners *)

\* Variants named Wrong... are not part of Next.  Each is a slip this code
\* could have had, kept to show that a property below notices it.
WrongFinishForgets(o) == UNCHANGED <<table, foreign>>

\* pgconn_deleter: PQfinish closes the socket the PGconn has.
Finish(o) ==
  IF pgconn[o] \in Fds
  THEN /\ table' = Close(pgconn[o])
       /\ foreign' = (foreign \/ Hits(o, pgconn[o]))
  ELSE UNCHANGED <<table, foreign>>

\* socket_ is destroyed or assigned to: it closes what it holds.
CloseSocket(o) ==
  IF socket[o] \in Fds
  THEN /\ table' = Close(socket[o])
       /\ foreign' = (foreign \/ Hits(o, socket[o]))
  ELSE UNCHANGED <<table, foreign>>

-----------------------------------------------------------------------------
(* basic_connection *)

Fresh(o) == pgconn[o] = None /\ socket[o] = None

\* async_connect: PQconnectStart opens a socket, then the old PGconn goes;
\* socket_.assign throws if socket_ is still open, whatever it holds.
Connect(o, f) ==
  /\ phase[o] = "live"
  /\ LowestFree(f)
  /\ pgconn' = [pgconn EXCEPT ![o] = f]
  /\ table' = [g \in Fds |-> IF g = f THEN "libpq"
                             ELSE IF g = pgconn[o] THEN "free" ELSE table[g]]
  /\ socket' = [socket EXCEPT ![o] = IF @ = None THEN f ELSE @]
  /\ phase' = [phase EXCEPT ![o] = IF socket[o] = None THEN "connecting" ELSE @]
  /\ foreign' = (foreign \/ (pgconn[o] \in Fds /\ Hits(o, pgconn[o])))
  /\ misused' = (misused \/ ~Fresh(o))
  /\ UNCHANGED source

\* PQconnectStart fails: a PGconn without a socket, and nothing to assign.
ConnectFails(o) ==
  /\ phase[o] = "live"
  /\ Finish(o)
  /\ pgconn' = [pgconn EXCEPT ![o] = Broken]
  /\ misused' = (misused \/ ~Fresh(o))
  /\ UNCHANGED <<socket, phase, source>>

\* The operation ends: PQconnectPoll is done, or failed and keeps its socket
\* until PQfinish, or the wait was cancelled.
PollEnds(o) ==
  /\ phase[o] = "connecting"
  /\ phase' = [phase EXCEPT ![o] = "live"]
  /\ UNCHANGED <<table, pgconn, socket, source, foreign, misused>>

\* PQconnectPoll goes on to the next host or protocol: libpq closes its
\* socket and opens another; socket_ keeps the number of the first.
PollReconnects(o) ==
  /\ phase[o] = "connecting"
  /\ Finish(o)
  /\ pgconn' = [pgconn EXCEPT ![o] = Broken]
  /\ phase' = [phase EXCEPT ![o] = "polling"]
  /\ UNCHANGED <<socket, source, misused>>

PollReopens(o, f) ==
  /\ phase[o] = "polling"
  /\ LowestFree(f)
  /\ pgconn' = [pgconn EXCEPT ![o] = f]
  /\ table' = [table EXCEPT ![f] = "libpq"]
  /\ phase' = [phase EXCEPT ![o] = "connecting"]
  /\ UNCHANGED <<socket, source, foreign, misused>>

\* ... or there is none left, and the operation fails.
PollExhausts(o) ==
  /\ phase[o] = "polling"
  /\ phase' = [phase EXCEPT ![o] = "live"]
  /\ UNCHANGED <<table, pgconn, socket, source, foreign, misused>>

\* libpq gives up the connection: it closes the socket and keeps the PGconn.
Break(o) ==
  /\ phase[o] = "live"
  /\ pgconn[o] \in Fds
  /\ Finish(o)
  /\ pgconn' = [pgconn EXCEPT ![o] = Broken]
  /\ UNCHANGED <<socket, phase, source, misused>>

\* close()
CloseConnection(o) ==
  /\ phase[o] = "live"
  /\ pgconn[o] # None
  /\ Finish(o)
  /\ pgconn' = [pgconn EXCEPT ![o] = None]
  /\ misused' = TRUE
  /\ UNCHANGED <<socket, phase, source>>

WrongDestroyKeepsSocket(o) ==
  /\ phase[o] = "live"
  /\ \A p \in Objs : source[p] = o => p = o
  /\ phase' = [phase EXCEPT ![o] = "dying"]
  /\ CloseSocket(o)
  /\ socket' = [socket EXCEPT ![o] = None]
  /\ UNCHANGED <<pgconn, source, misused>>

\* ~basic_connection and the destruction of socket_: released if there is a
\* PGconn, else closed.
Destroy(o) ==
  /\ phase[o] = "live"
  /\ \A p \in Objs : source[p] = o => p = o
  /\ phase' = [phase EXCEPT ![o] = "dying"]
  /\ IF pgconn[o] # None THEN UNCHANGED <<table, foreign>> ELSE CloseSocket(o)
  /\ socket' = [socket EXCEPT ![o] = None]
  /\ UNCHANGED <<pgconn, source, misused>>

\* ... and then of pgconn_.
DestroyPgconn(o) ==
  /\ phase[o] = "dying"
  /\ phase' = [phase EXCEPT ![o] = "gone"]
  /\ Finish(o)
  /\ pgconn' = [pgconn EXCEPT ![o] = None]
  /\ UNCHANGED <<socket, source, misused>>

Construct(o) ==
  /\ phase[o] = "gone"
  /\ phase' = [phase EXCEPT ![o] = "live"]
  /\ UNCHANGED <<table, pgconn, socket, source, foreign, misused>>

WrongMoveAssignCopies(o, p) ==
  /\ o # p
  /\ phase[o] = "live" /\ phase[p] = "live"
  /\ Finish(o)
  /\ pgconn' = [pgconn EXCEPT ![o] = pgconn[p]]
  /\ phase' = [phase EXCEPT ![o] = "moving", ![p] = "moved"]
  /\ source' = [source EXCEPT ![o] = p]
  /\ misused' = (misused \/ ~Fresh(o))
  /\ UNCHANGED socket

\* The defaulted o = std::move(p), member by member: pgconn_ ...
MoveAssign(o, p) ==
  /\ o # p
  /\ phase[o] = "live" /\ phase[p] = "live"
  /\ Finish(o)
  /\ pgconn' = [pgconn EXCEPT ![o] = pgconn[p], ![p] = None]
  /\ phase' = [phase EXCEPT ![o] = "moving", ![p] = "moved"]
  /\ source' = [source EXCEPT ![o] = p]
  /\ misused' = (misused \/ ~Fresh(o))
  /\ UNCHANGED socket

\* ... then socket_.
MoveAssignSocket(o) ==
  /\ phase[o] = "moving"
  /\ CloseSocket(o)
  /\ socket' = [socket EXCEPT ![o] = socket[source[o]], ![source[o]] = None]
  /\ phase' = [phase EXCEPT ![o] = "live", ![source[o]] = "live"]
  /\ source' = [source EXCEPT ![o] = o]
  /\ UNCHANGED <<pgconn, misused>>

Next ==
  \/ \E o \in Objs :
       \/ ConnectFails(o) \/ PollReconnects(o) \/ PollExhausts(o) \/ PollEnds(o)
       \/ \E f \in Fds : Connect(o, f) \/ PollReopens(o, f)
       \/ Break(o) \/ CloseConnection(o)
       \/ Destroy(o) \/ DestroyPgconn(o) \/ Construct(o)
       \/ \E p \in Objs : MoveAssign(o, p)
       \/ MoveAssignSocket(o)
  \/ \E f \in Fds : OtherOpens(f) \/ OtherCloses(f)

Spec == Init /\ [][Next]_vars

-----------------------------------------------------------------------------
(* The types, and one owner for each PGconn of callers as in NoForeignClose. *)
TypeOK ==
  /\ table \in [Fds -> {"free", "libpq", "other"}]
  /\ pgconn \in [Objs -> Fds \cup {None, Broken}]
  /\ socket \in [Objs -> Fds \cup {None}]
  /\ phase \in [Objs -> {"live", "dying", "gone", "moving", "moved", "connecting",
                      "polling"}]
  /\ source \in [Objs -> Objs]
  /\ {foreign, misused} \subseteq BOOLEAN
  /\ misused \/ \A o, p \in Objs : pgconn[o] = pgconn[p] /\ pgconn[o] \in Fds => o = p

(* "PQfinish handles the closing of the socket" (~basic_connection,
   connection.hpp): whatever its callers do, nothing a connection closes
   belongs by then to another connection or to another part of the process. *)
ClosesItsOwn == ~foreign

(* The same of callers who connect each object once, never close() it and
   assign only to unconnected ones: the release of socket_ in the destructor
   and the member-wise move keep the two owners of a descriptor in step, also
   when libpq has given the socket up and its number is somebody else's. *)
NoForeignClose == foreign => misused

(* A descriptor libpq opened is closed by the time its last owner is gone,
   unless a second close took it from under a connection before. *)
NoDescriptorLeak ==
  \A f \in Fds : table[f] = "libpq" => \E o \in Objs : pgconn[o] = f
=============================================================================
