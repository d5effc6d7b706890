------------------------------ MODULE Connection ------------------------------
(***************************************************************************)
(* One connection of include/psql/connection.hpp: a query operation        *)
(* (async_flush, async_receive_result, async_generic_single_result_query)  *)
(* and a notification receiver (async_receive_notifcation) that run on the *)
(* same socket and the same PGconn, their cancellation, and the signal     *)
(* notification_cs_ by which one wakes the other.                          *)
(*                                                                         *)
(* The handlers run one at a time (an executor of one thread or a strand), *)
(* so each is one action; the order in which queued handlers run is left   *)
(* open.  libpq, the socket's buffers and the server are external and are  *)
(* modelled from how they are called: n.out chunks wait in libpq's output  *)
(* buffer, n.to_server are in the socket's; n.to_client are messages in    *)
(* the socket and n.inbuf messages libpq has read but not parsed.  The     *)
(* server may close the connection: n.link is "closing" from then until    *)
(* libpq, having read what was sent before, meets the end of the stream    *)
(* and closes the socket, on which no wait ever completes: "broken".       *)
(***************************************************************************)
EXTENDS Integers, SequencesExt

CONSTANTS
  Size,        \* chunks of output a query has
  OutCap,      \* chunks the socket takes before it would block
  InCap,       \* messages the server may write before it blocks
  MaxQueries,  \* bound: queries started
  MaxNotes,    \* bound: notifications the server sends
  MayClose     \* whether the server may close the connection

ASSUME ConnectionAssumption ==
  /\ {Size, OutCap, InCap, MaxQueries, MaxNotes} \subseteq Nat \ {0}
  /\ MayClose \in BOOLEAN

VARIABLES
  net,        \* libpq's PGconn and the socket: see above
  srv_out,    \* messages the server is blocked on writing
  srv_got,    \* chunks of the current query it has read
  notes,      \* notifications it has sent
  op,         \* where the query operation is
  step,       \* which of its two async_receive_result it is in
  stored,     \* stored_result
  asked,      \* the queries started so far; the current one's number
  done,       \* history variable: the number and result of each completed one
  failed,     \* history variable: a query operation ended early
  rcv,        \* where the notification receiver is
  rcv_note,   \* its stored_notification
  cancelled,  \* its self.cancelled()
  received    \* history variable: the notifications it completed with

query == <<op, step, stored, asked, done, failed>>
receiver == <<rcv, rcv_note, cancelled, received>>
server == <<srv_out, srv_got, notes>>
vars == <<net, server, query, receiver>>

Null == 0

Init ==
  /\ net = [out |-> 0, to_server |-> 0, to_client |-> <<>>, inbuf |-> <<>>,
            status |-> "idle", result |-> Null, notifies |-> <<>>, link |-> "open"]
  /\ srv_out = <<>> /\ srv_got = 0 /\ notes = 0
  /\ op = "none" /\ step = 1 /\ stored = Null /\ asked = 0
  /\ done = <<>> /\ failed = FALSE
  /\ rcv = "none" /\ rcv_note = Null /\ cancelled = FALSE /\ received = <<>>

-----------------------------------------------------------------------------
(* libpq (external) *)

\* One message of the input buffer.  Notifications are taken whenever they
\* are first; a result waits until the program has fetched the one before.
ParseOne(n) ==
  IF n.inbuf = <<>> THEN n
  ELSE LET m    == Head(n.inbuf)
           rest == [n EXCEPT !.inbuf = Tail(n.inbuf)]
       IN  CASE m[1] = "note"
                  -> [rest EXCEPT !.notifies = Append(@, m[2])]
             [] m[1] = "result" /\ n.status = "busy"
                  -> [rest EXCEPT !.status = "ready", !.result = m[2]]
             [] m[1] = "copy" /\ n.status = "busy"
                  -> [rest EXCEPT !.status = "copy", !.result = m[2]]
             [] m[1] = "done" /\ n.status = "busy"
                  -> [rest EXCEPT !.status = "idle"]
             [] OTHER -> n

\* What PQisBusy, PQnotifies and PQgetResult do first.
Parsed(n) ==
  LET parse[i \in 0 .. Len(n.inbuf)] == IF i = 0 THEN n ELSE ParseOne(parse[i - 1])
  IN  parse[Len(n.inbuf)]

\* As much output as the socket takes; a socket the server has closed takes
\* all, or libpq drops it.
Sent(n) ==
  IF n.link = "closing" THEN [n EXCEPT !.out = 0]
  ELSE LET k == Min({n.out, OutCap - n.to_server})
       IN  [n EXCEPT !.out = @ - k, !.to_server = @ + k]

\* The first k messages read from the socket.
Read(n, k) ==
  [n EXCEPT !.inbuf = @ \o SubSeq(n.to_client, 1, k),
            !.to_client = SubSeq(@, k + 1, Len(@))]

AtEnd(n) == n.link = "closing" /\ n.to_client = <<>>
Broken(n) == [n EXCEPT !.link = "broken"]

\* PQconsumeInput: sends what it can and reads some of what there is.  It fails
\* at the end of the stream and from then on: the PGconn it leaves is broken.
PQconsumeInput(n) ==
  IF n.link = "broken" THEN {n}
  ELSE IF AtEnd(n) THEN {Broken(Sent(n))}
  ELSE {Read(Sent(n), k) : k \in IF n.to_client = <<>> THEN {0} ELSE 1 .. Len(n.to_client)}

\* PQflush: if it cannot send everything it may read instead.
PQflush(n) ==
  IF n.out = 0 \/ (n.link = "open" /\ Sent(n).out = 0) THEN {Sent(n)}
  ELSE IF n.link = "closing"
  THEN {Sent(n), IF AtEnd(n) THEN Broken(n) ELSE Read(n, Len(n.to_client))}
  ELSE {Read(Sent(n), k) : k \in 0 .. Len(n.to_client)}

-----------------------------------------------------------------------------
(* The query operation *)

\* Variants named Wrong... are not part of Next.  Each is a slip this code
\* could have had, kept to show that a property below notices it.
WrongEmitNobody == UNCHANGED receiver

\* notification_cs_->emit(terminal): the receiver's wait, if it has one
\* pending, completes with operation_aborted.
Emit ==
  /\ rcv' = IF rcv = "waiting" THEN "aborted" ELSE rcv
  /\ UNCHANGED <<rcv_note, cancelled, received>>

WrongReceiveResultAlwaysPosts(n) ==
  /\ net' = Parsed(n)
  /\ op' = "posted"

\* async_receive_result up to its first yield.
ReceiveResult(n) ==
  /\ net' = Parsed(n)
  /\ op' = IF net'.status = "busy" THEN "read" ELSE "posted"

\* The error paths of the composed operations: nothing is drained, and the
\* receiver is not told.
FailQuery ==
  /\ op' = "none"
  /\ failed' = TRUE

WrongGotResultStopsAtFirst(n) ==
  LET p   == Parsed(n)
      res == IF p.status \in {"ready", "copy"} THEN p.result ELSE Null
  IN  /\ net' = IF p.status = "ready" THEN [p EXCEPT !.status = "busy"] ELSE p
      /\ op' = "none"
      /\ done' = Append(done, <<asked, res>>)
      /\ Emit
      /\ UNCHANGED <<failed, step, stored>>

\* PQgetResult, and what async_generic_single_result_query does with it: the
\* first is the result; the second has to be null and ends the operation.
GotResult(n) ==
  LET p    == Parsed(n)
      next == IF p.status = "ready" THEN [p EXCEPT !.status = "busy"] ELSE p
      res  == IF p.status \in {"ready", "copy"} THEN p.result ELSE Null
  IN  \/ /\ step = 1
         /\ stored' = res
         /\ step' = 2
         /\ ReceiveResult(next)
         /\ UNCHANGED <<done, failed, receiver>>
      \/ /\ step = 2 /\ res # Null
         /\ net' = next
         /\ FailQuery
         /\ UNCHANGED <<step, stored, done, receiver>>
      \/ /\ step = 2 /\ res = Null
         /\ net' = next
         /\ op' = "none"
         /\ done' = Append(done, <<asked, stored>>)
         /\ Emit
         /\ UNCHANGED <<step, stored, failed>>

\* async_flush from PQflush to its next yield, or to its completion.
FlushStep(n) ==
  \E m \in IF n.link = "broken" THEN {n} ELSE PQflush(n) :
    \/ /\ m.link = "broken"
       /\ net' = m
       /\ FailQuery
    \/ /\ m.link # "broken" /\ m.out = 0
       /\ ReceiveResult(m)
       /\ UNCHANGED failed
    \/ /\ m.link # "broken" /\ m.out # 0
       /\ net' = m
       /\ op' = "flush"
       /\ UNCHANGED failed

\* async_prepare and its kind: PQsend... refuses on a broken PGconn and while
\* a command is in progress as far as libpq has parsed; then the operation ends
\* at once.
StartOperation ==
  /\ op = "none"
  /\ asked < MaxQueries
  /\ asked' = asked + 1
  /\ \/ /\ net.status = "idle" /\ net.link # "broken"
        /\ step' = 1
        /\ stored' = Null
        /\ FlushStep([net EXCEPT !.out = Size, !.status = "busy"])
     \/ /\ net.status # "idle" \/ net.link = "broken"
        /\ FailQuery
        /\ UNCHANGED <<net, step, stored>>
  /\ UNCHANGED <<done, server, receiver>>

\* The parallel group: writable first, then PQflush again.
FlushWritable ==
  /\ op = "flush_writable"
  /\ FlushStep(net)
  /\ UNCHANGED <<step, stored, asked, done, server, receiver>>

\* Readable first: consume, and wait again.
FlushReadable ==
  /\ op = "flush_readable"
  /\ net' \in PQconsumeInput(net)
  /\ IF net'.link = "broken" THEN FailQuery ELSE op' = "flush" /\ UNCHANGED failed
  /\ UNCHANGED <<step, stored, asked, done, server, receiver>>

\* The loop of async_receive_result after its wait.
ReadReadable ==
  /\ op = "read_readable"
  /\ \E m \in PQconsumeInput(net) :
       \/ /\ m.link = "broken"
          /\ net' = m
          /\ FailQuery
          /\ UNCHANGED <<step, stored, done, receiver>>
       \/ /\ m.link # "broken" /\ Parsed(m).status = "busy"
          /\ net' = Parsed(m)
          /\ op' = "read"
          /\ UNCHANGED <<step, stored, done, failed, receiver>>
       \/ /\ m.link # "broken" /\ Parsed(m).status # "busy"
          /\ GotResult(m)
  /\ UNCHANGED <<asked, server>>

\* The posted handler that makes a result available at once asynchronous.
ResultPosted ==
  /\ op = "posted"
  /\ GotResult(net)
  /\ UNCHANGED <<asked, server>>

\* Terminal cancellation of the operation: its pending wait is aborted and
\* the operation ends with that error.  One that is not waiting goes on.
CancelQuery ==
  /\ op \in {"flush", "read"}
  /\ FailQuery
  /\ UNCHANGED <<net, step, stored, asked, done, server, receiver>>

-----------------------------------------------------------------------------
(* The notification receiver *)

\* The loop of async_receive_notifcation up to its next yield.
ReceiveLoop(n) ==
  LET p == Parsed(n)
  IN  IF p.notifies # <<>>
      THEN /\ rcv_note' = Head(p.notifies)
           /\ net' = [p EXCEPT !.notifies = Tail(@)]
           /\ rcv' = "posted"
      ELSE /\ net' = p
           /\ rcv' = "waiting"
           /\ UNCHANGED rcv_note

StartReceive ==
  /\ rcv = "none"
  /\ cancelled' = FALSE
  /\ ReceiveLoop(net)
  /\ UNCHANGED <<received, server, query>>

WrongConsumeAndLoop == \E m \in PQconsumeInput(net) : ReceiveLoop(m)

\* The loop after its wait; the receiver ends when PQconsumeInput fails.
ConsumeAndLoop ==
  \E m \in PQconsumeInput(net) :
    IF m.link = "broken"
    THEN net' = m /\ rcv' = "none" /\ UNCHANGED rcv_note
    ELSE ReceiveLoop(m)

ReceiverWoken ==
  /\ rcv = "woken"
  /\ ConsumeAndLoop
  /\ UNCHANGED <<cancelled, received, server, query>>

WrongReceiverAbortedSleepsAgain ==
  /\ rcv = "aborted"
  /\ rcv' = IF cancelled THEN "none" ELSE "waiting"
  /\ UNCHANGED <<net, rcv_note, cancelled, received, server, query>>

\* operation_aborted: an error only if the caller asked for it; otherwise a
\* query ended and may have read notifications.
ReceiverAborted ==
  /\ rcv = "aborted"
  /\ IF cancelled
     THEN rcv' = "none" /\ UNCHANGED <<net, rcv_note>>
     ELSE ConsumeAndLoop
  /\ UNCHANGED <<cancelled, received, server, query>>

WrongReceiverPostedHonoursCancel ==
  /\ rcv = "posted"
  /\ received' = IF cancelled THEN received ELSE Append(received, rcv_note)
  /\ rcv' = "none"
  /\ rcv_note' = Null
  /\ UNCHANGED <<net, cancelled, server, query>>

ReceiverPosted ==
  /\ rcv = "posted"
  /\ received' = Append(received, rcv_note)
  /\ rcv' = "none"
  /\ rcv_note' = Null
  /\ UNCHANGED <<net, cancelled, server, query>>

WrongCancelReceiveAbortsAnything ==
  /\ rcv # "none"
  /\ ~cancelled
  /\ cancelled' = TRUE
  /\ rcv' = "aborted"
  /\ UNCHANGED <<net, rcv_note, received, server, query>>

\* The caller cancels: remembered, and passed on to a pending wait.
CancelReceive ==
  /\ rcv # "none"
  /\ ~cancelled
  /\ cancelled' = TRUE
  /\ rcv' = IF rcv = "waiting" THEN "aborted" ELSE rcv
  /\ UNCHANGED <<net, rcv_note, received, server, query>>

-----------------------------------------------------------------------------
(* The reactor and the server (external) *)

WrongReadableSkipsFlush ==
  /\ net.to_client # <<>> \/ net.link = "closing"
  /\ op = "read" \/ rcv = "waiting"
  /\ op' = IF op = "read" THEN "read_readable" ELSE op
  /\ rcv' = IF rcv = "waiting" THEN "woken" ELSE rcv
  /\ UNCHANGED <<net, step, stored, asked, done, failed, rcv_note, cancelled,
                 received, server>>

\* Input on the socket, or its end, completes every pending wait for reading.
Readable ==
  /\ net.to_client # <<>> \/ net.link = "closing"
  /\ op \in {"flush", "read"} \/ rcv = "waiting"
  /\ op' = CASE op = "flush" -> "flush_readable"
             [] op = "read"  -> "read_readable"
             [] OTHER        -> op
  /\ rcv' = IF rcv = "waiting" THEN "woken" ELSE rcv
  /\ UNCHANGED <<net, step, stored, asked, done, failed, rcv_note, cancelled,
                 received, server>>

Writable ==
  /\ net.link # "broken"
  /\ net.to_server < OutCap \/ net.link = "closing"
  /\ op = "flush"
  /\ op' = "flush_writable"
  /\ UNCHANGED <<net, step, stored, asked, done, failed, receiver, server>>

\* The server reads only while it has nothing to write.
ServerReads ==
  /\ net.link = "open" /\ srv_out = <<>>
  /\ net.to_server > 0
  /\ net' = [net EXCEPT !.to_server = @ - 1]
  /\ srv_got' = srv_got + 1
  /\ UNCHANGED <<srv_out, notes, query, receiver>>

\* With all of a query read, it answers: with one result and the end of the
\* command, a notification of its own perhaps before the end; or with a COPY.
ServerAnswers ==
  /\ net.link = "open" /\ srv_out = <<>>
  /\ srv_got = Size
  /\ srv_got' = 0
  /\ \/ /\ srv_out' = <<<<"result", asked>>, <<"done", asked>>>>
        /\ UNCHANGED notes
     \/ /\ notes < MaxNotes
        /\ notes' = notes + 1
        /\ srv_out' = <<<<"result", asked>>, <<"note", notes'>>, <<"done", asked>>>>
     \/ /\ srv_out' = <<<<"copy", asked>>>>
        /\ UNCHANGED notes
  /\ UNCHANGED <<net, query, receiver>>

ServerNotifies ==
  /\ net.link = "open" /\ srv_out = <<>>
  /\ srv_got < Size
  /\ notes < MaxNotes
  /\ notes' = notes + 1
  /\ srv_out' = <<<<"note", notes'>>>>
  /\ UNCHANGED <<net, srv_got, query, receiver>>

ServerWrites ==
  /\ net.link = "open" /\ srv_out # <<>>
  /\ Len(net.to_client) < InCap
  /\ net' = [net EXCEPT !.to_client = Append(@, Head(srv_out))]
  /\ srv_out' = Tail(srv_out)
  /\ UNCHANGED <<srv_got, notes, query, receiver>>

\* It ends (a restart, pg_terminate_backend); what it had not written is lost.
ServerCloses ==
  /\ MayClose
  /\ net.link = "open"
  /\ net' = [net EXCEPT !.link = "closing"]
  /\ srv_out' = <<>>
  /\ UNCHANGED <<srv_got, notes, query, receiver>>

Next ==
  \/ StartOperation \/ FlushWritable \/ FlushReadable
  \/ ReadReadable \/ ResultPosted \/ CancelQuery
  \/ StartReceive \/ ReceiverWoken \/ ReceiverAborted \/ ReceiverPosted \/ CancelReceive
  \/ Readable \/ Writable
  \/ ServerReads \/ ServerAnswers \/ ServerNotifies \/ ServerWrites \/ ServerCloses

Spec == Init /\ [][Next]_vars

\* Queued handlers run, the reactor reports what is there, and the server
\* serves.  Nothing is assumed of the callers.
Fairness ==
  /\ WF_vars(FlushWritable) /\ WF_vars(FlushReadable)
  /\ WF_vars(ReadReadable) /\ WF_vars(ResultPosted)
  /\ WF_vars(ReceiverWoken) /\ WF_vars(ReceiverAborted) /\ WF_vars(ReceiverPosted)
  /\ WF_vars(Readable) /\ WF_vars(Writable)
  /\ WF_vars(ServerReads) /\ WF_vars(ServerAnswers) /\ WF_vars(ServerWrites)

FairSpec == Spec /\ Fairness

-----------------------------------------------------------------------------
TypeOK ==
  /\ net.out \in 0 .. Size
  /\ net.to_server \in 0 .. OutCap
  /\ Len(net.to_client) <= InCap
  /\ net.status \in {"idle", "busy", "ready", "copy"}
  /\ net.link \in {"open", "closing", "broken"}
  /\ op \in {"none", "flush", "flush_readable", "flush_writable",
             "read", "read_readable", "posted"}
  /\ rcv \in {"none", "waiting", "woken", "aborted", "posted"}
  /\ srv_got \in 0 .. Size
  /\ step \in {1, 2}
  /\ rcv_note # Null <=> rcv = "posted"

(* PQgetResult never blocks the thread: whatever the receiver did to the
   PGconn between PQisBusy and the posted handler, a result (or its end) is
   still there when the handler runs. *)
GetResultNeverBlocks == op = "posted" => Parsed(net).status # "busy"

(* A query operation that completes has its own result, and leaves the
   PGconn ready for the next one with nothing of the answer left over. *)
ReadyAfterSuccess ==
  /\ \A i \in DOMAIN done : done[i][1] = done[i][2]
  /\ op = "none" /\ ~failed => net.status = "idle" /\ net.out = 0

(* Notifications are neither lost, repeated nor reordered, however they were
   read (by the receiver or by a query) and whatever was cancelled: those
   delivered, stored, queued in libpq and on their way make up those sent,
   or, once the server has closed the connection, the first of them. *)
NotesIn(s) ==
  FlattenSeq([i \in DOMAIN s |-> IF s[i][1] = "note" THEN <<s[i][2]>> ELSE <<>>])
NotificationsConserved ==
  LET all == received \o (IF rcv_note = Null THEN <<>> ELSE <<rcv_note>>) \o net.notifies
               \o NotesIn(net.inbuf) \o NotesIn(net.to_client) \o NotesIn(srv_out)
  IN  /\ all = [i \in DOMAIN all |-> i]
      /\ Len(all) <= notes
      /\ net.link = "open" => Len(all) = notes

(* The receiver does not sleep on a notification that libpq has already read:
   a query that may have read it is still under way and will wake it, unless
   a query operation ended early. *)
NoStrandedNotification ==
  rcv = "waiting" /\ Parsed(net).notifies # <<>> => op # "none" \/ failed

(* Every query operation ends, also while a receiver is active:
   "async_receive_notification is the only asynchronous operation that can be
   initiated while other active asynchronous operations are ongoing on the
   connection" (README.md). *)
QueryEnds == op # "none" ~> op = "none"

(* Without a receiver every query operation ends: client and server are never
   both blocked on writing, however small the buffers. *)
QueryEndsAlone == [](rcv = "none") => QueryEnds

(* A caller that receives again and again, and in the end no longer cancels, gets
   each notification that reached the client, whether it is in the socket, in
   libpq's input buffer, in its queue or stored, whoever read it and whatever was
   cancelled before, as long as query operations end and none ends early: one that
   hangs may leave the notification in libpq's input behind its own answer. *)
AtClient == ToSet(net.notifies \o NotesIn(net.inbuf \o net.to_client)) \union {rcv_note}
NotificationDelivered ==
  []<>(rcv # "none") /\ <>[]~cancelled /\ []<>(op = "none") =>
    \A n \in 1 .. MaxNotes : n \in AtClient ~> n \in ToSet(received) \/ failed

(* When the server closes the connection, a receiver that waits ends, whoever
   of it and the queries is first to meet the end of the stream, unless a query
   operation ends early: PQconsumeInput in that one closes the socket, and the
   receiver's wait on it may never complete. *)
ReceiverToldOfClose ==
  (rcv = "waiting" /\ net.link = "closing") ~> (rcv = "none" \/ failed)
=============================================================================
