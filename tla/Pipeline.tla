------------------------------- MODULE Pipeline -------------------------------
(***************************************************************************)
(* async_exec_pipeline of include/psql/connection.hpp, with the class      *)
(* pipeline of include/psql/pipeline.hpp, on one session that also runs    *)
(* single-result queries and a notification receiver, and that the pool    *)
(* recycles between operations.                                            *)
(*                                                                         *)
(* The question is what an operation that ends early leaves behind: the    *)
(* PGconn stays in pipeline mode with commands queued, unsent or           *)
(* unanswered, and later operations start on it.  The socket never fails   *)
(* and never blocks the server here (Connection.tla has small buffers);    *)
(* what it took of the output at once is left open.                        *)
(*                                                                         *)
(* A command is <<kind, op, n>>: the n-th push of operation number op; its *)
(* sync has n = 0.  A message of the server, and a result, is              *)
(* <<status, op, n>>.                                                      *)
(***************************************************************************)
EXTENDS Integers, SequencesExt, FiniteSetsExt

CONSTANTS
  Scripts,   \* bound: what the caller's function may push, each a sequence of
             \* "ok", "fail" and "copy" (a COPY ... TO STDOUT)
  MaxOps,    \* bound: operations started
  MaxNotes   \* bound: notifications the server sends

ASSUME PipelineAssumption ==
  /\ \A items \in Scripts : items \in Seq({"ok", "fail", "copy"})
  /\ {MaxOps, MaxNotes} \subseteq Nat

VARIABLES
  pq,         \* libpq's PGconn: see Fresh
  to_client,  \* messages in the socket
  srv,        \* the server's session, and what it has committed
  op,         \* where the operation's innermost wait is
  phase,      \* which result the coroutine is waiting for
  results,    \* its results, those received so far
  ops,        \* history variable: what each operation was asked to do
  last,       \* history variable: how the latest one ended
  stale,      \* history variable: an operation on this session ended early
  rcv         \* where the notification receiver is

operation == <<op, phase, results, ops, last, stale>>
vars == <<pq, to_client, srv, operation, rcv>>

Null  == <<"null", 0, 0>>
NoEnd == [outcome |-> "none", results |-> <<>>, stale |-> FALSE]

\* mode is libpq's pipelineStatus: off, on or aborted.
Fresh == [mode |-> "off", async |-> "idle", queue |-> <<>>, result |-> Null,
          out |-> <<>>, inbuf |-> <<>>, notifies |-> 0]

NewSession == [in |-> <<>>, out |-> <<>>, txn |-> {}, skip |-> FALSE,
               committed |-> {}, notes |-> 0]

Init ==
  /\ pq = Fresh /\ to_client = <<>> /\ srv = NewSession
  /\ op = "none" /\ phase = "result" /\ results = <<>>
  /\ ops = <<>> /\ last = NoEnd /\ stale = FALSE
  /\ rcv = "none"

\* Variants named Wrong... are not part of Next.  Each is a slip this code
\* could have had, kept to show that a property below notices it.
WrongSize(o) == Len(o.items)

\* pipeline::size: what was pushed, with the ROLLBACK of a function that threw.
Size(o) == Len(o.items) + IF o.thrown THEN 1 ELSE 0

-----------------------------------------------------------------------------
(* libpq (external) *)

\* pqPipelineProcessQueue: on to the next command.  After an error, what was
\* queued before the sync is answered by libpq itself.
ProcessQueue(n) ==
  IF n.queue = <<>> THEN [n EXCEPT !.async = "idle"]
  ELSE LET c == Head(n.queue)
       IN  IF n.mode = "aborted" /\ c[1] # "sync"
           THEN [n EXCEPT !.async = "ready", !.result = <<"aborted", c[2], c[3]>>]
           ELSE [n EXCEPT !.async = "busy"]

\* PQsendQueryParams, PQsendQueryPrepared and PQpipelineSync in pipeline mode.
PushCommand(n, c) ==
  LET m == [n EXCEPT !.queue = Append(@, c), !.out = Append(@, c)]
  IN  CASE n.mode = "aborted" /\ n.async \in {"idle", "pidle"} -> ProcessQueue(m)
        [] n.mode = "on" /\ n.async = "idle" -> [m EXCEPT !.async = "busy"]
        [] OTHER -> m

Push(n, cs) ==
  LET push[i \in 0 .. Len(cs)] == IF i = 0 THEN n ELSE PushCommand(push[i - 1], cs[i])
  IN  push[Len(cs)]

\* One message of the input buffer.
ParseOne(n) ==
  IF n.inbuf = <<>> THEN n
  ELSE LET m    == Head(n.inbuf)
           rest == [n EXCEPT !.inbuf = Tail(n.inbuf)]
           got  == [rest EXCEPT !.result = m,
                                !.async = IF m[1] = "copy" THEN "copy" ELSE "ready"]
       IN  CASE m[1] = "note" -> [rest EXCEPT !.notifies = @ + 1]
             [] m[1] # "note" /\ n.async # "busy" -> n
             [] m[1] = "sync" /\ n.async = "busy" ->
                  IF n.mode = "off" THEN [rest EXCEPT !.async = "idle"]
                  ELSE [got EXCEPT !.mode = "on"]
             [] OTHER -> IF m[1] = "error" /\ n.mode # "off" THEN [got EXCEPT !.mode = "aborted"]
                         ELSE got

Parsed(n) ==
  LET parse[i \in 0 .. Len(n.inbuf)] == IF i = 0 THEN n ELSE ParseOne(parse[i - 1])
  IN  parse[Len(n.inbuf)]

\* The result PQgetResult returns, and the PGconn after it.
GetResult(n) == IF n.async \in {"ready", "copy"} THEN n.result ELSE Null
AfterGetResult(n) ==
  CASE n.async = "pidle" -> ProcessQueue(n)
    [] n.async = "ready" /\ n.mode = "off" -> [n EXCEPT !.async = "busy"]
    [] n.async = "ready" /\ n.mode # "off" ->
         LET m == [n EXCEPT !.queue = Tail(@), !.async = "pidle"]
         IN  IF n.result[1] = "sync" THEN ProcessQueue(m) ELSE m
    [] OTHER -> n

PQenterPipelineMode(n) == n.mode # "off" \/ n.async = "idle"
PQexitPipelineMode(n) == n.async \in {"idle", "pidle"} /\ n.queue = <<>>

\* PQTRANS_IDLE: between commands, and no transaction block open.
PQtransactionStatusIdle(n) == n.async = "idle"

-----------------------------------------------------------------------------
(* The server (external) *)

\* It takes one command.  The commands up to a sync are one transaction;
\* after an error it skips what precedes the sync.
Serve(s) ==
  LET c    == Head(s.in)
      rest == [s EXCEPT !.in = Tail(@)]
      Answer(status) == Append(s.out, <<status, c[2], c[3]>>)
  IN  CASE c[1] = "sync" ->
             [rest EXCEPT !.out = Answer("sync"), !.skip = FALSE, !.txn = {},
                          !.committed = @ \union s.txn]
        [] c[1] # "sync" /\ s.skip -> rest
        [] c[1] = "fail" /\ ~s.skip ->
             [rest EXCEPT !.out = Answer("error"), !.skip = TRUE, !.txn = {}]
        [] c[1] = "rollback" /\ ~s.skip ->
             [rest EXCEPT !.out = Answer("ok"), !.txn = {}]
        [] c[1] \in {"ok", "copy"} /\ ~s.skip ->
             [rest EXCEPT !.out = Answer(c[1]), !.txn = @ \union {<<c[2], c[3]>>}]

ServeFirst(s, k) ==
  LET serve[i \in 0 .. k] == IF i = 0 THEN s ELSE Serve(serve[i - 1])
  IN  serve[k]

ServerServes ==
  /\ srv.in # <<>>
  /\ srv' = Serve(srv)
  /\ UNCHANGED <<pq, to_client, operation, rcv>>

\* Answers leave its buffer when a sync or a notification was written; they
\* may leave it earlier.
ServerWrites ==
  /\ srv.out # <<>>
  /\ \E k \in 1 .. Len(srv.out) :
       /\ to_client' = to_client \o SubSeq(srv.out, 1, k)
       /\ srv' = [srv EXCEPT !.out = SubSeq(@, k + 1, Len(@))]
  /\ UNCHANGED <<pq, operation, rcv>>

ServerFlushes ==
  /\ \E m \in Range(srv.out) : m[1] \in {"sync", "note"}
  /\ to_client' = to_client \o srv.out
  /\ srv' = [srv EXCEPT !.out = <<>>]
  /\ UNCHANGED <<pq, operation, rcv>>

\* At the end of a transaction, before it reports the sync.
ServerNotifies ==
  /\ srv.notes < MaxNotes
  /\ srv.in # <<>> /\ Head(srv.in)[1] = "sync"
  /\ srv' = [srv EXCEPT !.notes = @ + 1, !.out = Append(@, <<"note", 0, 0>>)]
  /\ UNCHANGED <<pq, to_client, operation, rcv>>

-----------------------------------------------------------------------------
(* The steps all operations share *)

WrongEmit == UNCHANGED rcv

\* notification_cs_->emit(terminal)
Emit == rcv' = IF rcv = "waiting" THEN "aborted" ELSE rcv

Complete(outcome, rs) ==
  /\ op' = "none"
  /\ last' = [outcome |-> outcome, results |-> rs, stale |-> stale]
  /\ UNCHANGED <<phase, results, ops>>

\* self.complete(error, {}) before the answer was all read: nothing is
\* drained, pipeline mode is not left, the receiver is not told.
EndEarly(n, outcome) ==
  /\ pq' = n
  /\ Complete(outcome, <<>>)
  /\ stale' = TRUE
  /\ UNCHANGED rcv

\* async_receive_result up to its first yield.
ReceiveResult(n) ==
  /\ pq' = Parsed(n)
  /\ op' = IF pq'.async = "busy" THEN "read" ELSE "posted"

\* PQflush: the first k commands of the output leave, and if that is not all
\* async_flush waits; it may have read input then.
FlushStep(n, atleast) ==
  \E k \in atleast .. Len(n.out) :
    LET m == [n EXCEPT !.out = SubSeq(@, k + 1, Len(@))]
    IN  /\ srv' = [srv EXCEPT !.in = @ \o SubSeq(n.out, 1, k)]
        /\ IF m.out = <<>>
           THEN ReceiveResult(m) /\ UNCHANGED to_client
           ELSE /\ op' = "flush"
                /\ \E some \in BOOLEAN :
                     /\ pq' = IF some THEN [m EXCEPT !.inbuf = @ \o to_client] ELSE m
                     /\ to_client' = IF some THEN <<>> ELSE to_client

\* PQconsumeInput: reads what there is and sends what it can, here k commands.
ConsumeInput(k) ==
  [pq EXCEPT !.inbuf = @ \o to_client, !.out = SubSeq(@, k + 1, Len(@))]
Consumes(k) ==
  /\ to_client' = <<>>
  /\ srv' = [srv EXCEPT !.in = @ \o SubSeq(pq.out, 1, k)]

-----------------------------------------------------------------------------
(* async_exec_pipeline *)

WrongCommandsNoRollback(i, o) ==
  [j \in DOMAIN o.items |-> <<o.items[j], i, j>>] \o <<<<"sync", i, 0>>>>

WrongCommandsNoSync(i, o) ==
  [j \in DOMAIN o.items |-> <<o.items[j], i, j>>]
    \o (IF o.thrown THEN <<<<"rollback", i, Size(o)>>>> ELSE <<>>)

\* What the caller's function pushed, the ROLLBACK if it threw, and the sync.
Commands(i, o) ==
  [j \in DOMAIN o.items |-> <<o.items[j], i, j>>]
    \o (IF o.thrown THEN <<<<"rollback", i, Size(o)>>>> ELSE <<>>)
    \o <<<<"sync", i, 0>>>>

Begin(o) ==
  /\ op = "none"
  /\ Len(ops) < MaxOps
  /\ ops' = Append(ops, o)
  /\ phase' = IF Size(o) = 0 THEN "sync" ELSE "result"
  /\ results' = <<>>

\* It does not get as far as its first wait.
Refused(outcome) ==
  /\ op' = "none"
  /\ last' = [outcome |-> outcome, results |-> <<>>, stale |-> stale]
  /\ stale' = TRUE
  /\ UNCHANGED <<pq, to_client, srv, rcv>>

\* Up to the first wait.  In COPY libpq refuses every push: then so it does
\* the ROLLBACK, whose exception leaves the function that starts the operation.
StartPipeline(o) ==
  /\ Begin(o)
  /\ CASE ~PQenterPipelineMode(pq) -> Refused("enter_failed")
       [] PQenterPipelineMode(pq) /\ pq.async = "copy" ->
            Refused(IF Size(o) > 0 THEN "thrown_out" ELSE "sync_failed")
       [] OTHER ->
            /\ FlushStep(Push([pq EXCEPT !.mode = IF @ = "off" THEN "on" ELSE @],
                              Commands(Len(ops'), o)), 0)
            /\ last' = NoEnd
            /\ UNCHANGED <<stale, rcv>>

WrongFirstErrorOfFirst(rs) == rs # <<>> /\ rs[1][1] # "ok"

\* result_status_to_error_code over the results.
FirstError(rs) == \E j \in DOMAIN rs : rs[j][1] # "ok"

WrongLeavesPipelineMode(n) == TRUE

\* The check of PQexitPipelineMode's result.
LeavesPipelineMode(n) == PQexitPipelineMode(n)

\* The sync has been read.
EndOfPipeline(n) ==
  LET o == ops[Len(ops)]
  IN  IF ~LeavesPipelineMode(n) THEN EndEarly(n, "exit_failed")
      ELSE /\ pq' = [n EXCEPT !.mode = "off", !.async = "idle"]
           /\ Emit
           /\ CASE o.thrown -> Complete("exception", <<>>)
                [] ~o.thrown /\ FirstError(results) -> Complete("failed", results)
                [] OTHER -> Complete("success", results)
           /\ UNCHANGED stale

\* The coroutine after each async_receive_result: per push its result and a
\* null, then the sync.
PipelineResult(n) ==
  LET res == GetResult(n)
      m   == AfterGetResult(n)
      o   == ops[Len(ops)]
  IN  \/ /\ phase = "result"
         /\ results' = Append(results, res)
         /\ phase' = "null"
         /\ ReceiveResult(m)
         /\ UNCHANGED <<ops, last, stale, rcv>>
      \/ /\ phase = "null" /\ res # Null
         /\ EndEarly(m, "unexpected_non_null")
      \/ /\ phase = "null" /\ res = Null
         /\ phase' = IF Len(results) < Size(o) THEN "result" ELSE "sync"
         /\ ReceiveResult(m)
         /\ UNCHANGED <<results, ops, last, stale, rcv>>
      \/ /\ phase = "sync" /\ res[1] # "sync"
         /\ EndEarly(m, "unexpected_status")
      \/ /\ phase = "sync" /\ res[1] = "sync"
         /\ EndOfPipeline(m)

-----------------------------------------------------------------------------
(* A single-result query: async_generic_single_result_query *)

\* libpq syncs after the query, but not in pipeline mode: there it is queued
\* behind whatever is still unanswered.
StartQuery(k) ==
  /\ Begin([what |-> "query", items |-> <<k>>, thrown |-> FALSE])
  /\ LET i == Len(ops')
     IN  CASE pq.mode # "off" /\ pq.async # "copy" ->
                /\ FlushStep(Push(pq, <<<<k, i, 1>>>>), 0)
                /\ last' = NoEnd
                /\ UNCHANGED <<stale, rcv>>
           [] pq.mode = "off" /\ pq.async = "idle" ->
                /\ FlushStep([pq EXCEPT !.async = "busy",
                                        !.out = @ \o <<<<k, i, 1>>, <<"sync", i, 0>>>>], 0)
                /\ last' = NoEnd
                /\ UNCHANGED <<stale, rcv>>
           [] OTHER -> Refused("send_failed")

QueryResult(n) ==
  LET res == GetResult(n)
      m   == AfterGetResult(n)
  IN  \/ /\ phase = "result"
         /\ results' = <<res>>
         /\ phase' = "null"
         /\ ReceiveResult(m)
         /\ UNCHANGED <<ops, last, stale, rcv>>
      \/ /\ phase = "null" /\ res # Null
         /\ EndEarly(m, "unexpected_non_null")
      \/ /\ phase = "null" /\ res = Null
         /\ pq' = m
         /\ Emit
         /\ Complete(IF FirstError(results) THEN "failed" ELSE "success", results)
         /\ UNCHANGED stale

-----------------------------------------------------------------------------
(* The handlers of both *)

GotResult(n) ==
  IF ops[Len(ops)].what = "pipeline" THEN PipelineResult(n) ELSE QueryResult(n)

\* The socket takes more of the output.
FlushWritable ==
  /\ op = "flush"
  /\ FlushStep(pq, Min({1, Len(pq.out)}))
  /\ UNCHANGED <<phase, results, ops, last, stale, rcv>>

FlushReadable ==
  /\ op = "flush_readable"
  /\ \E k \in 0 .. Len(pq.out) : Consumes(k) /\ pq' = ConsumeInput(k)
  /\ op' = "flush"
  /\ UNCHANGED <<phase, results, ops, last, stale, rcv>>

ReadReadable ==
  /\ op = "read_readable"
  /\ Consumes(0)
  /\ LET p == Parsed(ConsumeInput(0))
     IN  IF p.async = "busy"
         THEN /\ pq' = p
              /\ op' = "read"
              /\ UNCHANGED <<phase, results, ops, last, stale, rcv>>
         ELSE GotResult(p)

ResultPosted ==
  /\ op = "posted"
  /\ GotResult(Parsed(pq))
  /\ UNCHANGED <<to_client, srv>>

\* Cancellation aborts a pending wait; so would an error of the socket.
Cancel ==
  /\ op \in {"flush", "read"}
  /\ EndEarly(pq, "cancelled")
  /\ UNCHANGED <<to_client, srv>>

-----------------------------------------------------------------------------
(* The receiver, the reactor, and the pool *)

WrongReceiveLoop(n) ==
  /\ pq' = [Parsed(n) EXCEPT !.notifies = @ - 1]
  /\ rcv' = "none"

\* async_receive_notifcation up to its wait, or to its completion.
ReceiveLoop(n) ==
  LET p == Parsed(n)
  IN  IF p.notifies > 0
      THEN pq' = [p EXCEPT !.notifies = @ - 1] /\ rcv' = "none"
      ELSE pq' = p /\ rcv' = "waiting"

StartReceive ==
  /\ rcv = "none"
  /\ ReceiveLoop(pq)
  /\ UNCHANGED <<to_client, srv, operation>>

ReceiverRuns ==
  /\ rcv \in {"woken", "aborted"}
  /\ \E k \in 0 .. Len(pq.out) : Consumes(k) /\ ReceiveLoop(ConsumeInput(k))
  /\ UNCHANGED operation

Readable ==
  /\ to_client # <<>>
  /\ op \in {"flush", "read"} \/ rcv = "waiting"
  /\ op' = CASE op = "flush" -> "flush_readable"
             [] op = "read"  -> "read_readable"
             [] OTHER        -> op
  /\ rcv' = IF rcv = "waiting" THEN "woken" ELSE rcv
  /\ UNCHANGED <<pq, to_client, srv, phase, results, ops, last, stale>>

WrongKeeps == TRUE

\* return_connection: is this connection kept for the next task?
Keeps == PQtransactionStatusIdle(pq)

\* Returned to the pool, and the next one taken from it.  A connection that
\* is not kept is closed: its server may still serve what it was sent.
Recycle ==
  /\ op = "none" /\ rcv = "none" /\ ops # <<>>
  /\ stale' = FALSE
  /\ \/ Keeps /\ UNCHANGED <<pq, to_client, srv>>
     \/ /\ ~Keeps
        /\ pq' = Fresh
        /\ to_client' = <<>>
        /\ \E k \in 0 .. Len(srv.in) :
             srv' = [NewSession EXCEPT !.committed = ServeFirst(srv, k).committed,
                                       !.notes = srv.notes]
  /\ UNCHANGED <<op, phase, results, ops, last, rcv>>

Next ==
  \/ \E items \in Scripts, thrown \in BOOLEAN :
       StartPipeline([what |-> "pipeline", items |-> items, thrown |-> thrown])
  \/ \E k \in {"ok", "fail"} : StartQuery(k)
  \/ FlushWritable \/ FlushReadable \/ ReadReadable \/ ResultPosted \/ Cancel
  \/ StartReceive \/ ReceiverRuns \/ Readable \/ Recycle
  \/ ServerServes \/ ServerWrites \/ ServerFlushes \/ ServerNotifies

Spec == Init /\ [][Next]_vars

-----------------------------------------------------------------------------
TypeOK ==
  /\ pq.mode \in {"off", "on", "aborted"}
  /\ pq.async \in {"idle", "busy", "ready", "copy", "pidle"}
  /\ pq.notifies \in 0 .. MaxNotes
  /\ op \in {"none", "flush", "flush_readable", "read", "read_readable", "posted"}
  /\ phase \in {"result", "null", "sync"}
  /\ stale \in BOOLEAN
  /\ rcv \in {"none", "waiting", "woken", "aborted"}

IsPipeline(i) == ops[i].what = "pipeline"
Effects(i) == {c \in srv.committed : c[1] = i}
AllOf(i) == {i} \X DOMAIN ops[i].items

(* "Pipelines are implicit transactions" (README.md): whatever ended early
   before it, and wherever it ends early itself, the server commits all the
   caller pushed or nothing, and nothing when a query failed or the caller's
   function threw. *)
AllOrNothing ==
  \A i \in DOMAIN ops : IsPipeline(i) =>
    \/ Effects(i) = {}
    \/ /\ Effects(i) = AllOf(i)
       /\ ~ops[i].thrown
       /\ "fail" \notin Range(ops[i].items)

(* What a pipeline reports is what became of it: success after it was
   committed, a failed query or an exception only when nothing of it was or
   will be. *)
OutcomeTruthful ==
  ops # <<>> /\ IsPipeline(Len(ops)) =>
    /\ last.outcome = "success" => Effects(Len(ops)) = AllOf(Len(ops))
    /\ last.outcome \in {"failed", "exception"} =>
         \A c \in srv.committed \union srv.txn : c[1] # Len(ops)

(* The results a pipeline delivers are its own, at the indices push_query
   returned, also on a session where an operation ended early. *)
PipelineResultsOwn ==
  ops # <<>> /\ IsPipeline(Len(ops)) /\ last.outcome \in {"success", "failed"} =>
    /\ Len(last.results) = Size(ops[Len(ops)])
    /\ \A j \in DOMAIN last.results : Tail(last.results[j]) = <<Len(ops), j>>

(* The result of a single query is its own, unless an operation ended early
   since the connection came from the pool: the pool keeps no connection with
   commands or answers left over. *)
QueryResultOwn ==
  ops # <<>> /\ ~IsPipeline(Len(ops)) /\ last.outcome \in {"success", "failed"} =>
    \/ last.stale
    \/ Tail(last.results[1]) = <<Len(ops), 1>>

(* Without a COPY, and on a session where nothing ended early, a pipeline that
   nobody cancels ends with its results or with the caller's exception, never
   with an error of the protocol. *)
PipelineCompletes ==
  ops # <<>> /\ ~last.stale /\ "copy" \notin Range(ops[Len(ops)].items) =>
    last.outcome \in {"none", "success", "failed", "exception", "cancelled"}

(* The receiver does not sleep on a notification that libpq has already read,
   unless an operation is under way or ended early. *)
NoStrandedNotification ==
  rcv = "waiting" /\ Parsed(pq).notifies > 0 => op # "none" \/ stale

(* On a session where nothing ended early and that has had no receiver and no
   notification, an operation does not wait for what nobody will send: its output,
   the server's input or the answer is on its way, and the answer is one the server
   has to flush.  (A receiver completes only with a notification, so none has had
   one where there is none.) *)
AnswerIsComing ==
  op \in {"flush", "read"} /\ ~stale /\ rcv = "none" /\ srv.notes = 0 =>
    \/ op = "flush"
    \/ to_client # <<>>
    \/ \E m \in Range(srv.in \o srv.out) : m[1] = "sync"
=============================================================================
