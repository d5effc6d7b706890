------------------------------- MODULE OidCache -------------------------------
(***************************************************************************)
(* User-defined parameter types of a connection: oid_map_ and new_udts_ of *)
(* include/psql/connection.hpp, the types a query mentions                 *)
(* (detail/extract_new_udts.hpp) and the extra query that asks the server  *)
(* for their Oids before the query itself is sent.                         *)
(*                                                                         *)
(* The single and the array Oid of a type come from one row and are stored *)
(* together, so one value stands for the pair.                             *)
(***************************************************************************)
EXTENDS Naturals, SequencesExt

CONSTANTS
  Types,       \* user-defined types of the program
  Members,     \* the user-defined types among the members of each type
  Depth,       \* how deep each of them nests: no type contains itself
  Queries,     \* what the program runs: [params: Seq(Types), verb: Verbs]
  NoOid,       \* no entry in oid_map_
  InvalidOid,  \* the 0xFFFFFFFF of a row whose to_regtype was NULL
  MaxOid,      \* bound: Oids the server hands out
  MaxPending   \* bound: the length new_udts_ may reach before a query

Verbs == {"plain", "begin", "end"}
Oids == 1 .. MaxOid

ASSUME OidAssumption ==
  /\ MaxOid \in Nat
  /\ Members \in [Types -> Seq(Types)]
  /\ Queries \subseteq [params : Seq(Types), verb : Verbs]
  /\ NoOid \notin Nat /\ InvalidOid \notin Nat /\ NoOid # InvalidOid

\* The members of a C++ type are complete when it is defined, so following
\* them ends.
ASSUME NestingAssumption ==
  /\ Depth \in [Types -> Nat]
  /\ \A T \in Types : \A i \in DOMAIN Members[T] : Depth[Members[T][i]] < Depth[T]

VARIABLES
  oid_map,   \* oid_map_
  new_udts,  \* new_udts_: type names to ask for, in order
  pc,        \* the operation in progress: idle, asking (for Oids) or running
  query,     \* its query
  sent,      \* the Oids serialized into what was last sent
  outcome,   \* how the last operation ended
  registry,  \* the server's pg_type: the Oid of each type that exists
  next_oid,  \* the next Oid it hands out
  txn,       \* the session's transaction: none, open or aborted
  had        \* history variable: the Oids each type has had on the server

client == <<oid_map, new_udts, pc, query, sent, outcome>>
server == <<registry, next_oid, txn, had>>
vars == <<client, server>>

\* A type and what it is composed of, in the order extract_new_udts visits
\* them: members are visited whether or not the type itself is known.
Flat[T \in Types] ==
  <<T>> \o FlattenSeq([i \in DOMAIN Members[T] |-> Flat[Members[T][i]]])

Mentioned(q) == FlattenSeq([i \in DOMAIN q.params |-> Flat[q.params[i]]])
Needed(q) == ToSet(Mentioned(q))

Init ==
  /\ oid_map = [T \in Types |-> NoOid]
  /\ new_udts = <<>>
  /\ pc = "idle"
  /\ query \in Queries
  /\ sent = [T \in {} |-> NoOid]
  /\ outcome = "none"
  /\ registry = [T \in Types |-> NoOid]
  /\ next_oid = 1
  /\ txn = "none"
  /\ had = [T \in Types |-> {}]

-----------------------------------------------------------------------------
(* The connection *)

\* Those of s that are not in oid_map_, in order.
Unknown(s) ==
  FlattenSeq([i \in DOMAIN s |-> IF oid_map[s[i]] = NoOid THEN <<s[i]>> ELSE <<>>])

\* Variants named Wrong... are not part of Next.  Each is a slip this code
\* could have had, kept to show that a property below notices it.
WrongExtractTopLevel(q) == Unknown(q.params)

\* extract_new_udts: what is not in oid_map_ is appended, known or not to
\* new_udts_ already.
Extract(q) == Unknown(Mentioned(q))

\* detail::serialize with the Oids of map, then PQsend...
Send(q, map) ==
  /\ pc' = "running"
  /\ sent' = [T \in Needed(q) |-> map[T]]
  /\ UNCHANGED outcome

Fail(why) ==
  /\ pc' = "idle"
  /\ outcome' = why
  /\ UNCHANGED sent

\* async_query and async_query_prepared up to their first yield.
StartQuery(q) ==
  /\ pc = "idle"
  /\ Len(new_udts) <= MaxPending
  /\ query' = q
  /\ new_udts' = new_udts \o Extract(q)
  /\ IF new_udts' = <<>> THEN Send(q, oid_map)
     ELSE pc' = "asking" /\ UNCHANGED <<sent, outcome>>
  /\ UNCHANGED <<oid_map, server>>

\* A pipeline's push_query serializes with what is there; oid_map_.at throws
\* for a type that is not.
StartPipeline(q) ==
  /\ pc = "idle"
  /\ query' = q
  /\ IF \A T \in Needed(q) : oid_map[T] # NoOid
     THEN Send(q, oid_map)
     ELSE Fail("thrown")
  /\ UNCHANGED <<oid_map, new_udts, server>>

\* One row per name asked for, in the order of the names.
Rows == [i \in DOMAIN new_udts |->
          IF registry[new_udts[i]] = NoOid THEN InvalidOid ELSE registry[new_udts[i]]]

WrongGoodRowsUnchecked(rows) == Len(rows)

\* The rows read before the first one that has no Oid.
GoodRows(rows) ==
  LET bad == {i \in DOMAIN rows : rows[i] = InvalidOid}
  IN  IF bad = {} THEN Len(rows) ELSE Min(bad) - 1

WrongEmplaceSkipsKnown(rows) ==
  LET fresh == Unknown(new_udts)
  IN  [T \in Types |->
        LET at == {i \in 1 .. GoodRows(rows) : i <= Len(fresh) /\ fresh[i] = T}
        IN  IF oid_map[T] = NoOid /\ at # {} THEN rows[Min(at)] ELSE oid_map[T]]

WrongEmplaceOverwrites(rows) ==
  [T \in Types |->
    LET at == {i \in 1 .. GoodRows(rows) : new_udts[i] = T}
    IN  IF at # {} THEN rows[Min(at)] ELSE oid_map[T]]

\* oid_map_.emplace for every good row: an entry that exists is kept.
Emplace(rows) ==
  [T \in Types |->
    LET at == {i \in 1 .. GoodRows(rows) : new_udts[i] = T}
    IN  IF oid_map[T] = NoOid /\ at # {} THEN rows[Min(at)] ELSE oid_map[T]]

\* The answer to the Oid query, which a transaction in error refuses.
OidsReceived ==
  /\ pc = "asking"
  /\ txn # "aborted"
  /\ oid_map' = Emplace(Rows)
  /\ IF GoodRows(Rows) = Len(Rows)
     THEN Send(query, oid_map')
     ELSE Fail("user_defined_type_does_not_exist")
  /\ UNCHANGED <<new_udts, query, server>>

\* The Oid query itself fails: the query it was for is never sent.
OidsFailed ==
  /\ pc = "asking"
  /\ Fail("oid_query_failed")
  /\ txn' = IF txn = "none" THEN "none" ELSE "aborted"
  /\ UNCHANGED <<oid_map, new_udts, query, registry, next_oid, had>>

-----------------------------------------------------------------------------
(* The server (external) *)

\* Runs what was sent: ROLLBACK always works; anything else fails in a
\* transaction that is in error and may fail by itself otherwise.
Run(ok) ==
  /\ pc = "running"
  /\ pc' = "idle"
  /\ \/ /\ ok
        /\ query.verb = "end" \/ txn # "aborted"
        /\ outcome' = "ok"
        /\ txn' = CASE query.verb = "begin" -> "open"
                    [] query.verb = "end"   -> "none"
                    [] OTHER                -> txn
     \/ /\ ~ok
        /\ query.verb # "end"
        /\ outcome' = "server_error"
        /\ txn' = IF txn = "none" THEN "none" ELSE "aborted"
  /\ UNCHANGED <<oid_map, new_udts, query, sent, registry, next_oid, had>>

CreateType(T) ==
  /\ registry[T] = NoOid
  /\ next_oid \in Oids
  /\ registry' = [registry EXCEPT ![T] = next_oid]
  /\ had' = [had EXCEPT ![T] = @ \cup {next_oid}]
  /\ next_oid' = next_oid + 1
  /\ UNCHANGED <<client, txn>>

DropType(T) ==
  /\ registry[T] # NoOid
  /\ registry' = [registry EXCEPT ![T] = NoOid]
  /\ UNCHANGED <<client, next_oid, txn, had>>

Next ==
  \/ \E q \in Queries : StartQuery(q) \/ StartPipeline(q)
  \/ OidsReceived \/ OidsFailed
  \/ \E ok \in BOOLEAN : Run(ok)
  \/ \E T \in Types : CreateType(T) \/ DropType(T)

Spec == Init /\ [][Next]_vars

-----------------------------------------------------------------------------
TypeOK ==
  /\ oid_map \in [Types -> Oids \cup {NoOid}]
  /\ new_udts \in Seq(Types)
  /\ pc \in {"idle", "asking", "running"}
  /\ query \in Queries
  /\ DOMAIN sent \subseteq Types
  /\ registry \in [Types -> Oids \cup {NoOid}]
  /\ next_oid \in 1 .. (MaxOid + 1)
  /\ txn \in {"none", "open", "aborted"}
  /\ had \in [Types -> SUBSET Oids]

(* What is cached for a type is an Oid that this type has had, never the Oid
   of another one: the rows of the answer and the names of new_udts_ stay
   aligned although known and unknown names, repeated ones included, mix. *)
CacheTruthful == \A T \in Types : oid_map[T] # NoOid => oid_map[T] \in had[T]

(* When a query is sent, every type in its parameters, nested ones included,
   has its Oid: serialization never meets a type oid_map_ does not have. *)
SendComplete == pc = "running" => \A T \in Needed(query) : sent[T] # NoOid

(* A stored Oid is never replaced, whatever later answers say. *)
CacheStable ==
  [][\A T \in Types : oid_map[T] # NoOid => oid_map'[T] = oid_map[T]]_vars

(* "These Oids will be stored within the connection, eliminating the need
   for future queries to retrieve Oid values" (README.md): the server is asked
   only while at least one of the names to ask for has no Oid stored. *)
NoRefetch == pc = "asking" => \E T \in ToSet(new_udts) : oid_map[T] = NoOid

(* The error that says "No user-defined type with the given name was found on
   the server" (error.hpp) is about a type of the query that fails with it. *)
ErrorIsAboutTheQuery ==
  outcome = "user_defined_type_does_not_exist" /\ pc = "idle" => Needed(query) # {}
=============================================================================
