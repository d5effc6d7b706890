----------------------------- MODULE PoolContract -----------------------------
(***************************************************************************)
(* What the connection pool promises its callers, without its queue of     *)
(* connections, its timer, its lock and its lifetime: a semaphore whose    *)
(* limit can be changed.  "If the number of acquired connections reaches   *)
(* the max_size, this operation will wait until a connection is returned   *)
(* to the connection pool" (README.md).                                    *)
(***************************************************************************)
EXTENDS Naturals, FiniteSets

CONSTANTS Tasks, Sizes

VARIABLES
  limit,     \* the current maximum
  holders,   \* the tasks whose acquire was let through and not yet returned
  waiting    \* the tasks whose acquire waits

cvars == <<limit, holders, waiting>>

Room == Cardinality(holders) < limit

Init ==
  /\ limit \in Sizes
  /\ holders = {}
  /\ waiting = {}

\* An acquire is let through at once if there is room; else it waits.
Request(t) ==
  /\ t \notin holders \cup waiting
  /\ IF Room
     THEN holders' = holders \cup {t} /\ UNCHANGED waiting
     ELSE waiting' = waiting \cup {t} /\ UNCHANGED holders
  /\ UNCHANGED limit

\* A waiter gets a slot; which one is not promised.
Grant(t) ==
  /\ t \in waiting
  /\ Room
  /\ holders' = holders \cup {t}
  /\ waiting' = waiting \ {t}
  /\ UNCHANGED limit

\* A cancelled waiter fails only while there is no slot for it.
Abandon(t) ==
  /\ t \in waiting
  /\ ~Room
  /\ waiting' = waiting \ {t}
  /\ UNCHANGED <<limit, holders>>

Return(t) ==
  /\ t \in holders
  /\ holders' = holders \ {t}
  /\ UNCHANGED <<limit, waiting>>

\* A lower limit evicts nobody.
Resize(v) ==
  /\ limit' = v
  /\ UNCHANGED <<holders, waiting>>

Next ==
  \/ \E t \in Tasks : Request(t) \/ Grant(t) \/ Abandon(t) \/ Return(t)
  \/ \E v \in Sizes : Resize(v)

Safety == Init /\ [][Next]_cvars

\* A slot does not stay free for ever while somebody waits for one.
Spec == Safety /\ WF_cvars(\E t \in Tasks : Grant(t))
=============================================================================
