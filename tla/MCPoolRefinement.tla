--------------------------- MODULE MCPoolRefinement ---------------------------
(* ConnectionPool implements PoolContract, fairness included. *)
EXTENDS ConnectionPool

(* The tasks let through are the counted ones; the abstract limit is
   max_size.  The counter aquired_conns is not mentioned: that the code's test
   of the counter agrees with the number of holders is part of what is shown. *)
Contract == INSTANCE PoolContract WITH
  limit   <- max_size,
  holders <- In(Counted),
  waiting <- In(Waiting)

(* The pool is a fair resizable semaphore in the sense of PoolContract. *)
ImplementsContract == Contract!Spec
=============================================================================
