--------------------------- MODULE MCConnectionPool ---------------------------
(* Small instances of ConnectionPool. *)
EXTENDS ConnectionPool

\* Tasks are interchangeable, and so are sessions, for state properties.
Symmetry == Permutations(Tasks) \cup Permutations(Conns)
=============================================================================
