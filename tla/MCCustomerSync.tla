--------------------------- MODULE MCCustomerSync ---------------------------
(* CustomerSync on small instances; workers are interchangeable.             *)
EXTENDS CustomerSyncProps, TLC

SymmetryProcs == Permutations(Procs) \cup Permutations(Emails)
=============================================================================
