---------------------------- MODULE MCOrderSync ----------------------------
(* OrderSync on small instances.  Orders and processes are interchangeable:  *)
(* the safety runs use their permutations as symmetry.                       *)
EXTENDS OrderSyncProps, TLC

Symmetry == Permutations(Orders) \cup Permutations(Procs)
=============================================================================
