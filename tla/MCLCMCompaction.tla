--------------------------- MODULE MCLCMCompaction ---------------------------
(* Small instances of LCMCompaction: threads that share one process, and    *)
(* threads that are each a process of their own (a process is named by one  *)
(* of its threads, so permuting the threads permutes the processes).        *)
EXTENDS LCMCompaction, TLC

CONSTANTS t1, t2

OneProcess == [t \in Threads |-> t1]
OwnProcess == [t \in Threads |-> t]

Symmetry == Permutations(Threads)
=============================================================================
