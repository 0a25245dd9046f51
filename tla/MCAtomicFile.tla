---------------------------- MODULE MCAtomicFile ----------------------------
(***************************************************************************)
(* A small instance of AtomicFile: two processes that both write and read.   *)
(***************************************************************************)
EXTENDS AtomicFile

LOCAL INSTANCE TLC

Interchangeable ==
    Permutations(Procs) \cup Permutations(Values)
        \cup Permutations(Nonces) \cup Permutations(Inodes)
=============================================================================
