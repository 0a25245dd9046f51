---------------------------- MODULE MCStoreRoot ----------------------------
(***************************************************************************)
(* Small instances of StoreRoot: two files, two processes.                   *)
(***************************************************************************)
EXTENDS StoreRoot

LOCAL INSTANCE TLC

Interchangeable ==
    Permutations(Procs) \cup Permutations(Secrets) \cup Permutations(Files)
        \cup Permutations(Passphrases)
=============================================================================
