-------------------------- MODULE SessionRefinement --------------------------
(***************************************************************************)
(* The file-backed session implements the in-memory stores: each rewrite of *)
(* an identity file is one Apply of an intent resolved against what the      *)
(* store retains at that moment, each rewrite of a history file is one       *)
(* AppendRecord of a manifest that passes the checks at that moment, and all *)
(* other steps change nothing.                                               *)
(***************************************************************************)
EXTENDS SessionProperties

Store == INSTANCE MemoryStores WITH
    retained <- [x \in Sites |-> Retained(identities[x])],
    replaced <- [x \in Sites |-> identities[x].replaced],
    accepted <- histories

\* Windows that are apart by site and by publisher, under crashes and store
\* errors, keep the contract of the IdentityStore and HistoryStore traits (io.rs:
\* "apply afterwards to commit the PersistenceIntent the resolution produced").
\* A store upgraded from version 1 does not start empty, but takes the same steps.
ImplementsMemoryStores ==
    (~Legacy => Store!StoreInit) /\ [][Store!StoreNext]_<<Store!storeVars>>
=============================================================================
