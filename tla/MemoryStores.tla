---------------------------- MODULE MemoryStores ----------------------------
(***************************************************************************)
(* What a store promises the trust flow: the IdentityStore and HistoryStore *)
(* traits of entangled-client/src/io.rs as their in-memory implementations  *)
(* carry them out, driven the way the traits' contract asks: every intent   *)
(* is Resolve's answer for the identity retained NOW, every record belongs   *)
(* to a manifest that passes the history checks NOW.  Each operation is one  *)
(* atomic step.  ClientSession, over files, implements this specification    *)
(* as long as no two windows share a site or a publisher.                    *)
(***************************************************************************)
EXTENDS Trust, PublisherHistory

VARIABLES
    retained,   \* retained[x]: MemoryIdentityStore.map
    replaced,   \* replaced[x]: MemoryIdentityStore.replaced, newest first
    accepted    \* accepted[p]: MemoryHistoryStore.map, newest first

storeVars == <<retained, replaced, accepted>>

StoreTypeOK ==
    /\ retained \in [Sites -> MaybeRetained]
    /\ replaced \in [Sites -> Seq(Publishers)]
    /\ accepted \in [Publishers -> Seq(Records)]

StoreInit ==
    /\ retained = [x \in Sites |-> Nothing]
    /\ replaced = [x \in Sites |-> <<>>]
    /\ accepted = [p \in Publishers |-> <<>>]

ReplacedAfter(keys, intent) ==
    IF intent.kind = "ReplaceIdentity" THEN <<intent.replaced>> \o keys ELSE keys

Apply(x, key, decision) ==
    LET intent == Resolve(key, retained[x], decision).intent
    IN  /\ retained' = [retained EXCEPT ![x] = RetainedAfter(@, intent)]
        /\ replaced' = [replaced EXCEPT ![x] = ReplacedAfter(@, intent)]
        /\ UNCHANGED accepted

AppendRecord(m) ==
    /\ CheckAgainstHistory(m, accepted[m.pub])
    /\ accepted' = [accepted EXCEPT ![m.pub] = Prepend(RecordFor(m), @)]
    /\ UNCHANGED <<retained, replaced>>

StoreNext ==
    \/ \E x \in Sites, key \in Publishers, decision \in UserDecisions :
          Apply(x, key, decision)
    \/ \E m \in Manifests : AppendRecord(m)

StoreSpec == StoreInit /\ [][StoreNext]_storeVars
=============================================================================
