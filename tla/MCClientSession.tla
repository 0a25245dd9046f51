-------------------------- MODULE MCClientSession --------------------------
(***************************************************************************)
(* Small instances of ClientSession.  Two publisher keys for one site, with  *)
(* manifests among which a downgrade, a conflict, a reused runtime key, next  *)
(* to its first use or further on, a refetch and a key change all occur.      *)
(***************************************************************************)
EXTENDS SessionRefinement, FiniteSets

LOCAL INSTANCE TLC

CONSTANTS k1, k2, x1, x2

Manifest(x, p, t, r, h) == [site |-> x, pub |-> p, issued |-> t, rk |-> r, hash |-> h]

\* One site, for windows that share it.
FewManifests ==
    { Manifest(x1, k1, 1, "r1", "a"), Manifest(x1, k1, 2, "r2", "b"),
      Manifest(x1, k2, 1, "r1", "e") }

\* Two sites of one publisher, so that they share a history.
TwoSites ==
    { Manifest(x1, k1, 1, "r1", "a"), Manifest(x1, k1, 2, "r2", "b"),
      Manifest(x2, k1, 2, "r3", "c"), Manifest(x2, k2, 1, "r1", "e") }

\* A site that changes its key and one that shares a history with it, for
\* windows that keep apart.
ApartManifests ==
    { Manifest(x1, k1, 1, "r1", "a"), Manifest(x1, k1, 2, "r2", "b"),
      Manifest(x1, k1, 3, "r1", "d"), Manifest(x1, k2, 1, "r1", "e"),
      Manifest(x2, k1, 2, "r1", "c") }

\* Windows whose store calls never overlap in time: what is left is only that
\* a window acts on the snapshot it loaded a while ago.
SerialNext == Next /\ Cardinality({w \in Windows : win'[w].pc \in PersistPoints}) <= 1
SerialSpec == Init /\ [][SerialNext]_vars

\* Windows that keep out of each other's way: only a launch can break that.
LaunchApart(w) ==
    /\ \E x \in Sites, m \in Manifests : Launch(w, x, m)
    /\ SitesApart' /\ PublishersApart'

ApartNext ==
    \E w \in Windows :
       \/ LaunchApart(w) \/ Progress(w) \/ Crash(w)
       \/ \E decision \in UserDecisions : Decide(w, decision)
       \/ Decline(w) \/ Quit(w)

ApartSpec == Init /\ [][ApartNext]_vars

\* The windows are interchangeable (only safety is checked under symmetry).
AnyWindow == Permutations(Windows)
=============================================================================
