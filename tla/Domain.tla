------------------------------- MODULE Domain -------------------------------
(***************************************************************************)
(* The values the client handles: sites (carrier addresses), publisher      *)
(* keys, and the manifests a site may serve.  A manifest is what the client  *)
(* reads of it: the origin it binds, its publisher, its canary (issue time   *)
(* and runtime key) and its payload hash.                                    *)
(***************************************************************************)
EXTENDS Integers, Sequences

CONSTANTS
    Sites,        \* carrier (onion) addresses
    Publishers,   \* publisher public keys
    Manifests,    \* the manifests sites may serve
    None          \* "no key", "no site", "no manifest"

ASSUME NoneAssumption == None \notin Sites \cup Publishers \cup Manifests

(* Equal hashes mean equal payloads. *)
ASSUME ManifestsAssumption ==
    /\ \A m \in Manifests :
          m.site \in Sites /\ m.pub \in Publishers /\ m.issued \in Nat
    /\ \A m, n \in Manifests : m.hash = n.hash => m = n
=============================================================================
