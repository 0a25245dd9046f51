------------------------------ MODULE MCViewer ------------------------------
(* One window; a site that changes its publisher key, and another whose     *)
(* manifest it may serve; content documents signed by either runtime key,   *)
(* with a link of each kind that matters.                                   *)
EXTENDS Viewer

CONSTANTS k1, k2, x1, x2

Manifest(x, p, t, r, h) == [site |-> x, pub |-> p, issued |-> t, rk |-> r, hash |-> h]

MCManifests ==
    {Manifest(x1, k1, 1, "r1", "a"), Manifest(x1, k2, 1, "r2", "b"),
     Manifest(x2, k1, 2, "r2", "c")}

Link(url, kind) == [url |-> url, kind |-> kind]
MCLinks == {Link("u1", "Carrier"), Link("u2", "Citation"), Link("u3", "SameSite")}

MCContents == {[signer |-> r, links |-> MCLinks] : r \in {"r1", "r2"}}
=============================================================================
