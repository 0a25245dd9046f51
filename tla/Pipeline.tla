------------------------------ MODULE Pipeline ------------------------------
(***************************************************************************)
(* The validation driver of entangled-client/src/pipeline.rs and the chrome *)
(* model of entangled-client/src/chrome.rs: what a load makes of the bytes   *)
(* it was given, and what the chrome must show for it.  Both are pure.       *)
(*                                                                           *)
(* Fetched bytes are a record of what the stages of entangled-core find out  *)
(* about them.  The clock is fixed, so a canary state is one of these.       *)
(***************************************************************************)
EXTENDS Trust, PublisherHistory

CanaryStates == {"Fresh", "NearExpiration", "Expired", "Invalid", "Unavailable"}

(* What a link of a content document names; only the first two leave it. *)
LinkKinds == {"Carrier", "Citation", "SameSite", "Entangled"}

CONSTANTS Links,       \* links of content documents, [url, kind]
          RuntimeKeys  \* keys that may have signed a content document

ASSUME LinksAssumption ==
    /\ \A link \in Links : link.kind \in LinkKinds
    /\ \A m \in Manifests : m.rk \in RuntimeKeys

(* The manifest bytes, read, and the content document given with them. *)
Contents == [signer : RuntimeKeys, links : SUBSET Links]
Fetches(contents) ==
    [signed : BOOLEAN, canary : CanaryStates \ {"Unavailable"},
     content_root : BOOLEAN, content : contents \cup {None}]

----------------------------------------------------------------------------
(* verify_manifest: the first stage that fails.  The caller has no           *)
(* /content_index.json to give, so a manifest that declares content_root     *)
(* fails there.                                                              *)
VerifyManifest(m, fetch, site, history) ==
    IF ~fetch.signed THEN "Signature"
    ELSE IF fetch.canary = "Invalid" THEN "Canary"
    ELSE IF m.site # site THEN "Origin"
    ELSE IF fetch.content_root THEN "ContentIndex"
    ELSE IF ~CheckAgainstHistory(m, history) THEN "History"
    ELSE "Accept"

(* Fault variant: any valid signature will do for a content document. *)
FaultAnySigner(fetch, m) == "Accept"

(* verify_content, of the document given, if any. *)
VerifyContent(fetch, m) ==
    IF fetch.content # None /\ fetch.content.signer # m.rk THEN "Content" ELSE "Accept"

----------------------------------------------------------------------------
Conditions == {"CanaryConflict", "CanaryGap", "HistoricalContent",
               "StaleCachedContent", "RequestState"}

(* The viewer observes none of them: ChromeConditions::default. *)
DefaultConditions == {}

Warnings == (Conditions \ {"RequestState"})
            \cup {"TrustMismatch", "CanaryExpired", "CanaryInvalid"}

ChromeViews ==
    [trust_state : TrustStates, canary_state : CanaryStates,
     pip_must_be_fully_shown : BOOLEAN, warnings : SUBSET Warnings,
     request_state_active : BOOLEAN]

(* ChromeView::build. *)
Chrome(trust, canary, conditions) ==
    [trust_state |-> trust, canary_state |-> canary,
     pip_must_be_fully_shown |-> trust \in {"FirstContact", "ChangedMismatch"},
     warnings |->
        (conditions \ {"RequestState"})
        \cup {warning \in {"TrustMismatch", "CanaryExpired", "CanaryInvalid"} :
                 \/ warning = "TrustMismatch" /\ trust = "ChangedMismatch"
                 \/ warning = "CanaryExpired" /\ canary = "Expired"
                 \/ warning = "CanaryInvalid" /\ canary = "Invalid"},
     request_state_active |-> "RequestState" \in conditions]
=============================================================================
