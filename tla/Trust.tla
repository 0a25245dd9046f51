------------------------------- MODULE Trust -------------------------------
(***************************************************************************)
(* The publisher-identity trust machine of entangled-client/src/trust.rs.  *)
(* It is pure: Resolve maps the key a verified manifest presents, what is   *)
(* retained for the site and the user's decision to the trust state to      *)
(* show, the action the chrome must demand and the intent to persist.       *)
(* RetainedAfter is what every store does with that intent, and             *)
(* TrustDiagnostic the code the resolution surfaces.                        *)
(***************************************************************************)

EXTENDS Domain

TrustStates ==
    {"FirstContact", "TofuPinned", "ExternallyVerified", "ChangedMismatch"}

Provenances == {"Observed", "Pinned", "ExternallyVerified"}

UserDecisions ==
    {"None", "PinFirstContact", "ConfirmPip", "ConfirmNewIdentity", "RejectNewIdentity"}

RequiredActions == {"None", "PinPrompt", "MismatchWarning"}

(* Option<RetainedIdentity>: Nothing is the absent record. *)
Nothing == [pubkey |-> None, provenance |-> "Absent"]
RetainedIdentity == [pubkey : Publishers, provenance : Provenances]
MaybeRetained == {Nothing} \cup RetainedIdentity

(* PersistenceIntent, one shape for its five variants. *)
Intent(kind, key, old, verified) ==
    [kind |-> kind, pubkey |-> key, replaced |-> old, externally_verified |-> verified]

NoIntent == Intent("None", None, None, FALSE)
Intend(kind, key) == Intent(kind, key, None, FALSE)
IntendReplace(key, old, verified) == Intent("ReplaceIdentity", key, old, verified)

PersistenceIntents ==
    {NoIntent}
    \cup [kind : {"RecordObservation", "PinIdentity", "MarkExternallyVerified"},
          pubkey : Publishers, replaced : {None}, externally_verified : {FALSE}]
    \cup [kind : {"ReplaceIdentity"},
          pubkey : Publishers, replaced : Publishers, externally_verified : BOOLEAN]

Resolution(state, action, intent) ==
    [state |-> state, action |-> action, intent |-> intent]

----------------------------------------------------------------------------
(* Fault variant: a first contact pins without being asked to. *)
FaultPassivePin(presented, decision) ==
    IF decision = "ConfirmPip"
    THEN Resolution("ExternallyVerified", "None",
                    Intend("MarkExternallyVerified", presented))
    ELSE Resolution("TofuPinned", "None", Intend("PinIdentity", presented))

(* No record for the site: first contact, never a passive pin. *)
ResolveFirstContact(presented, decision) ==
    IF decision = "ConfirmPip"
    THEN Resolution("ExternallyVerified", "None",
                    Intend("MarkExternallyVerified", presented))
    ELSE IF decision = "PinFirstContact"
    THEN Resolution("TofuPinned", "None", Intend("PinIdentity", presented))
    ELSE Resolution("FirstContact", "PinPrompt", Intend("RecordObservation", presented))

(* The state a provenance stands for when the decision changes nothing. *)
StateOfProvenance(provenance) ==
    [Observed |-> "FirstContact", Pinned |-> "TofuPinned",
     ExternallyVerified |-> "ExternallyVerified"][provenance]

(* The presented key is the retained one. *)
ResolveMatched(presented, retained, decision) ==
    IF decision = "ConfirmPip" /\ retained.provenance # "ExternallyVerified"
    THEN Resolution("ExternallyVerified", "None",
                    Intend("MarkExternallyVerified", presented))
    ELSE IF decision = "PinFirstContact" /\ retained.provenance = "Observed"
    THEN Resolution("TofuPinned", "None", Intend("PinIdentity", presented))
    ELSE Resolution(StateOfProvenance(retained.provenance),
                    IF retained.provenance = "Observed" THEN "PinPrompt" ELSE "None",
                    NoIntent)

(* Fault variant: an unanswered mismatch warning adopts the presented key. *)
FaultMismatchAdoptsNewKey(presented, retained, decision) ==
    Resolution("FirstContact", "MismatchWarning",
               IntendReplace(presented, retained.pubkey, FALSE))

(* The presented key is not the retained one. *)
ResolveMismatch(presented, retained, decision) ==
    IF decision = "ConfirmNewIdentity"
    THEN Resolution("FirstContact", "None",
                    IntendReplace(presented, retained.pubkey, FALSE))
    ELSE IF decision = "ConfirmPip"
    THEN Resolution("ExternallyVerified", "None",
                    IntendReplace(presented, retained.pubkey, TRUE))
    ELSE Resolution("ChangedMismatch",
                    IF decision = "RejectNewIdentity" THEN "None" ELSE "MismatchWarning",
                    NoIntent)

Resolve(presented, retained, decision) ==
    IF retained = Nothing
    THEN ResolveFirstContact(presented, decision)
    ELSE IF retained.pubkey = presented
         THEN ResolveMatched(presented, retained, decision)
         ELSE ResolveMismatch(presented, retained, decision)

----------------------------------------------------------------------------
Identity(key, provenance) == [pubkey |-> key, provenance |-> provenance]

(* The record an intent leaves behind where `old` was retained. *)
RetainedAfter(old, intent) ==
    IF \/ intent.kind = "None"
       \/ intent.kind = "RecordObservation" /\ old # Nothing
       \/ intent.kind = "PinIdentity" /\ old # Nothing /\ old.provenance # "Observed"
    THEN old
    ELSE IF intent.kind = "RecordObservation" THEN Identity(intent.pubkey, "Observed")
    ELSE IF intent.kind = "MarkExternallyVerified" \/ intent.externally_verified
    THEN Identity(intent.pubkey, "ExternallyVerified")
    ELSE Identity(intent.pubkey, "Pinned")

----------------------------------------------------------------------------
(* The section 11 codes; "NoDiagnostic" is the absent one. *)
TransitionCodes == {"I_TRUST_FIRST_CONTACT", "I_TRUST_TOFU_PINNED", "I_TRUST_VERIFIED"}

(* Fault variant: every visit that ends as a first contact reports one. *)
FaultReportsRevisits(resolution, decision) ==
    CASE resolution.state = "ChangedMismatch" ->
            IF decision = "RejectNewIdentity" THEN "E_TRUST_USER_REJECTED" ELSE "E_TRUST_MISMATCH"
      [] resolution.state = "FirstContact" -> "I_TRUST_FIRST_CONTACT"
      [] resolution.state = "TofuPinned" /\ resolution.intent.kind = "PinIdentity" ->
            "I_TRUST_TOFU_PINNED"
      [] resolution.state = "ExternallyVerified" /\ resolution.intent # NoIntent ->
            "I_TRUST_VERIFIED"
      [] OTHER -> "NoDiagnostic"

TrustDiagnostic(resolution, decision) ==
    LET kind == resolution.intent.kind IN
    CASE resolution.state = "ChangedMismatch" ->
            IF decision = "RejectNewIdentity" THEN "E_TRUST_USER_REJECTED" ELSE "E_TRUST_MISMATCH"
      [] resolution.state = "FirstContact" /\ kind \in {"RecordObservation", "ReplaceIdentity"} ->
            "I_TRUST_FIRST_CONTACT"
      [] resolution.state = "TofuPinned" /\ kind = "PinIdentity" -> "I_TRUST_TOFU_PINNED"
      [] /\ resolution.state = "ExternallyVerified"
         /\ \/ kind = "MarkExternallyVerified"
            \/ kind = "ReplaceIdentity" /\ resolution.intent.externally_verified ->
            "I_TRUST_VERIFIED"
      [] OTHER -> "NoDiagnostic"
=============================================================================
