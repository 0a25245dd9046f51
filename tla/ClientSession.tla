---------------------------- MODULE ClientSession ----------------------------
(***************************************************************************)
(* A client window from launch to exit, over the file-backed store: build,  *)
(* App::new, apply_and_persist and persist of entangled-client-gui, calling  *)
(* FileIdentityStore and FileHistoryStore of entangled-client-store.         *)
(*                                                                           *)
(* Windows are processes that share one store directory without a lock, so   *)
(* the read and the write of each file are separate actions: a write uses    *)
(* what an earlier action read.  A write itself is atomic (temporary file    *)
(* and rename).  A process may crash between any two actions and a store     *)
(* call may fail, when Faults says so.                                       *)
(***************************************************************************)
EXTENDS Trust, PublisherHistory

CONSTANTS
    Windows,      \* client processes sharing the store directory
    Faults,       \* subset of {"crash", "io"}
    Legacy,       \* may the store have been written by the version 1 client?
    MaxHistory,   \* bound: decisions stop once a history has this many records
    MaxReplaced   \* bound: ... or a site has this many replaced keys

ASSUME ClientAssumption ==
    /\ Faults \subseteq {"crash", "io"} /\ Legacy \in BOOLEAN
    /\ MaxHistory \in Nat /\ MaxReplaced \in Nat

VARIABLES
    identities,   \* identities[x]: the file identities/<x>.json
    histories,    \* histories[p]: the file history/<p>.json (empty when missing)
    win,          \* win[w]: the state of a client process
    everRetained, \* history variable: the keys a site's file has ever held
    everAccepted  \* history variable: the manifests some window accepted

vars == <<identities, histories, win, everRetained, everAccepted>>

----------------------------------------------------------------------------
(* IdentityDto; NoFile is the missing file.  A version 1 record has a flag,  *)
(* externally_verified, where version 2 has the provenance.                  *)
LegacyProvenances == {"V1", "V1ExternallyVerified"}
IdentityFile(key, provenance, keys) ==
    [pubkey |-> key, provenance |-> provenance, replaced |-> keys]
NoFile == IdentityFile(None, "Absent", <<>>)
IdentityFiles ==
    {NoFile} \cup [pubkey : Publishers, provenance : Provenances \cup LegacyProvenances,
                   replaced : Seq(Publishers)]

DecodeProvenance(provenance) ==
    IF provenance = "V1" THEN "Pinned"
    ELSE IF provenance = "V1ExternallyVerified" THEN "ExternallyVerified"
    ELSE provenance

(* IdentityDto::to_identity. *)
Retained(file) == Identity(file.pubkey, DecodeProvenance(file.provenance))

(* Fault variants: a pin is written over any record; over none. *)
FaultPinOverwrites(file, intent) ==
    intent.kind # "None" /\ (intent.kind = "RecordObservation" => file = NoFile)

FaultPinNeverUpgrades(file, intent) ==
    /\ intent.kind # "None"
    /\ intent.kind \in {"RecordObservation", "PinIdentity"} => file = NoFile

(* Whether FileIdentityStore::apply goes on to write, given the file it read. *)
StoreWrites(file, intent) ==
    /\ intent.kind # "None"
    /\ intent.kind = "RecordObservation" => file = NoFile
    /\ intent.kind = "PinIdentity" =>
          file = NoFile \/ Retained(file).provenance = "Observed"

(* The provenance of the record an intent creates. *)
ProvenanceOf(intent) ==
    IF intent.kind = "RecordObservation" THEN "Observed"
    ELSE IF intent.kind = "MarkExternallyVerified" \/ intent.externally_verified
    THEN "ExternallyVerified" ELSE "Pinned"

(* Fault variants: a replacement forgets the old key; every write pushes one. *)
FaultReplaceForgets(file, intent) ==
    IdentityFile(intent.pubkey, ProvenanceOf(intent), file.replaced)

FaultAlwaysPushes(file, intent) ==
    IdentityFile(intent.pubkey, ProvenanceOf(intent), <<intent.replaced>> \o file.replaced)

(* The file it then writes. *)
FileAfter(file, intent) ==
    IdentityFile(intent.pubkey, ProvenanceOf(intent),
        IF intent.kind = "RecordObservation" THEN <<>>
        ELSE IF intent.kind = "ReplaceIdentity" THEN <<intent.replaced>> \o file.replaced
        ELSE file.replaced)

----------------------------------------------------------------------------
IdleWindow ==
    [pc |-> "idle", site |-> None, manifest |-> None, retained |-> Nothing,
     shown |-> "FirstContact", required |-> "None", prompt |-> "None", warned |-> None,
     decision |-> "None", intent |-> NoIntent, file |-> NoFile, log |-> <<>>,
     failed |-> FALSE]

(* The program points of persist, in order; "open" is the drawn window. *)
PersistPoints == {"identityRead", "identityWrite", "historyRead", "historyWrite", "reload"}
ProgramPoints == {"idle", "loading", "open"} \cup PersistPoints

WindowStates ==
    [pc : ProgramPoints, site : Sites \cup {None}, manifest : Manifests \cup {None},
     retained : MaybeRetained, shown : TrustStates, required : RequiredActions,
     prompt : RequiredActions, warned : Publishers \cup {None},
     decision : UserDecisions, intent : PersistenceIntents,
     file : IdentityFiles, log : Seq(Records), failed : BOOLEAN]

(* What the version 1 client may have left: for some sites, the record of a  *)
(* publisher pinned or verified on accepting past[x], and that manifest in    *)
(* the publisher's history.  Bound: no two of them share the publisher.      *)
Pasts ==
    {past \in [Sites -> Manifests \cup {None}] :
        /\ \A x \in Sites : past[x] # None => Legacy /\ past[x].site = x
        /\ \A x, y \in Sites :
              past[x] # None /\ past[y] # None /\ past[x].pub = past[y].pub => x = y}

InitFrom(past) ==
    LET upgraded == {x \in Sites : past[x] # None} IN
    /\ \E flag \in [Sites -> LegacyProvenances] :
          identities = [x \in Sites |->
             IF x \in upgraded THEN IdentityFile(past[x].pub, flag[x], <<>>) ELSE NoFile]
    /\ histories = [p \in Publishers |->
          IF \E x \in upgraded : past[x].pub = p
          THEN <<RecordFor(past[CHOOSE x \in upgraded : past[x].pub = p])>> ELSE <<>>]
    /\ win = [w \in Windows |-> IdleWindow]
    /\ everRetained = [x \in Sites |-> IF x \in upgraded THEN {past[x].pub} ELSE {}]
    /\ everAccepted = {past[x] : x \in upgraded}

Init == \E past \in Pasts : InitFrom(past)

(* build: the manifest is fetched and the site's retained identity loaded. *)
Launch(w, x, m) ==
    /\ win[w].pc = "idle"
    /\ win' = [win EXCEPT ![w] = [IdleWindow EXCEPT
                 !.pc = "loading", !.site = x, !.manifest = m,
                 !.retained = Retained(identities[x])]]
    /\ UNCHANGED <<identities, histories, everRetained, everAccepted>>

(* persist with the None intent touches no file. *)
PersistFrom(intent) == IF intent = NoIntent THEN "reload" ELSE "identityRead"

(* The rest of build and the start of App::new: the publisher's history is   *)
(* read, verify_manifest and verify_content accept, trust is resolved with   *)
(* no decision and the prompt it calls for is opened; a mismatch dialog is    *)
(* made once, with the PIP of the key retained at this moment (warned).       *)
LoadAccepted(w) ==
    LET v == win[w]
        m == v.manifest
        resolution == Resolve(m.pub, v.retained, "None")
    IN  /\ v.pc = "loading"
        /\ m.site = v.site
        /\ CheckAgainstHistory(m, histories[m.pub])
        /\ win' = [win EXCEPT ![w] = [v EXCEPT
                     !.pc = PersistFrom(resolution.intent),
                     !.shown = resolution.state,
                     !.required = resolution.action,
                     !.prompt = resolution.action,
                     !.warned = IF resolution.action = "MismatchWarning"
                                THEN v.retained.pubkey ELSE None,
                     !.intent = resolution.intent]]
        /\ everAccepted' = everAccepted \cup {m}
        /\ UNCHANGED <<identities, histories, everRetained>>

(* A stage rejects, or a file cannot be read: the process exits. *)
LoadRejected(w) ==
    /\ win[w].pc = "loading"
    /\ win' = [win EXCEPT ![w] = IdleWindow]
    /\ UNCHANGED <<identities, histories, everRetained, everAccepted>>

(* Fault variant: a replacement removes the old file before it writes. *)
FaultRemovesFirst(w) ==
    LET v == win[w]
        file == identities[v.site]
    IN  /\ v.pc = "identityRead"
        /\ win' = [win EXCEPT ![w] =
              IF StoreWrites(file, v.intent)
              THEN [v EXCEPT !.pc = "identityWrite", !.file = file]
              ELSE [v EXCEPT !.pc = "historyRead"]]
        /\ identities' = [identities EXCEPT ![v.site] =
              IF v.intent.kind = "ReplaceIdentity" THEN NoFile ELSE @]
        /\ UNCHANGED <<histories, everRetained, everAccepted>>

(* FileIdentityStore::apply reads the site's file ... *)
ReadIdentity(w) ==
    LET v == win[w]
        file == identities[v.site]
    IN  /\ v.pc = "identityRead"
        /\ win' = [win EXCEPT ![w] =
              IF StoreWrites(file, v.intent)
              THEN [v EXCEPT !.pc = "identityWrite", !.file = file]
              ELSE [v EXCEPT !.pc = "historyRead"]]
        /\ UNCHANGED <<identities, histories, everRetained, everAccepted>>

(* Fault variant: an observation returns before the history append. *)
FaultObservationOnly(w) ==
    LET v == win[w]
        file == FileAfter(v.file, v.intent)
    IN  /\ v.pc = "identityWrite"
        /\ identities' = [identities EXCEPT ![v.site] = file]
        /\ everRetained' = [everRetained EXCEPT ![v.site] = @ \cup {file.pubkey}]
        /\ win' = [win EXCEPT ![w] = [v EXCEPT !.file = NoFile,
                     !.pc = IF v.intent.kind = "RecordObservation"
                            THEN "reload" ELSE "historyRead"]]
        /\ UNCHANGED <<histories, everAccepted>>

(* ... and replaces it. *)
WriteIdentity(w) ==
    LET v == win[w]
        file == FileAfter(v.file, v.intent)
    IN  /\ v.pc = "identityWrite"
        /\ identities' = [identities EXCEPT ![v.site] = file]
        /\ everRetained' = [everRetained EXCEPT ![v.site] = @ \cup {file.pubkey}]
        /\ win' = [win EXCEPT ![w] = [v EXCEPT !.pc = "historyRead", !.file = NoFile]]
        /\ UNCHANGED <<histories, everAccepted>>

(* FileHistoryStore::append_record reads the publisher's file ... *)
ReadHistory(w) ==
    LET v == win[w]
    IN  /\ v.pc = "historyRead"
        /\ win' = [win EXCEPT ![w] = [v EXCEPT
                     !.pc = "historyWrite", !.log = histories[v.intent.pubkey]]]
        /\ UNCHANGED <<identities, histories, everRetained, everAccepted>>

(* Fault variant: the existing records are not read back. *)
FaultAppendOverwrites(w) ==
    LET v == win[w]
    IN  /\ v.pc = "historyWrite"
        /\ histories' = [histories EXCEPT
                ![v.intent.pubkey] = Prepend(RecordFor(v.manifest), <<>>)]
        /\ win' = [win EXCEPT ![w] = [v EXCEPT !.pc = "reload", !.log = <<>>]]
        /\ UNCHANGED <<identities, everRetained, everAccepted>>

(* Fault variant: the record goes to the history of the replaced key. *)
FaultAppendUnderOldKey(w) ==
    LET v == win[w]
        key == IF v.intent.kind = "ReplaceIdentity" THEN v.intent.replaced ELSE v.intent.pubkey
    IN  /\ v.pc = "historyWrite"
        /\ histories' = [histories EXCEPT ![key] = Prepend(RecordFor(v.manifest), v.log)]
        /\ win' = [win EXCEPT ![w] = [v EXCEPT !.pc = "reload", !.log = <<>>]]
        /\ UNCHANGED <<identities, everRetained, everAccepted>>

(* ... and replaces it, the new record first. *)
WriteHistory(w) ==
    LET v == win[w]
    IN  /\ v.pc = "historyWrite"
        /\ histories' = [histories EXCEPT
                ![v.intent.pubkey] = Prepend(RecordFor(v.manifest), v.log)]
        /\ win' = [win EXCEPT ![w] = [v EXCEPT !.pc = "reload", !.log = <<>>]]
        /\ UNCHANGED <<identities, everRetained, everAccepted>>

(* A store call of persist fails: the rest of persist is skipped and a line  *)
(* goes to standard error.                                                   *)
PersistFails(w) ==
    /\ "io" \in Faults
    /\ win[w].pc \in PersistPoints \ {"reload"}
    /\ win' = [win EXCEPT ![w].pc = "reload", ![w].failed = TRUE,
                          ![w].file = NoFile, ![w].log = <<>>]
    /\ UNCHANGED <<identities, histories, everRetained, everAccepted>>

(* What loading the site's identity gives: its record, or the old snapshot   *)
(* when the read fails.                                                      *)
Snapshots(v) ==
    {Retained(identities[v.site])} \cup {old \in {v.retained} : "io" \in Faults}

(* Fault variant: a decision leaves its prompt open. *)
FaultPromptStays(w) ==
    LET v == win[w]
    IN  /\ v.pc = "reload"
        /\ \E snapshot \in Snapshots(v) :
              win' = [win EXCEPT ![w] = [v EXCEPT !.pc = "open", !.retained = snapshot]]
        /\ UNCHANGED <<identities, histories, everRetained, everAccepted>>

(* The retained snapshot is read again; after a decision the prompt closes.  *)
Reload(w) ==
    LET v == win[w]
    IN  /\ v.pc = "reload"
        /\ \E snapshot \in Snapshots(v) :
              win' = [win EXCEPT ![w] = [v EXCEPT
                        !.pc = "open", !.retained = snapshot,
                        !.prompt = IF v.decision = "None" THEN @ ELSE "None"]]
        /\ UNCHANGED <<identities, histories, everRetained, everAccepted>>

(* The affirmative buttons of the panel the prompt opens. *)
Offered(prompt) ==
    IF prompt = "PinPrompt" THEN {"PinFirstContact", "ConfirmPip"}
    ELSE IF prompt = "MismatchWarning" THEN {"ConfirmNewIdentity", "ConfirmPip"}
    ELSE {}

Room(w) ==
    /\ \A p \in Publishers : Len(histories[p]) < MaxHistory
    /\ Len(identities[win[w].site].replaced) < MaxReplaced

(* The user answers: apply_decision resolves again, from the snapshot, and   *)
(* the chrome shows the new state before anything is persisted.              *)
Decide(w, decision) ==
    LET v == win[w]
        resolution == Resolve(v.manifest.pub, v.retained, decision)
    IN  /\ v.pc = "open"
        /\ decision \in Offered(v.prompt)
        /\ Room(w)
        /\ win' = [win EXCEPT ![w] = [v EXCEPT
                     !.pc = PersistFrom(resolution.intent),
                     !.shown = resolution.state,
                     !.required = resolution.action,
                     !.intent = resolution.intent,
                     !.decision = decision,
                     !.failed = FALSE]]
        /\ UNCHANGED <<identities, histories, everRetained, everAccepted>>

(* "Not now" and "Cancel": the panel closes, nothing is persisted. *)
Decline(w) ==
    /\ win[w].pc = "open"
    /\ win[w].prompt # "None"
    /\ win' = [win EXCEPT ![w].prompt = "None"]
    /\ UNCHANGED <<identities, histories, everRetained, everAccepted>>

(* The window is closed. *)
Quit(w) ==
    /\ win[w].pc = "open"
    /\ win' = [win EXCEPT ![w] = IdleWindow]
    /\ UNCHANGED <<identities, histories, everRetained, everAccepted>>

(* The process dies between two file operations. *)
Crash(w) ==
    /\ "crash" \in Faults
    /\ win[w].pc \in PersistPoints
    /\ win' = [win EXCEPT ![w] = IdleWindow]
    /\ UNCHANGED <<identities, histories, everRetained, everAccepted>>

(* What the process does by itself, without the user. *)
Progress(w) ==
    \/ LoadAccepted(w) \/ LoadRejected(w)
    \/ ReadIdentity(w) \/ WriteIdentity(w)
    \/ ReadHistory(w) \/ WriteHistory(w) \/ PersistFails(w)
    \/ Reload(w)

User(w) ==
    \/ \E x \in Sites, m \in Manifests : Launch(w, x, m)
    \/ \E decision \in UserDecisions : Decide(w, decision)
    \/ Decline(w) \/ Quit(w)

Next == \E w \in Windows : Progress(w) \/ User(w) \/ Crash(w)

Spec == Init /\ [][Next]_vars

(* A launched process runs to its next user interaction. *)
Fairness == \A w \in Windows : WF_vars(Progress(w))
FairSpec == Spec /\ Fairness
=============================================================================
