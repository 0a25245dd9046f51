---------------------------- MODULE SessionProofs ----------------------------
(***************************************************************************)
(* Theorems about any number of windows, sites, keys and manifests, under   *)
(* crashes and store errors at every step.                                   *)
(*                                                                           *)
(* WindowInv strengthens the properties to an inductive invariant: what a    *)
(* window holds between two of its steps (the intent it is persisting, the   *)
(* file and the records it has read) is still what its own manifest and      *)
(* decision justify, whatever the other windows did in between.              *)
(***************************************************************************)
EXTENDS SessionProperties, SequenceTheorems, TLAPS

\* The decision behind an intent.
Justified(v) ==
    /\ v.intent # NoIntent => v.intent.pubkey = v.manifest.pub
    /\ v.intent.kind = "PinIdentity" => v.decision = "PinFirstContact"
    /\ v.intent.kind = "MarkExternallyVerified" => v.decision = "ConfirmPip"
    /\ v.intent.kind = "ReplaceIdentity" /\ v.intent.externally_verified =>
          v.decision = "ConfirmPip"
    /\ v.intent.kind = "ReplaceIdentity" /\ ~v.intent.externally_verified =>
          v.decision = "ConfirmNewIdentity"

AcceptedRecords(p) == {RecordFor(m) : m \in {n \in everAccepted : n.pub = p}}

WindowOK(w) ==
    LET v == win[w] IN
    /\ v.pc # "idle" => v.site \in Sites /\ v.manifest \in Manifests
    /\ v.pc \notin {"idle", "loading"} =>
          v.manifest \in everAccepted /\ v.manifest.site = v.site
    /\ v.pc \in PersistPoints \ {"reload"} =>
          /\ v.intent # NoIntent
          /\ v.intent.kind = "RecordObservation" => v.retained = Nothing
    /\ v.pc # "idle" => Justified(v)

WindowInv == \A w \in Windows : WindowOK(w)

LogRecorded(w) ==
    win[w].pc = "historyWrite" =>
       \A p \in Publishers :
          p = win[w].intent.pubkey => win[w].log \in Seq(AcceptedRecords(p))

Recorded ==
    /\ \A p \in Publishers : histories[p] \in Seq(AcceptedRecords(p))
    /\ \A w \in Windows : LogRecorded(w)

IInv == TypeOK /\ WindowInv /\ Recorded

----------------------------------------------------------------------------
\* A record put in front of a sequence: the type, the length, the elements.
LEMMA PrependProperties ==
    ASSUME NEW S, NEW e \in S, NEW seq \in Seq(S)
    PROVE  /\ <<e>> \o seq \in Seq(S)
           /\ Len(<<e>> \o seq) = Len(seq) + 1
           /\ \A i \in 1 .. Len(seq) + 1 :
                 (<<e>> \o seq)[i] = IF i = 1 THEN e ELSE seq[i - 1]
<1>1. <<e>> \in Seq(S) /\ Len(<<e>>) = 1 /\ <<e>>[1] = e
  OBVIOUS
<1>2. Len(seq) \in Nat
  BY LenProperties
<1>3. QED
  BY <1>1, <1>2, ConcatProperties

\* An intent names a publisher unless it is the None intent.
LEMMA IntentShape ==
    ASSUME NEW intent \in PersistenceIntents, intent # NoIntent
    PROVE  /\ intent.kind \in {"RecordObservation", "PinIdentity",
                               "MarkExternallyVerified", "ReplaceIdentity"}
           /\ intent.pubkey \in Publishers
           /\ intent.kind = "ReplaceIdentity" => intent.replaced \in Publishers
           /\ intent.externally_verified => intent.kind = "ReplaceIdentity"
  BY DEF PersistenceIntents

\* Resolve answers with a state, an action and an intent; the intent is for
\* the presented key and claims no more than the decision said.
LEMMA ResolveType ==
    ASSUME NEW presented \in Publishers, NEW retained \in MaybeRetained,
           NEW decision \in UserDecisions
    PROVE  LET r == Resolve(presented, retained, decision)
           IN  /\ r.state \in TrustStates
               /\ r.action \in RequiredActions
               /\ r.intent \in PersistenceIntents
               /\ r.intent # NoIntent => r.intent.pubkey = presented
               /\ r.intent.kind = "PinIdentity" => decision = "PinFirstContact"
               /\ r.intent.kind = "MarkExternallyVerified" => decision = "ConfirmPip"
               /\ r.intent.kind = "ReplaceIdentity" =>
                     decision \in {"ConfirmPip", "ConfirmNewIdentity"}
               /\ r.intent.kind = "ReplaceIdentity" /\ r.intent.externally_verified =>
                     decision = "ConfirmPip"
               /\ r.intent.kind = "ReplaceIdentity" /\ ~r.intent.externally_verified =>
                     decision = "ConfirmNewIdentity"
               /\ r.intent.kind = "RecordObservation" => retained = Nothing
<1>1. CASE retained = Nothing
  BY <1>1 DEF Resolve, ResolveFirstContact, Resolution, TrustStates, RequiredActions,
              PersistenceIntents, NoIntent, Intend, Intent
<1>2. CASE retained # Nothing /\ retained.pubkey = presented
  <2>1. retained.provenance \in Provenances
    BY <1>2 DEF MaybeRetained, RetainedIdentity
  <2>2. QED
    BY <1>2, <2>1 DEF Resolve, ResolveMatched, Resolution, StateOfProvenance, Provenances,
              TrustStates, RequiredActions, PersistenceIntents, NoIntent, Intend, Intent
<1>3. CASE retained # Nothing /\ retained.pubkey # presented
  <2>1. retained.pubkey \in Publishers
    BY <1>3 DEF MaybeRetained, RetainedIdentity
  <2>2. QED
    BY <1>3, <2>1 DEF Resolve, ResolveMismatch, Resolution, TrustStates, RequiredActions,
              PersistenceIntents, NoIntent, Intend, IntendReplace, Intent
<1>4. QED
  BY <1>1, <1>2, <1>3

\* The file an intent writes is an identity file for the intent's key.
LEMMA FileAfterType ==
    ASSUME NEW file \in IdentityFiles, NEW intent \in PersistenceIntents,
           intent # NoIntent
    PROVE  /\ FileAfter(file, intent) \in IdentityFiles \ {NoFile}
           /\ FileAfter(file, intent).pubkey = intent.pubkey
           /\ FileAfter(file, intent).pubkey \in Publishers
           /\ FileAfter(file, intent).provenance = "ExternallyVerified" =>
                 \/ intent.kind = "MarkExternallyVerified"
                 \/ intent.kind = "ReplaceIdentity" /\ intent.externally_verified
           /\ FileAfter(file, intent).provenance = "Pinned" =>
                 \/ intent.kind = "PinIdentity"
                 \/ intent.kind = "ReplaceIdentity" /\ ~intent.externally_verified
           /\ FileAfter(file, intent).provenance = "Observed" =>
                 intent.kind = "RecordObservation"
<1>1. file.replaced \in Seq(Publishers)
  <2>1. CASE file = NoFile
    BY <2>1, EmptySeq DEF NoFile, IdentityFile
  <2>2. CASE file # NoFile
    BY <2>2 DEF IdentityFiles
  <2>3. QED
    BY <2>1, <2>2
<1>2. intent.kind = "ReplaceIdentity" =>
         <<intent.replaced>> \o file.replaced \in Seq(Publishers)
  BY <1>1, IntentShape, PrependProperties
<1>3. <<>> \in Seq(Publishers)
  BY EmptySeq
<1>4. PICK keys \in Seq(Publishers) :
         FileAfter(file, intent) = IdentityFile(intent.pubkey, ProvenanceOf(intent), keys)
  BY <1>1, <1>2, <1>3 DEF FileAfter
<1>5. intent.pubkey \in Publishers /\ intent.pubkey # None
  BY IntentShape, NoneAssumption
<1>6. QED
  BY <1>4, <1>5, IntentShape DEF ProvenanceOf, IdentityFile, IdentityFiles, NoFile, Provenances

\* An identity file retains something, or nothing when it is missing; a
\* version 1 record reads as a pin or a verification.
LEMMA RetainedType ==
    ASSUME NEW file \in IdentityFiles
    PROVE  /\ Retained(file) \in MaybeRetained
           /\ Retained(file) = Nothing <=> file = NoFile
           /\ Retained(file).pubkey = file.pubkey
           /\ file = NoFile \/ file.pubkey \in Publishers
<1>1. CASE file = NoFile
  BY <1>1 DEF Retained, DecodeProvenance, NoFile, IdentityFile, Identity, MaybeRetained, Nothing
<1>2. CASE file # NoFile
  <2>1. /\ file.pubkey \in Publishers /\ file.pubkey # None
        /\ file.provenance \in Provenances \cup LegacyProvenances
    BY <1>2, NoneAssumption DEF IdentityFiles
  <2>2. DecodeProvenance(file.provenance) \in Provenances
    BY <2>1 DEF DecodeProvenance, Provenances, LegacyProvenances
  <2>3. QED
    BY <1>2, <2>1, <2>2 DEF Retained, Identity, MaybeRetained, Nothing, RetainedIdentity
<1>3. QED
  BY <1>1, <1>2

----------------------------------------------------------------------------
\* What a step of one window needs of the invariant, for the stepping window
\* and for the others.
Loaded(v) == v.site \in Sites /\ v.manifest \in Manifests

\* Every step keeps the variables in their types.
LEMMA TypeStep == TypeOK /\ WindowInv /\ [Next]_vars => TypeOK'
<1> SUFFICES ASSUME TypeOK, WindowInv, [Next]_vars
             PROVE  TypeOK'
  OBVIOUS
<1>1. CASE UNCHANGED vars
  BY <1>1 DEF vars, TypeOK
<1>2. ASSUME NEW w \in Windows, Progress(w) \/ User(w) \/ Crash(w)
      PROVE  TypeOK'
  <2> DEFINE v == win[w]
  <2>1. /\ v \in WindowStates
        /\ IdleWindow \in WindowStates
        /\ v.pc # "idle" => Loaded(v)
        /\ v.pc \in PersistPoints \ {"reload"} => v.intent # NoIntent
    <3>1. <<>> \in Seq(Records)
      BY EmptySeq
    <3>2. QED
      BY <3>1 DEF TypeOK, WindowInv, WindowOK, Loaded, IdleWindow, WindowStates, ProgramPoints,
        PersistPoints, MaybeRetained, TrustStates, RequiredActions, UserDecisions,
        PersistenceIntents, IdentityFiles
  <2>2. ASSUME NEW x \in Sites
        PROVE  Retained(identities[x]) \in MaybeRetained
    BY RetainedType DEF TypeOK
  <2>3. ASSUME NEW x \in Sites, NEW m \in Manifests, Launch(w, x, m)
        PROVE  TypeOK'
    BY <2>1, <2>2, <2>3 DEF TypeOK, Launch, WindowStates, ProgramPoints, IdleWindow
  <2>4. CASE LoadAccepted(w)
    <3>1. v.manifest \in Manifests /\ v.manifest.pub \in Publishers
      BY <2>1, <2>4, ManifestsAssumption DEF LoadAccepted, Loaded
    <3>2. "None" \in UserDecisions /\ v.retained \in MaybeRetained
      BY <2>1 DEF UserDecisions, WindowStates
    <3> DEFINE r == Resolve(v.manifest.pub, v.retained, "None")
    <3>3. r.state \in TrustStates /\ r.action \in RequiredActions
          /\ r.intent \in PersistenceIntents
      BY <3>1, <3>2, ResolveType
    <3>4. PersistFrom(r.intent) \in ProgramPoints
      BY DEF PersistFrom, ProgramPoints, PersistPoints
    <3> HIDE DEF r
    <3>5. v.retained.pubkey \in Publishers \cup {None}
      BY <3>2 DEF MaybeRetained, RetainedIdentity, Nothing
    <3>6. QED
      BY <2>1, <2>4, <3>1, <3>3, <3>4, <3>5 DEF TypeOK, LoadAccepted, WindowStates, r
  <2>5. CASE LoadRejected(w) \/ Quit(w) \/ Crash(w)
    BY <2>1, <2>5 DEF TypeOK, LoadRejected, Quit, Crash
  <2>6. CASE ReadIdentity(w)
    BY <2>1, <2>6 DEF TypeOK, ReadIdentity, WindowStates, ProgramPoints, PersistPoints, Loaded
  <2>7. CASE WriteIdentity(w)
    <3>1. /\ FileAfter(v.file, v.intent) \in IdentityFiles
          /\ FileAfter(v.file, v.intent).pubkey \in Publishers
      BY <2>1, <2>7, FileAfterType DEF WriteIdentity, WindowStates, PersistPoints
    <3>2. NoFile \in IdentityFiles
      BY DEF IdentityFiles
    <3>3. QED
      BY <2>1, <2>7, <3>1, <3>2
         DEF TypeOK, WriteIdentity, WindowStates, ProgramPoints, PersistPoints, Loaded
  <2>8. CASE ReadHistory(w)
    <3>1. v.intent.pubkey \in Publishers
      BY <2>1, <2>8, IntentShape DEF ReadHistory, WindowStates, PersistPoints
    <3>2. QED
      BY <2>1, <2>8, <3>1 DEF TypeOK, ReadHistory, WindowStates, ProgramPoints, PersistPoints
  <2>9. CASE WriteHistory(w)
    <3>1. v.manifest \in Manifests /\ RecordFor(v.manifest) \in Records
      BY <2>1, <2>9 DEF WriteHistory, Loaded, Records, PersistPoints
    <3>2. v.log \in Seq(Records) /\ <<>> \in Seq(Records)
      BY <2>1, EmptySeq DEF WindowStates
    <3>3. Prepend(RecordFor(v.manifest), v.log) \in Seq(Records)
      BY <3>1, <3>2, PrependProperties DEF Prepend
    <3>4. QED
      BY <2>1, <2>9, <3>2, <3>3
         DEF TypeOK, WriteHistory, WindowStates, ProgramPoints, PersistPoints
  <2>10. CASE PersistFails(w)
    <3>1. <<>> \in Seq(Records) /\ NoFile \in IdentityFiles
      BY EmptySeq DEF IdentityFiles
    <3>2. QED
      BY <2>1, <2>10, <3>1
         DEF TypeOK, PersistFails, WindowStates, ProgramPoints, PersistPoints
  <2>11. CASE Reload(w)
    <3>0. Snapshots(v) \subseteq MaybeRetained
      BY <2>1, <2>2, <2>11 DEF Snapshots, Reload, WindowStates, Loaded
    <3>1. PICK snapshot \in MaybeRetained :
             win' = [win EXCEPT ![w] = [v EXCEPT
                       !.pc = "open", !.retained = snapshot,
                       !.prompt = IF v.decision = "None" THEN @ ELSE "None"]]
      BY <3>0, <2>11 DEF Reload
    <3>2. QED
      BY <2>1, <2>11, <3>1 DEF TypeOK, Reload, WindowStates, ProgramPoints, RequiredActions
  <2>12. ASSUME NEW decision \in UserDecisions, Decide(w, decision)
         PROVE  TypeOK'
    <3>1. v.manifest.pub \in Publishers /\ v.retained \in MaybeRetained
      BY <2>1, <2>12, ManifestsAssumption DEF Decide, Loaded, WindowStates
    <3> DEFINE r == Resolve(v.manifest.pub, v.retained, decision)
    <3>2. r.state \in TrustStates /\ r.action \in RequiredActions
          /\ r.intent \in PersistenceIntents
      BY <3>1, ResolveType
    <3>3. PersistFrom(r.intent) \in ProgramPoints
      BY DEF PersistFrom, ProgramPoints, PersistPoints
    <3> HIDE DEF r
    <3>4. QED
      BY <2>1, <2>12, <3>2, <3>3 DEF TypeOK, Decide, WindowStates, r
  <2>13. CASE Decline(w)
    BY <2>1, <2>13 DEF TypeOK, Decline, WindowStates, RequiredActions
  <2>14. QED
    BY <1>2, <2>3, <2>4, <2>5, <2>6, <2>7, <2>8, <2>9, <2>10, <2>11, <2>12, <2>13
       DEF Progress, User
<1>3. QED
  BY <1>1, <1>2 DEF Next

----------------------------------------------------------------------------
\* A step belongs to one window: the others keep their state, and what was
\* accepted stays accepted.
LEMMA OthersKept ==
    ASSUME TypeOK, NEW w \in Windows, Progress(w) \/ User(w) \/ Crash(w)
    PROVE  /\ \A u \in Windows \ {w} : win'[u] = win[u]
           /\ everAccepted \subseteq everAccepted'
  BY DEF TypeOK, Progress, User, Crash, Launch, LoadAccepted, LoadRejected, ReadIdentity,
         WriteIdentity, ReadHistory, WriteHistory, PersistFails, Reload, Decide, Decline, Quit

\* Between its steps a window keeps what its manifest and decision justify.
LEMMA WindowStep == TypeOK /\ WindowInv /\ [Next]_vars => WindowInv'
<1> SUFFICES ASSUME TypeOK, WindowInv, [Next]_vars
             PROVE  WindowInv'
  OBVIOUS
<1>1. CASE UNCHANGED vars
  BY <1>1 DEF vars, WindowInv, WindowOK, Justified
<1>2. ASSUME NEW w \in Windows, Progress(w) \/ User(w) \/ Crash(w)
      PROVE  WindowInv'
  <2> DEFINE v == win[w]
  <2>1. v \in WindowStates /\ WindowOK(w) /\ win \in [Windows -> WindowStates]
    BY DEF TypeOK, WindowInv
  <2>2. ASSUME WindowOK(w)'
        PROVE  WindowInv'
    BY <1>2, <2>2, OthersKept DEF WindowInv, WindowOK, Justified
  <2>3. ASSUME NEW x \in Sites, NEW m \in Manifests, Launch(w, x, m)
        PROVE  WindowOK(w)'
    BY <2>1, <2>3 DEF Launch, WindowOK, Justified, IdleWindow, PersistPoints, NoIntent, Intent
  <2>4. ASSUME LoadAccepted(w)
        PROVE  WindowOK(w)'
    <3>1. /\ v.manifest \in Manifests /\ v.manifest.pub \in Publishers
          /\ v.decision \in UserDecisions /\ v.retained \in MaybeRetained
          /\ "None" \in UserDecisions
      BY <2>1, <2>4, ManifestsAssumption DEF LoadAccepted, WindowOK, WindowStates, UserDecisions
    <3> DEFINE r == Resolve(v.manifest.pub, v.retained, "None")
    <3>2. /\ r.intent # NoIntent => r.intent.pubkey = v.manifest.pub
          /\ r.intent.kind \notin {"PinIdentity", "MarkExternallyVerified", "ReplaceIdentity"}
          /\ r.intent.kind = "RecordObservation" => v.retained = Nothing
      BY <3>1, ResolveType
    <3> HIDE DEF r
    <3>3. /\ win'[w].pc = PersistFrom(r.intent) /\ win'[w].intent = r.intent
          /\ win'[w].retained = v.retained /\ win'[w].site = v.site /\ win'[w].manifest = v.manifest
          /\ v.manifest \in everAccepted' /\ v.manifest.site = v.site
          /\ v.pc = "loading"
      BY <2>1, <2>4 DEF LoadAccepted, WindowStates, r
    <3>4. QED
      BY <2>1, <3>1, <3>2, <3>3 DEF WindowOK, Justified, PersistFrom, PersistPoints
  <2>5. ASSUME LoadRejected(w) \/ Quit(w) \/ Crash(w)
        PROVE  WindowOK(w)'
    BY <2>1, <2>5 DEF LoadRejected, Quit, Crash, WindowOK, IdleWindow, PersistPoints
  <2>6. ASSUME \/ ReadIdentity(w) \/ WriteIdentity(w) \/ ReadHistory(w) \/ WriteHistory(w)
               \/ PersistFails(w) \/ Reload(w) \/ Decline(w)
        PROVE  WindowOK(w)'
    <3> DEFINE Kept ==
           /\ v.pc \notin {"idle", "loading"}
           /\ win'[w].site = v.site /\ win'[w].manifest = v.manifest
           /\ win'[w].intent = v.intent /\ win'[w].decision = v.decision
           /\ everAccepted' = everAccepted
           /\ win'[w].pc \in PersistPoints \ {"reload"} =>
                 v.pc \in PersistPoints \ {"reload"} /\ win'[w].retained = v.retained
    <3>1. ASSUME ReadIdentity(w) PROVE Kept
      BY <2>1, <3>1 DEF ReadIdentity, PersistPoints, WindowStates
    <3>2. ASSUME WriteIdentity(w) PROVE Kept
      BY <2>1, <3>2 DEF WriteIdentity, PersistPoints, WindowStates
    <3>3. ASSUME ReadHistory(w) PROVE Kept
      BY <2>1, <3>3 DEF ReadHistory, PersistPoints, WindowStates
    <3>4. ASSUME WriteHistory(w) PROVE Kept
      BY <2>1, <3>4 DEF WriteHistory, PersistPoints, WindowStates
    <3>5. ASSUME PersistFails(w) PROVE Kept
      BY <2>1, <3>5 DEF PersistFails, PersistPoints, WindowStates
    <3>6. ASSUME Reload(w) PROVE Kept
      BY <2>1, <3>6 DEF Reload, PersistPoints, WindowStates
    <3>7. ASSUME Decline(w) PROVE Kept
      BY <2>1, <3>7 DEF Decline, PersistPoints, WindowStates
    <3>8. Kept
      BY <2>6, <3>1, <3>2, <3>3, <3>4, <3>5, <3>6, <3>7
    <3>9. QED
      BY <2>1, <3>8 DEF WindowOK, Justified
  <2>7. ASSUME NEW decision \in UserDecisions, Decide(w, decision)
        PROVE  WindowOK(w)'
    <3>1. /\ v.manifest \in Manifests /\ v.manifest.pub \in Publishers
          /\ v.retained \in MaybeRetained
      BY <2>1, <2>7, ManifestsAssumption DEF Decide, WindowOK, WindowStates
    <3> DEFINE r == Resolve(v.manifest.pub, v.retained, decision)
    <3>2. /\ r.intent # NoIntent => r.intent.pubkey = v.manifest.pub
          /\ r.intent.kind = "PinIdentity" => decision = "PinFirstContact"
          /\ r.intent.kind = "MarkExternallyVerified" => decision = "ConfirmPip"
          /\ r.intent.kind = "ReplaceIdentity" /\ r.intent.externally_verified =>
                decision = "ConfirmPip"
          /\ r.intent.kind = "ReplaceIdentity" /\ ~r.intent.externally_verified =>
                decision = "ConfirmNewIdentity"
          /\ r.intent.kind = "RecordObservation" => v.retained = Nothing
      BY <3>1, ResolveType
    <3> HIDE DEF r
    <3>3. /\ win'[w].pc = PersistFrom(r.intent) /\ win'[w].intent = r.intent
          /\ win'[w].retained = v.retained /\ win'[w].site = v.site /\ win'[w].manifest = v.manifest
          /\ win'[w].decision = decision /\ everAccepted' = everAccepted
          /\ v.pc = "open"
      BY <2>1, <2>7 DEF Decide, WindowStates, r
    <3>4. QED
      BY <2>1, <3>2, <3>3 DEF WindowOK, Justified, PersistFrom, PersistPoints
  <2>8. QED
    BY <1>2, <2>2, <2>3, <2>4, <2>5, <2>6, <2>7 DEF Progress, User
<1>3. QED
  BY <1>1, <1>2 DEF Next

----------------------------------------------------------------------------
\* What was accepted for a publisher stays accepted.
LEMMA AcceptedGrows ==
    ASSUME everAccepted \subseteq everAccepted', NEW p,
           NEW log \in Seq(AcceptedRecords(p))
    PROVE  log \in Seq(AcceptedRecords(p)')
<1>1. AcceptedRecords(p) \subseteq AcceptedRecords(p)'
  BY DEF AcceptedRecords
<1>2. QED
  BY <1>1, SeqMonotonic

\* The history files, and what a window is about to write to them, hold only
\* records of accepted manifests of that publisher.
LEMMA RecordedStep == TypeOK /\ WindowInv /\ Recorded /\ [Next]_vars => Recorded'
<1> SUFFICES ASSUME TypeOK, WindowInv, Recorded, [Next]_vars
             PROVE  Recorded'
  OBVIOUS
<1>1. CASE UNCHANGED vars
  BY <1>1 DEF vars, Recorded, LogRecorded, AcceptedRecords
<1>2. ASSUME NEW w \in Windows, Progress(w) \/ User(w) \/ Crash(w)
      PROVE  Recorded'
  <2> DEFINE v == win[w]
  <2>1. v \in WindowStates /\ WindowOK(w) /\ win \in [Windows -> WindowStates]
    BY DEF TypeOK, WindowInv
  <2>2. everAccepted \subseteq everAccepted' /\ \A u \in Windows \ {w} : win'[u] = win[u]
    BY <1>2, OthersKept
  <2>3. ASSUME NEW p \in Publishers
        PROVE  histories[p] \in Seq(AcceptedRecords(p)')
    BY <2>2, <2>3, AcceptedGrows DEF Recorded
  <2>4. ASSUME NEW u \in Windows \ {w}
        PROVE  LogRecorded(u)'
    BY <2>2, <2>4, AcceptedGrows DEF Recorded, LogRecorded
  <2>5. CASE WriteHistory(w)
    <3> DEFINE p == v.intent.pubkey
    <3>1. /\ p \in Publishers /\ v.manifest \in everAccepted /\ v.manifest.pub = p
          /\ v.log \in Seq(AcceptedRecords(p))
      BY <2>1, <2>5, IntentShape
         DEF WriteHistory, WindowOK, Justified, PersistPoints, WindowStates, Recorded, LogRecorded
    <3>2. RecordFor(v.manifest) \in AcceptedRecords(p)
      BY <3>1 DEF AcceptedRecords
    <3>3. Prepend(RecordFor(v.manifest), v.log) \in Seq(AcceptedRecords(p))
      BY <3>1, <3>2, PrependProperties DEF Prepend
    <3>4. /\ histories' = [histories EXCEPT ![p] = Prepend(RecordFor(v.manifest), v.log)]
          /\ everAccepted' = everAccepted
          /\ win'[w].pc = "reload"
      BY <2>1, <2>5 DEF WriteHistory, WindowStates
    <3>5. ASSUME NEW q \in Publishers
          PROVE  histories'[q] \in Seq(AcceptedRecords(q)')
      BY <2>2, <2>3, <3>1, <3>3, <3>4, AcceptedGrows DEF TypeOK
    <3>6. QED
      BY <2>4, <3>4, <3>5 DEF Recorded, LogRecorded
  <2>6. CASE ReadHistory(w)
    <3>1. /\ v.intent.pubkey \in Publishers
          /\ win'[w].log = histories[v.intent.pubkey] /\ win'[w].intent = v.intent
          /\ histories' = histories
      BY <2>1, <2>6, IntentShape DEF ReadHistory, WindowOK, PersistPoints, WindowStates
    <3>2. LogRecorded(w)'
      BY <2>3, <3>1 DEF LogRecorded
    <3>3. QED
      BY <2>3, <2>4, <3>1, <3>2 DEF Recorded
  <2>7. ASSUME ~WriteHistory(w), ~ReadHistory(w)
        PROVE  Recorded'
    <3>1. win'[w].pc # "historyWrite"
      <4>1. ASSUME NEW x \in Sites, NEW m \in Manifests, Launch(w, x, m)
            PROVE  win'[w].pc = "loading"
        BY <2>1, <4>1 DEF Launch, IdleWindow
      <4>2. ASSUME LoadRejected(w) \/ Quit(w) \/ Crash(w)
            PROVE  win'[w].pc = "idle"
        BY <2>1, <4>2 DEF LoadRejected, Quit, Crash, IdleWindow
      <4>3. ASSUME LoadAccepted(w) \/ (\E decision \in UserDecisions : Decide(w, decision))
            PROVE  win'[w].pc \in {"reload", "identityRead"}
        <5>1. CASE LoadAccepted(w)
          BY <2>1, <5>1 DEF LoadAccepted, PersistFrom
        <5>2. ASSUME NEW decision \in UserDecisions, Decide(w, decision)
              PROVE  win'[w].pc \in {"reload", "identityRead"}
          BY <2>1, <5>2 DEF Decide, PersistFrom
        <5>3. QED
          BY <4>3, <5>1, <5>2
      <4>4. ASSUME \/ ReadIdentity(w) \/ WriteIdentity(w) \/ PersistFails(w) \/ Reload(w)
                   \/ Decline(w)
            PROVE  win'[w].pc \in {"identityWrite", "historyRead", "reload", "open"}
        <5>1. CASE ReadIdentity(w)
          BY <2>1, <5>1 DEF ReadIdentity, WindowStates
        <5>2. CASE WriteIdentity(w)
          BY <2>1, <5>2 DEF WriteIdentity, WindowStates
        <5>3. CASE PersistFails(w)
          BY <2>1, <5>3 DEF PersistFails, WindowStates
        <5>4. CASE Reload(w)
          BY <2>1, <5>4 DEF Reload, WindowStates
        <5>5. CASE Decline(w)
          BY <2>1, <5>5 DEF Decline, WindowStates
        <5>6. QED
          BY <4>4, <5>1, <5>2, <5>3, <5>4, <5>5
      <4>5. QED
        BY <1>2, <2>7, <4>1, <4>2, <4>3, <4>4 DEF Progress, User
    <3>2. histories' = histories
      BY <1>2, <2>7
         DEF Progress, User, Crash, Launch, LoadAccepted, LoadRejected, ReadIdentity,
             WriteIdentity, PersistFails, Reload, Decide, Decline, Quit
    <3>3. QED
      BY <2>3, <2>4, <3>1, <3>2 DEF Recorded, LogRecorded
  <2>8. QED
    BY <2>5, <2>6, <2>7
<1>3. QED
  BY <1>1, <1>2 DEF Next

\* An upgraded store starts with one record of an accepted manifest for each
\* publisher it retains, and any other store starts empty.
LEMMA InitHistories ==
    ASSUME NEW past \in Pasts, InitFrom(past), NEW p \in Publishers
    PROVE  /\ histories[p] \in Seq(AcceptedRecords(p))
           /\ histories[p] # <<>> =>
                 \E r \in AcceptedRecords(p) : histories[p] = <<r>>
<1> DEFINE upgraded == {x \in Sites : past[x] # None}
           matching == {x \in upgraded : past[x].pub = p}
<1>1. CASE matching = {}
  <2>1. histories[p] = <<>>
    BY <1>1 DEF InitFrom
  <2>2. QED
    BY <2>1, EmptySeq
<1>2. CASE matching # {}
  <2> DEFINE y == CHOOSE x \in upgraded : past[x].pub = p
  <2>1. y \in upgraded /\ past[y].pub = p
    BY <1>2
  <2>2. histories[p] = <<RecordFor(past[y])>>
    BY <1>2 DEF InitFrom
  <2> HIDE DEF y
  <2>3. past[y] \in everAccepted
    BY <2>1 DEF InitFrom
  <2>4. RecordFor(past[y]) \in AcceptedRecords(p)
    BY <2>1, <2>3 DEF AcceptedRecords
  <2>5. <<RecordFor(past[y])>> \in Seq(AcceptedRecords(p))
    BY <2>4
  <2>6. QED
    BY <2>2, <2>4, <2>5
<1>3. QED
  BY <1>1, <1>2

\* The records of accepted manifests are records.
LEMMA AcceptedRecordsType ==
    ASSUME everAccepted \subseteq Manifests, NEW p,
           NEW log \in Seq(AcceptedRecords(p))
    PROVE  log \in Seq(Records)
<1>1. AcceptedRecords(p) \subseteq Records
  BY DEF AcceptedRecords, Records
<1>2. QED
  BY <1>1, SeqMonotonic

\* What an initial store retains: nothing, or a version 1 record.
LEMMA InitIdentities ==
    ASSUME NEW past \in Pasts, InitFrom(past), NEW x \in Sites
    PROVE  \/ identities[x] = NoFile /\ everRetained[x] = {}
           \/ \E p \in Publishers, flag \in LegacyProvenances :
                 /\ identities[x] = IdentityFile(p, flag, <<>>)
                 /\ everRetained[x] = {p}
<1>1. past[x] # None => past[x] \in Manifests /\ past[x].pub \in Publishers
  BY ManifestsAssumption DEF Pasts
<1>2. PICK flag \in [Sites -> LegacyProvenances] :
         identities = [z \in Sites |->
             IF z \in {u \in Sites : past[u] # None}
             THEN IdentityFile(past[z].pub, flag[z], <<>>) ELSE NoFile]
  BY DEF InitFrom
<1>3. QED
  BY <1>1, <1>2 DEF InitFrom

LEMMA InvInit == Init => IInv
<1> SUFFICES ASSUME Init PROVE IInv
  OBVIOUS
<1>0. PICK past \in Pasts : InitFrom(past)
  BY DEF Init
<1>1. /\ <<>> \in Seq(Records) /\ <<>> \in Seq(Publishers)
      /\ NoFile \in IdentityFiles
  BY EmptySeq DEF IdentityFiles
<1>2. IdleWindow \in WindowStates
  BY <1>1 DEF IdleWindow, WindowStates, ProgramPoints, MaybeRetained, TrustStates,
              RequiredActions, UserDecisions, PersistenceIntents
<1>3. everAccepted \subseteq Manifests
  BY <1>0 DEF InitFrom, Pasts
<1>4. TypeOK
  <2>1. identities \in [Sites -> IdentityFiles] /\ everRetained \in [Sites -> SUBSET Publishers]
    <3>1. ASSUME NEW x \in Sites
          PROVE  identities[x] \in IdentityFiles /\ everRetained[x] \subseteq Publishers
      <4>1. CASE identities[x] = NoFile /\ everRetained[x] = {}
        BY <1>1, <4>1
      <4>2. ASSUME NEW p \in Publishers, NEW flag \in LegacyProvenances,
                   identities[x] = IdentityFile(p, flag, <<>>), everRetained[x] = {p}
            PROVE  identities[x] \in IdentityFiles /\ everRetained[x] \subseteq Publishers
        BY <1>1, <4>2 DEF IdentityFiles, IdentityFile
      <4>3. QED
        BY <1>0, <4>1, <4>2, InitIdentities
    <3>2. (\E f : identities = [x \in Sites |-> f[x]])
          /\ (\E g : everRetained = [x \in Sites |-> g[x]])
      <4>1. PICK flag \in [Sites -> LegacyProvenances] :
               identities = [z \in Sites |->
                   IF z \in {u \in Sites : past[u] # None}
                   THEN IdentityFile(past[z].pub, flag[z], <<>>) ELSE NoFile]
        BY <1>0 DEF InitFrom
      <4>2. identities = [x \in Sites |-> identities[x]]
        BY <4>1
      <4>3. everRetained = [x \in Sites |-> everRetained[x]]
        BY <1>0 DEF InitFrom
      <4>4. QED
        BY <4>2, <4>3
    <3>3. QED
      BY <3>1, <3>2
  <2>2. histories \in [Publishers -> Seq(Records)]
    <3>1. \A p \in Publishers : histories[p] \in Seq(Records)
      BY <1>0, <1>3, InitHistories, AcceptedRecordsType
    <3>2. histories = [p \in Publishers |-> histories[p]]
      BY <1>0 DEF InitFrom
    <3>3. QED
      BY <3>1, <3>2
  <2>3. QED
    BY <1>0, <1>2, <1>3, <2>1, <2>2 DEF InitFrom, TypeOK
<1>5. WindowInv
  BY <1>0 DEF InitFrom, WindowInv, WindowOK, IdleWindow, PersistPoints
<1>6. Recorded
  BY <1>0, InitHistories DEF InitFrom, Recorded, LogRecorded, IdleWindow
<1>7. QED
  BY <1>4, <1>5, <1>6 DEF IInv

LEMMA InvStep == IInv /\ [Next]_vars => IInv'
  BY TypeStep, WindowStep, RecordedStep DEF IInv

THEOREM Invariance == Spec => []IInv
<1>1. QED
  BY InvInit, InvStep, PTL DEF Spec

----------------------------------------------------------------------------
\* Whatever the windows, faults and interleavings, every variable keeps to its
\* type: no store call and no decision of the trust flow leaves it.
THEOREM TypeCorrect == Spec => []TypeOK
<1>1. IInv => TypeOK
  BY DEF IInv
<1>2. QED
  BY Invariance, <1>1, PTL

\* A history file never names a manifest no window accepted, nor one of
\* another publisher, although its read and its write are separate steps.
THEOREM RecordsWereAccepted == Spec => []OnlyAcceptedRecorded
<1>1. IInv => OnlyAcceptedRecorded
  <2> SUFFICES ASSUME IInv, NEW p \in Publishers, NEW i \in DOMAIN histories[p]
               PROVE  \E m \in everAccepted : m.pub = p /\ RecordFor(m) = histories[p][i]
    BY DEF OnlyAcceptedRecorded
  <2>1. histories[p] \in Seq(AcceptedRecords(p))
    BY DEF IInv, Recorded
  <2>2. histories[p][i] \in AcceptedRecords(p)
    BY <2>1, ElementOfSeq, LenProperties
  <2>3. QED
    BY <2>2 DEF AcceptedRecords
<1>2. QED
  BY Invariance, <1>1, PTL

\* Only WriteIdentity touches an identity file, and it writes what the
\* window's intent says.
LEMMA OnlyWriteIdentity ==
    ASSUME TypeOK, Next, identities' # identities
    PROVE  \E w \in Windows : WriteIdentity(w)
  BY DEF Next, Progress, User, Crash, Launch, LoadAccepted, LoadRejected, ReadIdentity,
         ReadHistory, WriteHistory, PersistFails, Reload, Decide, Decline, Quit

\* Only WriteHistory touches a history file.
LEMMA OnlyWriteHistory ==
    ASSUME TypeOK, Next, histories' # histories
    PROVE  \E w \in Windows : WriteHistory(w)
  BY DEF Next, Progress, User, Crash, Launch, LoadAccepted, LoadRejected, ReadIdentity,
         WriteIdentity, ReadHistory, PersistFails, Reload, Decide, Decline, Quit

\* The file WriteIdentity leaves for its site.
LEMMA WrittenFile ==
    ASSUME TypeOK, WindowInv, NEW w \in Windows, WriteIdentity(w)
    PROVE  LET v == win[w]
               file == FileAfter(v.file, v.intent)
           IN  /\ v.site \in Sites /\ v.manifest.site = v.site /\ Justified(v)
               /\ v.intent \in PersistenceIntents \ {NoIntent}
               /\ file \in IdentityFiles \ {NoFile}
               /\ file.pubkey = v.manifest.pub
               /\ file.provenance = "ExternallyVerified" => v.decision = "ConfirmPip"
               /\ file.provenance = "Observed" => v.retained = Nothing
               /\ file.provenance = "Pinned" =>
                     v.decision \in {"PinFirstContact", "ConfirmNewIdentity"}
               /\ identities' = [identities EXCEPT ![v.site] = file]
<1> DEFINE v == win[w]
<1>1. /\ v.site \in Sites /\ v.manifest.site = v.site /\ Justified(v)
      /\ v.intent \in PersistenceIntents \ {NoIntent} /\ v.file \in IdentityFiles
      /\ v.intent.kind = "RecordObservation" => v.retained = Nothing
  BY DEF TypeOK, WindowInv, WindowOK, WriteIdentity, PersistPoints, WindowStates
<1>2. identities' = [identities EXCEPT ![v.site] = FileAfter(v.file, v.intent)]
  BY DEF WriteIdentity
<1>3. QED
  BY <1>1, <1>2, FileAfterType DEF Justified

\* No interleaving of windows, crash or store error writes a record that claims
\* more than the user of its window decided for that key and site.
THEOREM DecisionsBehindTrust == Spec => TrustNeedsDecision
<1> DEFINE Decided(x, w) ==
       LET v == win[w] IN
       /\ v.site = x /\ v.manifest.site = x
       /\ v.manifest.pub = identities'[x].pubkey
       /\ identities'[x].provenance = "ExternallyVerified" => v.decision = "ConfirmPip"
       /\ identities'[x].provenance = "Pinned"
             => v.decision \in {"PinFirstContact", "ConfirmNewIdentity"}
       /\ identities'[x].provenance = "Observed" => v.retained = Nothing
<1>1. ASSUME IInv, [Next]_vars, NEW x \in Sites, identities'[x] # identities[x]
      PROVE  \E w \in Windows : Decided(x, w)
  <2>1. TypeOK /\ WindowInv /\ Next
    BY <1>1 DEF IInv, vars
  <2>2. PICK w \in Windows : WriteIdentity(w)
    BY <1>1, <2>1, OnlyWriteIdentity
  <2>3. Decided(x, w)
    BY <1>1, <2>1, <2>2, WrittenFile DEF TypeOK
  <2>4. QED
    BY <2>3
<1>2. IInv /\ [Next]_vars =>
         [\A x \in Sites : identities'[x] # identities[x] =>
             \E w \in Windows : Decided(x, w)]_vars
  BY <1>1
<1>3. QED
  BY Invariance, <1>2, PTL DEF Spec, TrustNeedsDecision

\* A site with a record is never left without one: a key stays retained that
\* the next one presented is compared with.
THEOREM RetainedForGood == Spec => RetentionIsPermanent
<1>1. IInv /\ [Next]_vars =>
         [\A x \in Sites : identities[x] # NoFile => identities'[x] # NoFile]_vars
  <2> SUFFICES ASSUME IInv, [Next]_vars, NEW x \in Sites, identities[x] # NoFile
               PROVE  identities'[x] # NoFile
    OBVIOUS
  <2>1. CASE identities' = identities
    BY <2>1
  <2>2. CASE identities' # identities
    <3>1. TypeOK /\ WindowInv /\ Next
      BY <2>2 DEF IInv, vars
    <3>2. PICK w \in Windows : WriteIdentity(w)
      BY <2>2, <3>1, OnlyWriteIdentity
    <3>3. QED
      BY <3>1, <3>2, WrittenFile DEF TypeOK
  <2>3. QED
    BY <2>1, <2>2
<1>2. QED
  BY Invariance, <1>1, PTL DEF Spec, RetentionIsPermanent

----------------------------------------------------------------------------
(* Without faults, a window that has written a key owes its record.          *)
Owes(w, key) ==
    win[w].pc \in {"historyRead", "historyWrite"} /\ win[w].intent.pubkey = key

KeyCovered(x) ==
    identities[x] # NoFile =>
       \/ histories[identities[x].pubkey] # <<>>
       \/ \E w \in Windows : Owes(w, identities[x].pubkey)

CoverInv == \A x \in Sites : KeyCovered(x)

LEMMA CoverInit == Init => CoverInv
<1> SUFFICES ASSUME Init, NEW x \in Sites, identities[x] # NoFile
             PROVE  histories[identities[x].pubkey] # <<>>
  BY DEF CoverInv, KeyCovered
<1>1. PICK past \in Pasts : InitFrom(past)
  BY DEF Init
<1> DEFINE upgraded == {y \in Sites : past[y] # None}
<1>2. x \in upgraded /\ identities[x].pubkey = past[x].pub
  <2>1. PICK flag \in [Sites -> LegacyProvenances] :
           identities = [z \in Sites |->
               IF z \in {u \in Sites : past[u] # None}
               THEN IdentityFile(past[z].pub, flag[z], <<>>) ELSE NoFile]
    BY <1>1 DEF InitFrom
  <2>2. QED
    BY <2>1 DEF IdentityFile
<1>3. past[x].pub \in Publishers
  BY <1>2, ManifestsAssumption DEF Pasts
<1>4. \E r : histories[past[x].pub] = <<r>>
  <2> DEFINE p == past[x].pub
             y == CHOOSE z \in upgraded : past[z].pub = p
  <2>1. histories[p] = <<RecordFor(past[y])>>
    BY <1>1, <1>2, <1>3 DEF InitFrom
  <2>2. QED
    BY <2>1
<1>5. QED
  <2>1. PICK r : histories[past[x].pub] = <<r>>
    BY <1>4
  <2>2. Len(<<r>>) = 1
    OBVIOUS
  <2>3. QED
    BY <1>2, <2>1, <2>2

\* A history never becomes empty again, and the file a window has just written
\* or found is for the key whose record it appends next.
LEMMA CoverStep ==
    ASSUME Faults = {}
    PROVE  IInv /\ CoverInv /\ [Next]_vars => CoverInv'
<1> SUFFICES ASSUME IInv, CoverInv, [Next]_vars
             PROVE  CoverInv'
  OBVIOUS
<1>1. CASE UNCHANGED vars
  BY <1>1 DEF vars, CoverInv, KeyCovered, Owes
<1>2. ASSUME NEW w \in Windows, Progress(w) \/ User(w) \/ Crash(w)
      PROVE  CoverInv'
  <2>1. /\ win \in [Windows -> WindowStates] /\ identities \in [Sites -> IdentityFiles]
        /\ histories \in [Publishers -> Seq(Records)]
    BY DEF IInv, TypeOK
  <2>2. CASE WriteIdentity(w)
    <3>1. /\ win[w].site \in Sites /\ win[w].intent \in PersistenceIntents \ {NoIntent}
          /\ identities' = [identities EXCEPT ![win[w].site] = FileAfter(win[w].file, win[w].intent)]
      BY <2>2, WrittenFile DEF IInv
    <3>2. FileAfter(win[w].file, win[w].intent).pubkey = win[w].intent.pubkey
      BY DEF FileAfter, IdentityFile
    <3>3. /\ win'[w].pc = "historyRead" /\ win'[w].intent = win[w].intent
          /\ \A u \in Windows \ {w} : win'[u] = win[u]
          /\ histories' = histories /\ win[w].pc = "identityWrite"
      BY <2>1, <2>2 DEF WriteIdentity, WindowStates
    <3>4. ASSUME NEW x \in Sites
          PROVE  KeyCovered(x)'
      <4>1. CASE x = win[w].site
        <5>1. Owes(w, identities[x].pubkey)'
          BY <2>1, <3>1, <3>2, <3>3, <4>1 DEF Owes
        <5>2. QED
          BY <5>1 DEF KeyCovered
      <4>2. CASE x # win[w].site
        <5>1. identities'[x] = identities[x]
          BY <2>1, <3>1, <4>2
        <5>2. \A key : \A u \in Windows : Owes(u, key) => Owes(u, key)'
          BY <3>3 DEF Owes
        <5>3. QED
          BY <3>3, <5>1, <5>2 DEF CoverInv, KeyCovered
      <4>3. QED
        BY <4>1, <4>2
    <3>5. QED
      BY <3>4 DEF CoverInv
  <2>3. CASE WriteHistory(w)
    <3> DEFINE key == win[w].intent.pubkey
               new == Prepend(RecordFor(win[w].manifest), win[w].log)
    <3>1. /\ histories' = [histories EXCEPT ![key] = new] /\ identities' = identities
          /\ \A u \in Windows \ {w} : win'[u] = win[u]
      BY <2>1, <2>3 DEF WriteHistory
    <3>2. win[w].manifest \in Manifests /\ win[w].log \in Seq(Records)
      BY <2>1, <2>3 DEF WriteHistory, IInv, WindowInv, WindowOK, WindowStates
    <3>3. new # <<>>
      <4>1. RecordFor(win[w].manifest) \in Records
        BY <3>2 DEF Records
      <4>2. Len(new) = Len(win[w].log) + 1 /\ Len(win[w].log) \in Nat
        BY <3>2, <4>1, PrependProperties, LenProperties DEF Prepend
      <4>3. QED
        BY <4>2
    <3> HIDE DEF new
    <3>4. ASSUME NEW x \in Sites, identities[x] # NoFile
          PROVE  KeyCovered(x)'
      <4>1. identities[x].pubkey \in Publishers
        BY <2>1, <3>4 DEF IdentityFiles
      <4>2. CASE identities[x].pubkey = key
        BY <2>1, <3>1, <3>3, <4>1, <4>2 DEF KeyCovered
      <4>3. CASE identities[x].pubkey # key
        <5>1. histories'[identities[x].pubkey] = histories[identities[x].pubkey]
          BY <2>1, <3>1, <4>1, <4>3
        <5>2. \A u \in Windows : Owes(u, identities[x].pubkey) => Owes(u, identities[x].pubkey)'
          BY <3>1, <4>3 DEF Owes
        <5>3. QED
          BY <3>1, <3>4, <5>1, <5>2 DEF CoverInv, KeyCovered
      <4>4. QED
        BY <4>2, <4>3
    <3>5. QED
      BY <3>1, <3>4 DEF CoverInv, KeyCovered
  <2>4. CASE ~WriteIdentity(w) /\ ~WriteHistory(w)
    <3>1. identities' = identities /\ histories' = histories
      BY <1>2, <2>4 DEF Progress, User, Crash, Launch, LoadAccepted, LoadRejected,
         ReadIdentity, ReadHistory, PersistFails, Reload, Decide, Decline, Quit
    <3>2. \A u \in Windows \ {w} : win'[u] = win[u]
      BY <1>2, <2>1 DEF Progress, User, Crash, Launch, LoadAccepted, LoadRejected,
         ReadIdentity, WriteIdentity, ReadHistory, WriteHistory, PersistFails, Reload,
         Decide, Decline, Quit
    <3>3. \A key : Owes(w, key) => Owes(w, key)'
      <4> SUFFICES ASSUME NEW key, Owes(w, key) PROVE Owes(w, key)'
        OBVIOUS
      <4>1. ReadHistory(w)
        BY <1>2, <2>4 DEF Owes, Progress, User, Crash, Launch, LoadAccepted, LoadRejected,
           ReadIdentity, PersistFails, Reload, Decide, Decline, Quit
      <4>2. QED
        BY <2>1, <4>1 DEF Owes, ReadHistory, WindowStates
    <3>4. QED
      BY <3>1, <3>2, <3>3 DEF CoverInv, KeyCovered, Owes
  <2>5. QED
    BY <2>2, <2>3, <2>4
<1>3. QED
  BY <1>1, <1>2 DEF Next

\* Without faults, and for any number of windows, persist leaves no key without
\* a record to check the next manifest against.
THEOREM KeysHaveHistories ==
    ASSUME Faults = {} PROVE Spec => []RetainedKeyHasHistory
<1>1. CoverInv => RetainedKeyHasHistory
  BY DEF CoverInv, KeyCovered, Owes, RetainedKeyHasHistory, PersistPoints
<1>2. IInv /\ CoverInv /\ [Next]_vars => CoverInv'
  BY CoverStep
<1>3. QED
  BY Invariance, CoverInit, <1>1, <1>2, PTL DEF Spec
=============================================================================
