-------------------------- MODULE ConcurrentProofs --------------------------
(***************************************************************************)
(* Any number of windows, whose snapshots may be as old as one likes, as     *)
(* long as no two of their store calls overlap and no store call fails.      *)
(*                                                                           *)
(* OverlapInv: at most one window is inside persist, and what it has read is  *)
(* still in the file; a snapshot of an observed key names the key of the     *)
(* file until someone decides otherwise, and a pin is only ever decided on   *)
(* such a snapshot.                                                          *)
(***************************************************************************)
EXTENDS ConcurrentSessions, SessionProofs

NoStoreErrors == "io" \notin Faults

\* A site with a snapshot, or with a store call done, has a file; a pin is
\* taken on an observation of the same key.
SnapshotKept(w) ==
    LET v == win[w] IN
    /\ v.pc # "idle" /\ v.retained # Nothing => identities[v.site] # NoFile
    /\ v.pc \in {"historyRead", "historyWrite", "reload", "open"} =>
          identities[v.site] # NoFile
    /\ v.pc = "open" => v.retained # Nothing
    /\ v.pc \in PersistPoints /\ v.intent.kind = "PinIdentity" =>
          v.retained = Identity(v.intent.pubkey, "Observed")
    /\ v.pc = "identityWrite" => StoreWrites(v.file, v.intent)

\* An observed key gives way to a decision only.
ObservationKept(w) ==
    LET v == win[w]
        now == Retained(identities[v.site])
    IN  v.pc # "idle" /\ v.retained.provenance = "Observed" /\ now.provenance = "Observed" =>
           now.pubkey = v.retained.pubkey

\* What was read from a file is still there.
ReadKept(w) ==
    LET v == win[w] IN
    /\ v.pc = "identityWrite" => v.file = identities[v.site]
    /\ v.pc = "historyWrite" => v.log = histories[v.intent.pubkey]

OneCall == \A v, w \in Persisting : v = w

OverlapInv ==
    /\ \A w \in Windows : SnapshotKept(w)
    /\ ~overlapped =>
          OneCall /\ \A w \in Windows : ObservationKept(w) /\ ReadKept(w)

----------------------------------------------------------------------------
\* Without a record there is always something to persist, and a pin is decided
\* on a first contact or on an observation of the presented key.
LEMMA ResolvePin ==
    ASSUME NEW presented \in Publishers, NEW retained \in MaybeRetained,
           NEW decision \in UserDecisions
    PROVE  LET intent == Resolve(presented, retained, decision).intent
           IN  /\ retained = Nothing => intent # NoIntent
               /\ intent.kind = "PinIdentity" /\ retained # Nothing =>
                     retained = Identity(intent.pubkey, "Observed")
               /\ decision = "None" => intent.kind # "PinIdentity"
<1>1. CASE retained = Nothing
  BY <1>1 DEF Resolve, ResolveFirstContact, Resolution, NoIntent, Intend, Intent
<1>2. CASE retained # Nothing /\ retained.pubkey = presented
  <2>1. retained \in RetainedIdentity
    BY <1>2 DEF MaybeRetained
  <2>2. retained = Identity(retained.pubkey, retained.provenance)
    BY <2>1 DEF RetainedIdentity, Identity
  <2>3. QED
    BY <1>2, <2>2 DEF Resolve, ResolveMatched, Resolution, NoIntent, Intend, Intent
<1>3. CASE retained # Nothing /\ retained.pubkey # presented
  BY <1>3 DEF Resolve, ResolveMismatch, Resolution, NoIntent, IntendReplace, Intent
<1>4. QED
  BY <1>1, <1>2, <1>3

\* Before any launch nothing is read and no snapshot taken.
LEMMA OverlapInit == ConcurrentInit => OverlapInv
<1> SUFFICES ASSUME ConcurrentInit PROVE OverlapInv
  OBVIOUS
<1>1. \A w \in Windows : win[w] = IdleWindow
  BY DEF ConcurrentInit, Init, InitFrom
<1>2. IdleWindow.pc = "idle"
  BY DEF IdleWindow
<1>3. QED
  BY <1>1, <1>2 DEF OverlapInv, SnapshotKept, ObservationKept, ReadKept, OneCall, Persisting,
     PersistPoints

\* The stepping window keeps its part.
LEMMA OwnSnapshot ==
    ASSUME NoStoreErrors, IInv, NEW w \in Windows, SnapshotKept(w),
           Progress(w) \/ User(w) \/ Crash(w)
    PROVE  SnapshotKept(w)'
<1> DEFINE v == win[w]
           u == win'[w]
<1>1. /\ v \in WindowStates /\ WindowOK(w) /\ win \in [Windows -> WindowStates]
      /\ identities \in [Sites -> IdentityFiles]
  BY DEF IInv, TypeOK, WindowInv
<1>2. ASSUME NEW x \in Sites, NEW m \in Manifests, Launch(w, x, m)
      PROVE  SnapshotKept(w)'
  <2>1. /\ u.pc = "loading" /\ u.site = x /\ u.retained = Retained(identities[x])
        /\ identities' = identities
    BY <1>1, <1>2 DEF Launch, IdleWindow
  <2>2. QED
    BY <1>1, <2>1, RetainedType DEF SnapshotKept, PersistPoints
<1>3. ASSUME LoadAccepted(w)
      PROVE  SnapshotKept(w)'
  <2> DEFINE r == Resolve(v.manifest.pub, v.retained, "None")
  <2>1. /\ v.manifest.pub \in Publishers /\ v.retained \in MaybeRetained
        /\ "None" \in UserDecisions /\ v.pc = "loading"
    BY <1>1, <1>3, ManifestsAssumption DEF LoadAccepted, WindowOK, WindowStates, UserDecisions
  <2>2. /\ r.intent.kind # "PinIdentity"
        /\ v.retained = Nothing => r.intent # NoIntent
    BY <2>1, ResolvePin
  <2>3. /\ u.pc = PersistFrom(r.intent) /\ u.site = v.site /\ u.retained = v.retained
        /\ u.intent = r.intent /\ identities' = identities
    BY <1>1, <1>3 DEF LoadAccepted, WindowStates
  <2> HIDE DEF r
  <2>4. QED
    BY <2>1, <2>2, <2>3 DEF SnapshotKept, PersistFrom
<1>4. CASE LoadRejected(w) \/ Quit(w) \/ Crash(w)
  <2>1. u.pc = "idle"
    BY <1>1, <1>4 DEF LoadRejected, Quit, Crash, IdleWindow
  <2>2. QED
    BY <2>1 DEF SnapshotKept, PersistPoints
<1>5. CASE ReadIdentity(w)
  <2>1. /\ v.pc = "identityRead" /\ v.intent # NoIntent /\ v.intent \in PersistenceIntents
    BY <1>1, <1>5 DEF ReadIdentity, WindowOK, PersistPoints, WindowStates
  <2>2. v.intent.kind # "None"
    BY <2>1, IntentShape
  <2>3. /\ u.site = v.site /\ u.retained = v.retained /\ u.intent = v.intent
        /\ identities' = identities
        /\ IF StoreWrites(identities[v.site], v.intent)
           THEN u.pc = "identityWrite" /\ u.file = identities[v.site]
           ELSE u.pc = "historyRead"
    BY <1>1, <1>5 DEF ReadIdentity, WindowStates
  <2>4. ~StoreWrites(identities[v.site], v.intent) => identities[v.site] # NoFile
    BY <2>2 DEF StoreWrites
  <2>5. QED
    BY <2>1, <2>3, <2>4 DEF SnapshotKept, PersistPoints
<1>6. CASE WriteIdentity(w)
  <2>1. /\ u.pc = "historyRead" /\ u.site = v.site /\ u.retained = v.retained
        /\ u.intent = v.intent /\ v.pc = "identityWrite"
    BY <1>1, <1>6 DEF WriteIdentity, WindowStates
  <2>2. identities'[v.site] # NoFile
    BY <1>1, <1>6, WrittenFile DEF IInv
  <2>3. QED
    BY <2>1, <2>2 DEF SnapshotKept, PersistPoints
<1>7. CASE ReadHistory(w) \/ WriteHistory(w)
  <2>1. CASE ReadHistory(w)
    <3>1. /\ u.site = v.site /\ u.retained = v.retained /\ u.intent = v.intent
          /\ identities' = identities /\ v.pc = "historyRead" /\ u.pc = "historyWrite"
      BY <1>1, <2>1 DEF ReadHistory, WindowStates
    <3>2. QED
      BY <3>1 DEF SnapshotKept, PersistPoints
  <2>2. CASE WriteHistory(w)
    <3>1. /\ u.site = v.site /\ u.retained = v.retained /\ u.intent = v.intent
          /\ identities' = identities /\ v.pc = "historyWrite" /\ u.pc = "reload"
      BY <1>1, <2>2 DEF WriteHistory, WindowStates
    <3>2. QED
      BY <3>1 DEF SnapshotKept, PersistPoints
  <2>3. QED
    BY <1>7, <2>1, <2>2
<1>8. CASE PersistFails(w)
  BY <1>8 DEF PersistFails, NoStoreErrors
<1>9. CASE Reload(w)
  <2>1. Snapshots(v) = {Retained(identities[v.site])}
    BY DEF Snapshots, NoStoreErrors
  <2>2. /\ u.pc = "open" /\ u.site = v.site /\ u.retained = Retained(identities[v.site])
        /\ identities' = identities /\ v.pc = "reload"
    BY <1>1, <1>9, <2>1 DEF Reload, WindowStates
  <2>3. v.site \in Sites
    BY <1>1, <2>2 DEF WindowOK
  <2>4. QED
    BY <1>1, <2>2, <2>3, RetainedType DEF SnapshotKept, PersistPoints
<1>10. ASSUME NEW decision \in UserDecisions, Decide(w, decision)
       PROVE  SnapshotKept(w)'
  <2> DEFINE r == Resolve(v.manifest.pub, v.retained, decision)
  <2>1. /\ v.manifest.pub \in Publishers /\ v.retained \in MaybeRetained /\ v.pc = "open"
    BY <1>1, <1>10, ManifestsAssumption DEF Decide, WindowOK, WindowStates
  <2>2. v.retained # Nothing /\ identities[v.site] # NoFile
    BY <2>1 DEF SnapshotKept
  <2>3. r.intent.kind = "PinIdentity" => v.retained = Identity(r.intent.pubkey, "Observed")
    BY <2>1, <2>2, ResolvePin
  <2>4. /\ u.pc = PersistFrom(r.intent) /\ u.site = v.site /\ u.retained = v.retained
        /\ u.intent = r.intent /\ identities' = identities
    BY <1>1, <1>10 DEF Decide, WindowStates
  <2> HIDE DEF r
  <2>5. QED
    BY <2>2, <2>3, <2>4 DEF SnapshotKept, PersistFrom, PersistPoints
<1>11. CASE Decline(w)
  <2>1. /\ v.pc = "open" /\ u.pc = "open" /\ u.site = v.site /\ u.retained = v.retained
        /\ identities' = identities
    BY <1>1, <1>11 DEF Decline, WindowStates
  <2>2. QED
    BY <2>1 DEF SnapshotKept, PersistPoints
<1>12. QED
  BY <1>2, <1>3, <1>4, <1>5, <1>6, <1>7, <1>8, <1>9, <1>10, <1>11 DEF Progress, User

\* A file once there stays there, and so does what the others know of it.
LEMMA OthersSnapshots ==
    ASSUME IInv, NEW w \in Windows, Progress(w) \/ User(w) \/ Crash(w),
           NEW u \in Windows \ {w}, SnapshotKept(u)
    PROVE  SnapshotKept(u)'
<1>1. win'[u] = win[u]
  BY OthersKept DEF IInv
<1>2. Next
  BY DEF Next
<1>3. \A x \in Sites : identities[x] # NoFile => identities'[x] # NoFile
  <2>1. CASE identities' = identities
    BY <2>1
  <2>2. CASE identities' # identities
    <3>1. PICK z \in Windows : WriteIdentity(z)
      BY <1>2, <2>2, OnlyWriteIdentity DEF IInv
    <3>2. QED
      BY <3>1, WrittenFile DEF IInv, TypeOK
  <2>3. QED
    BY <2>1, <2>2
<1>4. win[u].pc # "idle" => win[u].site \in Sites
  BY DEF IInv, WindowInv, WindowOK
<1>5. QED
  BY <1>1, <1>3, <1>4 DEF SnapshotKept, PersistPoints

\* SnapshotKept survives any interleaving, crashes included.
LEMMA SnapshotsStep ==
    ASSUME NoStoreErrors, IInv, \A w \in Windows : SnapshotKept(w), Next
    PROVE  \A w \in Windows : SnapshotKept(w)'
<1>1. PICK w \in Windows : Progress(w) \/ User(w) \/ Crash(w)
  BY DEF Next
<1>2. SnapshotKept(w)'
  BY <1>1, OwnSnapshot
<1>3. \A u \in Windows \ {w} : SnapshotKept(u)'
  BY <1>1, OthersSnapshots
<1>4. QED
  BY <1>2, <1>3

----------------------------------------------------------------------------
\* What the write of an observation or of a pin, on the file as it is, does to
\* the record: it makes one, or turns an observation into a pin.
LEMMA WriteRaises ==
    ASSUME NEW file \in IdentityFiles, NEW intent \in PersistenceIntents,
           StoreWrites(file, intent)
    PROVE  LET old == Retained(file)
               new == Retained(FileAfter(file, intent))
           IN  /\ new.pubkey = intent.pubkey
               /\ new.provenance = "Observed" => old = Nothing
               /\ intent.kind = "RecordObservation" =>
                     old = Nothing /\ new.provenance = "Observed"
               /\ intent.kind = "PinIdentity" =>
                     /\ old = Nothing \/ old.provenance = "Observed"
                     /\ new.provenance = "Pinned"
<1>1. intent # NoIntent
  BY DEF StoreWrites, NoIntent, Intent
<1>2. file = NoFile => Retained(file) = Nothing
  BY RetainedType
<1>3. /\ Retained(FileAfter(file, intent)).pubkey = intent.pubkey
      /\ Retained(FileAfter(file, intent)).provenance = ProvenanceOf(intent)
  BY <1>1, IntentShape DEF Retained, Identity, FileAfter, IdentityFile, DecodeProvenance,
     ProvenanceOf
<1>4. intent.kind \in {"RecordObservation", "PinIdentity", "MarkExternallyVerified", "ReplaceIdentity"}
      /\ (intent.externally_verified => intent.kind = "ReplaceIdentity")
  BY <1>1, IntentShape
<1>5. QED
  BY <1>2, <1>3, <1>4 DEF StoreWrites, ProvenanceOf

\* A window that has just written is still inside persist.
LEMMA WriterPersists ==
    ASSUME TypeOK, NEW w \in Windows, WriteIdentity(w) \/ WriteHistory(w)
    PROVE  /\ w \in Persisting /\ w \in Persisting'
           /\ WriteIdentity(w) => win'[w].pc = "historyRead"
           /\ WriteHistory(w) => win'[w].pc = "reload"
<1>1. ASSUME WriteIdentity(w)
      PROVE  win[w].pc = "identityWrite" /\ win'[w].pc = "historyRead"
  BY <1>1 DEF TypeOK, WriteIdentity, WindowStates
<1>2. ASSUME WriteHistory(w)
      PROVE  win[w].pc = "historyWrite" /\ win'[w].pc = "reload"
  BY <1>2 DEF TypeOK, WriteHistory, WindowStates
<1>3. QED
  BY <1>1, <1>2 DEF Persisting, PersistPoints

\* While one window at a time persists, no other file write comes between a
\* read and the write that uses it.
LEMMA ReadsStep ==
    ASSUME IInv, Next, OneCall', \A w \in Windows : ReadKept(w)
    PROVE  \A w \in Windows : ReadKept(w)'
<1> SUFFICES ASSUME NEW u \in Windows PROVE ReadKept(u)'
  OBVIOUS
<1>1. PICK w \in Windows : Progress(w) \/ User(w) \/ Crash(w)
  BY DEF Next
<1>2. TypeOK /\ win \in [Windows -> WindowStates]
  BY DEF IInv, TypeOK
<1>3. CASE u # w
  <2>1. win'[u] = win[u]
    BY <1>1, <1>2, <1>3, OthersKept
  <2>2. win[u].pc = "identityWrite" => identities' = identities
    <3> SUFFICES ASSUME win[u].pc = "identityWrite", identities' # identities PROVE FALSE
      OBVIOUS
    <3>1. PICK z \in Windows : WriteIdentity(z)
      BY <1>2, OnlyWriteIdentity
    <3>2. z = u
      BY <1>2, <2>1, <3>1, WriterPersists DEF OneCall, Persisting, PersistPoints
    <3>3. QED
      BY <1>2, <2>1, <3>1, <3>2, WriterPersists
  <2>3. win[u].pc = "historyWrite" => histories' = histories
    <3> SUFFICES ASSUME win[u].pc = "historyWrite", histories' # histories PROVE FALSE
      OBVIOUS
    <3>1. PICK z \in Windows : WriteHistory(z)
      BY <1>2, OnlyWriteHistory
    <3>2. z = u
      BY <1>2, <2>1, <3>1, WriterPersists DEF OneCall, Persisting, PersistPoints
    <3>3. QED
      BY <1>2, <2>1, <3>1, <3>2, WriterPersists
  <2>4. QED
    BY <2>1, <2>2, <2>3 DEF ReadKept
<1>4. CASE u = w
  <2>1. CASE ReadIdentity(w)
    BY <1>2, <1>4, <2>1 DEF ReadIdentity, ReadKept, WindowStates
  <2>2. CASE ReadHistory(w)
    BY <1>2, <1>4, <2>2 DEF ReadHistory, ReadKept, WindowStates
  <2>3. CASE ~ReadIdentity(w) /\ ~ReadHistory(w)
    <3>1. win'[w].pc \notin {"identityWrite", "historyWrite"}
      <4>0. ASSUME NEW x \in Sites, NEW m \in Manifests, Launch(w, x, m)
            PROVE  win'[w].pc = "loading"
        BY <1>2, <4>0 DEF Launch, IdleWindow
      <4>1. CASE LoadAccepted(w)
        BY <1>2, <4>1 DEF LoadAccepted, PersistFrom, WindowStates
      <4>2. CASE LoadRejected(w) \/ Quit(w) \/ Crash(w)
        BY <1>2, <4>2 DEF LoadRejected, Quit, Crash, IdleWindow
      <4>3. CASE WriteIdentity(w) \/ WriteHistory(w)
        BY <1>2, <4>3, WriterPersists
      <4>4. CASE PersistFails(w)
        <5>1. win' = [win EXCEPT ![w] = [@ EXCEPT !.pc = "reload", !.failed = TRUE,
                                                  !.file = NoFile, !.log = <<>>]]
          BY <1>2, <4>4 DEF PersistFails, WindowStates
        <5>2. QED
          BY <1>2, <5>1 DEF WindowStates
      <4>5. CASE Reload(w)
        BY <1>2, <4>5 DEF Reload, WindowStates
      <4>6. CASE \E decision \in UserDecisions : Decide(w, decision)
        BY <1>2, <4>6 DEF Decide, PersistFrom, WindowStates
      <4>7. CASE Decline(w)
        BY <1>2, <4>7 DEF Decline, WindowStates
      <4>8. QED
        BY <1>1, <2>3, <4>0, <4>1, <4>2, <4>3, <4>4, <4>5, <4>6, <4>7 DEF Progress, User
    <3>2. QED
      BY <1>4, <3>1 DEF ReadKept
  <2>4. QED
    BY <2>1, <2>2, <2>3
<1>5. QED
  BY <1>3, <1>4

\* Only a decision turns an observed key into another one.
LEMMA ObservationsStep ==
    ASSUME NoStoreErrors, IInv, Next, NEW u \in Windows, SnapshotKept(u), ObservationKept(u),
           \A w \in Windows : SnapshotKept(w) /\ ReadKept(w)
    PROVE  ObservationKept(u)'
<1>1. /\ TypeOK /\ win \in [Windows -> WindowStates] /\ identities \in [Sites -> IdentityFiles]
      /\ win[u] \in WindowStates /\ WindowOK(u)
  BY DEF IInv, TypeOK, WindowInv
<1>2. CASE identities' # identities
  <2>1. PICK w \in Windows : WriteIdentity(w)
    BY <1>1, <1>2, OnlyWriteIdentity
  <2> DEFINE v == win[w]
             x == v.site
             file == FileAfter(v.file, v.intent)
  <2>2. /\ x \in Sites /\ v.intent \in PersistenceIntents /\ v.pc = "identityWrite"
        /\ identities' = [identities EXCEPT ![x] = file] /\ v.file \in IdentityFiles
    BY <1>1, <2>1, WrittenFile DEF IInv, WriteIdentity, WindowStates
  <2>3. v.file = identities[x] /\ StoreWrites(v.file, v.intent)
    BY <2>2 DEF ReadKept, SnapshotKept
  <2>4. Retained(file).provenance = "Observed" => identities[x] = NoFile
    BY <2>2, <2>3, WriteRaises, RetainedType
  <2>5. /\ win'[u].site = win[u].site /\ win'[u].retained = win[u].retained
        /\ win'[u].pc # "idle" => win[u].pc # "idle"
    BY <1>1, <2>1 DEF WriteIdentity, WindowStates
  <2>6. win[u].retained.provenance = "Observed" => win[u].retained # Nothing
    BY DEF Nothing
  <2>7. CASE win[u].site = x
    <3>1. identities'[x] = file
      BY <1>1, <2>2
    <3> HIDE DEF x, file
    <3>2. QED
      BY <2>4, <2>5, <2>6, <2>7, <3>1 DEF ObservationKept, SnapshotKept
  <2>8. CASE win[u].site # x
    <3>1. win[u].pc # "idle" => identities'[win[u].site] = identities[win[u].site]
      BY <1>1, <2>2, <2>8 DEF WindowOK
    <3>2. QED
      BY <2>5, <3>1 DEF ObservationKept
  <2>9. QED
    BY <2>7, <2>8
<1>3. CASE identities' = identities
  <2>1. \/ win'[u].pc = "idle"
        \/ win'[u].retained = Retained(identities[win'[u].site])
        \/ /\ win[u].pc # "idle" /\ win'[u].retained = win[u].retained
           /\ win'[u].site = win[u].site
    <3>1. PICK w \in Windows : Progress(w) \/ User(w) \/ Crash(w)
      BY DEF Next
    <3>2. CASE u # w
      BY <1>1, <3>1, <3>2, OthersKept
    <3>3. CASE u = w
      <4>1. CASE \E x \in Sites, m \in Manifests : Launch(w, x, m)
        BY <1>1, <3>3, <4>1 DEF Launch, IdleWindow
      <4>2. CASE LoadRejected(w) \/ Quit(w) \/ Crash(w)
        BY <1>1, <3>3, <4>2 DEF LoadRejected, Quit, Crash, IdleWindow
      <4>3. CASE Reload(w)
        <5>1. Snapshots(win[w]) = {Retained(identities[win[w].site])}
          BY DEF Snapshots, NoStoreErrors
        <5>2. QED
          BY <1>1, <3>3, <4>3, <5>1 DEF Reload, WindowStates
      <4>4. CASE LoadAccepted(w)
        BY <1>1, <3>3, <4>4 DEF LoadAccepted, WindowStates
      <4>5. CASE ReadIdentity(w)
        BY <1>1, <3>3, <4>5 DEF ReadIdentity, WindowStates
      <4>6. CASE WriteIdentity(w)
        BY <1>1, <3>3, <4>6 DEF WriteIdentity, WindowStates
      <4>7. CASE ReadHistory(w)
        BY <1>1, <3>3, <4>7 DEF ReadHistory, WindowStates
      <4>8. CASE WriteHistory(w)
        BY <1>1, <3>3, <4>8 DEF WriteHistory, WindowStates
      <4>9. CASE PersistFails(w)
        BY <4>9 DEF PersistFails, NoStoreErrors
      <4>10. CASE \E decision \in UserDecisions : Decide(w, decision)
        BY <1>1, <3>3, <4>10 DEF Decide, WindowStates
      <4>11. CASE Decline(w)
        BY <1>1, <3>3, <4>11 DEF Decline, WindowStates
      <4>12. QED
        BY <3>1, <4>1, <4>2, <4>3, <4>4, <4>5, <4>6, <4>7, <4>8, <4>9, <4>10, <4>11
        DEF Progress, User
    <3>4. QED
      BY <3>2, <3>3
  <2>2. QED
    BY <1>3, <2>1 DEF ObservationKept
<1>4. QED
  BY <1>2, <1>3

\* OverlapInv is inductive, given IInv.
LEMMA OverlapStep ==
    ASSUME NoStoreErrors
    PROVE  IInv /\ OverlapInv /\ [ConcurrentNext]_allVars => OverlapInv'
<1> SUFFICES ASSUME IInv, OverlapInv, [ConcurrentNext]_allVars
             PROVE  OverlapInv'
  OBVIOUS
<1>1. CASE UNCHANGED allVars
  BY <1>1 DEF allVars, vars, OverlapInv, SnapshotKept, ObservationKept, ReadKept, OneCall,
     Persisting
<1>2. CASE ConcurrentNext
  <2>1. Next /\ overlapped' = (overlapped \/ \E v, w \in Persisting' : v # w)
    BY <1>2 DEF ConcurrentNext
  <2>2. \A w \in Windows : SnapshotKept(w)
    BY DEF OverlapInv
  <2>3. \A w \in Windows : SnapshotKept(w)'
    BY <2>1, <2>2, SnapshotsStep
  <2>4. ASSUME ~overlapped'
        PROVE  OneCall' /\ \A w \in Windows : ObservationKept(w)' /\ ReadKept(w)'
    <3>1. /\ ~overlapped /\ OneCall'
          /\ \A w \in Windows : ObservationKept(w) /\ ReadKept(w)
      BY <2>1, <2>4 DEF OverlapInv, OneCall
    <3>2. \A w \in Windows : ReadKept(w)'
      BY <2>1, <3>1, ReadsStep
    <3>3. ASSUME NEW w \in Windows PROVE ObservationKept(w)'
      BY <2>1, <2>2, <3>1, ObservationsStep
    <3>4. QED
      BY <3>1, <3>2, <3>3
  <2>5. QED
    BY <2>3, <2>4 DEF OverlapInv
<1>3. QED
  BY <1>1, <1>2

\* The flag only watches: every behaviour is one of ClientSession.
LEMMA Watching ==
    /\ ConcurrentInit => Init
    /\ [ConcurrentNext]_allVars => [Next]_vars
  BY DEF ConcurrentInit, ConcurrentNext, allVars

\* The two invariants, on every behaviour without store errors.
THEOREM OverlapInvariance ==
    ASSUME NoStoreErrors
    PROVE  ConcurrentSpec => [](IInv /\ OverlapInv)
<1>1. ConcurrentInit => IInv /\ OverlapInv
  BY Watching, InvInit, OverlapInit
<1>2. IInv /\ OverlapInv /\ [ConcurrentNext]_allVars => (IInv /\ OverlapInv)'
  BY Watching, InvStep, OverlapStep
<1>3. QED
  BY <1>1, <1>2, PTL DEF ConcurrentSpec

----------------------------------------------------------------------------
\* Without overlapping or failing store calls a pin or an observation never
\* lowers what another window established, however long ago its own window
\* loaded the site, and never puts another key in its place.
THEOREM PinsDemoteNothing ==
    ASSUME NoStoreErrors
    PROVE  ConcurrentSpec => PinNeverDemotes
<1>1. ASSUME IInv, OverlapInv, [ConcurrentNext]_allVars, ~overlapped'
      PROVE  PinDemotesNothing
  <2> SUFFICES ASSUME NEW x \in Sites, NEW w \in Windows,
                      Retained(identities'[x]) # Retained(identities[x]),
                      win[w].site = x, win[w].pc = "identityWrite",
                      win[w].intent.kind \in {"RecordObservation", "PinIdentity"}
               PROVE  LET old == Retained(identities[x])
                          new == Retained(identities'[x])
                      IN  /\ Rank(new.provenance) > Rank(old.provenance)
                          /\ old = Nothing \/ new.pubkey = old.pubkey
    BY DEF PinDemotesNothing
  <2> DEFINE old == Retained(identities[x])
             new == Retained(identities'[x])
  <2>0. TypeOK /\ WindowInv
    BY <1>1 DEF IInv
  <2>1. /\ identities' # identities
        /\ win[w] \in WindowStates /\ identities \in [Sites -> IdentityFiles]
    BY <2>0 DEF TypeOK
  <2>2. Next /\ ~overlapped /\ OneCall'
    BY <1>1, <2>1 DEF ConcurrentNext, allVars, vars, OneCall
  <2>3. PICK z \in Windows : WriteIdentity(z)
    BY <2>0, <2>1, <2>2, OnlyWriteIdentity
  <2>4. z \in Persisting /\ w \in Persisting
    BY <2>0, <2>3, WriterPersists DEF Persisting, PersistPoints
  <2>5. z = w
    BY <1>1, <2>2, <2>4 DEF OverlapInv, OneCall
  <2>6. identities'[x] = FileAfter(win[w].file, win[w].intent)
    BY <2>1, <2>3, <2>5 DEF WriteIdentity
  <2>7. /\ win[w].file = identities[x] /\ StoreWrites(win[w].file, win[w].intent)
        /\ SnapshotKept(w) /\ ObservationKept(w)
    BY <1>1, <2>2 DEF OverlapInv, ReadKept, SnapshotKept
  <2>8. win[w].intent \in PersistenceIntents /\ identities[x] \in IdentityFiles
    BY <2>1 DEF WindowStates
  <2>9. /\ new.pubkey = win[w].intent.pubkey
        /\ win[w].intent.kind = "RecordObservation" =>
              old = Nothing /\ new.provenance = "Observed"
        /\ win[w].intent.kind = "PinIdentity" =>
              /\ old = Nothing \/ old.provenance = "Observed"
              /\ new.provenance = "Pinned"
    BY <2>6, <2>7, <2>8, WriteRaises
  <2>10. CASE old = Nothing
    <3>1. old.provenance = "Absent"
      BY <2>10 DEF Nothing, Identity
    <3>2. new.provenance \in {"Observed", "Pinned"}
      BY <2>9
    <3>3. QED
      BY <2>10, <3>1, <3>2 DEF Rank
  <2>11. CASE old # Nothing
    <3>1. win[w].intent.kind = "PinIdentity"
      BY <2>9, <2>11
    <3>2. old.provenance = "Observed" /\ new.provenance = "Pinned"
      BY <2>9, <2>11, <3>1
    <3>3. win[w].retained = Identity(win[w].intent.pubkey, "Observed")
      BY <2>7, <3>1 DEF SnapshotKept, PersistPoints
    <3>4. old.pubkey = new.pubkey
      BY <2>7, <2>9, <3>2, <3>3 DEF ObservationKept, Identity
    <3>5. QED
      BY <3>2, <3>4 DEF Rank
  <2>12. QED
    BY <2>10, <2>11
<1>2. IInv /\ OverlapInv /\ [ConcurrentNext]_allVars
         => [~overlapped' => PinDemotesNothing]_allVars
  BY <1>1
<1>3. QED
  BY <1>2, OverlapInvariance, PTL DEF ConcurrentSpec, PinNeverDemotes

\* The tail of a sequence with an element put in front is the sequence.
LEMMA TailOfPrepend ==
    ASSUME NEW S, NEW e, NEW seq \in Seq(S)
    PROVE  <<e>> \o seq # <<>> /\ Tail(<<e>> \o seq) = seq
<1> DEFINE T == S \cup {e}
           both == <<e>> \o seq
<1>1. e \in T /\ seq \in Seq(T)
  OBVIOUS
<1>2. /\ both \in Seq(T) /\ Len(both) = Len(seq) + 1 /\ Len(seq) \in Nat
      /\ \A i \in 1 .. Len(seq) + 1 : both[i] = IF i = 1 THEN e ELSE seq[i - 1]
  BY <1>1, PrependProperties, LenProperties
<1> HIDE DEF T, both
<1>3. both # <<>>
  BY <1>2
<1>4. /\ Tail(both) \in Seq(T) /\ Len(Tail(both)) = Len(seq)
      /\ \A i \in 1 .. Len(seq) : Tail(both)[i] = seq[i]
  BY <1>2, <1>3, HeadTailProperties
<1>5. Tail(both) = seq
  BY <1>1, <1>4, SeqEqual
<1>6. QED
  BY <1>3, <1>5 DEF both

\* Without overlapping or failing store calls an append only adds in front: no
\* retained record is dropped or changed, whichever window accepted it.
THEOREM HistoriesGrow ==
    ASSUME NoStoreErrors
    PROVE  ConcurrentSpec => HistoryOnlyGrows
<1>1. ASSUME IInv, OverlapInv, [ConcurrentNext]_allVars, ~overlapped'
      PROVE  HistoryGrows
  <2> SUFFICES ASSUME NEW p \in Publishers, histories'[p] # histories[p]
               PROVE  histories'[p] # <<>> /\ Tail(histories'[p]) = histories[p]
    BY DEF HistoryGrows
  <2>0. TypeOK
    BY <1>1 DEF IInv
  <2>1. histories' # histories /\ histories \in [Publishers -> Seq(Records)]
    BY <2>0 DEF TypeOK
  <2>2. Next /\ ~overlapped
    BY <1>1, <2>1 DEF ConcurrentNext, allVars, vars
  <2>3. PICK w \in Windows : WriteHistory(w)
    BY <2>0, <2>1, <2>2, OnlyWriteHistory
  <2> DEFINE v == win[w]
  <2>4. /\ v.intent.pubkey = p /\ histories'[p] = Prepend(RecordFor(v.manifest), v.log)
    BY <2>1, <2>3 DEF WriteHistory
  <2>5. v.log = histories[p]
    BY <1>1, <2>2, <2>3, <2>4 DEF OverlapInv, ReadKept, WriteHistory
  <2>6. histories[p] \in Seq(Records)
    BY <2>1
  <2>7. histories'[p] = <<RecordFor(v.manifest)>> \o histories[p]
    BY <2>4, <2>5 DEF Prepend
  <2> HIDE DEF v
  <2>8. QED
    BY <2>6, <2>7, TailOfPrepend
<1>2. IInv /\ OverlapInv /\ [ConcurrentNext]_allVars
         => [~overlapped' => HistoryGrows]_allVars
  BY <1>1
<1>3. QED
  BY <1>2, OverlapInvariance, PTL DEF ConcurrentSpec, HistoryOnlyGrows
=============================================================================
