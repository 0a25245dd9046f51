----------------------------- MODULE ApartProofs -----------------------------
(***************************************************************************)
(* Theorems about windows that keep apart, for any sites, keys, manifests    *)
(* and windows, under crashes and store errors at every step: what the       *)
(* properties of SessionProperties and the refinement of MemoryStores need   *)
(* beyond the invariant of SessionProofs.                                    *)
(*                                                                           *)
(* HistoryInv: the checks a manifest passed on loading still hold when its   *)
(* record is written, as long as no other window writes that publisher's     *)
(* history.  SnapshotInv: while a prompt can be answered, the snapshot a     *)
(* decision is resolved against is what the store retains, or lacks only the *)
(* window's own observation, as long as no other window has the site open.   *)
(***************************************************************************)
EXTENDS SessionProofs, SessionRefinement

\* The client used one window at a time keeps its windows apart.
OneWindow == \A v, w \in Windows : v = w

\* One window, or any number that open different sites of different publishers.
THEOREM OneWindowIsApart ==
    ASSUME OneWindow PROVE Spec => []SitesApart /\ []PublishersApart
<1>1. SitesApart /\ PublishersApart
  BY DEF OneWindow, SitesApart, PublishersApart
<1>2. QED
  BY <1>1, PTL

\* A step of one window leaves the files of another that keeps apart from it.
LEMMA OtherSitesKept ==
    ASSUME IInv, SitesApart, NEW w \in Windows, Progress(w) \/ User(w) \/ Crash(w),
           NEW u \in Windows \ {w}
    PROVE  /\ win'[u] = win[u]
           /\ win[u].pc # "idle" => identities'[win[u].site] = identities[win[u].site]
<1>1. TypeOK /\ win'[u] = win[u]
  BY OthersKept DEF IInv
<1>2. ASSUME win[u].pc # "idle", WriteIdentity(w)
      PROVE  identities'[win[u].site] = identities[win[u].site]
  <2>1. win[w].pc # "idle" /\ win[w].site # win[u].site
    BY <1>2 DEF WriteIdentity, SitesApart
  <2>2. QED
    BY <1>1, <1>2, <2>1 DEF WriteIdentity, TypeOK
<1>3. ASSUME ~WriteIdentity(w)
      PROVE  identities' = identities
  BY <1>3 DEF Progress, User, Crash, Launch, LoadAccepted, LoadRejected, ReadIdentity,
     ReadHistory, WriteHistory, PersistFails, Reload, Decide, Decline, Quit
<1>4. QED
  BY <1>1, <1>2, <1>3

LEMMA OtherHistoriesKept ==
    ASSUME IInv, PublishersApart, NEW w \in Windows, Progress(w) \/ User(w) \/ Crash(w),
           NEW u \in Windows \ {w}
    PROVE  /\ win'[u] = win[u]
           /\ win[u].pc # "idle" =>
                 histories'[win[u].manifest.pub] = histories[win[u].manifest.pub]
<1>1. TypeOK /\ win'[u] = win[u]
  BY OthersKept DEF IInv
<1>2. ASSUME win[u].pc # "idle", WriteHistory(w)
      PROVE  histories'[win[u].manifest.pub] = histories[win[u].manifest.pub]
  <2>1. win[w].pc # "idle" /\ win[w].intent.pubkey = win[w].manifest.pub
    BY <1>2 DEF WriteHistory, IInv, WindowInv, WindowOK, Justified, PersistPoints
  <2>2. win[w].intent.pubkey # win[u].manifest.pub
    BY <1>2, <2>1 DEF PublishersApart
  <2>3. QED
    BY <1>1, <1>2, <2>2 DEF WriteHistory, TypeOK
<1>3. ASSUME ~WriteHistory(w)
      PROVE  histories' = histories
  BY <1>3 DEF Progress, User, Crash, Launch, LoadAccepted, LoadRejected, ReadIdentity,
     WriteIdentity, ReadHistory, PersistFails, Reload, Decide, Decline, Quit
<1>4. QED
  BY <1>1, <1>2, <1>3

----------------------------------------------------------------------------
CheckedOK(w) ==
    LET v == win[w] IN
    v.pc \notin {"idle", "loading"} =>
       /\ CheckAgainstHistory(v.manifest, histories[v.manifest.pub])
       /\ v.pc = "historyWrite" => v.log = histories[v.manifest.pub]

HistoryInv ==
    HistoryNewestFirst /\ HistoryConsistent /\ \A w \in Windows : CheckedOK(w)

----------------------------------------------------------------------------
\* Records of one publisher, ordered and consistent, stay so when the record of
\* a manifest that passes the checks is put in front, and the manifest passes
\* the checks again afterwards.
Ordered(h) ==
    \A i, j \in DOMAIN h : i < j => h[i].issued >= h[j].issued

Consistent(h) ==
    \A i, j \in DOMAIN h :
       /\ h[i].issued = h[j].issued => h[i].hash = h[j].hash
       /\ i = j + 1 /\ h[i].hash # h[j].hash => h[i].rk # h[j].rk

LEMMA RecordFields ==
    ASSUME NEW r \in Records
    PROVE  r.issued \in Nat
  BY ManifestsAssumption DEF Records, RecordFor

LEMMA PrependChecked ==
    ASSUME NEW m \in Manifests, NEW h \in Seq(Records), Ordered(h), Consistent(h),
           CheckAgainstHistory(m, h)
    PROVE  LET new == Prepend(RecordFor(m), h) IN
           Ordered(new) /\ Consistent(new) /\ CheckAgainstHistory(m, new)
<1> DEFINE e == RecordFor(m)
           new == Prepend(e, h)
<1>1. e \in Records
  BY DEF Records
<1>2. /\ new \in Seq(Records) /\ Len(new) = Len(h) + 1
      /\ \A i \in 1 .. Len(h) + 1 : new[i] = IF i = 1 THEN e ELSE h[i - 1]
  BY <1>1, PrependProperties DEF Prepend
<1>3. Len(h) \in Nat /\ DOMAIN h = 1 .. Len(h) /\ DOMAIN new = 1 .. Len(h) + 1
  BY <1>2, LenProperties
<1>4. \A i \in DOMAIN h : h[i] \in Records /\ h[i].issued \in Nat
  BY <1>3, RecordFields, ElementOfSeq
<1>5. e.issued \in Nat
  BY <1>1, RecordFields
<1>6. \A i \in DOMAIN h :
         /\ e.issued >= h[i].issued
         /\ e.issued = h[i].issued => e.hash = h[i].hash
  <2> SUFFICES ASSUME NEW i \in DOMAIN h
               PROVE  /\ e.issued >= h[i].issued
                      /\ e.issued = h[i].issued => e.hash = h[i].hash
    OBVIOUS
  <2>1. h # <<>> /\ Head(h) = h[1] /\ 1 \in DOMAIN h /\ i >= 1
    BY <1>3
  <2>2. e.issued >= h[1].issued /\ (e.issued = h[1].issued => e.hash = h[1].hash)
    BY <2>1 DEF CheckAgainstHistory, AntiDowngrade, NoCanaryConflict
  <2>3. h[1].issued >= h[i].issued
    BY <1>3, <1>4, <2>1 DEF Ordered
  <2>4. h[1].issued = h[i].issued => h[1].hash = h[i].hash
    BY <2>1 DEF Consistent
  <2>5. QED
    BY <1>4, <1>5, <2>1, <2>2, <2>3, <2>4
<1>7. h # <<>> /\ e.hash # h[1].hash => e.rk # h[1].rk
  <2>1. h # <<>> => Head(h) = h[1]
    BY <1>3
  <2>2. QED
    BY <2>1 DEF CheckAgainstHistory, SamePayloadRefetch, RuntimeKeyRotated
<1> HIDE DEF e, new
<1>8. Ordered(new)
  BY <1>2, <1>3, <1>6 DEF Ordered
<1>9. Consistent(new)
  <2> SUFFICES ASSUME NEW i \in DOMAIN new, NEW j \in DOMAIN new
               PROVE  /\ new[i].issued = new[j].issued => new[i].hash = new[j].hash
                      /\ i = j + 1 /\ new[i].hash # new[j].hash => new[i].rk # new[j].rk
    BY DEF Consistent
  <2>1. CASE i = 1 /\ j = 1
    BY <2>1
  <2>2. CASE i = 1 /\ j # 1
    BY <1>2, <1>3, <1>6, <2>2
  <2>3. CASE i # 1 /\ j = 1
    <3>1. i - 1 \in DOMAIN h /\ new[i] = h[i - 1] /\ new[j] = e
      BY <1>2, <1>3, <2>3
    <3>2. i = j + 1 => i - 1 = 1 /\ h # <<>>
      BY <1>3, <2>3, <3>1
    <3>3. QED
      BY <1>6, <1>7, <3>1, <3>2
  <2>4. CASE i # 1 /\ j # 1
    <3>1. /\ i - 1 \in DOMAIN h /\ new[i] = h[i - 1]
          /\ j - 1 \in DOMAIN h /\ new[j] = h[j - 1]
          /\ i = j + 1 => i - 1 = (j - 1) + 1
      BY <1>2, <1>3, <2>4
    <3>2. QED
      BY <3>1 DEF Consistent
  <2>5. QED
    BY <2>1, <2>2, <2>3, <2>4
<1>10. CheckAgainstHistory(m, new)
  <2>1. new # <<>> /\ Head(new) = e
    BY <1>2, <1>3
  <2>2. QED
    BY <1>5, <2>1 DEF e, CheckAgainstHistory, AntiDowngrade, NoCanaryConflict, SamePayloadRefetch
<1>11. QED
  BY <1>8, <1>9, <1>10 DEF e, new

----------------------------------------------------------------------------
LEMMA HistoryInvInit == Init => HistoryInv
<1> SUFFICES ASSUME Init PROVE HistoryInv
  OBVIOUS
<1>1. PICK past \in Pasts : InitFrom(past)
  BY DEF Init
<1>2. ASSUME NEW p \in Publishers
      PROVE  Ordered(histories[p]) /\ Consistent(histories[p])
  <2>1. CASE histories[p] = <<>>
    BY <2>1 DEF Ordered, Consistent
  <2>2. ASSUME NEW r, histories[p] = <<r>>
        PROVE  Ordered(histories[p]) /\ Consistent(histories[p])
    BY <2>2 DEF Ordered, Consistent
  <2>3. QED
    BY <1>1, <2>1, <2>2, InitHistories
<1>3. QED
  BY <1>1, <1>2 DEF InitFrom, HistoryInv, HistoryNewestFirst, HistoryConsistent, CheckedOK,
     Ordered, Consistent, IdleWindow

LEMMA HistoryInvStep == IInv /\ PublishersApart /\ HistoryInv /\ [Next]_vars => HistoryInv'
<1> SUFFICES ASSUME IInv, PublishersApart, HistoryInv, [Next]_vars
             PROVE  HistoryInv'
  OBVIOUS
<1>1. CASE UNCHANGED vars
  BY <1>1 DEF vars, HistoryInv, HistoryNewestFirst, HistoryConsistent, CheckedOK
<1>2. ASSUME NEW w \in Windows, Progress(w) \/ User(w) \/ Crash(w)
      PROVE  HistoryInv'
  <2> DEFINE v == win[w]
  <2>1. /\ v \in WindowStates /\ WindowOK(w) /\ CheckedOK(w)
        /\ win \in [Windows -> WindowStates] /\ histories \in [Publishers -> Seq(Records)]
    BY DEF IInv, TypeOK, WindowInv, HistoryInv
  <2>a. ASSUME CheckedOK(w)'
        PROVE  \A u \in Windows : CheckedOK(u)'
    <3>1. \A u \in Windows \ {w} : CheckedOK(u)'
      BY <1>2, OtherHistoriesKept DEF HistoryInv, CheckedOK
    <3>2. QED
      BY <2>a, <3>1
  <2>2. ASSUME histories' = histories, CheckedOK(w)'
        PROVE  HistoryInv'
    BY <2>2, <2>a DEF HistoryInv, HistoryNewestFirst, HistoryConsistent
  <2>3. CASE WriteHistory(w)
    <3> DEFINE m == v.manifest
               p == v.manifest.pub
               new == Prepend(RecordFor(m), histories[p])
    <3>1. /\ m \in Manifests /\ p \in Publishers /\ v.intent.pubkey = p
          /\ v.log = histories[p] /\ CheckAgainstHistory(m, histories[p])
      BY <2>1, <2>3, ManifestsAssumption
         DEF WriteHistory, WindowOK, Justified, PersistPoints, CheckedOK
    <3>2. Ordered(histories[p]) /\ Consistent(histories[p]) /\ histories[p] \in Seq(Records)
      BY <2>1, <3>1
         DEF HistoryInv, HistoryNewestFirst, HistoryConsistent, Ordered, Consistent
    <3>3. Ordered(new) /\ Consistent(new) /\ CheckAgainstHistory(m, new)
      BY <3>1, <3>2, PrependChecked
    <3> HIDE DEF new
    <3>4. histories' = [histories EXCEPT ![p] = new]
      BY <2>3, <3>1 DEF WriteHistory, new
    <3>5. win'[w].pc = "reload" /\ win'[w].manifest = m
      BY <2>1, <2>3 DEF WriteHistory, WindowStates
    <3>6. CheckedOK(w)'
      BY <2>1, <3>1, <3>3, <3>4, <3>5 DEF CheckedOK
    <3>7. ASSUME NEW q \in Publishers
          PROVE  Ordered(histories'[q]) /\ Consistent(histories'[q])
      <4>1. CASE q = p
        BY <2>1, <3>1, <3>3, <3>4, <4>1
      <4>2. CASE q # p
        BY <2>1, <3>4, <4>2
           DEF HistoryInv, HistoryNewestFirst, HistoryConsistent, Ordered, Consistent
      <4>3. QED
        BY <4>1, <4>2
    <3>8. QED
      BY <2>a, <3>6, <3>7
         DEF HistoryInv, HistoryNewestFirst, HistoryConsistent, Ordered, Consistent
  <2>4. ASSUME NEW x \in Sites, NEW m \in Manifests, Launch(w, x, m)
        PROVE  HistoryInv'
    BY <2>1, <2>2, <2>4 DEF Launch, CheckedOK, IdleWindow
  <2>5. CASE LoadRejected(w) \/ Quit(w) \/ Crash(w)
    BY <2>1, <2>2, <2>5 DEF LoadRejected, Quit, Crash, CheckedOK, IdleWindow
  <2>6. CASE LoadAccepted(w)
    BY <2>1, <2>2, <2>6 DEF LoadAccepted, CheckedOK, WindowStates, PersistFrom
  <2>7. ASSUME NEW decision \in UserDecisions, Decide(w, decision)
        PROVE  HistoryInv'
    BY <2>1, <2>2, <2>7 DEF Decide, CheckedOK, WindowStates, PersistFrom
  <2>8. CASE ReadHistory(w)
    <3>1. v.intent.pubkey = v.manifest.pub
      BY <2>1, <2>8 DEF ReadHistory, WindowOK, Justified, PersistPoints
    <3>2. QED
      BY <2>1, <2>2, <2>8, <3>1 DEF ReadHistory, CheckedOK, WindowStates
  <2>9. CASE ReadIdentity(w) \/ WriteIdentity(w)
    <3>1. win'[w].pc \in {"identityWrite", "historyRead"} /\ win'[w].manifest = v.manifest
      <4>1. CASE ReadIdentity(w)
        BY <2>1, <4>1 DEF ReadIdentity, WindowStates
      <4>2. CASE WriteIdentity(w)
        BY <2>1, <4>2 DEF WriteIdentity, WindowStates
      <4>3. QED
        BY <2>9, <4>1, <4>2
    <3>2. histories' = histories /\ v.pc \notin {"idle", "loading"}
      BY <2>9 DEF ReadIdentity, WriteIdentity
    <3>3. QED
      BY <2>1, <2>2, <3>1, <3>2 DEF CheckedOK
  <2>10. CASE PersistFails(w)
    BY <2>1, <2>2, <2>10 DEF PersistFails, CheckedOK, WindowStates, PersistPoints
  <2>11. CASE Reload(w)
    BY <2>1, <2>2, <2>11 DEF Reload, CheckedOK, WindowStates
  <2>12. CASE Decline(w)
    BY <2>1, <2>2, <2>12 DEF Decline, CheckedOK, WindowStates
  <2>13. QED
    BY <1>2, <2>3, <2>4, <2>5, <2>6, <2>7, <2>8, <2>9, <2>10, <2>11, <2>12 DEF Progress, User
<1>3. QED
  BY <1>1, <1>2 DEF Next

\* While no two windows open manifests of one publisher, its records are in the
\* order the checks take them to be in, however a window crashed or failed
\* between its steps.
THEOREM OrderedHistories == Spec /\ []PublishersApart => []HistoryNewestFirst
<1>1. HistoryInv => HistoryNewestFirst
  BY DEF HistoryInv
<1>2. IInv /\ PublishersApart /\ HistoryInv /\ [Next]_vars => HistoryInv'
  BY HistoryInvStep
<1>3. QED
  BY <1>1, <1>2, Invariance, HistoryInvInit, PTL DEF Spec

\* ... and no two of them conflict: equal issue times mean equal payloads and
\* neighbouring payloads differ in their runtime key.
THEOREM ConsistentHistories == Spec /\ []PublishersApart => []HistoryConsistent
<1>1. HistoryInv => HistoryConsistent
  BY DEF HistoryInv
<1>2. IInv /\ PublishersApart /\ HistoryInv /\ [Next]_vars => HistoryInv'
  BY HistoryInvStep
<1>3. QED
  BY <1>1, <1>2, Invariance, HistoryInvInit, PTL DEF Spec

----------------------------------------------------------------------------
\* What a badge claims of the file behind it.
BadgeHolds(state, key, file) ==
    /\ state = "TofuPinned" => file.pubkey = key /\ file.provenance \in {"Pinned", "V1"}
    /\ state = "ExternallyVerified" =>
          file.pubkey = key /\ file.provenance \in {"ExternallyVerified", "V1ExternallyVerified"}
    /\ state = "ChangedMismatch" => file # NoFile /\ file.pubkey # key

\* A snapshot that misses at most the window's own observation.
Fresh(retained, key, file) ==
    \/ retained = Retained(file)
    \/ retained = Nothing /\ file = IdentityFile(key, "Observed", <<>>)

Keeps(file, key) ==
    file.pubkey = key \/ \E i \in DOMAIN file.replaced : file.replaced[i] = key

\* An intent resolved against a fresh snapshot is what Resolve answers for the
\* file itself whenever the store writes it, and afterwards the badge holds.
LEMMA StoreRealizes ==
    ASSUME NEW file \in IdentityFiles, NEW key \in Publishers,
           NEW retained \in MaybeRetained, NEW decision \in UserDecisions,
           Fresh(retained, key, file)
    PROVE  LET r == Resolve(key, retained, decision)
               after == FileAfter(file, r.intent)
           IN  /\ r.intent = NoIntent => retained = Retained(file)
               /\ r.intent = NoIntent \/ ~StoreWrites(file, r.intent) =>
                     BadgeHolds(r.state, key, file)
               /\ r.intent # NoIntent /\ StoreWrites(file, r.intent) =>
                     /\ BadgeHolds(r.state, key, after)
                     /\ r.intent = Resolve(key, Retained(file), decision).intent
                     /\ Retained(after) = RetainedAfter(Retained(file), r.intent)
                     /\ file # NoFile /\ file.pubkey # key => r.intent.kind = "ReplaceIdentity"
                     /\ r.intent.kind = "ReplaceIdentity" =>
                           /\ file # NoFile /\ retained = Retained(file)
                           /\ retained.pubkey # key /\ r.intent.replaced = file.pubkey
                     /\ r.intent.kind = "RecordObservation" => file = NoFile
<1> USE DEF BadgeHolds, StoreWrites, FileAfter, ProvenanceOf, RetainedAfter, Resolution, Intend,
            IntendReplace, NoIntent, Intent, Identity
<1>1. CASE file = NoFile
  <2>1. Retained(file) = Nothing /\ retained = Nothing
    BY <1>1, RetainedType DEF Fresh, IdentityFile, NoFile
  <2>2. QED
    BY <1>1, <2>1 DEF Resolve, ResolveFirstContact, Retained, DecodeProvenance, IdentityFile
<1>2. CASE file # NoFile /\ retained = Nothing
  <2>1. file = IdentityFile(key, "Observed", <<>>)
    BY <1>2, RetainedType DEF Fresh
  <2>2. Retained(file) = [pubkey |-> key, provenance |-> "Observed"] /\ Retained(file) # Nothing
    BY <1>2, <2>1, RetainedType DEF Retained, DecodeProvenance, IdentityFile
  <2>3. QED
    BY <1>2, <2>1, <2>2 DEF Resolve, ResolveFirstContact, ResolveMatched, Retained,
       DecodeProvenance, IdentityFile
<1>3. CASE file # NoFile /\ retained # Nothing
  <2>1. /\ retained = Retained(file) /\ retained.pubkey = file.pubkey
        /\ retained.provenance \in Provenances
        /\ retained.provenance = DecodeProvenance(file.provenance)
        /\ file.provenance \in Provenances \cup LegacyProvenances
    BY <1>3, RetainedType DEF Fresh, MaybeRetained, RetainedIdentity, Retained, IdentityFiles
  <2>2. CASE file.pubkey = key
    <3>1. Resolve(key, retained, decision) = ResolveMatched(key, retained, decision)
      BY <1>3, <2>1, <2>2 DEF Resolve
    <3>2. CASE decision = "ConfirmPip" /\ retained.provenance # "ExternallyVerified"
      BY <1>3, <2>1, <2>2, <3>1, <3>2 DEF ResolveMatched, Retained, DecodeProvenance,
         IdentityFile
    <3>3. CASE decision = "PinFirstContact" /\ retained.provenance = "Observed"
      BY <1>3, <2>1, <2>2, <3>1, <3>3 DEF ResolveMatched, Retained, DecodeProvenance,
         IdentityFile
    <3>4. CASE /\ ~(decision = "ConfirmPip" /\ retained.provenance # "ExternallyVerified")
               /\ ~(decision = "PinFirstContact" /\ retained.provenance = "Observed")
      <4>1. /\ Resolve(key, retained, decision).intent = NoIntent
            /\ Resolve(key, retained, decision).state = StateOfProvenance(retained.provenance)
        BY <3>1, <3>4 DEF ResolveMatched
      <4>2. BadgeHolds(StateOfProvenance(retained.provenance), key, file)
        BY <2>1, <2>2 DEF StateOfProvenance, DecodeProvenance, Provenances, LegacyProvenances
      <4>3. QED
        BY <2>1, <4>1, <4>2
    <3>5. QED
      BY <3>2, <3>3, <3>4
  <2>3. CASE file.pubkey # key
    BY <1>3, <2>1, <2>3 DEF Resolve, ResolveMismatch, Retained, DecodeProvenance, IdentityFile
  <2>4. QED
    BY <2>2, <2>3
<1>4. QED
  BY <1>1, <1>2, <1>3

\* A rewritten file keeps every key the old one kept: unless the intent is a
\* replacement it is for the same key or the file was missing.
LEMMA RewriteKeeps ==
    ASSUME NEW file \in IdentityFiles, NEW intent \in PersistenceIntents, intent # NoIntent,
           file # NoFile => \/ file.pubkey = intent.pubkey
                            \/ intent.kind = "ReplaceIdentity",
           intent.kind = "ReplaceIdentity" => file # NoFile /\ intent.replaced = file.pubkey,
           intent.kind = "RecordObservation" => file = NoFile,
           NEW key \in Publishers, Keeps(file, key)
    PROVE  Keeps(FileAfter(file, intent), key)
<1> DEFINE after == FileAfter(file, intent)
<1>1. file # NoFile
  <2>1. SUFFICES ASSUME file = NoFile PROVE FALSE
    OBVIOUS
  <2>2. file.pubkey = None /\ file.replaced = <<>> /\ key # None
    BY <2>1, NoneAssumption DEF NoFile, IdentityFile
  <2>3. QED
    BY <2>2 DEF Keeps
<1>2. file.replaced \in Seq(Publishers) /\ file.pubkey \in Publishers
  BY <1>1 DEF IdentityFiles
<1>3. CASE intent.kind = "ReplaceIdentity"
  <2>1. after.replaced = <<file.pubkey>> \o file.replaced
    BY <1>3 DEF FileAfter, IdentityFile
  <2>2. /\ after.replaced \in Seq(Publishers) /\ Len(after.replaced) = Len(file.replaced) + 1
        /\ \A i \in 1 .. Len(file.replaced) + 1 :
              after.replaced[i] = IF i = 1 THEN file.pubkey ELSE file.replaced[i - 1]
    BY <1>2, <2>1, PrependProperties
  <2>3. /\ Len(file.replaced) \in Nat /\ DOMAIN file.replaced = 1 .. Len(file.replaced)
        /\ DOMAIN after.replaced = 1 .. Len(file.replaced) + 1
    BY <1>2, <2>2, LenProperties
  <2> HIDE DEF after
  <2>4. CASE file.pubkey = key
    <3>1. 1 \in DOMAIN after.replaced /\ after.replaced[1] = key
      BY <2>2, <2>3, <2>4
    <3>2. QED
      BY <3>1 DEF Keeps, after
  <2>5. ASSUME NEW i \in DOMAIN file.replaced, file.replaced[i] = key
        PROVE  Keeps(after, key)
    <3>1. i + 1 \in DOMAIN after.replaced /\ after.replaced[i + 1] = key
      BY <2>2, <2>3, <2>5
    <3>2. QED
      BY <3>1 DEF Keeps
  <2>6. QED
    BY <2>4, <2>5 DEF Keeps, after
<1>4. CASE intent.kind # "ReplaceIdentity"
  BY <1>1, <1>4 DEF Keeps, FileAfter, IdentityFile
<1>5. QED
  BY <1>3, <1>4

----------------------------------------------------------------------------
\* A decision can still be resolved against the window's snapshot.
Answerable(v) ==
    \/ v.pc \in {"loading", "identityRead", "identityWrite"}
    \/ v.pc \in {"historyRead", "historyWrite", "reload"} /\ v.decision = "None"
    \/ v.pc = "open" /\ v.prompt # "None"

\* The panel on screen is the one the snapshot calls for.
PromptOK(v) ==
    /\ v.prompt = "PinPrompt" => v.retained = Nothing \/ v.retained.pubkey = v.manifest.pub
    /\ v.prompt = "MismatchWarning" =>
          /\ v.retained # Nothing /\ v.retained.pubkey # v.manifest.pub
          /\ v.warned = v.retained.pubkey

SnapshotOK(w) ==
    LET v == win[w]
        key == v.manifest.pub
        file == identities[v.site]
        resolution == Resolve(key, v.retained, v.decision)
    IN  /\ v.pc = "loading" => v.decision = "None" /\ v.prompt = "None" /\ ~v.failed
        /\ v.pc # "idle" => PromptOK(v)
        /\ Answerable(v) => Fresh(v.retained, key, file)
        /\ v.pc \in {"identityRead", "identityWrite"} =>
              /\ v.intent = resolution.intent /\ v.shown = resolution.state
              /\ v.decision # "None" => v.prompt # "None"
        /\ v.pc = "identityWrite" => v.file = file /\ StoreWrites(file, v.intent)
        /\ v.pc \in {"historyRead", "historyWrite", "reload", "open"} /\ ~v.failed =>
              BadgeHolds(v.shown, key, file)

SnapshotInv == ReplacedKeysKept /\ \A w \in Windows : SnapshotOK(w)

\* What a running window holds, and what follows from its snapshot.
LEMMA WindowFacts ==
    ASSUME IInv, NEW w \in Windows, win[w].pc # "idle"
    PROVE  LET v == win[w] IN
           /\ v \in WindowStates /\ v.site \in Sites /\ v.manifest.pub \in Publishers
           /\ identities[v.site] \in IdentityFiles /\ v.retained \in MaybeRetained
           /\ v.decision \in UserDecisions /\ v.intent \in PersistenceIntents
           /\ v.pc \in PersistPoints \ {"reload"} =>
                 v.intent # NoIntent /\ v.intent.pubkey = v.manifest.pub
  BY ManifestsAssumption DEF IInv, TypeOK, WindowInv, WindowOK, Justified, WindowStates

\* WriteIdentity: the file it read is the file it replaces.
LEMMA FreshWrite ==
    ASSUME IInv, NEW w \in Windows, SnapshotOK(w), WriteIdentity(w)
    PROVE  LET v == win[w]
               key == v.manifest.pub
               file == identities[v.site]
               after == FileAfter(file, v.intent)
           IN  /\ identities' = [identities EXCEPT ![v.site] = after]
               /\ after.pubkey = key
               /\ v.intent = Resolve(key, Retained(file), v.decision).intent
               /\ Retained(after) = RetainedAfter(Retained(file), v.intent)
               /\ BadgeHolds(v.shown, key, after)
               /\ \A k \in Publishers : Keeps(file, k) => Keeps(after, k)
               /\ file # NoFile /\ file.pubkey # key =>
                     /\ v.prompt = "MismatchWarning" /\ v.warned = file.pubkey
                     /\ v.decision \in {"ConfirmNewIdentity", "ConfirmPip"}
               /\ v.decision = "None" => Fresh(v.retained, key, after)
<1> DEFINE v == win[w]
           key == v.manifest.pub
           file == identities[v.site]
           after == FileAfter(file, v.intent)
<1>1. /\ v.pc = "identityWrite" /\ v.file = file /\ StoreWrites(file, v.intent)
      /\ Fresh(v.retained, key, file) /\ PromptOK(v)
      /\ v.intent = Resolve(key, v.retained, v.decision).intent
      /\ v.shown = Resolve(key, v.retained, v.decision).state
      /\ v.decision # "None" => v.prompt # "None"
  BY DEF WriteIdentity, SnapshotOK, Answerable
<1>2. /\ v \in WindowStates /\ v.site \in Sites /\ key \in Publishers
      /\ file \in IdentityFiles /\ v.retained \in MaybeRetained
      /\ v.decision \in UserDecisions /\ v.intent \in PersistenceIntents
      /\ v.intent # NoIntent /\ v.intent.pubkey = key
  BY <1>1, WindowFacts DEF PersistPoints
<1>3. identities' = [identities EXCEPT ![v.site] = after] /\ after.pubkey = key
  BY <1>1, <1>2, FileAfterType DEF WriteIdentity
<1>4. /\ BadgeHolds(v.shown, key, after)
      /\ v.intent = Resolve(key, Retained(file), v.decision).intent
      /\ Retained(after) = RetainedAfter(Retained(file), v.intent)
      /\ file # NoFile /\ file.pubkey # key => v.intent.kind = "ReplaceIdentity"
      /\ v.intent.kind = "ReplaceIdentity" =>
            /\ file # NoFile /\ v.retained = Retained(file)
            /\ v.retained.pubkey # key /\ v.intent.replaced = file.pubkey
      /\ v.intent.kind = "RecordObservation" => file = NoFile
  <2> DEFINE r == Resolve(key, v.retained, v.decision)
  <2>1. r.intent = v.intent /\ r.state = v.shown /\ r.intent # NoIntent
        /\ StoreWrites(file, r.intent)
    BY <1>1, <1>2
  <2> HIDE DEF v, key, file
  <2>2. /\ BadgeHolds(r.state, key, FileAfter(file, r.intent))
        /\ r.intent = Resolve(key, Retained(file), v.decision).intent
        /\ Retained(FileAfter(file, r.intent)) = RetainedAfter(Retained(file), r.intent)
        /\ file # NoFile /\ file.pubkey # key => r.intent.kind = "ReplaceIdentity"
        /\ r.intent.kind = "ReplaceIdentity" =>
              /\ file # NoFile /\ v.retained = Retained(file)
              /\ v.retained.pubkey # key /\ r.intent.replaced = file.pubkey
        /\ r.intent.kind = "RecordObservation" => file = NoFile
    BY <1>1, <1>2, <2>1, StoreRealizes
  <2> HIDE DEF r
  <2>3. QED
    BY <2>1, <2>2
<1>5. /\ v.intent.kind = "ReplaceIdentity" =>
            v.decision \in {"ConfirmPip", "ConfirmNewIdentity"}
      /\ v.decision = "None" => v.intent.kind = "RecordObservation"
  BY <1>1, <1>2, ResolveType, IntentShape
<1>6. \A k \in Publishers : Keeps(file, k) => Keeps(after, k)
  BY <1>2, <1>4, RewriteKeeps
<1>7. ASSUME file # NoFile, file.pubkey # key
      PROVE  /\ v.prompt = "MismatchWarning" /\ v.warned = file.pubkey
             /\ v.decision \in {"ConfirmNewIdentity", "ConfirmPip"}
  <2>1. /\ v.decision \in {"ConfirmPip", "ConfirmNewIdentity"}
        /\ v.retained = Retained(file) /\ v.retained.pubkey # key
    BY <1>4, <1>5, <1>7
  <2>2. v.prompt # "None" /\ v.prompt \in RequiredActions
    BY <1>1, <1>2, <2>1 DEF WindowStates
  <2>3. v.retained # Nothing /\ v.retained.pubkey = file.pubkey
    BY <1>2, <1>7, <2>1, RetainedType DEF Retained, Identity
  <2>4. QED
    BY <1>1, <2>1, <2>2, <2>3 DEF PromptOK, RequiredActions
<1>8. v.decision = "None" => Fresh(v.retained, key, after)
  <2> SUFFICES ASSUME v.decision = "None" PROVE Fresh(v.retained, key, after)
    OBVIOUS
  <2>1. v.intent.kind = "RecordObservation" /\ file = NoFile
    BY <1>4, <1>5
  <2>2. after = IdentityFile(key, "Observed", <<>>)
    BY <1>2, <2>1 DEF FileAfter, ProvenanceOf
  <2>3. v.retained = Nothing
    BY <1>1, <1>2, <2>1, RetainedType DEF Fresh, IdentityFile, NoFile
  <2>4. QED
    BY <2>2, <2>3 DEF Fresh
<1>9. QED
  BY <1>3, <1>4, <1>6, <1>7, <1>8

LEMMA SnapshotInvInit == Init => SnapshotInv
<1> SUFFICES ASSUME Init PROVE SnapshotInv
  OBVIOUS
<1>1. PICK past \in Pasts : InitFrom(past)
  BY DEF Init
<1>2. ReplacedKeysKept
  <2> SUFFICES ASSUME NEW x \in Sites, NEW key \in everRetained[x]
               PROVE  identities[x].pubkey = key
    BY DEF ReplacedKeysKept
  <2>1. PICK p \in Publishers, flag \in LegacyProvenances :
           identities[x] = IdentityFile(p, flag, <<>>) /\ everRetained[x] = {p}
    BY <1>1, InitIdentities
  <2>2. QED
    BY <2>1 DEF IdentityFile
<1>3. \A w \in Windows : SnapshotOK(w)
  BY <1>1 DEF InitFrom, SnapshotOK, Answerable, PromptOK, IdleWindow
<1>4. QED
  BY <1>2, <1>3 DEF SnapshotInv

LEMMA SnapshotInvStep == IInv /\ SitesApart /\ SnapshotInv /\ [Next]_vars => SnapshotInv'
<1> SUFFICES ASSUME IInv, SitesApart, SnapshotInv, [Next]_vars
             PROVE  SnapshotInv'
  OBVIOUS
<1>1. CASE UNCHANGED vars
  BY <1>1 DEF vars, SnapshotInv, ReplacedKeysKept, SnapshotOK
<1>2. ASSUME NEW w \in Windows, Progress(w) \/ User(w) \/ Crash(w)
      PROVE  SnapshotInv'
  <2> DEFINE v == win[w]
             key == v.manifest.pub
             file == identities[v.site]
  <2>1. /\ SnapshotOK(w) /\ v \in WindowStates
        /\ win \in [Windows -> WindowStates] /\ identities \in [Sites -> IdentityFiles]
        /\ ReplacedKeysKept /\ everRetained \in [Sites -> SUBSET Publishers]
    BY DEF IInv, TypeOK, SnapshotInv
  <2>a. ASSUME SnapshotOK(w)'
        PROVE  \A u \in Windows : SnapshotOK(u)'
    <3>1. ASSUME NEW u \in Windows \ {w}
          PROVE  SnapshotOK(u)'
      <4>1. CASE win[u].pc = "idle"
        BY <1>2, <4>1, OtherSitesKept DEF SnapshotOK, Answerable
      <4>2. CASE win[u].pc # "idle"
        <5>1. /\ SnapshotOK(u) /\ win'[u] = win[u]
              /\ identities'[win'[u].site] = identities[win[u].site]
          BY <1>2, <4>2, OtherSitesKept DEF SnapshotInv
        <5>2. QED
          BY <5>1 DEF SnapshotOK
      <4>3. QED
        BY <4>1, <4>2
    <3>2. QED
      BY <2>a, <3>1
  <2>2. ASSUME identities' = identities, everRetained' = everRetained, SnapshotOK(w)'
        PROVE  SnapshotInv'
    BY <2>1, <2>2, <2>a DEF SnapshotInv, ReplacedKeysKept
  <2>3. ASSUME NEW x \in Sites, NEW m \in Manifests, Launch(w, x, m)
        PROVE  SnapshotInv'
    BY <2>1, <2>2, <2>3
       DEF Launch, SnapshotOK, Answerable, PromptOK, IdleWindow, Fresh
  <2>4. CASE LoadRejected(w) \/ Quit(w) \/ Crash(w)
    BY <2>1, <2>2, <2>4 DEF LoadRejected, Quit, Crash, SnapshotOK, Answerable, PromptOK, IdleWindow
  <2>5. CASE LoadAccepted(w)
    <3> DEFINE r == Resolve(key, v.retained, "None")
    <3>1. /\ v.pc = "loading" /\ v.decision = "None" /\ ~v.failed
          /\ Fresh(v.retained, key, file)
      BY <2>1, <2>5 DEF LoadAccepted, SnapshotOK, Answerable
    <3>2. /\ v.site \in Sites /\ key \in Publishers /\ file \in IdentityFiles
          /\ v.retained \in MaybeRetained /\ "None" \in UserDecisions
      BY <3>1, WindowFacts
    <3>3. r.intent = NoIntent => BadgeHolds(r.state, key, file)
      BY <3>1, <3>2, StoreRealizes
    <3>4. /\ r.action = "PinPrompt" => v.retained = Nothing \/ v.retained.pubkey = key
          /\ r.action = "MismatchWarning" => v.retained # Nothing /\ v.retained.pubkey # key
      BY DEF Resolve, ResolveFirstContact, ResolveMatched, ResolveMismatch, Resolution
    <3> HIDE DEF r
    <3>5. /\ win'[w] = [v EXCEPT
                 !.pc = PersistFrom(r.intent), !.shown = r.state, !.required = r.action,
                 !.prompt = r.action,
                 !.warned = IF r.action = "MismatchWarning" THEN v.retained.pubkey ELSE None,
                 !.intent = r.intent]
          /\ identities' = identities /\ everRetained' = everRetained
      BY <2>1, <2>5 DEF LoadAccepted, r
    <3>6. /\ win'[w].pc = PersistFrom(r.intent) /\ win'[w].shown = r.state
          /\ win'[w].prompt = r.action /\ win'[w].intent = r.intent
          /\ win'[w].warned = IF r.action = "MismatchWarning" THEN v.retained.pubkey ELSE None
          /\ win'[w].site = v.site /\ win'[w].manifest = v.manifest
          /\ win'[w].retained = v.retained /\ win'[w].decision = "None"
      BY <2>1, <3>1, <3>5 DEF WindowStates
    <3>7. PromptOK(v)'
      BY <3>4, <3>6 DEF PromptOK
    <3>8. CASE r.intent = NoIntent
      <4>1. win'[w].pc = "reload"
        BY <3>6, <3>8 DEF PersistFrom
      <4>2. SnapshotOK(w)'
        BY <3>1, <3>3, <3>5, <3>6, <3>7, <3>8, <4>1 DEF SnapshotOK
      <4>3. QED
        BY <2>2, <3>5, <4>2
    <3>9. CASE r.intent # NoIntent
      <4>1. win'[w].pc = "identityRead"
        BY <3>6, <3>9 DEF PersistFrom
      <4>2. SnapshotOK(w)'
        BY <3>1, <3>5, <3>6, <3>7, <4>1 DEF SnapshotOK, r
      <4>3. QED
        BY <2>2, <3>5, <4>2
    <3>10. QED
      BY <3>8, <3>9
  <2>6. ASSUME NEW decision \in UserDecisions, Decide(w, decision)
        PROVE  SnapshotInv'
    <3> DEFINE r == Resolve(key, v.retained, decision)
    <3>1. /\ v.pc = "open" /\ decision \in Offered(v.prompt) /\ v.prompt # "None"
          /\ Fresh(v.retained, key, file) /\ PromptOK(v)
      BY <2>1, <2>6 DEF Decide, Offered, SnapshotOK, Answerable
    <3>2. /\ v.site \in Sites /\ key \in Publishers /\ file \in IdentityFiles
          /\ v.retained \in MaybeRetained
      BY <3>1, WindowFacts
    <3>3. r.intent = NoIntent => BadgeHolds(r.state, key, file)
      BY <3>1, <3>2, StoreRealizes
    <3> HIDE DEF r
    <3>4. /\ win'[w] = [v EXCEPT
                 !.pc = PersistFrom(r.intent), !.shown = r.state, !.required = r.action,
                 !.intent = r.intent, !.decision = decision, !.failed = FALSE]
          /\ identities' = identities /\ everRetained' = everRetained
      BY <2>1, <2>6 DEF Decide, r
    <3>5. /\ win'[w].pc = PersistFrom(r.intent) /\ win'[w].shown = r.state
          /\ win'[w].prompt = v.prompt /\ win'[w].warned = v.warned
          /\ win'[w].intent = r.intent /\ win'[w].decision = decision
          /\ win'[w].site = v.site /\ win'[w].manifest = v.manifest
          /\ win'[w].retained = v.retained
      BY <2>1, <3>4 DEF WindowStates
    <3>6. PromptOK(v)' /\ decision # "None"
      BY <3>1, <3>5 DEF PromptOK, Offered
    <3>7. CASE r.intent = NoIntent
      <4>1. win'[w].pc = "reload"
        BY <3>5, <3>7 DEF PersistFrom
      <4>2. SnapshotOK(w)'
        BY <3>1, <3>3, <3>4, <3>5, <3>6, <3>7, <4>1 DEF SnapshotOK, Answerable
      <4>3. QED
        BY <2>2, <3>4, <4>2
    <3>8. CASE r.intent # NoIntent
      <4>1. win'[w].pc = "identityRead"
        BY <3>5, <3>8 DEF PersistFrom
      <4>2. SnapshotOK(w)'
        BY <3>1, <3>4, <3>5, <3>6, <4>1 DEF SnapshotOK, r
      <4>3. QED
        BY <2>2, <3>4, <4>2
    <3>9. QED
      BY <3>7, <3>8
  <2>7. CASE ReadIdentity(w)
    <3>1. /\ v.pc = "identityRead" /\ Fresh(v.retained, key, file) /\ PromptOK(v)
          /\ v.intent = Resolve(key, v.retained, v.decision).intent
          /\ v.shown = Resolve(key, v.retained, v.decision).state
          /\ v.decision # "None" => v.prompt # "None"
      BY <2>1, <2>7 DEF ReadIdentity, SnapshotOK, Answerable
    <3>2. /\ v.site \in Sites /\ key \in Publishers /\ file \in IdentityFiles
          /\ v.retained \in MaybeRetained /\ v.decision \in UserDecisions
      BY <3>1, WindowFacts
    <3>3. ~StoreWrites(file, v.intent) => BadgeHolds(v.shown, key, file)
      BY <3>1, <3>2, StoreRealizes
    <3>4. identities' = identities /\ everRetained' = everRetained
      BY <2>7 DEF ReadIdentity
    <3>5. CASE StoreWrites(file, v.intent)
      <4>1. win'[w] = [v EXCEPT !.pc = "identityWrite", !.file = file]
        BY <2>1, <2>7, <3>5 DEF ReadIdentity
      <4>2. SnapshotOK(w)'
        BY <2>1, <3>1, <3>4, <3>5, <4>1 DEF SnapshotOK, WindowStates, PromptOK
      <4>3. QED
        BY <2>2, <3>4, <4>2
    <3>6. CASE ~StoreWrites(file, v.intent)
      <4>1. win'[w] = [v EXCEPT !.pc = "historyRead"]
        BY <2>1, <2>7, <3>6 DEF ReadIdentity
      <4>2. SnapshotOK(w)'
        BY <2>1, <3>1, <3>3, <3>4, <3>6, <4>1 DEF SnapshotOK, WindowStates, PromptOK
      <4>3. QED
        BY <2>2, <3>4, <4>2
    <3>7. QED
      BY <3>5, <3>6
  <2>8. CASE WriteIdentity(w)
    <3> DEFINE after == FileAfter(file, v.intent)
    <3>1. /\ v.pc = "identityWrite" /\ v.file = file /\ PromptOK(v)
      BY <2>1, <2>8 DEF WriteIdentity, SnapshotOK
    <3>2. /\ identities' = [identities EXCEPT ![v.site] = after]
          /\ after.pubkey = key /\ BadgeHolds(v.shown, key, after)
          /\ \A k \in Publishers : Keeps(file, k) => Keeps(after, k)
          /\ v.decision = "None" => Fresh(v.retained, key, after)
      BY <2>1, <2>8, FreshWrite
    <3>3. v.site \in Sites
      BY <3>1, WindowFacts
    <3> HIDE DEF after
    <3>4. /\ everRetained' = [everRetained EXCEPT ![v.site] = @ \cup {key}]
          /\ win'[w] = [v EXCEPT !.pc = "historyRead", !.file = NoFile]
      BY <2>1, <2>8, <3>1, <3>2 DEF WriteIdentity, after
    <3>5. identities'[v.site] = after
      BY <2>1, <3>2, <3>3
    <3>6. /\ win'[w].pc = "historyRead" /\ win'[w].shown = v.shown
          /\ win'[w].prompt = v.prompt /\ win'[w].warned = v.warned
          /\ win'[w].decision = v.decision /\ win'[w].retained = v.retained
          /\ win'[w].site = v.site /\ win'[w].manifest = v.manifest
      BY <2>1, <3>4 DEF WindowStates
    <3>7. SnapshotOK(w)'
      BY <3>1, <3>2, <3>5, <3>6 DEF SnapshotOK, PromptOK, Answerable
    <3>8. ASSUME NEW x \in Sites, NEW k \in everRetained'[x]
          PROVE  Keeps(identities'[x], k)
      <4>1. CASE x # v.site
        BY <2>1, <3>2, <3>3, <3>4, <3>8, <4>1 DEF ReplacedKeysKept, Keeps
      <4>2. CASE x = v.site /\ k = key
        BY <3>2, <3>5, <4>2 DEF Keeps
      <4>3. CASE x = v.site /\ k # key
        <5>1. k \in everRetained[x] /\ k \in Publishers
          BY <2>1, <3>3, <3>4, <3>8, <4>3
        <5>2. Keeps(file, k)
          BY <2>1, <4>3, <5>1 DEF ReplacedKeysKept, Keeps
        <5>3. QED
          BY <3>2, <3>5, <4>3, <5>1, <5>2
      <4>4. QED
        BY <4>1, <4>2, <4>3
    <3>9. QED
      BY <2>a, <3>7, <3>8 DEF SnapshotInv, ReplacedKeysKept, Keeps
  <2>9. CASE ReadHistory(w) \/ WriteHistory(w)
    <3>1. /\ identities' = identities /\ everRetained' = everRetained
          /\ v.pc \in {"historyRead", "historyWrite"}
          /\ win'[w].pc \in {"historyWrite", "reload"}
      <4>1. CASE ReadHistory(w)
        BY <2>1, <4>1 DEF ReadHistory, WindowStates
      <4>2. CASE WriteHistory(w)
        BY <2>1, <4>2 DEF WriteHistory, WindowStates
      <4>3. QED
        BY <2>9, <4>1, <4>2
    <3>2. /\ win'[w].shown = v.shown /\ win'[w].failed = v.failed
          /\ win'[w].prompt = v.prompt /\ win'[w].warned = v.warned
          /\ win'[w].decision = v.decision /\ win'[w].retained = v.retained
          /\ win'[w].site = v.site /\ win'[w].manifest = v.manifest
      <4>1. CASE ReadHistory(w)
        BY <2>1, <4>1 DEF ReadHistory, WindowStates
      <4>2. CASE WriteHistory(w)
        BY <2>1, <4>2 DEF WriteHistory, WindowStates
      <4>3. QED
        BY <2>9, <4>1, <4>2
    <3>3. SnapshotOK(w)'
      BY <2>1, <3>1, <3>2 DEF SnapshotOK, PromptOK, Answerable
    <3>4. QED
      BY <2>2, <3>1, <3>3
  <2>10. CASE PersistFails(w)
    <3>1. /\ identities' = identities /\ everRetained' = everRetained
          /\ v.pc \in {"identityRead", "identityWrite", "historyRead", "historyWrite"}
          /\ win'[w].pc = "reload" /\ win'[w].failed
          /\ win'[w].prompt = v.prompt /\ win'[w].warned = v.warned
          /\ win'[w].decision = v.decision /\ win'[w].retained = v.retained
          /\ win'[w].site = v.site /\ win'[w].manifest = v.manifest
      BY <2>1, <2>10 DEF PersistFails, WindowStates, PersistPoints
    <3>2. SnapshotOK(w)'
      BY <2>1, <3>1 DEF SnapshotOK, PromptOK, Answerable
    <3>3. QED
      BY <2>2, <3>1, <3>2
  <2>11. CASE Reload(w)
    <3>1. PICK snapshot \in Snapshots(v) :
             win' = [win EXCEPT ![w] = [v EXCEPT
                        !.pc = "open", !.retained = snapshot,
                        !.prompt = IF v.decision = "None" THEN @ ELSE "None"]]
      BY <2>11 DEF Reload
    <3>2. snapshot = Retained(file) \/ snapshot = v.retained
      BY DEF Snapshots
    <3>3. /\ identities' = identities /\ everRetained' = everRetained
          /\ v.pc = "reload" /\ win'[w].pc = "open" /\ win'[w].failed = v.failed
          /\ win'[w].prompt = (IF v.decision = "None" THEN v.prompt ELSE "None")
          /\ win'[w].warned = v.warned /\ win'[w].retained = snapshot
          /\ win'[w].site = v.site /\ win'[w].manifest = v.manifest
          /\ win'[w].shown = v.shown
      BY <2>1, <2>11, <3>1 DEF Reload, WindowStates
    <3>4. PromptOK(v) /\ (v.decision = "None" => Fresh(v.retained, key, file))
          /\ (~v.failed => BadgeHolds(v.shown, key, file))
      BY <2>1, <3>3 DEF SnapshotOK, Answerable
    <3>5. v.site \in Sites /\ file \in IdentityFiles
      BY <3>3, WindowFacts
    <3>6. v.decision = "None" =>
             /\ Fresh(snapshot, key, file)
             /\ v.retained # Nothing => snapshot = v.retained
             /\ snapshot = v.retained \/ snapshot.pubkey = key \/ snapshot = Nothing
                \/ v.retained = snapshot
      BY <3>2, <3>4, <3>5, RetainedType DEF Fresh, IdentityFile
    <3>7. PromptOK(v)'
      BY <3>3, <3>4, <3>6 DEF PromptOK
    <3>8. SnapshotOK(w)'
      BY <3>3, <3>4, <3>6, <3>7 DEF SnapshotOK, Answerable
    <3>9. QED
      BY <2>2, <3>3, <3>8
  <2>12. CASE Decline(w)
    <3>1. /\ identities' = identities /\ everRetained' = everRetained
          /\ v.pc = "open" /\ win'[w].pc = "open" /\ win'[w].prompt = "None"
          /\ win'[w].shown = v.shown /\ win'[w].failed = v.failed
          /\ win'[w].site = v.site /\ win'[w].manifest = v.manifest
      BY <2>1, <2>12 DEF Decline, WindowStates
    <3>2. SnapshotOK(w)'
      BY <2>1, <3>1 DEF SnapshotOK, PromptOK, Answerable
    <3>3. QED
      BY <2>2, <3>1, <3>2
  <2>13. QED
    BY <1>2, <2>3, <2>4, <2>5, <2>6, <2>7, <2>8, <2>9, <2>10, <2>11, <2>12 DEF Progress, User
<1>3. QED
  BY <1>1, <1>2 DEF Next

THEOREM SnapshotInvariance == Spec /\ []SitesApart => []SnapshotInv
<1>1. IInv /\ SitesApart /\ SnapshotInv /\ [Next]_vars => SnapshotInv'
  BY SnapshotInvStep
<1>2. QED
  BY <1>1, Invariance, SnapshotInvInit, PTL DEF Spec

\* While no two windows open one site, no key a site ever retained is forgotten, whichever store
\* call failed and wherever the client crashed.
THEOREM NoKeyForgotten == Spec /\ []SitesApart => []ReplacedKeysKept
<1>1. SnapshotInv => ReplacedKeysKept
  BY DEF SnapshotInv
<1>2. QED
  BY <1>1, SnapshotInvariance, PTL

\* ... an open window shows the trust its store holds, unless it reported a store
\* error.
THEOREM ShownTrustHolds == Spec /\ []SitesApart => []ShownTrustIsStored
<1>1. SnapshotInv => ShownTrustIsStored
  BY DEF SnapshotInv, SnapshotOK, BadgeHolds, ShownTrustIsStored
<1>2. QED
  BY <1>1, SnapshotInvariance, PTL

\* ... a site's key changes only on an answer to a mismatch dialog
\* that compared the new identity with the one it replaces.
THEOREM ReplacementIsConfirmed == Spec /\ []SitesApart => NeverSilentlyReplaced
<1> DEFINE Confirmed(x, w) ==
       LET v == win[w] IN
       /\ v.site = x /\ v.prompt = "MismatchWarning"
       /\ v.warned = identities[x].pubkey
       /\ v.decision \in {"ConfirmNewIdentity", "ConfirmPip"}
<1>1. ASSUME IInv, SnapshotInv, [Next]_vars, NEW x \in Sites,
             identities[x] # NoFile, identities'[x].pubkey # identities[x].pubkey
      PROVE  \E w \in Windows : Confirmed(x, w)
  <2>1. TypeOK /\ WindowInv /\ Next
    BY <1>1 DEF IInv, vars
  <2>2. PICK w \in Windows : WriteIdentity(w)
    BY <1>1, <2>1, OnlyWriteIdentity
  <2>3. SnapshotOK(w)
    BY <1>1 DEF SnapshotInv
  <2>4. Confirmed(x, w)
    BY <1>1, <2>1, <2>2, <2>3, FreshWrite DEF TypeOK
  <2>5. QED
    BY <2>4
<1>2. IInv /\ SnapshotInv /\ [Next]_vars =>
         [\A x \in Sites :
             identities[x] # NoFile /\ identities'[x].pubkey # identities[x].pubkey =>
                \E w \in Windows : Confirmed(x, w)]_vars
  BY <1>1
<1>3. QED
  BY Invariance, SnapshotInvariance, <1>2, PTL DEF Spec, NeverSilentlyReplaced

----------------------------------------------------------------------------
\* With a fresh snapshot the resolution surfaces a transition exactly when it
\* has an intent, and the store that is given the intent then retains another
\* record than the snapshot.
LEMMA IntentIsTransition ==
    ASSUME NEW key \in Publishers, NEW retained \in MaybeRetained,
           NEW decision \in UserDecisions
    PROVE  LET r == Resolve(key, retained, decision)
           IN  TrustDiagnostic(r, decision) \in TransitionCodes <=> r.intent # NoIntent
<1> USE DEF TrustDiagnostic, TransitionCodes, Resolution, Intend, IntendReplace, NoIntent, Intent
<1>1. CASE retained = Nothing
  BY <1>1 DEF Resolve, ResolveFirstContact
<1>2. CASE retained # Nothing /\ retained.pubkey = key
  <2>1. retained.provenance \in Provenances
    BY <1>2 DEF MaybeRetained, RetainedIdentity
  <2>2. QED
    BY <1>2, <2>1 DEF Resolve, ResolveMatched, StateOfProvenance, Provenances
<1>3. CASE retained # Nothing /\ retained.pubkey # key
  BY <1>3 DEF Resolve, ResolveMismatch
<1>4. QED
  BY <1>1, <1>2, <1>3

LEMMA IntentChangesRecord ==
    ASSUME NEW file \in IdentityFiles, NEW key \in Publishers,
           NEW retained \in MaybeRetained, NEW decision \in UserDecisions,
           Fresh(retained, key, file)
    PROVE  LET intent == Resolve(key, retained, decision).intent IN
           intent # NoIntent =>
              Retained(IF StoreWrites(file, intent) THEN FileAfter(file, intent) ELSE file)
                 # retained
<1> USE DEF StoreWrites, FileAfter, ProvenanceOf, Resolution, Intend,
            IntendReplace, NoIntent, Intent, Identity
<1>1. CASE retained = Nothing
  <2> DEFINE intent == Resolve(key, retained, decision).intent
             after == IF StoreWrites(file, intent) THEN FileAfter(file, intent) ELSE file
  <2>1. /\ intent.pubkey = key
        /\ intent.kind \in {"RecordObservation", "PinIdentity", "MarkExternallyVerified"}
    BY <1>1 DEF Resolve, ResolveFirstContact
  <2>2. StoreWrites(file, intent) \/ file # NoFile
    BY <2>1
  <2>3. after # NoFile /\ after \in IdentityFiles
    <3>1. CASE StoreWrites(file, intent)
      <4>1. after.pubkey = key /\ key # None
        BY <2>1, <3>1, NoneAssumption DEF IdentityFile
      <4>2. after # NoFile
        BY <4>1 DEF NoFile, IdentityFile
      <4>3. intent \in PersistenceIntents /\ intent # NoIntent
        BY <2>1, ResolveType
      <4>4. QED
        BY <3>1, <4>2, <4>3, FileAfterType
    <3>2. CASE ~StoreWrites(file, intent)
      BY <2>2, <3>2
    <3>3. QED
      BY <3>1, <3>2
  <2>4. Retained(after) # Nothing
    BY <2>3, RetainedType
  <2>5. QED
    BY <1>1, <2>4
<1>2. CASE file # NoFile /\ retained # Nothing
  <2>1. /\ retained = Retained(file) /\ retained.pubkey = file.pubkey
        /\ retained.provenance = DecodeProvenance(file.provenance)
        /\ file.provenance \in Provenances \cup LegacyProvenances
    BY <1>2, RetainedType DEF Fresh, MaybeRetained, RetainedIdentity, Retained, IdentityFiles
  <2>2. CASE file.pubkey = key
    BY <1>2, <2>1, <2>2 DEF Resolve, ResolveMatched, StateOfProvenance, Retained,
       DecodeProvenance, IdentityFile, Provenances, LegacyProvenances
  <2>3. CASE file.pubkey # key
    BY <1>2, <2>1, <2>3 DEF Resolve, ResolveMismatch, Retained, DecodeProvenance, IdentityFile
  <2>4. QED
    BY <2>2, <2>3
<1>3. file = NoFile => retained = Nothing
  BY RetainedType DEF Fresh, IdentityFile, NoFile
<1>4. QED
  BY <1>1, <1>2, <1>3

\* From the identity write to the reload the transition is in the store.
TransitionOK(w) ==
    LET v == win[w]
        resolution == Resolve(v.manifest.pub, v.retained, v.decision)
    IN  v.pc \in {"historyRead", "historyWrite", "reload"} /\ ~v.failed =>
           (TrustDiagnostic(resolution, v.decision) \in TransitionCodes
              <=> Retained(identities[v.site]) # v.retained)

TransitionInv == \A w \in Windows : TransitionOK(w)

LEMMA TransitionInvInit == Init => TransitionInv
<1> SUFFICES ASSUME Init PROVE TransitionInv
  OBVIOUS
<1>1. PICK past \in Pasts : InitFrom(past)
  BY DEF Init
<1>2. QED
  BY <1>1 DEF InitFrom, TransitionInv, TransitionOK, IdleWindow

\* What the resolution of a window with a fresh snapshot comes to.
LEMMA TransitionFacts ==
    ASSUME IInv, NEW w \in Windows, win[w].pc # "idle", NEW decision \in UserDecisions,
           Fresh(win[w].retained, win[w].manifest.pub, identities[win[w].site])
    PROVE  LET v == win[w]
               file == identities[v.site]
               r == Resolve(v.manifest.pub, v.retained, decision)
           IN  /\ TrustDiagnostic(r, decision) \in TransitionCodes <=> r.intent # NoIntent
               /\ r.intent = NoIntent => v.retained = Retained(file)
               /\ r.intent # NoIntent =>
                     Retained(IF StoreWrites(file, r.intent)
                              THEN FileAfter(file, r.intent) ELSE file) # v.retained
<1>1. /\ win[w].manifest.pub \in Publishers /\ identities[win[w].site] \in IdentityFiles
      /\ win[w].retained \in MaybeRetained
  BY WindowFacts
<1>2. QED
  BY <1>1, IntentIsTransition, IntentChangesRecord, StoreRealizes

LEMMA TransitionInvStep ==
    IInv /\ SitesApart /\ SnapshotInv /\ TransitionInv /\ [Next]_vars => TransitionInv'
<1> SUFFICES ASSUME IInv, SitesApart, SnapshotInv, TransitionInv, [Next]_vars
             PROVE  TransitionInv'
  OBVIOUS
<1>1. CASE UNCHANGED vars
  BY <1>1 DEF vars, TransitionInv, TransitionOK
<1>2. ASSUME NEW w \in Windows, Progress(w) \/ User(w) \/ Crash(w)
      PROVE  TransitionInv'
  <2> DEFINE v == win[w]
             key == v.manifest.pub
             file == identities[v.site]
  <2>1. /\ SnapshotOK(w) /\ TransitionOK(w) /\ v \in WindowStates
        /\ win \in [Windows -> WindowStates] /\ identities \in [Sites -> IdentityFiles]
    BY DEF IInv, TypeOK, SnapshotInv, TransitionInv
  <2>2. SUFFICES TransitionOK(w)'
    <3>1. \A u \in Windows \ {w} : TransitionOK(u)'
      BY <1>2, OtherSitesKept DEF TransitionInv, TransitionOK
    <3>2. QED
      BY <3>1 DEF TransitionInv
  <2>3. CASE win'[w].pc \notin {"historyRead", "historyWrite", "reload"} \/ win'[w].failed
    BY <2>3 DEF TransitionOK
  <2>4. CASE LoadAccepted(w)
    <3> DEFINE r == Resolve(key, v.retained, "None")
    <3>1. /\ v.pc = "loading" /\ v.decision = "None" /\ Fresh(v.retained, key, file)
      BY <2>1, <2>4 DEF LoadAccepted, SnapshotOK, Answerable
    <3>2. /\ TrustDiagnostic(r, "None") \in TransitionCodes <=> r.intent # NoIntent
          /\ r.intent = NoIntent => v.retained = Retained(file)
      BY <3>1, TransitionFacts DEF UserDecisions
    <3>3. /\ identities' = identities /\ win'[w].pc = PersistFrom(r.intent)
          /\ win'[w].decision = "None" /\ win'[w].retained = v.retained
          /\ win'[w].site = v.site /\ win'[w].manifest = v.manifest
      BY <2>1, <2>4, <3>1 DEF LoadAccepted, WindowStates
    <3> HIDE DEF r
    <3>4. QED
      BY <3>2, <3>3 DEF TransitionOK, PersistFrom, r
  <2>5. ASSUME NEW decision \in UserDecisions, Decide(w, decision)
        PROVE  TransitionOK(w)'
    <3> DEFINE r == Resolve(key, v.retained, decision)
    <3>1. /\ v.pc = "open" /\ Fresh(v.retained, key, file)
      BY <2>1, <2>5 DEF Decide, Offered, SnapshotOK, Answerable
    <3>2. /\ TrustDiagnostic(r, decision) \in TransitionCodes <=> r.intent # NoIntent
          /\ r.intent = NoIntent => v.retained = Retained(file)
      BY <3>1, TransitionFacts
    <3>3. /\ identities' = identities /\ win'[w].pc = PersistFrom(r.intent)
          /\ win'[w].decision = decision /\ win'[w].retained = v.retained
          /\ win'[w].site = v.site /\ win'[w].manifest = v.manifest
      BY <2>1, <2>5, <3>1 DEF Decide, WindowStates
    <3> HIDE DEF r
    <3>4. QED
      BY <3>2, <3>3 DEF TransitionOK, PersistFrom, r
  <2>6. CASE ReadIdentity(w) \/ WriteIdentity(w)
    <3> DEFINE r == Resolve(key, v.retained, v.decision)
               after == FileAfter(file, v.intent)
    <3>1. /\ v.pc \in {"identityRead", "identityWrite"} /\ Fresh(v.retained, key, file)
          /\ v.intent = r.intent
          /\ v.pc = "identityWrite" => v.file = file /\ StoreWrites(file, v.intent)
      BY <2>1, <2>6 DEF ReadIdentity, WriteIdentity, SnapshotOK, Answerable
    <3>2. /\ v.decision \in UserDecisions /\ v.site \in Sites /\ v.intent # NoIntent
      BY <3>1, WindowFacts DEF PersistPoints
    <3>3. /\ TrustDiagnostic(r, v.decision) \in TransitionCodes
          /\ Retained(IF StoreWrites(file, v.intent) THEN after ELSE file) # v.retained
      BY <3>1, <3>2, TransitionFacts
    <3> HIDE DEF r, after
    <3>4. CASE ReadIdentity(w)
      <4>1. ~StoreWrites(file, v.intent) \/ win'[w].pc = "identityWrite"
        BY <2>1, <3>4 DEF ReadIdentity
      <4>2. /\ identities' = identities /\ win'[w].decision = v.decision
            /\ win'[w].retained = v.retained
            /\ win'[w].site = v.site /\ win'[w].manifest = v.manifest
        BY <2>1, <3>4 DEF ReadIdentity, WindowStates
      <4>3. QED
        BY <3>3, <4>1, <4>2 DEF TransitionOK, r
    <3>5. CASE WriteIdentity(w)
      <4>1. StoreWrites(file, v.intent) /\ v.file = file
        BY <3>1, <3>5 DEF WriteIdentity
      <4>2. identities' = [identities EXCEPT ![v.site] = after]
        BY <3>5, <4>1 DEF WriteIdentity, after
      <4>3. identities'[v.site] = after
        BY <2>1, <3>2, <4>2
      <4>4. /\ win'[w].decision = v.decision /\ win'[w].retained = v.retained
            /\ win'[w].site = v.site /\ win'[w].manifest = v.manifest
        BY <2>1, <3>5 DEF WriteIdentity, WindowStates
      <4>5. QED
        BY <3>3, <4>1, <4>3, <4>4 DEF TransitionOK, r
    <3>6. QED
      BY <2>6, <3>4, <3>5
  <2>7. CASE ReadHistory(w) \/ WriteHistory(w)
    <3>1. /\ identities' = identities /\ v.pc \in {"historyRead", "historyWrite"}
          /\ win'[w].failed = v.failed
          /\ win'[w].decision = v.decision /\ win'[w].retained = v.retained
          /\ win'[w].site = v.site /\ win'[w].manifest = v.manifest
      <4>1. CASE ReadHistory(w)
        BY <2>1, <4>1 DEF ReadHistory, WindowStates
      <4>2. CASE WriteHistory(w)
        BY <2>1, <4>2 DEF WriteHistory, WindowStates
      <4>3. QED
        BY <2>7, <4>1, <4>2
    <3>2. QED
      BY <2>1, <3>1 DEF TransitionOK
  <2>8. CASE PersistFails(w)
    <3>1. win'[w].failed
      BY <2>1, <2>8 DEF PersistFails, WindowStates
    <3>2. QED
      BY <2>3, <3>1
  <2>9. ASSUME Reload(w) \/ Decline(w) \/ LoadRejected(w) \/ Quit(w) \/ Crash(w)
               \/ \E x \in Sites, m \in Manifests : Launch(w, x, m)
        PROVE  TransitionOK(w)'
    <3>1. win'[w].pc \in {"open", "idle", "loading"}
      <4>1. CASE Reload(w)
        BY <2>1, <4>1 DEF Reload, WindowStates
      <4>2. CASE Decline(w)
        BY <2>1, <4>2 DEF Decline, WindowStates
      <4>3. CASE LoadRejected(w) \/ Quit(w) \/ Crash(w)
        BY <2>1, <4>3 DEF LoadRejected, Quit, Crash, IdleWindow
      <4>4. ASSUME NEW x \in Sites, NEW m \in Manifests, Launch(w, x, m)
            PROVE  win'[w].pc = "loading"
        BY <2>1, <4>4 DEF Launch, IdleWindow
      <4>5. QED
        BY <2>9, <4>1, <4>2, <4>3, <4>4
    <3>2. QED
      BY <2>3, <3>1
  <2>10. QED
    BY <1>2, <2>4, <2>5, <2>6, <2>7, <2>8, <2>9 DEF Progress, User
<1>3. QED
  BY <1>1, <1>2 DEF Next

\* While no two windows open one site, trust_diagnostic reports a transition exactly when the
\* decision just persisted made one.
THEOREM DiagnosticsAreTransitions == Spec /\ []SitesApart => []DiagnosticMarksChange
<1>1. TransitionInv => DiagnosticMarksChange
  BY DEF TransitionInv, TransitionOK, DiagnosticMarksChange
<1>2. IInv /\ SitesApart /\ SnapshotInv /\ TransitionInv /\ [Next]_vars => TransitionInv'
  BY TransitionInvStep
<1>3. QED
  BY <1>1, <1>2, Invariance, SnapshotInvariance, TransitionInvInit, PTL DEF Spec

----------------------------------------------------------------------------
\* The operators the abstract store is built from are the session's own.
LEMMA SameOperators ==
    /\ \A key, old, decision : Store!Resolve(key, old, decision) = Resolve(key, old, decision)
    /\ \A old, intent : Store!RetainedAfter(old, intent) = RetainedAfter(old, intent)
    /\ \A m, h : Store!CheckAgainstHistory(m, h) = CheckAgainstHistory(m, h)
    /\ \A m, h : Store!Prepend(Store!RecordFor(m), h) = Prepend(RecordFor(m), h)
<1>1. \A key, old, decision : Store!Resolve(key, old, decision) = Resolve(key, old, decision)
  BY DEF Store!Resolve, Store!ResolveFirstContact, Store!ResolveMatched, Store!ResolveMismatch,
         Store!Resolution, Store!Intend, Store!IntendReplace, Store!Intent, Store!NoIntent,
         Store!Nothing, Store!StateOfProvenance,
         Resolve, ResolveFirstContact, ResolveMatched, ResolveMismatch,
         Resolution, Intend, IntendReplace, Intent, NoIntent, Nothing, StateOfProvenance
<1>2. \A old, intent : Store!RetainedAfter(old, intent) = RetainedAfter(old, intent)
  BY DEF Store!RetainedAfter, Store!Identity, Store!Nothing, RetainedAfter, Identity, Nothing
<1>3. \A m, h : Store!CheckAgainstHistory(m, h) = CheckAgainstHistory(m, h)
  BY DEF Store!CheckAgainstHistory, Store!AntiDowngrade, Store!NoCanaryConflict,
         Store!SamePayloadRefetch, Store!RuntimeKeyRotated, Store!RecordFor, RecordFor,
         CheckAgainstHistory, AntiDowngrade, NoCanaryConflict, SamePayloadRefetch,
         RuntimeKeyRotated
<1>4. \A m, h : Store!Prepend(Store!RecordFor(m), h) = Prepend(RecordFor(m), h)
  BY DEF Store!Prepend, Store!RecordFor, Prepend, RecordFor
<1>5. QED
  BY <1>1, <1>2, <1>3, <1>4

\* A window's session maps to the in-memory stores: an identity write to an
\* Apply of the decision behind it, a history write to an AppendRecord, every
\* other step to none.
LEMMA StoreStep ==
    ASSUME IInv, SnapshotInv, HistoryInv, [Next]_vars
    PROVE  [Store!StoreNext]_<<Store!storeVars>>
<1> DEFINE map == [x \in Sites |-> Retained(identities[x])]
           keys == [x \in Sites |-> identities[x].replaced]
<1>1. ASSUME NEW w \in Windows, WriteIdentity(w)
      PROVE  Store!StoreNext
  <2> DEFINE v == win[w]
             key == v.manifest.pub
             file == identities[v.site]
             after == FileAfter(file, v.intent)
             intent == Resolve(key, Retained(file), v.decision).intent
  <2>1. /\ v.site \in Sites /\ key \in Publishers /\ v.decision \in UserDecisions
        /\ v.intent # NoIntent /\ v.intent \in PersistenceIntents
    BY <1>1, WindowFacts DEF WriteIdentity, PersistPoints
  <2>2. /\ identities' = [identities EXCEPT ![v.site] = after] /\ v.intent = intent
        /\ Retained(after) = RetainedAfter(Retained(file), intent)
    BY <1>1, FreshWrite DEF SnapshotInv
  <2>3. after.replaced = Store!ReplacedAfter(file.replaced, intent)
    <3>1. intent.kind = "RecordObservation" => file.replaced = <<>>
      <4>1. StoreWrites(file, v.intent)
        BY <1>1 DEF SnapshotInv, SnapshotOK, WriteIdentity
      <4>2. QED
        BY <2>2, <4>1 DEF StoreWrites, NoFile, IdentityFile
    <3>2. QED
      BY <2>2, <3>1 DEF FileAfter, IdentityFile, Store!ReplacedAfter
  <2>4. identities \in [Sites -> IdentityFiles] /\ histories' = histories
    BY <1>1 DEF IInv, TypeOK, WriteIdentity
  <2> HIDE DEF after
  <2>5. map' = [map EXCEPT ![v.site] = Store!RetainedAfter(@, intent)]
    BY <2>1, <2>2, <2>4, SameOperators
  <2>6. keys' = [keys EXCEPT ![v.site] = Store!ReplacedAfter(@, intent)]
    BY <2>1, <2>2, <2>3, <2>4
  <2>7. intent = Store!Resolve(key, map[v.site], v.decision).intent
    BY <2>1, SameOperators
  <2>8. PICK x \in Sites, k \in Publishers, decision \in UserDecisions :
           x = v.site /\ k = key /\ decision = v.decision
    BY <2>1
  <2> HIDE DEF intent, map, keys
  <2>9. Store!Apply(x, k, decision)
    BY <2>4, <2>5, <2>6, <2>7, <2>8 DEF Store!Apply, map, keys
  <2>10. QED
    BY <2>9 DEF Store!StoreNext, UserDecisions, Store!UserDecisions
<1>2. ASSUME NEW w \in Windows, WriteHistory(w)
      PROVE  Store!StoreNext
  <2> DEFINE m == win[w].manifest
  <2>1. /\ m \in Manifests /\ m.pub \in Publishers /\ win[w].intent.pubkey = m.pub
        /\ win[w].log = histories[m.pub] /\ CheckAgainstHistory(m, histories[m.pub])
    BY <1>2, ManifestsAssumption
       DEF WriteHistory, IInv, WindowInv, WindowOK, Justified, PersistPoints, HistoryInv, CheckedOK
  <2>2. histories' = [histories EXCEPT ![m.pub] = Prepend(RecordFor(m), @)]
        /\ identities' = identities
    BY <1>2, <2>1 DEF WriteHistory, IInv, TypeOK
  <2>3. Store!AppendRecord(m)
    BY <2>1, <2>2, SameOperators DEF Store!AppendRecord
  <2>4. QED
    BY <2>1, <2>3 DEF Store!StoreNext
<1>3. ASSUME \A w \in Windows : ~WriteIdentity(w) /\ ~WriteHistory(w)
      PROVE  identities' = identities /\ histories' = histories
  BY <1>3 DEF Next, Progress, User, Crash, Launch, LoadAccepted, LoadRejected, ReadIdentity,
     ReadHistory, PersistFails, Reload, Decide, Decline, Quit, vars
<1>4. QED
  BY <1>1, <1>2, <1>3 DEF Store!storeVars

\* Windows that keep apart keep the contract of the in-memory stores, whatever
\* fails.
THEOREM SessionImplementsStores ==
    Spec /\ []SitesApart /\ []PublishersApart => ImplementsMemoryStores
<1>1. Init /\ ~Legacy => Store!StoreInit
  <2> SUFFICES ASSUME Init, ~Legacy PROVE Store!StoreInit
    OBVIOUS
  <2>1. PICK past \in Pasts : InitFrom(past)
    BY DEF Init
  <2>2. \A x \in Sites : past[x] = None
    BY DEF Pasts
  <2>3. /\ \A x \in Sites : identities[x] = NoFile
        /\ histories = [p \in Publishers |-> <<>>]
    BY <2>1, <2>2 DEF InitFrom
  <2>4. Retained(NoFile) = Store!Nothing /\ NoFile.replaced = <<>>
    BY DEF Retained, NoFile, IdentityFile, Identity, DecodeProvenance, Store!Nothing
  <2>5. QED
    BY <2>3, <2>4 DEF Store!StoreInit
<1>2. IInv /\ SnapshotInv /\ HistoryInv /\ [Next]_vars => [Store!StoreNext]_<<Store!storeVars>>
  BY StoreStep
<1>3. IInv /\ PublishersApart /\ HistoryInv /\ [Next]_vars => HistoryInv'
  BY HistoryInvStep
<1>4. QED
  BY <1>1, <1>2, <1>3, Invariance, SnapshotInvariance, HistoryInvInit, PTL
     DEF Spec, ImplementsMemoryStores
=============================================================================
