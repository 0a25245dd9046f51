--------------------------- MODULE StoreRootProofs ---------------------------
(***************************************************************************)
(* Launches that open the store in turn, of either mode and stopped at any   *)
(* step, never key it twice in one mode, for any processes, files,           *)
(* passphrases and any number of keys drawn; and if they are all of one mode *)
(* every stored file can be opened by the next.                              *)
(*                                                                           *)
(* RootInv: what a process that is opening or using the store has in memory  *)
(* is what the directory says, or the directory has no such key or salt yet  *)
(* and nobody else is opening it.                                            *)
(***************************************************************************)
EXTENDS StoreRoot, TLAPS

IntegrityMeta == Meta("Integrity", None)

\* What the program point of a process says of the directory.
ProcOK(p) ==
    LET v == proc[p] IN
    /\ v.pc # "idle" => v.mode \in Modes /\ (v.mode = "Integrity" <=> v.pass = None)
    /\ v.pc \in {"readKey", "writeKey", "checkMode"} => v.mode = "Integrity"
    /\ v.pc = "readMeta" => v.mode = "Encrypted"
    /\ v.pc = "writeKey" => storeKey = None /\ v.secret \in Secrets
    /\ v.pc = "writeMeta" =>
          /\ v.secret \in Secrets
          /\ IF v.mode = "Integrity"
             THEN storeKey = v.secret /\ meta # IntegrityMeta ELSE meta = None
    /\ v.pc = "checkMode" => v.secret \in Secrets /\ storeKey = v.secret
    /\ v.pc \in Using => v.secret \in Secrets /\ Keyed(ProtectorOf(p))
    /\ v.pc = "saving" => v.file \in Files

OneOpens ==
    \A p, q \in Procs : proc[p].pc \in Opening /\ proc[q].pc \in Opening => p = q

\* Nothing on the disk is of a mode nobody was launched in.
ModesLaunched ==
    /\ meta # None => meta.protection \in Modes
    /\ \A f \in Files : data[f] # None => data[f].mode \in Modes

RootInv ==
    /\ RootTypeOK /\ FilesKeepTheirKeys /\ OneOpens /\ ModesLaunched
    /\ \A p \in Procs : ProcOK(p)
    /\ meta = IntegrityMeta => storeKey # None

\* The four ways a step of an opening process may change the directory.
DirectoryStep ==
    \/ storeKey' = storeKey /\ meta' = meta
    \/ storeKey = None /\ meta' = meta
    \/ storeKey' = storeKey /\ meta = None
    \/ storeKey' = storeKey /\ meta' = IntegrityMeta

\* None of them takes the key or the salt from a protector that has it.
LEMMA KeyedKept ==
    ASSUME DirectoryStep, NEW protector \in Protectors, Keyed(protector)
    PROVE  Keyed(protector)'
<1>1. protector.secret # None
  BY StoreRootAssumption DEF Protectors
<1>2. IntegrityMeta # None /\ IntegrityMeta.protection = "Integrity"
  BY StoreRootAssumption DEF IntegrityMeta, Metas, Meta
<1>3. QED
  BY <1>1, <1>2 DEF DirectoryStep, Keyed

LEMMA RootInvInit == Init => RootInv
<1>1. IntegrityMeta # None
  BY StoreRootAssumption DEF IntegrityMeta, Metas
<1>2. IdleProc \in ProcStates /\ IdleProc.pc = "idle"
  BY DEF IdleProc, ProcStates
<1>3. QED
  BY <1>1, <1>2 DEF Init, RootInv, RootTypeOK, FilesKeepTheirKeys, OneOpens,
                    ModesLaunched, ProcOK, Opening, Using

\* A process that uses the store seals with one of the protectors.
LEMMA UsingProtector ==
    ASSUME RootTypeOK, NEW p \in Procs, ProcOK(p), proc[p].pc \in Using
    PROVE  ProtectorOf(p) \in Protectors
<1>1. proc[p].pc # "idle"
  BY DEF Using
<1>2. QED
  BY <1>1, StoreRootAssumption
     DEF RootTypeOK, ProcOK, ProcStates, ProtectorOf, Protector, Protectors

LEMMA RootInvStep == RootInv /\ [InTurnNext]_vars => RootInv'
<1> SUFFICES ASSUME RootInv, [InTurnNext]_vars PROVE RootInv'
  OBVIOUS
<1>1. CASE UNCHANGED vars
  BY <1>1 DEF vars, RootInv, RootTypeOK, FilesKeepTheirKeys, Keyed, OneOpens,
              ModesLaunched, ProcOK, ProtectorOf
<1> SUFFICES ASSUME InTurnNext PROVE RootInv'
  BY <1>1
<1>2. /\ storeKey \in Secrets \cup {None} /\ meta \in Metas \cup {None}
      /\ data \in [Files -> Protectors \cup {None}] /\ proc \in [Procs -> ProcStates]
      /\ drawn \in SUBSET Secrets /\ FilesKeepTheirKeys /\ OneOpens /\ ModesLaunched
      /\ \A p \in Procs : ProcOK(p)
      /\ meta = IntegrityMeta => storeKey # None
      /\ None \notin Secrets
  BY StoreRootAssumption DEF RootInv, RootTypeOK
\* A step of one process, whatever it does to its own state, if the others can
\* stay where they are and the directory and the files fit.
<1>3. ASSUME NEW p \in Procs, NEW u \in ProcStates,
             proc' = [proc EXCEPT ![p] = u], ProcOK(p)',
             u.pc \in Opening => \A q \in Procs \ {p} : proc[q].pc \notin Opening,
             \/ storeKey' = storeKey /\ meta' = meta
             \/ \A q \in Procs \ {p} : proc[q].pc \notin Opening,
             DirectoryStep,
             storeKey' \in Secrets \cup {None}, meta' \in Metas \cup {None},
             meta' = IntegrityMeta => storeKey' # None,
             drawn' \in SUBSET Secrets,
             data' \in [Files -> Protectors \cup {None}],
             FilesKeepTheirKeys', ModesLaunched'
      PROVE  RootInv'
  <2>1. ASSUME NEW q \in Procs \ {p}
        PROVE  ProcOK(q)'
    <3>1. proc'[q] = proc[q] /\ ProcOK(q) /\ ProtectorOf(q)' = ProtectorOf(q)
      BY <1>2, <1>3 DEF ProtectorOf
    <3>2. proc[q].pc \in Using => Keyed(ProtectorOf(q))'
      <4>1. SUFFICES ASSUME proc[q].pc \in Using PROVE Keyed(ProtectorOf(q))'
        OBVIOUS
      <4>2. PICK protector \in Protectors :
               protector = ProtectorOf(q) /\ Keyed(protector)
        BY <1>2, <3>1, <4>1, UsingProtector DEF ProcOK, RootInv
      <4>3. Keyed(protector)' /\ protector = ProtectorOf(q)'
        BY <1>3, <3>1, <4>2, KeyedKept
      <4>4. QED
        BY <4>3 DEF Keyed
    <3>3. CASE proc[q].pc \in Opening
      <4>1. storeKey' = storeKey /\ meta' = meta
        BY <1>3, <3>3
      <4>2. proc[q].pc \notin Using
        BY <3>3 DEF Opening, Using
      <4>3. QED
        BY <3>1, <4>1, <4>2 DEF ProcOK, Using
    <3>4. CASE proc[q].pc \notin Opening
      BY <3>1, <3>2, <3>4 DEF ProcOK, Opening, Using
    <3>5. QED
      BY <3>3, <3>4
  <2>2. OneOpens'
    BY <1>2, <1>3 DEF OneOpens
  <2>3. RootTypeOK'
    BY <1>2, <1>3 DEF RootTypeOK
  <2>4. QED
    BY <1>3, <2>1, <2>2, <2>3 DEF RootInv
\* Most steps leave the directory and its files alone.
<1>4. ASSUME NEW p \in Procs, NEW u \in ProcStates,
             proc' = [proc EXCEPT ![p] = u], ProcOK(p)',
             u.pc \in Opening => \A q \in Procs \ {p} : proc[q].pc \notin Opening,
             storeKey' = storeKey, meta' = meta, data' = data,
             drawn' \in SUBSET Secrets
      PROVE  RootInv'
  <2>1. DirectoryStep
    BY <1>4 DEF DirectoryStep
  <2>2. FilesKeepTheirKeys' /\ ModesLaunched'
    BY <1>2, <1>4 DEF FilesKeepTheirKeys, Keyed, ModesLaunched
  <2>3. QED
    BY <1>2, <1>3, <1>4, <2>1, <2>2
<1>5. ASSUME NEW p \in Procs, NEW mode \in Modes, NEW pass \in Passphrases \cup {None},
             Open(p, mode, pass)
      PROVE  RootInv'
  <2> DEFINE u == [pc |-> IF mode = "Integrity" THEN "readKey" ELSE "readMeta",
                   mode |-> mode, secret |-> None, pass |-> pass, file |-> None]
  <2>1. proc' = [proc EXCEPT ![p] = u] /\ proc'[p] = u /\ (mode = "Integrity" <=> pass = None)
        /\ mode \in {"Integrity", "Encrypted"}
    BY <1>2, <1>5, StoreRootAssumption DEF Open
  <2>2. \A q \in Procs : proc[q].pc \notin Opening
    <3>1. proc[p].pc = "idle" /\ proc'[p].pc # "idle"
      BY <1>5, <2>1 DEF Open
    <3>2. QED
      BY <3>1 DEF InTurnNext
  <2>3. u \in ProcStates
    BY <2>1 DEF ProcStates, Opening
  <2>4. ProcOK(p)'
    BY <2>1 DEF ProcOK, Using
  <2>5. QED
    BY <1>2, <1>4, <1>5, <2>1, <2>2, <2>3, <2>4 DEF Open
<1>6. ASSUME NEW p \in Procs, LoadKey(p)
      PROVE  RootInv'
  <2> DEFINE u == [proc[p] EXCEPT !.pc = "checkMode", !.secret = storeKey]
  <2>1. proc' = [proc EXCEPT ![p] = u] /\ proc'[p] = u /\ u \in ProcStates
        /\ u.pc = "checkMode" /\ u.secret = storeKey /\ u.mode = proc[p].mode
        /\ u.pass = proc[p].pass /\ proc[p].pc \in Opening /\ storeKey \in Secrets
    BY <1>2, <1>6 DEF LoadKey, ProcStates, Opening
  <2>2. ProcOK(p)'
    BY <1>2, <1>6, <2>1 DEF LoadKey, ProcOK, Using
  <2>3. QED
    BY <1>2, <1>4, <1>6, <2>1, <2>2 DEF LoadKey, OneOpens
<1>7. ASSUME NEW p \in Procs, GenerateKey(p)
      PROVE  RootInv'
  <2>1. PICK s \in Secrets : Draw(s) /\ proc' = [proc EXCEPT ![p].pc = "writeKey", ![p].secret = s]
    BY <1>7 DEF GenerateKey
  <2> DEFINE u == [proc[p] EXCEPT !.pc = "writeKey", !.secret = s]
  <2>2. /\ u \in ProcStates /\ u.pc = "writeKey" /\ u.secret = s /\ u.mode = proc[p].mode
        /\ u.pass = proc[p].pass /\ proc[p].pc \in Opening
    BY <1>2, <1>7 DEF GenerateKey, ProcStates, Opening
  <2> HIDE DEF u
  <2>a. drawn' \in SUBSET Secrets
    BY <1>2, <2>1 DEF Draw
  <2>b. proc' = [proc EXCEPT ![p] = u] /\ proc'[p] = u
    BY <1>2, <2>1 DEF u
  <2>3. ProcOK(p)'
    BY <1>2, <1>7, <2>2, <2>b DEF GenerateKey, ProcOK, Using
  <2>4. QED
    BY <1>2, <1>4, <1>7, <2>2, <2>a, <2>b, <2>3 DEF GenerateKey, OneOpens
<1>8. ASSUME NEW p \in Procs, CheckMode(p)
      PROVE  RootInv'
  <2> DEFINE refused == meta # None /\ meta.protection # "Integrity"
             u == [proc[p] EXCEPT !.pc = "open"]
  <2>0. /\ proc' = [proc EXCEPT ![p] = IF refused THEN IdleProc ELSE u]
        /\ storeKey' = storeKey /\ meta' = meta /\ data' = data
        /\ drawn' \in SUBSET Secrets
    BY <1>2, <1>8 DEF CheckMode
  <2>1. CASE refused
    <3>1. proc' = [proc EXCEPT ![p] = IdleProc] /\ proc'[p] = IdleProc
      BY <1>2, <2>0, <2>1
    <3>2. IdleProc \in ProcStates /\ IdleProc.pc \notin Opening \cup Using
          /\ IdleProc.pc = "idle"
      BY DEF IdleProc, ProcStates, Opening, Using
    <3>3. ProcOK(p)'
      BY <3>1, <3>2 DEF ProcOK
    <3>4. QED
      BY <1>4, <2>0, <3>1, <3>2, <3>3
  <2>2. CASE ~refused
    <3>1. proc' = [proc EXCEPT ![p] = u] /\ proc'[p] = u /\ u \in ProcStates
          /\ u.pc = "open" /\ u.secret = proc[p].secret /\ u.mode = proc[p].mode
          /\ u.pass = proc[p].pass
      BY <1>2, <2>0, <2>2 DEF ProcStates, Using
    <3>2. /\ proc[p].mode = "Integrity" /\ proc[p].mode \in Modes /\ proc[p].pass = None
          /\ proc[p].secret \in Secrets /\ storeKey = proc[p].secret
      BY <1>2, <1>8 DEF CheckMode, ProcOK
    <3>3. Keyed(ProtectorOf(p))'
      BY <2>0, <3>1, <3>2 DEF Keyed, ProtectorOf, Protector
    <3>4. ProcOK(p)'
      BY <3>1, <3>2, <3>3 DEF ProcOK
    <3>5. QED
      BY <1>4, <2>0, <3>1, <3>4 DEF Opening
  <2>3. QED
    BY <2>1, <2>2
<1>9. ASSUME NEW p \in Procs, LoadSalt(p)
      PROVE  RootInv'
  <2> DEFINE u == [proc[p] EXCEPT !.pc = "open", !.secret = meta.salt]
  <2>0. /\ proc' = [proc EXCEPT ![p] =
              IF meta.protection # "Encrypted" THEN IdleProc ELSE u]
        /\ storeKey' = storeKey /\ meta' = meta /\ data' = data
        /\ drawn' \in SUBSET Secrets
    BY <1>2, <1>9 DEF LoadSalt
  <2>1. CASE meta.protection # "Encrypted"
    <3>1. proc' = [proc EXCEPT ![p] = IdleProc] /\ proc'[p] = IdleProc
      BY <1>2, <2>0, <2>1
    <3>2. IdleProc \in ProcStates /\ IdleProc.pc \notin Opening \cup Using
          /\ IdleProc.pc = "idle"
      BY DEF IdleProc, ProcStates, Opening, Using
    <3>3. ProcOK(p)'
      BY <3>1, <3>2 DEF ProcOK
    <3>4. QED
      BY <1>4, <2>0, <3>1, <3>2, <3>3
  <2>2. CASE meta.protection = "Encrypted"
    <3>1. meta.salt \in Secrets /\ meta # None
      BY <1>2, <1>9, <2>2 DEF LoadSalt, Metas, Meta
    <3>a. proc' = [proc EXCEPT ![p] = u]
      BY <2>0, <2>2
    <3>b. /\ u \in ProcStates /\ u.pc = "open" /\ u.secret = meta.salt
          /\ u.mode = proc[p].mode /\ u.pass = proc[p].pass
      BY <1>2, <3>1 DEF ProcStates, Using
    <3>2. proc' = [proc EXCEPT ![p] = u] /\ proc'[p] = u
      BY <1>2, <3>a
    <3>3. ProcOK(p)'
      <4>1. proc[p].mode = "Encrypted" /\ proc[p].mode \in Modes /\ proc[p].pass # None
        BY <1>2, <1>9 DEF LoadSalt, ProcOK
      <4>2. proc'[p].pc = "open" /\ proc'[p].secret = meta.salt
            /\ proc'[p].mode = proc[p].mode /\ proc'[p].pass = proc[p].pass
        BY <3>b, <3>2
      <4>3. Keyed(ProtectorOf(p))'
        BY <2>0, <3>1, <4>1, <4>2 DEF Keyed, ProtectorOf, Protector
      <4>4. QED
        BY <3>1, <4>1, <4>2, <4>3 DEF ProcOK
    <3>4. u.pc \notin Opening
      BY <3>b DEF Opening
    <3>5. QED
      BY <1>4, <2>0, <3>b, <3>2, <3>3, <3>4
  <2>3. QED
    BY <2>1, <2>2
<1>10. ASSUME NEW p \in Procs, GenerateSalt(p)
       PROVE  RootInv'
  <2>1. PICK s \in Secrets : Draw(s) /\ proc' = [proc EXCEPT ![p].pc = "writeMeta", ![p].secret = s]
    BY <1>10 DEF GenerateSalt
  <2> DEFINE u == [proc[p] EXCEPT !.pc = "writeMeta", !.secret = s]
  <2>2. /\ u \in ProcStates /\ u.pc = "writeMeta" /\ u.secret = s /\ u.mode = proc[p].mode
        /\ u.pass = proc[p].pass /\ proc[p].pc \in Opening
    BY <1>2, <1>10 DEF GenerateSalt, ProcStates, Opening
  <2> HIDE DEF u
  <2>a. drawn' \in SUBSET Secrets
    BY <1>2, <2>1 DEF Draw
  <2>b. proc' = [proc EXCEPT ![p] = u] /\ proc'[p] = u
    BY <1>2, <2>1 DEF u
  <2>3. ProcOK(p)'
    BY <1>2, <1>10, <2>2, <2>b DEF GenerateSalt, ProcOK, Using
  <2>4. QED
    BY <1>2, <1>4, <1>10, <2>2, <2>a, <2>b, <2>3 DEF GenerateSalt, OneOpens
\* A directory that is changed by the one process opening it.
<1>11. ASSUME NEW p \in Procs, proc[p].pc \in Opening, NEW u \in ProcStates,
              proc' = [proc EXCEPT ![p] = u], ProcOK(p)', DirectoryStep,
              storeKey' \in Secrets \cup {None}, meta' \in Metas \cup {None},
              meta' = IntegrityMeta => storeKey' # None,
              meta' # None => meta'.protection \in Modes,
              data' = data, drawn' = drawn
       PROVE  RootInv'
  <2>1. \A q \in Procs \ {p} : proc[q].pc \notin Opening
    BY <1>2, <1>11 DEF OneOpens
  <2>2. FilesKeepTheirKeys'
    <3> SUFFICES ASSUME NEW f \in Files, data[f] # None PROVE Keyed(data[f])'
      BY <1>11 DEF FilesKeepTheirKeys
    <3>1. PICK protector \in Protectors : protector = data[f] /\ Keyed(protector)
      BY <1>2 DEF FilesKeepTheirKeys
    <3>2. Keyed(protector)' /\ protector = data'[f]
      BY <1>11, <3>1, KeyedKept
    <3>3. QED
      BY <3>2 DEF Keyed
  <2>3. ModesLaunched'
    BY <1>2, <1>11 DEF ModesLaunched
  <2>4. QED
    BY <1>2, <1>3, <1>11, <2>1, <2>2, <2>3
<1>12. ASSUME NEW p \in Procs, WriteKey(p)
       PROVE  RootInv'
  <2> DEFINE u == [proc[p] EXCEPT !.pc = "writeMeta"]
  <2>1. /\ storeKey = None /\ proc[p].mode = "Integrity" /\ storeKey' = proc[p].secret
        /\ proc' = [proc EXCEPT ![p] = u] /\ proc'[p] = u /\ u \in ProcStates
        /\ u.pc = "writeMeta" /\ u.secret = proc[p].secret /\ u.mode = proc[p].mode
        /\ u.pass = proc[p].pass /\ meta' = meta /\ data' = data /\ drawn' = drawn
        /\ proc[p].pc \in Opening /\ proc[p].secret \in Secrets
    BY <1>2, <1>12 DEF WriteKey, ProcOK, ProcStates, Opening
  <2>2. ProcOK(p)'
    BY <1>2, <1>12, <2>1 DEF WriteKey, ProcOK, Using
  <2>3. DirectoryStep
    BY <2>1 DEF DirectoryStep
  <2>4. QED
    BY <1>2, <1>11, <2>1, <2>2, <2>3 DEF ModesLaunched
<1>13. ASSUME NEW p \in Procs, WriteMeta(p), proc[p].mode = "Integrity"
       PROVE  RootInv'
  <2> DEFINE u == [proc[p] EXCEPT !.pc = "checkMode"]
  <2>1. /\ storeKey = proc[p].secret /\ storeKey' = storeKey /\ meta' = IntegrityMeta
        /\ proc' = [proc EXCEPT ![p] = u] /\ proc'[p] = u /\ u \in ProcStates
        /\ u.pc = "checkMode" /\ u.secret = proc[p].secret /\ u.mode = proc[p].mode
        /\ u.pass = proc[p].pass /\ data' = data /\ drawn' = drawn
        /\ proc[p].pc \in Opening /\ proc[p].secret \in Secrets
    BY <1>2, <1>13 DEF WriteMeta, ProcOK, ProcStates, Opening, IntegrityMeta
  <2>2. ProcOK(p)'
    BY <1>2, <1>13, <2>1 DEF WriteMeta, ProcOK, Using
  <2>3. DirectoryStep /\ meta' \in Metas /\ meta'.protection = "Integrity"
    BY <2>1 DEF DirectoryStep, Metas, IntegrityMeta, Meta
  <2>4. "Integrity" \in Modes
    BY <1>2, <1>13 DEF WriteMeta, ProcOK
  <2>5. QED
    BY <1>2, <1>11, <2>1, <2>2, <2>3, <2>4
<1>14. ASSUME NEW p \in Procs, WriteMeta(p), proc[p].mode # "Integrity"
       PROVE  RootInv'
  <2> DEFINE u == [proc[p] EXCEPT !.pc = "open"]
  <2>1. /\ proc[p].mode \in Modes /\ proc[p].mode = "Encrypted" /\ proc[p].pass # None
        /\ proc[p].secret \in Secrets /\ meta = None /\ proc[p].pc \in Opening
    BY <1>2, <1>14, StoreRootAssumption DEF WriteMeta, ProcOK, Opening
  <2>2. /\ storeKey' = storeKey /\ meta' = Meta("Encrypted", proc[p].secret)
        /\ proc' = [proc EXCEPT ![p] = u] /\ proc'[p] = u /\ u \in ProcStates
        /\ u.pc = "open" /\ u.secret = proc[p].secret /\ u.mode = proc[p].mode
        /\ u.pass = proc[p].pass /\ data' = data /\ drawn' = drawn
    BY <1>2, <1>14 DEF WriteMeta, ProcStates, Using
  <2>3. /\ meta' \in Metas /\ meta' # None /\ meta'.protection = "Encrypted"
        /\ meta'.salt = proc[p].secret /\ meta' # IntegrityMeta
    BY <2>1, <2>2, StoreRootAssumption DEF Metas, Meta, IntegrityMeta
  <2>4. ProcOK(p)'
    BY <2>1, <2>2, <2>3 DEF ProcOK, Keyed, ProtectorOf, Protector
  <2>5. DirectoryStep
    BY <2>1, <2>2 DEF DirectoryStep
  <2>6. QED
    BY <1>2, <1>11, <2>1, <2>2, <2>3, <2>4, <2>5
<1>15. ASSUME NEW p \in Procs, NEW f \in Files, ReadBack(p, f)
       PROVE  RootInv'
  <2> DEFINE u == [proc[p] EXCEPT !.pc = "saving", !.file = f]
  <2>1. /\ proc' = [proc EXCEPT ![p] = u] /\ proc'[p] = u /\ u \in ProcStates
        /\ u.pc = "saving" /\ u.file = f /\ u.secret = proc[p].secret
        /\ u.mode = proc[p].mode /\ u.pass = proc[p].pass /\ proc[p].pc = "open"
        /\ storeKey' = storeKey /\ meta' = meta /\ data' = data /\ drawn' = drawn
    BY <1>2, <1>15 DEF ReadBack, ProcStates, Using
  <2>2. ProcOK(p)'
    BY <1>2, <2>1 DEF ProcOK, Keyed, ProtectorOf, Protector, Using
  <2>3. QED
    BY <1>2, <1>4, <2>1, <2>2 DEF Opening
<1>16. ASSUME NEW p \in Procs, WriteProtected(p)
       PROVE  RootInv'
  <2> DEFINE u == [proc[p] EXCEPT !.pc = "open", !.file = None]
             f == proc[p].file
  <2>1. /\ proc' = [proc EXCEPT ![p] = u] /\ proc'[p] = u /\ u \in ProcStates
        /\ u.pc = "open" /\ u.secret = proc[p].secret
        /\ u.mode = proc[p].mode /\ u.pass = proc[p].pass /\ proc[p].pc = "saving"
        /\ storeKey' = storeKey /\ meta' = meta /\ drawn' = drawn
        /\ data' = [data EXCEPT ![f] = ProtectorOf(p)]
    BY <1>2, <1>16 DEF WriteProtected, ProcStates, Using
  <2>2. /\ ProtectorOf(p) \in Protectors /\ Keyed(ProtectorOf(p))
        /\ ProtectorOf(p).mode \in Modes /\ f \in Files
    BY <1>2, <2>1, UsingProtector DEF ProcOK, Using, ProtectorOf, Protector, RootInv
  <2>3. ProcOK(p)'
    BY <1>2, <2>1 DEF ProcOK, Keyed, ProtectorOf, Protector, Using
  <2>4. FilesKeepTheirKeys' /\ ModesLaunched'
    BY <1>2, <2>1, <2>2 DEF FilesKeepTheirKeys, Keyed, ModesLaunched
  <2>5. DirectoryStep /\ data' \in [Files -> Protectors \cup {None}]
    BY <1>2, <2>1, <2>2 DEF DirectoryStep
  <2>6. QED
    BY <1>2, <1>3, <2>1, <2>3, <2>4, <2>5 DEF Opening
<1>17. ASSUME NEW p \in Procs, Stop(p)
       PROVE  RootInv'
  <2>1. proc' = [proc EXCEPT ![p] = IdleProc] /\ proc'[p] = IdleProc /\ IdleProc \in ProcStates
    BY <1>2, <1>17 DEF Stop, IdleProc, ProcStates
  <2>2. ProcOK(p)'
    BY <2>1 DEF ProcOK, IdleProc, Using
  <2>3. QED
    BY <1>2, <1>4, <1>17, <2>1, <2>2 DEF Stop, IdleProc, Opening
<1>18. QED
  BY <1>5, <1>6, <1>7, <1>8, <1>9, <1>10, <1>12, <1>13, <1>14, <1>15, <1>16, <1>17
     DEF InTurnNext, Next

THEOREM RootInvariance == InTurnSpec => []RootInv
  BY RootInvInit, RootInvStep, PTL DEF InTurnSpec

\* Every variable keeps to its type.
THEOREM RootTypeCorrect == InTurnSpec => []RootTypeOK
<1>1. RootInv => RootTypeOK
  BY DEF RootInv
<1>2. QED
  BY <1>1, RootInvariance, PTL

\* Whatever is interrupted, in whatever mode the next launch is, the key or
\* salt a file was sealed under is kept as long as the store is of that mode.
THEOREM FilesStayKeyed == InTurnSpec => []FilesKeepTheirKeys
<1>1. RootInv => FilesKeepTheirKeys
  BY DEF RootInv
<1>2. QED
  BY <1>1, RootInvariance, PTL

\* A client that is always launched in the same mode can open every file it
\* stored.
THEOREM OneModeKeepsFilesReadable ==
    ASSUME \A mode, other \in Modes : mode = other
    PROVE  InTurnSpec => []EveryFileReadable
<1>1. RootInv => EveryFileReadable
  BY DEF RootInv, FilesKeepTheirKeys, ModesLaunched, EveryFileReadable
<1>2. QED
  BY <1>1, RootInvariance, PTL

\* The store-key is never replaced, and a recorded mode and salt only by a
\* default-mode launch of an encrypted store.
THEOREM KeyingStays == InTurnSpec => KeyingKept
<1> DEFINE Kept ==
       /\ storeKey # None => storeKey' = storeKey
       /\ meta # None /\ meta' # meta =>
             /\ meta.protection = "Encrypted" /\ meta'.protection = "Integrity"
             /\ \E p \in Procs : proc[p].mode = "Integrity" /\ proc[p].secret = storeKey
<1>1. RootInv /\ [InTurnNext]_vars => [Kept]_vars
  <2> SUFFICES ASSUME RootInv, Next PROVE Kept
    BY DEF vars, InTurnNext
  <2>1. storeKey # None => storeKey' = storeKey
    <3>1. ASSUME NEW p \in Procs, WriteKey(p) PROVE storeKey = None
      BY <3>1 DEF RootInv, ProcOK, WriteKey
    <3>2. QED
      BY <3>1 DEF Next, Open, LoadKey, GenerateKey, CheckMode, LoadSalt, GenerateSalt,
                  WriteMeta, ReadBack, WriteProtected, Stop
  <2>2. ASSUME meta # None, meta' # meta
        PROVE  /\ meta.protection = "Encrypted" /\ meta'.protection = "Integrity"
               /\ \E p \in Procs : proc[p].mode = "Integrity" /\ proc[p].secret = storeKey
    <3>1. PICK p \in Procs : WriteMeta(p)
      BY <2>2 DEF Next, Open, LoadKey, GenerateKey, WriteKey, CheckMode, LoadSalt,
                  GenerateSalt, ReadBack, WriteProtected, Stop
    <3>2. /\ proc[p].mode = "Integrity" /\ proc[p].secret = storeKey
          /\ meta # IntegrityMeta /\ meta' = IntegrityMeta
      BY <2>2, <3>1 DEF RootInv, ProcOK, WriteMeta, IntegrityMeta
    <3>3. meta.protection = "Encrypted" /\ meta'.protection = "Integrity"
      BY <2>2, <3>2 DEF RootInv, RootTypeOK, Metas, IntegrityMeta, Meta
    <3>4. QED
      BY <3>2, <3>3
  <2>3. QED
    BY <2>1, <2>2
<1>2. QED
  BY <1>1, RootInvariance, PTL DEF InTurnSpec, KeyingKept
=============================================================================
