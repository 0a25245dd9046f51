-------------------------- MODULE AtomicFileProofs --------------------------
(***************************************************************************)
(* write_atomic and read_file_opt implement an atomic register, for any      *)
(* processes, payloads, temporary names and files, whatever fails.           *)
(*                                                                           *)
(* FileInv: a writer's temporary name and inode are its own until the rename, *)
(* so nobody fills, removes or publishes them for it; what the path names is  *)
(* whole; and the inode a reader has open is not written again.              *)
(***************************************************************************)
EXTENDS AtomicFile, TLAPS

ProcOK(p) ==
    LET v == proc[p] IN
    /\ v.pc = "create" => tmp[v.nonce] = None
    /\ v.pc \in {"write", "sync", "rename"} =>
          /\ v.inode \in Inodes /\ tmp[v.nonce] = v.inode /\ v.inode \notin stored
          /\ \A q \in Procs \ {p} : proc[q].inode # v.inode
    /\ v.pc \in {"sync", "rename"} => content[v.inode] = v.bytes
    /\ v.pc = "rename" => v.inode \in synced
    /\ v.pc = "reading" /\ v.inode # None => content[v.inode] \in Values

NoncesOwned ==
    \A p \in Procs : \A q \in Procs \ {p} : proc[p].nonce \in Nonces => proc[q].nonce # proc[p].nonce

FileInv ==
    /\ FileTypeOK /\ NamedFilesAreWhole /\ NoncesOwned
    /\ \A p \in Procs : ProcOK(p)

LEMMA FileInvInit == Init => FileInv
  BY FileAssumption DEF Init, FileInv, FileTypeOK, NamedFilesAreWhole, NoncesOwned, ProcOK,
     IdleProc, ProcStates, WritePoints

\* What the program point of a process says of its other fields.
LEMMA ProcFields ==
    ASSUME NEW v \in ProcStates
    PROVE  /\ v.pc \in {"idle", "cleanup", "reading"} \cup WritePoints
           /\ v.pc = "idle" => v = IdleProc
           /\ v.pc \in WritePoints => v.nonce \in Nonces /\ v.bytes \in Values
           /\ v.pc = "cleanup" => v.nonce \in Nonces /\ v.inode = None
           /\ v.pc = "reading" => v.nonce = None /\ v.bytes = None
           /\ v.inode \in Inodes \cup {None}
  BY DEF ProcStates, IdleProc, WritePoints

\* A step that only moves process p to u, with a name of its own or none.
LEMMA ProcStep ==
    ASSUME FileInv, NEW p \in Procs, NEW u \in ProcStates,
           proc' = [proc EXCEPT ![p] = u],
           u.nonce \in Nonces =>
              u.nonce = proc[p].nonce \/ \A q \in Procs : proc[q].nonce # u.nonce
    PROVE  /\ proc' \in [Procs -> ProcStates] /\ NoncesOwned'
           /\ proc'[p] = u /\ \A q \in Procs \ {p} : proc'[q] = proc[q]
  BY DEF FileInv, FileTypeOK, NoncesOwned

LEMMA FileInvStep == FileInv /\ [Next]_vars => FileInv'
<1> SUFFICES ASSUME FileInv, [Next]_vars PROVE FileInv'
  OBVIOUS
<1>1. CASE UNCHANGED vars
  BY <1>1 DEF vars, FileInv, FileTypeOK, NamedFilesAreWhole, NoncesOwned, ProcOK
<1>2. /\ target \in Inodes \cup {None} /\ tmp \in [Nonces -> Inodes \cup {None}]
      /\ content \in [Inodes -> Values \cup {Partial}] /\ synced \in SUBSET Inodes
      /\ stored \in SUBSET (Inodes \cup {None}) /\ proc \in [Procs -> ProcStates]
      /\ returned \in [Procs -> Values \cup {None}]
      /\ target \in stored
      /\ \A i \in stored \ {None} : content[i] \in Values /\ i \in synced
      /\ NoncesOwned /\ \A p \in Procs : ProcOK(p)
  BY DEF FileInv, FileTypeOK, NamedFilesAreWhole
<1>t. /\ target \in Inodes \cup {None} /\ content \in [Inodes -> Values \cup {Partial}]
      /\ synced \in SUBSET Inodes /\ proc \in [Procs -> ProcStates]
  BY <1>2
<1>3. IdleProc \in ProcStates /\ IdleProc.pc = "idle" /\ IdleProc.nonce = None
      /\ None \notin Nonces /\ None \notin Inodes
  BY FileAssumption DEF IdleProc, ProcStates
\* A process that only forgets what it was doing disturbs nobody.
<1>4. ASSUME NEW p \in Procs, proc' = [proc EXCEPT ![p] = IdleProc],
             tmp' \in [Nonces -> Inodes \cup {None}],
             \A n \in Nonces : n # proc[p].nonce => tmp'[n] = tmp[n],
             returned' \in [Procs -> Values \cup {None}],
             UNCHANGED <<target, content, synced, stored>>
      PROVE  FileInv'
  <2>1. /\ proc' \in [Procs -> ProcStates] /\ NoncesOwned'
        /\ proc'[p] = IdleProc /\ \A q \in Procs \ {p} : proc'[q] = proc[q]
    BY <1>3, <1>4, ProcStep
  <2>2. FileTypeOK' /\ NamedFilesAreWhole'
    BY <1>2, <1>4, <2>1 DEF FileTypeOK, NamedFilesAreWhole
  <2>3. ASSUME NEW q \in Procs \ {p}
        PROVE  ProcOK(q)'
    <3>1. proc[q] \in ProcStates
      BY <1>2
    <3>2. proc[q].pc \in WritePoints =>
             proc[q].nonce \in Nonces /\ tmp'[proc[q].nonce] = tmp[proc[q].nonce]
      BY <1>2, <1>4, <3>1, ProcFields DEF NoncesOwned
    <3>3. \A r \in Procs : proc'[r].inode \in {proc[r].inode, None}
      BY <1>2, <2>1 DEF IdleProc
    <3>4. ProcOK(q)
      BY <1>2
    <3>5. QED
      BY <1>3, <1>4, <2>1, <3>2, <3>3, <3>4 DEF ProcOK, WritePoints
  <2>4. ProcOK(p)'
    BY <1>3, <2>1 DEF ProcOK
  <2>5. QED
    BY <2>1, <2>2, <2>3, <2>4 DEF FileInv
\* A process that moves on without a new inode and touches only its own.
<1>5. ASSUME NEW p \in Procs, NEW u \in ProcStates, proc' = [proc EXCEPT ![p] = u],
             u.nonce \in Nonces =>
                u.nonce = proc[p].nonce \/ \A q \in Procs : proc[q].nonce # u.nonce,
             u.inode = proc[p].inode \/ u.inode = None \/ u.inode \in stored,
             content' \in [Inodes -> Values \cup {Partial}],
             \A i \in Inodes : content'[i] = content[i] \/ (proc[p].pc = "write" /\ i = proc[p].inode),
             synced \subseteq synced', synced' \in SUBSET Inodes,
             UNCHANGED <<target, tmp, stored, returned>>,
             ProcOK(p)'
      PROVE  FileInv'
  <2>1. /\ proc' \in [Procs -> ProcStates] /\ NoncesOwned'
        /\ proc'[p] = u /\ \A q \in Procs \ {p} : proc'[q] = proc[q]
    BY <1>5, ProcStep
  <2>2. proc[p].pc = "write" =>
           proc[p].inode \notin stored /\ \A q \in Procs \ {p} : proc[q].inode # proc[p].inode
    BY <1>2 DEF ProcOK
  <2>3. NamedFilesAreWhole'
    BY <1>2, <1>5, <2>2 DEF NamedFilesAreWhole
  <2>4. FileTypeOK'
    BY <1>2, <1>5, <2>1 DEF FileTypeOK
  <2>5. ASSUME NEW q \in Procs \ {p}
        PROVE  ProcOK(q)'
    <3>1. proc[q] \in ProcStates /\ ProcOK(q) /\ proc'[q] = proc[q]
          /\ proc[q].inode \in Inodes \cup {None}
      BY <1>2, <2>1, ProcFields
    <3>2. proc[q].inode \in Inodes => content'[proc[q].inode] = content[proc[q].inode]
      BY <1>5, <2>2
    <3>3. proc[q].pc \in {"write", "sync", "rename"} =>
             \A r \in Procs \ {q} : proc'[r].inode # proc[q].inode
      BY <1>3, <1>5, <2>1, <3>1 DEF ProcOK
    <3>4. QED
      BY <1>5, <3>1, <3>2, <3>3 DEF ProcOK
  <2>6. QED
    BY <1>5, <2>1, <2>3, <2>4, <2>5 DEF FileInv
<1>6. ASSUME NEW p \in Procs, NEW bytes \in Values, Call(p, bytes)
      PROVE  FileInv'
  <2>1. PICK n \in Nonces : Unused(n) /\ proc' = [proc EXCEPT ![p] =
           [pc |-> "create", nonce |-> n, inode |-> None, bytes |-> bytes]]
    BY <1>6 DEF Call
  <2> DEFINE u == [pc |-> "create", nonce |-> n, inode |-> None, bytes |-> bytes]
  <2>2. u \in ProcStates
    BY DEF ProcStates, WritePoints
  <2>3. ProcOK(p)'
    BY <1>2, <1>6, <2>1 DEF Call, Unused, ProcOK
  <2>4. QED
    <3>1. proc' = [proc EXCEPT ![p] = u] /\ UNCHANGED <<target, tmp, content, synced, stored, returned>>
      BY <1>6, <2>1 DEF Call
    <3>2. u.inode = None /\ \A q \in Procs : proc[q].nonce # u.nonce
      BY <2>1 DEF Unused
    <3> HIDE DEF u
    <3>3. QED
      BY <1>t, <1>5, <2>2, <2>3, <3>1, <3>2
<1>7. ASSUME NEW p \in Procs, Create(p)
      PROVE  FileInv'
  <2> DEFINE n == proc[p].nonce
  <2>1. PICK i \in Inodes :
           /\ Free(i)
           /\ tmp' = [tmp EXCEPT ![n] = i]
           /\ content' = [content EXCEPT ![i] = Partial]
           /\ synced' = synced \ {i}
           /\ proc' = [proc EXCEPT ![p].pc = "write", ![p].inode = i]
    BY <1>7 DEF Create
  <2> DEFINE u == [proc[p] EXCEPT !.pc = "write", !.inode = i]
  <2>2. /\ proc[p] \in ProcStates /\ proc[p].pc = "create" /\ n \in Nonces
        /\ i \notin stored /\ \A q \in Procs : proc[q].inode # i
    BY <1>2, <1>7, <2>1, ProcFields DEF Create, Free, WritePoints
  <2>3. u \in ProcStates /\ u.pc = "write" /\ u.inode = i /\ u.nonce = n
    BY <2>2 DEF ProcStates, WritePoints
  <2> HIDE DEF u
  <2>4. proc' = [proc EXCEPT ![p] = u]
    BY <1>2, <2>1 DEF u
  <2>5. /\ proc' \in [Procs -> ProcStates] /\ NoncesOwned'
        /\ proc'[p] = u /\ \A q \in Procs \ {p} : proc'[q] = proc[q]
    BY <2>3, <2>4, ProcStep
  <2>6. FileTypeOK' /\ NamedFilesAreWhole'
    BY <1>2, <1>7, <2>1, <2>2, <2>5 DEF Create, FileTypeOK, NamedFilesAreWhole
  <2>7. ASSUME NEW q \in Procs \ {p}
        PROVE  ProcOK(q)'
    <3>1. proc[q] \in ProcStates /\ ProcOK(q) /\ proc[q].inode # i /\ proc'[q] = proc[q]
          /\ proc[q].inode \in Inodes \cup {None}
      BY <1>2, <2>2, <2>5, ProcFields
    <3>2. proc[q].pc \in WritePoints =>
             proc[q].nonce \in Nonces /\ tmp'[proc[q].nonce] = tmp[proc[q].nonce]
      BY <1>2, <2>1, <2>2, <3>1, ProcFields DEF NoncesOwned
    <3>3. \A r \in Procs \ {q} : proc'[r].inode \in {proc[r].inode, i}
      BY <2>3, <2>5
    <3>4. QED
      BY <1>2, <1>7, <2>1, <3>1, <3>2, <3>3 DEF Create, ProcOK, WritePoints
  <2>8. ProcOK(p)'
    BY <1>2, <1>7, <2>1, <2>2, <2>3, <2>5 DEF Create, ProcOK
  <2>9. QED
    BY <2>5, <2>6, <2>7, <2>8 DEF FileInv
<1>8. ASSUME NEW p \in Procs, Write(p) \/ Sync(p)
      PROVE  FileInv'
  <2> DEFINE u == [proc[p] EXCEPT !.pc = IF proc[p].pc = "write" THEN "sync" ELSE "rename"]
  <2>1. /\ proc[p] \in ProcStates /\ proc[p].pc \in {"write", "sync"} /\ ProcOK(p)
        /\ proc[p].nonce \in Nonces /\ proc[p].bytes \in Values /\ proc[p].inode \in Inodes
    BY <1>2, <1>8, ProcFields DEF Write, Sync, ProcOK, WritePoints
  <2>2. /\ u \in ProcStates /\ u.inode = proc[p].inode /\ u.nonce = proc[p].nonce
        /\ u.bytes = proc[p].bytes
        /\ u.pc = IF proc[p].pc = "write" THEN "sync" ELSE "rename"
    BY <2>1 DEF ProcStates, WritePoints
  <2> HIDE DEF u
  <2>3. proc' = [proc EXCEPT ![p] = u] /\ proc'[p] = u /\ \A q \in Procs \ {p} : proc'[q] = proc[q]
    BY <1>2, <1>8 DEF Write, Sync, u
  <2>4. /\ content' = IF proc[p].pc = "write"
                      THEN [content EXCEPT ![proc[p].inode] = proc[p].bytes] ELSE content
        /\ synced' = IF proc[p].pc = "write" THEN synced ELSE synced \cup {proc[p].inode}
        /\ UNCHANGED <<target, tmp, stored, returned>>
    BY <1>8 DEF Write, Sync
  <2>5. ProcOK(p)'
    BY <1>2, <2>1, <2>2, <2>3, <2>4 DEF ProcOK
  <2>6. /\ content' \in [Inodes -> Values \cup {Partial}]
        /\ \A i \in Inodes : content'[i] = content[i] \/ (proc[p].pc = "write" /\ i = proc[p].inode)
        /\ synced \subseteq synced' /\ synced' \in SUBSET Inodes
    <3>1. CASE proc[p].pc = "write"
      <4>1. content' \in [Inodes -> Values \cup {Partial}]
        BY <1>t, <2>1, <2>4, <3>1
      <4>2. \A i \in Inodes : content'[i] = content[i] \/ (proc[p].pc = "write" /\ i = proc[p].inode)
        BY <1>t, <2>1, <2>4, <3>1
      <4>3. synced \subseteq synced' /\ synced' \in SUBSET Inodes
        BY <1>t, <2>1, <2>4, <3>1
      <4>4. QED
        BY <4>1, <4>2, <4>3
    <3>2. CASE proc[p].pc # "write"
      BY <1>t, <2>1, <2>4, <3>2
    <3>3. QED
      BY <3>1, <3>2
  <2>7. QED
    BY <1>5, <2>2, <2>3, <2>4, <2>5, <2>6
<1>9. ASSUME NEW p \in Procs, Rename(p)
      PROVE  FileInv'
  <2> DEFINE n == proc[p].nonce
             i == proc[p].inode
  <2>1. /\ proc[p] \in ProcStates /\ n \in Nonces /\ i \in Inodes /\ tmp[n] = i
        /\ content[i] \in Values /\ i \in synced
        /\ \A q \in Procs \ {p} : proc[q].inode # i
    BY <1>2, <1>9, ProcFields DEF Rename, ProcOK, WritePoints
  <2>2. /\ target' = i /\ stored' = stored \cup {i} /\ tmp' = [tmp EXCEPT ![n] = None]
        /\ proc' = [proc EXCEPT ![p] = IdleProc] /\ UNCHANGED <<content, synced, returned>>
    BY <1>9, <2>1 DEF Rename
  <2>3. /\ proc' \in [Procs -> ProcStates] /\ NoncesOwned'
        /\ proc'[p] = IdleProc /\ \A q \in Procs \ {p} : proc'[q] = proc[q]
    BY <1>3, <2>2, ProcStep
  <2> HIDE DEF n, i
  <2>4. FileTypeOK' /\ NamedFilesAreWhole'
    BY <1>2, <2>1, <2>2, <2>3 DEF FileTypeOK, NamedFilesAreWhole
  <2>5. ASSUME NEW q \in Procs \ {p}
        PROVE  ProcOK(q)'
    <3>1. proc[q] \in ProcStates /\ ProcOK(q) /\ proc[q].inode # i /\ proc'[q] = proc[q]
      BY <1>2, <2>1, <2>3
    <3>2. proc[q].pc \in WritePoints =>
             proc[q].nonce \in Nonces /\ tmp'[proc[q].nonce] = tmp[proc[q].nonce]
      BY <1>2, <2>1, <2>2, <3>1, ProcFields DEF NoncesOwned, n
    <3>3. \A r \in Procs : proc'[r].inode \in {proc[r].inode, None}
      BY <1>2, <2>3 DEF IdleProc
    <3>4. QED
      BY <1>3, <2>2, <3>1, <3>2, <3>3 DEF ProcOK, WritePoints
  <2>6. ProcOK(p)'
    BY <1>3, <2>3 DEF ProcOK
  <2>7. QED
    BY <2>3, <2>4, <2>5, <2>6 DEF FileInv
<1>10. ASSUME NEW p \in Procs, Fail(p)
       PROVE  FileInv'
  <2> DEFINE u == [pc |-> "cleanup", nonce |-> proc[p].nonce, inode |-> None, bytes |-> None]
  <2>1. u \in ProcStates /\ proc[p] \in ProcStates
    BY <1>2, <1>10, ProcFields DEF Fail, ProcStates
  <2>2. ProcOK(p)'
    BY <1>2, <1>10 DEF Fail, ProcOK
  <2>3. QED
    <3>1. proc' = [proc EXCEPT ![p] = u] /\ UNCHANGED <<target, tmp, content, synced, stored, returned>>
      BY <1>10 DEF Fail
    <3>2. u.nonce = proc[p].nonce /\ u.inode = None
      OBVIOUS
    <3> HIDE DEF u
    <3>3. QED
      BY <1>t, <1>5, <2>1, <2>2, <3>1, <3>2
<1>11. ASSUME NEW p \in Procs, CleanUp(p) \/ Crash(p) \/ ReadFile(p)
       PROVE  FileInv'
  <2>1. CASE CleanUp(p)
    <3>1. proc[p].nonce \in Nonces
      BY <1>2, <2>1, ProcFields DEF CleanUp
    <3>2. QED
      BY <1>2, <1>4, <2>1, <3>1 DEF CleanUp
  <2>2. CASE Crash(p)
    BY <1>2, <1>4, <2>2 DEF Crash
  <2>3. CASE ReadFile(p)
    <3>1. ContentOf(proc[p].inode) \in Values \cup {None}
      BY <1>2, <2>3 DEF ReadFile, ProcOK, ContentOf
    <3>2. QED
      BY <1>2, <1>4, <2>3, <3>1 DEF ReadFile
  <2>4. QED
    BY <1>11, <2>1, <2>2, <2>3
<1>12. ASSUME NEW p \in Procs, OpenFile(p)
       PROVE  FileInv'
  <2> DEFINE u == [pc |-> "reading", nonce |-> None, inode |-> target, bytes |-> None]
  <2>1. u \in ProcStates /\ u.pc = "reading" /\ u.inode = target /\ u.nonce = None
    BY <1>2 DEF ProcStates
  <2> HIDE DEF u
  <2>2. proc' = [proc EXCEPT ![p] = u] /\ proc'[p] = u
    BY <1>2, <1>12 DEF OpenFile, u
  <2>3. ProcOK(p)'
    BY <1>2, <1>12, <2>1, <2>2 DEF OpenFile, ProcOK
  <2>4. QED
    <3>1. u.nonce \notin Nonces /\ (u.inode = None \/ u.inode \in stored)
      BY <1>2, <1>3, <2>1
    <3>2. UNCHANGED <<target, tmp, content, synced, stored, returned>>
      BY <1>12 DEF OpenFile
    <3>3. QED
      BY <1>t, <1>5, <2>1, <2>2, <2>3, <3>1, <3>2
<1>13. CASE Flush
  <2>1. FileTypeOK' /\ NamedFilesAreWhole'
    BY <1>2, <1>13 DEF Flush, FileTypeOK, NamedFilesAreWhole
  <2>2. \A p \in Procs : ProcOK(p)'
    BY <1>2, <1>13 DEF Flush, ProcOK
  <2>3. QED
    BY <1>2, <1>13, <2>1, <2>2 DEF Flush, FileInv, NoncesOwned
<1>14. CASE PowerLoss
  <2>1. proc' = [p \in Procs |-> IdleProc] /\ target' \in stored /\ stored' = {target'}
        /\ synced' = Inodes /\ returned' = returned
    BY <1>14 DEF PowerLoss
  <2>2. tmp' \in [Nonces -> Inodes \cup {None}]
    BY <1>2, <1>14 DEF PowerLoss
  <2>3. content' \in [Inodes -> Values \cup {Partial}] /\ \A i \in synced : content'[i] = content[i]
    BY <1>2, <1>14 DEF PowerLoss
  <2>4. FileTypeOK' /\ NamedFilesAreWhole'
    BY <1>2, <1>3, <2>1, <2>2, <2>3 DEF FileTypeOK, NamedFilesAreWhole
  <2>5. NoncesOwned' /\ \A p \in Procs : ProcOK(p)'
    BY <1>3, <2>1 DEF NoncesOwned, ProcOK
  <2>6. QED
    BY <2>4, <2>5 DEF FileInv
<1>15. QED
  BY <1>1, <1>6, <1>7, <1>8, <1>9, <1>10, <1>11, <1>12, <1>13, <1>14 DEF Next

THEOREM FileInvariance == Spec => []FileInv
  BY FileInvInit, FileInvStep, PTL DEF Spec

\* Every variable keeps to its type, a process to the fields of its point.
THEOREM FileTypeCorrect == Spec => []FileTypeOK
<1>1. FileInv => FileTypeOK
  BY DEF FileInv
<1>2. QED
  BY <1>1, FileInvariance, PTL

\* The path never names a torn file, not even after a power loss.
THEOREM NeverTorn == Spec => []NamedFilesAreWhole
<1>1. FileInv => NamedFilesAreWhole
  BY DEF FileInv
<1>2. QED
  BY <1>1, FileInvariance, PTL

----------------------------------------------------------------------------
\* What a whole file gives is a value, and nothing else is None.
LEMMA CallShapes ==
    ASSUME NEW v \in ProcStates
    PROVE  /\ v.pc \in WritePoints => CallOf(v) = Register!Call("write", v.bytes)
           /\ v.pc = "reading" => CallOf(v) = Register!Call("read", ContentOf(v.inode))
           /\ v.pc \in {"idle", "cleanup"} => CallOf(v) = Register!Idle
  BY DEF CallOf, WritePoints, Register!Call, Register!Idle

\* The operations of the processes as the abstract register sees them, when one
\* process moves and the content of the files the others read stays.
LEMMA CallsStep ==
    ASSUME NEW p \in Procs, proc \in [Procs -> ProcStates], proc' \in [Procs -> ProcStates],
           \A q \in Procs \ {p} : proc'[q] = proc[q],
           \A q \in Procs \ {p} : proc[q].pc = "reading" /\ proc[q].inode # None =>
              content'[proc[q].inode] = content[proc[q].inode]
    PROVE  [q \in Procs |-> CallOf(proc[q])]' =
              [[q \in Procs |-> CallOf(proc[q])] EXCEPT ![p] = CallOf(proc[p])']
<1>1. \A q \in Procs \ {p} : CallOf(proc[q])' = CallOf(proc[q])
  BY DEF CallOf, ContentOf, WritePoints
<1>2. QED
  BY <1>1

LEMMA RegisterInitHolds == Init => Register!RegisterInit
  BY DEF Init, Register!RegisterInit, Register!Idle, ContentOf, CallOf, IdleProc, WritePoints

LEMMA RegisterStep ==
    ASSUME FileInv, FileInv', [Next]_vars
    PROVE  [Register!RegisterNext]_(Register!registerVars)
<1> DEFINE value == ContentOf(target)
           fallback == {ContentOf(i) : i \in stored}
           call == [q \in Procs |-> CallOf(proc[q])]
<1>1. CASE UNCHANGED vars
  <2>1. value' = value /\ fallback' = fallback /\ call' = call /\ returned' = returned
    BY <1>1 DEF vars, CallOf, ContentOf
  <2>2. QED
    BY <2>1 DEF Register!registerVars
<1>2. /\ proc \in [Procs -> ProcStates] /\ proc' \in [Procs -> ProcStates]
      /\ \A p \in Procs : ProcOK(p)
      /\ \A p \in Procs : proc[p] \in ProcStates /\ proc'[p] \in ProcStates
      /\ target \in stored /\ stored \in SUBSET (Inodes \cup {None})
      /\ None \notin Inodes
  BY FileAssumption DEF FileInv, FileTypeOK, NamedFilesAreWhole
\* The step of a process that leaves the files the others read, the path and
\* its bindings alone.
<1>3. ASSUME NEW p \in Procs, \A q \in Procs \ {p} : proc'[q] = proc[q],
             \A i \in Inodes : i \in stored => content'[i] = content[i],
             \A q \in Procs \ {p} : proc[q].pc = "reading" /\ proc[q].inode # None =>
                content'[proc[q].inode] = content[proc[q].inode],
             UNCHANGED <<target, stored>>
      PROVE  /\ value' = value /\ fallback' = fallback
             /\ call' = [call EXCEPT ![p] = CallOf(proc[p])']
  <2>1. \A i \in stored : ContentOf(i)' = ContentOf(i)
    BY <1>2, <1>3 DEF ContentOf
  <2>2. value' = value /\ fallback' = fallback
    BY <1>2, <1>3, <2>1 DEF ContentOf
  <2>3. QED
    BY <1>2, <1>3, <2>2, CallsStep
<1>4. ASSUME NEW p \in Procs
      PROVE  call[p] = CallOf(proc[p])
  OBVIOUS
<1>5. ASSUME NEW p \in Procs, NEW bytes \in Values, Call(p, bytes)
      PROVE  Register!Start(p, bytes)
  <2>1. /\ proc[p] = IdleProc /\ proc'[p].pc = "create" /\ proc'[p].bytes = bytes
        /\ \A q \in Procs \ {p} : proc'[q] = proc[q]
        /\ UNCHANGED <<target, content, stored, returned>>
    BY <1>2, <1>5 DEF Call
  <2>2. CallOf(proc[p]) = Register!Idle
    BY <1>2, <2>1, CallShapes DEF IdleProc
  <2>3. CallOf(proc[p])' = Register!Call("write", bytes)
    BY <1>2, <2>1 DEF CallOf, WritePoints, Register!Call
  <2>4. /\ value' = value /\ fallback' = fallback
        /\ call' = [call EXCEPT ![p] = CallOf(proc[p])']
    BY <1>3, <2>1
  <2>5. QED
    BY <1>4, <2>1, <2>2, <2>3, <2>4 DEF Register!Start
<1>6. ASSUME NEW p \in Procs, Create(p) \/ Write(p) \/ Sync(p) \/ CleanUp(p)
      PROVE  UNCHANGED <<value, fallback, call, returned>>
  <2>1. /\ \A q \in Procs \ {p} : proc'[q] = proc[q]
        /\ UNCHANGED <<target, stored, returned>>
    BY <1>2, <1>6 DEF Create, Write, Sync, CleanUp
  <2>2. /\ \A i \in Inodes : i \in stored => content'[i] = content[i]
        /\ \A q \in Procs \ {p} : proc[q].pc = "reading" /\ proc[q].inode # None =>
              content'[proc[q].inode] = content[proc[q].inode]
    <3>1. CASE Create(p)
      <4>1. PICK i \in Inodes : Free(i) /\ content' = [content EXCEPT ![i] = Partial]
        BY <3>1 DEF Create
      <4>2. QED
        BY <1>2, <4>1, ProcFields DEF Free, FileInv, FileTypeOK
    <3>2. CASE Write(p)
      <4>1. /\ proc[p].inode \notin stored /\ \A q \in Procs \ {p} : proc[q].inode # proc[p].inode
            /\ content' = [content EXCEPT ![proc[p].inode] = proc[p].bytes]
        BY <1>2, <3>2 DEF Write, ProcOK
      <4>2. QED
        BY <1>2, <4>1, ProcFields DEF FileInv, FileTypeOK
    <3>3. CASE Sync(p) \/ CleanUp(p)
      BY <3>3 DEF Sync, CleanUp
    <3>4. QED
      BY <1>6, <3>1, <3>2, <3>3
  <2>3. CallOf(proc[p])' = CallOf(proc[p])
    <3>1. CASE CleanUp(p)
      <4>1. proc[p].pc = "cleanup" /\ proc'[p].pc = "idle"
        BY <1>2, <3>1 DEF CleanUp, IdleProc
      <4>2. QED
        BY <4>1 DEF CallOf, WritePoints
    <3>2. CASE Create(p) \/ Write(p) \/ Sync(p)
      <4>1. /\ proc[p].pc \in WritePoints /\ proc'[p].pc \in WritePoints
            /\ proc'[p].bytes = proc[p].bytes
        <5>1. CASE Create(p)
          BY <1>2, <5>1 DEF Create, ProcStates, WritePoints
        <5>2. CASE Write(p)
          BY <1>2, <5>2 DEF Write, ProcStates, WritePoints
        <5>3. CASE Sync(p)
          BY <1>2, <5>3 DEF Sync, ProcStates, WritePoints
        <5>4. QED
          BY <3>2, <5>1, <5>2, <5>3
      <4>2. QED
        BY <4>1 DEF CallOf, WritePoints
    <3>3. QED
      BY <1>6, <3>1, <3>2
  <2>4. /\ value' = value /\ fallback' = fallback
        /\ call' = [call EXCEPT ![p] = CallOf(proc[p])']
    BY <1>3, <2>1, <2>2
  <2>5. QED
    BY <1>4, <2>1, <2>3, <2>4
<1>7. ASSUME NEW p \in Procs, Rename(p)
      PROVE  Register!Commit(p)
  <2>1. /\ proc[p].pc = "rename" /\ proc[p].inode \in Inodes /\ proc[p].bytes \in Values
        /\ content[proc[p].inode] = proc[p].bytes
        /\ target' = proc[p].inode /\ stored' = stored \cup {proc[p].inode}
        /\ proc'[p] = IdleProc /\ \A q \in Procs \ {p} : proc'[q] = proc[q]
        /\ content' = content /\ returned' = returned
    BY <1>2, <1>7, ProcFields DEF Rename, ProcOK, WritePoints
  <2>2. CallOf(proc[p]) = Register!Call("write", proc[p].bytes)
    BY <1>2, <2>1, CallShapes DEF WritePoints
  <2>3. CallOf(proc[p])' = Register!Idle
    BY <2>1 DEF CallOf, IdleProc, WritePoints, Register!Idle
  <2>4. call' = [call EXCEPT ![p] = CallOf(proc[p])']
    BY <1>2, <2>1, CallsStep
  <2>5. value' = proc[p].bytes
    BY <1>2, <2>1 DEF ContentOf
  <2>6. fallback' = fallback \cup {proc[p].bytes}
    BY <1>2, <2>1 DEF ContentOf
  <2>7. call[p].op = "write" /\ call[p].arg = proc[p].bytes
    BY <2>2 DEF Register!Call
  <2>8. QED
    BY <2>1, <2>3, <2>4, <2>5, <2>6, <2>7 DEF Register!Commit
<1>8. ASSUME NEW p \in Procs, Fail(p) \/ Crash(p)
      PROVE  Register!Abort(p) \/ UNCHANGED <<value, fallback, call, returned>>
  <2>1. /\ \A q \in Procs \ {p} : proc'[q] = proc[q]
        /\ UNCHANGED <<target, stored, content, returned>>
    BY <1>2, <1>8 DEF Fail, Crash
  <2>2. proc'[p].pc \in {"idle", "cleanup"}
    BY <1>2, <1>8 DEF Fail, Crash, IdleProc
  <2>3. CallOf(proc[p])' = Register!Idle
    BY <2>2 DEF CallOf, WritePoints, Register!Idle
  <2>4. /\ value' = value /\ fallback' = fallback
        /\ call' = [call EXCEPT ![p] = CallOf(proc[p])']
    BY <1>3, <2>1
  <2>5. CASE call[p] = Register!Idle
    BY <1>4, <2>1, <2>3, <2>4, <2>5
  <2>6. CASE call[p] # Register!Idle
    BY <2>1, <2>3, <2>4, <2>6 DEF Register!Abort
  <2>7. QED
    BY <2>5, <2>6
<1>9. ASSUME NEW p \in Procs, OpenFile(p)
      PROVE  Register!Look(p)
  <2>1. /\ proc[p] = IdleProc /\ proc'[p].pc = "reading" /\ proc'[p].inode = target
        /\ \A q \in Procs \ {p} : proc'[q] = proc[q]
        /\ UNCHANGED <<target, stored, content, returned>>
    BY <1>2, <1>9 DEF OpenFile, IdleProc
  <2>2. CallOf(proc[p]) = Register!Idle
    BY <1>2, <2>1, CallShapes DEF IdleProc
  <2>3. CallOf(proc[p])' = Register!Call("read", value)
    BY <2>1 DEF CallOf, ContentOf, WritePoints, Register!Call
  <2>4. /\ value' = value /\ fallback' = fallback
        /\ call' = [call EXCEPT ![p] = CallOf(proc[p])']
    BY <1>3, <2>1
  <2>5. QED
    BY <1>4, <2>1, <2>2, <2>3, <2>4 DEF Register!Look
<1>10. ASSUME NEW p \in Procs, ReadFile(p)
       PROVE  Register!Answer(p)
  <2>1. /\ proc[p].pc = "reading" /\ proc'[p] = IdleProc
        /\ returned' = [returned EXCEPT ![p] = ContentOf(proc[p].inode)]
        /\ \A q \in Procs \ {p} : proc'[q] = proc[q]
        /\ UNCHANGED <<target, stored, content>>
    BY <1>2, <1>10 DEF ReadFile
  <2>2. CallOf(proc[p]) = Register!Call("read", ContentOf(proc[p].inode))
    BY <1>2, <2>1, CallShapes
  <2>3. CallOf(proc[p])' = Register!Idle
    BY <2>1 DEF CallOf, IdleProc, WritePoints, Register!Idle
  <2>4. /\ value' = value /\ fallback' = fallback
        /\ call' = [call EXCEPT ![p] = CallOf(proc[p])']
    BY <1>3, <2>1
  <2>5. call[p].op = "read" /\ call[p].arg = ContentOf(proc[p].inode)
    BY <2>2 DEF Register!Call
  <2>6. QED
    BY <2>1, <2>3, <2>4, <2>5 DEF Register!Answer
<1>11. ASSUME Flush PROVE Register!DirectoryReachesDisk
  <2>1. stored' = {target} /\ UNCHANGED <<target, content, proc, returned>>
    BY <1>11 DEF Flush
  <2>2. value' = value /\ call' = call
    BY <2>1 DEF CallOf, ContentOf
  <2>3. fallback' = {value}
    BY <2>1 DEF ContentOf
  <2>4. QED
    BY <2>1, <2>2, <2>3 DEF Register!DirectoryReachesDisk
<1>12. ASSUME PowerLoss PROVE Register!LosePower
  <2>1. /\ proc' = [p \in Procs |-> IdleProc] /\ target' \in stored /\ stored' = {target'}
        /\ returned' = returned
    BY <1>12 DEF PowerLoss
  <2>2. target' # None => target' \in Inodes /\ content'[target'] = content[target']
    BY <1>2, <1>12, <2>1 DEF PowerLoss, FileInv, NamedFilesAreWhole, FileTypeOK
  <2>3. value' = ContentOf(target')
    BY <2>2 DEF ContentOf
  <2>4. value' \in fallback
    BY <2>1, <2>3
  <2>5. fallback' = {value'}
    BY <2>1 DEF ContentOf
  <2>6. call' = [p \in Procs |-> Register!Idle]
    BY <2>1 DEF CallOf, IdleProc, WritePoints, Register!Idle
  <2>7. QED
    BY <2>1, <2>4, <2>5, <2>6 DEF Register!LosePower
<1>13. CASE \E p \in Procs : \E bytes \in Values : Call(p, bytes)
  BY <1>5, <1>13 DEF Register!RegisterNext
<1>14. CASE \E p \in Procs : Create(p) \/ Write(p) \/ Sync(p) \/ CleanUp(p)
  BY <1>6, <1>14 DEF Register!registerVars
<1>15. CASE \E p \in Procs : Rename(p) \/ OpenFile(p) \/ ReadFile(p)
  BY <1>7, <1>9, <1>10, <1>15 DEF Register!RegisterNext
<1>16. CASE \E p \in Procs : Fail(p) \/ Crash(p)
  BY <1>8, <1>16 DEF Register!RegisterNext, Register!registerVars
<1>17. CASE Flush \/ PowerLoss
  BY <1>11, <1>12, <1>17 DEF Register!RegisterNext
<1>18. QED
  BY <1>1, <1>13, <1>14, <1>15, <1>16, <1>17 DEF Next

\* The files of the store are atomic registers: what every other module takes
\* a read and a write of a file to be.
THEOREM FileImplementsRegister == Spec => ImplementsAtomicRegister
<1>1. Init => Register!RegisterInit
  BY RegisterInitHolds
<1>2. FileInv /\ FileInv' /\ [Next]_vars => [Register!RegisterNext]_(Register!registerVars)
  BY RegisterStep
<1>3. QED
  BY <1>1, <1>2, FileInvariance, PTL DEF Spec, ImplementsAtomicRegister, Register!RegisterSpec
=============================================================================
