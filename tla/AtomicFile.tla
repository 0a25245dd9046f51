----------------------------- MODULE AtomicFile -----------------------------
(***************************************************************************)
(* How one file of the store is replaced and read: write_atomic and          *)
(* read_file_opt of entangled-client-store/src/root.rs, by any number of     *)
(* processes, system call by system call.                                    *)
(*                                                                           *)
(* The file system is external.  A path or a temporary name is bound to an   *)
(* inode; a rename rebinds the path at once.  An inode keeps its content     *)
(* over a crash of the process, over a power loss only what was synced.  The  *)
(* directory is never synced, so a power loss may leave the path bound to     *)
(* any inode it has named since the system last wrote the directory back.    *)
(***************************************************************************)
EXTENDS Naturals

CONSTANTS
    Procs,    \* the processes that write and read the path
    Values,   \* the payloads they write
    Nonces,   \* bound: the random suffixes of temporary names
    Inodes,   \* bound: files that can exist at once
    Partial,  \* the content of a file not, or not completely, written
    None      \* no inode, no name; also the value of a missing file

VARIABLES
    target,    \* the inode the path names
    tmp,       \* tmp[n]: the inode the temporary name with suffix n names
    content,   \* content[i]: what reading inode i gives
    synced,    \* the inodes whose content is on the disk
    stored,    \* the inodes the path may name after a power loss
    proc,      \* proc[p]: the state of a process
    returned   \* returned[p]: what its last read returned

vars == <<target, tmp, content, synced, stored, proc, returned>>

IdleProc == [pc |-> "idle", nonce |-> None, inode |-> None, bytes |-> None]
WritePoints == {"create", "write", "sync", "rename"}
ProcStates ==
    [pc : {"idle"}, nonce : {None}, inode : {None}, bytes : {None}]
    \cup [pc : WritePoints, nonce : Nonces, inode : Inodes \cup {None}, bytes : Values]
    \cup [pc : {"cleanup"}, nonce : Nonces, inode : {None}, bytes : {None}]
    \cup [pc : {"reading"}, nonce : {None}, inode : Inodes \cup {None}, bytes : {None}]

ASSUME FileAssumption ==
    /\ None \notin Nonces \cup Inodes \cup Values \cup {Partial}
    /\ Partial \notin Values

Init ==
    /\ target = None
    /\ tmp = [n \in Nonces |-> None]
    /\ content = [i \in Inodes |-> Partial]
    /\ synced = {}
    /\ stored = {None}
    /\ proc = [p \in Procs |-> IdleProc]
    /\ returned = [p \in Procs |-> None]

(* Eight random bytes that no other temporary name carries. *)
Unused(n) == tmp[n] = None /\ \A q \in Procs : proc[q].nonce # n
Free(i) ==
    /\ i # target /\ i \notin stored
    /\ \A n \in Nonces : tmp[n] # i
    /\ \A q \in Procs : proc[q].inode # i

----------------------------------------------------------------------------
(* Fault variant: one temporary name for all writers. *)
FaultSharedName(p, bytes) ==
    /\ proc[p] = IdleProc
    /\ proc' = [proc EXCEPT ![p] = [pc |-> "create", nonce |-> CHOOSE n \in Nonces : TRUE,
                                    inode |-> None, bytes |-> bytes]]
    /\ UNCHANGED <<target, tmp, content, synced, stored, returned>>

(* write_atomic(path, bytes): a name for the temporary file is drawn ... *)
Call(p, bytes) ==
    /\ proc[p] = IdleProc
    /\ \E n \in Nonces :
          /\ Unused(n)
          /\ proc' = [proc EXCEPT ![p] = [pc |-> "create", nonce |-> n,
                                          inode |-> None, bytes |-> bytes]]
    /\ UNCHANGED <<target, tmp, content, synced, stored, returned>>

(* ... which create_new makes, empty, unless it exists ... *)
Create(p) ==
    /\ proc[p].pc = "create" /\ tmp[proc[p].nonce] = None
    /\ \E i \in Inodes :
          /\ Free(i)
          /\ tmp' = [tmp EXCEPT ![proc[p].nonce] = i]
          /\ content' = [content EXCEPT ![i] = Partial]
          /\ synced' = synced \ {i}
          /\ proc' = [proc EXCEPT ![p].pc = "write", ![p].inode = i]
    /\ UNCHANGED <<target, stored, returned>>

(* Fault variant: the file is renamed without sync_all. *)
FaultNoSync(p) ==
    /\ proc[p].pc = "write"
    /\ content' = [content EXCEPT ![proc[p].inode] = proc[p].bytes]
    /\ proc' = [proc EXCEPT ![p].pc = "rename"]
    /\ UNCHANGED <<target, tmp, synced, stored, returned>>

(* ... write_all fills it ... *)
Write(p) ==
    /\ proc[p].pc = "write"
    /\ content' = [content EXCEPT ![proc[p].inode] = proc[p].bytes]
    /\ proc' = [proc EXCEPT ![p].pc = "sync"]
    /\ UNCHANGED <<target, tmp, synced, stored, returned>>

(* ... sync_all puts it on the disk ... *)
Sync(p) ==
    /\ proc[p].pc = "sync"
    /\ synced' = synced \cup {proc[p].inode}
    /\ proc' = [proc EXCEPT ![p].pc = "rename"]
    /\ UNCHANGED <<target, tmp, content, stored, returned>>

(* Fault variant: the handle of the temporary file is kept. *)
FaultKeepsHandle(p) ==
    LET n == proc[p].nonce IN
    /\ proc[p].pc = "rename" /\ tmp[n] # None
    /\ target' = tmp[n]
    /\ stored' = stored \cup {tmp[n]}
    /\ tmp' = [tmp EXCEPT ![n] = None]
    /\ proc' = [proc EXCEPT ![p].pc = "idle"]
    /\ UNCHANGED <<content, synced, returned>>

(* ... and rename makes it the file at path.  Ok is returned. *)
Rename(p) ==
    LET n == proc[p].nonce IN
    /\ proc[p].pc = "rename" /\ tmp[n] # None
    /\ target' = tmp[n]
    /\ stored' = stored \cup {tmp[n]}
    /\ tmp' = [tmp EXCEPT ![n] = None]
    /\ proc' = [proc EXCEPT ![p] = IdleProc]
    /\ UNCHANGED <<content, synced, returned>>

(* One of the four calls returns an error. *)
Fail(p) ==
    /\ proc[p].pc \in WritePoints
    /\ proc' = [proc EXCEPT ![p] = [pc |-> "cleanup", nonce |-> proc[p].nonce,
                                    inode |-> None, bytes |-> None]]
    /\ UNCHANGED <<target, tmp, content, synced, stored, returned>>

(* The temporary file is removed, if that works; the error is returned. *)
CleanUp(p) ==
    /\ proc[p].pc = "cleanup"
    /\ \/ tmp' = [tmp EXCEPT ![proc[p].nonce] = None]
       \/ tmp' = tmp
    /\ proc' = [proc EXCEPT ![p] = IdleProc]
    /\ UNCHANGED <<target, content, synced, stored, returned>>

(* read_file_opt: the file at path is opened, if there is one ... *)
OpenFile(p) ==
    /\ proc[p] = IdleProc
    /\ proc' = [proc EXCEPT ![p] = [pc |-> "reading", nonce |-> None,
                                    inode |-> target, bytes |-> None]]
    /\ UNCHANGED <<target, tmp, content, synced, stored, returned>>

ContentOf(i) == IF i = None THEN None ELSE content[i]

(* ... and read to its end; an error returns nothing. *)
ReadFile(p) ==
    /\ proc[p].pc = "reading"
    /\ returned' = [returned EXCEPT ![p] = ContentOf(proc[p].inode)]
    /\ proc' = [proc EXCEPT ![p] = IdleProc]
    /\ UNCHANGED <<target, tmp, content, synced, stored>>

(* The process dies, or its read fails: temporary files stay. *)
Crash(p) ==
    /\ proc[p] # IdleProc
    /\ proc' = [proc EXCEPT ![p] = IdleProc]
    /\ UNCHANGED <<target, tmp, content, synced, stored, returned>>

(* The system writes the directory back. *)
Flush ==
    /\ stored' = {target}
    /\ UNCHANGED <<target, tmp, content, synced, proc, returned>>

(* The machine stops: what was not synced may be damaged, temporary names    *)
(* may be gone, and the path is one of its recent bindings.                  *)
PowerLoss ==
    /\ target' \in stored
    /\ stored' = {target'}
    /\ \E kept \in SUBSET Nonces :
          tmp' = [n \in Nonces |-> IF n \in kept THEN tmp[n] ELSE None]
    /\ \E damaged \in SUBSET (Inodes \ synced) :
          content' = [i \in Inodes |-> IF i \in damaged THEN Partial ELSE content[i]]
    /\ synced' = Inodes
    /\ proc' = [p \in Procs |-> IdleProc]
    /\ UNCHANGED returned

Next ==
    \/ \E p \in Procs :
          \/ \E bytes \in Values : Call(p, bytes)
          \/ Create(p) \/ Write(p) \/ Sync(p) \/ Rename(p)
          \/ Fail(p) \/ CleanUp(p)
          \/ OpenFile(p) \/ ReadFile(p)
          \/ Crash(p)
    \/ Flush \/ PowerLoss

Spec == Init /\ [][Next]_vars

----------------------------------------------------------------------------
\* The values every variable ranges over; what a process holds at each point.
FileTypeOK ==
    /\ target \in Inodes \cup {None}
    /\ tmp \in [Nonces -> Inodes \cup {None}]
    /\ content \in [Inodes -> Values \cup {Partial}]
    /\ synced \in SUBSET Inodes
    /\ stored \in SUBSET (Inodes \cup {None})
    /\ proc \in [Procs -> ProcStates]
    /\ returned \in [Procs -> Values \cup {None}]

\* Whatever the path names now, or may name after a power loss, is a complete
\* file whose bytes are on the disk: the sync comes before the rename.
NamedFilesAreWhole ==
    /\ target \in stored
    /\ \A i \in stored \ {None} : content[i] \in Values /\ i \in synced

(* The operation a process is in; an error has already aborted it. *)
CallOf(v) ==
    CASE v.pc \in WritePoints -> [op |-> "write", arg |-> v.bytes]
      [] v.pc = "reading" -> [op |-> "read", arg |-> ContentOf(v.inode)]
      [] OTHER -> [op |-> "idle", arg |-> None]

Register == INSTANCE AtomicRegister WITH
    Absent <- None,
    value <- ContentOf(target),
    fallback <- {ContentOf(i) : i \in stored},
    call <- [p \in Procs |-> CallOf(proc[p])]

\* Writers, readers, errors, crashes and power losses together behave like a
\* register that is written and read in one step each (root.rs: "A reader
\* therefore never sees a half-written file - only the old complete one or the
\* new one").
ImplementsAtomicRegister == Register!RegisterSpec
=============================================================================
