------------------------------ MODULE StoreRoot ------------------------------
(***************************************************************************)
(* Opening the store directory and sealing files in it: StoreRoot and        *)
(* Protector of entangled-client-store, as every launch of the client uses   *)
(* them.  Two small files say how the directory is keyed: store-key, and     *)
(* store-meta.json with the protection mode and, for the encrypted mode, the *)
(* salt.  Each is read and written separately, no lock is taken, and a       *)
(* process may stop between any two of these steps.                          *)
(*                                                                           *)
(* A file's content is abstracted to the protector it is sealed under: only  *)
(* that protector opens it.  A random key or salt is one nobody drew before. *)
(***************************************************************************)
EXTENDS Integers

CONSTANTS
    Procs,        \* client processes
    Files,        \* identity and history files of the store
    Modes,        \* the protections the processes are launched with
    Passphrases,  \* the passphrases typed at their prompts
    Secrets,      \* bound: the random keys and salts that can be drawn
    None

VARIABLES
    storeKey,  \* the file store-key
    meta,      \* the file store-meta.json
    data,      \* data[f]: the protector file f is sealed under
    proc,      \* proc[p]: the state of a process
    drawn      \* the secrets drawn so far

vars == <<storeKey, meta, data, proc, drawn>>

(* Protector: the mode and its keying material. *)
Protector(mode, secret, pass) == [mode |-> mode, secret |-> secret, pass |-> pass]
Protectors ==
    [mode : {"Integrity"}, secret : Secrets, pass : {None}]
    \cup [mode : {"Encrypted"}, secret : Secrets, pass : Passphrases]

(* StoreMeta. *)
Meta(protection, salt) == [protection |-> protection, salt |-> salt]
Metas == {Meta("Integrity", None)} \cup {Meta("Encrypted", s) : s \in Secrets}

ASSUME StoreRootAssumption ==
    /\ Modes \subseteq {"Integrity", "Encrypted"}
    /\ None \notin Secrets \cup Passphrases \cup Protectors \cup Metas

IdleProc ==
    [pc |-> "idle", mode |-> None, secret |-> None, pass |-> None, file |-> None]
Opening == {"readKey", "writeKey", "writeMeta", "checkMode", "readMeta"}
Using == {"open", "saving"}
ProcStates ==
    [pc : {"idle"} \cup Opening \cup Using, mode : {None, "Integrity", "Encrypted"},
     secret : Secrets \cup {None}, pass : Passphrases \cup {None},
     file : Files \cup {None}]

ProtectorOf(p) == Protector(proc[p].mode, proc[p].secret, proc[p].pass)

Init ==
    /\ storeKey = None
    /\ meta = None
    /\ data = [f \in Files |-> None]
    /\ proc = [p \in Procs |-> IdleProc]
    /\ drawn = {}

----------------------------------------------------------------------------
(* StoreRoot::open: the directories are made, the mode decides the rest. *)
Open(p, mode, pass) ==
    /\ proc[p].pc = "idle"
    /\ mode \in Modes
    /\ mode = "Integrity" <=> pass = None
    /\ proc' = [proc EXCEPT ![p] =
          [pc |-> IF mode = "Integrity" THEN "readKey" ELSE "readMeta",
           mode |-> mode, secret |-> None, pass |-> pass, file |-> None]]
    /\ UNCHANGED <<storeKey, meta, data, drawn>>

Draw(s) == s \in Secrets \ drawn /\ drawn' = drawn \cup {s}

(* Fault variant: every launch generates a key. *)
FaultRegeneratesKey(p) ==
    /\ proc[p].pc = "readKey" /\ storeKey # None
    /\ \E s \in Secrets :
          Draw(s) /\ proc' = [proc EXCEPT ![p].pc = "writeKey", ![p].secret = s]
    /\ UNCHANGED <<storeKey, meta, data>>

(* open_integrity: the key that is there, or a fresh one to be written. *)
LoadKey(p) ==
    /\ proc[p].pc = "readKey" /\ storeKey # None
    /\ proc' = [proc EXCEPT ![p].pc = "checkMode", ![p].secret = storeKey]
    /\ UNCHANGED <<storeKey, meta, data, drawn>>

(* Fault variant: the key drawn is not the key kept. *)
FaultKeyNotKept(p) ==
    /\ proc[p].pc = "readKey" /\ storeKey = None
    /\ \E s \in Secrets :
          Draw(s) /\ proc' = [proc EXCEPT ![p].pc = "writeKey"]
    /\ UNCHANGED <<storeKey, meta, data>>

GenerateKey(p) ==
    /\ proc[p].pc = "readKey" /\ storeKey = None
    /\ \E s \in Secrets :
          Draw(s) /\ proc' = [proc EXCEPT ![p].pc = "writeKey", ![p].secret = s]
    /\ UNCHANGED <<storeKey, meta, data>>

WriteKey(p) ==
    /\ proc[p].pc = "writeKey"
    /\ storeKey' = proc[p].secret
    /\ proc' = [proc EXCEPT ![p].pc = "writeMeta"]
    /\ UNCHANGED <<meta, data, drawn>>

(* check_mode: a missing store-meta.json passes. *)
CheckMode(p) ==
    /\ proc[p].pc = "checkMode"
    /\ proc' = [proc EXCEPT ![p] =
          IF meta # None /\ meta.protection # "Integrity"
          THEN IdleProc ELSE [@ EXCEPT !.pc = "open"]]
    /\ UNCHANGED <<storeKey, meta, data, drawn>>

(* Fault variant: the recorded mode is not looked at, only the salt. *)
FaultNoModeCheck(p) ==
    /\ proc[p].pc = "readMeta" /\ meta # None
    /\ \/ /\ meta.salt # None
          /\ proc' = [proc EXCEPT ![p].pc = "open", ![p].secret = meta.salt]
          /\ UNCHANGED drawn
       \/ /\ meta.salt = None
          /\ \E s \in Secrets :
                Draw(s) /\ proc' = [proc EXCEPT ![p].pc = "writeMeta", ![p].secret = s]
    /\ UNCHANGED <<storeKey, meta, data>>

(* open_encrypted: the recorded salt, or a fresh one if nothing is recorded; *)
(* another recorded mode is an error.                                        *)
LoadSalt(p) ==
    /\ proc[p].pc = "readMeta" /\ meta # None
    /\ proc' = [proc EXCEPT ![p] =
          IF meta.protection # "Encrypted" THEN IdleProc
          ELSE [@ EXCEPT !.pc = "open", !.secret = meta.salt]]
    /\ UNCHANGED <<storeKey, meta, data, drawn>>

GenerateSalt(p) ==
    /\ proc[p].pc = "readMeta" /\ meta = None
    /\ \E s \in Secrets :
          Draw(s) /\ proc' = [proc EXCEPT ![p].pc = "writeMeta", ![p].secret = s]
    /\ UNCHANGED <<storeKey, meta, data>>

(* write_meta, the last write of either initialisation. *)
WriteMeta(p) ==
    LET v == proc[p]
    IN  /\ v.pc = "writeMeta"
        /\ meta' = IF v.mode = "Integrity"
                   THEN Meta("Integrity", None) ELSE Meta("Encrypted", v.secret)
        /\ proc' = [proc EXCEPT ![p].pc =
                       IF v.mode = "Integrity" THEN "checkMode" ELSE "open"]
        /\ UNCHANGED <<storeKey, data, drawn>>

(* A store call reads the file back first (apply, append_record); one that   *)
(* does not open under the protector is an error, and nothing is written.    *)
ReadBack(p, f) ==
    /\ proc[p].pc = "open"
    /\ data[f] \in {None, ProtectorOf(p)}
    /\ proc' = [proc EXCEPT ![p].pc = "saving", ![p].file = f]
    /\ UNCHANGED <<storeKey, meta, data, drawn>>

(* write_protected. *)
WriteProtected(p) ==
    /\ proc[p].pc = "saving"
    /\ data' = [data EXCEPT ![proc[p].file] = ProtectorOf(p)]
    /\ proc' = [proc EXCEPT ![p].pc = "open", ![p].file = None]
    /\ UNCHANGED <<storeKey, meta, drawn>>

(* The process ends: closed, crashed, or stopped by an I/O error. *)
Stop(p) ==
    /\ proc[p].pc # "idle"
    /\ proc' = [proc EXCEPT ![p] = IdleProc]
    /\ UNCHANGED <<storeKey, meta, data, drawn>>

Next ==
    \E p \in Procs :
       \/ \E mode \in Modes, pass \in Passphrases \cup {None} : Open(p, mode, pass)
       \/ LoadKey(p) \/ GenerateKey(p) \/ WriteKey(p) \/ CheckMode(p)
       \/ LoadSalt(p) \/ GenerateSalt(p) \/ WriteMeta(p)
       \/ (\E f \in Files : ReadBack(p, f)) \/ WriteProtected(p)
       \/ Stop(p)

Spec == Init /\ [][Next]_vars

(* Launches of any mode, in turn: nobody starts to open the store while       *)
(* another is opening it.  Any number may have it open.                       *)
InTurnNext ==
    /\ Next
    /\ \A p \in Procs :
          proc[p].pc = "idle" /\ proc'[p].pc # "idle"
             => \A q \in Procs : proc[q].pc \notin Opening
InTurnSpec == Init /\ [][InTurnNext]_vars

----------------------------------------------------------------------------
\* The values every variable ranges over.
RootTypeOK ==
    /\ storeKey \in Secrets \cup {None}
    /\ meta \in Metas \cup {None}
    /\ data \in [Files -> Protectors \cup {None}]
    /\ proc \in [Procs -> ProcStates]
    /\ drawn \in SUBSET Secrets

(* The directory still has what a launch needs to rebuild a protector: the    *)
(* store-key, or the salt.  A store of the other mode records no salt.        *)
Keyed(protector) ==
    IF protector.mode = "Integrity"
    THEN protector.secret = storeKey
    ELSE meta # None /\ (meta.protection = "Encrypted" => meta.salt = protector.secret)

\* No interruption and no launch of either mode keys a directory twice in one
\* mode: the key a file was sealed under stays the store-key, and the salt a
\* file was sealed under is the recorded one as long as the store is recorded
\* as an encrypted one ("On a later open the existing key is loaded").
FilesKeepTheirKeys ==
    \A f \in Files : data[f] # None => Keyed(data[f])

(* The next launch in the mode of a file opens it; this needs the directory   *)
(* to be of that mode, and a launch in the other mode may have changed that.  *)
EveryFileReadable ==
    \A f \in Files : data[f] # None =>
       Keyed(data[f]) /\ (meta = None \/ meta.protection = data[f].mode)

\* The store-key is never replaced, and a recorded mode and salt give way to
\* one step only: the last write of a default-mode launch, which leaves an
\* encrypted store keyed by its store-key (what MetaWrittenOnce is about).
\* Nothing changes a store of the default mode, and no encrypted launch changes
\* a salt ("the recorded protection mode is checked to match").
KeyingKept ==
    [][/\ storeKey # None => storeKey' = storeKey
       /\ meta # None /\ meta' # meta =>
             /\ meta.protection = "Encrypted" /\ meta'.protection = "Integrity"
             /\ \E p \in Procs : proc[p].mode = "Integrity" /\ proc[p].secret = storeKey
      ]_vars

----------------------------------------------------------------------------
(* What the documentation says and the code does not do; see the README. *)

\* store-meta.json is written once (root.rs: "Per-store metadata, written
\* once to store-meta.json").
MetaWrittenOnce == [][meta # None => meta' = meta]_vars
=============================================================================
