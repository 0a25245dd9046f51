--------------------------- MODULE AtomicRegister ---------------------------
(***************************************************************************)
(* What write_atomic and read_file_opt promise of one path: "A reader       *)
(* therefore never sees a half-written file - only the old complete one or   *)
(* the new one."  A write takes effect at one moment or not at all; a read   *)
(* returns what the path held at one moment.  A power loss may undo writes   *)
(* that already took effect, back to one of the values since the directory   *)
(* last reached the disk, but it makes up no value.                          *)
(***************************************************************************)
CONSTANTS Procs, Values, Absent

VARIABLES
    value,     \* what the path holds; Absent before the first write
    fallback,  \* what a power loss may leave there
    call,      \* call[p]: the operation process p is in
    returned   \* returned[p]: the answer to its last read

registerVars == <<value, fallback, call, returned>>

Idle == [op |-> "idle", arg |-> Absent]
Call(op, arg) == [op |-> op, arg |-> arg]

RegisterInit ==
    /\ value = Absent
    /\ fallback = {Absent}
    /\ call = [p \in Procs |-> Idle]
    /\ returned = [p \in Procs |-> Absent]

Start(p, v) ==
    /\ call[p] = Idle
    /\ call' = [call EXCEPT ![p] = Call("write", v)]
    /\ UNCHANGED <<value, fallback, returned>>

Commit(p) ==
    /\ call[p].op = "write"
    /\ value' = call[p].arg
    /\ fallback' = fallback \cup {call[p].arg}
    /\ call' = [call EXCEPT ![p] = Idle]
    /\ UNCHANGED returned

Look(p) ==
    /\ call[p] = Idle
    /\ call' = [call EXCEPT ![p] = Call("read", value)]
    /\ UNCHANGED <<value, fallback, returned>>

Answer(p) ==
    /\ call[p].op = "read"
    /\ returned' = [returned EXCEPT ![p] = call[p].arg]
    /\ call' = [call EXCEPT ![p] = Idle]
    /\ UNCHANGED <<value, fallback>>

(* An error is returned, or the process dies. *)
Abort(p) ==
    /\ call[p] # Idle
    /\ call' = [call EXCEPT ![p] = Idle]
    /\ UNCHANGED <<value, fallback, returned>>

DirectoryReachesDisk ==
    /\ fallback' = {value}
    /\ UNCHANGED <<value, call, returned>>

LosePower ==
    /\ value' \in fallback
    /\ fallback' = {value'}
    /\ call' = [p \in Procs |-> Idle]
    /\ UNCHANGED returned

RegisterNext ==
    \/ \E p \in Procs :
          \/ \E v \in Values : Start(p, v)
          \/ Commit(p) \/ Look(p) \/ Answer(p) \/ Abort(p)
    \/ DirectoryReachesDisk \/ LosePower

RegisterSpec == RegisterInit /\ [][RegisterNext]_registerVars
=============================================================================
