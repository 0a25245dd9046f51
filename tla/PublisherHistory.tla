-------------------------- MODULE PublisherHistory --------------------------
(***************************************************************************)
(* The accepted-manifest history of a publisher and the checks a manifest   *)
(* must pass against it: entangled-client/src/history.rs.  A history is a   *)
(* sequence of records, newest first.  The three primitive checks are       *)
(* functions of the entangled-core crate and are modelled from the way      *)
(* history.rs calls them.                                                   *)
(***************************************************************************)
EXTENDS Domain

CONSTANT RejectExtendedReuse  \* does core also reject a runtime key older than the newest?

ASSUME RejectExtendedReuseAssumption == RejectExtendedReuse \in BOOLEAN

(* RetainedManifestRecord: record_for never fails on a verified manifest. *)
RecordFor(m) == [issued |-> m.issued, rk |-> m.rk, hash |-> m.hash]

Records == {RecordFor(m) : m \in Manifests}

(* append_record and PublisherHistory::push both insert at the head. *)
Prepend(record, history) == <<record>> \o history

AntiDowngrade(record, history) ==
    history # <<>> => record.issued >= Head(history).issued

NoCanaryConflict(record, history) ==
    (history # <<>> /\ record.issued = Head(history).issued)
        => record.hash = Head(history).hash

RuntimeKeyRotated(record, history) ==
    history # <<>> =>
        /\ record.rk # Head(history).rk
        /\ RejectExtendedReuse =>
              \A i \in DOMAIN Tail(history) : record.rk # Tail(history)[i].rk

SamePayloadRefetch(record, history) ==
    history # <<>> /\ Head(history).hash = record.hash

(* Fault variants: each check of check_against_history left out. *)
FaultNoDowngradeCheck(m, history) ==
    LET record == RecordFor(m)
    IN  /\ NoCanaryConflict(record, history)
        /\ SamePayloadRefetch(record, history) \/ RuntimeKeyRotated(record, history)

FaultNoRotationCheck(m, history) ==
    LET record == RecordFor(m)
    IN  AntiDowngrade(record, history) /\ NoCanaryConflict(record, history)

CheckAgainstHistory(m, history) ==
    LET record == RecordFor(m)
    IN  /\ AntiDowngrade(record, history)
        /\ NoCanaryConflict(record, history)
        /\ SamePayloadRefetch(record, history) \/ RuntimeKeyRotated(record, history)
=============================================================================
