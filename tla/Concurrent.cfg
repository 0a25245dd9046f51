SPECIFICATION ConcurrentSpec
CONSTANTS
    k1 = k1
    k2 = k2
    x1 = x1
    x2 = x2
    None = None
    Sites = {x1}
    Publishers = {k1, k2}
    Manifests <- FewManifests
    RejectExtendedReuse = TRUE
    Windows = {w1, w2}
    Faults = {"crash"}
    Legacy = FALSE
    MaxHistory = 2
    MaxReplaced = 1
SYMMETRY AnyWindow
INVARIANTS
    OnlyAcceptedRecorded
PROPERTIES
    TrustNeedsDecision
    RetentionIsPermanent
    PinNeverDemotes
    HistoryOnlyGrows
