SPECIFICATION ApartSpec
CONSTANTS
    k1 = k1
    k2 = k2
    x1 = x1
    x2 = x2
    None = None
    Sites = {x1, x2}
    Publishers = {k1, k2}
    Manifests <- ApartManifests
    RejectExtendedReuse = TRUE
    Windows = {w1, w2}
    Faults = {"crash", "io"}
    Legacy = TRUE
    MaxHistory = 3
    MaxReplaced = 2
SYMMETRY AnyWindow
INVARIANTS
    TypeOK
    HistoryNewestFirst
    HistoryConsistent
    ReplacedKeysKept
    ShownTrustIsStored
    DiagnosticMarksChange
PROPERTIES
    NeverSilentlyReplaced
    ImplementsMemoryStores
