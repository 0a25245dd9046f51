SPECIFICATION ViewSpec
CONSTANTS
    k1 = k1
    k2 = k2
    x1 = x1
    x2 = x2
    None = None
    Sites = {x1, x2}
    Publishers = {k1, k2}
    Manifests <- MCManifests
    RejectExtendedReuse = TRUE
    Windows = {w1}
    Faults = {"crash", "io"}
    Legacy = FALSE
    MaxHistory = 2
    MaxReplaced = 1
    Links <- MCLinks
    RuntimeKeys = {"r1", "r2"}
    ContentDocuments <- MCContents
INVARIANTS
    ViewTypeOK
    ExpiredNeedsOverride
    MismatchStaysWarned
    PanelMatchesChrome
    PresentedTrustIsStored
PROPERTIES
    CopiesWhatWasSeen
    PersistsOnlyVerified
