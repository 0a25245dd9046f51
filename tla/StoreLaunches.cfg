SPECIFICATION InTurnSpec
CONSTANTS
    None = None
    Procs = {p1, p2}
    Files = {f1, f2}
    Modes = {"Integrity", "Encrypted"}
    Passphrases = {q1, q2}
    Secrets = {s1, s2, s3}
SYMMETRY Interchangeable
INVARIANTS
    RootTypeOK
    FilesKeepTheirKeys
PROPERTIES
    KeyingKept
