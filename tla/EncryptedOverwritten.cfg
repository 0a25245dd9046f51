SPECIFICATION Spec
CONSTANTS
    None = None
    Procs = {p1}
    Files = {f1, f2}
    Modes = {"Integrity", "Encrypted"}
    Passphrases = {q1}
    Secrets = {s1, s2, s3, s4}
PROPERTIES
    MetaWrittenOnce
