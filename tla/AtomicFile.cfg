SPECIFICATION Spec
CONSTANTS
    None = None
    Partial = Partial
    Procs = {p1, p2}
    Values = {a, b}
    Nonces = {n1, n2}
    Inodes = {i1, i2, i3}
SYMMETRY Interchangeable
INVARIANTS
    FileTypeOK
    NamedFilesAreWhole
PROPERTIES
    ImplementsAtomicRegister
