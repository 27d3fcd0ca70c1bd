SPECIFICATION ComputerSpec
CONSTANTS
    Computers = {c1, c2}
    Owners = {p1}
    Workers = {w1, w2}
    CheckLists <- MCCheckLists
    Modes <- MCModes
    MaxCrashes = 1
    NoComputer = NoComputer
SYMMETRY MCSymmetry
INVARIANTS
    RecordsTrue
    NoSilentOrphan
