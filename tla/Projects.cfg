SPECIFICATION Spec
CONSTANTS
    Users = {u1, u2}
    Projects = {p1}
    Roles = {"owner", "viewer"}
    SessionSlots = {s1, s2}
    Workers = {w1, w2}
    Modes <- MCModes
    None = None
INVARIANTS
    AccountsSound
    
PROPERTIES
    LastOwnerStays
    LockComes
