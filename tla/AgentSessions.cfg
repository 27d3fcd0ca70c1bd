SPECIFICATION Spec
CONSTANTS
    Sessions = {s1}
    Workers = {w1, w2}
    Procs = {p1, p2}
    Policies <- MCPolicies
    Modes <- MCModes
    None = None
INVARIANTS
    SessionsSound
PROPERTIES
    RowFollowsLifecycle
    StartIsGoverned
    StartingSettles
