SPECIFICATION Spec
CONSTANTS
    Bindings <- MCBindings
    Endpoints <- MCEndpoints
    PortWorkers = {1, 2}
    None = None
    Tools = {1, 2}
    Versions <- MCVersions
    Artifacts <- MCArtifacts
    EmptySum = "empty"
    Rotten = Rotten
    Absent = Absent
    Parts = {"ports", "shared"}
INVARIANTS
    PortsSound
    ToolsResolve
    CacheSound
PROPERTIES
    PortKept
