SPECIFICATION FabricSpec
CONSTANTS
    Clients = {c1}
    BusBuffer = 2
    MaxEvents = 4
    Runtimes = {1, 2}
    Pulling = {2}
    Models = {1, 2}
    Serves <- MCServes
    StaticModels <- MCStaticModels
    Workers = {w1, w2}
    Inferences = {i1}
    ChanBuffer = 2
    MaxTokens = 5
    Asked <- MCAsked
    AskedCatalog <- MCAskedCatalog
    Lists <- MCLists
    Modes <- MCModes
    None = None
INVARIANTS
    CatalogSound
    RouterSound
    ActivityFaithful
    StreamsSound
PROPERTIES
    StreamsEnd
CHECK_DEADLOCK FALSE
