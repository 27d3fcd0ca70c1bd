----------------------------- MODULE MCAIFabric -----------------------------
EXTENDS AIFabric, TLC

\* What changes the registry, overlapping, then with models that are removed; the
\* health cache with discovery and decisions, overlapping and one at a time; the router on lists supplied by a
\* client; an inference stream with the activity log; the log beside a client of
\* the event stream; and the log with the events of a discovery.
MCModes == {[ops |-> {"discover", "install", "load", "unload"}, overlap |-> TRUE],
            [ops |-> {"discover", "unload", "remove"}, overlap |-> TRUE],
            [ops |-> {"install", "remove"}, overlap |-> TRUE],
            [ops |-> {"discover", "health", "toggle", "decide"}, overlap |-> TRUE],
            [ops |-> {"discover", "health", "toggle", "decide"}, overlap |-> FALSE],
            [ops |-> {"route"}, overlap |-> FALSE],
            [ops |-> {"stream", "forward"}, overlap |-> FALSE],
            [ops |-> {"generate", "forward", "events"}, overlap |-> TRUE],
            [ops |-> {"discover", "forward"}, overlap |-> FALSE]}

\* Runtime 1 has model 1, runtime 2 can install and load.
MCServes == (1 :> {1}) @@ (2 :> {})

LocalProfile == [provider |-> 2, id |-> 1, rt |-> None, healthy |-> FALSE,
    availability |-> "AVAILABLE", local |-> TRUE, remote |-> FALSE, context |-> 32,
    caps |-> {"coding", "reasoning", "tool_use"}, reliability |-> 80, quality |-> 70,
    fast |-> TRUE, cost |-> 0, memory |-> 0, vram |-> 0, gpu |-> FALSE, agents |-> {}]

CloudProfile == [LocalProfile EXCEPT !.provider = 3, !.id = 2, !.local = FALSE,
    !.remote = TRUE, !.context = 128, !.caps = @ \cup {"architecture"}, !.reliability = 95,
    !.quality = 200, !.fast = FALSE, !.cost = 40]

\* The profiles main registers.
MCStaticModels == <<CloudProfile, LocalProfile>>

\* A twin that ties with the local profile, a cheap cloud model with vision for
\* one agent, a local one on an unhealthy runtime, a large one that needs a GPU.
Supplied == {LocalProfile, CloudProfile,
    [LocalProfile EXCEPT !.id = 3],
    [CloudProfile EXCEPT !.id = 4, !.cost = 10, !.caps = @ \cup {"vision"}, !.agents = {"codex"}],
    [LocalProfile EXCEPT !.id = 5, !.rt = 1],
    [LocalProfile EXCEPT !.id = 6, !.gpu = TRUE, !.memory = 64, !.vram = 16, !.availability = "DEGRADED"]}

MCLists == {<<p>> : p \in Supplied}
    \cup {l \in Supplied \X Supplied : l[1] # l[2]}
    \cup {l \in Supplied \X Supplied \X Supplied : Cardinality({l[1], l[2], l[3]}) = 3}

Request == [agent |-> "codex", type |-> "CODE", reasoning |-> FALSE, tools |-> FALSE,
    vision |-> FALSE, taskPrivacy |-> None, context |-> 0, policy |-> None,
    policies |-> <<None, None, None>>, privacy |-> None, local |-> "REMOTE_ALLOWED",
    budget |-> 0, runtime |-> TRUE, offline |-> FALSE, memory |-> 0, vram |-> 0,
    gpu |-> FALSE, fallbacks |-> <<>>, override |-> None]

Policies == {"BEST", "CHEAPEST", "FASTEST", "PRIVACY_FIRST", "CLOUD_FIRST", "CUSTOM"}

\* Every policy and every limit alone, then combined with an override or fallbacks.
MCLimits ==
    {Request, [Request EXCEPT !.privacy = "PRIVATE"], [Request EXCEPT !.taskPrivacy = "PRIVATE"],
     [Request EXCEPT !.offline = TRUE, !.reasoning = TRUE], [Request EXCEPT !.budget = 20],
     [Request EXCEPT !.context = 64, !.type = "ARCHITECTURE"],
     [Request EXCEPT !.vision = TRUE, !.tools = TRUE], [Request EXCEPT !.runtime = FALSE],
     [Request EXCEPT !.agent = "kimi", !.local = "LOCAL_FIRST"],
     [Request EXCEPT !.gpu = TRUE, !.memory = 32, !.vram = 32, !.local = "LOCAL_ONLY"],
     [Request EXCEPT !.policies = <<None, "CHEAPEST", "BEST">>]}
    \cup {[Request EXCEPT !.policy = p] : p \in Policies}

MCRequests ==
    MCLimits \cup {[r EXCEPT !.override = <<3, 2>>] : r \in MCLimits}
             \cup {[r EXCEPT !.override = <<3, 4>>, !.fallbacks = <<<<3, 2>>, <<2, 3>>>>] : r \in MCLimits}

NoSettings == [providers |-> {}, runtimes |-> {}, models |-> {}, localOnly |-> FALSE,
               policy |-> "BALANCED", privacy |-> "PUBLIC", budget |-> 0]

MCSettings == {None, [NoSettings EXCEPT !.localOnly = TRUE, !.providers = {2, 3}],
               [NoSettings EXCEPT !.privacy = "PRIVATE", !.models = {1, 2, 4}, !.budget = 30]}

MCAsked == [q : MCRequests, settings : MCSettings]

\* Requests that the rows of the catalogue can win.
MCAskedCatalog ==
    [q : {Request, [Request EXCEPT !.tools = TRUE, !.override = <<2, 2>>],
          [Request EXCEPT !.offline = TRUE, !.override = <<1, 1>>, !.fallbacks = <<<<2, 2>>>>]},
     settings : {None, [NoSettings EXCEPT !.runtimes = {1, 2}]}]
=============================================================================
