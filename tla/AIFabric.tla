------------------------------ MODULE AIFabric ------------------------------
(***************************************************************************)
(* The AI fabric (internal/aifabric) behind its handlers: the registry of  *)
(* models, the health cache, installation and loading through the runtime  *)
(* adapters, the routing decision over the catalogue, and inference        *)
(* streams.  Its events go to EventBus; decisions are those of Routing.    *)
(*                                                                         *)
(* Every access to the registry and to the health cache takes its own      *)
(* lock, and the call to the runtime happens between two of them.  A       *)
(* stream is two goroutines joined by buffered channels; neither looks at  *)
(* the context when it sends.                                              *)
(***************************************************************************)
EXTENDS EventBus, Routing

CONSTANTS
    Runtimes,       \* registered runtimes, numbered in the order of their ids
    Pulling,        \* the runtimes that can install and load (kind ollama)
    Models,         \* model ids, numbered in their order
    Serves,         \* the models a runtime has at first
    StaticModels,   \* Server.RoutingModels, a list of profiles
    Workers,        \* HTTP requests that can be in flight
    Inferences,     \* stream requests of a behaviour
    ChanBuffer,     \* the capacity of a stream's channels, 16 in the code
    MaxTokens,      \* the longest answer of a runtime
    Asked,          \* routing requests of decideModel: request and settings
    AskedCatalog,   \* those of them that leave the models to the catalogue
    Lists,          \* lists of profiles a client may supply
    Modes           \* [ops, overlap]: the operations of a behaviour

\* ProjectSettings; an empty list allows everything.
Settings ==
    [providers : SUBSET Nat, runtimes : SUBSET Nat, models : SUBSET Nat, localOnly : BOOLEAN,
     policy : RoutingPolicies \cup {None}, privacy : PrivacyClasses \cup {None}, budget : Nat]

ASSUME RuntimesAssumption == IsFiniteSet(Runtimes) /\ Runtimes = 1..Cardinality(Runtimes)
ASSUME ModelsAssumption == IsFiniteSet(Models) /\ Models \subseteq Nat \ {0}
ASSUME ServesAssumption == Serves \in [Runtimes -> SUBSET Models]
ASSUME ChannelsAssumption == ChanBuffer \in Nat /\ MaxTokens \in Nat
\* main.go registers its profiles without a runtime.
ASSUME StaticAssumption ==
    StaticModels \in Seq(Profiles) /\ \A k \in DOMAIN StaticModels : StaticModels[k].rt = None
ASSUME ListsAssumption == Lists \subseteq Seq(Profiles)
ASSUME AskedAssumption ==
    Asked \cup AskedCatalog \subseteq [q : Requests, settings : Settings \cup {None}]
ASSUME HealthAssumption == None # "OFFLINE"

VARIABLES
    mode,
    up,             \* the runtime answers (external)
    pulled,         \* the models a runtime has (external)
    models,         \* RuntimeRegistry.models: runtime and status
    health,         \* Manager.health
    answered,       \* the last answer of every runtime to a health check
    removed,        \* models that were removed at their runtime
    overtaken,      \* <<w, rt>>: rt was stored after w had read the cache
    req,            \* the requests in flight
    decision,       \* what the last step decided, None if it decided nothing
    inference       \* the streams: goroutines, channels and reader

catalogVars == <<up, pulled, models, health, answered, removed, overtaken>>
fabricVars == <<mode, busVars, catalogVars, req, decision, inference>>

Idle == [op |-> "idle", at |-> "none"]

InFlight == {w \in Workers : req[w] # Idle}

MayBegin(w) == req[w] = Idle /\ (mode.overlap \/ InFlight = {})

Begin(w, r) == r.op \in mode.ops /\ MayBegin(w) /\ req' = [req EXCEPT ![w] = r]

Goto(w, at) == req' = [req EXCEPT ![w].at = at]

Finish(w) == req' = [req EXCEPT ![w] = Idle]

At(w, op, at) == req[w].op = op /\ req[w].at = at

\* BusSink.Publish; only the behaviours with the bus follow the events.
Emit == IF "forward" \in mode.ops THEN Publish ELSE NoEvent

EmitIf(condition) == IF condition THEN Emit ELSE NoEvent

\* Every step but a decision.
Undecided == decision' = None /\ UNCHANGED mode

\* A step of a request that leaves these variables, and the streams, alone.
Only(changed) == Undecided /\ UNCHANGED <<inference>> /\ UNCHANGED changed

FabricInit ==
    /\ BusInit
    /\ mode \in Modes /\ ({"stream", "events"} \cap mode.ops = {} => flushes)
    /\ up = [r \in Runtimes |-> TRUE]
    /\ pulled = Serves
    /\ models = [m \in Models |-> None]
    /\ health = [r \in Runtimes |-> None]
    /\ answered = [r \in Runtimes |-> None]
    /\ removed = [r \in Runtimes |-> {}]
    /\ overtaken = {}
    /\ req = [w \in Workers |-> Idle]
    /\ decision = None
    /\ inference = [i \in Inferences |-> None]

-----------------------------------------------------------------------------
\* A descriptor of the registry.  One that Install made up, because the runtime
\* lists neither name of the request, is not listed: it has no capabilities.
Descriptor(rt, status, listed) == [rt |-> rt, status |-> status, listed |-> listed]

\* RegisterModel overwrites the descriptor of a model.
RegisterModel(m, d) == models' = [models EXCEPT ![m] = d]

\* aiModelsDiscover: DiscoverAll visits the runtimes in the order of their ids.
\* found: how many models it has met.
Discovery(at, rt, list, found) ==
    [op |-> "discover", at |-> at, rt |-> rt, list |-> list, found |-> found]

Discover(w) ==
    /\ Begin(w, Discovery("list", 1, {}, 0))
    /\ NoEvent /\ Only(catalogVars)

\* ListModels of the next runtime; one whose call fails is passed over.
ListModels(w) ==
    LET rt == req[w].rt IN
    /\ At(w, "discover", "list")
    /\ IF rt \notin Runtimes
       THEN req' = [req EXCEPT ![w] = Discovery("publish", rt, {}, @.found)]
       ELSE \E list \in {{}} \cup {pulled[r] : r \in {r \in {rt} : up[r]}} :
              req' = [req EXCEPT ![w] = Discovery("register", rt, list, @.found)]
    /\ NoEvent /\ Only(catalogVars)

\* The loop of DiscoverAll: a model that is listed is AVAILABLE.
RegisterDiscovered(w) ==
    LET r == req[w] IN
    /\ At(w, "discover", "register")
    /\ IF r.list = {}
       THEN /\ req' = [req EXCEPT ![w] = Discovery("list", r.rt + 1, {}, r.found)]
            /\ UNCHANGED models
       ELSE \E m \in r.list :
              /\ RegisterModel(m, Descriptor(r.rt, "AVAILABLE", TRUE))
              /\ req' = [req EXCEPT ![w] = Discovery("register", r.rt, r.list \ {m}, r.found + 1)]
    /\ NoEvent /\ Only(<<up, pulled, health, answered, removed, overtaken>>)

\* Manager.Discover: an event for every model that was met, then the answer.
PublishDiscovered(w) ==
    LET r == req[w] IN
    /\ At(w, "discover", "publish")
    /\ IF r.found = 0 THEN Finish(w)
       ELSE req' = [req EXCEPT ![w] = Discovery("publish", r.rt, {}, r.found - 1)]
    /\ EmitIf(r.found # 0) /\ Only(catalogVars)

\* aiRuntime and aiRuntimeHealth ask one runtime ...
CheckRuntime(w, rt) ==
    /\ Begin(w, [op |-> "health", at |-> "call", rt |-> rt, last |-> rt])
    /\ NoEvent /\ Only(catalogVars)

\* ... aiRuntimes and aiHealth (HealthAll) all of them, in the order of their ids.
CheckAll(w) ==
    /\ Runtimes # {}
    /\ Begin(w, [op |-> "health", at |-> "call", rt |-> 1, last |-> Cardinality(Runtimes)])
    /\ NoEvent /\ Only(catalogVars)

\* HTTPRuntime.Health: get decides between ONLINE and OFFLINE.
Probe(w) ==
    LET rt == req[w].rt
        h == IF up[rt] THEN "ONLINE" ELSE "OFFLINE"
    IN
    /\ At(w, "health", "call")
    /\ req' = [req EXCEPT ![w] = [op |-> "health", at |-> "store", rt |-> rt,
                                  last |-> @.last, answer |-> h]]
    /\ answered' = [answered EXCEPT ![rt] = h]
    /\ NoEvent /\ Only(<<up, pulled, models, health, removed, overtaken>>)

\* The next runtime of a health request, if there is one.
NextRuntime(w) ==
    LET r == req[w] IN
    IF r.rt = r.last THEN Finish(w)
    ELSE req' = [req EXCEPT ![w] = [op |-> "health", at |-> "call",
                                    rt |-> r.rt + 1, last |-> r.last]]

\* The requests that hold a copy of the cache and have not decided.
Deciding == {w \in Workers : At(w, "decide", "settings")}

\* Manager.Health: whatever was answered is cached and published.
StoreHealth(w) ==
    /\ At(w, "health", "store")
    /\ health' = [health EXCEPT ![req[w].rt] = req[w].answer]
    /\ overtaken' = overtaken \cup (Deciding \X {req[w].rt})
    /\ NextRuntime(w) /\ Emit /\ Only(<<up, pulled, models, answered, removed>>)

\* aiModelInstall and Install, up to the call of the runtime: the request has
\* a source to pull and the id of the model.
Install(w, rt, source, m) ==
    /\ rt \in Pulling
    /\ Begin(w, [op |-> "install", at |-> "pull", rt |-> rt, source |-> source, m |-> m])
    /\ Emit /\ Only(catalogVars)

\* A call of HTTPRuntime.Install failed: nothing is registered.
InstallFails(w) ==
    /\ req[w].op = "install" /\ req[w].at \in {"pull", "list"}
    /\ Finish(w) /\ Emit /\ Only(catalogVars)

\* The pull; the runtime may list what it pulled under a name of its own.
Pull(w) ==
    LET rt == req[w].rt IN
    /\ At(w, "install", "pull") /\ up[rt]
    /\ \/ pulled' = [pulled EXCEPT ![rt] = @ \cup {req[w].source}]
       \/ UNCHANGED pulled
    /\ Goto(w, "list") /\ NoEvent /\ Only(<<up, models, health, answered, removed, overtaken>>)

\* The listing after the pull: a model with either name, else a descriptor
\* with the id of the request.
ListInstalled(w) ==
    LET rt == req[w].rt
        found == {req[w].source, req[w].m} \cap pulled[rt]
    IN
    /\ At(w, "install", "list") /\ up[rt]
    /\ \E m \in IF found = {} THEN {req[w].m} ELSE found :
          req' = [req EXCEPT ![w] = [op |-> "install", at |-> "write", rt |-> rt, m |-> m,
                                     model |-> Descriptor(rt, "INSTALLED", found # {})]]
    /\ NoEvent /\ Only(catalogVars)

\* aiModelLoad and Load, up to the call of the runtime.
Load(w, rt, m) ==
    /\ rt \in Pulling
    /\ Begin(w, [op |-> "load", at |-> "show", rt |-> rt, m |-> m])
    /\ Emit /\ Only(catalogVars)

\* HTTPRuntime.LoadModel: the runtime must have the model.
LoadModel(w) ==
    LET rt == req[w].rt IN
    /\ At(w, "load", "show")
    /\ \/ up[rt] /\ req[w].m \in pulled[rt] /\ Goto(w, "read")
       \/ Finish(w)
    /\ NoEvent /\ Only(catalogVars)

\* aiModelUnload and Unload: UnloadModel does nothing, for any runtime.
Unload(w, rt, m) ==
    /\ Begin(w, [op |-> "unload", at |-> "read", rt |-> rt, m |-> m])
    /\ NoEvent /\ Only(catalogVars)

\* Registry.Model, under the read lock.
ReadModel(w) ==
    /\ req[w].at = "read"
    /\ LET d == models[req[w].m]
           status == IF req[w].op = "load" THEN "READY" ELSE "INSTALLED"
       IN IF d = None
          THEN Finish(w) /\ EmitIf(req[w].op = "unload")
          ELSE /\ NoEvent
               /\ req' = [req EXCEPT
                    ![w] = [op |-> @.op, at |-> "write", m |-> @.m, rt |-> @.rt,
                            model |-> [d EXCEPT !.status = status]]]
    /\ Only(catalogVars)

\* Mutant: the descriptor is registered for the runtime of the request.
WriteModelHere(w) ==
    /\ req[w].at = "write"
    /\ RegisterModel(req[w].m, [req[w].model EXCEPT !.rt = req[w].rt])
    /\ Finish(w) /\ Emit /\ Only(<<up, pulled, health, answered, removed, overtaken>>)

\* The end of Install, Load and Unload: RegisterModel of the descriptor that
\* the request holds, under the write lock.
WriteModel(w) ==
    /\ req[w].at = "write"
    /\ RegisterModel(req[w].m, req[w].model)
    /\ Finish(w) /\ Emit /\ Only(<<up, pulled, health, answered, removed, overtaken>>)

\* A runtime is stopped or started by its own administrator.
Toggle(rt) ==
    /\ "toggle" \in mode.ops
    /\ up' = [up EXCEPT ![rt] = ~@]
    /\ UNCHANGED req /\ NoEvent /\ Only(<<pulled, models, health, answered, removed, overtaken>>)

\* ... who may also remove a model from it.
RemoveModel(rt, m) ==
    /\ "remove" \in mode.ops /\ m \in pulled[rt]
    /\ pulled' = [pulled EXCEPT ![rt] = @ \ {m}]
    /\ removed' = [removed EXCEPT ![rt] = @ \cup {m}]
    /\ UNCHANGED req /\ NoEvent /\ Only(<<up, models, health, answered, overtaken>>)

-----------------------------------------------------------------------------

\* A runtime that was never checked counts as healthy.
Healthy(h) == h = None \/ h \in {"ONLINE", "DEGRADED"}

\* One row of RoutingProfiles.
RoutingProfile(m, d, h) ==
    [provider |-> d.rt, id |-> m, rt |-> d.rt, healthy |-> Healthy(h),
     availability |-> IF Healthy(h) THEN "AVAILABLE" ELSE "UNAVAILABLE",
     local |-> TRUE, remote |-> FALSE, context |-> 0, caps |-> IF d.listed THEN {"coding", "tool_use"} ELSE {},
     reliability |-> 0, quality |-> 0, fast |-> FALSE, cost |-> 0,
     memory |-> 0, vram |-> 0, gpu |-> FALSE, agents |-> {}]

\* The static profiles and behind them RoutingProfiles of the descriptors under
\* the copy of the cache.
RoutingProfiles(catalog, cache) ==
    LET n == Len(StaticModels)
        rows == {n + m : m \in {m \in Models : catalog[m] # None}}
    IN [k \in (1..n) \cup rows |->
          IF k <= n THEN StaticModels[k] ELSE RoutingProfile(k - n, catalog[k - n], cache[catalog[k - n].rt])]

\* ApplyProjectPolicy: empty lists allow everything.
ApplyProjectPolicy(settings, ms) ==
    LET allowed(p) ==
          /\ settings.providers # {} => p.provider \in settings.providers
          /\ settings.runtimes # {} => p.rt \in settings.runtimes
          /\ settings.models # {} => p.id \in settings.models
          /\ settings.localOnly => p.local
    IN [k \in {k \in DOMAIN ms : allowed(ms[k])} |-> ms[k]]

\* decideModel fills what the request leaves open from the project's settings.
WithSettings(q, settings) ==
    [q EXCEPT !.policy = IF @ = None THEN settings.policy ELSE @,
              !.privacy = IF @ = None THEN settings.privacy ELSE @,
              !.local = IF settings.localOnly THEN "LOCAL_ONLY" ELSE @,
              !.budget = IF @ = 0 THEN settings.budget ELSE @]

\* The rest of decideModel, from the settings to the answer.
\* late: the runtimes that were stored since the cache was read.
Answer(a, ms, live, late) ==
    LET q == IF a.settings = None THEN a.q ELSE WithSettings(a.q, a.settings)
        list == IF a.settings = None THEN ms ELSE ApplyProjectPolicy(a.settings, ms)
    IN decision' = [q |-> q, list |-> list, live |-> live, late |-> late,
                    chosen |-> DecideWithFallbacks(q, list)]

\* decideModel without models: the descriptors are read ...
DecideModel(w) ==
    /\ Begin(w, [op |-> "decide", at |-> "health", catalog |-> models])
    /\ NoEvent /\ Only(catalogVars)

\* ... then CachedHealth is copied under its lock ...
CachedHealth(w) ==
    /\ At(w, "decide", "health")
    /\ req' = [req EXCEPT ![w] = [op |-> "decide", at |-> "settings",
                                  catalog |-> @.catalog, cache |-> health]]
    /\ NoEvent /\ Only(catalogVars)

\* ... and the settings come from the database, while checks go on; from there
\* on the decision depends on what the request holds alone.
DecideCached(w, a) ==
    /\ At(w, "decide", "settings")
    /\ Answer(a, RoutingProfiles(req[w].catalog, req[w].cache), TRUE,
              {rt \in Runtimes : <<w, rt>> \in overtaken})
    /\ overtaken' = {p \in overtaken : p[1] # w}
    /\ Finish(w) /\ NoEvent
    /\ UNCHANGED <<mode, up, pulled, models, health, answered, removed, inference>>

\* decideModel with the models of the request.
DecideSupplied(a, ms) ==
    /\ Answer(a, ms, FALSE, {})
    /\ NoEvent /\ UNCHANGED <<mode, catalogVars, req, inference>>

\* The decision is recorded and answered.
SaveDecision ==
    /\ decision # None /\ "route" \in mode.ops
    /\ decision' = None
    /\ NoEvent /\ UNCHANGED <<mode, catalogVars, req, inference>>

-----------------------------------------------------------------------------
\* A stream of n tokens.  left: lines not yet scanned; ch and out: the two
\* channels; hand: the event the manager's goroutine holds; scanning and
\* relaying: the goroutines live; reading: the handler loops over out; live:
\* the context; cut: the scanner stopped before the end of the answer; got: the
\* events written to the client, 0 for the completion.
NewStream(n) ==
    [tokens |-> n, left |-> n, ch |-> <<>>, out |-> <<>>, hand |-> <<>>,
     scanning |-> TRUE, relaying |-> TRUE, reading |-> flushes, live |-> flushes,
     cut |-> FALSE, got |-> <<>>]

InferenceStep(i, s) ==
    /\ inference' = [inference EXCEPT ![i] = s]
    /\ Undecided /\ UNCHANGED <<catalogVars, req>>

\* aiInferenceStream: the runtime has answered; without a Flusher the handler
\* returns at once, which also ends the context of the runtime's request.
OpenInference(i, n) ==
    /\ "stream" \in mode.ops /\ inference[i] = None
    /\ InferenceStep(i, NewStream(n)) /\ NoEvent

\* Mutant: the runtime's goroutine drops a token when its channel is full.
ScanDropping(i) ==
    LET s == inference[i] IN
    /\ s # None /\ s.scanning /\ s.left > 0
    /\ InferenceStep(i, [s EXCEPT !.left = @ - 1,
          !.ch = IF Len(@) < ChanBuffer THEN Append(@, s.tokens - s.left + 1) ELSE @])
    /\ NoEvent

\* HTTPRuntime.Stream, the goroutine: one token, which waits for room.
Scan(i) ==
    LET s == inference[i] IN
    /\ s # None /\ s.scanning /\ s.left > 0 /\ Len(s.ch) < ChanBuffer
    /\ InferenceStep(i, [s EXCEPT !.left = @ - 1,
                                  !.ch = Append(@, s.tokens - s.left + 1)])
    /\ NoEvent

\* scanner.Scan returns FALSE before the end of the answer: the context has
\* ended, the client's timeout has passed, the runtime has died or a line is too
\* long.  scanner.Err is not asked.
CutBody(i) ==
    LET s == inference[i] IN
    /\ s # None /\ s.scanning /\ s.left > 0
    /\ InferenceStep(i, [s EXCEPT !.left = 0, !.cut = TRUE]) /\ NoEvent

\* The completion event, whether or not the body was cut, then the channel is closed.
ScanEnd(i) ==
    LET s == inference[i] IN
    /\ s # None /\ s.scanning /\ s.left = 0 /\ Len(s.ch) < ChanBuffer
    /\ InferenceStep(i, [s EXCEPT !.ch = Append(@, 0), !.scanning = FALSE])
    /\ NoEvent

\* Manager.Stream, the goroutine: take an event and publish a token ...
Relay(i) ==
    LET s == inference[i] IN
    /\ s # None /\ s.relaying /\ s.hand = <<>> /\ s.ch # <<>>
    /\ InferenceStep(i, [s EXCEPT !.ch = Tail(@), !.hand = <<Head(s.ch)>>])
    /\ EmitIf(Head(s.ch) # 0)

\* ... and hand it on, which waits for room.
PassOn(i) ==
    LET s == inference[i] IN
    /\ s # None /\ s.hand # <<>> /\ Len(s.out) < ChanBuffer
    /\ InferenceStep(i, [s EXCEPT !.out = @ \o s.hand, !.hand = <<>>]) /\ NoEvent

RelayEnd(i) ==
    LET s == inference[i] IN
    /\ s # None /\ s.relaying /\ s.hand = <<>> /\ s.ch = <<>> /\ ~s.scanning
    /\ InferenceStep(i, [s EXCEPT !.relaying = FALSE]) /\ Emit

\* Mutant: the handler stops reading when the client has gone.
ReadEventLive(i) ==
    LET s == inference[i] IN
    /\ s # None /\ s.reading /\ s.live /\ s.out # <<>>
    /\ InferenceStep(i, [s EXCEPT !.out = Tail(@), !.got = Append(@, Head(s.out))])
    /\ NoEvent

\* The loop of aiInferenceStream: it reads to the end, client or not.
ReadEvent(i) ==
    LET s == inference[i] IN
    /\ s # None /\ s.reading /\ s.out # <<>>
    /\ InferenceStep(i, [s EXCEPT !.out = Tail(@), !.got = Append(@, Head(s.out))])
    /\ NoEvent

ReadEnd(i) ==
    LET s == inference[i] IN
    /\ s # None /\ s.reading /\ s.out = <<>> /\ ~s.relaying
    /\ InferenceStep(i, [s EXCEPT !.reading = FALSE, !.live = FALSE]) /\ NoEvent

\* The client disconnects.
HangUp(i) ==
    LET s == inference[i] IN
    /\ s # None /\ s.live
    /\ InferenceStep(i, [s EXCEPT !.live = FALSE]) /\ NoEvent

\* The three loops of a stream.
ScannerStep(i) == Scan(i) \/ CutBody(i) \/ ScanEnd(i)

RelayStep(i) == Relay(i) \/ PassOn(i) \/ RelayEnd(i)

HandlerStep(i) == ReadEvent(i) \/ ReadEnd(i)

\* aiInference and Generate: an event before the call and one after it.
Generate(w) ==
    /\ Begin(w, [op |-> "generate", at |-> "call"])
    /\ Emit /\ Only(catalogVars)

GenerateEnd(w) ==
    /\ At(w, "generate", "call")
    /\ Finish(w) /\ Emit /\ Only(catalogVars)

-----------------------------------------------------------------------------
RequestStep(w) ==
    \/ ListModels(w) \/ RegisterDiscovered(w) \/ PublishDiscovered(w) \/ Probe(w) \/ StoreHealth(w)
    \/ CachedHealth(w) \/ InstallFails(w) \/ Pull(w) \/ ListInstalled(w) \/ LoadModel(w)
    \/ ReadModel(w) \/ WriteModel(w) \/ GenerateEnd(w)

\* A step of the bus that publishes nothing.
BusStep(A) ==
    A /\ Undecided /\ UNCHANGED <<catalogVars, req, inference>>

FabricNext ==
    \/ "forward" \in mode.ops /\ BusStep(StartForwarder \/ AppendActivity)
    \/ "events" \in mode.ops /\ \E c \in Clients : BusStep(ClientStep(c))
    \/ \E w \in Workers :
          \/ Discover(w) \/ CheckAll(w) \/ DecideModel(w) \/ Generate(w) \/ RequestStep(w)
          \/ \E rt \in Runtimes :
                \/ CheckRuntime(w, rt)
                \/ \E m \in Models :
                      \/ \E source \in Models : Install(w, rt, source, m)
                      \/ Load(w, rt, m) \/ Unload(w, rt, m)
          \/ \E a \in AskedCatalog : DecideCached(w, a)
    \/ "route" \in mode.ops /\ decision = None
       /\ \E a \in Asked : \E ms \in Lists : DecideSupplied(a, ms)
    \/ SaveDecision
    \/ \E rt \in Runtimes : Toggle(rt) \/ \E m \in Models : RemoveModel(rt, m)
    \/ \E i \in Inferences :
          \/ \E n \in 0..MaxTokens : OpenInference(i, n)
          \/ HangUp(i) \/ ScannerStep(i) \/ RelayStep(i) \/ HandlerStep(i)

\* Every goroutine and every handler goes on while it can.
FabricFairness ==
    /\ \A i \in Inferences :
          WF_fabricVars(ScannerStep(i)) /\ WF_fabricVars(RelayStep(i)) /\ WF_fabricVars(HandlerStep(i))
    /\ \A c \in Clients :
          WF_fabricVars(BusStep(Unsubscribe(c))) /\ WF_fabricVars(BusStep(HandleStep(c)))

FabricSpec == FabricInit /\ [][FabricNext]_fabricVars /\ FabricFairness

-----------------------------------------------------------------------------
\* The state is well formed.
FabricTypeOK ==
    /\ BusTypeOK
    /\ mode \in Modes
    /\ \A m \in Models : models[m] # None =>
          models[m].rt \in Runtimes /\ models[m].listed \in BOOLEAN
          /\ models[m].status \in {"AVAILABLE", "INSTALLED", "READY"}
    /\ \A i \in Inferences : inference[i] # None =>
          /\ Len(inference[i].ch) <= ChanBuffer /\ Len(inference[i].out) <= ChanBuffer
          /\ inference[i].relaying \/ ~inference[i].scanning

\* However discoveries, installations, loads and unloads interleave, the
\* catalogue names a runtime that has the model: a request that follows its
\* descriptor reaches a runtime that serves it, unless the model was removed
\* there behind the fabric's back.  (Not so for a descriptor that Install made
\* up.)
CatalogServed ==
    \A m \in Models : models[m] # None /\ models[m].listed =>
        m \in pulled[models[m].rt] \cup removed[models[m].rt]

\* Single checks: the health cache holds the last answer of every runtime.
\* (Two checks of one runtime may store their answers the other way round.)
HealthIsLatest ==
    ~mode.overlap /\ InFlight = {} => health = answered

\* A decision over the catalogue takes a registered model whose runtime the
\* cache says is offline only if a check stored that after decideModel had read
\* the cache; that the descriptors were read earlier, and the settings later,
\* makes no difference.
DecisionHonoursCache ==
    decision # None /\ decision.live /\ decision.chosen # None /\ decision.chosen.rt # None
        => decision.chosen.rt \in decision.late \/ health[decision.chosen.rt] # "OFFLINE"

\* The limits of a request hold for whatever is selected, be it the best
\* candidate, the user's override or a fallback.
RouteSound ==
    decision # None /\ decision.chosen # None =>
        LET q == decision.q
            m == decision.chosen
        IN
        /\ ("PRIVATE" \in {q.privacy, q.taskPrivacy} \/ q.local = "LOCAL_ONLY") => m.local
        /\ q.offline => ~m.remote
        /\ q.budget > 0 => m.cost <= q.budget
        /\ q.context <= m.context

\* The list the other way round.
Reversed(ms) == [k \in {-i : i \in DOMAIN ms} |-> ms[-k]]

\* The router is deterministic: the order of the list does not matter.
RouteOrderFree ==
    decision # None /\ decision.chosen # None =>
        Ref(DecideWithFallbacks(decision.q, Reversed(decision.list))) = Ref(decision.chosen)

\* NO_COMPATIBLE_MODEL is answered only when neither the request nor one of its
\* fallbacks names a model of the list that meets the constraints.
RouteComplete ==
    decision # None /\ decision.chosen = None =>
        \A k \in DOMAIN decision.list :
            LET m == decision.list[k]
                q == decision.q
            IN
            (\/ q.override \in {None, Ref(m)}
             \/ \E f \in DOMAIN q.fallbacks : q.fallbacks[f] = Ref(m)) => ~Accepted(q, m)

\* No token of a stream is doubled or overtaken between the runtime and the
\* client, the completion comes last, and what the client has is the whole
\* answer unless the scanner stopped early; then it is a beginning of it.
TokensInOrder ==
    \A i \in Inferences : inference[i] # None =>
        LET s == inference[i]
            all == s.got \o s.out \o s.hand \o s.ch
            k == IF s.scanning THEN Len(all) ELSE Len(all) - 1
        IN /\ \A j \in 1..k : all[j] = j
           /\ s.scanning \/ all[Len(all)] = 0
           /\ IF s.cut THEN k < s.tokens ELSE k = s.tokens - s.left

\* Both goroutines of a stream end, if the handler reads or the whole answer,
\* its completion included, fits the manager's channel.  (A longer answer
\* whose handler has returned keeps them for ever.)
InferenceEnds ==
    \A i \in Inferences :
        (inference[i] # None /\ (flushes \/ inference[i].tokens + 1 <= ChanBuffer))
            ~> (inference[i] # None /\ ~inference[i].scanning /\ ~inference[i].relaying)

\* The catalogue and the health cache are true of the runtimes as far as the
\* interleaving of operations allows, and decisions respect them.
CatalogSound == CatalogServed /\ HealthIsLatest /\ DecisionHonoursCache

\* The router: limits hold, the order of the list does not matter, and a
\* refusal means that nothing fits.
RouterSound == RouteSound /\ RouteOrderFree /\ RouteComplete

\* Channels and subscriptions are within their bounds, and the tokens of a stream
\* come in order and, unless its body was cut, all of them.
StreamsSound == FabricTypeOK /\ TokensInOrder

\* Handlers of event streams and the goroutines of inference streams end.
StreamsEnd == StreamEnds /\ InferenceEnds
=============================================================================
