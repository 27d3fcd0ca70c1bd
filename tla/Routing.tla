------------------------------ MODULE Routing ------------------------------
(***************************************************************************)
(* The model router (internal/routing/router.go): a pure function from a   *)
(* request and a list of model profiles to a decision.  Ratings are in     *)
(* hundredths, scores in ten-thousandths (the CHEAPEST quotient rounded    *)
(* down to one) and costs in thousandths of a dollar.                      *)
(***************************************************************************)
EXTENDS Integers, Sequences

CONSTANT None

\* ModelReference: a provider and a model, by their places in the order of names.
References == Nat \X Nat

Capabilities ==
    {"coding", "reasoning", "architecture", "debugging", "refactoring", "frontend", "backend",
     "database", "devops", "security", "testing", "documentation", "vision", "tool_use",
     "structured_output", "long_context", "fast_response"}

PrivacyClasses == {"PUBLIC", "INTERNAL", "CONFIDENTIAL", "PRIVATE"}

LocalPolicies == {"REMOTE_ALLOWED", "LOCAL_FIRST", "LOCAL_ONLY"}

RoutingPolicies ==
    {"BEST", "CHEAPEST", "FASTEST", "PRIVACY_FIRST", "BALANCED", "CLOUD_FIRST", "CUSTOM"}

\* ModelProfile.
Profiles ==
    [provider : Nat, id : Nat, rt : Nat \cup {None}, healthy : BOOLEAN,
     availability : {"AVAILABLE", "DEGRADED", "UNAVAILABLE", "DISABLED", "UNKNOWN"},
     local : BOOLEAN, remote : BOOLEAN, context : Nat, caps : SUBSET Capabilities,
     reliability : Nat, quality : Nat, fast : BOOLEAN, cost : Nat,
     memory : Nat, vram : Nat, gpu : BOOLEAN, agents : SUBSET STRING]

\* RoutingRequest with its task, without the models.
Requests ==
    [agent : STRING, type : STRING, reasoning : BOOLEAN, tools : BOOLEAN, vision : BOOLEAN,
     taskPrivacy : PrivacyClasses \cup {None}, context : Nat,
     policy : RoutingPolicies \cup {None}, policies : Seq(RoutingPolicies \cup {None}),
     privacy : PrivacyClasses \cup {None}, local : LocalPolicies,
     budget : Nat, runtime : BOOLEAN, offline : BOOLEAN, memory : Nat, vram : Nat,
     gpu : BOOLEAN, fallbacks : Seq(References), override : References \cup {None}]

ASSUME ProfilesAssumption == None \notin Profiles

\* The capability a task type asks for.
Speciality(type) ==
    CASE type \in {"CODE", "REFACTOR", "DEBUG"} -> "coding"
      [] type = "ARCHITECTURE"  -> "architecture"
      [] type = "UI"            -> "frontend"
      [] type = "DATABASE"      -> "database"
      [] type = "DEVOPS"        -> "devops"
      [] type = "SECURITY"      -> "security"
      [] type = "TEST"          -> "testing"
      [] type = "DOCUMENTATION" -> "documentation"
      [] OTHER                  -> "none"

\* capabilityScore.
CapabilityScore(q, m) ==
    LET worth(need, cap, weight) == IF need /\ cap \in m.caps THEN weight ELSE 0 IN
      worth(q.reasoning, "reasoning", 300) + worth(q.tools, "tool_use", 200)
    + worth(q.vision, "vision", 300) + worth(TRUE, Speciality(q.type), 300)

\* effectivePolicy: the request, then the project, the organization, the globe.
EffectivePolicy(q) ==
    IF q.policy # None THEN q.policy
    ELSE LET given == SelectSeq(q.policies, LAMBDA p : p # None) IN
         IF given = <<>> THEN "BALANCED" ELSE Head(given)

\* The switch over the policy, and the preference for local models.
PolicyScore(q, m) ==
    LET policy == EffectivePolicy(q) IN
      (CASE policy = "CHEAPEST" -> 10000000 \div (1000 + m.cost)
         [] policy = "FASTEST" -> IF m.fast THEN 20000 ELSE 0
         [] policy = "BEST" -> 100 * m.quality
         [] policy = "PRIVACY_FIRST" -> IF m.local THEN 30000 ELSE 0
         [] policy = "BALANCED" -> IF m.local THEN 5000 ELSE 0
         [] policy = "CLOUD_FIRST" -> IF m.remote THEN 20000 ELSE 0
         [] OTHER -> 0)
    + (IF q.local = "LOCAL_FIRST" /\ m.local THEN 20000 ELSE 0)

Score(q, m) == 100 * (CapabilityScore(q, m) + m.reliability) + PolicyScore(q, m)

\* A resource is short when both its need and its supply are known.
Short(need, supply) == need > 0 /\ supply > 0 /\ need > supply

\* evaluate: the hard constraints.
Accepted(q, m) ==
    /\ m.availability \in {"AVAILABLE", "DEGRADED"}
    /\ q.runtime
    /\ ~(q.offline /\ m.remote)
    /\ m.rt # None => m.healthy
    /\ ~Short(m.memory, q.memory) /\ ~Short(m.vram, q.vram)
    /\ m.gpu => q.gpu
    /\ q.local = "LOCAL_ONLY" => m.local
    /\ q.privacy = "PRIVATE" => m.local
    /\ q.taskPrivacy = "PRIVATE" => m.local
    /\ q.context <= m.context
    /\ q.vision => "vision" \in m.caps
    /\ q.tools => "tool_use" \in m.caps
    /\ m.agents # {} => q.agent \in m.agents
    /\ q.budget > 0 => m.cost <= q.budget

Ref(m) == <<m.provider, m.id>>

\* The order of the sort: score, then provider, then model.
Better(q, m, n) ==
    \/ Score(q, m) > Score(q, n)
    \/ /\ Score(q, m) = Score(q, n)
       /\ \/ m.provider < n.provider
          \/ m.provider = n.provider /\ m.id < n.id

\* The positions of a list are numbers in its order; a filter keeps them.
Smallest(positions) == CHOOSE i \in positions : \A j \in positions : i <= j

\* The candidates of Decide that pass evaluate.
AcceptedOf(q, ms) == {i \in DOMAIN ms : Accepted(q, ms[i])}

\* applyOverride: the first candidate with the name, if it was accepted.
ApplyOverride(q, ms, accepted) ==
    LET named == {i \in accepted : Ref(ms[i]) = q.override} IN
    IF q.override = None THEN accepted
    ELSE IF named = {} THEN {} ELSE {Smallest(named)}

\* The head of the stable sort: the first of the best.
First(q, ms, candidates) ==
    Smallest({i \in candidates : \A j \in candidates : ~Better(q, ms[j], ms[i])})

\* Decide: the selected profile, or None for NO_COMPATIBLE_MODEL.
Decide(q, ms) ==
    LET candidates == ApplyOverride(q, ms, AcceptedOf(q, ms)) IN
    IF candidates = {} THEN None ELSE ms[First(q, ms, candidates)]

\* Mutant: a model that is named as a fallback is not evaluated again.
FallbacksOpen(q, ms, k) == {i \in DOMAIN ms : Ref(ms[i]) = q.fallbacks[k]}

\* The models the fallback loop would select at the k-th fallback: every listed
\* model alone, without the override, under all the constraints of the request.
Fallbacks(q, ms, k) ==
    LET alone == [q EXCEPT !.override = None] IN
    {i \in DOMAIN ms : Ref(ms[i]) = q.fallbacks[k] /\ Decide(alone, <<ms[i]>>) # None}

\* The first answer of the loops over the fallbacks and the models.
DecideWithFallbacks(q, ms) ==
    LET useful == {k \in DOMAIN q.fallbacks : Fallbacks(q, ms, k) # {}} IN
    IF Decide(q, ms) # None THEN Decide(q, ms)
    ELSE IF useful = {} THEN None
    ELSE ms[Smallest(Fallbacks(q, ms, Smallest(useful)))]
=============================================================================
