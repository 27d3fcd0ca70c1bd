---------------------------- MODULE SharedInfra ----------------------------
(***************************************************************************)
(* Shared infrastructure (internal/sharedinfra): the tool registry, which  *)
(* main loads from the database or seeds it with, the artifact cache with  *)
(* its tables, and the resolver that asks both.                            *)
(*                                                                         *)
(* An artifact is the id of a tool's version with a checksum; content is   *)
(* the checksum it has.  In memory the cache distinguishes checksums, its  *)
(* tables do not.  A cache operation holds the mutex across its statements *)
(* (call); the server may stop between any two of them.                    *)
(***************************************************************************)
EXTENDS Naturals, Sequences, FiniteSets

CONSTANTS
    Tools,          \* tools of DefaultRegistry
    Versions,       \* their versions, in the order of the source; a version
                    \* is its rank in the order of the database's text
    Artifacts,      \* artifacts clients use: [id |-> <<tool, version>>, sum]
    EmptySum,       \* the checksum of no bytes
    Rotten,         \* content of no artifact's checksum
    Absent          \* no value

VARIABLES
    phase,          \* of the server: off, load, seed, hydrate, up
    faults,         \* statements may fail
    toolRows,       \* shared_tools with shared_tool_versions, by tool
    seeding,        \* the statements main has left to seed with, by tool
    cut,            \* history: the tools whose rows a stop left incomplete
    short,          \* history: the tools this start read without all their rows
    registry,       \* Registry.tools: version and checksum, by tool
    artifactRows,   \* shared_artifacts: the checksum, by id
    entryRows,      \* global_cache_entries: the status, by id
    blobRows,       \* global_cache_blobs: the content, by id
    entries,        \* Cache.entries: the status, by artifact
    blobs,          \* Cache.blobs: the content, by artifact
    call,           \* the operation that holds the mutex
    answer,         \* the answer of the last step's look-up
    held,           \* history: artifacts put and not disturbed since
    dropped         \* history: artifacts invalidated and not put again since

rowVars == <<toolRows, artifactRows, entryRows, blobRows>>
sharedVars == <<phase, faults, rowVars, seeding, cut, short, registry, entries, blobs,
                call, answer, held, dropped>>

IDs == {a.id : a \in Artifacts}

VersionsOf(t) == {Versions[t][k] : k \in DOMAIN Versions[t]}

\* Versions are ranks; an artifact has an id and a checksum.
ASSUME VersionsAssumption == \A t \in Tools : Versions[t] \in Seq(Nat)
ASSUME ArtifactsAssumption ==
    \A a \in Artifacts :
        a = [id |-> a.id, sum |-> a.sum] /\ a.sum # Rotten /\ a.sum # Absent
\* No value is none of the values there are.
ASSUME AbsentAssumption ==
    /\ Absent \notin {"HIT", "CORRUPT", "INVALID", "MISS", Rotten}
    /\ \A t \in Tools : \A saved \in SUBSET VersionsOf(t) : saved # Absent
    /\ \A a \in Artifacts :
        /\ Absent \notin [a : {a}, status : {"HIT", "CORRUPT", "MISS"}]
        /\ Absent \notin [op : {"touch"}, a : {a}]
        /\ Absent \notin [op : {"put"}, at : {"blob", "entry", "clean"}, a : {a}, new : BOOLEAN]
        /\ Absent \notin [op : {"invalidate"}, at : {"delete", "mark"}, a : {a}]

\* Artifacts of one id share their rows.
Siblings(a) == {b \in Artifacts : b.id = a.id}

\* DefaultRegistry: its artifacts have no checksum.
DefaultTool(t) == [i \in 1..Len(Versions[t]) |-> [version |-> Versions[t][i], sum |-> Absent]]

NothingToSeed == [t \in Tools |-> 0]

SharedInit ==
    /\ phase = "off" /\ faults \in BOOLEAN
    /\ toolRows = [t \in Tools |-> Absent]
    /\ seeding = NothingToSeed /\ cut = {} /\ short = {}
    /\ registry = [t \in Tools |-> <<>>]
    /\ artifactRows = [i \in IDs |-> Absent]
    /\ entryRows = [i \in IDs |-> Absent]
    /\ blobRows = [i \in IDs |-> Absent]
    /\ entries = [a \in Artifacts |-> Absent]
    /\ blobs = [a \in Artifacts |-> Absent]
    /\ call = Absent /\ answer = Absent
    /\ held = {} /\ dropped = {}

-----------------------------------------------------------------------------
\* main: DefaultRegistry, then LoadTools.
Boot ==
    /\ phase = "off"
    /\ phase' = "load"
    /\ registry' = [t \in Tools |-> DefaultTool(t)]
    /\ UNCHANGED <<faults, rowVars, seeding, cut, short, entries, blobs, call, answer, held, dropped>>

\* loadArtifact: without a row, or when its query fails (lost), the version has
\* no artifact.
LoadArtifact(t, v, lost) ==
    IF <<t, v>> \in IDs \ lost THEN artifactRows[<<t, v>>] ELSE Absent

\* LoadTools of one tool, of which it read these versions: ORDER BY version.
LoadedTool(t, read, lost) ==
    LET nth(k) == CHOOSE v \in read : Cardinality({u \in read : u < v}) = k - 1
    IN [k \in 1..Cardinality(read) |->
           [version |-> nth(k), sum |-> LoadArtifact(t, nth(k), lost)]]

\* The versions LoadTools may read of a tool: all its rows, or those before the
\* one at which the query breaks off, whose error is not looked at.
Readable(t) ==
    {read \in SUBSET toolRows[t] :
        /\ read # toolRows[t] => faults
        /\ \A u \in read, v \in toolRows[t] \ read : u < v}

\* SaveTool, then a SaveVersion per version.
StatementsOf(t) == 1 + Len(Versions[t])

\* Mutant: the registry holds what was loaded and nothing else.
LoadedRegistryOnly(read, lost) ==
    [t \in Tools |-> IF toolRows[t] # Absent THEN LoadedTool(t, read[t], lost) ELSE <<>>]

\* Registry.Load: Register overwrites the tools that were loaded.
LoadedRegistry(read, lost) ==
    [t \in Tools |-> IF toolRows[t] # Absent THEN LoadedTool(t, read[t], lost) ELSE registry[t]]

\* Tools in the database are loaded; only an empty one is seeded.
LoadTools ==
    LET loaded == {t \in Tools : toolRows[t] # Absent} IN
    /\ phase = "load"
    /\ IF loaded = {}
       THEN /\ phase' = "seed" /\ seeding' = [t \in Tools |-> StatementsOf(t)]
            /\ UNCHANGED <<registry, short>>
       ELSE \E read \in [loaded -> SUBSET UNION {VersionsOf(t) : t \in Tools}], lost \in SUBSET IDs :
              /\ \A t \in loaded : read[t] \in Readable(t)
              /\ lost # {} => faults
              /\ phase' = "hydrate" /\ registry' = LoadedRegistry(read, lost)
              /\ short' = {t \in loaded : read[t] # toolRows[t]}
              /\ UNCHANGED seeding
    /\ UNCHANGED <<faults, rowVars, cut, entries, blobs, call, answer, held, dropped>>

\* One statement of the seed: tool after tool, in any order (List ranges over a
\* map), the row of the tool and then its versions.
SeedRow(t) ==
    LET done == StatementsOf(t) - seeding[t] IN
    /\ phase = "seed" /\ seeding[t] > 0
    /\ \A u \in Tools \ {t} : seeding[u] \in {0, StatementsOf(u)}
    /\ toolRows' = [toolRows EXCEPT ![t] = IF done = 0 THEN {} ELSE @ \cup {Versions[t][done]}]
    /\ seeding' = [seeding EXCEPT ![t] = @ - 1]
    /\ UNCHANGED <<phase, faults, artifactRows, entryRows, blobRows, cut, short, registry,
                   entries, blobs, call, answer, held, dropped>>

Seeded ==
    /\ phase = "seed" /\ seeding = NothingToSeed
    /\ phase' = "hydrate"
    /\ UNCHANGED <<faults, rowVars, seeding, cut, short, registry, entries, blobs, call,
                   answer, held, dropped>>

\* LoadCacheEntries: the join gives an entry the key its artifact's row has now.
LoadCacheEntries ==
    [a \in Artifacts |-> IF artifactRows[a.id] = a.sum THEN entryRows[a.id] ELSE Absent]

\* Hydrate: the entries, without content.
Hydrate ==
    /\ phase = "hydrate"
    /\ entries' = LoadCacheEntries
    /\ phase' = "up"
    /\ UNCHANGED <<faults, rowVars, seeding, cut, short, registry, blobs, call, answer, held, dropped>>

\* The server stops, or exits because a statement of its start failed; its
\* memory is lost.
SharedCrash ==
    /\ phase # "off"
    /\ phase' = "off"
    /\ seeding' = NothingToSeed /\ call' = Absent /\ answer' = Absent
    /\ cut' = cut \cup {t \in Tools : toolRows[t] # Absent /\ seeding[t] > 0}
    /\ registry' = [t \in Tools |-> <<>>] /\ short' = {}
    /\ entries' = [a \in Artifacts |-> Absent] /\ blobs' = [a \in Artifacts |-> Absent]
    /\ UNCHANGED <<faults, rowVars, held, dropped>>

-----------------------------------------------------------------------------
\* Registry.Resolve: the first version the requirement accepts, if there is one.
\* versionMatches: a requirement accepts every version (none given, latest), the
\* one it names, or those that begin with its prefix.
Resolve(t, accepted) ==
    LET matching == {k \in DOMAIN registry[t] : registry[t][k].version \in accepted}
    IN {registry[t][k] : k \in {i \in matching : \A j \in matching : i <= j}}

\* The cache is used by a server that runs, one operation at a time.
Enter == phase = "up" /\ call = Absent

\* An operation's step that leaves the registry and the start alone.
CacheStep == UNCHANGED <<phase, faults, toolRows, seeding, cut, short, registry, artifactRows>>

\* The content Lookup finds: in memory, unless it is empty, else the row if its
\* content has the checksum that was asked for; a failing statement finds none.
Contents(a) ==
    IF blobs[a] \notin {Absent, EmptySum} THEN {blobs[a]}
    ELSE {IF blobRows[a.id] = a.sum THEN a.sum ELSE blobs[a]}
         \cup IF faults THEN {blobs[a]} ELSE {}

\* verifyChecksum: no content has the checksum of no bytes.
Verified(a, content) == (IF content = Absent THEN EmptySum ELSE content) = a.sum

\* Cache.Lookup, to the point where a hit is saved.
Lookup(a) ==
    /\ Enter
    /\ IF entries[a] = Absent
       THEN answer' = [a |-> a, status |-> "MISS"] /\ UNCHANGED <<entries, blobs, call>>
       ELSE \E content \in Contents(a) :
              /\ blobs' = [blobs EXCEPT ![a] = content]
              /\ LET status == IF Verified(a, content) THEN "HIT" ELSE "CORRUPT" IN
                 /\ entries' = [entries EXCEPT ![a] = status]
                 /\ answer' = [a |-> a, status |-> status]
                 /\ call' = IF status = "HIT" THEN [op |-> "touch", a |-> a] ELSE Absent
    /\ CacheStep /\ UNCHANGED <<entryRows, blobRows, held, dropped>>

\* resolveEnvironment and ResolveManifest, one requirement: without a version
\* it ends in an error, and an artifact without a row is a miss that leaves no
\* trace; otherwise its artifact is looked up.
ResolveRequirement(t, accepted) ==
    \E v \in Resolve(t, accepted), a \in Artifacts :
        a = [id |-> <<t, v.version>>, sum |-> v.sum] /\ Lookup(a)

\* A statement on the entry or on the blob of an artifact can succeed: foreign
\* keys ask for the artifact's row.
Writable(a) == artifactRows[a.id] # Absent

\* SaveCacheEntry and DeleteCacheBlob, when they succeed: rows are by id.
SaveCacheEntry(a, status) ==
    Writable(a) /\ entryRows' = [entryRows EXCEPT ![a.id] = status]
DeleteCacheBlob(a) == blobRows' = [blobRows EXCEPT ![a.id] = Absent]

\* SaveCacheEntry at the end of Lookup; its failure is ignored.
Touch ==
    /\ call # Absent /\ call.op = "touch"
    /\ \/ SaveCacheEntry(call.a, "HIT")
       \/ (faults \/ ~Writable(call.a)) /\ UNCHANGED entryRows
    /\ call' = Absent /\ answer' = Absent
    /\ CacheStep /\ UNCHANGED <<blobRows, entries, blobs, held, dropped>>

\* Put of matching content: a new artifact is in memory at once.
Put(a) ==
    /\ Enter
    /\ call' = [op |-> "put", at |-> "blob", a |-> a, new |-> entries[a] = Absent]
    /\ blobs' = IF entries[a] = Absent THEN [blobs EXCEPT ![a] = a.sum] ELSE blobs
    /\ held' = held \ (Siblings(a) \ {a})
    /\ dropped' = dropped \ {a}
    /\ answer' = Absent
    /\ CacheStep /\ UNCHANGED <<entryRows, blobRows, entries>>

Putting(at) == call # Absent /\ call.op = "put" /\ call.at = at

\* SaveCacheBlob.
PutBlob ==
    /\ Putting("blob")
    /\ \/ /\ Writable(call.a)
          /\ blobRows' = [blobRows EXCEPT ![call.a.id] = call.a.sum]
          /\ call' = [call EXCEPT !.at = "entry"]
       \/ /\ faults \/ ~Writable(call.a)
          /\ call' = Absent /\ UNCHANGED blobRows
    /\ CacheStep /\ UNCHANGED <<entryRows, entries, blobs, answer, held, dropped>>

\* SaveCacheEntry, then the maps.
PutEntry ==
    LET a == call.a IN
    /\ Putting("entry")
    /\ SaveCacheEntry(a, "HIT")
    /\ entries' = [entries EXCEPT ![a] = "HIT"]
    /\ blobs' = [blobs EXCEPT ![a] = a.sum]
    /\ held' = held \cup {b \in {a} : artifactRows[a.id] = a.sum /\ blobRows[a.id] = a.sum}
    /\ call' = Absent
    /\ CacheStep /\ UNCHANGED <<blobRows, answer, dropped>>

\* Mutant: the blob is removed for an artifact that was there before, too.
PutEntryFailsClean ==
    /\ Putting("entry") /\ faults
    /\ call' = [call EXCEPT !.at = "clean"]
    /\ CacheStep /\ UNCHANGED <<entryRows, blobRows, entries, blobs, answer, held, dropped>>

\* SaveCacheEntry fails: the blob of a new artifact is removed.
PutEntryFails ==
    /\ Putting("entry") /\ faults
    /\ call' = IF call.new THEN [call EXCEPT !.at = "clean"] ELSE Absent
    /\ CacheStep /\ UNCHANGED <<entryRows, blobRows, entries, blobs, answer, held, dropped>>

\* DeleteCacheBlob after a failed Put; its own failure is ignored.
PutClean ==
    /\ Putting("clean")
    /\ DeleteCacheBlob(call.a) \/ UNCHANGED blobRows
    /\ call' = Absent
    /\ CacheStep /\ UNCHANGED <<entryRows, entries, blobs, answer, held, dropped>>

\* Invalidate of an artifact that has an entry.
Invalidate(a) ==
    /\ Enter /\ entries[a] # Absent
    /\ entries' = [entries EXCEPT ![a] = "INVALID"]
    /\ blobs' = [blobs EXCEPT ![a] = Absent]
    /\ call' = [op |-> "invalidate", at |-> "delete", a |-> a]
    /\ held' = held \ Siblings(a)
    /\ answer' = Absent
    /\ CacheStep /\ UNCHANGED <<entryRows, blobRows, dropped>>

Invalidating(at) == call # Absent /\ call.op = "invalidate" /\ call.at = at

\* DeleteCacheBlob; its failure is ignored.
InvalidateBlob ==
    /\ Invalidating("delete")
    /\ \/ DeleteCacheBlob(call.a) /\ dropped' = dropped \cup {call.a}
       \/ faults /\ UNCHANGED <<blobRows, dropped>>
    /\ call' = [call EXCEPT !.at = "mark"]
    /\ CacheStep /\ UNCHANGED <<entryRows, entries, blobs, answer, held>>

\* SaveCacheEntry; its failure is ignored.
InvalidateEntry ==
    /\ Invalidating("mark")
    /\ \/ SaveCacheEntry(call.a, "INVALID")
       \/ (faults \/ ~Writable(call.a)) /\ UNCHANGED entryRows
    /\ call' = Absent
    /\ CacheStep /\ UNCHANGED <<blobRows, entries, blobs, answer, held, dropped>>

\* SaveArtifact registers an artifact or replaces its checksum.
SaveArtifact(a) ==
    /\ artifactRows' = [artifactRows EXCEPT ![a.id] = a.sum]
    /\ held' = held \ (Siblings(a) \ {a})
    /\ answer' = Absent
    /\ UNCHANGED <<phase, faults, toolRows, entryRows, blobRows, seeding, cut, short, registry,
                   entries, blobs, call, dropped>>

\* The content of a blob's row changes behind the store's back.
Rot(i) ==
    /\ blobRows[i] # Absent
    /\ blobRows' = [blobRows EXCEPT ![i] = Rotten]
    /\ held' = {a \in held : a.id # i}
    /\ answer' = Absent
    /\ UNCHANGED <<phase, faults, toolRows, artifactRows, entryRows, seeding, cut, short, registry,
                   entries, blobs, call, dropped>>

SharedNext ==
    \/ Boot \/ LoadTools \/ Seeded \/ Hydrate
    \/ \E t \in Tools :
          \/ SeedRow(t)
          \/ \E accepted \in SUBSET VersionsOf(t) : ResolveRequirement(t, accepted)
    \/ \E a \in Artifacts : Lookup(a) \/ Put(a) \/ Invalidate(a) \/ SaveArtifact(a)
    \/ Touch \/ PutBlob \/ PutEntry \/ PutEntryFails \/ PutClean
    \/ InvalidateBlob \/ InvalidateEntry
    \/ \E i \in IDs : Rot(i)

-----------------------------------------------------------------------------
\* An artifact that is not empty.  (An empty one needs no content: a look-up of
\* an entry answers HIT, whatever was deleted.)
HasBytes(a) == a.sum # EmptySum

\* What a look-up would find, were no statement to fail.
Found(a) ==
    /\ entries[a] # Absent
    /\ HasBytes(a) =>
         (IF blobs[a] \notin {Absent, EmptySum} THEN blobs[a] ELSE blobRows[a.id]) = a.sum

\* A running server resolves every version of every tool of the default
\* registry, wherever an earlier start was cut short; only a tool whose own
\* rows were being written then, or whose versions this start could not read to
\* the end, is without some of its versions.
ToolsResolve ==
    phase = "up" =>
        \A t \in Tools \ (cut \cup short) : \A v \in VersionsOf(t) :
            \E r \in Resolve(t, {v}) : r.version = v

\* No look-up answers HIT without content of the checksum that was asked for,
\* be the blob missing, replaced by another checksum's, or rotten.
NoFalseHit ==
    answer # Absent /\ answer.status = "HIT" /\ HasBytes(answer.a) =>
        blobs[answer.a] = answer.a.sum

\* What was put is found again, also after failing operations and restarts,
\* until its id is put with another checksum, registered anew or invalidated.
PutIsFound ==
    phase = "up" => \A a \in held : Found(a)

\* What was invalidated, its blob deleted, is not found again until it is put.
InvalidStays ==
    phase = "up" => \A a \in dropped : HasBytes(a) => ~Found(a)
=============================================================================
