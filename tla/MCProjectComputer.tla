------------------------- MODULE MCProjectComputer -------------------------
EXTENDS ProjectComputer, TLC

\* A capability the manager probes. (One it reports blocked gives DEGRADED, which
\* like FAILED promises nothing.)
MCCheckLists == {<<"git">>}

\* Overlapping requests on a sound server, single requests on a failing one.
MCModes == {[overlap |-> TRUE, faults |-> FALSE],
            [overlap |-> FALSE, faults |-> TRUE]}

\* Ids, projects and workers are interchangeable.
MCSymmetry == Permutations(Computers) \cup Permutations(Owners)
              \cup Permutations(Workers)
=============================================================================
