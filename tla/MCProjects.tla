----------------------------- MODULE MCProjects -----------------------------
EXTENDS Projects

\* Overlapping requests on a sound database, single requests on a failing one.
MCModes == {[overlap |-> TRUE, faults |-> FALSE],
            [overlap |-> FALSE, faults |-> TRUE]}
=============================================================================
