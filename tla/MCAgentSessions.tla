-------------------------- MODULE MCAgentSessions --------------------------
EXTENDS AgentSessions

\* Overlapping requests on a sound database, single requests on a failing one.
MCModes == {[overlap |-> TRUE, faults |-> FALSE],
            [overlap |-> FALSE, faults |-> TRUE]}

\* terminal.execute allowed, allowed with approval, in no list.
MCPolicies == {{"allowed"}, {"allowed", "approval"}, {}}
=============================================================================
