----------------------------- MODULE MCSimulate -----------------------------
(* Values of Simulate's constants for TLC. *)
EXTENDS SimulateReport

Budget(limit, shadow, rereads) == [limit |-> limit, shadow |-> shadow, rereads |-> rereads]
MCPolicies == {Budget(1, FALSE, TRUE), Budget(1, TRUE, TRUE), Budget(2, FALSE, TRUE), Budget(1, FALSE, FALSE)}

\* In two zones, with and without quiet hours, and one who has withdrawn.
Awake(offset, quiet) == [consents |-> TRUE, offset |-> offset, quiet |-> quiet]
MCStates == {Awake(0, {1}), Awake(1, {}), [Awake(1, {}) EXCEPT !.consents = FALSE]}

\* At this instant and after it.
MCDelays == {0, 1, 2}

\* The stream begins at zero, and the state is updated later on.
UpdatedLater == entry[1].at = 0 /\ \A n \in Entries \ Events : entry[n].at > 0
=============================================================================
