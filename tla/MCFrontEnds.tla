------------------------------ MODULE MCFrontEnds ------------------------------
(* Values of FrontEnds' constants for TLC. *)
EXTENDS FrontEnds, TLC

CONSTANTS e1, minor, kDay, kMinor, mcp1, adapter1, replay1, hook1, dry1

\* cnMinorMode's budget of one for a minor, then the daily budget of every user: for
\* a minor both count under the key of that user's day.
MinorThenDaily ==
  <<[e \in Candidates |-> IF e = minor THEN kMinor ELSE NoKey],
    [e \in Candidates |-> IF e = minor THEN kMinor ELSE kDay]>>
OneTwo == <<1, 2>>
Patient == {[onStoreError |-> "closed", callers |-> "patient"]}

KindOf(g) ==
  CASE g = mcp1 -> "mcp" [] g = adapter1 -> "adapter" [] g = replay1 -> "replay"
    [] g = hook1 -> "hook" [] g = dry1 -> "dryAdapter"
AllKinds == [g \in Gates |-> KindOf(g)]
=============================================================================
