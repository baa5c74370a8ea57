---------------------------- MODULE MCGateCommit ----------------------------
(* Values of GateCommit's constants for TLC. *)
EXTENDS GateCommit, TLC

CONSTANTS e1, e2,              \* candidates
          kDup1, kDup2,        \* dedupe keys of the two events
          kDay, kWeek          \* budget keys

\* The keys of one check for the two candidates.
For(a, b) == [e \in Candidates |-> IF e = e1 THEN a ELSE b]

\* dedupe, then the daily budget: two events of one user on one day.
DedupeThenDaily ==
  <<For(kDup1, kDup2), For(kDay, kDay)>>

\* The weekly budget, then the daily one (defaultChecks' order); e2 is of a
\* priority that bypasses the daily budget.
WeeklyThenDaily ==
  <<For(kWeek, kWeek), For(kDay, NoKey)>>

DailyOnly == <<For(kDay, kDay)>>

How(onStoreError, callers) == [onStoreError |-> onStoreError, callers |-> callers]
Patient == {How("closed", "patient")}
Hasty == {How("closed", "hasty")}
AllModes == Patient \cup Hasty \cup {How("open", "hasty")}

OneOne == <<1, 1>>
TwoOne == <<2, 1>>
One    == <<1>>

\* Bound: a run has a store call that throws or a marker that runs out, not both.
OneMishap == errors + Cardinality(expired) <= 1

Actors == Permutations(Decisions) \cup Permutations(Calls) \cup Permutations(Gates)
=============================================================================
