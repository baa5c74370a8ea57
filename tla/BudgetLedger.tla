----------------------------- MODULE BudgetLedger -----------------------------
(***************************************************************************)
(* What the gate promises its users, with no store, no calls and no        *)
(* failures: a decision is granted at most once, and only while every      *)
(* limit that applies to its candidate has room.  GateCommit implements it *)
(* with atomic increments and commit markers.                              *)
(***************************************************************************)
EXTENDS Integers, FiniteSets

CONSTANTS Decisions, Candidates, Keys, NoKey, None, NumChecks, KeyOf, Limit

VARIABLES subject,   \* the candidate each decision is about, or None
          granted    \* the decisions whose message goes out

ledger == <<subject, granted>>

\* The granted decisions that occupy key k of check i.
Holders(i, k) == {d \in granted : KeyOf[i][subject[d]] = k}

HasRoom(d) ==
  \A i \in 1..NumChecks :
    LET k == KeyOf[i][subject[d]]
    IN  k # NoKey => Cardinality(Holders(i, k)) < Limit[i]

Init == subject = [d \in Decisions |-> None] /\ granted = {}

Issue(d, e) ==
  /\ subject[d] = None
  /\ subject' = [subject EXCEPT ![d] = e]
  /\ UNCHANGED granted

Grant(d) ==
  /\ subject[d] # None
  /\ d \notin granted
  /\ HasRoom(d)
  /\ granted' = granted \cup {d}
  /\ UNCHANGED subject

Next ==
  \/ \E d \in Decisions, e \in Candidates : Issue(d, e)
  \/ \E d \in Decisions : Grant(d)

Spec == Init /\ [][Next]_ledger
=============================================================================
