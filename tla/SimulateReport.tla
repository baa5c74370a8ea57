---------------------------- MODULE SimulateReport ----------------------------
(***************************************************************************)
(* What simulate() reports of a run: the counts over the final outcomes,   *)
(* the timeline beside the run without a gate, and the summary table.      *)
(*                                                                         *)
(* Everything is computed from the records of the finished run.  The       *)
(* baseline sends every candidate as it comes, and may fail to: it draws   *)
(* from a generator seeded like the run's.  The ordering and               *)
(* padding of rows, the samples, the sentences and the count of critical   *)
(* candidates among the sends in quiet hours are left out.                 *)
(***************************************************************************)
EXTENDS Simulate

\* Mutant: the first record of a candidate stands for it.
FinalFirst(n) == Head(records[n])

\* finals: the last record of a candidate.
Final(n) == Last(records[n])

\* baselineRun(): the same candidate without a gate.
Baseline(n) ==
  LET facts == [day |-> DayOf(entry[n].at, entry[n].state),
                night |-> HourOf(entry[n].at, entry[n].state) \in Night,
                quiet |-> HourOf(entry[n].at, entry[n].state) \in entry[n].state.quiet]
  IN  [at |-> entry[n].at, attempt |-> 1, outcome |-> draws[n], by |-> None, timed |-> FALSE,
       landed |-> IF draws[n] = "sent" THEN {facts} ELSE {}]

Columns == {"gate", "baseline"}
Finals(column, n) == IF column = "gate" THEN Final(n) ELSE Baseline(n)

-----------------------------------------------------------------------------
(* countsOf() *)

Outcomes == {"sent", "held", "expired", "lostAtCommit", "spentNotDelivered", "stoppedAtDelivery"}

Ended(column, outcome) == {n \in Events : Finals(column, n).outcome = outcome}

\* Mutant: only the records that wait.
DeferredIdsWaiting == {n \in Events : \E i \in DOMAIN records[n] : records[n][i].outcome = "deferred"}

\* deferredIds: a deferral that could not wait left one record, and it counts.
DeferredIds == {n \in Events : \E i \in DOMAIN records[n] :
                  records[n][i].outcome \in {"deferred", "expired"}}

SentAfterDeferral == {n \in Ended("gate", "sent") : Final(n).attempt > 1}

\* Its last record names a deliverAt, be it later than its look or not.
SentAtALaterMoment == {n \in Ended("gate", "sent") : Final(n).timed}

\* perUserDay: the sends a user felt on one of his own local days.
PerUserDay(column, user, day) ==
  {n \in Ended(column, "sent") :
     entry[n].user = user /\ \E facts \in Finals(column, n).landed : facts.day = day}

\* Mutant: the sends that fail are stopped by the transport.
StoppedByTransport(check) ==
  {n \in Events : Final(n).outcome # "sent" /\ (Final(n).by = check \/ Final(n).by = None)}

\* stopped: the candidates whose last record names this check.
StoppedBy(check) == {n \in Events : Final(n).outcome # "sent" /\ Final(n).by = check}

Checks == {"consent", "snooze", "budget", "adaptiveTiming", "commit"}
ASSUME NoneAssumption == None \notin Checks \cup {"later"}

SentWhen(column, fact(_)) ==
  {n \in Ended(column, "sent") : \E facts \in Finals(column, n).landed : fact(facts)}

SentAtNight(column) == SentWhen(column, LAMBDA facts : facts.night)
SentInQuietHours(column) == SentWhen(column, LAMBDA facts : facts.quiet)

-----------------------------------------------------------------------------
(* The timeline *)

DeliveredAt(column, n) == IF Finals(column, n).outcome = "sent" THEN Finals(column, n).at ELSE None

\* Mutant: a candidate that differs in outcome is counted in the other kinds too.
DifferencesAll(n) ==
  {kind \in {"outcome", "reason", "deliveryTime"} :
     \/ kind = "outcome" /\ Final(n).outcome # Baseline(n).outcome
     \/ kind = "reason" /\ Final(n).by # Baseline(n).by
     \/ kind = "deliveryTime" /\ DeliveredAt("gate", n) # DeliveredAt("baseline", n)}

\* differences: the outcome, or else what separates the policies behind it.
Differences(n) ==
  IF Final(n).outcome # Baseline(n).outcome THEN {"outcome"}
  ELSE {kind \in {"reason", "deliveryTime"} :
          \/ kind = "reason" /\ Final(n).by # Baseline(n).by
          \/ kind = "deliveryTime" /\ DeliveredAt("gate", n) # DeliveredAt("baseline", n)}

DifferenceCount(kind) == Cardinality({n \in Events : kind \in Differences(n)})

Disagreements == {n \in Events : Differences(n) # {}}

\* verdictOf(): the cell of a candidate; one sent at another instant says so.
Verdict(n) ==
  IF Final(n).outcome # "sent" THEN <<Final(n).outcome, Final(n).by>>
  ELSE <<"sent", IF Final(n).at = entry[n].at THEN None ELSE "later">>

-----------------------------------------------------------------------------
(* The summary table *)

Felt == {"sentAfterDeferral", "sentAtALaterMoment", "sentInQuietHours", "sentAtNight"}

\* The candidates each row counts, in one column.
SummaryRow(column, row) ==
  CASE row \in Outcomes -> Ended(column, row)
    [] row = "sentInQuietHours" -> SentInQuietHours(column)
    [] row = "sentAtNight" -> SentAtNight(column)
    [] row = "sentAfterDeferral" -> IF column = "gate" THEN SentAfterDeferral ELSE {}
    [] row = "sentAtALaterMoment" -> IF column = "gate" THEN SentAtALaterMoment ELSE {}

\* Mutant: a row is left out when any column has nothing in it.
SummaryTableAny ==
  {row \in Outcomes \cup Felt : \A column \in Columns : SummaryRow(column, row) # {}}

\* summaryTable(): the rows printed, all but those with nothing in any column.
SummaryTable ==
  {row \in Outcomes \cup Felt : \E column \in Columns : SummaryRow(column, row) # {}}

-----------------------------------------------------------------------------
(* Properties *)

\* Some check has put its delivery off.
Postponed(n) == \E i \in DOMAIN records[n] : records[n][i].by = "adaptiveTiming"

\* The sends that came later than their candidates.
SentLater == {n \in Ended("gate", "sent") : Final(n).attempt > 1 \/ Postponed(n)}

\* The books of a finished run balance: in each column the printed outcomes add
\* up to the stream; every unit in the budget rows is a send, a failed send or a
\* stopped delivery; every candidate that was neither sent nor lost to the
\* transport is under the one check that stopped it; and those looked at twice or
\* given up are those counted as deferred.
BooksBalance ==
  Done =>
    LET shown == SummaryTable IN
    /\ \A column \in Columns : Events = UNION {SummaryRow(column, row) : row \in Outcomes \cap shown}
    /\ Cardinality({unit \in (Users \X Days) \X Events : unit[2] <= report[unit[1]]})
         = Cardinality(UNION {Ended("gate", o) : o \in {"sent", "spentNotDelivered", "stoppedAtDelivery"}})
    /\ Cardinality({stop \in Events \X Checks : stop[1] \in StoppedBy(stop[2])})
         = NumEvents - Cardinality(Ended("gate", "sent")) - Cardinality(Ended("gate", "spentNotDelivered"))
    /\ DeferredIds = {n \in Events : Len(records[n]) > 1 \/ Final(n).outcome = "expired"}

\* The daily budget bounds what a user is charged on a local day, not what he
\* feels: more messages than the limit land on one day only when deliveries were
\* postponed into it, or had been paid for under another day.
BusyDaysWerePostponed ==
  Done =>
    \A user \in Users, day \in Days :
      LET felt == PerUserDay("gate", user, day)
          paidToday == {n \in felt : \E i \in DOMAIN charges :
                          charges[i] = [event |-> n, key |-> <<user, day>>]}
      IN  /\ Cardinality(paidToday) <= options.limit
          /\ \A n \in felt \ paidToday : Postponed(n)

\* Beside the run without a gate a candidate differs in exactly one way or none:
\* in its outcome, when one of the two sent it and the other did not, whichever of
\* them the transport failed; in when it landed, when both sent it and its cell
\* says "later", which is when it was deferred or postponed on the way.  All those
\* sent later are in the rows of deferred and of moved messages; of the others, the
\* rows may count only messages sent at once at a moment some check had named.
TimelineTellsTheRun ==
  Done =>
    LET both == Ended("gate", "sent") \cap Ended("baseline", "sent")
        neither == Ended("gate", "spentNotDelivered") \cap Ended("baseline", "spentNotDelivered")
        rows == SummaryRow("gate", "sentAfterDeferral") \cup SummaryRow("gate", "sentAtALaterMoment")
    IN  /\ DifferenceCount("outcome") = NumEvents - Cardinality(both) - Cardinality(neither)
        /\ DifferenceCount("deliveryTime") = Cardinality(SentLater \cap both)
        /\ Cardinality(Disagreements) = DifferenceCount("outcome") + DifferenceCount("deliveryTime")
        /\ \A n \in both : "deliveryTime" \in Differences(n) <=> Verdict(n) = <<"sent", "later">>
        /\ SentLater \subseteq rows
        /\ \A n \in rows \ SentLater : Final(n).at = entry[n].at
=============================================================================
