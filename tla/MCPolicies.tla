----------------------------- MODULE MCPolicies -----------------------------
(* Values of the constants of Policies for TLC. *)
EXTENDS Policies, TLC

CONSTANTS reminder, insight, focus, normalMode

\* Somebody nothing stops.
Base == [consent |-> TRUE, proactiveEnabled |-> "on", mode |-> normalMode,
         snoozedUntil |-> Null, mutedTypes |-> {}, intensity |-> "high",
         quietMinutes |-> {}, timezone |-> 0, createdAt |-> Null,
         consents |-> {"ad"}, lastInboundAt |-> 0]

\* Several settings at a time, each able to stop some message.
MCUsers ==
  {Base,
   [Base EXCEPT !.consent = FALSE, !.intensity = "low", !.quietMinutes = {1}, !.consents = {}],
   [Base EXCEPT !.proactiveEnabled = "off", !.snoozedUntil = 2, !.timezone = 1, !.createdAt = 0],
   [Base EXCEPT !.mode = focus, !.mutedTypes = {reminder}, !.intensity = "normal",
                !.timezone = Null, !.lastInboundAt = Null]}

JustBase == {Base}

MCCandidates == {[type |-> reminder, pAccept |-> Null, pNeed |-> Null],
                 [type |-> insight, pAccept |-> 1, pNeed |-> 2]}

MCFloors == [low |-> "high", normal |-> "normal", high |-> "low"]

\* Every check with the budget, the budget alone, the default order, and one
\* in between.
MCPolicies0 ==
  {{c, "dailyBudget"} : c \in DefaultOrder \cup Optional}
  \cup {DefaultOrder, {"dismissalCooldown"}, {"intensity", "quietHours", "dailyBudget"}}

CooldownAlone == {{"dismissalCooldown"}}

\* A policy is compared with itself for its dismissals: the cooldown alone, without
\* messages.
OnlyDismissals == policy["looser"] = policy["stricter"]

MCInit == Init /\ (OnlyDismissals => {policy["stricter"]} = CooldownAlone)

\* What is or is being told of the other type: once is enough.
Others == {d \in dismissed : d.type = insight} \cup {r \in Recorders : recorder[r].type = insight}

\* There two callers of record() make MaxCalls calls.  Before messages, two calls, one
\* after the other, for the cooldown with the budget.
MayRecord(type) ==
  \/ OnlyDismissals /\ (type = insight => Others = {})
  \/ /\ policy["stricter"] = {"dismissalCooldown", "dailyBudget"} /\ ~OnlyDismissals
     /\ calls < 2 /\ \A r \in Recorders : recorder[r] = Idle

MCNext ==
  \/ Tick
  \/ /\ ~OnlyDismissals
     /\ \E user \in Users, candidate \in Candidates, priority \in Priorities, killed \in BOOLEAN :
          Message(user, candidate, priority, killed)
  \/ \E r \in Recorders, type \in Types, at \in {t \in Instants : now - MaxLate <= t /\ t <= now} :
       MayRecord(type) /\ RecordRead(r, type, at)
  \/ \E r \in Recorders : RecordWrite(r)
  \/ \E r \in Recorders : RecordThrows(r)

MCSpec == MCInit /\ [][MCNext]_vars

\* Callers of record() are interchangeable.
Symmetry == Permutations(Recorders)
=============================================================================
