------------------------------- MODULE Simulate -------------------------------
(***************************************************************************)
(* runOne(): the simulator replays a stream of candidates through one      *)
(* policy, with the deferrals and postponed deliveries the policy asks for. *)
(*                                                                         *)
(* One iteration of the queue loop is one action: it takes the next event  *)
(* or the next due piece of pending work, and nothing else touches the     *)
(* run's own store and gate.  The policy is consent, a check that may      *)
(* defer, a daily budget, and a check that may postpone; the instants they *)
(* name are open, since such checks may be the caller's own code.  Without *)
(* a check that only reads, only the budget and the postponing remain.     *)
(* The transport fails or not, as its generator says: every run draws from *)
(* one seeded alike, one number for each message it sends.                 *)
(*                                                                         *)
(* Entries are the stream in time order, then the state updates.  An event *)
(* is a snapshot of its user too, so every candidate's user has one by the *)
(* time it runs, and the branches for a user without one are dead.  A key  *)
(* of the store outlives the local day it names.                           *)
(***************************************************************************)
EXTENDS Integers, Sequences, SequencesExt, FiniteSets

CONSTANTS
  NumEvents, NumUpdates,
  Users,
  Offsets,       \* zones, by their offset from UTC
  States,        \* the states a snapshot may hold, see State
  Instants,      \* the instants of entries
  DayLength,
  Night,         \* the local hours counted as night
  Policies,      \* the policies, see Policy
  Expiry,        \* expirySeconds
  MaxAttempts,   \* maxAttempts
  Delays,        \* how far ahead a check defers or postpones
  None

Events == 1..NumEvents
Entries == 1..(NumEvents + NumUpdates)

ASSUME EntryAssumption == NumEvents \in Nat \ {0} /\ NumUpdates \in Nat
ASSUME InstantAssumption == Instants \subseteq Nat /\ Offsets \subseteq Int
ASSUME DayAssumption == DayLength \in Nat \ {0}
ASSUME BoundAssumption == Expiry \in Nat /\ MaxAttempts \in Nat \ {0}
ASSUME DelayAssumption == Delays \subseteq Int /\ None \notin Int

\* The daily budget's limit; is it in shadow mode; is there a check that only reads?
Policy == [limit : Nat, shadow : BOOLEAN, rereads : BOOLEAN]
ASSUME PolicyAssumption == Policies \subseteq Policy

Hours == 0..(DayLength - 1)

\* What is read of a user: his quiet window as the local hours inside it.
State == [consents : BOOLEAN, offset : Offsets, quiet : SUBSET Hours]
ASSUME StateAssumption == States \subseteq State /\ Night \subseteq Hours

VARIABLES
  entry,     \* the stream and the updates: a user, his state, and when
  options,   \* the policy of this run
  draws,     \* what the transport's generator answers, in order
  index,     \* the next event
  pending,   \* the work the scheduler holds, in the order it came
  now,       \* the clock of gate and store
  seen,      \* the instant the snapshots have been advanced to
  counter,   \* the store: units spent per user and local day
  report,    \* the run's budget rows
  records,   \* per event: what was recorded of its candidate, in order
  charges    \* history: the units taken, each for a candidate

vars == <<entry, options, draws, index, pending, now, seen, counter, report, records, charges>>

\* Was n recorded after m, or at the same instant and sorted behind it?
After(n, m) == entry[n].at > entry[m].at \/ (entry[n].at = entry[m].at /\ n >= m)

\* The newest state of a user at or before an instant.
Newest(user, t) ==
  LET past == {n \in Entries : entry[n].user = user /\ entry[n].at <= t}
  IN  entry[CHOOSE n \in past : \A m \in past : After(n, m)].state

DayOf(t, state) == (t + state.offset) \div DayLength
HourOf(t, state) == (t + state.offset) % DayLength
Days == {DayOf(t + late, [offset |-> o]) : t \in Instants, late \in 0..Expiry, o \in Offsets}

Transport == {"sent", "spentNotDelivered"}

Init ==
  /\ entry \in [Entries -> [user : Users, at : Instants, state : States]]
  /\ \A m, n \in Events : m <= n => entry[m].at <= entry[n].at
  /\ options \in Policies
  /\ draws \in [Events -> Transport]
  /\ index = 1
  /\ pending = <<>>
  /\ now = entry[1].at
  /\ seen = 0
  /\ counter = [k \in Users \X Days |-> 0]
  /\ report = [k \in Users \X Days |-> 0]
  /\ records = [n \in Events |-> <<>>]
  /\ charges = <<>>

-----------------------------------------------------------------------------
(* The queue *)

\* Mutant: the work queued first.
FirstQueued == 1

\* The piece of pending work that is due first; of several, the first queued.
First == CHOOSE i \in DOMAIN pending : \A j \in DOMAIN pending :
           pending[i].due < pending[j].due \/ (pending[i].due = pending[j].due /\ i <= j)

TakesPending == pending # <<>> /\ (index \in Events => pending[First].due <= entry[index].at)

Done == index \notin Events /\ pending = <<>>

\* What this iteration works on: an event is evaluated like a retry, the first.
Work ==
  IF TakesPending THEN pending[First]
  ELSE [kind |-> "retry", event |-> index, due |-> entry[index].at, attempt |-> 1,
        firstSeen |-> entry[index].at]

User(w) == entry[w.event].user

\* Mutant: the candidate keeps the state it came with.
SnapshotRemembered(w) == entry[w.event].state

\* snapshotAt(): the pointer over the snapshots only moves forward.
Snapshot(w) == Newest(User(w), IF w.due > seen THEN w.due ELSE seen)

\* Mutant: all the work due at that instant leaves the queue.
LeftAllDue == SelectSeq(pending, LAMBDA p : p.due # pending[First].due)

Left == RemoveAt(pending, First)

\* Mutant: the facts of the state the candidate came with.
MarkDeliveredRemembered(w) ==
  LET state == entry[w.event].state IN
  [day |-> DayOf(w.due, state), night |-> HourOf(w.due, state) \in Night,
   quiet |-> HourOf(w.due, state) \in state.quiet]

\* markDelivered(): the local day a send was felt on, and whether at night or
\* inside the user's own quiet hours, as they stood then.
MarkDelivered(w) ==
  LET state == Snapshot(w) IN
  [day |-> DayOf(w.due, state), night |-> HourOf(w.due, state) \in Night,
   quiet |-> HourOf(w.due, state) \in state.quiet]

\* The iteration over w, with this work queued and this recorded; a record is
\* timed when it names a deliverAt.
Turn(w, queued, outcome, by, timed) ==
  /\ index' = IF TakesPending THEN index ELSE index + 1
  /\ pending' = (IF TakesPending THEN Left ELSE pending) \o queued
  /\ now' = w.due
  /\ seen' = IF w.due > seen THEN w.due ELSE seen
  /\ records' = [records EXCEPT ![w.event] =
       Append(@, [at |-> w.due, attempt |-> w.attempt, outcome |-> outcome, by |-> by,
                  timed |-> timed, landed |-> IF outcome = "sent" THEN {MarkDelivered(w)} ELSE {}])]
  /\ UNCHANGED <<entry, options, draws>>

\* send(): the candidates some message was sent for, and how the next one ends.
Sent == {n \in Events : \E i \in DOMAIN records[n] : records[n][i].outcome \in Transport}
Draw == draws[Cardinality(Sent) + 1]

-----------------------------------------------------------------------------
(* evaluate(): one look at a candidate *)

\* The key of the daily budget, by the local day of this look.
Key(w) == <<User(w), DayOf(w.due, Snapshot(w))>>

Consents(w) == options.rereads => Snapshot(w).consents

\* What the budget's run() says.
Exhausted(w) == counter[Key(w)] >= options.limit

Hold(w) ==
  /\ \/ ~Consents(w) /\ Turn(w, <<>>, "held", "consent", FALSE)
     \/ Consents(w) /\ Exhausted(w) /\ ~options.shadow /\ Turn(w, <<>>, "held", "budget", FALSE)
  /\ UNCHANGED <<counter, report, charges>>

\* The moments a check may name, or none.
Moments(w) == {w.due + ahead : ahead \in Delays} \cup {None}

\* A deferral must name a later instant.
Broken(w, due) == due = None \/ due <= w.due

Capped(w) == w.attempt >= MaxAttempts

\* Mutant: the window is measured from the latest hop.
TooLateSinceHop(w, due) == due > w.due + Expiry

TooLate(w, due) == due > w.firstSeen + Expiry

GivesUp(w, due) == Broken(w, due) \/ Capped(w) \/ TooLate(w, due)

\* A check before the budget defers to an instant, or to none.
Defer(w, due) ==
  /\ options.rereads /\ Consents(w)
  /\ IF GivesUp(w, due)
     THEN Turn(w, <<>>, "expired", "snooze", FALSE)
     ELSE Turn(w,
               <<[kind |-> "retry", event |-> w.event, due |-> due, attempt |-> w.attempt + 1,
                  firstSeen |-> w.firstSeen]>>,
               "deferred", "snooze", FALSE)
  /\ UNCHANGED <<counter, report, charges>>

Allowed(w) == Consents(w) /\ (options.shadow \/ ~Exhausted(w))

\* Mutant: the commit is off by one.
WithinLoose(used) == used <= options.limit + 1

\* What the budget's consume() answers.
Within(used) == used <= options.limit

\* The increment of commit().
Increment(w) == counter' = [counter EXCEPT ![Key(w)] = @ + 1]

LoseAtCommit(w, deliverAt) ==
  /\ Allowed(w)
  /\ ~Within(counter[Key(w)] + 1)
  /\ Increment(w)
  /\ Turn(w, <<>>, "lostAtCommit", "commit", deliverAt # None)
  /\ UNCHANGED <<report, charges>>

\* Mutant: the row is written once.
SnapshotBudgetOnce(w, used) == IF report[Key(w)] = 0 THEN used ELSE report[Key(w)]

\* snapshotBudget(): the row of this user and day is what the store says.
SnapshotBudget(w, used) == IF used > report[Key(w)] THEN used ELSE report[Key(w)]

\* commit() answers true: the unit is spent, whatever happens next.
Pay(w) ==
  /\ Allowed(w)
  /\ Within(counter[Key(w)] + 1)
  /\ Increment(w)
  /\ report' = [report EXCEPT ![Key(w)] = SnapshotBudget(w, counter[Key(w)] + 1)]
  /\ charges' = Append(charges, [event |-> w.event, key |-> Key(w)])

\* A check asks for a later delivery.
Later(w, deliverAt) == deliverAt # None /\ deliverAt > w.due

Postpone(w, deliverAt) ==
  /\ Later(w, deliverAt)
  /\ Pay(w)
  /\ Turn(w,
          <<[kind |-> "deliver", event |-> w.event, due |-> deliverAt, attempt |-> w.attempt,
             firstSeen |-> w.firstSeen]>>,
          "deferred", "adaptiveTiming", TRUE)

\* No moment is named, or one that is not later: the message is sent now.
Send(w, deliverAt) ==
  /\ ~Later(w, deliverAt)
  /\ Pay(w)
  /\ Turn(w, <<>>, Draw, None, deliverAt # None)

-----------------------------------------------------------------------------
(* deliver(): the second look, at the moment of a postponed delivery *)

\* Mutant: the second look asks the budget too.
StopsDeliveryAll(w, by) ==
  \/ by = "consent" /\ ~Consents(w)
  \/ by = "snooze" /\ options.rereads /\ Consents(w)
  \/ by = "budget" /\ Key(w) \in DOMAIN counter /\ Exhausted(w)

\* Only checks that do not consume are asked; with none, nothing is.
StopsDelivery(w, by) ==
  \/ by = "consent" /\ ~Consents(w)
  \/ by = "snooze" /\ options.rereads /\ Consents(w)

StopDelivery(w, by) ==
  /\ StopsDelivery(w, by)
  /\ Turn(w, <<>>, "stoppedAtDelivery", by, TRUE)
  /\ UNCHANGED <<counter, report, charges>>

Deliver(w) ==
  /\ Consents(w)
  /\ Turn(w, <<>>, Draw, None, TRUE)
  /\ UNCHANGED <<counter, report, charges>>

-----------------------------------------------------------------------------

Works == IF Done THEN {} ELSE {Work}
Looks == {w \in Works : w.kind = "retry"}
Deliveries == {w \in Works : w.kind = "deliver"}

Next ==
  \/ \E w \in Looks : Hold(w)
  \/ \E w \in Looks : \E due \in Moments(w) : Defer(w, due)
  \/ \E w \in Looks : \E deliverAt \in Moments(w) : LoseAtCommit(w, deliverAt)
  \/ \E w \in Looks : \E deliverAt \in Moments(w) : Postpone(w, deliverAt)
  \/ \E w \in Looks : \E deliverAt \in Moments(w) : Send(w, deliverAt)
  \/ \E w \in Deliveries, by \in {"consent", "snooze", "budget"} : StopDelivery(w, by)
  \/ \E w \in Deliveries : Deliver(w)

Spec == Init /\ [][Next]_vars

-----------------------------------------------------------------------------
(* Properties *)

\* Everything recorded of the candidates so far.
Recorded == UNION {{[event |-> n, rec |-> records[n][i]] : i \in DOMAIN records[n]} : n \in Events}

\* The clock of the store, and the pointer over the snapshots, never go back:
\* whatever checks defer or postpone to, the work is done in the order of its
\* instants, events and pending work together.
ForwardOnly == [][now' >= now /\ seen' = now']_vars

\* No candidate is dropped or decided twice: one whose last record is a deferral
\* is in the queue exactly once, and after any other record it never runs again.
NothingForgotten ==
  \A n \in Events :
    LET waits == records[n] # <<>> /\ Last(records[n]).outcome = "deferred"
    IN  /\ Cardinality({i \in DOMAIN pending : pending[i].event = n}) = IF waits THEN 1 ELSE 0
        /\ \A i \in DOMAIN records[n] : i < Len(records[n]) => records[n][i].outcome = "deferred"
        /\ records[n] # <<>> <=> n < index

\* A message is sent only on the consent its user had given by the latest state
\* at that instant, however long ago the candidate was deferred or paid for; and
\* the day, the night and the quiet hours reported of it are of that state too.
SentOnFreshState ==
  \A r \in Recorded :
    LET state == Newest(entry[r.event].user, r.rec.at)
        hour == HourOf(r.rec.at, state)
    IN  /\ r.rec.outcome \in Transport /\ options.rereads => state.consents
        /\ \A facts \in r.rec.landed :
             facts = [day |-> DayOf(r.rec.at, state), night |-> hour \in Night, quiet |-> hour \in state.quiet]

\* A delivery that was paid for is stopped only by what the user's state says at
\* that moment: never by its own unit, nor by another candidate's.
PaidDeliveriesStand ==
  \A r \in Recorded :
    r.rec.outcome = "stoppedAtDelivery" =>
      r.rec.by = "snooze" \/ ~Newest(entry[r.event].user, r.rec.at).consents

\* The budget rows of the run are the candidates that paid under that user and
\* day, each of them once, and never above the limit.
RowsAreWhatWasPaid ==
  \A k \in Users \X Days :
    /\ report[k] = Cardinality({n \in Events : \E i \in DOMAIN charges :
                                  charges[i] = [event |-> n, key |-> k]})
    /\ report[k] <= options.limit

\* A candidate is looked at again only while it is worth sending, counted from
\* its first sighting.
DeferralEnds ==
  \A n \in Events : \A i \in DOMAIN records[n] :
    i > 1 /\ records[n][i].attempt > records[n][i - 1].attempt
      => records[n][i].at <= records[n][1].at + Expiry
=============================================================================
