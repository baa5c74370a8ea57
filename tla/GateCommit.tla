------------------------------ MODULE GateCommit ------------------------------
(***************************************************************************)
(* The two-phase protocol of a gate over a shared store: evaluate() reads  *)
(* the counters of the consuming checks, commit() spends them.             *)
(*                                                                         *)
(* Several gate instances (one createGate() each, in one or several        *)
(* processes) share the store.  An evaluation and a commit call are        *)
(* asynchronous functions, so a step of the model is what the code does    *)
(* between two awaits of the store.  Of the policy only the consuming      *)
(* checks (budgets, dedupe, rateLimit, windowBudget) are kept: the others  *)
(* touch no store key commit() touches, and an evaluation they stop is one *)
(* that was never begun here.  A dedupe check is a consuming check of      *)
(* limit 1; NoKey is the key of a check the candidate bypasses (priority   *)
(* bypass, no dedupeKey, or not the minor the check is for).  Two checks   *)
(* may count under one key: two daily budgets do, and so do the rate       *)
(* limits of two chat presets.                                             *)
(*                                                                         *)
(* A counter's key names its period and lives longer than it (ttlSeconds), *)
(* so counters do not run out here; a commit marker does, after            *)
(* COMMIT_TTL, while the counters of a week or a month live on.            *)
(***************************************************************************)
EXTENDS Integers, FiniteSets

CONSTANTS
  Gates,            \* gate instances; a restarted process is another instance
  Candidates,       \* a user, a candidate and the local day of `now`
  Instants,         \* the milliseconds `now` can be within that day
  Decisions,        \* evaluations, each giving one decision
  Calls,            \* calls of commit(); a retry is another call
  Keys, NoKey, None,
  NumChecks,        \* number of consuming checks, numbered in policy order
  KeyOf,            \* the store key of a check for a candidate
  Limit,            \* the limit of each consuming check
  Shadow,           \* the consuming checks in shadow mode
  Modes,            \* the ways gates fail and callers call, see Mode
  SharedInstants,   \* may two gates evaluate one candidate at one instant?
  Mortal,           \* the gate instances that may crash
  MaxSequence,      \* bound: evaluations finished by one gate instance
  MaxErrors,        \* bound: store calls that throw
  MaxExpired        \* bound: decisions whose marker runs out

Checks == 1..NumChecks

\* onStoreError of the gates; and whether callers may start commit() again before
\* it answered, or wait for its answer, or for the process to have died.
Mode == [onStoreError : {"open", "closed"}, callers : {"patient", "hasty"}]

ASSUME NumChecksAssumption == NumChecks \in Nat
ASSUME SequenceAssumption == MaxSequence \in Nat
ASSUME KeyAssumption ==
  /\ NoKey \notin Keys
  /\ KeyOf \in [Checks -> [Candidates -> Keys \cup {NoKey}]]
ASSUME LimitAssumption == Limit \in [Checks -> Nat]
ASSUME ModeAssumption == Modes \subseteq Mode /\ SharedInstants \in BOOLEAN
ASSUME BoundAssumption == MaxErrors \in Nat /\ MaxExpired \in Nat
ASSUME ScopeAssumption == /\ Mortal \subseteq Gates
                          /\ Shadow \subseteq Checks
ASSUME NoneAssumption == /\ None \notin Decisions
                         /\ None \notin Gates
                         /\ None \notin Candidates
                         /\ None \notin Instants
ASSUME FiniteAssumption == IsFiniteSet(Decisions)

VARIABLES
  mode,       \* the mode, the same throughout
  alive,      \* the gate instances whose process still runs
  sequence,   \* createGate's closure variable, per gate instance
  counter,    \* the store: counter keys
  marker,     \* the store: commit:<decision id> keys
  expired,    \* the decision ids whose marker ran out once
  eval,       \* per evaluation: progress, inputs and the decision's number
  call,       \* per commit call: progress and the counter values it got
  delivered,  \* the decisions some commit call answered true
  errors      \* store calls that threw so far

storeVars == <<counter, marker>>
vars == <<mode, expired, alive, sequence, counter, marker, eval, call, delivered, errors>>

Ids == Candidates \X Instants \X (1..MaxSequence)

\* The decision id: user, candidate and instant, then the gate's own sequence.
Id(d) == <<eval[d].candidate, eval[d].at, eval[d].number>>

\* The store key check i uses for the candidate of decision d.
Key(i, d) == KeyOf[i][eval[d].candidate]

Evaluated(d) == eval[d].pc \in {"allowed", "refused"}
Begun(d)     == eval[d].pc # "unused"
InFlight(c)  == call[c].pc \in {"get", "consume", "set"}

EvalState ==
  [pc        : {"unused", "running", "allowed", "refused", "lost"},
   gate      : Gates \cup {None},
   candidate : Candidates \cup {None},
   at        : Instants \cup {None},
   pos       : 1..(NumChecks + 1),
   number    : 0..MaxSequence]

CallState ==
  [pc     : {"idle", "get", "consume", "set", "returned", "lost"},
   of     : Decisions \cup {None},
   gate   : Gates \cup {None},
   pos    : 1..(NumChecks + 1),
   result : {"0", "1"},
   ticket : [Checks -> Nat]]

Init ==
  /\ mode \in Modes
  /\ alive = Gates
  /\ sequence = [g \in Gates |-> 0]
  /\ counter = [k \in Keys |-> 0]
  /\ marker = [id \in Ids |-> "none"]
  /\ expired = {}
  /\ eval = [d \in Decisions |->
               [pc |-> "unused", gate |-> None, candidate |-> None,
                at |-> None, pos |-> 1, number |-> 0]]
  /\ call = [c \in Calls |->
               [pc |-> "idle", of |-> None, gate |-> None, pos |-> 1,
                result |-> "0", ticket |-> [i \in Checks |-> 0]]]
  /\ delivered = {}
  /\ errors = 0

-----------------------------------------------------------------------------
(* evaluate() *)

\* evaluate(input): a caller hands a candidate and an instant to a gate.
Begin(d, g, e, t) ==
  /\ eval[d].pc = "unused"
  /\ g \in alive
  /\ \/ SharedInstants
     \/ \A x \in Decisions :
          eval[x].candidate = e /\ eval[x].at = t => eval[x].gate = g
  /\ eval' = [eval EXCEPT ![d] = [@ EXCEPT !.pc = "running", !.gate = g,
                                           !.candidate = e, !.at = t]]
  /\ UNCHANGED <<mode, expired, alive, sequence, counter, marker, call, delivered, errors>>

\* finish(): the decision gets the gate's next sequence number.
Finish(d, verdict) ==
  LET g == eval[d].gate IN
  /\ sequence[g] < MaxSequence
  /\ sequence' = [sequence EXCEPT ![g] = @ + 1]
  /\ eval' = [eval EXCEPT ![d] = [@ EXCEPT !.pc = verdict,
                                           !.number = sequence[g] + 1]]

NextCheck(d) ==
  /\ eval' = [eval EXCEPT ![d].pos = @ + 1]
  /\ UNCHANGED sequence

\* One consuming check of the loop: its run() reads the counter.  A check in
\* shadow mode is recorded and the loop goes on.
RunCheck(d) ==
  LET i == eval[d].pos IN
  /\ eval[d].pc = "running"
  /\ i \in Checks
  /\ LET exhausted == Key(i, d) # NoKey /\ counter[Key(i, d)] >= Limit[i]
     IN  IF exhausted /\ i \notin Shadow
         THEN Finish(d, "refused")
         ELSE NextCheck(d)
  /\ UNCHANGED <<mode, expired, alive, counter, marker, call, delivered, errors>>

\* The check's read throws: the gate skips the check or rejects.
RunCheckThrows(d) ==
  LET i == eval[d].pos IN
  /\ eval[d].pc = "running"
  /\ i \in Checks
  /\ Key(i, d) # NoKey
  /\ errors < MaxErrors
  /\ errors' = errors + 1
  /\ IF mode.onStoreError = "closed"
     THEN Finish(d, "refused")
     ELSE NextCheck(d)
  /\ UNCHANGED <<mode, expired, alive, counter, marker, call, delivered>>

\* The loop ends: every check let the candidate through.
Allow(d) ==
  /\ eval[d].pc = "running"
  /\ eval[d].pos = NumChecks + 1
  /\ Finish(d, "allowed")
  /\ UNCHANGED <<mode, expired, alive, counter, marker, call, delivered, errors>>

-----------------------------------------------------------------------------
(* commit() *)

\* commit() answers true ("1") or false ("0"); the caller delivers on true.
Answer(c, d, result) ==
  /\ delivered' = IF result = "1" THEN delivered \cup {d} ELSE delivered
  /\ call' = [call EXCEPT ![c] = [@ EXCEPT !.pc = "returned", !.result = result]]

\* commit(decision, input), up to its first await: a decision that is not
\* allowed, and a policy without consuming checks, answer at once.
StartCommit(c, d, g) ==
  /\ call[c].pc = "idle"
  /\ Evaluated(d)
  /\ g \in alive
  /\ mode.callers = "hasty" \/ \A x \in Calls : call[x].of = d => ~InFlight(x)
  /\ LET answersAtOnce == eval[d].pc = "refused" \/ NumChecks = 0
     IN  /\ call' = [call EXCEPT ![c] =
                       [@ EXCEPT !.pc = IF answersAtOnce THEN "returned" ELSE "get",
                                 !.of = d, !.gate = g,
                                 !.result = IF answersAtOnce /\ eval[d].pc = "allowed"
                                            THEN "1" ELSE "0"]]
         /\ delivered' = IF answersAtOnce /\ eval[d].pc = "allowed"
                         THEN delivered \cup {d} ELSE delivered
  /\ UNCHANGED <<mode, expired, alive, sequence, counter, marker, eval, errors>>

\* Mutant: a missing marker is taken for an answer.
GetMarkerUnchecked(c) ==
  /\ call[c].pc = "get"
  /\ Answer(c, call[c].of, marker[Id(call[c].of)])
  /\ UNCHANGED <<mode, expired, alive, sequence, counter, marker, eval, errors>>

\* Mutant: any marker is taken for a granted one.
GetMarkerAsGrant(c) ==
  LET d == call[c].of IN
  /\ call[c].pc = "get"
  /\ IF marker[Id(d)] = "none"
     THEN /\ call' = [call EXCEPT ![c].pc = "consume"]
          /\ UNCHANGED delivered
     ELSE Answer(c, d, "1")
  /\ UNCHANGED <<mode, expired, alive, sequence, counter, marker, eval, errors>>

\* Mutant: the marker is never consulted.
GetMarkerNever(c) ==
  /\ call[c].pc = "get"
  /\ call' = [call EXCEPT ![c].pc = "consume"]
  /\ UNCHANGED <<mode, expired, alive, sequence, counter, marker, eval, delivered, errors>>

\* store.get(commit:<id>): a marker already there is the answer.
GetMarker(c) ==
  LET d == call[c].of IN
  /\ call[c].pc = "get"
  /\ IF marker[Id(d)] = "none"
     THEN /\ call' = [call EXCEPT ![c].pc = "consume"]
          /\ UNCHANGED delivered
     ELSE Answer(c, d, marker[Id(d)])
  /\ UNCHANGED <<mode, expired, alive, sequence, counter, marker, eval, errors>>

\* Mutants: the limit off by one, either way.
WithinTight(i, used) == used < Limit[i]
WithinLoose(i, used) == used <= Limit[i] + 1

\* What consume() answers for the value its increment returned.
Within(i, used) == used <= Limit[i]

\* Mutant: every consumer spends, also after one refused.
LoopEndsLate(i, used) == i = NumChecks

\* The consume loop ends with the last consumer or at the first that refuses.
LoopEnds(i, used) == i = NumChecks \/ ~Within(i, used)

\* One consumer's consume(): an atomic increment, and the loop goes on only
\* while the returned value is within the limit.
Consume(c) ==
  LET d == call[c].of
      i == call[c].pos
      k == Key(i, d)
      used == counter[k] + 1
      last == i = NumChecks
  IN
  /\ call[c].pc = "consume"
  /\ \/ /\ k = NoKey
        /\ call' = [call EXCEPT ![c] =
                      [@ EXCEPT !.pos = i + 1,
                                !.result = IF last THEN "1" ELSE "0",
                                !.pc = IF last THEN "set" ELSE "consume"]]
        /\ UNCHANGED counter
     \/ /\ k # NoKey
        /\ counter' = [counter EXCEPT ![k] = used]
        /\ call' = [call EXCEPT ![c] =
                      [@ EXCEPT !.pos = i + 1,
                                !.ticket[i] = used,
                                !.result = IF last /\ Within(i, used) THEN "1" ELSE "0",
                                !.pc = IF LoopEnds(i, used) THEN "set" ELSE "consume"]]
  /\ UNCHANGED <<mode, expired, alive, sequence, marker, eval, delivered, errors>>

\* Mutant: only a granted result is recorded.
SetMarkerIfGranted(c) ==
  LET d == call[c].of IN
  /\ call[c].pc = "set"
  /\ marker' = IF call[c].result = "1" THEN [marker EXCEPT ![Id(d)] = "1"] ELSE marker
  /\ Answer(c, d, call[c].result)
  /\ UNCHANGED <<mode, expired, alive, sequence, counter, eval, errors>>

\* store.set(commit:<id>, ok ? "1" : "0"), then the answer.
SetMarker(c) ==
  LET d == call[c].of IN
  /\ call[c].pc = "set"
  /\ marker' = [marker EXCEPT ![Id(d)] = call[c].result]
  /\ Answer(c, d, call[c].result)
  /\ UNCHANGED <<mode, expired, alive, sequence, counter, eval, errors>>

\* Mutant: onStoreError is not consulted.
AnswerOnErrorOpen == "1"

\* What commit() answers when the store threw.
AnswerOnError == IF mode.onStoreError = "open" THEN "1" ELSE "0"

\* A store call of commit() throws, before or after it took effect; the catch
\* answers what onStoreError says and writes nothing.
CommitThrows(c) ==
  LET d == call[c].of
      k == Key(call[c].pos, d)
  IN
  /\ errors < MaxErrors
  /\ errors' = errors + 1
  /\ \/ /\ call[c].pc = "get"
        /\ UNCHANGED storeVars
     \/ /\ call[c].pc = "consume"
        /\ k # NoKey
        /\ counter' \in {counter, [counter EXCEPT ![k] = @ + 1]}
        /\ UNCHANGED marker
     \/ /\ call[c].pc = "set"
        /\ marker' \in {marker, [marker EXCEPT ![Id(d)] = call[c].result]}
        /\ UNCHANGED counter
  /\ Answer(c, d, AnswerOnError)
  /\ UNCHANGED <<mode, expired, alive, sequence, eval>>

-----------------------------------------------------------------------------
\* The process of a gate instance dies: what it had in flight is lost, what it
\* wrote to the store stays.
Crash(g) ==
  /\ g \in alive \cap Mortal
  /\ alive' = alive \ {g}
  /\ eval' = [d \in Decisions |->
                IF eval[d].gate = g /\ eval[d].pc = "running"
                THEN [eval[d] EXCEPT !.pc = "lost"] ELSE eval[d]]
  /\ call' = [c \in Calls |->
                IF call[c].gate = g /\ InFlight(c)
                THEN [call[c] EXCEPT !.pc = "lost"] ELSE call[c]]
  /\ UNCHANGED <<mode, expired, sequence, counter, marker, delivered, errors>>

\* COMMIT_TTL: the store drops a marker two days after it was written.
Expire(id) ==
  /\ marker[id] # "none"
  /\ Cardinality(expired \cup {id}) <= MaxExpired
  /\ marker' = [marker EXCEPT ![id] = "none"]
  /\ expired' = expired \cup {id}
  /\ UNCHANGED <<mode, alive, sequence, counter, eval, call, delivered, errors>>

CallStep(c) == GetMarker(c) \/ Consume(c) \/ SetMarker(c) \/ CommitThrows(c)

Next ==
  \/ \E d \in Decisions, g \in Gates, e \in Candidates, t \in Instants : Begin(d, g, e, t)
  \/ \E d \in Decisions : RunCheck(d)
  \/ \E d \in Decisions : RunCheckThrows(d)
  \/ \E d \in Decisions : Allow(d)
  \/ \E c \in Calls, d \in Decisions, g \in Gates : StartCommit(c, d, g)
  \/ \E c \in Calls : GetMarker(c)
  \/ \E c \in Calls : Consume(c)
  \/ \E c \in Calls : SetMarker(c)
  \/ \E c \in Calls : CommitThrows(c)
  \/ \E g \in Gates : Crash(g)
  \/ \E id \in Ids : Expire(id)

Spec == Init /\ [][Next]_vars

-----------------------------------------------------------------------------
(* Properties *)

\* The types of the gate's variables and of the store's keys.
TypeOK ==
  /\ mode \in Modes
  /\ alive \subseteq Gates
  /\ sequence \in [Gates -> 0..MaxSequence]
  /\ counter \in [Keys -> Nat]
  /\ marker \in [Ids -> {"none", "0", "1"}]
  /\ expired \subseteq Ids
  /\ eval \in [Decisions -> EvalState]
  /\ call \in [Calls -> CallState]
  /\ delivered \subseteq Decisions
  /\ errors \in 0..MaxErrors

\* The delivered decisions that hold key k of check i.
Holders(i, k) == {d \in delivered : Key(i, d) = k}

\* However evaluations and commits interleave, whichever calls overlap, crash
\* or lose a store reply, no more messages go out under a budget's key than its
\* limit.  A gate that fails open lets out at most one more per store call that
\* threw: the catch of commit() answers true without a unit.
Overshoot == IF mode.onStoreError = "open" THEN errors ELSE 0
GrantsBounded ==
  \A i \in Checks, k \in Keys : Cardinality(Holders(i, k)) <= Limit[i] + Overshoot

\* commit() is idempotent on the decision id while its marker lives: of all the
\* calls for one decision that no crash cut short, at most one increments any
\* given counter.
OneSpendPerDecision ==
  \A c1, c2 \in Calls : \A i \in Checks :
    /\ c1 # c2
    /\ call[c1].of = call[c2].of
    /\ call[c1].pc # "lost" /\ call[c2].pc # "lost"
    /\ call[c1].ticket[i] > 0
    /\ Id(call[c1].of) \notin expired
    => call[c2].ticket[i] = 0

\* Do callers wait, and did no store call throw?
Orderly == mode.callers = "patient" /\ errors = 0

\* It is, for callers who wait for the answer before they retry: through a
\* crash, at another gate, however often within the two days a marker lives, the
\* decision spends once, and every call of commit() that answers gives the first
\* result.
OneSpendForPatient ==
  Orderly =>
    /\ OneSpendPerDecision
    /\ \A c1, c2 \in Calls :
         /\ call[c1].of = call[c2].of
         /\ call[c1].pc = "returned"
         /\ call[c2].pc = "returned"
         /\ Id(call[c1].of) \notin expired
         => call[c1].result = call[c2].result

\* A commit marker, once written, keeps its value until it runs out: a retry never
\* turns the recorded first result into another one, also when store calls throw.
FirstResultStays ==
  [][mode.callers = "patient" =>
       \A id \in Ids : marker[id] # "none" =>
         \/ marker'[id] = marker[id]
         \/ marker'[id] = "none" /\ id \in expired']_vars

\* While no store call throws, commit() refuses an allowed decision only when a
\* check that is not in shadow mode has its counter above the limit.
RefusedForCause ==
  \A c \in Calls :
    /\ errors = 0
    /\ call[c].pc = "returned"
    /\ call[c].result = "0"
    /\ eval[call[c].of].pc = "allowed"
    => \E i \in Checks \ Shadow :
         LET k == Key(i, call[c].of) IN k # NoKey /\ counter[k] > Limit[i]

\* The checks that count under key k, for some candidate, and check i's keys for
\* the candidates they count so.
Counting(k) == {j \in Checks : \E e \in Candidates : KeyOf[j][e] = k}
Earlier(i, k) ==
  {KeyOf[i][e] : e \in {x \in Candidates : \E j \in Checks : KeyOf[j][x] = k}}

\* A suppressed duplicate does not cost a message: all the units later checks ever
\* spend under a key were let through by an earlier one that every candidate of
\* theirs has a key of, so each of those checks spends at most the earlier one's
\* limit for each of its keys (dedupe before a budget: one unit per event, two when
\* two budgets share the key, whatever fails or is retried).
DuplicatesSpendNothing ==
  \A i \in Checks, k \in Keys :
    /\ Counting(k) # {} /\ \A j \in Counting(k) : i < j
    /\ NoKey \notin Earlier(i, k)
    => counter[k] <= Limit[i] * Cardinality(Earlier(i, k)) * Cardinality(Counting(k))

\* A gate that fails closed implements the abstract ledger: a message goes out
\* by a Grant step that had room under every limit, everything else is a stutter.
Subject == [d \in Decisions |-> eval[d].candidate]
Ledger == INSTANCE BudgetLedger WITH subject <- Subject, granted <- delivered
ImplementsLedger ==
  Ledger!Init /\ [][mode.onStoreError = "closed" => Ledger!Next]_<<Subject, delivered>>
=============================================================================
