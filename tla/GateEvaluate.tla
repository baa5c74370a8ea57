----------------------------- MODULE GateEvaluate -----------------------------
(***************************************************************************)
(* One call of evaluate(): the loop over the checks of a policy, in order, *)
(* up to the decision.                                                     *)
(*                                                                         *)
(* A check is its position in the policy.  What it answers, whether it     *)
(* throws and what its nextAllowedAt() says is open: checks are the user's *)
(* code as well as the library's.  An iteration is one action, since it    *)
(* shares nothing with other evaluations but the store the checks read;    *)
(* the hooks around it are caught and change nothing (callHook).           *)
(***************************************************************************)
EXTENDS Integers, Sequences

CONSTANTS
  NumChecks,      \* the length of the policy
  Lists,          \* lists of surfaces, as sets: their order is the candidate's
  UserSurfaces,   \* the list of the user, or None
  Requested,      \* the list of the candidate
  Instants,       \* the instants checks name
  Now,            \* `now` of the input
  None

Checks == 1..NumChecks

ASSUME NumChecksAssumption == NumChecks \in Nat
ASSUME InstantAssumption == Instants \subseteq Int /\ Now \in Int
ASSUME NoneAssumption == None \notin Lists /\ None \notin Instants /\ None \notin Checks

\* What createGate() was given.
Options == [shadow : SUBSET Checks, nonRejecting : SUBSET Checks,
            onStoreError : {"open", "closed"}]

\* pickSurfaces(): the requested surfaces the user allows.
Wanted == IF UserSurfaces = None THEN Requested ELSE Requested \cap UserSurfaces

ASSUME ListAssumption == Wanted \in Lists

\* What a check may do.  `at` is the deliverAt of an adjust, the retryAt of a
\* defer, or what nextAllowedAt() of a check that rejects says; None stands for
\* absent, for null, and for a nextAllowedAt() that throws.
Outcomes ==
  [kind : {"pass", "nearLimit", "skip", "throws"}, at : {None}, surfaces : {None}]
  \cup [kind : {"reject"}, at : Instants \cup {None}, surfaces : {None}]
  \cup [kind : {"defer"}, at : Instants, surfaces : {None}]
  \cup [kind : {"adjust"}, at : Instants \cup {None}, surfaces : Lists \cup {None}]

TraceEntry == [kind : {"pass", "reject", "adjust", "skip", "defer"}, flag : {"shadow", "none"}]

VARIABLES
  options,    \* the gate's options, the same throughout
  pc,         \* "loop", "returned" or "threw"
  said,       \* history: what the checks that ran so far did
  trace,      \* the trace: per entry a kind and a flag, "shadow" or "none"
  shadowed,   \* the shadow checks that would have stopped the message
  nearLimit,  \* the checks that passed close to their limit
  surfaces,   \* the surfaces still on the table
  deliverAt,  \* when adjusting checks want the message delivered
  decision    \* the decision, or None while the loop runs

vars == <<options, pc, said, trace, shadowed, nearLimit, surfaces, deliverAt, decision>>

Init ==
  /\ options \in Options
  /\ pc = "loop"
  /\ said = <<>>
  /\ trace = <<>>
  /\ shadowed = {}
  /\ nearLimit = {}
  /\ surfaces = Wanted
  /\ deliverAt = None
  /\ decision = None

\* The check the loop is at.
Here == Len(said) + 1

Stops(o) == o.kind \in {"reject", "defer"}

\* The next check does o, and its trace entry is of this kind.
Run(o, kind, flag) ==
  /\ pc = "loop"
  /\ Here \in Checks
  /\ said' = Append(said, o)
  /\ trace' = Append(trace, [kind |-> kind, flag |-> flag])

Continue == UNCHANGED <<pc, decision>>

\* finish(), with what differs between its callers.  onDecision() is not guarded:
\* evaluate() throws when it does.
Finish(verdict, by, retryAt, nextAllowedAt) ==
  /\ pc' \in {"returned", "threw"}
  /\ decision' = [verdict |-> verdict, by |-> by, retryAt |-> retryAt,
                  nextAllowedAt |-> nextAllowedAt,
                  surfaces |-> IF verdict = "allowed" THEN surfaces ELSE None,
                  deliverAt |-> IF verdict = "allowed" THEN deliverAt ELSE None]

\* The catch around run(): fail open or closed, in whatever mode the check is.
FailOpen(o) ==
  /\ o.kind = "throws" /\ options.onStoreError = "open"
  /\ Run(o, "skip", "none")
  /\ Continue
  /\ UNCHANGED <<options, shadowed, nearLimit, surfaces, deliverAt>>

FailClosed(o) ==
  /\ o.kind = "throws" /\ options.onStoreError = "closed"
  /\ Run(o, "reject", "none")
  /\ Finish("rejected", Here, None, None)
  /\ UNCHANGED <<options, shadowed, nearLimit, surfaces, deliverAt>>

\* Mutant: only a reject of a non-rejecting check is ignored.
IgnoredReject(o) == o.kind = "reject" /\ Here \in options.nonRejecting

Ignored(o) == Stops(o) /\ Here \in options.nonRejecting

\* A non-rejecting check tries to stop the evaluation.
Ignore(o) ==
  /\ Ignored(o)
  /\ Run(o, "skip", "none")
  /\ Continue
  /\ UNCHANGED <<options, shadowed, nearLimit, surfaces, deliverAt>>

\* Mutant: the trace does not tell that the check was in shadow mode.
NoteUnmarked(o) ==
  /\ Stops(o) /\ ~Ignored(o) /\ Here \in options.shadow
  /\ Run(o, o.kind, "none")
  /\ shadowed' = shadowed \cup {Here}
  /\ Continue
  /\ UNCHANGED <<options, nearLimit, surfaces, deliverAt>>

\* The stop of a shadow check is noted, and the loop goes on.
Note(o) ==
  /\ Stops(o) /\ ~Ignored(o) /\ Here \in options.shadow
  /\ Run(o, o.kind, "shadow")
  /\ shadowed' = shadowed \cup {Here}
  /\ Continue
  /\ UNCHANGED <<options, nearLimit, surfaces, deliverAt>>

\* Mutant: the instant a check names is taken as it is.
LaterAny(at) == at

\* holdFor(), and the nextAllowedAt of a defer: an instant after now, or none.
Later(at) == IF at # None /\ at > Now THEN at ELSE None

Stop(o) ==
  /\ Stops(o) /\ ~Ignored(o) /\ Here \notin options.shadow
  /\ Run(o, o.kind, "none")
  /\ IF o.kind = "reject" THEN Finish("rejected", Here, None, Later(o.at))
                          ELSE Finish("deferred", Here, o.at, Later(o.at))
  /\ UNCHANGED <<options, shadowed, nearLimit, surfaces, deliverAt>>

\* Mutant: an adjust without surfaces brings back the first ones.
AdjustAnew(o) ==
  /\ o.kind = "adjust"
  /\ Run(o, "adjust", "none")
  /\ deliverAt' = IF o.at # None THEN o.at ELSE deliverAt
  /\ surfaces' = IF o.surfaces # None THEN o.surfaces ELSE Wanted
  /\ Continue
  /\ UNCHANGED <<options, shadowed, nearLimit>>

\* Mutant: an adjust without a time sends the message at once.
AdjustAtOnce(o) ==
  /\ o.kind = "adjust"
  /\ Run(o, "adjust", "none")
  /\ deliverAt' = o.at
  /\ surfaces' = IF o.surfaces # None THEN o.surfaces ELSE surfaces
  /\ Continue
  /\ UNCHANGED <<options, shadowed, nearLimit>>

Adjust(o) ==
  /\ o.kind = "adjust"
  /\ Run(o, "adjust", "none")
  /\ deliverAt' = IF o.at # None THEN o.at ELSE deliverAt
  /\ surfaces' = IF o.surfaces # None THEN o.surfaces ELSE surfaces
  /\ Continue
  /\ UNCHANGED <<options, shadowed, nearLimit>>

Pass(o) ==
  /\ o.kind \in {"pass", "nearLimit", "skip"}
  /\ Run(o, IF o.kind = "skip" THEN "skip" ELSE "pass", "none")
  /\ nearLimit' = IF o.kind = "nearLimit" THEN nearLimit \cup {Here} ELSE nearLimit
  /\ Continue
  /\ UNCHANGED <<options, shadowed, surfaces, deliverAt>>

\* The loop ran out of checks.
Allow ==
  /\ pc = "loop"
  /\ Here \notin Checks
  /\ Finish("allowed", None, None, None)
  /\ UNCHANGED <<options, said, trace, shadowed, nearLimit, surfaces, deliverAt>>

Next ==
  \/ Allow
  \/ \E o \in Outcomes : FailOpen(o)
  \/ \E o \in Outcomes : FailClosed(o)
  \/ \E o \in Outcomes : Ignore(o)
  \/ \E o \in Outcomes : Note(o)
  \/ \E o \in Outcomes : Stop(o)
  \/ \E o \in Outcomes : Adjust(o)
  \/ \E o \in Outcomes : Pass(o)

Spec == Init /\ [][Next]_vars

-----------------------------------------------------------------------------
(* Properties *)

TypeOK ==
  /\ options \in Options
  /\ pc \in {"loop", "returned", "threw"}
  /\ said \in Seq(Outcomes) /\ Len(said) <= NumChecks
  /\ trace \in Seq(TraceEntry)
  /\ surfaces \in Lists
  /\ deliverAt \in Instants \cup {None}

\* Did check j, by what it did, have the right to stop the message?  A throw
\* stops it in a gate that fails closed, a reject or a defer stops it unless the
\* check is non-rejecting or in shadow mode.
EntitledToStop(j) ==
  \/ said[j].kind = "throws" /\ options.onStoreError = "closed"
  \/ Stops(said[j]) /\ j \notin options.nonRejecting \cup options.shadow

Ran == 1..Len(said)

\* The decision is that of the first check entitled to stop the message, whose
\* instant it carries; without one, every check of the policy ran.
FirstStopDecides ==
  pc # "loop" =>
    IF decision.verdict = "allowed"
    THEN Ran = Checks /\ \A j \in Checks : ~EntitledToStop(j)
    ELSE /\ decision.by = Len(said)
         /\ \A j \in Ran : EntitledToStop(j) <=> j = decision.by
         /\ decision.verdict = "deferred" <=> said[decision.by].kind = "defer"
         /\ decision.nextAllowedAt # None =>
              decision.nextAllowedAt > Now /\ decision.nextAllowedAt = said[decision.by].at

\* Check j is the last one so far to have named surfaces, or a time of delivery.
LastToAdjust(j) ==
  /\ said[j].surfaces # None
  /\ \A m \in Ran : m > j => said[m].surfaces = None

Times(j) == said[j].kind = "adjust" /\ said[j].at # None
LastToTime(j) == Times(j) /\ \A m \in Ran : m > j => ~Times(m)

\* An allowed message goes to the surfaces the last check that named any chose,
\* else to those the user allows of the candidate's, and at the time the last
\* check that named one chose, which may be another check, else at once; a refused
\* one goes nowhere.
LastAdjustRoutes ==
  pc # "loop" =>
    IF decision.verdict = "allowed"
    THEN /\ \/ \E j \in Ran : LastToAdjust(j) /\ decision.surfaces = said[j].surfaces
            \/ /\ \A j \in Ran : said[j].surfaces = None
               /\ decision.surfaces = Wanted
         /\ \/ \E j \in Ran : LastToTime(j) /\ decision.deliverAt = said[j].at
            \/ /\ \A j \in Ran : ~Times(j)
               /\ decision.deliverAt = None
    ELSE decision.surfaces = None /\ decision.deliverAt = None

\* From the trace alone one can tell what shadow mode held back: it has an entry
\* per check that ran, flagged for exactly the checks listed as shadowed, with
\* the kind they answered; every unflagged stop is the decision's own.
TraceTellsAll ==
  /\ Len(trace) = Len(said)
  /\ shadowed = {j \in Ran : trace[j].flag = "shadow"}
  /\ \A j \in shadowed : trace[j].kind = said[j].kind /\ ~EntitledToStop(j)
  /\ \A j \in Ran \ shadowed :
       trace[j].kind \in {"reject", "defer"} <=> pc # "loop" /\ decision.by = j
=============================================================================
