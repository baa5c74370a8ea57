---------------------------- MODULE ExplainProofs ----------------------------
(***************************************************************************)
(* What evaluate() decides, and what is said of it, for policies of any    *)
(* length and checks of any behaviour.                                     *)
(*                                                                         *)
(* One invariant carries the loop of evaluate(): no check that ran was     *)
(* entitled to stop the message, surfaces and delivery time are those of   *)
(* the last checks that named any, and the trace flags exactly what shadow *)
(* mode held back.                                                         *)
(* A step with reasons is a step of GateEvaluate, so that invariant holds  *)
(* of it; what is missing is the wording: an entry that defers comes from  *)
(* a check that did, whose wording is snooze's or the caller's, and every  *)
(* entry holds an answer its check could give.                             *)
(*                                                                         *)
(* What a document compiles to is recursive.  Its facts are proved by the  *)
(* least number that fails them: the checks of an entry stay where they    *)
(* are appended, bear the entry's mark, and count to counters of their own.*)
(***************************************************************************)
EXTENDS Explain, WellFoundedInduction, SequenceTheorems, FiniteSetTheorems, TLAPS

-----------------------------------------------------------------------------
(* The decision *)

\* The surfaces so far are the last adjusting check's, else the first ones.
Routed ==
  \/ \E j \in Ran : LastToAdjust(j) /\ surfaces = said[j].surfaces
  \/ (\A j \in Ran : said[j].surfaces = None) /\ surfaces = Wanted

\* The time of delivery so far is that of the last check that named one, else none.
Timed ==
  \/ \E j \in Ran : LastToTime(j) /\ deliverAt = said[j].at
  \/ (\A j \in Ran : ~Times(j)) /\ deliverAt = None

\* What the loop and the decision have in common.
LoopInv ==
  /\ pc = "loop" => \A j \in Ran : ~EntitledToStop(j)
  /\ pc = "loop" => Routed /\ Timed

Inv == TypeOK /\ LoopInv /\ FirstStopDecides /\ LastAdjustRoutes /\ TraceTellsAll

\* An iteration adds one entry at the end of both histories.
LEMMA RunGrows ==
  ASSUME TypeOK, TraceTellsAll, LoopInv, NEW o \in Outcomes,
         NEW kind \in {"pass", "reject", "adjust", "skip", "defer"},
         NEW flag \in {"shadow", "none"},
         Run(o, kind, flag)
  PROVE  /\ said' \in Seq(Outcomes) /\ trace' \in Seq(TraceEntry)
         /\ Len(said') = Here /\ Len(trace') = Here /\ Here \in 1..NumChecks
         /\ Ran' = Ran \cup {Here}
         /\ \A j \in Ran : j \in Int /\ j < Here /\ said'[j] = said[j] /\ trace'[j] = trace[j]
         /\ said'[Here] = o
         /\ trace'[Here].kind = kind /\ trace'[Here].flag = flag
         /\ pc = "loop"
  <1>1. said \in Seq(Outcomes) /\ Len(said) \in Nat /\ trace \in Seq(TraceEntry)
        /\ Len(trace) = Len(said) /\ NumChecks \in Nat
    BY NumChecksAssumption DEF TypeOK, TraceTellsAll
  <1>2. Len(said) + 1 <= NumChecks
    BY <1>1 DEF Run, Here, Checks
  <1>3. [kind |-> kind, flag |-> flag] \in TraceEntry
    BY DEF TraceEntry
  <1>4. said' = Append(said, o) /\ trace' = Append(trace, [kind |-> kind, flag |-> flag])
        /\ pc = "loop"
    BY DEF Run, TypeOK
  <1>5. Len(said') = Len(said) + 1 /\ Len(trace') = Len(said) + 1
        /\ said' \in Seq(Outcomes) /\ trace' \in Seq(TraceEntry)
    BY <1>1, <1>3, <1>4
  <1>6. said'[Here] = o /\ trace'[Here] = [kind |-> kind, flag |-> flag]
    BY <1>1, <1>3, <1>4 DEF Here
  <1>7. \A j \in Ran : j \in Int /\ j < Here /\ said'[j] = said[j] /\ trace'[j] = trace[j]
    BY <1>1, <1>3, <1>4 DEF Here, Ran
  <1>8. Ran' = Ran \cup {Here}
    BY <1>1, <1>5 DEF Here, Ran
  <1>9. trace'[Here].kind = kind /\ trace'[Here].flag = flag
    BY <1>6
  <1>10. Len(said') = Here /\ Len(trace') = Here /\ Here \in 1..NumChecks
    BY <1>1, <1>2, <1>5 DEF Here
  <1> QED
    BY <1>4, <1>5, <1>6, <1>7, <1>8, <1>9, <1>10

\* What the checks before were entitled to does not change.
LEMMA EntitlementStays ==
  ASSUME NEW j, said'[j] = said[j], UNCHANGED options
  PROVE  EntitledToStop(j)' <=> EntitledToStop(j)
  BY DEF EntitledToStop, Stops

\* An iteration that chooses surfaces, or leaves them, keeps them routed.
LEMMA RoutedStays ==
  ASSUME Routed, NEW o \in Outcomes, NEW h \in Int,
         Ran' = Ran \cup {h}, said'[h] = o,
         \A j \in Ran : j \in Int /\ j < h /\ said'[j] = said[j],
         surfaces' = IF o.surfaces # None THEN o.surfaces ELSE surfaces
  PROVE  Routed'
  <1>1. CASE o.surfaces # None
    <2>1. LastToAdjust(h)'
      BY <1>1 DEF LastToAdjust
    <2> QED
      BY <1>1, <2>1 DEF Routed
  <1>2. CASE o.surfaces = None
    <2>1. ASSUME NEW j \in Ran, LastToAdjust(j), surfaces = said[j].surfaces
          PROVE  LastToAdjust(j)' /\ surfaces' = said'[j].surfaces
      BY <1>2, <2>1 DEF LastToAdjust
    <2> QED
      BY <1>2, <2>1 DEF Routed
  <1> QED
    BY <1>1, <1>2

\* ... and one that names a time, or none, keeps them timed.
LEMMA TimedStays ==
  ASSUME Timed, NEW o \in Outcomes, NEW h \in Int,
         Ran' = Ran \cup {h}, said'[h] = o,
         \A j \in Ran : j \in Int /\ j < h /\ said'[j] = said[j],
         deliverAt' = IF o.kind = "adjust" /\ o.at # None THEN o.at ELSE deliverAt
  PROVE  Timed'
  <1>1. \A j \in Ran : Times(j)' <=> Times(j)
    BY DEF Times
  <1>2. CASE o.kind = "adjust" /\ o.at # None
    <2>1. Times(h)'
      BY <1>2 DEF Times
    <2>2. LastToTime(h)'
      BY <2>1 DEF LastToTime
    <2> QED
      BY <1>2, <2>2 DEF Timed
  <1>3. CASE ~(o.kind = "adjust" /\ o.at # None)
    <2>1. ~Times(h)'
      BY <1>3 DEF Times
    <2>2. ASSUME NEW j \in Ran, LastToTime(j), deliverAt = said[j].at
          PROVE  LastToTime(j)' /\ deliverAt' = said'[j].at
      BY <1>1, <1>3, <2>1, <2>2 DEF LastToTime
    <2> QED
      BY <1>1, <1>3, <2>1, <2>2 DEF Timed
  <1> QED
    BY <1>2, <1>3

\* The first state satisfies the invariant.
LEMMA InitInv ==
  ASSUME Init
  PROVE  Inv
  BY NumChecksAssumption, ListAssumption
  DEF Init, Inv, TypeOK, LoopInv, FirstStopDecides, LastAdjustRoutes, TraceTellsAll, Routed, Timed, Ran

\* An iteration that does not stop the message, at check h.
LEMMA GoesOn ==
  ASSUME Inv, NEW o \in Outcomes, NEW h, h = Here,
         NEW kind \in {"pass", "reject", "adjust", "skip", "defer"}, NEW flag \in {"shadow", "none"},
         Run(o, kind, flag), Continue, UNCHANGED options,
         ~(o.kind = "throws" /\ options.onStoreError = "closed"),
         Stops(o) => h \in options.nonRejecting \cup options.shadow,
         surfaces' = IF o.surfaces # None THEN o.surfaces ELSE surfaces,
         deliverAt' = IF o.kind = "adjust" /\ o.at # None THEN o.at ELSE deliverAt,
         flag = "shadow" => shadowed' = shadowed \cup {h} /\ kind = o.kind,
         flag = "none" => shadowed' = shadowed /\ kind \notin {"reject", "defer"}
  PROVE  Inv'
  <1>1. /\ said' \in Seq(Outcomes) /\ trace' \in Seq(TraceEntry)
        /\ Len(said') = h /\ Len(trace') = h /\ h \in 1..NumChecks
        /\ Ran' = Ran \cup {h}
        /\ \A j \in Ran : j \in Int /\ j < h /\ said'[j] = said[j] /\ trace'[j] = trace[j]
        /\ said'[h] = o
        /\ trace'[h].kind = kind /\ trace'[h].flag = flag
        /\ pc = "loop"
    BY RunGrows DEF Inv
  <1>2. pc' = "loop" /\ decision' = decision /\ options' = options
    BY <1>1 DEF Continue
  <1>3. TypeOK'
    <2>1. o.surfaces \in Lists \cup {None} /\ o.at \in Instants \cup {None}
      BY DEF Outcomes
    <2> QED
      BY <1>1, <1>2, <2>1, NumChecksAssumption DEF Inv, TypeOK
  <1>4. ~EntitledToStop(h)'
    BY <1>1, <1>2 DEF EntitledToStop, Stops
  <1>5. \A j \in Ran : EntitledToStop(j)' <=> EntitledToStop(j)
    BY <1>1, <1>2, EntitlementStays
  <1>6. LoopInv'
    <2>1. Routed'
      BY <1>1, RoutedStays DEF Inv, LoopInv
    <2>2. Timed'
      BY <1>1, TimedStays DEF Inv, LoopInv
    <2>3. \A j \in Ran' : ~EntitledToStop(j)'
      BY <1>1, <1>4, <1>5 DEF Inv, LoopInv
    <2> QED
      BY <1>2, <2>1, <2>2, <2>3 DEF LoopInv
  <1>7. FirstStopDecides' /\ LastAdjustRoutes'
    BY <1>2 DEF FirstStopDecides, LastAdjustRoutes
  <1>8. TraceTellsAll'
    <2>1. shadowed = {j \in Ran : trace[j].flag = "shadow"}
          /\ (\A j \in shadowed : trace[j].kind = said[j].kind /\ ~EntitledToStop(j))
          /\ (\A j \in Ran \ shadowed : trace[j].kind \notin {"reject", "defer"})
      BY <1>1 DEF Inv, TraceTellsAll
    <2>2. shadowed' = {j \in Ran' : trace'[j].flag = "shadow"}
      BY <1>1, <2>1
    <2>3. \A j \in shadowed' : trace'[j].kind = said'[j].kind /\ ~EntitledToStop(j)'
      BY <1>1, <1>4, <1>5, <2>1
    <2>4. \A j \in Ran' \ shadowed' : trace'[j].kind \notin {"reject", "defer"}
      BY <1>1, <2>1
    <2> QED
      BY <1>1, <1>2, <2>2, <2>3, <2>4 DEF TraceTellsAll
  <1> QED
    BY <1>3, <1>6, <1>7, <1>8 DEF Inv

\* An iteration that stops the message, at check h.
LEMMA StopsThere ==
  ASSUME Inv, NEW o \in Outcomes, NEW h, h = Here,
         NEW kind \in {"reject", "defer"}, NEW retryAt, NEW nextAt,
         NEW verdict \in {"rejected", "deferred"},
         Run(o, kind, "none"), Finish(verdict, h, retryAt, nextAt), UNCHANGED options,
         \/ o.kind = "throws" /\ options.onStoreError = "closed"
         \/ Stops(o) /\ h \notin options.nonRejecting \cup options.shadow,
         verdict = "deferred" <=> o.kind = "defer",
         nextAt # None => nextAt > Now /\ nextAt = o.at,
         UNCHANGED <<shadowed, surfaces, deliverAt>>
  PROVE  Inv'
  <1>1. /\ said' \in Seq(Outcomes) /\ trace' \in Seq(TraceEntry)
        /\ Len(said') = h /\ Len(trace') = h /\ h \in 1..NumChecks
        /\ Ran' = Ran \cup {h}
        /\ \A j \in Ran : j \in Int /\ j < h /\ said'[j] = said[j] /\ trace'[j] = trace[j]
        /\ said'[h] = o
        /\ trace'[h].kind = kind /\ trace'[h].flag = "none"
        /\ pc = "loop"
    BY RunGrows DEF Inv
  <1>2. /\ pc' \in {"returned", "threw"}
        /\ decision'.verdict = verdict /\ decision'.by = h /\ decision'.nextAllowedAt = nextAt
        /\ decision'.surfaces = None /\ decision'.deliverAt = None
    BY DEF Finish
  <1>3. TypeOK'
    BY <1>1, <1>2, NumChecksAssumption DEF Inv, TypeOK
  <1>4. EntitledToStop(h)' /\ \A j \in Ran : ~EntitledToStop(j)'
    <2>1. EntitledToStop(h)'
      BY <1>1 DEF EntitledToStop, Stops
    <2>2. \A j \in Ran : EntitledToStop(j)' <=> EntitledToStop(j)
      BY <1>1, EntitlementStays
    <2> QED
      BY <1>1, <2>1, <2>2 DEF Inv, LoopInv
  <1>5. FirstStopDecides'
    BY <1>1, <1>2, <1>4 DEF FirstStopDecides
  <1>6. LoopInv' /\ LastAdjustRoutes'
    BY <1>2 DEF LoopInv, LastAdjustRoutes
  <1>7. TraceTellsAll'
    <2>1. shadowed = {j \in Ran : trace[j].flag = "shadow"}
          /\ (\A j \in shadowed : trace[j].kind = said[j].kind /\ ~EntitledToStop(j))
          /\ (\A j \in Ran \ shadowed : trace[j].kind \notin {"reject", "defer"})
      BY <1>1 DEF Inv, TraceTellsAll
    <2>2. shadowed' = {j \in Ran' : trace'[j].flag = "shadow"}
      BY <1>1, <2>1
    <2>3. \A j \in shadowed' : trace'[j].kind = said'[j].kind /\ ~EntitledToStop(j)'
      BY <1>1, <1>4, <2>1
    <2>4. \A j \in Ran' \ shadowed' :
            trace'[j].kind \in {"reject", "defer"} <=> decision'.by = j
      BY <1>1, <1>2, <2>1
    <2> QED
      BY <1>1, <1>2, <2>2, <2>3, <2>4 DEF TraceTellsAll
  <1> QED
    BY <1>3, <1>5, <1>6, <1>7 DEF Inv

\* The loop ran out of checks.
LEMMA AllowsAll ==
  ASSUME Inv, Allow
  PROVE  Inv'
  <1>1. /\ UNCHANGED <<options, said, trace, shadowed, surfaces, deliverAt>>
        /\ pc = "loop" /\ pc' \in {"returned", "threw"}
        /\ decision'.verdict = "allowed" /\ decision'.by = None /\ decision'.surfaces = surfaces
        /\ decision'.deliverAt = deliverAt
    BY DEF Allow, Finish
  <1>2. Ran = Checks
    BY NumChecksAssumption DEF Inv, TypeOK, Allow, Here, Checks, Ran
  <1>3. Ran' = Ran /\ \A j \in Ran : EntitledToStop(j)' <=> EntitledToStop(j)
    BY <1>1, EntitlementStays DEF Ran
  <1>4. TypeOK'
    BY <1>1 DEF Inv, TypeOK
  <1>5. FirstStopDecides'
    BY <1>1, <1>2, <1>3 DEF FirstStopDecides, Inv, LoopInv
  <1>6. LastAdjustRoutes'
    <2>1. Routed /\ Timed
      BY <1>1 DEF Inv, LoopInv
    <2>2. \A j \in Ran : LastToAdjust(j)' <=> LastToAdjust(j)
      BY <1>1, <1>3 DEF LastToAdjust
    <2>3. \A j \in Ran : Times(j)' <=> Times(j)
      BY <1>1 DEF Times
    <2>4. \A j \in Ran : LastToTime(j)' <=> LastToTime(j)
      BY <1>3, <2>3 DEF LastToTime
    <2>5. \/ \E j \in Ran' : LastToAdjust(j)' /\ decision'.surfaces = said'[j].surfaces
          \/ (\A j \in Ran' : said'[j].surfaces = None) /\ decision'.surfaces = Wanted
      BY <1>1, <1>3, <2>1, <2>2 DEF Routed
    <2>6. \/ \E j \in Ran' : LastToTime(j)' /\ decision'.deliverAt = said'[j].at
          \/ (\A j \in Ran' : ~Times(j)') /\ decision'.deliverAt = None
      BY <1>1, <1>3, <2>1, <2>3, <2>4 DEF Timed
    <2> QED
      BY <1>1, <2>5, <2>6 DEF LastAdjustRoutes
  <1>7. TraceTellsAll'
    <2>1. None \notin Ran
      BY <1>2, NoneAssumption
    <2> QED
      BY <1>1, <1>3, <2>1 DEF Inv, TraceTellsAll
  <1>8. LoopInv'
    BY <1>1 DEF LoopInv
  <1> QED
    BY <1>4, <1>5, <1>6, <1>7, <1>8 DEF Inv

\* Every iteration of the loop keeps the invariant.
LEMMA StepInv ==
  ASSUME Inv, [Next]_vars
  PROVE  Inv'
  <1>1. CASE Allow
    BY <1>1, AllowsAll
  <1>2. ASSUME NEW o \in Outcomes, FailOpen(o)
        PROVE  Inv'
    <2>1. o.surfaces = None /\ ~Stops(o) /\ o.kind # "adjust"
      BY <1>2 DEF FailOpen, Outcomes, Stops, Inv, TypeOK
    <2> QED
      BY <1>2, <2>1, GoesOn DEF FailOpen
  <1>3. ASSUME NEW o \in Outcomes, FailClosed(o)
        PROVE  Inv'
    <2>1. o.kind # "defer"
      BY <1>3 DEF FailClosed
    <2> QED
      BY <1>3, <2>1, StopsThere DEF FailClosed
  <1>4. ASSUME NEW o \in Outcomes, Ignore(o)
        PROVE  Inv'
    <2>1. o.surfaces = None /\ o.kind # "throws" /\ o.kind # "adjust"
      BY <1>4 DEF Ignore, Ignored, Outcomes, Stops, Inv, TypeOK
    <2>2. Here \in options.nonRejecting
      BY <1>4 DEF Ignore, Ignored
    <2> QED
      BY <1>4, <2>1, <2>2, GoesOn DEF Ignore
  <1>5. ASSUME NEW o \in Outcomes, Note(o)
        PROVE  Inv'
    <2>1. o.surfaces = None /\ o.kind \in {"reject", "defer"}
      BY <1>5 DEF Note, Outcomes, Stops, Inv, TypeOK
    <2> QED
      BY <1>5, <2>1, GoesOn DEF Note
  <1>6. ASSUME NEW o \in Outcomes, Stop(o)
        PROVE  Inv'
    <2>1. Stops(o) /\ Here \notin options.nonRejecting \cup options.shadow
      BY <1>6 DEF Stop, Ignored
    <2>2. Later(o.at) # None => Later(o.at) > Now /\ Later(o.at) = o.at
      BY DEF Later
    <2>3. CASE o.kind = "reject"
      BY <1>6, <2>1, <2>2, <2>3, StopsThere DEF Stop
    <2>4. CASE o.kind = "defer"
      BY <1>6, <2>1, <2>2, <2>4, StopsThere DEF Stop
    <2> QED
      BY <2>1, <2>3, <2>4 DEF Stops
  <1>7. ASSUME NEW o \in Outcomes, Adjust(o)
        PROVE  Inv'
    <2>1. ~Stops(o) /\ o.kind = "adjust"
      BY <1>7 DEF Adjust, Stops
    <2>2. deliverAt' = IF o.kind = "adjust" /\ o.at # None THEN o.at ELSE deliverAt
      BY <1>7 DEF Adjust
    <2> QED
      BY <1>7, <2>1, <2>2, GoesOn DEF Adjust
  <1>8. ASSUME NEW o \in Outcomes, Pass(o)
        PROVE  Inv'
    <2>1. o.surfaces = None /\ ~Stops(o) /\ o.kind # "throws" /\ o.kind # "adjust"
      BY <1>8 DEF Pass, Outcomes, Stops, Inv, TypeOK
    <2> DEFINE kind == IF o.kind = "skip" THEN "skip" ELSE "pass"
    <2> QED
      BY <1>8, <2>1, GoesOn DEF Pass
  <1>9. CASE UNCHANGED vars
    BY <1>9 DEF vars, Inv, TypeOK, LoopInv, FirstStopDecides, LastAdjustRoutes, TraceTellsAll,
                Ran, EntitledToStop, Stops, Routed, LastToAdjust, Timed, LastToTime, Times
  <1> QED
    BY <1>1, <1>2, <1>3, <1>4, <1>5, <1>6, <1>7, <1>8, <1>9 DEF Next

\* For every policy and whatever its checks do: the decision is that of the
\* first check entitled to stop the message.
THEOREM FirstStop == Spec => []FirstStopDecides
  <1>1. Inv => FirstStopDecides
    BY DEF Inv
  <1> QED
    BY <1>1, InitInv, StepInv, PTL DEF Spec

\* ... its surfaces and its time of delivery are those of the last check that
\* named any, ...
THEOREM LastAdjust == Spec => []LastAdjustRoutes
  <1>1. Inv => LastAdjustRoutes
    BY DEF Inv
  <1> QED
    BY <1>1, InitInv, StepInv, PTL DEF Spec

\* ... and the trace tells what shadow mode held back.
THEOREM TraceTells == Spec => []TraceTellsAll
  <1>1. Inv => TraceTellsAll
    BY DEF Inv
  <1> QED
    BY <1>1, InitInv, StepInv, PTL DEF Spec

-----------------------------------------------------------------------------
(* The summary *)

\* An answer is an outcome, of the kind it names.
LEMMA AnswerIsOutcome ==
  /\ \A kind \in {"pass", "nearLimit", "skip", "throws"} :
       Answer(kind, None, None) \in Outcomes /\ Answer(kind, None, None).kind = kind
  /\ \A at \in Instants \cup {None} :
       Answer("reject", at, None) \in Outcomes /\ Answer("reject", at, None).kind = "reject"
  /\ \A at \in Instants :
       Answer("defer", at, None) \in Outcomes /\ Answer("defer", at, None).kind = "defer"
  /\ \A at \in Instants \cup {None}, list \in Lists \cup {None} :
       Answer("adjust", at, list) \in Outcomes /\ Answer("adjust", at, list).kind = "adjust"
  BY DEF Answer, Outcomes

\* What an answer of this kind says.
Tells(check, kind, reason) ==
  LET k == check.kind IN
  \/ kind = "throws"
  \/ kind = "pass" /\ reason = Absent
  \/ kind = "reject" /\ k \notin Timing /\ reason \in StopWords(k)
  \/ kind = "defer" /\ k = "snooze" /\ reason = <<"snooze", "stop">>
  \/ kind = "skip" /\ k \in Skipping /\ reason = <<k, "skip">>
  \/ kind = "nearLimit" /\ k \in Counters /\ reason = <<"counter", "used">>
  \/ kind = "nearLimit" /\ k \in Counters /\ reason = <<"counter", "odd used">>
  \/ kind = "adjust" /\ k \in Timing /\ reason = <<k, "adjust">>
  \/ kind = "adjust" /\ k \in Timing /\ reason = <<k, "odd adjust">>
  \/ kind = "pass" /\ k = "requiresConsent" /\ reason = <<k, "outside">>
  \/ kind = "pass" /\ k = "requiresConsent" /\ reason = <<k, "odd outside">>
  \/ kind = "pass" /\ check.spares # "nobody" /\ reason = <<"preset", "note">>
  \/ k = "custom" /\ reason = <<"custom", "words">>

\* Whatever the library's checks and the caller's answer is an outcome, with a
\* reason of theirs.
LEMMA AnswersTell ==
  ASSUME NEW check, NEW a \in Answers(check)
  PROVE  a[1] \in Outcomes /\ Tells(check, a[1].kind, a[2])
  <1>0. PICK k : k = check.kind
    OBVIOUS
  <1>1. \/ a \in Passes(check)
        \/ a \in {<<Answer("throws", None, None), Absent>>}
        \/ k \notin Timing /\ a \in Rejections(k)
        \/ k = "snooze" /\ a \in Deferrals
        \/ k \in Skipping /\ a \in {<<Answer("skip", None, None), <<k, "skip">>>>}
        \/ k = "adaptiveTiming" /\ a \in AdaptedTimings
        \/ k = "boundedDeferral" /\ a \in BoundedDelays
        \/ k = "custom" /\ a \in Outcomes \X {<<"custom", "words">>}
    BY <1>0, Zenon DEF Answers
  <1>2. CASE a \in Passes(check)
    <2>1. \/ a = <<Answer("pass", None, None), Absent>>
          \/ k \in Counters /\ \E w \in {<<"counter", "used">>, <<"counter", "odd used">>} :
                                a = <<Answer("nearLimit", None, None), w>>
          \/ k = "requiresConsent" /\ \E w \in {<<k, "outside">>, <<k, "odd outside">>} :
                                       a = <<Answer("pass", None, None), w>>
          \/ check.spares # "nobody" /\ a = <<Answer("pass", None, None), <<"preset", "note">>>>
      BY <1>0, <1>2, Zenon DEF Passes
    <2>2. CASE a = <<Answer("pass", None, None), Absent>>
      <3>1. a[1] = Answer("pass", None, None) /\ a[2] = Absent
        BY <2>2
      <3> QED
        BY <3>1, AnswerIsOutcome DEF Tells
    <2>3. CASE k \in Counters /\ \E w \in {<<"counter", "used">>, <<"counter", "odd used">>} :
                                  a = <<Answer("nearLimit", None, None), w>>
      <3>1. PICK w \in {<<"counter", "used">>, <<"counter", "odd used">>} : a = <<Answer("nearLimit", None, None), w>>
        BY <2>3, Zenon
      <3>2. a[1] = Answer("nearLimit", None, None) /\ a[2] = w
        BY <3>1
      <3>3. w = <<"counter", "used">> \/ w = <<"counter", "odd used">>
        BY <3>1, Zenon
      <3>4. a[1].kind = "nearLimit" /\ a[1] \in Outcomes
        BY <3>2, AnswerIsOutcome
      <3> QED
        BY <1>0, <2>3, <3>2, <3>3, <3>4, Zenon DEF Tells
    <2>4. CASE k = "requiresConsent" /\ \E w \in {<<k, "outside">>, <<k, "odd outside">>} :
                                         a = <<Answer("pass", None, None), w>>
      <3>1. PICK w \in {<<k, "outside">>, <<k, "odd outside">>} : a = <<Answer("pass", None, None), w>>
        BY <2>4, Zenon
      <3>2. a[1] = Answer("pass", None, None) /\ a[2] = w
        BY <3>1
      <3>3. w = <<k, "outside">> \/ w = <<k, "odd outside">>
        BY <3>1, Zenon
      <3>4. a[1].kind = "pass" /\ a[1] \in Outcomes
        BY <3>2, AnswerIsOutcome
      <3> QED
        BY <1>0, <2>4, <3>2, <3>3, <3>4, Zenon DEF Tells
    <2>5. CASE check.spares # "nobody" /\ a = <<Answer("pass", None, None), <<"preset", "note">>>>
      <3>1. a[1] = Answer("pass", None, None) /\ a[2] = <<"preset", "note">>
        BY <2>5
      <3>2. a[1].kind = "pass" /\ a[1] \in Outcomes
        BY <3>1, AnswerIsOutcome
      <3> QED
        BY <2>5, <3>1, <3>2, Zenon DEF Tells
    <2> QED
      BY <2>1, <2>2, <2>3, <2>4, <2>5, Zenon
  <1>3. CASE a \in {<<Answer("throws", None, None), Absent>>}
    <2>1. a[1] = Answer("throws", None, None)
      BY <1>3
    <2> QED
      BY <2>1, AnswerIsOutcome DEF Tells
  <1>4. CASE k \notin Timing /\ a \in Rejections(k)
    <2>1. PICK at \in Instants \cup {None}, w \in StopWords(k) : a = <<Answer("reject", at, None), w>>
      BY <1>4 DEF Rejections
    <2>2. a[1] = Answer("reject", at, None) /\ a[2] \in StopWords(k)
      BY <2>1
    <2>3. a[1].kind = "reject" /\ a[1] \in Outcomes
      BY <2>2, AnswerIsOutcome
    <2> QED
      BY <1>0, <1>4, <2>2, <2>3, Zenon DEF Tells
  <1>5. CASE k = "snooze" /\ a \in Deferrals
    <2>1. PICK at \in Instants : a = <<Answer("defer", at, None), <<"snooze", "stop">>>>
      BY <1>5 DEF Deferrals
    <2>2. a[1] = Answer("defer", at, None) /\ a[2] = <<"snooze", "stop">>
      BY <2>1
    <2>3. a[1].kind = "defer" /\ a[1] \in Outcomes
      BY <2>2, AnswerIsOutcome
    <2> QED
      BY <1>0, <1>5, <2>2, <2>3, Zenon DEF Tells
  <1>6. CASE k = "adaptiveTiming" /\ a \in AdaptedTimings
    <2>1. k \in Timing
      BY <1>6 DEF Timing
    <2>2. PICK at \in Instants \cup {None}, list \in Lists \cup {None}, w \in {"adjust", "odd adjust"} :
            a = <<Answer("adjust", at, list), <<k, w>>>>
      <3>1. CASE a \in AdaptedSoundly
        BY <1>6, <3>1 DEF AdaptedSoundly
      <3>2. CASE a \in AdaptedOddly
        BY <1>6, <3>2 DEF AdaptedOddly
      <3> QED
        BY <1>6, <3>1, <3>2 DEF AdaptedTimings
    <2>3. a[1] = Answer("adjust", at, list) /\ a[2] = <<k, w>>
      BY <2>2
    <2>4. a[1].kind = "adjust" /\ a[1] \in Outcomes
      BY <2>3, AnswerIsOutcome
    <2> QED
      BY <1>0, <2>1, <2>2, <2>3, <2>4, Zenon DEF Tells
  <1>7. CASE k = "boundedDeferral" /\ a \in BoundedDelays
    <2>1. k \in Timing
      BY <1>7 DEF Timing
    <2>2. PICK at \in Instants, w \in {"adjust", "odd adjust"} :
            a = <<Answer("adjust", at, None), <<k, w>>>>
      BY <1>7 DEF BoundedDelays
    <2>3. a[1] = Answer("adjust", at, None) /\ a[2] = <<k, w>>
      BY <2>2
    <2>4. a[1].kind = "adjust" /\ a[1] \in Outcomes
      BY <2>3, AnswerIsOutcome
    <2> QED
      BY <1>0, <2>1, <2>2, <2>3, <2>4, Zenon DEF Tells
  <1>8. CASE k \in Skipping /\ a \in {<<Answer("skip", None, None), <<k, "skip">>>>}
    <2>1. a = <<Answer("skip", None, None), <<k, "skip">>>>
      BY <1>8
    <2>2. a[1] = Answer("skip", None, None) /\ a[2] = <<k, "skip">>
      BY <2>1
    <2>3. a[1].kind = "skip" /\ a[1] \in Outcomes
      BY <2>2, AnswerIsOutcome
    <2> QED
      BY <1>0, <1>8, <2>2, <2>3, Zenon DEF Tells
  <1>9. CASE k = "custom" /\ a \in Outcomes \X {<<"custom", "words">>}
    <2>1. a[1] \in Outcomes /\ a[2] = <<"custom", "words">>
      BY <1>9
    <2> QED
      BY <1>0, <1>9, <2>1, Zenon DEF Tells
  <1> QED
    BY <1>1, <1>2, <1>3, <1>4, <1>5, <1>6, <1>7, <1>8, <1>9, Zenon

\* A check that defers words it as snooze does, or in the caller's words.
LEMMA DefersInItsWords ==
  ASSUME NEW check, NEW a \in Answers(check), a[1].kind = "defer"
  PROVE  a[2] \in {<<"snooze", "stop">>, <<"custom", "words">>}
  <1>1. Tells(check, "defer", a[2])
    BY AnswersTell
  <1> QED
    BY <1>1, Zenon DEF Tells

\* The entries of the trace that defer are of checks that did, in their wording.
WordInv ==
  \A j \in Ran : trace[j].kind = "defer" =>
    said[j].kind = "defer" /\ reasons[j] \in {<<"snooze", "stop">>, <<"custom", "words">>}

\* A refusal has a check that ran.
SomeoneRan == pc = "loop" \/ decision.verdict = "allowed" \/ Ran # {}

ExplainInv == Inv /\ WordInv /\ SomeoneRan

\* A step of the policy is a step of the evaluation.
LEMMA StepsAreSteps ==
  ASSUME ExplainNext
  PROVE  Next
  <1>1. CASE NoneStops
    BY <1>1 DEF NoneStops, Next
  <1>2. ASSUME NEW a \in Answers(checks[Here]), Speak(a[1], a[2])
        PROVE  Next
    <2>1. a[1] \in Outcomes
      BY AnswersTell
    <2> QED
      BY <1>2, <2>1 DEF Speak, Next
  <1> QED
    BY <1>1, <1>2 DEF ExplainNext

\* The wording of what went before stays, and the new entry brings its own.
LEMMA WordsStay ==
  ASSUME ExplainInv, [ExplainNext]_explainVars
  PROVE  WordInv' /\ SomeoneRan'
  <1>1. CASE UNCHANGED explainVars
    BY <1>1 DEF explainVars, vars, ExplainInv, WordInv, SomeoneRan, Ran
  <1>2. CASE NoneStops
    BY <1>2 DEF NoneStops, Allow, Finish, ExplainInv, WordInv, SomeoneRan, Ran
  <1>3. ASSUME NEW a \in Answers(checks[Here]), Speak(a[1], a[2])
        PROVE  WordInv' /\ SomeoneRan'
    <2> DEFINE o == a[1]
    <2>1. o \in Outcomes
      BY AnswersTell
    <2>2. PICK kind \in {"pass", "reject", "adjust", "skip", "defer"}, flag \in {"shadow", "none"} :
            Run(o, kind, flag) /\ (kind = "defer" => o.kind = "defer" /\ ~Ignored(o))
      <3>1. ASSUME FailOpen(o) \/ FailClosed(o) \/ Ignore(o)
            PROVE  Run(o, "skip", "none") \/ Run(o, "reject", "none")
        BY <3>1 DEF FailOpen, FailClosed, Ignore
      <3>2. ASSUME Note(o) \/ Stop(o)
            PROVE  (Run(o, o.kind, "shadow") \/ Run(o, o.kind, "none"))
                   /\ o.kind \in {"reject", "defer"} /\ ~Ignored(o)
        BY <3>2 DEF Note, Stop, Stops
      <3>3. ASSUME Adjust(o) \/ Pass(o)
            PROVE  Run(o, "adjust", "none") \/ Run(o, "skip", "none") \/ Run(o, "pass", "none")
        BY <3>3 DEF Adjust, Pass
      <3> QED
        BY <1>3, <3>1, <3>2, <3>3 DEF Speak
    <2>3. PICK h : h = Here
      OBVIOUS
    <2>4. /\ Ran' = Ran \cup {h} /\ h \in 1..NumChecks
          /\ \A j \in Ran : j \in Int /\ j < h /\ said'[j] = said[j] /\ trace'[j] = trace[j]
          /\ said'[h] = o /\ trace'[h].kind = kind
      BY <2>1, <2>2, <2>3, RunGrows DEF ExplainInv, Inv
    <2>5. Ran = 1..(h - 1) /\ h \in Nat
      BY <2>3, <2>4 DEF Ran, Here, ExplainInv, Inv, TypeOK
    <2>6. PICK told \in Traced(o, a[2]) : reasons' = [j \in 1..h |-> IF j = h THEN told ELSE reasons[j]]
      BY <1>3, <2>3 DEF Speak
    <2>7. \A j \in Ran : reasons'[j] = reasons[j]
      BY <2>4, <2>5, <2>6
    <2>8. kind = "defer" => o.kind = "defer" /\ reasons'[h] \in {<<"snooze", "stop">>, <<"custom", "words">>}
      <3>1. SUFFICES ASSUME kind = "defer"
                     PROVE  reasons'[h] \in {<<"snooze", "stop">>, <<"custom", "words">>}
        BY <2>2
      <3>2. o.kind = "defer" /\ ~Ignored(o)
        BY <2>2, <3>1
      <3>3. Traced(o, a[2]) = {a[2]}
        BY <3>2 DEF Traced
      <3>4. reasons'[h] = a[2]
        BY <2>4, <2>5, <2>6, <3>3
      <3> QED
        BY <3>2, <3>4, DefersInItsWords
    <2> QED
      BY <2>4, <2>7, <2>8 DEF ExplainInv, WordInv, SomeoneRan
  <1> QED
    BY <1>1, <1>2, <1>3 DEF ExplainNext

\* Pairs are equal by their parts.
LEMMA Pairs ==
  ASSUME NEW a, NEW b, NEW c, NEW d
  PROVE  <<a, b>> = <<c, d>> <=> a = c /\ b = d
  OBVIOUS

\* The gate's own reasons, where they quote a single line.
LEMMA GateEntriesAre ==
  /\ \A reason \in GateEntries : \E w \in {"failOpen", "failClosed", "nonRejecting"} : reason = <<"gate", w>>
  /\ \A k, w : <<k, w>> \in GateEntries <=> k = "gate" /\ w \in {"failOpen", "failClosed", "nonRejecting"}
  BY DEF GateEntries

\* What sounds like a budget is a counter's.
LEMMA BudgetSounds ==
  ASSUME NEW k, NEW what
  PROVE  /\ SoundsLikeBudget(<<k, what>>) <=>
              \/ k \in Counters /\ what = "stop"
              \/ k = "rateLimit" /\ what = "odd period"
         /\ "rateLimit" \in Counters
  <1>1. <<k, what>> \in Counters \X {"stop"} <=> k \in Counters /\ what = "stop"
    OBVIOUS
  <1>2. <<k, what>> = <<"rateLimit", "odd period">> <=> k = "rateLimit" /\ what = "odd period"
    OBVIOUS
  <1> QED
    BY <1>1, <1>2 DEF SoundsLikeBudget, OddPeriod, Counters

\* The stops a parser reads are its own check's, or a counter's.
LEMMA StopsParsed ==
  ASSUME NEW k, NEW what, NEW x
  PROVE  Parses(x, "stop", <<k, what>>) <=>
           /\ x \in KnownChecks \ Timing
           /\ \/ x = k /\ what = "stop"
              \/ x \in Counters \ {"rateLimit"} /\ SoundsLikeBudget(<<k, what>>)
  <1>1. <<k, what>> = <<x, "stop">> <=> k = x /\ what = "stop"
    OBVIOUS
  <1> QED
    BY <1>1 DEF Parses

\* No sentence about such an entry tells the end of quiet hours.
LEMMA NoWindowEnd ==
  ASSUME NEW id, NEW reason \in {<<"snooze", "stop">>, <<"custom", "words">>}
  PROVE  StopTemplate(id, reason) # <<"quietHours", "reject">>
  <1>1. reason \notin GateEntries
    BY DEF GateEntries
  <1>3. ~SoundsLikeBudget(reason)
    <2>1. "snooze" \notin Counters
      BY DEF Counters
    <2> QED
      BY <2>1, BudgetSounds
  <1>2. \A k : Parses(k, "stop", reason) => k = "snooze"
    BY <1>3, StopsParsed
  <1> DEFINE sounds == {k \in KnownChecks : StopScan(k) /\ Parses(k, "stop", reason)}
  <1>4. sounds # {} => (CHOOSE k \in sounds : TRUE) = "snooze"
    BY <1>2
  <1>5. StopTemplate(id, reason)[1] # "quietHours"
    <2>1. CASE Parses(KeyForId(id), "stop", reason)
      <3>1. StopTemplate(id, reason) = <<KeyForId(id), "reject">>
        BY <1>1, <2>1 DEF StopTemplate
      <3> QED
        BY <1>2, <2>1, <3>1
    <2>2. CASE ~Parses(KeyForId(id), "stop", reason)
      <3> HIDE DEF sounds
      <3>1. StopTemplate(id, reason) =
              IF sounds # {} THEN <<CHOOSE k \in sounds : TRUE, "reject">> ELSE <<"fallback", "stop">>
        BY <1>1, <1>3, <2>2 DEF StopTemplate, sounds
      <3>2. CASE sounds # {}
        <4>1. StopTemplate(id, reason) = <<"snooze", "reject">>
          BY <1>4, <3>1, <3>2
        <4> QED
          BY <4>1
      <3>3. CASE sounds = {}
        <4>1. StopTemplate(id, reason) = <<"fallback", "stop">>
          BY <3>1, <3>3
        <4> QED
          BY <4>1
      <3> QED
        BY <3>2, <3>3
    <2> QED
      BY <2>1, <2>2
  <1> QED
    BY <1>5

\* The entry the summary is about is the last one of the trace, the decider's.
LEMMA LastIsTheDeciders ==
  ASSUME Inv, SomeoneRan, pc # "loop", decision.verdict # "allowed"
  PROVE  /\ StopEntry(checks[decision.by].id) = decision.by
         /\ trace[decision.by].flag = "none" /\ decision.by \in Ran
         /\ trace[decision.by].kind \in {"reject", "defer"}
         /\ decision.verdict = "deferred" <=> said[decision.by].kind = "defer"
  <1> DEFINE d == decision.by
             Stopped(j) == checks[j].id = checks[d].id /\ trace[j].kind \in {"reject", "defer"}
  <1>1. /\ d = Len(said) /\ (\A j \in Ran : EntitledToStop(j) <=> j = d)
        /\ decision.verdict = "deferred" <=> said[d].kind = "defer"
    BY DEF Inv, FirstStopDecides
  <1>2. said \in Seq(Outcomes) /\ trace \in Seq(TraceEntry) /\ Len(trace) = Len(said)
    BY DEF Inv, TypeOK, TraceTellsAll
  <1>3. DOMAIN trace = Ran /\ Ran = 1..d /\ d \in Nat
    BY <1>1, <1>2 DEF Ran
  <1>4. d \in Ran
    BY <1>3 DEF SomeoneRan
  <1>5. d \notin shadowed
    BY <1>1, <1>4 DEF Inv, TraceTellsAll
  <1>6. Stopped(d) /\ trace[d].flag # "shadow"
    BY <1>4, <1>5 DEF Inv, TraceTellsAll
  <1>7. trace[d] \in TraceEntry
    BY <1>2, <1>3, <1>4
  <1>8. trace[d].flag = "none"
    BY <1>6, <1>7 DEF TraceEntry
  <1>9. \A j \in DOMAIN trace : Stopped(j) => j <= d
    BY <1>3
  <1>10. StopEntry(checks[d].id) = d
    <2> DEFINE Is(j) == j \in DOMAIN trace /\ Stopped(j) /\ \A i \in DOMAIN trace : Stopped(i) => i <= j
    <2>1. Is(d)
      BY <1>3, <1>4, <1>6, <1>9
    <2>2. \A j : Is(j) => j = d
      BY <1>3, <1>4, <1>6, <1>9
    <2> QED
      BY <2>1, <2>2 DEF StopEntry
  <1> QED
    BY <1>1, <1>4, <1>6, <1>8, <1>10

\* It holds before the first check.
LEMMA ExplainInitInv ==
  ASSUME ExplainInit
  PROVE  ExplainInv
  <1>1. Init
    BY DEF ExplainInit
  <1> QED
    BY <1>1, InitInv DEF Init, ExplainInv, WordInv, SomeoneRan, Ran

\* Every check keeps it.
LEMMA ExplainStepInv ==
  ASSUME ExplainInv, [ExplainNext]_explainVars
  PROVE  ExplainInv'
  <1>1. [Next]_vars
    BY StepsAreSteps DEF explainVars
  <1> QED
    BY <1>1, StepInv, WordsStay DEF ExplainInv

\* What the invariant says of a refusal is what its summary says.
LEMMA InvSummarizes ==
  ASSUME ExplainInv
  PROVE  SummaryNamesTheDecider
  <1>1. SUFFICES ASSUME pc # "loop", decision.verdict # "allowed"
                 PROVE  /\ StopEntry(checks[decision.by].id) = decision.by
                        /\ trace[decision.by].flag = "none"
                        /\ Headline(decision.by) # None =>
                             decision.verdict = "deferred" /\ Headline(decision.by) = decision.retryAt
    BY DEF SummaryNamesTheDecider
  <1>2. PICK d : d = decision.by
    OBVIOUS
  <1>3. /\ StopEntry(checks[d].id) = d /\ trace[d].flag = "none" /\ d \in Ran
        /\ decision.verdict = "deferred" <=> said[d].kind = "defer"
    BY <1>1, <1>2, LastIsTheDeciders DEF ExplainInv
  <1>4. CASE trace[d].kind # "defer"
    BY <1>2, <1>3, <1>4 DEF Headline
  <1>5. CASE trace[d].kind = "defer"
    <2>1. said[d].kind = "defer" /\ reasons[d] \in {<<"snooze", "stop">>, <<"custom", "words">>}
      BY <1>3, <1>5 DEF ExplainInv, WordInv
    <2>2. EntryBody(d) = StopTemplate(checks[d].id, reasons[d])
      BY <1>5 DEF EntryBody
    <2>3. EntryBody(d) # <<"quietHours", "reject">>
      BY <2>1, <2>2, NoWindowEnd
    <2>4. Headline(d) \in {None, decision.retryAt}
      BY <1>5, <2>3 DEF Headline
    <2> QED
      BY <1>2, <1>3, <2>1, <2>4
  <1> QED
    BY <1>2, <1>4, <1>5

\* What the schema documents of a check, its factory reads and can use.
LEMMA DocumentedIsUsable ==
  ASSUME NEW id, NEW key, NEW sort, Documented(id, key, sort)
  PROVE  Reads(id, key, sort) /\ ~ThrowsOn(id, key, sort)
  BY DEF Documented, Reads, ThrowsOn, Strings, Budgets

\* Every document the schema accepts compiles, whatever its length.
THEOREM AcceptedDocumentsCompile ==
  ASSUME NEW doc, Accepts(doc)
  PROVE  Compiles(doc)
  <1>1. ASSUME NEW i \in DOMAIN doc.entries
        PROVE  Builds(doc.entries[i])
    <2> DEFINE e == doc.entries[i]
    <2>1. AcceptsEntry(e)
      BY <1>1 DEF Accepts
    <2>2. CASE e.id \in KnownChecks /\ e.preset = Absent /\ \A o \in e.options : Documented(e.id, o[1], o[2])
      BY <2>2, DocumentedIsUsable, AbsentAssumption DEF Builds
    <2>3. CASE e.id = Absent /\ e.preset \in PresetNames /\ e.options \subseteq PresetOptions(e.preset)
      BY <2>3, AbsentAssumption DEF Builds, PresetOptions, Strings
    <2> QED
      BY <2>1, <2>2, <2>3 DEF AcceptsEntry
  <1> QED
    BY <1>1 DEF Accepts, Compiles

\* What a policy does, compiled or written by hand, is an evaluation of its checks:
\* explaining it changes nothing.
THEOREM PolicyIsEvaluated == ExplainSpec => Spec
  <1>1. ExplainInit => Init
    BY DEF ExplainInit
  <1>2. [ExplainNext]_explainVars => [Next]_vars
    BY StepsAreSteps DEF explainVars
  <1> QED
    BY <1>1, <1>2, PTL DEF ExplainSpec, Spec

\* For every policy, whatever ids its checks share and whichever of them are in
\* shadow mode: the summary is about the entry that decided, and the instant it
\* names is the one the caller is told to come back at.
THEOREM SummaryIsTheDeciders == ExplainSpec => []SummaryNamesTheDecider
  <1> QED
    BY ExplainInitInv, ExplainStepInv, InvSummarizes, PTL DEF ExplainSpec

-----------------------------------------------------------------------------
(* Compiling a document *)

\* A non-empty set of naturals has a least element.
LEMMA LeastOf ==
  ASSUME NEW T \in SUBSET Nat, T # {}
  PROVE  \E x \in T : \A y \in T : x <= y
  <1>1. PICK x \in T : \A y \in T : ~ (<<y, x>> \in OpToRel(<, Nat))
    BY NatLessThanWellFounded, WFMin
  <1>2. ASSUME NEW y \in T PROVE x <= y
    <2>1. ~(y < x)
      BY <1>1 DEF OpToRel
    <2> QED
      BY <2>1
  <1> QED
    BY <1>2

\* A set that holds zero and the successors of its members holds every natural.
LEMMA Induction ==
  ASSUME NEW S, 0 \in S, \A n \in Nat : n \in S => n + 1 \in S
  PROVE  Nat \subseteq S
  <1> DEFINE T == Nat \ S
  <1>1. SUFFICES ASSUME T # {} PROVE FALSE
    OBVIOUS
  <1>2. PICK x \in T : \A y \in T : x <= y
    <2> HIDE DEF T
    <2>1. T \in SUBSET Nat
      BY DEF T
    <2> QED
      BY <1>1, <2>1, LeastOf
  <1>3. x # 0 /\ x - 1 \in Nat /\ x - 1 \notin T
    BY <1>2
  <1> QED
    BY <1>3

\* The checks of the first entries of a document, entry after entry.
Grows(doc, f, n) == f = [i \in 0..n |-> IF i = 0 THEN <<>> ELSE f[i - 1] \o Built(doc.entries[i])]

UpTo(doc) == CHOOSE f : Grows(doc, f, Len(doc.entries))

\* The checks of a document are those of all its entries.
LEMMA CompiledIs ==
  ASSUME NEW doc PROVE Compiled(doc) = UpTo(doc)[Len(doc.entries)]
  BY DEF Compiled, UpTo, Grows

\* There is such a function for every number of entries.
LEMMA GrowsExists ==
  ASSUME NEW doc, NEW n \in Nat PROVE \E f : Grows(doc, f, n)
  <1> DEFINE S == {m \in Nat : \E f : Grows(doc, f, m)}
  <1>1. 0 \in S
    <2> DEFINE f == [i \in 0..0 |-> <<>>]
    <2>1. Grows(doc, f, 0)
      BY DEF Grows
    <2> QED
      BY <2>1
  <1>2. ASSUME NEW m \in Nat, m \in S PROVE m + 1 \in S
    <2>1. PICK f : Grows(doc, f, m)
      BY <1>2
    <2>2. PICK g : g = [i \in 0..(m + 1) |-> IF i = m + 1 THEN f[m] \o Built(doc.entries[m + 1]) ELSE f[i]]
      OBVIOUS
    <2>3. \A i \in 0..m : f[i] = IF i = 0 THEN <<>> ELSE f[i - 1] \o Built(doc.entries[i])
      BY <2>1 DEF Grows
    <2>4. \A i \in 0..(m + 1) : g[i] = IF i = 0 THEN <<>> ELSE g[i - 1] \o Built(doc.entries[i])
      <3>1. TAKE i \in 0..(m + 1)
      <3>2. CASE i = m + 1
        <4>1. i # 0 /\ i - 1 = m /\ m \in 0..(m + 1) /\ m # m + 1
          BY <3>2
        <4>2. g[i] = f[m] \o Built(doc.entries[i]) /\ g[m] = f[m]
          BY <2>2, <3>2, <4>1
        <4> QED
          BY <4>1, <4>2
      <3>3. CASE i # m + 1
        <4>1. i \in 0..m /\ g[i] = f[i]
          BY <2>2, <3>3
        <4>2. i # 0 => g[i - 1] = f[i - 1]
          BY <2>2, <4>1
        <4> QED
          BY <2>3, <4>1, <4>2
      <3> QED
        BY <3>2, <3>3
    <2>5. Grows(doc, g, m + 1)
      BY <2>2, <2>4 DEF Grows
    <2> QED
      BY <2>5
  <1>3. Nat \subseteq S
    <2> HIDE DEF S
    <2> QED
      BY <1>1, <1>2, Induction
  <1> QED
    BY <1>3

\* What compilePolicy() has built after i entries.
LEMMA UpToStep ==
  ASSUME NEW doc, Len(doc.entries) \in Nat
  PROVE  /\ UpTo(doc)[0] = <<>>
         /\ \A i \in 1..Len(doc.entries) :
              UpTo(doc)[i] = UpTo(doc)[i - 1] \o Built(doc.entries[i])
  <1>1. \E f : Grows(doc, f, Len(doc.entries))
    BY GrowsExists
  <1>2. Grows(doc, UpTo(doc), Len(doc.entries))
    BY <1>1 DEF UpTo
  <1>3. PICK f, n : f = UpTo(doc) /\ n = Len(doc.entries)
    OBVIOUS
  <1>4. f = [i \in 0..n |-> IF i = 0 THEN <<>> ELSE f[i - 1] \o Built(doc.entries[i])]
    BY <1>2, <1>3 DEF Grows
  <1>5. n \in Nat
    BY <1>3
  <1>6. f[0] = <<>>
    BY <1>4, <1>5
  <1>7. \A i \in 1..n : f[i] = f[i - 1] \o Built(doc.entries[i])
    <2>1. TAKE i \in 1..n
    <2>2. i \in 0..n /\ i # 0
      BY <1>5
    <2> QED
      BY <1>4, <2>2
  <1> QED
    BY <1>3, <1>6, <1>7

-----------------------------------------------------------------------------
(* What a document is made of *)

\* A check of the library, under the id its factory gives it.
FromLibrary(c) ==
  /\ DOMAIN c = {"kind", "id", "counter", "limit", "spares", "shadow"}
  /\ c.kind \in KnownChecks /\ KeyForId(c.id) = c.kind

\* Each factory makes checks of the library.
LEMMA PlainChecks ==
  ASSUME NEW kind \in KnownChecks PROVE FromLibrary(Plain(kind))
  BY DEF Plain, FromLibrary, KeyForId

LEMMA BudgetChecks ==
  ASSUME NEW kind \in KnownChecks, NEW limit PROVE FromLibrary(Budget(kind, limit))
  BY DEF Budget, Plain, FromLibrary, KeyForId

LEMMA NamedChecks ==
  ASSUME NEW name, name # "" PROVE FromLibrary(Consent(name)) /\ FromLibrary(Window(name))
  BY DEF Consent, Window, Named, Plain, FromLibrary, KeyForId, KnownChecks

LEMMA RateChecks ==
  ASSUME NEW name, name # "", NEW limit, NEW keyBy, NEW perSeconds
  PROVE  FromLibrary(RateLimit(name, limit, keyBy, perSeconds))
  BY DEF RateLimit, Named, Plain, FromLibrary, KeyForId, KnownChecks

LEMMA SparingChecks ==
  ASSUME NEW who, NEW c, FromLibrary(c) PROVE FromLibrary(Sparing(who, c))
  BY DEF Sparing, FromLibrary

\* The factories make checks of the library.
LEMMA MadeChecks ==
  ASSUME NEW id \in KnownChecks, NEW opts PROVE FromLibrary(Made(id, opts))
  <1>0. DOMAIN DefaultLimit = {"dailyBudget", "weeklyBudget", "monthlyBudget", "windowBudget"}
    BY DEF DefaultLimit
  <1>1. CASE id \in DOMAIN DefaultLimit
    <2>1. Made(id, opts) = Budget(id, LimitOf(id, opts))
      BY <1>0, <1>1 DEF Made
    <2> QED
      BY <2>1, BudgetChecks
  <1>2. CASE id = "rateLimit"
    <2>1. \E limit, keyBy, per : Made(id, opts) = RateLimit("own", limit, keyBy, per)
      BY <1>0, <1>2 DEF Made
    <2> QED
      BY <2>1, RateChecks
  <1>3. CASE id = "dedupe"
    <2>1. Made(id, opts) = Budget(id, 1)
      BY <1>0, <1>3 DEF Made
    <2> QED
      BY <2>1, BudgetChecks
  <1>4. CASE id = "requiresConsent"
    <2>1. Made(id, opts) = Consent("own")
      BY <1>0, <1>4 DEF Made
    <2> QED
      BY <2>1, NamedChecks
  <1>5. CASE id \notin DOMAIN DefaultLimit \cup {"rateLimit", "dedupe", "requiresConsent"}
    <2>1. Made(id, opts) = Plain(id)
      BY <1>5 DEF Made
    <2> QED
      BY <2>1, PlainChecks
  <1> QED
    BY <1>1, <1>2, <1>3, <1>4, <1>5

\* A list of checks of the library.
Listed(s) == s \in Seq({s[i] : i \in DOMAIN s}) /\ \A i \in DOMAIN s : FromLibrary(s[i])

\* A sequence is one of its own elements.
LEMMA OwnElements ==
  ASSUME NEW S, NEW q \in Seq(S) PROVE q \in Seq({q[i] : i \in DOMAIN q})
  OBVIOUS

\* Two lists of checks make a list.
LEMMA JoinListed ==
  ASSUME NEW s, NEW t, Listed(s), Listed(t)
  PROVE  /\ Listed(s \o t) /\ Len(s \o t) = Len(s) + Len(t)
         /\ Len(s) \in Nat /\ Len(t) \in Nat /\ DOMAIN (s \o t) = 1..(Len(s) + Len(t))
         /\ \A i \in 1..(Len(s) + Len(t)) : (s \o t)[i] = IF i <= Len(s) THEN s[i] ELSE t[i - Len(s)]
  <1>1. PICK S : S = {s[i] : i \in DOMAIN s} \cup {t[i] : i \in DOMAIN t}
    OBVIOUS
  <1>2. s \in Seq(S) /\ t \in Seq(S)
    BY <1>1, SeqMonotonic DEF Listed
  <1>3. Len(s) \in Nat /\ Len(t) \in Nat /\ DOMAIN s = 1..Len(s) /\ DOMAIN t = 1..Len(t)
    BY <1>2
  <1>4. PICK q : q = s \o t
    OBVIOUS
  <1>5. /\ q \in Seq(S) /\ Len(q) = Len(s) + Len(t)
        /\ \A i \in 1..(Len(s) + Len(t)) : q[i] = IF i <= Len(s) THEN s[i] ELSE t[i - Len(s)]
    BY <1>2, <1>4, ConcatProperties
  <1>6. DOMAIN q = 1..(Len(s) + Len(t))
    BY <1>5
  <1>7. \A i \in DOMAIN q : FromLibrary(q[i])
    <2>1. TAKE i \in DOMAIN q
    <2>2. i <= Len(s) => i \in DOMAIN s
      BY <1>3, <1>6
    <2>3. ~(i <= Len(s)) => i - Len(s) \in DOMAIN t
      BY <1>3, <1>6
    <2>4. q[i] = IF i <= Len(s) THEN s[i] ELSE t[i - Len(s)]
      BY <1>5, <1>6
    <2> QED
      BY <2>2, <2>3, <2>4 DEF Listed
  <1>8. Listed(q)
    BY <1>5, <1>7, OwnElements DEF Listed
  <1> QED
    BY <1>3, <1>4, <1>5, <1>6, <1>8

\* Lists of few checks.
LEMMA NoneListed == Listed(<<>>)
  BY DEF Listed

LEMMA OneListed ==
  ASSUME NEW a, FromLibrary(a) PROVE Listed(<<a>>)
  BY DEF Listed

LEMMA TwoListed ==
  ASSUME NEW a, NEW b, FromLibrary(a), FromLibrary(b) PROVE Listed(<<a, b>>)
  BY DEF Listed

LEMMA FiveListed ==
  ASSUME NEW a, NEW b, NEW c, NEW d, NEW e,
         FromLibrary(a), FromLibrary(b), FromLibrary(c), FromLibrary(d), FromLibrary(e)
  PROVE  Listed(<<a, b, c, d, e>>)
  BY DEF Listed

\* The rows of the table of presets.
LEMMA PresetRows ==
  ASSUME NEW opts
  PROVE  /\ Preset("lineMessagingApi", opts) = <<Plain("consent"), Budget("monthlyBudget", LinePlan(opts))>>
         /\ Preset("wechatSubscriptionMessage", opts) = <<Consent("subscription"), Budget("windowBudget", 1)>>
         /\ Preset("wechatCustomerService", opts) = <<Plain("recentInteraction"), Budget("windowBudget", 5)>>
         /\ Preset("wechatTemplateMessage", opts) = <<Consent("templateTrigger"), RateLimit("template", 3, "user", 86400)>>
         /\ Preset("wecomAppMessage", opts) = <<RateLimit("30/min", 30, "user", 60), RateLimit("1000/h", 1000, "user", 3600)>>
         /\ Preset("kakaoAlimtalk", opts) = <<Plain("consent")>>
         /\ Preset("kakaoBrandMessage", opts) = <<Consent("ad"), Window("kakao")>>
         /\ Preset("krNetworkAct50", opts) = <<Consent("ad"), Consent("night")>>
         /\ Preset("jpAntiSpamLaw", opts) = <<Consent("optIn")>>
         /\ Preset("cnMinorMode", opts) = <<Minor(Window("minor")), Minor(Budget("dailyBudget", 1))>>
         /\ Preset("inTcccp", opts) =
              <<Consent("promotional"), Consent("band00to06"), Consent("band06to08"), Consent("band08to10"), Consent("band21to24")>>
         /\ Preset("brLgpd", opts) = <<Consent("marketing"), Minor(Consent("parental"))>>
         /\ Preset("usTcpa", opts) = <<Window("tcpa")>>
         /\ Preset("euEprivacy", opts) = <<Sparing("customers", Consent("marketing"))>>
         /\ Preset("telegramBot", opts) = <<RateLimit("1/s", 1, "channel", 1), RateLimit("20/min", 20, "channel", 60)>>
         /\ Preset("slackApp", opts) = <<RateLimit("1/s", 1, "channel", 1)>>
         /\ Preset("whatsappBusiness", opts) =
              <<Consent("whatsappOptIn")>>
              \o (IF <<"template", "boolean">> \in opts THEN <<>> ELSE <<Plain("recentInteraction")>>)
              \o <<RateLimit("waPair", 600, "user", 3600)>>
  BY DEF Preset

\* The checks of a preset are the library's, also those it wraps.
LEMMA PresetChecks ==
  ASSUME NEW name \in PresetNames, NEW opts PROVE Listed(Preset(name, opts))
  <1>a. {"consent", "recentInteraction", "monthlyBudget", "windowBudget", "dailyBudget"} \subseteq KnownChecks
    BY DEF KnownChecks, DefaultLimit
  <1>b. \A n \in {"subscription", "templateTrigger", "ad", "night", "optIn", "promotional", "band00to06",
                "band06to08", "band08to10", "band21to24", "marketing", "parental", "whatsappOptIn"} :
          FromLibrary(Consent(n))
    BY NamedChecks
  <1>c. \A n \in {"kakao", "minor", "tcpa"} : FromLibrary(Window(n))
    BY NamedChecks
  <1>d. \A n \in {"template", "30/min", "1000/h", "1/s", "20/min", "waPair"} :
          \A limit, keyBy, per : FromLibrary(RateLimit(n, limit, keyBy, per))
    BY RateChecks
  <1>1. Listed(Preset("lineMessagingApi", opts))
    BY <1>a, PlainChecks, BudgetChecks, TwoListed, PresetRows
  <1>2. Listed(Preset("wechatSubscriptionMessage", opts))
    BY <1>a, <1>b, <1>c, BudgetChecks, TwoListed, PresetRows
  <1>3. Listed(Preset("wechatCustomerService", opts))
    BY <1>a, PlainChecks, BudgetChecks, TwoListed, PresetRows
  <1>4. Listed(Preset("wechatTemplateMessage", opts))
    BY <1>b, <1>c, <1>d, TwoListed, PresetRows
  <1>5. Listed(Preset("wecomAppMessage", opts))
    BY <1>d, TwoListed, PresetRows
  <1>6. Listed(Preset("kakaoAlimtalk", opts))
    BY <1>a, PlainChecks, OneListed, PresetRows
  <1>7. Listed(Preset("kakaoBrandMessage", opts))
    BY <1>b, <1>c, TwoListed, PresetRows
  <1>8. Listed(Preset("krNetworkAct50", opts))
    BY <1>b, <1>c, TwoListed, PresetRows
  <1>9. Listed(Preset("jpAntiSpamLaw", opts))
    BY <1>b, <1>c, OneListed, PresetRows
  <1>10. Listed(Preset("cnMinorMode", opts))
    BY <1>a, <1>b, <1>c, BudgetChecks, SparingChecks, TwoListed, PresetRows DEF Minor
  <1>11. Listed(Preset("inTcccp", opts))
    BY <1>b, <1>c, FiveListed, PresetRows
  <1>12. Listed(Preset("brLgpd", opts))
    BY <1>b, <1>c, SparingChecks, TwoListed, PresetRows DEF Minor
  <1>13. Listed(Preset("usTcpa", opts))
    BY <1>b, <1>c, OneListed, PresetRows
  <1>14. Listed(Preset("euEprivacy", opts))
    BY <1>b, <1>c, SparingChecks, OneListed, PresetRows
  <1>15. Listed(Preset("telegramBot", opts))
    BY <1>d, TwoListed, PresetRows
  <1>16. Listed(Preset("slackApp", opts))
    BY <1>d, OneListed, PresetRows
  <1>17. Listed(Preset("whatsappBusiness", opts))
    <2> DEFINE first == <<Consent("whatsappOptIn")>>
               last == <<RateLimit("waPair", 600, "user", 3600)>>
               middle == IF <<"template", "boolean">> \in opts THEN <<>> ELSE <<Plain("recentInteraction")>>
    <2>2. Preset("whatsappBusiness", opts) = first \o middle \o last
      BY PresetRows
    <2>3. Listed(first) /\ Listed(last)
      BY <1>b, <1>d, OneListed
    <2>4. Listed(middle)
      BY <1>a, OneListed, NoneListed, PlainChecks
    <2> HIDE DEF first, middle, last
    <2>5. Listed(first \o middle)
      BY <2>3, <2>4, JoinListed
    <2>6. Listed((first \o middle) \o last)
      BY <2>3, <2>5, JoinListed
    <2> QED
      BY <2>2, <2>6
  <1> QED
    BY <1>1, <1>2, <1>3, <1>4, <1>5, <1>6, <1>7, <1>8, <1>9, <1>10, <1>11, <1>12, <1>13, <1>14,
       <1>15, <1>16, <1>17 DEF PresetNames

\* What an entry builds is of the library, and bears the mark of the entry.
LEMMA BuiltChecks ==
  ASSUME NEW e, Builds(e)
  PROVE  Listed(Built(e)) /\ \A m \in DOMAIN Built(e) : Built(e)[m].shadow = (e.shadow = "true")
  <1>1. PICK s : s = IF e.preset # Absent THEN Preset(e.preset, e.options) ELSE <<Made(e.id, e.options)>>
    OBVIOUS
  <1>2. Listed(s)
    <2>1. CASE e.preset # Absent
      BY <1>1, <2>1, PresetChecks DEF Builds
    <2>2. CASE e.preset = Absent
      <3>1. e.id \in KnownChecks
        BY <2>2 DEF Builds
      <3>2. FromLibrary(Made(e.id, e.options))
        BY <3>1, MadeChecks
      <3> QED
        BY <1>1, <2>2, <3>2, OneListed
    <2> QED
      BY <2>1, <2>2
  <1>3. PICK q : q = [i \in DOMAIN s |-> [s[i] EXCEPT !.shadow = (e.shadow = "true")]]
    OBVIOUS
  <1>4. Built(e) = q
    BY <1>1, <1>3 DEF Built, Marked
  <1>5. DOMAIN s = 1..Len(s) /\ Len(s) \in Nat
    BY <1>2 DEF Listed
  <1>6. q \in Seq({q[i] : i \in DOMAIN q})
    BY <1>3, <1>5
  <1>7. \A i \in DOMAIN q : FromLibrary(q[i]) /\ q[i].shadow = (e.shadow = "true")
    <2>1. TAKE i \in DOMAIN q
    <2>2. PICK c, mark : c = s[i] /\ mark = (e.shadow = "true")
      OBVIOUS
    <2>3. q[i] = [c EXCEPT !.shadow = mark] /\ FromLibrary(c)
      BY <1>2, <1>3, <2>2 DEF Listed
    <2>4. [c EXCEPT !.shadow = mark].shadow = mark
      BY <2>3 DEF FromLibrary
    <2>5. FromLibrary([c EXCEPT !.shadow = mark])
      BY <2>3 DEF FromLibrary
    <2> QED
      BY <2>2, <2>3, <2>4, <2>5
  <1>8. Listed(q)
    BY <1>6, <1>7 DEF Listed
  <1> QED
    BY <1>4, <1>7, <1>8, Zenon

\* A document cut off after its first entries.
First(doc, n) == [doc EXCEPT !.entries = SubSeq(@, 1, n)]

\* Such a document has the first entries of the whole one.
LEMMA FirstEntries ==
  ASSUME NEW doc, IsDocument(doc), NEW n \in 0..Len(doc.entries)
  PROVE  /\ Len(doc.entries) \in Nat /\ DOMAIN doc.entries = 1..Len(doc.entries)
         /\ Len(First(doc, n).entries) = n
         /\ \A i \in 1..n : First(doc, n).entries[i] = doc.entries[i]
  <1>1. PICK s : s = doc.entries
    OBVIOUS
  <1>2. First(doc, n).entries = SubSeq(s, 1, n)
    BY <1>1 DEF First, IsDocument
  <1>3. PICK S : s \in Seq(S)
    BY <1>1 DEF IsDocument
  <1>4. Len(s) \in Nat /\ DOMAIN s = 1..Len(s) /\ n \in Nat /\ n <= Len(s)
    BY <1>1, <1>3
  <1>5. Len(SubSeq(s, 1, n)) = n /\ \A i \in 1..n : SubSeq(s, 1, n)[i] = s[i]
    BY <1>3, <1>4
  <1> QED
    BY <1>1, <1>2, <1>4, <1>5

\* Compiling the first entries builds what the whole document begins with.
LEMMA CompiledFirst ==
  ASSUME NEW doc, IsDocument(doc), NEW n \in 0..Len(doc.entries)
  PROVE  Compiled(First(doc, n)) = UpTo(doc)[n]
  <1>1. PICK short : short = First(doc, n)
    OBVIOUS
  <1>2. /\ Len(doc.entries) \in Nat /\ Len(short.entries) = n /\ n \in Nat
        /\ \A i \in 1..n : short.entries[i] = doc.entries[i]
    BY <1>1, FirstEntries
  <1>3. /\ UpTo(doc)[0] = <<>> /\ UpTo(short)[0] = <<>>
        /\ \A i \in 1..n : UpTo(doc)[i] = UpTo(doc)[i - 1] \o Built(doc.entries[i])
        /\ \A i \in 1..n : UpTo(short)[i] = UpTo(short)[i - 1] \o Built(short.entries[i])
    <2>1. 1..n \subseteq 1..Len(doc.entries)
      BY <1>2
    <2>2. /\ UpTo(doc)[0] = <<>>
          /\ \A i \in 1..Len(doc.entries) : UpTo(doc)[i] = UpTo(doc)[i - 1] \o Built(doc.entries[i])
      BY <1>2, UpToStep
    <2>3. /\ UpTo(short)[0] = <<>>
          /\ \A i \in 1..Len(short.entries) : UpTo(short)[i] = UpTo(short)[i - 1] \o Built(short.entries[i])
      BY <1>2, UpToStep
    <2>4. Len(short.entries) = n
      BY <1>2
    <2>5. \A i \in 1..n : UpTo(short)[i] = UpTo(short)[i - 1] \o Built(short.entries[i])
      BY <2>3, <2>4
    <2> QED
      BY <2>1, <2>2, <2>3, <2>5
  <1> DEFINE S == {i \in Nat : i <= n => UpTo(short)[i] = UpTo(doc)[i]}
  <1>4. 0 \in S
    BY <1>3
  <1>5. ASSUME NEW i \in Nat, i \in S PROVE i + 1 \in S
    <2>1. SUFFICES ASSUME i + 1 <= n PROVE UpTo(short)[i + 1] = UpTo(doc)[i + 1]
      OBVIOUS
    <2>2. i + 1 \in 1..n /\ (i + 1) - 1 = i /\ UpTo(short)[i] = UpTo(doc)[i]
      BY <1>2, <1>5, <2>1
    <2>3. short.entries[i + 1] = doc.entries[i + 1]
      BY <1>2, <2>2
    <2> QED
      BY <1>3, <2>2, <2>3
  <1>6. Nat \subseteq S
    <2> HIDE DEF S
    <2> QED
      BY <1>4, <1>5, Induction
  <1>7. UpTo(short)[n] = UpTo(doc)[n]
    BY <1>2, <1>6
  <1> QED
    BY <1>1, <1>2, <1>7, CompiledIs

\* Every entry appends checks to what was built before.
LEMMA EntriesAppend ==
  ASSUME NEW doc, IsDocument(doc), Compiles(doc), NEW n \in 0..Len(doc.entries)
  PROVE  Listed(UpTo(doc)[n])
  <1>1. Len(doc.entries) \in Nat /\ DOMAIN doc.entries = 1..Len(doc.entries)
    BY FirstEntries
  <1>2. /\ UpTo(doc)[0] = <<>>
        /\ \A i \in 1..Len(doc.entries) : UpTo(doc)[i] = UpTo(doc)[i - 1] \o Built(doc.entries[i])
    BY <1>1, UpToStep
  <1>3. \A i \in 1..Len(doc.entries) : Listed(Built(doc.entries[i]))
    BY <1>1, BuiltChecks DEF Compiles
  <1> DEFINE S == {i \in Nat : i <= Len(doc.entries) => Listed(UpTo(doc)[i])}
  <1>4. 0 \in S
    BY <1>2, NoneListed
  <1>5. ASSUME NEW i \in Nat, i \in S PROVE i + 1 \in S
    <2>1. SUFFICES ASSUME i + 1 <= Len(doc.entries) PROVE Listed(UpTo(doc)[i + 1])
      OBVIOUS
    <2>2. i + 1 \in 1..Len(doc.entries) /\ (i + 1) - 1 = i /\ Listed(UpTo(doc)[i])
      BY <1>1, <1>5, <2>1
    <2>3. UpTo(doc)[i + 1] = UpTo(doc)[i] \o Built(doc.entries[i + 1])
      BY <1>2, <2>2
    <2> QED
      BY <1>3, <2>2, <2>3, JoinListed
  <1>6. Nat \subseteq S
    <2> HIDE DEF S
    <2> QED
      BY <1>4, <1>5, Induction
  <1> QED
    BY <1>1, <1>6

\* Later entries leave the checks of earlier ones where they are.
LEMMA EarlierStay ==
  ASSUME NEW doc, IsDocument(doc), Compiles(doc), NEW n \in 0..Len(doc.entries)
  PROVE  /\ Len(UpTo(doc)[n]) <= Len(Compiled(doc))
         /\ \A i \in 1..Len(UpTo(doc)[n]) : Compiled(doc)[i] = UpTo(doc)[n][i]
  <1> DEFINE all == Len(doc.entries)
             Stays(m) == /\ Len(UpTo(doc)[n]) <= Len(UpTo(doc)[m])
                         /\ \A i \in 1..Len(UpTo(doc)[n]) : UpTo(doc)[m][i] = UpTo(doc)[n][i]
             S == {k \in Nat : n + k <= all => Stays(n + k)}
  <1>1. all \in Nat /\ DOMAIN doc.entries = 1..all /\ n \in Nat /\ n <= all
    BY FirstEntries
  <1>2. \A m \in 0..all : Listed(UpTo(doc)[m]) /\ Len(UpTo(doc)[m]) \in Nat
    <2>1. ASSUME NEW m \in 0..all PROVE Listed(UpTo(doc)[m])
      BY EntriesAppend
    <2>2. ASSUME NEW s, Listed(s) PROVE Len(s) \in Nat
      BY <2>2 DEF Listed
    <2> QED
      BY <2>1, <2>2
  <1>3. 0 \in S
    <2>1. n + 0 = n /\ n \in 0..all
      BY <1>1
    <2>2. Stays(n)
      BY <1>2, <2>1
    <2> QED
      BY <2>1, <2>2
  <1>4. ASSUME NEW k \in Nat, k \in S PROVE k + 1 \in S
    <2>1. SUFFICES ASSUME n + (k + 1) <= all PROVE Stays(n + (k + 1))
      OBVIOUS
    <2>2. PICK m : m = n + (k + 1)
      OBVIOUS
    <2>3. m \in 1..all /\ m - 1 \in 0..all /\ n + k = m - 1
      BY <1>1, <2>1, <2>2
    <2>4. Stays(m - 1)
      BY <1>1, <1>4, <2>3
    <2>5. UpTo(doc)[m] = UpTo(doc)[m - 1] \o Built(doc.entries[m])
      BY <1>1, <2>3, UpToStep
    <2>6. PICK s, t, u : s = UpTo(doc)[m - 1] /\ t = Built(doc.entries[m]) /\ u = UpTo(doc)[n]
      OBVIOUS
    <2>7. Listed(s) /\ Listed(t) /\ Len(u) \in Nat
      BY <1>1, <1>2, <2>3, <2>6, BuiltChecks DEF Compiles
    <2>8. /\ Len(s \o t) = Len(s) + Len(t) /\ Len(s) \in Nat /\ Len(t) \in Nat
          /\ \A i \in 1..(Len(s) + Len(t)) : (s \o t)[i] = IF i <= Len(s) THEN s[i] ELSE t[i - Len(s)]
      BY <2>7, JoinListed
    <2>9. Len(u) <= Len(s) /\ \A i \in 1..Len(u) : s[i] = u[i]
      BY <2>4, <2>6
    <2>10. Len(u) <= Len(s \o t) /\ \A i \in 1..Len(u) : (s \o t)[i] = u[i]
      BY <2>7, <2>8, <2>9
    <2> QED
      BY <2>2, <2>5, <2>6, <2>10
  <1>5. Nat \subseteq S
    <2> HIDE DEF S
    <2> QED
      BY <1>3, <1>4, Induction
  <1>6. PICK k \in Nat : n + k = all
    <2>1. all - n \in Nat /\ n + (all - n) = all
      BY <1>1
    <2> QED
      BY <2>1
  <1>7. Stays(all)
    <2>1. k \in S
      BY <1>5
    <2>2. Stays(n + k)
      BY <1>1, <1>6, <2>1
    <2> QED
      BY <1>6, <2>2
  <1> QED
    BY <1>7, CompiledIs

\* The check at a place of a compiled document comes from the entry it is said to
\* come from, is of the library, and bears the entry's mark.
LEMMA EntryIsItsOwn ==
  ASSUME NEW doc, IsDocument(doc), Compiles(doc), NEW i \in DOMAIN Compiled(doc)
  PROVE  /\ FromLibrary(Compiled(doc)[i])
         /\ EntryOf(doc, i) \in DOMAIN doc.entries
         /\ Compiled(doc)[i].shadow = (doc.entries[EntryOf(doc, i)].shadow = "true")
  <1> DEFINE all == Len(doc.entries)
             Size(n) == Len(UpTo(doc)[n])
             Is(k) == k \in DOMAIN doc.entries /\ i <= Size(k) /\ i > Size(k - 1)
  <1>1. all \in Nat /\ DOMAIN doc.entries = 1..all
    BY FirstEntries
  <1>2. Listed(Compiled(doc))
    <2>1. all \in 0..all
      BY <1>1
    <2>2. Listed(UpTo(doc)[all])
      BY <2>1, EntriesAppend
    <2> QED
      BY <2>2, CompiledIs
  <1>3. FromLibrary(Compiled(doc)[i])
    BY <1>2 DEF Listed
  <1>4. i \in Nat /\ i >= 1 /\ i <= Size(all)
    BY <1>2, CompiledIs DEF Listed
  <1>5. Size(0) = 0 /\ \A n \in 0..all : Size(n) \in Nat
    <2>1. ASSUME NEW s, Listed(s) PROVE Len(s) \in Nat
      BY <2>1 DEF Listed
    <2>2. UpTo(doc)[0] = <<>>
      BY <1>1, UpToStep
    <2> QED
      BY <1>1, <2>1, <2>2, EntriesAppend
  <1>6. \E k : Is(k)
    <2> DEFINE T == {k \in 0..all : i <= Size(k)}
    <2>1. all \in T
      BY <1>1, <1>4
    <2>2. PICK k \in T : \A y \in T : k <= y
      <3> HIDE DEF T
      <3>1. T \in SUBSET Nat /\ T # {}
        BY <2>1 DEF T
      <3> QED
        BY <3>1, LeastOf
    <2>3. k # 0
      BY <1>4, <1>5
    <2>4. k \in 1..all /\ k - 1 \in 0..all /\ k - 1 \notin T
      BY <1>1, <2>2, <2>3
    <2>5. i > Size(k - 1)
      BY <1>4, <1>5, <2>4
    <2> QED
      BY <1>1, <2>2, <2>4, <2>5
  <1>7. \A k \in DOMAIN doc.entries :
          /\ Compiled([doc EXCEPT !.entries = SubSeq(@, 1, k)]) = UpTo(doc)[k]
          /\ Compiled([doc EXCEPT !.entries = SubSeq(@, 1, k - 1)]) = UpTo(doc)[k - 1]
    <2>1. TAKE k \in DOMAIN doc.entries
    <2>2. k \in 0..all /\ k - 1 \in 0..all
      BY <1>1
    <2>3. Compiled(First(doc, k)) = UpTo(doc)[k] /\ Compiled(First(doc, k - 1)) = UpTo(doc)[k - 1]
      BY <2>2, CompiledFirst
    <2> QED
      BY <2>3 DEF First
  <1>8. PICK k : k = EntryOf(doc, i)
    OBVIOUS
  <1>9. Is(k)
    <2>1. k = CHOOSE x \in DOMAIN doc.entries :
                /\ i <= Len(Compiled([doc EXCEPT !.entries = SubSeq(@, 1, x)]))
                /\ i > Len(Compiled([doc EXCEPT !.entries = SubSeq(@, 1, x - 1)]))
      BY <1>8 DEF EntryOf
    <2>2. \E x \in DOMAIN doc.entries :
                /\ i <= Len(Compiled([doc EXCEPT !.entries = SubSeq(@, 1, x)]))
                /\ i > Len(Compiled([doc EXCEPT !.entries = SubSeq(@, 1, x - 1)]))
      BY <1>6, <1>7
    <2>3. /\ k \in DOMAIN doc.entries
          /\ i <= Len(Compiled([doc EXCEPT !.entries = SubSeq(@, 1, k)]))
          /\ i > Len(Compiled([doc EXCEPT !.entries = SubSeq(@, 1, k - 1)]))
      BY <2>1, <2>2
    <2> QED
      BY <1>7, <2>3
  <1>10. k \in 1..all /\ k \in 0..all /\ k - 1 \in 0..all
    BY <1>1, <1>9
  <1>11. Compiled(doc)[i] = UpTo(doc)[k][i]
    <2>1. i \in 1..Size(k)
      BY <1>4, <1>5, <1>9, <1>10
    <2> QED
      BY <1>10, <2>1, EarlierStay
  <1>12. PICK s, t : s = UpTo(doc)[k - 1] /\ t = Built(doc.entries[k])
    OBVIOUS
  <1>13. UpTo(doc)[k] = s \o t
    BY <1>1, <1>10, <1>12, UpToStep
  <1>14. /\ Listed(s) /\ Listed(t)
         /\ \A m \in DOMAIN t : t[m].shadow = (doc.entries[k].shadow = "true")
    <2>1. Builds(doc.entries[k])
      BY <1>9 DEF Compiles
    <2> QED
      BY <1>10, <1>12, <2>1, EntriesAppend, BuiltChecks
  <1>15. /\ Len(s \o t) = Len(s) + Len(t) /\ Len(s) \in Nat /\ Len(t) \in Nat
         /\ \A j \in 1..(Len(s) + Len(t)) : (s \o t)[j] = IF j <= Len(s) THEN s[j] ELSE t[j - Len(s)]
    BY <1>14, JoinListed
  <1>16. i <= Len(s) + Len(t) /\ i > Len(s)
    BY <1>9, <1>12, <1>13, <1>15
  <1>17. i - Len(s) \in 1..Len(t) /\ (s \o t)[i] = t[i - Len(s)]
    BY <1>4, <1>15, <1>16
  <1>18. DOMAIN t = 1..Len(t)
    BY <1>14 DEF Listed
  <1>19. Compiled(doc)[i].shadow = (doc.entries[k].shadow = "true")
    BY <1>11, <1>13, <1>14, <1>17, <1>18, Zenon
  <1> QED
    BY <1>3, <1>8, <1>9, <1>19, Zenon

-----------------------------------------------------------------------------
(* The gate of a document *)

\* The gate is the document's throughout, an evaluation begins only on all of its
\* checks, and a decision in favour names nobody.
SetupInv ==
  /\ document # Absent =>
       /\ document \in Documents
       /\ checks = IF Compiles(document) THEN Compiled(document) ELSE <<>>
       /\ options.shadow = ShadowOf(checks)
       /\ options.onStoreError = "closed" => document.onStoreError = "closed"
  /\ document = Absent => \E hand \in HandWritten : checks = hand.checks
  /\ Ran # {} => Len(checks) = NumChecks
  /\ pc # "loop" /\ decision.verdict = "allowed" => decision.by = None

\* A new gate is set up.
LEMMA SetupInit ==
  ASSUME ExplainInit PROVE SetupInv
  <1>1. CASE document # Absent /\ document \in Documents
    BY <1>1 DEF ExplainInit, Init, SetupInv, Ran
  <1>2. CASE document = Absent
    BY <1>2, DocumentAssumption DEF ExplainInit, Init, SetupInv, Ran
  <1> QED
    BY <1>1, <1>2 DEF ExplainInit

\* It stays so.
LEMMA SetupStep ==
  ASSUME SetupInv, [ExplainNext]_explainVars PROVE SetupInv'
  <1>1. ASSUME UNCHANGED <<document, checks, options>> PROVE ShadowOf(checks)' = ShadowOf(checks)
    BY <1>1 DEF ShadowOf
  <1>2. CASE UNCHANGED explainVars
    BY <1>1, <1>2 DEF explainVars, vars, SetupInv, Ran
  <1>3. CASE NoneStops
    BY <1>1, <1>3 DEF NoneStops, Allow, Finish, SetupInv, Ran
  <1>4. ASSUME NEW o, NEW reason, Speaks, Speak(o, reason) PROVE SetupInv'
    <2>1. UNCHANGED <<document, checks, options>> /\ Len(checks) = NumChecks /\ pc = "loop"
      BY <1>4 DEF Speak, Speaks, FailOpen, FailClosed, Ignore, Note, Stop, Adjust, Pass
    <2>2. \/ pc' = pc /\ decision' = decision
          \/ decision'.verdict \in {"rejected", "deferred"}
      <3>1. CASE FailOpen(o) \/ Ignore(o) \/ Note(o) \/ Adjust(o) \/ Pass(o)
        BY <3>1 DEF FailOpen, Ignore, Note, Adjust, Pass, Continue
      <3>2. CASE FailClosed(o)
        BY <3>2 DEF FailClosed, Finish
      <3>3. CASE Stop(o)
        BY <3>3 DEF Stop, Finish
      <3> QED
        BY <1>4, <3>1, <3>2, <3>3 DEF Speak
    <2> QED
      BY <1>1, <2>1, <2>2 DEF SetupInv
  <1> QED
    BY <1>2, <1>3, <1>4 DEF ExplainNext

\* Who decided against the message is a check of the policy, entitled to.
LEMMA DeciderIsEntitled ==
  ASSUME ExplainInv, SetupInv, pc # "loop", decision.by # None
  PROVE  decision.by \in Ran /\ EntitledToStop(decision.by) /\ Len(checks) = NumChecks
  <1>1. decision.verdict # "allowed"
    BY DEF SetupInv
  <1>2. decision.by \in Ran
    BY <1>1, LastIsTheDeciders DEF ExplainInv
  <1>3. EntitledToStop(decision.by)
    BY <1>1, <1>2 DEF ExplainInv, Inv, FirstStopDecides
  <1> QED
    BY <1>2, <1>3 DEF SetupInv

\* DocumentsAreHonoured, in a gate set up that way.
LEMMA InvHonours ==
  ASSUME ExplainInv, SetupInv
  PROVE  DocumentsAreHonoured
  <1>1. SUFFICES ASSUME document # Absent, Accepts(document)
                 PROVE  /\ Compiles(document)
                        /\ \A k \in DOMAIN document.entries :
                             LET e == document.entries[k]
                             IN  e.id # Absent => \A o \in e.options : Reads(e.id, o[1], o[2])
                        /\ pc # "loop" /\ decision.by # None =>
                             \/ document.entries[EntryOf(document, decision.by)].shadow # "true"
                             \/ said[decision.by].kind = "throws" /\ document.onStoreError = "closed"
    BY DEF DocumentsAreHonoured
  <1>2. Compiles(document)
    BY <1>1, AcceptedDocumentsCompile
  <1>3. ASSUME NEW k \in DOMAIN document.entries, document.entries[k].id # Absent,
               NEW o \in document.entries[k].options
        PROVE  Reads(document.entries[k].id, o[1], o[2])
    <2>1. AcceptsEntry(document.entries[k])
      BY <1>1, <1>3 DEF Accepts
    <2>2. Documented(document.entries[k].id, o[1], o[2])
      BY <1>3, <2>1 DEF AcceptsEntry
    <2> QED
      BY <2>2, DocumentedIsUsable
  <1>4. ASSUME pc # "loop", decision.by # None
        PROVE  \/ document.entries[EntryOf(document, decision.by)].shadow # "true"
               \/ said[decision.by].kind = "throws" /\ document.onStoreError = "closed"
    <2>1. PICK d : d = decision.by
      OBVIOUS
    <2>2. d \in Ran /\ EntitledToStop(d) /\ Len(checks) = NumChecks
      BY <1>4, <2>1, DeciderIsEntitled
    <2>3. /\ IsDocument(document) /\ checks = Compiled(document) /\ options.shadow = ShadowOf(checks)
          /\ options.onStoreError = "closed" => document.onStoreError = "closed"
      BY <1>1, <1>2, DocumentAssumption DEF SetupInv
    <2>4. CASE said[d].kind = "throws" /\ options.onStoreError = "closed"
      BY <2>1, <2>3, <2>4
    <2>5. CASE d \notin options.shadow
      <3>1. d \in 1..NumChecks
        BY <2>2, NumChecksAssumption DEF Ran, ExplainInv, Inv, TypeOK
      <3>2. Listed(checks)
        <4>1. PICK n : n = Len(document.entries)
          OBVIOUS
        <4>2. n \in 0..n
          BY <2>3, <4>1 DEF IsDocument
        <4> QED
          BY <1>2, <2>3, <4>1, <4>2, EntriesAppend, CompiledIs
      <3>3. d \in DOMAIN checks
        BY <2>2, <3>1, <3>2 DEF Listed
      <3>4. ~checks[d].shadow
        BY <2>3, <2>5, <3>1, <3>3 DEF ShadowOf, Checks
      <3>5. checks[d].shadow = (document.entries[EntryOf(document, d)].shadow = "true")
        BY <1>2, <2>3, <3>3, EntryIsItsOwn
      <3>6. document.entries[EntryOf(document, d)].shadow # "true"
        BY <3>4, <3>5, Zenon
      <3> QED
        BY <2>1, <3>6
    <2> QED
      BY <2>2, <2>4, <2>5 DEF EntitledToStop
  <1> QED
    BY <1>2, <1>3, <1>4

\* Every document the schema accepts, of any length and with any options, is
\* compiled without a throw, each option of its checks is read by its factory, and
\* no check of an entry in shadow mode decides, unless it throws in a gate that
\* fails closed (compilePolicy() and evaluate()).
THEOREM DocumentsHonoured == ExplainSpec => []DocumentsAreHonoured
  <1>1. ExplainInit => ExplainInv /\ SetupInv
    BY ExplainInitInv, SetupInit
  <1>2. ExplainInv /\ SetupInv /\ [ExplainNext]_explainVars => (ExplainInv /\ SetupInv)'
    BY ExplainStepInv, SetupStep
  <1>3. ExplainInv /\ SetupInv => DocumentsAreHonoured
    BY InvHonours
  <1> QED
    BY <1>1, <1>2, <1>3, PTL DEF ExplainSpec

-----------------------------------------------------------------------------
(* The sentences *)

Words == <<"custom", "words">>

\* What a check may say in an entry of this kind.
Says(check, kind, reason) ==
  LET k == check.kind IN
  \/ k = "custom" /\ reason = Words
  \/ kind \in {"reject", "defer"} /\ k \notin Timing /\ reason \in StopWords(k)
  \/ kind = "pass" /\ reason = Absent
  \/ kind = "pass" /\ k \in Counters /\ (reason = <<"counter", "used">> \/ reason = <<"counter", "odd used">>)
  \/ kind = "pass" /\ k = "requiresConsent" /\ (reason = <<k, "outside">> \/ reason = <<k, "odd outside">>)
  \/ kind = "pass" /\ check.spares # "nobody" /\ reason = <<"preset", "note">>
  \/ kind = "skip" /\ k \in Skipping /\ reason = <<k, "skip">>
  \/ kind = "adjust" /\ k \in Timing /\ (reason = <<k, "adjust">> \/ reason = <<k, "odd adjust">>)

\* The kind of the entry of an answer that is neither ignored nor a throw.
Shown(kind) == IF kind = "nearLimit" THEN "pass" ELSE kind

\* What is said of an answer is what its check can say.
LEMMA AnswersSay ==
  ASSUME NEW check, NEW a \in Answers(check), a[1].kind # "throws"
  PROVE  Says(check, Shown(a[1].kind), a[2])
  <1>1. PICK kind : kind = a[1].kind
    OBVIOUS
  <1>2. Tells(check, kind, a[2])
    BY <1>1, AnswersTell
  <1>3. CASE kind = "nearLimit"
    <2>1. Says(check, "pass", a[2])
      BY <1>2, <1>3, Zenon DEF Tells, Says, Words
    <2> QED
      BY <1>1, <1>3, <2>1 DEF Shown
  <1>4. CASE kind # "nearLimit"
    <2>2. kind # "throws"
      BY <1>1
    <2>3. "snooze" \notin Timing
      BY DEF Timing
    <2>4. <<"snooze", "stop">> \in StopWords("snooze")
      BY Zenon DEF StopWords
    <2>1. Says(check, kind, a[2])
      BY <1>2, <1>4, <2>2, <2>3, <2>4, Zenon DEF Tells, Says, Words
    <2> QED
      BY <1>1, <1>4, <2>1 DEF Shown
  <1> QED
    BY <1>3, <1>4

\* No check says what the gate does.
LEMMA SaysNotGate ==
  ASSUME NEW check, NEW kind, NEW reason, Says(check, kind, reason)
  PROVE  reason \notin GateEntries
  <1>1. PICK k : k = check.kind
    OBVIOUS
  <1>2. \A w \in {"stop", "odd stop", "odd period", "skip", "adjust", "odd adjust", "outside", "odd outside",
                  "used", "odd used", "note", "words"} : \A x : <<x, w>> \notin GateEntries
    BY GateEntriesAre
  <1>3. \/ reason = Absent
        \/ \E w \in {"stop", "odd stop", "odd period", "skip", "adjust", "odd adjust", "outside", "odd outside"} :
             reason = <<k, w>>
        \/ reason = <<"custom", "words">> \/ reason = <<"counter", "used">>
        \/ reason = <<"counter", "odd used">> \/ reason = <<"preset", "note">>
    <2>1. reason \in StopWords(k) =>
            reason = <<k, "stop">> \/ reason = <<k, "odd stop">> \/ reason = <<k, "odd period">>
      BY Zenon DEF StopWords
    <2> QED
      BY <1>1, <2>1, Zenon DEF Says, Words
  <1>4. Absent \notin GateEntries
    BY ReasonAssumption
  <1> QED
    BY <1>2, <1>3, <1>4

\* A stop is worded by the check that said it: by its id, or else by its wording.
LEMMA StopsAreWorded ==
  ASSUME NEW k, NEW id, k \in KnownChecks \ Timing, KeyForId(id) \in {k, Absent}
  PROVE  StopTemplate(id, <<k, "stop">>) = <<k, "reject">>
  <1>1. PICK reason : reason = <<k, "stop">>
    OBVIOUS
  <1>2. reason \notin GateEntries
    BY <1>1 DEF GateEntries
  <1>3. /\ \A x : Parses(x, "stop", reason) <=>
             x \in KnownChecks \ Timing /\ (x = k \/ (x \in Counters \ {"rateLimit"} /\ k \in Counters))
        /\ SoundsLikeBudget(reason) <=> k \in Counters
    BY <1>1, StopsParsed, BudgetSounds
  <1>4. CASE KeyForId(id) = k
    BY <1>1, <1>2, <1>3, <1>4 DEF StopTemplate
  <1>5. CASE KeyForId(id) = Absent
    <2> DEFINE sounds == {x \in KnownChecks : StopScan(x) /\ Parses(x, "stop", reason)}
    <2>1. ~Parses(KeyForId(id), "stop", reason)
      BY <1>3, <1>5, AbsentAssumption
    <2>2. StopTemplate(id, reason) =
            IF sounds # {} THEN <<CHOOSE x \in sounds : TRUE, "reject">>
            ELSE IF SoundsLikeBudget(reason)
                 THEN <<IF reason[1] = "rateLimit" THEN "budget" ELSE reason[1], "reject">>
                 ELSE <<"fallback", "stop">>
      BY <1>2, <2>1 DEF StopTemplate
    <2>3. CASE k \in Counters \ {"rateLimit"}
      <3>1. sounds = {}
        BY <1>3, <2>3 DEF StopScan, Counters
      <3>2. SoundsLikeBudget(reason) /\ reason[1] = k
        BY <1>1, <1>3, <2>3
      <3> HIDE DEF sounds
      <3> QED
        BY <1>1, <2>2, <2>3, <3>1, <3>2
    <2>4. CASE k \notin Counters \ {"rateLimit"}
      <3>1. sounds = {k}
        BY <1>3, <2>4 DEF StopScan, Counters
      <3>2. (CHOOSE x \in sounds : TRUE) = k
        BY <3>1
      <3> HIDE DEF sounds
      <3> QED
        BY <1>1, <2>2, <3>1, <3>2
    <2> QED
      BY <2>3, <2>4
  <1> QED
    BY <1>4, <1>5

\* A rate limit with a period its pattern does not take sounds like a budget.
LEMMA OddPeriodsAreBudgets ==
  ASSUME NEW id, KeyForId(id) \in {"rateLimit", Absent}
  PROVE  StopTemplate(id, OddPeriod) = <<"budget", "reject">>
  <1>1. PICK reason : reason = OddPeriod
    OBVIOUS
  <1>2. reason \notin GateEntries /\ SoundsLikeBudget(reason) /\ reason[1] = "rateLimit"
    BY <1>1 DEF GateEntries, SoundsLikeBudget, OddPeriod
  <1>3. \A x : Parses(x, "stop", reason) => x \in Counters \ {"rateLimit"}
    BY <1>1 DEF Parses, OddPeriod
  <1>4. ~Parses(KeyForId(id), "stop", reason)
    <2>1. Absent \notin Counters
      BY AbsentAssumption DEF Counters, KnownChecks, DefaultLimit
    <2> QED
      BY <1>3, <2>1
  <1> DEFINE sounds == {x \in KnownChecks : StopScan(x) /\ Parses(x, "stop", reason)}
  <1>5. sounds = {}
    BY <1>3 DEF StopScan, Counters
  <1>6. StopTemplate(id, reason) =
          IF sounds # {} THEN <<CHOOSE x \in sounds : TRUE, "reject">>
          ELSE IF SoundsLikeBudget(reason)
               THEN <<IF reason[1] = "rateLimit" THEN "budget" ELSE reason[1], "reject">>
               ELSE <<"fallback", "stop">>
    BY <1>2, <1>4 DEF StopTemplate
  <1> HIDE DEF sounds
  <1> QED
    BY <1>1, <1>2, <1>5, <1>6

\* The odd wordings.
LEMMA UnreadAre ==
  /\ \A reason \in Unread : \E k, w : reason = <<k, w>>
  /\ \A k, w : <<k, w>> \in Unread <=>
       \/ k \in KnownChecks /\ w \in {"odd stop", "odd adjust", "odd outside"}
       \/ k = "counter" /\ w = "odd used"
       \/ k = "gate" /\ w = "odd"
  <1>1. \A reason \in Unread : \E k, w : reason = <<k, w>>
    <2>1. ASSUME NEW T, NEW reason \in KnownChecks \X T
          PROVE  \E k, w : reason = <<k, w>>
      OBVIOUS
    <2> QED
      BY <2>1, Zenon DEF Unread, OddGate
  <1>2. ASSUME NEW k, NEW w
        PROVE  <<k, w>> \in Unread <=>
                 \/ k \in KnownChecks /\ w \in {"odd stop", "odd adjust", "odd outside"}
                 \/ k = "counter" /\ w = "odd used"
                 \/ k = "gate" /\ w = "odd"
    <2>1. <<k, w>> \in KnownChecks \X {"odd stop", "odd adjust", "odd outside"} <=>
            k \in KnownChecks /\ w \in {"odd stop", "odd adjust", "odd outside"}
      OBVIOUS
    <2>2. <<k, w>> \in {<<"counter", "odd used">>, OddGate} <=>
            <<k, w>> = <<"counter", "odd used">> \/ <<k, w>> = <<"gate", "odd">>
      BY Zenon DEF OddGate
    <2> QED
      BY <2>1, <2>2, Pairs, Zenon DEF Unread
  <1> QED
    BY <1>1, <1>2

\* No pattern takes an odd wording.
LEMMA UnreadIsStrange ==
  ASSUME NEW reason \in Unread
  PROVE  /\ reason \notin GateEntries /\ reason # <<"counter", "used">> /\ ~SoundsLikeBudget(reason)
         /\ \A k, what : ~Parses(k, what, reason)
         /\ \A k, w : reason = <<k, w>> => w \notin {"stop", "skip", "adjust", "outside", "used", "words", "note"}
  <1>1. PICK k, w : reason = <<k, w>>
    BY UnreadAre
  <1>2. w \in {"odd stop", "odd adjust", "odd outside", "odd used", "odd"}
    BY <1>1, UnreadAre
  <1>3. \A x, v : reason = <<x, v>> => x = k /\ v = w
    BY <1>1, Pairs
  <1>4. \A x, v : reason = <<x, v>> => v \notin {"stop", "skip", "adjust", "outside", "used", "words", "note"}
    BY <1>2, <1>3
  <1>5. reason \notin GateEntries
    BY <1>1, <1>2, GateEntriesAre
  <1>6. ~SoundsLikeBudget(reason)
    BY <1>1, <1>2, BudgetSounds
  <1>7. ASSUME NEW x, NEW what
        PROVE  ~Parses(x, what, reason)
    <2>1. /\ reason # <<x, "stop">> /\ reason # <<"counter", "used">> /\ reason # <<x, "outside">>
          /\ reason # <<x, "skip">> /\ reason # <<x, "adjust">>
      BY <1>4
    <2> QED
      BY <1>6, <2>1, Zenon DEF Parses
  <1> QED
    BY <1>4, <1>5, <1>6, <1>7

\* What no check of the library words so gets the general sentence.
LEMMA StrangeStops ==
  ASSUME NEW reason, NEW id, reason \notin GateEntries, ~SoundsLikeBudget(reason),
         \A x \in KnownChecks : reason # <<x, "stop">>
  PROVE  StopTemplate(id, reason) = <<"fallback", "stop">>
  <1>1. \A x : ~Parses(x, "stop", reason)
    BY DEF Parses
  <1> DEFINE sounds == {x \in KnownChecks : StopScan(x) /\ Parses(x, "stop", reason)}
  <1>2. sounds = {}
    BY <1>1
  <1>3. StopTemplate(id, reason) =
          IF sounds # {} THEN <<CHOOSE x \in sounds : TRUE, "reject">>
          ELSE IF SoundsLikeBudget(reason)
               THEN <<IF reason[1] = "rateLimit" THEN "budget" ELSE reason[1], "reject">>
               ELSE <<"fallback", "stop">>
    BY <1>1 DEF StopTemplate
  <1> HIDE DEF sounds
  <1> QED
    BY <1>2, <1>3

\* The same of skips and adjustments, whose wordings do not overlap.
LEMMA OthersAreWorded ==
  ASSUME NEW what \in {"skip", "adjust"}, NEW k, NEW id, NEW reason,
         \/ reason = <<k, what>> /\ k \in (IF what = "skip" THEN Skipping ELSE Timing)
         \/ k = "fallback" /\ reason \in {Words} \cup Unread
  PROVE  Worded(id, what, reason) = <<k, what>>
  <1>1. reason \notin GateEntries
    BY UnreadIsStrange DEF GateEntries, Words
  <1> DEFINE sounds == {x \in KnownChecks : Parses(x, what, reason)}
  <1>2. Skipping \subseteq KnownChecks /\ Timing \subseteq KnownChecks
    BY DEF Skipping, Timing, KnownChecks, DefaultLimit
  <1>3. sounds = IF k = "fallback" THEN {} ELSE {k}
    <2>1. CASE k = "fallback" /\ reason \in {Words} \cup Unread
      BY <2>1, UnreadIsStrange DEF Parses, Words
    <2>2. CASE reason = <<k, what>> /\ k \in (IF what = "skip" THEN Skipping ELSE Timing)
      BY <1>2, <2>2 DEF Parses, Skipping, Timing
    <2> QED
      BY <2>1, <2>2
  <1>4. sounds # {} => (CHOOSE x \in sounds : TRUE) = k
    BY <1>3
  <1>5. Worded(id, what, reason) =
          IF KeyForId(id) \in sounds THEN <<KeyForId(id), what>>
          ELSE <<IF sounds # {} THEN CHOOSE x \in sounds : TRUE ELSE "fallback", what>>
    BY <1>1 DEF Worded
  <1> HIDE DEF sounds
  <1> QED
    BY <1>3, <1>4, <1>5

\* What the sentence about an entry must be.
Fits(check, kind, reason, body) ==
  /\ body \in English
  /\ reason \in GateEntries => body = reason
  /\ reason \in Unread => body[1] = "fallback"
  /\ reason \notin GateEntries \cup Unread /\ check.kind \in KnownChecks =>
       \/ body[1] = check.kind
       \/ body[1] = "budget" /\ check.kind \in Counters /\ (kind = "pass" \/ reason = OddPeriod)
       \/ kind = "pass" /\ body[1] = "fallback"
            /\ (check.spares # "nobody" \/ KeyForId(check.id) = Absent)

\* The sentence about an entry of this kind.
BodyOf(id, kind, reason) ==
  CASE kind \in {"reject", "defer"} -> StopTemplate(id, reason)
    [] kind = "pass" -> PassTemplate(id, reason)
    [] OTHER -> Worded(id, kind, reason)

\* The gate's own reasons are sentences of their own.
LEMMA GateSpeaks ==
  ASSUME NEW check, NEW reason \in GateEntries, NEW kind \in {"reject", "skip"}
  PROVE  Fits(check, kind, reason, BodyOf(check.id, kind, reason))
  <1>1. reason \in English
    BY DEF GateEntries, English
  <1>2. StopTemplate(check.id, reason) = reason
    BY DEF StopTemplate
  <1>3. Worded(check.id, kind, reason) = reason
    BY DEF Worded
  <1>4. BodyOf(check.id, kind, reason) = reason
    BY <1>2, <1>3 DEF BodyOf
  <1>5. reason \notin Unread
    BY UnreadIsStrange
  <1> QED
    BY <1>1, <1>4, <1>5 DEF Fits

\* ... and quoted, where they break the line.
LEMMA UnreadIsQuoted ==
  ASSUME NEW check, NEW reason \in Unread, NEW kind \in {"reject", "defer", "skip", "adjust"}
  PROVE  Fits(check, kind, reason, BodyOf(check.id, kind, reason))
  <1>1. reason \notin GateEntries
    BY UnreadIsStrange
  <1>2. CASE kind \in {"reject", "defer"}
    <2>1. BodyOf(check.id, kind, reason) = <<"fallback", "stop">>
      BY <1>2, UnreadIsStrange, StrangeStops DEF BodyOf
    <2> QED
      BY <1>1, <2>1 DEF Fits, English
  <1>3. CASE kind \in {"skip", "adjust"}
    <2>1. BodyOf(check.id, kind, reason) = <<"fallback", kind>>
      BY <1>3, OthersAreWorded DEF BodyOf
    <2> QED
      BY <1>1, <1>3, <2>1 DEF Fits, English
  <1> QED
    BY <1>2, <1>3

\* An id is nobody's or that of a check of the library.
LEMMA IdsAreKnown ==
  ASSUME NEW id PROVE KeyForId(id) \in KnownChecks \cup {Absent}
  BY DEF KeyForId, KnownChecks

\* A stop is worded by its own check, or by the caller.
LEMMA StopsFit ==
  ASSUME NEW check, NEW reason, NEW kind \in {"reject", "defer"}, Says(check, kind, reason),
         check.kind \in KnownChecks => KeyForId(check.id) \in {check.kind, Absent}
  PROVE  Fits(check, kind, reason, BodyOf(check.id, kind, reason))
  <1>1. BodyOf(check.id, kind, reason) = StopTemplate(check.id, reason)
    BY DEF BodyOf
  <1>2. PICK k : k = check.kind
    OBVIOUS
  <1>3. CASE k \in KnownChecks \ Timing /\ reason = <<k, "stop">>
    <2>1. BodyOf(check.id, kind, reason) = <<k, "reject">>
      BY <1>1, <1>2, <1>3, StopsAreWorded
    <2>2. <<k, "reject">> \in English
      BY <1>3 DEF English
    <2>3. reason \notin GateEntries /\ reason \notin Unread
      BY <1>3, UnreadIsStrange DEF GateEntries
    <2> QED
      BY <1>2, <2>1, <2>2, <2>3 DEF Fits
  <1>5. CASE reason \in Unread
    BY <1>5, UnreadIsQuoted
  <1>6. CASE reason = OddPeriod /\ k = "rateLimit"
    <2>1. k \in KnownChecks /\ k \in Counters
      BY <1>6 DEF KnownChecks, DefaultLimit, Counters
    <2>2. BodyOf(check.id, kind, reason) = <<"budget", "reject">>
      BY <1>1, <1>2, <1>6, <2>1, OddPeriodsAreBudgets
    <2>3. <<"budget", "reject">> \in English
      BY DEF English
    <2>4. reason \notin GateEntries /\ reason \notin Unread
      BY <1>6 DEF OddPeriod, GateEntries, Unread, OddGate
    <2> QED
      BY <1>2, <1>6, <2>1, <2>2, <2>3, <2>4 DEF Fits
  <1>4. CASE /\ ~(k \in KnownChecks \ Timing /\ reason = <<k, "stop">>)
             /\ reason \notin Unread
             /\ ~(reason = OddPeriod /\ k = "rateLimit")
    <2>1. \/ reason = Words /\ k = "custom"
          \/ reason = <<k, "stop">> /\ k \notin KnownChecks
      <3>1. ASSUME reason \in StopWords(k), reason # <<k, "stop">>
            PROVE  reason \in Unread \/ (reason = OddPeriod /\ k = "rateLimit")
        <4>1. \/ reason = <<k, "odd stop">> /\ k \in KnownChecks
              \/ reason = <<k, "odd period">> /\ k = "rateLimit"
          BY <3>1, Zenon DEF StopWords
        <4>2. k \in KnownChecks => <<k, "odd stop">> \in Unread
          BY UnreadAre
        <4> QED
          BY <4>1, <4>2, Zenon DEF OddPeriod
      <3>2. k \in KnownChecks \ Timing \/ k \notin KnownChecks \/ k \in Timing
        OBVIOUS
      <3>3. \/ reason = Words /\ k = "custom"
            \/ k \notin Timing /\ reason = <<k, "stop">>
        BY <1>2, <1>4, <3>1, Zenon DEF Says
      <3> QED
        BY <1>4, <3>2, <3>3, Zenon
    <2>2. "custom" \notin KnownChecks
      BY DEF KnownChecks, DefaultLimit
    <2>3. Counters \subseteq KnownChecks
      BY DEF Counters, KnownChecks, DefaultLimit
    <2>4. reason \notin GateEntries /\ ~SoundsLikeBudget(reason) /\ k \notin KnownChecks
      <3>1. CASE reason = Words /\ k = "custom"
        <4>1. ~SoundsLikeBudget(<<"custom", "words">>)
          <5>1. \A x : \A w \in {"words", "note"} : ~SoundsLikeBudget(<<x, w>>)
            BY BudgetSounds
          <5> QED
            BY <5>1, Zenon
        <4>2. <<"custom", "words">> \notin GateEntries
          BY GateEntriesAre
        <4> QED
          BY <2>2, <3>1, <4>1, <4>2, Zenon DEF Words
      <3>2. CASE reason = <<k, "stop">> /\ k \notin KnownChecks
        BY <2>3, <3>2, GateEntriesAre, BudgetSounds
      <3> QED
        BY <2>1, <3>1, <3>2
    <2>5. \A x \in KnownChecks : reason # <<x, "stop">>
      BY <2>1, <2>2 DEF Words
    <2>6. BodyOf(check.id, kind, reason) = <<"fallback", "stop">>
      BY <1>1, <2>4, <2>5, StrangeStops
    <2>7. <<"fallback", "stop">> \in English
      BY DEF English
    <2> QED
      BY <1>2, <1>4, <2>4, <2>6, <2>7 DEF Fits
  <1> QED
    BY <1>3, <1>4, <1>5, <1>6

\* So is a pass.
LEMMA PassesFit ==
  ASSUME NEW check, NEW reason, Says(check, "pass", reason),
         check.kind \in KnownChecks => KeyForId(check.id) \in {check.kind, Absent}
  PROVE  Fits(check, "pass", reason, BodyOf(check.id, "pass", reason))
  <1>1. PICK k, key : k = check.kind /\ key = KeyForId(check.id)
    OBVIOUS
  <1>2. key \in KnownChecks \cup {Absent} /\ (k \in KnownChecks => key \in {k, Absent})
    BY <1>1, IdsAreKnown
  <1>3. Absent \notin KnownChecks /\ Absent \notin GateEntries /\ Absent # <<"counter", "used">>
    BY AbsentAssumption, ReasonAssumption
  <1>4. reason \notin GateEntries
    BY SaysNotGate, Zenon
  <1>5. PICK body : body = BodyOf(check.id, "pass", reason)
    OBVIOUS
  <1>6. body = CASE key # Absent /\ (reason = Absent \/ Parses(key, "pass", reason)) -> <<key, "pass">>
                 [] key = Absent /\ reason = <<"counter", "used">> -> <<"budget", "pass">>
                 [] OTHER -> <<"fallback", "pass">>
    BY <1>1, <1>5 DEF BodyOf, PassTemplate
  <1>7. \/ body = <<key, "pass">> /\ key # Absent
        \/ body = <<"budget", "pass">> /\ key = Absent /\ reason = <<"counter", "used">>
        \/ /\ body = <<"fallback", "pass">>
           /\ ~(key # Absent /\ (reason = Absent \/ Parses(key, "pass", reason)))
    BY <1>6
  <1>8. body \in English
    BY <1>2, <1>7 DEF English
  <1>10. ASSUME reason \in Unread
         PROVE  body[1] = "fallback"
    <2>1. reason # Absent
      BY <1>10, ReasonAssumption
    <2>2. reason # <<"counter", "used">> /\ ~Parses(key, "pass", reason)
      BY <1>10, UnreadIsStrange
    <2> QED
      BY <1>3, <1>6, <1>7, <2>1, <2>2
  <1>9. ASSUME k \in KnownChecks, reason \notin Unread
        PROVE  \/ body[1] = k
               \/ body[1] = "budget" /\ k \in Counters
               \/ body[1] = "fallback" /\ (check.spares # "nobody" \/ key = Absent)
    <2>1. k # "custom"
      BY <1>9 DEF KnownChecks, DefaultLimit
    <2>2. \/ reason = Absent
          \/ k \in Counters /\ reason = <<"counter", "used">>
          \/ k = "requiresConsent" /\ reason = <<k, "outside">>
          \/ check.spares # "nobody" /\ reason = <<"preset", "note">>
      <3>1. <<"counter", "odd used">> \in Unread /\ (k = "requiresConsent" => <<k, "odd outside">> \in Unread)
        BY UnreadAre, <1>9
      <3> QED
        BY <1>1, <1>9, <2>1, <3>1, Zenon DEF Says
    <2>3. CASE body = <<key, "pass">> /\ key # Absent
      BY <1>2, <1>9, <2>3
    <2>4. CASE body = <<"budget", "pass">> /\ key = Absent /\ reason = <<"counter", "used">>
      BY <1>3, <2>2, <2>4
    <2>5. CASE /\ body = <<"fallback", "pass">> /\ key # Absent
               /\ ~(reason = Absent \/ Parses(key, "pass", reason))
      <3>1. key = k
        BY <1>2, <1>9, <2>5
      <3>2. reason = <<"preset", "note">> /\ check.spares # "nobody"
        BY <2>2, <2>5, <3>1 DEF Parses
      <3> QED
        BY <2>5, <3>2
    <2> QED
      BY <1>7, <2>3, <2>4, <2>5
  <1> QED
    BY <1>1, <1>4, <1>5, <1>8, <1>9, <1>10 DEF Fits

\* So are skips and adjustments.
LEMMA OthersFit ==
  ASSUME NEW check, NEW reason, NEW kind \in {"skip", "adjust"}, Says(check, kind, reason)
  PROVE  Fits(check, kind, reason, BodyOf(check.id, kind, reason))
  <1>1. BodyOf(check.id, kind, reason) = Worded(check.id, kind, reason)
    BY DEF BodyOf
  <1>2. PICK k : k = check.kind
    OBVIOUS
  <1>3. reason \notin GateEntries
    BY SaysNotGate, Zenon
  <1>4. CASE reason = <<k, kind>> /\ k \in (IF kind = "skip" THEN Skipping ELSE Timing)
    <2>1. BodyOf(check.id, kind, reason) = <<k, kind>>
      BY <1>1, <1>4, OthersAreWorded
    <2>2. <<k, kind>> \in English
      BY <1>4 DEF English
    <2>3. reason \notin Unread
      BY <1>4, UnreadIsStrange
    <2> QED
      BY <1>2, <1>3, <2>1, <2>2, <2>3 DEF Fits
  <1>6. CASE reason \in Unread
    BY <1>6, UnreadIsQuoted
  <1>5. CASE reason = Words /\ k = "custom"
    <2>1. BodyOf(check.id, kind, reason) = <<"fallback", kind>>
      BY <1>1, <1>5, OthersAreWorded
    <2>2. <<"fallback", kind>> \in English /\ k \notin KnownChecks
      BY <1>5 DEF English, KnownChecks, DefaultLimit
    <2> QED
      BY <1>2, <1>3, <2>1, <2>2 DEF Fits
  <1>7. Timing \subseteq KnownChecks
    BY DEF Timing, KnownChecks, DefaultLimit
  <1>8. k \in Timing => <<k, "odd adjust">> \in Unread
    BY <1>7, UnreadAre
  <1>9. \/ reason = Words /\ k = "custom"
        \/ kind = "skip" /\ k \in Skipping /\ reason = <<k, "skip">>
        \/ kind = "adjust" /\ k \in Timing /\ (reason = <<k, "adjust">> \/ reason = <<k, "odd adjust">>)
    BY <1>2, Zenon DEF Says
  <1> QED
    BY <1>4, <1>5, <1>6, <1>8, <1>9

\* Every entry of the trace was said by its check, or by the gate in its place.
VoiceInv ==
  \A j \in Ran :
    \/ reasons[j] \in GateEntries \cup {OddGate} /\ trace[j].kind \in {"reject", "skip"}
    \/ Says(checks[j], trace[j].kind, reasons[j])

\* Every step keeps to what its check can say.
LEMMA VoiceStep ==
  ASSUME ExplainInv, VoiceInv, [ExplainNext]_explainVars
  PROVE  VoiceInv'
  <1>1. CASE UNCHANGED explainVars
    BY <1>1 DEF explainVars, vars, VoiceInv, Ran
  <1>2. CASE NoneStops
    BY <1>2 DEF NoneStops, Allow, VoiceInv, Ran
  <1>3. ASSUME NEW a \in Answers(checks[Here]), Speak(a[1], a[2])
        PROVE  VoiceInv'
    <2> DEFINE o == a[1]
    <2>1. o \in Outcomes
      BY AnswersTell
    <2>2. PICK h : h = Here
      OBVIOUS
    <2>3. PICK kind \in {"pass", "reject", "adjust", "skip", "defer"}, flag \in {"shadow", "none"} :
            /\ Run(o, kind, flag)
            /\ \/ (o.kind = "throws" \/ Ignored(o)) /\ kind \in {"reject", "skip"}
               \/ o.kind # "throws" /\ ~Ignored(o) /\ kind = Shown(o.kind)
      <3>1. CASE FailOpen(o)
        BY <3>1 DEF FailOpen
      <3>2. CASE FailClosed(o)
        BY <3>2 DEF FailClosed
      <3>3. CASE Ignore(o)
        BY <3>3 DEF Ignore
      <3>4. CASE Note(o)
        BY <3>4 DEF Note, Stops, Shown
      <3>5. CASE Stop(o)
        BY <3>5 DEF Stop, Stops, Shown
      <3>6. CASE Adjust(o)
        BY <3>6 DEF Adjust, Ignored, Stops, Shown
      <3>7. CASE Pass(o)
        BY <3>7 DEF Pass, Ignored, Stops, Shown
      <3> QED
        BY <1>3, <3>1, <3>2, <3>3, <3>4, <3>5, <3>6, <3>7 DEF Speak
    <2>4. /\ Ran' = Ran \cup {h} /\ h \in 1..NumChecks
          /\ \A j \in Ran : j \in Int /\ j < h /\ trace'[j] = trace[j]
          /\ trace'[h].kind = kind
      BY <2>1, <2>2, <2>3, RunGrows DEF ExplainInv, Inv
    <2>5. Ran = 1..(h - 1) /\ h \in Nat
      BY <2>2, <2>4 DEF Ran, Here, ExplainInv, Inv, TypeOK
    <2>6. PICK told \in Traced(o, a[2]) :
            reasons' = [j \in 1..h |-> IF j = h THEN told ELSE reasons[j]] /\ checks' = checks
      BY <1>3, <2>2 DEF Speak
    <2>7. \A j \in Ran : reasons'[j] = reasons[j]
      BY <2>4, <2>5, <2>6
    <2>8. reasons'[h] = told
      BY <2>4, <2>5, <2>6
    <2>9. \/ reasons'[h] \in GateEntries \cup {OddGate} /\ kind \in {"reject", "skip"}
          \/ Says(checks[h], kind, reasons'[h])
      <3>1. CASE (o.kind = "throws" \/ Ignored(o)) /\ kind \in {"reject", "skip"}
        <4>1. Traced(o, a[2]) \subseteq GateEntries \cup {OddGate}
          BY <3>1 DEF Traced, GateEntries
        <4> QED
          BY <2>6, <2>8, <3>1, <4>1
      <3>2. CASE o.kind # "throws" /\ ~Ignored(o) /\ kind = Shown(o.kind)
        <4>1. told = a[2]
          BY <2>6, <3>2 DEF Traced
        <4>2. Says(checks[h], Shown(o.kind), a[2])
          BY <2>2, <3>2, AnswersSay
        <4> QED
          BY <2>8, <3>2, <4>1, <4>2
      <3> QED
        BY <2>3, <3>1, <3>2
    <2>10. SUFFICES ASSUME NEW j \in Ran \cup {h}
                    PROVE  \/ reasons'[j] \in GateEntries \cup {OddGate} /\ trace'[j].kind \in {"reject", "skip"}
                           \/ Says(checks[j], trace'[j].kind, reasons'[j])
      BY <2>4, <2>6 DEF VoiceInv
    <2>11. CASE j \in Ran
      BY <2>4, <2>7, <2>11 DEF VoiceInv
    <2>12. CASE j = h
      BY <2>4, <2>9, <2>12
    <2> QED
      BY <2>11, <2>12
  <1> QED
    BY <1>1, <1>2, <1>3 DEF ExplainNext

\* The ids under which checks of the library run.
LEMMA ChecksUnderTheirIds ==
  ASSUME OwnIds, ExplainInv, SetupInv, NEW j \in Ran, checks[j].kind \in KnownChecks
  PROVE  KeyForId(checks[j].id) \in {checks[j].kind, Absent}
  <1>1. Len(checks) = NumChecks /\ j \in 1..NumChecks
    BY NumChecksAssumption DEF SetupInv, Ran, ExplainInv, Inv, TypeOK
  <1>2. CASE document # Absent
    <2>1. IsDocument(document) /\ checks = IF Compiles(document) THEN Compiled(document) ELSE <<>>
      BY <1>2, DocumentAssumption DEF SetupInv
    <2>2. Compiles(document)
      BY <1>1, <2>1
    <2>3. Listed(checks)
      <3>1. PICK n : n = Len(document.entries)
        OBVIOUS
      <3>2. n \in 0..n
        BY <2>1, <3>1 DEF IsDocument
      <3> QED
        BY <2>1, <2>2, <3>1, <3>2, EntriesAppend, CompiledIs
    <2>4. j \in DOMAIN checks
      BY <1>1, <2>3 DEF Listed
    <2> QED
      BY <2>3, <2>4 DEF Listed, FromLibrary
  <1>3. CASE document = Absent
    <2>1. PICK hand \in HandWritten : checks = hand.checks
      BY <1>3 DEF SetupInv
    <2>2. j \in DOMAIN checks
      BY <1>1, <2>1, HandAssumption
    <2> QED
      BY <2>1, <2>2 DEF OwnIds
  <1> QED
    BY <1>2, <1>3

\* SpeaksForTheSpeaker, where every check speaks for itself.
LEMMA InvSpeaks ==
  ASSUME OwnIds, ExplainInv, SetupInv, VoiceInv
  PROVE  SpeaksForTheSpeaker
  <1>1. DOMAIN trace = Ran /\ \A j \in Ran : trace[j] \in TraceEntry
    <2>1. trace \in Seq(TraceEntry) /\ Len(trace) = Len(said)
      BY DEF ExplainInv, Inv, TypeOK, TraceTellsAll
    <2> QED
      BY <2>1 DEF Ran
  <1>2. ASSUME NEW j \in Ran
        PROVE  Fits(checks[j], trace[j].kind, reasons[j], EntryBody(j))
    <2>1. EntryBody(j) = BodyOf(checks[j].id, trace[j].kind, reasons[j])
      BY DEF EntryBody, BodyOf
    <2>2. CASE reasons[j] \in GateEntries \cup {OddGate} /\ trace[j].kind \in {"reject", "skip"}
      BY <2>1, <2>2, GateSpeaks, UnreadIsQuoted DEF Unread
    <2>3. CASE Says(checks[j], trace[j].kind, reasons[j])
      <3>1. checks[j].kind \in KnownChecks => KeyForId(checks[j].id) \in {checks[j].kind, Absent}
        BY ChecksUnderTheirIds
      <3>2. trace[j].kind \in {"reject", "defer", "pass", "skip", "adjust"}
        BY <1>1 DEF TraceEntry
      <3>3. CASE trace[j].kind \in {"reject", "defer"}
        BY <2>1, <2>3, <3>1, <3>3, StopsFit
      <3>4. CASE trace[j].kind = "pass"
        BY <2>1, <2>3, <3>1, <3>4, PassesFit
      <3>5. CASE trace[j].kind \in {"skip", "adjust"}
        BY <2>1, <2>3, <3>5, OthersFit
      <3> QED
        BY <3>2, <3>3, <3>4, <3>5
    <2> QED
      BY <2>2, <2>3 DEF VoiceInv
  <1> QED
    BY <1>1, <1>2 DEF SpeaksForTheSpeaker, Fits

\* Whatever a check of the library answers, and however it words it, the sentence
\* about it is its own or quotes it, and quotes it only where no pattern takes the
\* wording, in policies of any length and under any id but another check's
\* (explain()).
THEOREM ChecksAreSpokenFor == ASSUME OwnIds PROVE ExplainSpec => []SpeaksForTheSpeaker
  <1>1. ExplainInit => ExplainInv /\ SetupInv /\ VoiceInv
    BY ExplainInitInv, SetupInit DEF ExplainInit, Init, VoiceInv, Ran
  <1>2. ExplainInv /\ SetupInv /\ VoiceInv /\ [ExplainNext]_explainVars => (ExplainInv /\ SetupInv /\ VoiceInv)'
    BY ExplainStepInv, SetupStep, VoiceStep
  <1>3. ExplainInv /\ SetupInv /\ VoiceInv => SpeaksForTheSpeaker
    BY InvSpeaks
  <1> QED
    BY <1>1, <1>2, <1>3, PTL DEF ExplainSpec

-----------------------------------------------------------------------------
(* How many messages a document delivers *)

\* The checks of such a list count each to a counter of their own.
Alone(s) == \A i, j \in DOMAIN s : s[i].counter # <<>> /\ s[i].counter = s[j].counter => i = j

Limited(s) == \A i \in DOMAIN s : s[i].limit \in Nat

Fair(s) == Listed(s) /\ Alone(s) /\ Limited(s)

\* No check of the one list counts to a counter of the other.
Apart(s, t) ==
  \A i \in DOMAIN s : \A j \in DOMAIN t : s[i].counter # <<>> => s[i].counter # t[j].counter

\* The counter of the daily budget of a document, which init's documents have.
Daily == <<"dailyBudget", "user", 0>>

Spared(s) == \A i \in DOMAIN s : s[i].counter # Daily

Quiet(s) == \A i \in DOMAIN s : s[i].counter = <<>>

\* Lists that share no counter make a list whose checks share none.
LEMMA JoinFair ==
  ASSUME NEW s, NEW t, Fair(s), Fair(t), Apart(s, t)
  PROVE  Fair(s \o t)
  <1>1. Listed(s) /\ Listed(t)
    BY DEF Fair
  <1>2. PICK q : q = s \o t
    OBVIOUS
  <1>3. /\ Listed(q) /\ Len(s) \in Nat /\ Len(t) \in Nat /\ DOMAIN q = 1..(Len(s) + Len(t))
        /\ \A i \in 1..(Len(s) + Len(t)) : q[i] = IF i <= Len(s) THEN s[i] ELSE t[i - Len(s)]
    BY <1>1, <1>2, JoinListed
  <1>4. DOMAIN s = 1..Len(s) /\ DOMAIN t = 1..Len(t)
    BY <1>1 DEF Listed
  <1>5. ASSUME NEW i \in DOMAIN q
        PROVE  \/ i <= Len(s) /\ i \in DOMAIN s /\ q[i] = s[i]
               \/ i > Len(s) /\ i - Len(s) \in DOMAIN t /\ q[i] = t[i - Len(s)]
    BY <1>3, <1>4
  <1>6. Limited(q)
    BY <1>5 DEF Fair, Limited
  <1>7. ASSUME NEW i \in DOMAIN q, NEW j \in DOMAIN q, q[i].counter # <<>>, q[i].counter = q[j].counter
        PROVE  i = j
    <2>0. i \in Nat /\ j \in Nat
      BY <1>3
    <2>1. CASE i <= Len(s) /\ j <= Len(s)
      BY <1>3, <1>5, <1>7, <2>0, <2>1 DEF Fair, Alone
    <2>2. CASE i > Len(s) /\ j > Len(s)
      <3>1. i - Len(s) = j - Len(s)
        BY <1>3, <1>5, <1>7, <2>0, <2>2 DEF Fair, Alone
      <3> QED
        BY <1>3, <2>0, <3>1
    <2>3. CASE i <= Len(s) /\ j > Len(s)
      BY <1>3, <1>5, <1>7, <2>0, <2>3 DEF Apart
    <2>4. CASE i > Len(s) /\ j <= Len(s)
      BY <1>3, <1>5, <1>7, <2>0, <2>4 DEF Apart
    <2> QED
      BY <1>3, <2>0, <2>1, <2>2, <2>3, <2>4
  <1>8. Alone(q)
    BY <1>7 DEF Alone
  <1> QED
    BY <1>2, <1>3, <1>6, <1>8 DEF Fair

\* What holds of no check of either list holds of none of both.
LEMMA JoinSpared ==
  ASSUME NEW s, NEW t, Listed(s), Listed(t)
  PROVE  /\ Spared(s) /\ Spared(t) => Spared(s \o t)
         /\ Quiet(s) /\ Quiet(t) => Quiet(s \o t)
  <1>1. PICK q : q = s \o t
    OBVIOUS
  <1>2. /\ Len(s) \in Nat /\ Len(t) \in Nat /\ DOMAIN q = 1..(Len(s) + Len(t))
        /\ \A i \in 1..(Len(s) + Len(t)) : q[i] = IF i <= Len(s) THEN s[i] ELSE t[i - Len(s)]
    BY <1>1, JoinListed
  <1>3. DOMAIN s = 1..Len(s) /\ DOMAIN t = 1..Len(t)
    BY DEF Listed
  <1>4. ASSUME NEW i \in DOMAIN q
        PROVE  (i \in DOMAIN s /\ q[i] = s[i]) \/ (i - Len(s) \in DOMAIN t /\ q[i] = t[i - Len(s)])
    BY <1>2, <1>3
  <1>5. Spared(s) /\ Spared(t) => Spared(q)
    BY <1>4 DEF Spared
  <1>6. Quiet(s) /\ Quiet(t) => Quiet(q)
    BY <1>4 DEF Quiet
  <1> QED
    BY <1>1, <1>5, <1>6

\* Checks with counters of their own grant as many messages as the smallest limit.
LEMMA AloneKeeps ==
  ASSUME NEW s, Fair(s), NEW minor \in BOOLEAN, Consumers(s, minor) # {}
  PROVE  /\ GrantsNth(s, minor, Promised(s, minor))
         /\ ~GrantsNth(s, minor, Promised(s, minor) + 1)
  <1> DEFINE C == Consumers(s, minor)
             T == {s[i].limit : i \in C}
             n == Promised(s, minor)
  <1>1. C \subseteq DOMAIN s /\ DOMAIN s \subseteq Nat /\ \A i \in C : s[i].limit \in Nat /\ s[i].counter # <<>>
    BY DEF Consumers, Fair, Limited, Listed
  <1>2. n \in T /\ \A i \in C : n <= s[i].limit
    <2>1. T \in SUBSET Nat /\ T # {}
      BY <1>1
    <2>2. \E x \in T : \A y \in T : x <= y
      BY <2>1, LeastOf
    <2>3. \E x \in T : \A i \in C : x <= s[i].limit
      BY <2>2
    <2> QED
      BY <2>3 DEF Promised
  <1>3. \A i \in C : Sharing(s, minor, i) = {i}
    BY <1>1 DEF Sharing, Fair, Alone
  <1>4. ASSUME NEW m \in Int
        PROVE  GrantsNth(s, minor, m) <=> \A i \in C : m <= s[i].limit
    <2>1. ASSUME NEW i \in C
          PROVE  /\ Cardinality(Sharing(s, minor, i)) = 1
                 /\ Cardinality({j \in Sharing(s, minor, i) : j <= i}) = 1
      <3>1. {j \in {i} : j <= i} = {i}
        BY <1>1
      <3> QED
        BY <1>3, <3>1, FS_Singleton
    <2>2. \A i \in C : (m - 1) * 1 + 1 = m
      OBVIOUS
    <2>3. GrantsNth(s, minor, m) <=> \A i \in C : (m - 1) * 1 + 1 <= s[i].limit
      BY <2>1 DEF GrantsNth
    <2> QED
      BY <2>2, <2>3
  <1>5. PICK i \in C : n = s[i].limit
    BY <1>2
  <1>6. n \in Nat /\ n \in Int /\ n + 1 \in Int /\ ~(n + 1 <= s[i].limit)
    BY <1>1, <1>5
  <1>7. GrantsNth(s, minor, n)
    BY <1>2, <1>4, <1>6
  <1>8. ~GrantsNth(s, minor, n + 1)
    BY <1>4, <1>5, <1>6
  <1> QED
    BY <1>7, <1>8

\* What the checks of the factories count to.
LEMMA FactoryCounters ==
  /\ \A kind : Plain(kind).counter = <<>> /\ Plain(kind).limit = 0
  /\ \A name : Consent(name).counter = <<>> /\ Consent(name).limit = 0
  /\ \A name : Window(name).counter = <<>> /\ Window(name).limit = 0
  /\ \A kind, limit : Budget(kind, limit).counter = <<kind, "user", 0>> /\ Budget(kind, limit).limit = limit
  /\ \A name, limit, keyBy, per : RateLimit(name, limit, keyBy, per).counter = <<"rate", keyBy, per>>
                                  /\ RateLimit(name, limit, keyBy, per).limit = limit
  BY DEF Plain, Consent, Window, Named, Budget, RateLimit

\* A wrapper counts as the check it wraps.
LEMMA SparingCounters ==
  ASSUME NEW who, NEW c, FromLibrary(c)
  PROVE  Sparing(who, c).counter = c.counter /\ Sparing(who, c).limit = c.limit /\ Sparing(who, c).spares = who
  BY DEF Sparing, FromLibrary

\* Counters are told apart by their parts.
LEMMA TupleCounters ==
  ASSUME NEW a, NEW b, NEW c PROVE <<a, b, c>> # <<>> /\ <<a, b, c>>[1] = a /\ <<a, b, c>>[2] = b /\ <<a, b, c>>[3] = c
  OBVIOUS

\* A list of one check, or of two of which only one counts or both count apart.
LEMMA OneFair ==
  ASSUME NEW a, FromLibrary(a), a.limit \in Nat PROVE Fair(<<a>>)
  BY OneListed DEF Fair, Alone, Limited

\* Two checks that count apart.
LEMMA TwoFair ==
  ASSUME NEW a, NEW b, FromLibrary(a), FromLibrary(b), a.limit \in Nat, b.limit \in Nat,
         a.counter = <<>> \/ a.counter # b.counter
  PROVE  Fair(<<a, b>>)
  <1>1. DOMAIN <<a, b>> = {1, 2} /\ <<a, b>>[1] = a /\ <<a, b>>[2] = b
    OBVIOUS
  <1> QED
    BY <1>1, TwoListed DEF Fair, Alone, Limited

\* The same lists, when none of their checks counts to the daily budget.
LEMMA OneSpared ==
  ASSUME NEW a, FromLibrary(a), a.limit \in Nat, a.counter # Daily PROVE Fair(<<a>>) /\ Spared(<<a>>)
  BY OneFair DEF Spared

LEMMA TwoSpared ==
  ASSUME NEW a, NEW b, FromLibrary(a), FromLibrary(b), a.limit \in Nat, b.limit \in Nat,
         a.counter = <<>> \/ a.counter # b.counter, a.counter # Daily, b.counter # Daily
  PROVE  Fair(<<a, b>>) /\ Spared(<<a, b>>)
  <1>1. DOMAIN <<a, b>> = {1, 2} /\ <<a, b>>[1] = a /\ <<a, b>>[2] = b
    OBVIOUS
  <1> QED
    BY <1>1, TwoFair DEF Spared

\* A list without counters is fair.
LEMMA QuietFair ==
  ASSUME NEW s, Listed(s), Quiet(s), Limited(s) PROVE Fair(s)
  BY DEF Quiet, Fair, Alone

\* A preset's checks count apart, and only those of cnMinorMode to the daily budget.
LEMMA PresetFair ==
  ASSUME NEW name \in PresetNames, NEW opts
  PROVE  Fair(Preset(name, opts)) /\ (name # "cnMinorMode" => Spared(Preset(name, opts)))
  <1> DEFINE Goal(n) == Fair(Preset(n, opts)) /\ Spared(Preset(n, opts))
  <1>0. Listed(Preset(name, opts))
    BY PresetChecks
  <1>a. {"consent", "recentInteraction", "monthlyBudget", "windowBudget", "dailyBudget"} \subseteq KnownChecks
    BY DEF KnownChecks, DefaultLimit
  <1>b. \A n \in {"subscription", "templateTrigger", "ad", "night", "optIn", "promotional", "band00to06",
                "band06to08", "band08to10", "band21to24", "marketing", "parental", "whatsappOptIn"} :
          FromLibrary(Consent(n)) /\ Consent(n).counter = <<>> /\ Consent(n).limit = 0
    BY NamedChecks, FactoryCounters
  <1>c. \A n \in {"kakao", "minor", "tcpa"} :
          FromLibrary(Window(n)) /\ Window(n).counter = <<>> /\ Window(n).limit = 0
    BY NamedChecks, FactoryCounters
  <1>d. \A n \in {"template", "30/min", "1000/h", "1/s", "20/min", "waPair"} :
          \A limit, keyBy, per :
            /\ FromLibrary(RateLimit(n, limit, keyBy, per))
            /\ RateLimit(n, limit, keyBy, per).counter = <<"rate", keyBy, per>>
            /\ RateLimit(n, limit, keyBy, per).limit = limit
    <2>1. \A n \in {"template", "30/min", "1000/h", "1/s", "20/min", "waPair"} :
            \A limit, keyBy, per : FromLibrary(RateLimit(n, limit, keyBy, per))
      BY RateChecks
    <2> QED
      BY <2>1, FactoryCounters
  <1>e. \A k \in {"consent", "recentInteraction"} :
          FromLibrary(Plain(k)) /\ Plain(k).counter = <<>> /\ Plain(k).limit = 0
    BY <1>a, PlainChecks, FactoryCounters
  <1>f. \A k \in {"monthlyBudget", "windowBudget", "dailyBudget"} : \A limit :
          FromLibrary(Budget(k, limit)) /\ Budget(k, limit).counter = <<k, "user", 0>> /\ Budget(k, limit).limit = limit
    BY <1>a, BudgetChecks, FactoryCounters
  <1>g. /\ \A a, b : <<"rate", a, b>> # Daily /\ <<"rate", a, b>> # <<>>
        /\ Daily # <<>>
        /\ \A k \in {"monthlyBudget", "windowBudget"} : <<k, "user", 0>> # Daily /\ <<k, "user", 0>> # <<>>
    BY TupleCounters DEF Daily
  <1>p. LinePlan(opts) \in Nat
    BY DEF LinePlan
  <1>1. Goal("lineMessagingApi")
    <2>1. PICK a, b : a = Plain("consent") /\ b = Budget("monthlyBudget", LinePlan(opts))
      OBVIOUS
    <2>2. FromLibrary(a) /\ a.limit \in Nat
      BY <1>e, <2>1
    <2>2c. a.counter = <<>>
      BY <1>e, <2>1
    <2>3. FromLibrary(b) /\ b.limit \in Nat
      BY <1>f, <1>p, <2>1
    <2>3c. b.counter = <<"monthlyBudget", "user", 0>>
      BY <1>f, <1>p, <2>1
    <2>4. Preset("lineMessagingApi", opts) = <<a, b>>
      BY <2>1, PresetRows
    <2>5. (a.counter = <<>> \/ a.counter # b.counter) /\ a.counter # Daily /\ b.counter # Daily
      BY <1>g, <2>2c, <2>3c, TupleCounters
    <2>6. Fair(<<a, b>>) /\ Spared(<<a, b>>)
      BY TwoSpared, <2>2, <2>3, <2>5
    <2> QED
      BY <2>4, <2>6
  <1>2. Goal("wechatSubscriptionMessage")
    <2>1. PICK a, b : a = Consent("subscription") /\ b = Budget("windowBudget", 1)
      OBVIOUS
    <2>2. FromLibrary(a) /\ a.limit \in Nat
      BY <1>b, <2>1
    <2>2c. a.counter = <<>>
      BY <1>b, <2>1
    <2>3. FromLibrary(b) /\ b.limit \in Nat
      BY <1>f, <2>1
    <2>3c. b.counter = <<"windowBudget", "user", 0>>
      BY <1>f, <2>1
    <2>4. Preset("wechatSubscriptionMessage", opts) = <<a, b>>
      BY <2>1, PresetRows
    <2>5. (a.counter = <<>> \/ a.counter # b.counter) /\ a.counter # Daily /\ b.counter # Daily
      BY <1>g, <2>2c, <2>3c, TupleCounters
    <2>6. Fair(<<a, b>>) /\ Spared(<<a, b>>)
      BY TwoSpared, <2>2, <2>3, <2>5
    <2> QED
      BY <2>4, <2>6
  <1>3. Goal("wechatCustomerService")
    <2>1. PICK a, b : a = Plain("recentInteraction") /\ b = Budget("windowBudget", 5)
      OBVIOUS
    <2>2. FromLibrary(a) /\ a.limit \in Nat
      BY <1>e, <2>1
    <2>2c. a.counter = <<>>
      BY <1>e, <2>1
    <2>3. FromLibrary(b) /\ b.limit \in Nat
      BY <1>f, <2>1
    <2>3c. b.counter = <<"windowBudget", "user", 0>>
      BY <1>f, <2>1
    <2>4. Preset("wechatCustomerService", opts) = <<a, b>>
      BY <2>1, PresetRows
    <2>5. (a.counter = <<>> \/ a.counter # b.counter) /\ a.counter # Daily /\ b.counter # Daily
      BY <1>g, <2>2c, <2>3c, TupleCounters
    <2>6. Fair(<<a, b>>) /\ Spared(<<a, b>>)
      BY TwoSpared, <2>2, <2>3, <2>5
    <2> QED
      BY <2>4, <2>6
  <1>4. Goal("wechatTemplateMessage")
    <2>1. PICK a, b : a = Consent("templateTrigger") /\ b = RateLimit("template", 3, "user", 86400)
      OBVIOUS
    <2>2. FromLibrary(a) /\ a.limit \in Nat
      BY <1>b, <2>1
    <2>2c. a.counter = <<>>
      BY <1>b, <2>1
    <2>3. FromLibrary(b) /\ b.limit \in Nat
      BY <1>d, <2>1
    <2>3c. b.counter = <<"rate", "user", 86400>>
      BY <1>d, <2>1
    <2>4. Preset("wechatTemplateMessage", opts) = <<a, b>>
      BY <2>1, PresetRows
    <2>5. (a.counter = <<>> \/ a.counter # b.counter) /\ a.counter # Daily /\ b.counter # Daily
      BY <1>g, <2>2c, <2>3c, TupleCounters
    <2>6. Fair(<<a, b>>) /\ Spared(<<a, b>>)
      BY TwoSpared, <2>2, <2>3, <2>5
    <2> QED
      BY <2>4, <2>6
  <1>5. Goal("wecomAppMessage")
    <2>1. PICK a, b : a = RateLimit("30/min", 30, "user", 60) /\ b = RateLimit("1000/h", 1000, "user", 3600)
      OBVIOUS
    <2>2. FromLibrary(a) /\ a.limit \in Nat
      BY <1>d, <2>1
    <2>2c. a.counter = <<"rate", "user", 60>>
      BY <1>d, <2>1
    <2>3. FromLibrary(b) /\ b.limit \in Nat
      BY <1>d, <2>1
    <2>3c. b.counter = <<"rate", "user", 3600>>
      BY <1>d, <2>1
    <2>4. Preset("wecomAppMessage", opts) = <<a, b>>
      BY <2>1, PresetRows
    <2>5. (a.counter = <<>> \/ a.counter # b.counter) /\ a.counter # Daily /\ b.counter # Daily
      BY <1>g, <2>2c, <2>3c, TupleCounters
    <2>6. Fair(<<a, b>>) /\ Spared(<<a, b>>)
      BY TwoSpared, <2>2, <2>3, <2>5
    <2> QED
      BY <2>4, <2>6
  <1>6. Goal("kakaoAlimtalk")
    <2>1. PICK a : a = Plain("consent")
      OBVIOUS
    <2>2. FromLibrary(a) /\ a.limit \in Nat
      BY <1>e, <2>1
    <2>2c. a.counter = <<>>
      BY <1>e, <2>1
    <2>3. Preset("kakaoAlimtalk", opts) = <<a>>
      BY <2>1, PresetRows
    <2>4. a.counter # Daily
      BY <1>g, <2>2c
    <2> QED
      BY OneSpared, <2>2, <2>3, <2>4
  <1>7. Goal("kakaoBrandMessage")
    <2>1. PICK a, b : a = Consent("ad") /\ b = Window("kakao")
      OBVIOUS
    <2>2. FromLibrary(a) /\ a.limit \in Nat
      BY <1>b, <2>1
    <2>2c. a.counter = <<>>
      BY <1>b, <2>1
    <2>3. FromLibrary(b) /\ b.limit \in Nat
      BY <1>c, <2>1
    <2>3c. b.counter = <<>>
      BY <1>c, <2>1
    <2>4. Preset("kakaoBrandMessage", opts) = <<a, b>>
      BY <2>1, PresetRows
    <2>5. (a.counter = <<>> \/ a.counter # b.counter) /\ a.counter # Daily /\ b.counter # Daily
      BY <1>g, <2>2c, <2>3c, TupleCounters
    <2>6. Fair(<<a, b>>) /\ Spared(<<a, b>>)
      BY TwoSpared, <2>2, <2>3, <2>5
    <2> QED
      BY <2>4, <2>6
  <1>8. Goal("krNetworkAct50")
    <2>1. PICK a, b : a = Consent("ad") /\ b = Consent("night")
      OBVIOUS
    <2>2. FromLibrary(a) /\ a.limit \in Nat
      BY <1>b, <2>1
    <2>2c. a.counter = <<>>
      BY <1>b, <2>1
    <2>3. FromLibrary(b) /\ b.limit \in Nat
      BY <1>b, <2>1
    <2>3c. b.counter = <<>>
      BY <1>b, <2>1
    <2>4. Preset("krNetworkAct50", opts) = <<a, b>>
      BY <2>1, PresetRows
    <2>5. (a.counter = <<>> \/ a.counter # b.counter) /\ a.counter # Daily /\ b.counter # Daily
      BY <1>g, <2>2c, <2>3c, TupleCounters
    <2>6. Fair(<<a, b>>) /\ Spared(<<a, b>>)
      BY TwoSpared, <2>2, <2>3, <2>5
    <2> QED
      BY <2>4, <2>6
  <1>9. Goal("jpAntiSpamLaw")
    <2>1. PICK a : a = Consent("optIn")
      OBVIOUS
    <2>2. FromLibrary(a) /\ a.limit \in Nat
      BY <1>b, <2>1
    <2>2c. a.counter = <<>>
      BY <1>b, <2>1
    <2>3. Preset("jpAntiSpamLaw", opts) = <<a>>
      BY <2>1, PresetRows
    <2>4. a.counter # Daily
      BY <1>g, <2>2c
    <2> QED
      BY OneSpared, <2>2, <2>3, <2>4
  <1>10. Fair(Preset("cnMinorMode", opts))
    <2>1. PICK a, b : a = Minor(Window("minor")) /\ b = Minor(Budget("dailyBudget", 1))
      OBVIOUS
    <2>2. FromLibrary(a) /\ a.counter = <<>> /\ a.limit = 0
      BY <1>c, <2>1, SparingChecks, SparingCounters DEF Minor
    <2>3. FromLibrary(b) /\ b.limit = 1
      BY <1>f, <2>1, SparingChecks, SparingCounters DEF Minor
    <2>4. Preset("cnMinorMode", opts) = <<a, b>>
      BY <2>1, PresetRows
    <2> QED
      BY <2>2, <2>3, <2>4, TwoFair
  <1>11. Goal("inTcccp")
    <2>1. PICK s : s = Preset("inTcccp", opts)
      OBVIOUS
    <2>2. /\ DOMAIN s = {1, 2, 3, 4, 5}
          /\ s[1] = Consent("promotional") /\ s[2] = Consent("band00to06") /\ s[3] = Consent("band06to08")
          /\ s[4] = Consent("band08to10") /\ s[5] = Consent("band21to24")
      BY <2>1, PresetRows
    <2>3. \A i \in DOMAIN s : s[i].counter = <<>> /\ s[i].limit = 0
      BY <1>b, <2>2
    <2>4. Listed(s)
      BY <2>1, PresetChecks DEF PresetNames
    <2> QED
      BY <1>g, <2>1, <2>3, <2>4, QuietFair DEF Quiet, Limited, Spared
  <1>12. Goal("brLgpd")
    <2>1. PICK a, b : a = Consent("marketing") /\ b = Minor(Consent("parental"))
      OBVIOUS
    <2>2. FromLibrary(a) /\ a.limit \in Nat
      BY <1>b, <2>1
    <2>2c. a.counter = <<>>
      BY <1>b, <2>1
    <2>3. FromLibrary(b) /\ b.limit \in Nat
      BY <1>b, <2>1, SparingChecks, SparingCounters DEF Minor
    <2>3c. b.counter = <<>>
      BY <1>b, <2>1, SparingChecks, SparingCounters DEF Minor
    <2>4. Preset("brLgpd", opts) = <<a, b>>
      BY <2>1, PresetRows
    <2>5. (a.counter = <<>> \/ a.counter # b.counter) /\ a.counter # Daily /\ b.counter # Daily
      BY <1>g, <2>2c, <2>3c, TupleCounters
    <2>6. Fair(<<a, b>>) /\ Spared(<<a, b>>)
      BY TwoSpared, <2>2, <2>3, <2>5
    <2> QED
      BY <2>4, <2>6
  <1>13. Goal("usTcpa")
    <2>1. PICK a : a = Window("tcpa")
      OBVIOUS
    <2>2. FromLibrary(a) /\ a.limit \in Nat
      BY <1>c, <2>1
    <2>2c. a.counter = <<>>
      BY <1>c, <2>1
    <2>3. Preset("usTcpa", opts) = <<a>>
      BY <2>1, PresetRows
    <2>4. a.counter # Daily
      BY <1>g, <2>2c
    <2> QED
      BY OneSpared, <2>2, <2>3, <2>4
  <1>14. Goal("euEprivacy")
    <2>1. PICK a : a = Sparing("customers", Consent("marketing"))
      OBVIOUS
    <2>2. FromLibrary(a) /\ a.limit \in Nat
      BY <1>b, <2>1, SparingChecks, SparingCounters DEF Minor
    <2>2c. a.counter = <<>>
      BY <1>b, <2>1, SparingChecks, SparingCounters DEF Minor
    <2>3. Preset("euEprivacy", opts) = <<a>>
      BY <2>1, PresetRows
    <2>4. a.counter # Daily
      BY <1>g, <2>2c
    <2> QED
      BY OneSpared, <2>2, <2>3, <2>4
  <1>15. Goal("telegramBot")
    <2>1. PICK a, b : a = RateLimit("1/s", 1, "channel", 1) /\ b = RateLimit("20/min", 20, "channel", 60)
      OBVIOUS
    <2>2. FromLibrary(a) /\ a.limit \in Nat
      BY <1>d, <2>1
    <2>2c. a.counter = <<"rate", "channel", 1>>
      BY <1>d, <2>1
    <2>3. FromLibrary(b) /\ b.limit \in Nat
      BY <1>d, <2>1
    <2>3c. b.counter = <<"rate", "channel", 60>>
      BY <1>d, <2>1
    <2>4. Preset("telegramBot", opts) = <<a, b>>
      BY <2>1, PresetRows
    <2>5. (a.counter = <<>> \/ a.counter # b.counter) /\ a.counter # Daily /\ b.counter # Daily
      BY <1>g, <2>2c, <2>3c, TupleCounters
    <2>6. Fair(<<a, b>>) /\ Spared(<<a, b>>)
      BY TwoSpared, <2>2, <2>3, <2>5
    <2> QED
      BY <2>4, <2>6
  <1>16. Goal("slackApp")
    <2>1. PICK a : a = RateLimit("1/s", 1, "channel", 1)
      OBVIOUS
    <2>2. FromLibrary(a) /\ a.limit \in Nat
      BY <1>d, <2>1
    <2>2c. a.counter = <<"rate", "channel", 1>>
      BY <1>d, <2>1
    <2>3. Preset("slackApp", opts) = <<a>>
      BY <2>1, PresetRows
    <2>4. a.counter # Daily
      BY <1>g, <2>2c
    <2> QED
      BY OneSpared, <2>2, <2>3, <2>4
  <1>17. Goal("whatsappBusiness")
    <2> DEFINE first == <<Consent("whatsappOptIn")>>
               last == <<RateLimit("waPair", 600, "user", 3600)>>
               middle == IF <<"template", "boolean">> \in opts THEN <<>> ELSE <<Plain("recentInteraction")>>
    <2>1. Preset("whatsappBusiness", opts) = first \o middle \o last
      BY PresetRows
    <2>2. Fair(last) /\ Spared(last)
      <3>1. PICK a : a = RateLimit("waPair", 600, "user", 3600)
        OBVIOUS
      <3>2. FromLibrary(a) /\ a.counter = <<"rate", "user", 3600>> /\ a.limit \in Nat
        BY <1>d, <3>1
      <3>3. a.counter # Daily
        BY <1>g, <3>2
      <3> QED
        BY OneSpared, <3>1, <3>2, <3>3
    <2>3. Fair(first) /\ Quiet(first) /\ Spared(first)
      <3>1. Quiet(first)
        BY <1>b DEF Quiet
      <3> QED
        BY <1>b, <1>g, OneSpared, <3>1
    <2>4. Fair(middle) /\ Quiet(middle) /\ Spared(middle)
      <3>1. Fair(<<>>) /\ Quiet(<<>>) /\ Spared(<<>>)
        BY NoneListed DEF Fair, Quiet, Spared, Alone, Limited
      <3>2. Quiet(<<Plain("recentInteraction")>>)
        BY <1>e DEF Quiet
      <3>3. Fair(<<Plain("recentInteraction")>>) /\ Spared(<<Plain("recentInteraction")>>)
        BY <1>e, <1>g, OneSpared
      <3> QED
        BY <3>1, <3>2, <3>3
    <2> HIDE DEF first, middle, last
    <2>5. Fair(first \o middle) /\ Quiet(first \o middle) /\ Spared(first \o middle)
      <3>1. Apart(first, middle)
        BY <2>3 DEF Apart, Quiet
      <3> QED
        BY <2>3, <2>4, <3>1, JoinFair, JoinSpared DEF Fair
    <2>6. Fair((first \o middle) \o last) /\ Spared((first \o middle) \o last)
      <3>1. Apart(first \o middle, last)
        BY <2>5 DEF Apart, Quiet
      <3> QED
        BY <2>2, <2>5, <3>1, JoinFair, JoinSpared DEF Fair
    <2> QED
      BY <2>1, <2>6
  <1> HIDE DEF Goal
  <1>18. \A n \in PresetNames : n = "cnMinorMode" \/ Goal(n)
    BY <1>1, <1>2, <1>3, <1>4, <1>5, <1>6, <1>7, <1>8, <1>9, <1>11, <1>12, <1>13, <1>14,
       <1>15, <1>16, <1>17 DEF PresetNames
  <1> QED
    BY <1>10, <1>18 DEF Goal

\* The mark of an entry changes neither the counter, the limit nor whom a check spares.
LEMMA BuiltFrom ==
  ASSUME NEW e, Builds(e), NEW s,
         s = IF e.preset # Absent THEN Preset(e.preset, e.options) ELSE <<Made(e.id, e.options)>>
  PROVE  /\ DOMAIN Built(e) = DOMAIN s
         /\ \A i \in DOMAIN s :
              /\ Built(e)[i].counter = s[i].counter /\ Built(e)[i].limit = s[i].limit
              /\ Built(e)[i].spares = s[i].spares
  <1>1. s = IF e.preset # Absent THEN Preset(e.preset, e.options) ELSE <<Made(e.id, e.options)>>
    OBVIOUS
  <1>2. \A i \in DOMAIN s : FromLibrary(s[i])
    <2>1. CASE e.preset # Absent
      <3>1. Listed(s)
        BY <1>1, <2>1, PresetChecks DEF Builds
      <3> QED
        BY <3>1 DEF Listed
    <2>2. CASE e.preset = Absent
      <3>1. e.id \in KnownChecks
        BY <2>2 DEF Builds
      <3>2. FromLibrary(Made(e.id, e.options))
        BY <3>1, MadeChecks
      <3>3. s = <<Made(e.id, e.options)>>
        BY <1>1, <2>2
      <3>4. Listed(s)
        BY <3>2, <3>3, OneListed
      <3> QED
        BY <3>4 DEF Listed
    <2> QED
      BY <2>1, <2>2
  <1>3. PICK q : q = [i \in DOMAIN s |-> [s[i] EXCEPT !.shadow = (e.shadow = "true")]]
    OBVIOUS
  <1>4. Built(e) = q
    BY <1>1, <1>3 DEF Built, Marked
  <1>5. ASSUME NEW i \in DOMAIN s
        PROVE  q[i].counter = s[i].counter /\ q[i].limit = s[i].limit /\ q[i].spares = s[i].spares
    <2>1. PICK c, mark : c = s[i] /\ mark = (e.shadow = "true")
      OBVIOUS
    <2>2. q[i] = [c EXCEPT !.shadow = mark] /\ FromLibrary(c)
      BY <1>2, <1>3, <2>1
    <2>3. /\ [c EXCEPT !.shadow = mark].counter = c.counter /\ [c EXCEPT !.shadow = mark].limit = c.limit
          /\ [c EXCEPT !.shadow = mark].spares = c.spares
      BY <2>2 DEF FromLibrary
    <2> QED
      BY <2>1, <2>2, <2>3
  <1>6. DOMAIN q = DOMAIN s
    BY <1>3
  <1> QED
    BY <1>1, <1>4, <1>5, <1>6

\* A factory's limit is a natural number.
LEMMA MadeLimits ==
  ASSUME NEW id \in KnownChecks, NEW opts PROVE Made(id, opts).limit \in Nat
  <1>0. DOMAIN DefaultLimit = {"dailyBudget", "weeklyBudget", "monthlyBudget", "windowBudget"}
    BY DEF DefaultLimit
  <1>1. CASE id \in DOMAIN DefaultLimit
    <2>1. Made(id, opts) = Budget(id, LimitOf(id, opts))
      BY <1>0, <1>1 DEF Made
    <2>2. DefaultLimit[id] \in Nat
      BY <1>0, <1>1 DEF DefaultLimit
    <2>3. LimitOf(id, opts) \in Nat
      BY <2>2, LimitAssumption DEF LimitOf
    <2> QED
      BY <2>1, <2>3, FactoryCounters
  <1>2. CASE id = "rateLimit"
    <2>1. \E keyBy, per : Made(id, opts) =
            RateLimit("own", IF <<"limit", "number">> \in opts THEN GivenLimit ELSE 1, keyBy, per)
      BY <1>0, <1>2 DEF Made
    <2>2. (IF <<"limit", "number">> \in opts THEN GivenLimit ELSE 1) \in Nat
      BY LimitAssumption
    <2> QED
      BY <2>1, <2>2, FactoryCounters
  <1>3. CASE id = "dedupe"
    <2>1. Made(id, opts) = Budget(id, 1)
      BY <1>0, <1>3 DEF Made
    <2> QED
      BY <2>1, FactoryCounters
  <1>4. CASE id = "requiresConsent"
    <2>1. Made(id, opts) = Consent("own")
      BY <1>0, <1>4 DEF Made
    <2> QED
      BY <2>1, FactoryCounters
  <1>5. CASE id \notin DOMAIN DefaultLimit \cup {"rateLimit", "dedupe", "requiresConsent"}
    <2>1. Made(id, opts) = Plain(id)
      BY <1>5 DEF Made
    <2> QED
      BY <2>1, FactoryCounters
  <1> QED
    BY <1>1, <1>2, <1>3, <1>4, <1>5

\* The checks of one entry count apart.
LEMMA BuiltFair ==
  ASSUME NEW e, Builds(e)
  PROVE  /\ Fair(Built(e))
         /\ e.preset # Absent /\ e.preset # "cnMinorMode" => Spared(Built(e))
  <1>1. PICK s : s = IF e.preset # Absent THEN Preset(e.preset, e.options) ELSE <<Made(e.id, e.options)>>
    OBVIOUS
  <1>2. Fair(s) /\ (e.preset # Absent /\ e.preset # "cnMinorMode" => Spared(s))
    <2>1. CASE e.preset # Absent
      <3>1. s = Preset(e.preset, e.options) /\ e.preset \in PresetNames
        BY <1>1, <2>1 DEF Builds
      <3> QED
        BY <3>1, PresetFair
    <2>2. CASE e.preset = Absent
      <3>1. e.id \in KnownChecks
        BY <2>2 DEF Builds
      <3>2. FromLibrary(Made(e.id, e.options)) /\ Made(e.id, e.options).limit \in Nat
        BY <3>1, MadeChecks, MadeLimits
      <3>3. s = <<Made(e.id, e.options)>>
        BY <1>1, <2>2
      <3> QED
        BY <2>2, <3>2, <3>3, OneFair
    <2> QED
      BY <2>1, <2>2
  <1>3. /\ DOMAIN Built(e) = DOMAIN s
        /\ \A i \in DOMAIN s : Built(e)[i].counter = s[i].counter /\ Built(e)[i].limit = s[i].limit
    BY <1>1, BuiltFrom
  <1>4. Listed(Built(e))
    BY BuiltChecks
  <1>5. Alone(Built(e)) /\ Limited(Built(e))
    BY <1>2, <1>3 DEF Fair, Alone, Limited
  <1>6. Spared(s) => Spared(Built(e))
    BY <1>3 DEF Spared
  <1> QED
    BY <1>2, <1>4, <1>5, <1>6 DEF Fair

\* The checks of a document of one entry count apart.
LEMMA SingleFair ==
  ASSUME NEW doc, IsDocument(doc), Compiles(doc), Len(doc.entries) = 1
  PROVE  Fair(Compiled(doc))
  <1>1. DOMAIN doc.entries = 1..1
    <2>1. DOMAIN doc.entries = 1..Len(doc.entries) /\ 0 \in 0..Len(doc.entries)
      BY FirstEntries
    <2> QED
      BY <2>1
  <1>2. UpTo(doc)[0] = <<>> /\ UpTo(doc)[1] = UpTo(doc)[0] \o Built(doc.entries[1])
    <2>1. Len(doc.entries) \in Nat /\ 1 \in 1..Len(doc.entries) /\ 1 - 1 = 0
      OBVIOUS
    <2> QED
      BY <2>1, UpToStep
  <1>3. Fair(Built(doc.entries[1]))
    BY <1>1, BuiltFair DEF Compiles
  <1>4. Fair(<<>>) /\ Apart(<<>>, Built(doc.entries[1]))
    BY NoneListed DEF Fair, Alone, Limited, Apart
  <1>5. Fair(<<>> \o Built(doc.entries[1]))
    BY <1>3, <1>4, JoinFair
  <1> QED
    BY <1>2, <1>5, CompiledIs

\* The first nine entries of init's documents consume nothing.
Modest == {"consent", "enabled", "mode", "snooze", "mute", "intensity", "quietHours", "trustRamp",
           "dismissalCooldown"}

InitBudget == Entry("dailyBudget", {<<"limit", "number">>, <<"bypassPriority", "priority">>})

\* A list with one element more.
LEMMA OneMore ==
  ASSUME NEW S, NEW s \in Seq(S), NEW x \in S
  PROVE  /\ s \o <<x>> \in Seq(S) /\ Len(s \o <<x>>) = Len(s) + 1
         /\ \A i \in 1..Len(s) : (s \o <<x>>)[i] = s[i]
         /\ (s \o <<x>>)[Len(s) + 1] = x
  <1>1. PICK t : t = <<x>>
    OBVIOUS
  <1>2. t \in Seq(S) /\ Len(t) = 1 /\ t[1] = x /\ Len(s) \in Nat
    BY <1>1
  <1>3. PICK q : q = s \o t
    OBVIOUS
  <1>4. /\ q \in Seq(S) /\ Len(q) = Len(s) + Len(t)
        /\ \A i \in 1..(Len(s) + Len(t)) : q[i] = IF i <= Len(s) THEN s[i] ELSE t[i - Len(s)]
    BY <1>2, <1>3, ConcatProperties
  <1>5. q[Len(s) + 1] = x
    <2>1. Len(s) + 1 \in 1..(Len(s) + Len(t)) /\ ~(Len(s) + 1 <= Len(s)) /\ (Len(s) + 1) - Len(s) = 1
      BY <1>2
    <2> QED
      BY <1>2, <1>4, <2>1
  <1> QED
    BY <1>1, <1>2, <1>3, <1>4, <1>5

\* The entries of init's document.
LEMMA InitEntries ==
  ASSUME NEW p \in PresetNames
  PROVE  LET doc == InitDocument(p)
         IN  /\ Len(doc.entries) = 11 /\ DOMAIN doc.entries = 1..11
             /\ \A i \in 1..9 : doc.entries[i].preset = Absent /\ doc.entries[i].id \in Modest
             /\ doc.entries[10] = PresetEntry(p) /\ doc.entries[11] = InitBudget
  <1>1. PICK nine : nine =
          <<Entry("consent", {}), Entry("enabled", {}), Entry("mode", {<<"allow", "list">>}),
            Entry("snooze", {<<"defer", "boolean">>}), Entry("mute", {}), Entry("intensity", {}),
            Entry("quietHours", {<<"priorityFloor", "priority">>}),
            Entry("trustRamp", {<<"days", "number">>, <<"minPriority", "priority">>}),
            Entry("dismissalCooldown", {"dismissals", "withinDays", "silenceDays"} \X {"number"})>>
    OBVIOUS
  <1>2. /\ Len(nine) = 9 /\ DOMAIN nine = 1..9
        /\ nine[1] = Entry("consent", {}) /\ nine[2] = Entry("enabled", {})
        /\ nine[3] = Entry("mode", {<<"allow", "list">>}) /\ nine[4] = Entry("snooze", {<<"defer", "boolean">>})
        /\ nine[5] = Entry("mute", {}) /\ nine[6] = Entry("intensity", {})
        /\ nine[7] = Entry("quietHours", {<<"priorityFloor", "priority">>})
        /\ nine[8] = Entry("trustRamp", {<<"days", "number">>, <<"minPriority", "priority">>})
        /\ nine[9] = Entry("dismissalCooldown", {"dismissals", "withinDays", "silenceDays"} \X {"number"})
    BY <1>1
  <1>3. \A id, opts : Entry(id, opts).preset = Absent /\ Entry(id, opts).id = id
    BY DEF Entry
  <1>4. \A i \in 1..9 : nine[i].preset = Absent /\ nine[i].id \in Modest
    <2>1. \A i \in 1..9 : i = 1 \/ i = 2 \/ i = 3 \/ i = 4 \/ i = 5 \/ i = 6 \/ i = 7 \/ i = 8 \/ i = 9
      OBVIOUS
    <2> QED
      BY <1>2, <1>3, <2>1 DEF Modest
  <1>5. PICK S : S = {nine[i] : i \in 1..9} \cup {PresetEntry(p), InitBudget}
    OBVIOUS
  <1>6. nine \in Seq(S) /\ <<PresetEntry(p)>> \in Seq(S) /\ <<InitBudget>> \in Seq(S)
    <2>1. nine \in Seq({nine[i] : i \in DOMAIN nine})
      BY <1>1
    <2> QED
      BY <1>2, <1>5, <2>1, SeqMonotonic
  <1>7. p # Absent
    BY AbsentAssumption
  <1>8. InitDocument(p).entries = nine \o <<PresetEntry(p)>> \o <<InitBudget>>
    BY <1>1, <1>7 DEF InitDocument, InitBudget
  <1>9. PICK ten : ten = nine \o <<PresetEntry(p)>>
    OBVIOUS
  <1>10. /\ ten \in Seq(S) /\ Len(ten) = 10
         /\ \A i \in 1..9 : ten[i] = nine[i]
         /\ ten[10] = PresetEntry(p)
    <2>1. PresetEntry(p) \in S /\ nine \in Seq(S)
      BY <1>5, <1>6
    <2>2. PICK x : x = PresetEntry(p)
      OBVIOUS
    <2>3. ten = nine \o <<x>> /\ x \in S
      BY <1>9, <2>1, <2>2
    <2>4. /\ ten \in Seq(S) /\ Len(ten) = Len(nine) + 1 /\ ten[Len(nine) + 1] = x
          /\ \A i \in 1..Len(nine) : ten[i] = nine[i]
      BY <2>1, <2>3, OneMore
    <2> QED
      BY <1>2, <2>2, <2>4
  <1>11. PICK all : all = ten \o <<InitBudget>>
    OBVIOUS
  <1>12. /\ all \in Seq(S) /\ Len(all) = 11
         /\ \A i \in 1..10 : all[i] = ten[i]
         /\ all[11] = InitBudget
    <2>1. InitBudget \in S
      BY <1>5
    <2>2. PICK x : x = InitBudget
      OBVIOUS
    <2>3. all = ten \o <<x>> /\ x \in S /\ ten \in Seq(S)
      BY <1>10, <1>11, <2>1, <2>2
    <2>4. /\ all \in Seq(S) /\ Len(all) = Len(ten) + 1 /\ all[Len(ten) + 1] = x
          /\ \A i \in 1..Len(ten) : all[i] = ten[i]
      BY <2>3, OneMore
    <2> QED
      BY <1>10, <2>2, <2>4
  <1>13. InitDocument(p).entries = all
    BY <1>8, <1>9, <1>11
  <1>14. DOMAIN all = 1..11
    BY <1>12
  <1>15. \A i \in 1..9 : all[i] = nine[i]
    BY <1>10, <1>12
  <1> QED
    BY <1>4, <1>10, <1>12, <1>13, <1>14, <1>15

\* Those nine entries build checks without counters.
LEMMA ModestBuilt ==
  ASSUME NEW e, e.preset = Absent, e.id \in Modest, Builds(e)
  PROVE  Fair(Built(e)) /\ Quiet(Built(e))
  <1>1. Fair(Built(e))
    BY BuiltFair
  <1>2. PICK s : s = <<Made(e.id, e.options)>>
    OBVIOUS
  <1>3. DOMAIN Built(e) = DOMAIN s /\ \A i \in DOMAIN s : Built(e)[i].counter = s[i].counter
    BY <1>2, BuiltFrom
  <1>4. DefaultLimit = [dailyBudget |-> 5, weeklyBudget |-> 20, monthlyBudget |-> 60, windowBudget |-> 1]
    BY DEF DefaultLimit
  <1>5. e.id \notin DOMAIN DefaultLimit \cup {"rateLimit", "dedupe", "requiresConsent"}
    BY <1>4 DEF Modest
  <1>6. Made(e.id, e.options) = Plain(e.id)
    BY <1>5 DEF Made
  <1>7. \A i \in DOMAIN s : s[i].counter = <<>>
    BY <1>2, <1>6, FactoryCounters
  <1> QED
    BY <1>1, <1>3, <1>7 DEF Quiet

\* The checks of init's document are those, the preset's, and the daily budget.
LEMMA InitChecks ==
  ASSUME NEW p \in PresetNames, IsDocument(InitDocument(p)), Compiles(InitDocument(p))
  PROVE  \E first, middle, last :
           /\ Compiled(InitDocument(p)) = (first \o middle) \o last
           /\ Fair(first) /\ Quiet(first)
           /\ middle = Built(PresetEntry(p)) /\ last = Built(InitBudget)
           /\ Builds(PresetEntry(p)) /\ Builds(InitBudget)
  <1>1. PICK doc : doc = InitDocument(p)
    OBVIOUS
  <1>2. /\ Len(doc.entries) = 11 /\ DOMAIN doc.entries = 1..11
        /\ \A i \in 1..9 : doc.entries[i].preset = Absent /\ doc.entries[i].id \in Modest
        /\ doc.entries[10] = PresetEntry(p) /\ doc.entries[11] = InitBudget
    BY <1>1, InitEntries
  <1>3. \A i \in 1..11 : Builds(doc.entries[i])
    BY <1>1, <1>2 DEF Compiles
  <1>4. /\ UpTo(doc)[0] = <<>>
        /\ \A i \in 1..11 : UpTo(doc)[i] = UpTo(doc)[i - 1] \o Built(doc.entries[i])
    <2>1. Len(doc.entries) \in Nat
      BY <1>2
    <2> QED
      BY <1>2, <2>1, UpToStep
  <1> DEFINE S == {i \in Nat : i <= 9 => Fair(UpTo(doc)[i]) /\ Quiet(UpTo(doc)[i])}
  <1>5. 0 \in S
    BY <1>4, NoneListed DEF Fair, Alone, Limited, Quiet
  <1>6. ASSUME NEW i \in Nat, i \in S PROVE i + 1 \in S
    <2>1. SUFFICES ASSUME i + 1 <= 9 PROVE Fair(UpTo(doc)[i + 1]) /\ Quiet(UpTo(doc)[i + 1])
      OBVIOUS
    <2>2. i + 1 \in 1..9 /\ i + 1 \in 1..11 /\ (i + 1) - 1 = i
      BY <2>1
    <2>3. PICK s, t : s = UpTo(doc)[i] /\ t = Built(doc.entries[i + 1])
      OBVIOUS
    <2>4. Fair(s) /\ Quiet(s)
      BY <1>6, <2>1, <2>3
    <2>5. Fair(t) /\ Quiet(t)
      BY <1>2, <1>3, <2>2, <2>3, ModestBuilt
    <2>6. Apart(s, t)
      BY <2>4 DEF Apart, Quiet
    <2>7. Fair(s \o t) /\ Quiet(s \o t)
      BY <2>4, <2>5, <2>6, JoinFair, JoinSpared DEF Fair
    <2> QED
      BY <1>4, <2>2, <2>3, <2>7
  <1>7. Nat \subseteq S
    <2> HIDE DEF S
    <2> QED
      BY <1>5, <1>6, Induction
  <1>8. Fair(UpTo(doc)[9]) /\ Quiet(UpTo(doc)[9])
    BY <1>7
  <1>9. UpTo(doc)[10] = UpTo(doc)[9] \o Built(PresetEntry(p)) /\ UpTo(doc)[11] = UpTo(doc)[10] \o Built(InitBudget)
    <2>1. 10 \in 1..11 /\ 11 \in 1..11 /\ 10 - 1 = 9 /\ 11 - 1 = 10
      OBVIOUS
    <2> QED
      BY <1>2, <1>4, <2>1
  <1>10. Compiled(doc) = UpTo(doc)[11]
    BY <1>2, CompiledIs
  <1>11. Builds(PresetEntry(p)) /\ Builds(InitBudget)
    <2>1. 10 \in 1..11 /\ 11 \in 1..11
      OBVIOUS
    <2> QED
      BY <1>2, <1>3, <2>1
  <1>12. Compiled(doc) = (UpTo(doc)[9] \o Built(PresetEntry(p))) \o Built(InitBudget)
    BY <1>9, <1>10
  <1> QED
    BY <1>1, <1>8, <1>11, <1>12

\* Its last entry is a daily budget with a limit of its own.
LEMMA InitBudgetBuilt ==
  ASSUME Builds(InitBudget)
  PROVE  /\ DOMAIN Built(InitBudget) = {1}
         /\ Built(InitBudget)[1].counter = Daily /\ Built(InitBudget)[1].limit = GivenLimit
         /\ Built(InitBudget)[1].spares = "nobody"
  <1>1. PICK e : e = InitBudget
    OBVIOUS
  <1>2. e.preset = Absent /\ e.id = "dailyBudget" /\ <<"limit", "number">> \in e.options
    BY <1>1 DEF InitBudget, Entry
  <1>3. PICK b : b = Made(e.id, e.options)
    OBVIOUS
  <1>4. DefaultLimit = [dailyBudget |-> 5, weeklyBudget |-> 20, monthlyBudget |-> 60, windowBudget |-> 1]
    BY DEF DefaultLimit
  <1>5. b = Budget("dailyBudget", GivenLimit)
    BY <1>2, <1>3, <1>4 DEF Made, LimitOf
  <1>6. b.counter = Daily /\ b.limit = GivenLimit /\ b.spares = "nobody"
    <2>1. Budget("dailyBudget", GivenLimit).spares = "nobody"
      BY DEF Budget, Plain
    <2> QED
      BY <1>5, <2>1, FactoryCounters DEF Daily
  <1>7. PICK s : s = <<b>>
    OBVIOUS
  <1>8. /\ DOMAIN Built(e) = DOMAIN s
        /\ \A i \in DOMAIN s :
             /\ Built(e)[i].counter = s[i].counter /\ Built(e)[i].limit = s[i].limit
             /\ Built(e)[i].spares = s[i].spares
    <2>1. s = IF e.preset # Absent THEN Preset(e.preset, e.options) ELSE <<Made(e.id, e.options)>>
      BY <1>2, <1>3, <1>7
    <2> QED
      BY <1>1, <2>1, BuiltFrom
  <1>9. DOMAIN s = {1} /\ s[1] = b
    BY <1>7
  <1> QED
    BY <1>1, <1>6, <1>8, <1>9

\* Outside cnMinorMode the checks of init's document count apart.
LEMMA InitFair ==
  ASSUME NEW p \in PresetNames, p # "cnMinorMode",
         IsDocument(InitDocument(p)), Compiles(InitDocument(p))
  PROVE  Fair(Compiled(InitDocument(p)))
  <1>1. PICK first, middle, last :
          /\ Compiled(InitDocument(p)) = (first \o middle) \o last
          /\ Fair(first) /\ Quiet(first)
          /\ middle = Built(PresetEntry(p)) /\ last = Built(InitBudget)
          /\ Builds(PresetEntry(p)) /\ Builds(InitBudget)
    BY InitChecks
  <1>2. Fair(middle) /\ Spared(middle)
    <2>1. PresetEntry(p).preset = p /\ p # Absent
      BY AbsentAssumption DEF PresetEntry
    <2> QED
      BY <1>1, <2>1, BuiltFair
  <1>3. Fair(last) /\ \A j \in DOMAIN last : last[j].counter = Daily
    BY <1>1, BuiltFair, InitBudgetBuilt
  <1>4. Spared(first)
    <2>1. Daily # <<>>
      BY TupleCounters DEF Daily
    <2> QED
      BY <1>1, <2>1 DEF Quiet, Spared
  <1>5. Apart(first, middle)
    BY <1>1 DEF Apart, Quiet
  <1>6. Fair(first \o middle) /\ Spared(first \o middle)
    BY <1>1, <1>2, <1>4, <1>5, JoinFair, JoinSpared DEF Fair
  <1>7. Apart(first \o middle, last)
    BY <1>3, <1>6 DEF Apart, Spared
  <1>8. Fair((first \o middle) \o last)
    BY <1>3, <1>6, <1>7, JoinFair
  <1> QED
    BY <1>1, <1>8

\* The checks of cnMinorMode: a window, and a daily budget of one for minors.
LEMMA MinorBuilt ==
  ASSUME Builds(PresetEntry("cnMinorMode"))
  PROVE  LET middle == Built(PresetEntry("cnMinorMode"))
         IN  /\ DOMAIN middle = {1, 2} /\ middle[1].counter = <<>>
             /\ middle[2].counter = Daily /\ middle[2].limit = 1 /\ middle[2].spares = "adults"
  <1>1. PICK e : e = PresetEntry("cnMinorMode")
    OBVIOUS
  <1>2. e.preset = "cnMinorMode" /\ e.preset # Absent
    BY <1>1, AbsentAssumption DEF PresetEntry, PresetNames
  <1>3. PICK s : s = Preset("cnMinorMode", e.options)
    OBVIOUS
  <1>4. /\ DOMAIN Built(e) = DOMAIN s
        /\ \A i \in DOMAIN s :
             /\ Built(e)[i].counter = s[i].counter /\ Built(e)[i].limit = s[i].limit
             /\ Built(e)[i].spares = s[i].spares
    <2>1. s = IF e.preset # Absent THEN Preset(e.preset, e.options) ELSE <<Made(e.id, e.options)>>
      BY <1>2, <1>3
    <2> QED
      BY <1>1, <2>1, BuiltFrom
  <1>5. PICK a, b : a = Minor(Window("minor")) /\ b = Minor(Budget("dailyBudget", 1))
    OBVIOUS
  <1>6. s = <<a, b>>
    BY <1>3, <1>5, PresetRows
  <1>7. a.counter = <<>>
    <2>1. FromLibrary(Window("minor"))
      BY NamedChecks
    <2> QED
      BY <1>5, <2>1, FactoryCounters, SparingCounters DEF Minor
  <1>8. b.counter = Daily /\ b.limit = 1 /\ b.spares = "adults"
    <2>1. FromLibrary(Budget("dailyBudget", 1))
      BY BudgetChecks DEF KnownChecks, DefaultLimit
    <2> QED
      BY <1>5, <2>1, FactoryCounters, SparingCounters DEF Minor, Daily
  <1>9. DOMAIN s = {1, 2} /\ s[1] = a /\ s[2] = b
    BY <1>6
  <1> QED
    BY <1>1, <1>4, <1>7, <1>8, <1>9

\* A minor's message is counted by both daily budgets of init's document with
\* cnMinorMode: a limit of its own of one would never be reached.
LEMMA MinorsKeep ==
  ASSUME GivenLimit # 1, IsDocument(InitDocument("cnMinorMode")), Compiles(InitDocument("cnMinorMode")),
         NEW minor \in BOOLEAN
  PROVE  LET s == Compiled(InitDocument("cnMinorMode"))
         IN  /\ GrantsNth(s, minor, Promised(s, minor))
             /\ ~GrantsNth(s, minor, Promised(s, minor) + 1)
  <1>0. "cnMinorMode" \in PresetNames
    BY DEF PresetNames
  <1>1. PICK first, middle, last :
          /\ Compiled(InitDocument("cnMinorMode")) = (first \o middle) \o last
          /\ Fair(first) /\ Quiet(first)
          /\ middle = Built(PresetEntry("cnMinorMode")) /\ last = Built(InitBudget)
          /\ Builds(PresetEntry("cnMinorMode")) /\ Builds(InitBudget)
    BY <1>0, InitChecks
  <1>2. /\ DOMAIN middle = {1, 2} /\ middle[1].counter = <<>>
        /\ middle[2].counter = Daily /\ middle[2].limit = 1 /\ middle[2].spares = "adults"
    BY <1>1, MinorBuilt
  <1>3. DOMAIN last = {1} /\ last[1].counter = Daily /\ last[1].limit = GivenLimit /\ last[1].spares = "nobody"
    BY <1>1, InitBudgetBuilt
  <1>4. PICK s, a : s = (first \o middle) \o last /\ a = Len(first)
    OBVIOUS
  <1>5. /\ a \in Nat /\ DOMAIN s = 1..(a + 3)
        /\ \A i \in 1..a : s[i].counter = <<>>
        /\ s[a + 1] = middle[1] /\ s[a + 2] = middle[2] /\ s[a + 3] = last[1]
    <2>1. Listed(first) /\ Listed(middle) /\ Listed(last)
      BY <1>1, BuiltChecks DEF Fair
    <2>2. Len(middle) = 2 /\ Len(last) = 1 /\ DOMAIN first = 1..a
      BY <1>2, <1>3, <1>4, <2>1 DEF Listed
    <2>3. PICK q : q = first \o middle
      OBVIOUS
    <2>3a. /\ Listed(q) /\ Len(q) = Len(first) + Len(middle) /\ Len(first) \in Nat
           /\ \A i \in 1..(Len(first) + Len(middle)) :
                q[i] = IF i <= Len(first) THEN first[i] ELSE middle[i - Len(first)]
      BY <2>1, <2>3, JoinListed
    <2>4. /\ Listed(q) /\ Len(q) = a + 2 /\ a \in Nat
          /\ \A i \in 1..(a + 2) : q[i] = IF i <= a THEN first[i] ELSE middle[i - a]
      BY <1>4, <2>2, <2>3a
    <2>5. s = q \o last
      BY <1>4, <2>3
    <2>5a. /\ DOMAIN s = 1..(Len(q) + Len(last))
           /\ \A i \in 1..(Len(q) + Len(last)) : s[i] = IF i <= Len(q) THEN q[i] ELSE last[i - Len(q)]
      BY <2>1, <2>4, <2>5, JoinListed
    <2>6. /\ DOMAIN s = 1..((a + 2) + 1)
          /\ \A i \in 1..((a + 2) + 1) : s[i] = IF i <= a + 2 THEN q[i] ELSE last[i - (a + 2)]
      BY <2>2, <2>4, <2>5a
    <2>7. \A i \in 1..a : s[i] = first[i]
      BY <2>4, <2>6
    <2>8. (a + 1) - a = 1 /\ (a + 2) - a = 2 /\ (a + 3) - (a + 2) = 1 /\ (a + 2) + 1 = a + 3
      BY <2>4
    <2>9. s[a + 1] = middle[1] /\ s[a + 2] = middle[2] /\ s[a + 3] = last[1]
      <3>1. a + 1 \in 1..((a + 2) + 1) /\ a + 2 \in 1..((a + 2) + 1) /\ a + 3 \in 1..((a + 2) + 1)
        BY <2>4
      <3>2. a + 1 \in 1..(a + 2) /\ a + 2 \in 1..(a + 2)
        BY <2>4
      <3>3. q[a + 1] = middle[1] /\ q[a + 2] = middle[2]
        <4>1. ~(a + 1 <= a) /\ ~(a + 2 <= a)
          BY <2>4
        <4>2. q[a + 1] = middle[(a + 1) - a] /\ q[a + 2] = middle[(a + 2) - a]
          BY <2>4, <3>2, <4>1
        <4> QED
          BY <2>8, <4>2
      <3> QED
        BY <2>4, <2>6, <2>8, <3>1, <3>2, <3>3
    <2> QED
      BY <1>1, <2>2, <2>4, <2>6, <2>7, <2>8, <2>9 DEF Quiet
  <1>6. Daily # <<>>
    BY TupleCounters DEF Daily
  <1>7. PICK x, y : x = a + 2 /\ y = a + 3
    OBVIOUS
  <1>8. /\ x \in DOMAIN s /\ y \in DOMAIN s /\ x \in Nat /\ y \in Nat /\ x < y
        /\ s[x].counter = Daily /\ s[x].limit = 1 /\ s[x].spares = "adults"
        /\ s[y].counter = Daily /\ s[y].limit = GivenLimit /\ s[y].spares = "nobody"
        /\ \A i \in DOMAIN s : i = x \/ i = y \/ s[i].counter = <<>>
    <2>1. \A i \in 1..(a + 3) : i \in 1..a \/ i = a + 1 \/ i = a + 2 \/ i = a + 3
      BY <1>5
    <2> QED
      BY <1>2, <1>3, <1>5, <1>7, <2>1
  <1>9. Consumers(s, minor) = IF minor THEN {x, y} ELSE {y}
    BY <1>6, <1>8 DEF Consumers
  <1>10. \A i \in Consumers(s, minor) : Sharing(s, minor, i) = Consumers(s, minor)
    BY <1>8, <1>9 DEF Sharing
  <1>11. GivenLimit \in Nat
    BY LimitAssumption
  <1>12. CASE minor = FALSE
    <2>1. Consumers(s, minor) = {y}
      BY <1>9, <1>12
    <2>2. Promised(s, minor) = GivenLimit
      <3>1. {s[i].limit : i \in {y}} = {GivenLimit}
        BY <1>8
      <3> QED
        BY <1>8, <1>11, <2>1, <3>1 DEF Promised
    <2>3. ASSUME NEW n \in Int PROVE GrantsNth(s, minor, n) <=> n <= GivenLimit
      <3>1. {j \in {y} : j <= y} = {y}
        BY <1>8
      <3>2. Cardinality({y}) = 1
        BY FS_Singleton
      <3>3. GrantsNth(s, minor, n) <=> (n - 1) * 1 + 1 <= s[y].limit
        BY <1>10, <2>1, <3>1, <3>2 DEF GrantsNth
      <3> QED
        BY <1>8, <1>11, <3>3
    <2>4. GivenLimit \in Int /\ GivenLimit + 1 \in Int /\ GivenLimit <= GivenLimit /\ ~(GivenLimit + 1 <= GivenLimit)
      BY <1>11
    <2> QED
      BY <1>1, <1>4, <2>2, <2>3, <2>4
  <1>13. CASE minor = TRUE
    <2>1. Consumers(s, minor) = {x, y}
      BY <1>9, <1>13
    <2>2. PICK n : n = IF GivenLimit = 0 THEN 0 ELSE 1
      OBVIOUS
    <2>3. Promised(s, minor) = n
      <3>1. {s[i].limit : i \in {x, y}} = {1, GivenLimit}
        BY <1>8
      <3>2. Promised(s, minor) = CHOOSE m \in {1, GivenLimit} : m <= 1 /\ m <= GivenLimit
        BY <1>8, <2>1, <3>1 DEF Promised
      <3> QED
        BY <1>11, <2>2, <3>2
    <2>4. ASSUME NEW m \in Int PROVE GrantsNth(s, minor, m) <=> (m - 1) * 2 + 1 <= 1 /\ (m - 1) * 2 + 2 <= GivenLimit
      <3>1. {j \in {x, y} : j <= x} = {x} /\ {j \in {x, y} : j <= y} = {x, y}
        BY <1>8
      <3>2. Cardinality({x}) = 1
        BY FS_Singleton
      <3>3. Cardinality({x, y}) = 2
        <4>1. {x, y} = {x} \cup {y} /\ y \notin {x}
          BY <1>8
        <4>2. Cardinality({x} \cup {y}) = Cardinality({x}) + 1
          BY <4>1, FS_Singleton, FS_AddElement
        <4> QED
          BY <3>2, <4>1, <4>2
      <3>4. GrantsNth(s, minor, m) <=> (m - 1) * 2 + 1 <= s[x].limit /\ (m - 1) * 2 + 2 <= s[y].limit
        BY <1>10, <2>1, <3>1, <3>2, <3>3 DEF GrantsNth
      <3> QED
        BY <1>8, <3>4
    <2>5. n \in Int /\ n + 1 \in Int
      BY <2>2
    <2>6. (n - 1) * 2 + 1 <= 1 /\ (n - 1) * 2 + 2 <= GivenLimit
      BY <1>11, <2>2
    <2>7. GrantsNth(s, minor, n) /\ ~GrantsNth(s, minor, n + 1)
      <3>1. GrantsNth(s, minor, n)
        BY <2>4, <2>5, <2>6
      <3>2. PICK m \in Int : m = n + 1
        BY <2>5
      <3>3. GrantsNth(s, minor, m) <=> (m - 1) * 2 + 1 <= 1 /\ (m - 1) * 2 + 2 <= GivenLimit
        BY <2>4
      <3>4. ~GrantsNth(s, minor, m)
        <4>1. m - 1 = n
          BY <2>5, <3>2
        <4>2. ~(n * 2 + 1 <= 1 /\ n * 2 + 2 <= GivenLimit)
          BY <1>11, <2>2
        <4> QED
          BY <3>3, <4>1, <4>2
      <3> QED
        BY <3>1, <3>2, <3>4
    <2> QED
      BY <1>1, <1>4, <2>3, <2>7
  <1> QED
    BY <1>12, <1>13

\* The documents of the property: one preset or check, or init's.
LEMMA InvKeeps ==
  ASSUME GivenLimit # 1, SetupInv PROVE PresetsKeepTheirLimits
  <1>1. SUFFICES
          ASSUME document # Absent, Compiles(document),
                 Len(document.entries) = 1 \/ document \in {InitDocument(p) : p \in PresetNames},
                 NEW minor \in BOOLEAN, Consumers(checks, minor) # {}
          PROVE  /\ GrantsNth(checks, minor, Promised(checks, minor))
                 /\ ~GrantsNth(checks, minor, Promised(checks, minor) + 1)
    BY DEF PresetsKeepTheirLimits
  <1>2. checks = Compiled(document) /\ IsDocument(document)
    BY <1>1, DocumentAssumption DEF SetupInv
  <1>3. CASE Len(document.entries) = 1
    BY <1>1, <1>2, <1>3, SingleFair, AloneKeeps
  <1>4. ASSUME NEW p \in PresetNames, document = InitDocument(p), p # "cnMinorMode"
        PROVE  /\ GrantsNth(checks, minor, Promised(checks, minor))
               /\ ~GrantsNth(checks, minor, Promised(checks, minor) + 1)
    <2>1. Fair(checks)
      BY <1>1, <1>2, <1>4, InitFair
    <2> QED
      BY <1>1, <2>1, AloneKeeps
  <1>5. CASE document = InitDocument("cnMinorMode")
    BY <1>1, <1>2, <1>5, MinorsKeep
  <1> QED
    BY <1>1, <1>3, <1>4, <1>5

\* PresetsKeepTheirLimits for every document: a single entry, or init's document
\* with any preset, delivers as many messages as its strictest counter allows, as
\* long as a limit the document sets itself is not one.
THEOREM PresetsKeepLimits == ASSUME GivenLimit # 1 PROVE ExplainSpec => []PresetsKeepTheirLimits
  <1>1. ExplainInit => ExplainInv /\ SetupInv
    BY ExplainInitInv, SetupInit
  <1>2. ExplainInv /\ SetupInv /\ [ExplainNext]_explainVars => (ExplainInv /\ SetupInv)'
    BY ExplainStepInv, SetupStep
  <1>3. ExplainInv /\ SetupInv => PresetsKeepTheirLimits
    BY InvKeeps
  <1> QED
    BY <1>1, <1>2, <1>3, PTL DEF ExplainSpec
=============================================================================
