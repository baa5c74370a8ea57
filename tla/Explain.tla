-------------------------------- MODULE Explain --------------------------------
(***************************************************************************)
(* From a policy to the sentences about its decision: a document is        *)
(* compiled (Setup), its checks are evaluated (GateEvaluate), and          *)
(* explain() renders the decision.                                         *)
(*                                                                         *)
(* A sentence is the key of its template.  A reason is what its wording    *)
(* tells: the check that words it so, and what it says.  Only the wordings *)
(* of counters overlap: a budget's is matched by the pattern of every      *)
(* budget, a rate limit's by those too.  An "odd" wording has a value in   *)
(* it that the pattern of its own check does not take.                     *)
(*                                                                         *)
(* A policy is a document's, or a list written by hand with checks of the  *)
(* caller's ("custom") and checks of the library under ids of the caller's. *)
(***************************************************************************)
EXTENDS GateEvaluate, Setup

CONSTANTS
  Documents,    \* the policy documents
  HandWritten   \* lists of checks, each with its non-rejecting positions

\* A document has its three fields, and a list of entries.
IsDocument(doc) ==
  /\ doc = [version |-> doc.version, onStoreError |-> doc.onStoreError, entries |-> doc.entries]
  /\ doc.entries \in Seq({doc.entries[i] : i \in DOMAIN doc.entries})

ASSUME DocumentAssumption == Absent \notin Documents /\ \A doc \in Documents : IsDocument(doc)

\* A policy written by hand is a list.
ASSUME HandAssumption ==
  \A hand \in HandWritten : DOMAIN hand.checks = 1..Len(hand.checks)

VARIABLES
  document,     \* the policy document, or Absent
  checks,       \* the checks of the gate
  reasons       \* the reasons in the trace

explainVars == <<vars, document, checks, reasons>>

-----------------------------------------------------------------------------
(* What the checks say *)

Counters == {"dailyBudget", "weeklyBudget", "monthlyBudget", "windowBudget", "rateLimit"}
Timing == {"adaptiveTiming", "boundedDeferral"}
Skipping == {"quietHours", "trustRamp", "dedupe", "utilityFloor", "allowedWindow", "requiresConsent"}

\* The checks that know when they would let the message through.
Foresee == {"snooze", "quietHours", "dailyBudget", "weeklyBudget", "monthlyBudget"}

\* The checks whose stops are always worded as their pattern has it.  The others can
\* word a limit that is not whole, a day before the first or hours below zero, a
\* name that is empty or of two lines, a time of day with a blank in it.
Plainspoken == {"killSwitch", "consent", "enabled", "snooze", "intensity", "dedupe", "utilityFloor"}

StopWords(k) ==
  {<<k, "stop">>}
  \cup (IF k \in KnownChecks \ Plainspoken THEN {<<k, "odd stop">>} ELSE {})
  \cup (IF k = "rateLimit" THEN {<<k, "odd period">>} ELSE {})

Answer(kind, at, list) == [kind |-> kind, at |-> at, surfaces |-> list]

Rejections(k) ==
  {<<Answer("reject", at, None), words>> :
     at \in IF k \in Foresee THEN Instants \cup {None} ELSE {None}, words \in StopWords(k)}

Deferrals == {<<Answer("defer", at, None), <<"snooze", "stop">>>> : at \in {i \in Instants : i > Now}}

\* A time of delivery, surfaces, or both; the surfaces can be none at all.
AdaptedSoundly ==
  {<<Answer("adjust", p[1], p[2]), <<"adaptiveTiming", "adjust">>>> :
     p \in ((Instants \cup {None}) \X (Lists \cup {None})) \ {<<None, None>>}}

AdaptedOddly ==
  {<<Answer("adjust", p[1], p[2]), <<"adaptiveTiming", "odd adjust">>>> :
     p \in (Instants \cup {None}) \X Lists}

AdaptedTimings == AdaptedSoundly \cup AdaptedOddly

\* A bound below zero names an instant gone by, in an odd wording.
BoundedDelays ==
  {<<Answer("adjust", at, None), <<"boundedDeferral", IF at < Now THEN "odd adjust" ELSE "adjust">>>> :
     at \in Instants}

\* The passes, and what a check may remark on one.
Passes(check) ==
  LET k == check.kind
  IN  {<<Answer("pass", None, None), Absent>>}
      \cup (IF k \in Counters
            THEN {<<Answer("nearLimit", None, None), words>> : words \in {<<"counter", "used">>, <<"counter", "odd used">>}}
            ELSE {})
      \cup (IF k = "requiresConsent"
            THEN {<<Answer("pass", None, None), words>> : words \in {<<k, "outside">>, <<k, "odd outside">>}}
            ELSE {})
      \cup (IF check.spares # "nobody" THEN {<<Answer("pass", None, None), <<"preset", "note">>>>} ELSE {})

\* The outcomes of a check's run(), with their reasons.
Answers(check) ==
  LET k == check.kind
  IN  Passes(check) \cup {<<Answer("throws", None, None), Absent>>}
      \cup (IF k \in Timing THEN {} ELSE Rejections(k))
      \cup (IF k = "snooze" THEN Deferrals ELSE {})
      \cup (IF k \in Skipping THEN {<<Answer("skip", None, None), <<k, "skip">>>>} ELSE {})
      \cup (IF k = "adaptiveTiming" THEN AdaptedTimings ELSE {})
      \cup (IF k = "boundedDeferral" THEN BoundedDelays ELSE {})
      \cup (IF k = "custom" THEN Outcomes \X {<<"custom", "words">>} ELSE {})

-----------------------------------------------------------------------------
(* The gate, made from the policy *)

\* The positions of the checks that must not stop a message.
NonRejecting(list) == {i \in Checks \cap DOMAIN list : list[i].kind \in Timing}

ShadowOf(list) == {i \in Checks \cap DOMAIN list : list[i].shadow}

ExplainInit ==
  /\ \/ /\ document \in Documents
        /\ checks = IF Compiles(document) THEN Compiled(document) ELSE <<>>
        /\ options = [shadow |-> ShadowOf(checks), nonRejecting |-> NonRejecting(checks),
                      onStoreError |-> IF document.onStoreError \in {"open", "closed"}
                                       THEN document.onStoreError ELSE "open"]
     \/ /\ document = Absent
        /\ \E hand \in HandWritten :
             /\ checks = hand.checks
             /\ options \in {o \in Options : o.nonRejecting = hand.nonRejecting}
  /\ Init
  /\ reasons = <<>>

Speaks == Len(checks) = NumChecks /\ pc = "loop" /\ Here \in Checks

\* The gate's own reason quotes a message, or a reason, that has line breaks.
OddGate == <<"gate", "odd">>

\* The reasons the trace may keep of this outcome: the gate's own where it overrules.
Traced(o, reason) ==
  IF o.kind = "throws"
  THEN {OddGate, <<"gate", IF options.onStoreError = "closed" THEN "failClosed" ELSE "failOpen">>}
  ELSE IF Ignored(o) THEN {OddGate, <<"gate", "nonRejecting">>} ELSE {reason}

\* The next check answers, and the gate goes on or stops.
Speak(o, reason) ==
  /\ FailOpen(o) \/ FailClosed(o) \/ Ignore(o) \/ Note(o) \/ Stop(o) \/ Adjust(o) \/ Pass(o)
  /\ \E told \in Traced(o, reason) :
       reasons' = [j \in 1..Here |-> IF j = Here THEN told ELSE reasons[j]]
  /\ UNCHANGED <<document, checks>>

NoneStops == Len(checks) = NumChecks /\ Allow /\ UNCHANGED <<document, checks, reasons>>

ExplainNext ==
  \/ NoneStops
  \/ Speaks /\ \E a \in Answers(checks[Here]) : Speak(a[1], a[2])

ExplainSpec == ExplainInit /\ [][ExplainNext]_explainVars

-----------------------------------------------------------------------------
(* The templates and the parsers *)

\* The keys of the English table.
English ==
  (KnownChecks \X {"pass"}) \cup ((KnownChecks \ Timing) \X {"reject"})
  \cup (Skipping \X {"skip"}) \cup (Timing \X {"adjust"})
  \cup {<<"budget", "pass">>, <<"budget", "reject">>}
  \cup ({"gate"} \X {"failOpen", "failClosed", "nonRejecting"})
  \cup ({"fallback"} \X {"stop", "pass", "skip", "adjust"})

\* Every counter that is used up says "... of N used (M)", also a rate limit whose
\* period its own pattern does not take.
OddPeriod == <<"rateLimit", "odd period">>
SoundsLikeBudget(reason) == reason \in (Counters \X {"stop"}) \cup {OddPeriod}

\* PARSERS: does this check's parser of stops, passes, skips or adjustments read the reason?
Parses(k, what, reason) ==
  \/ /\ what = "stop" /\ k \in KnownChecks \ Timing
     /\ reason = <<k, "stop">> \/ (k \in Counters \ {"rateLimit"} /\ SoundsLikeBudget(reason))
  \/ what = "pass" /\ k \in Counters /\ reason = <<"counter", "used">>
  \/ what = "pass" /\ k = "requiresConsent" /\ reason = <<k, "outside">>
  \/ what = "skip" /\ k \in Skipping /\ reason = <<k, "skip">>
  \/ what = "adjust" /\ k \in Timing /\ reason = <<k, "adjust">>

\* keyForId(): the check an id of the package belongs to.
KeyForId(id) ==
  CASE id[2] = "" /\ id[1] \in KnownChecks -> id[1]
    [] id[2] # "" /\ id[1] = "consent" -> "requiresConsent"
    [] id[2] # "" /\ id[1] = "rate" -> "rateLimit"
    [] id[2] # "" /\ id[1] = "window" -> "allowedWindow"
    [] OTHER -> Absent

\* GATE_ENTRIES: the gate's own reasons, where they quote a single line.
GateEntries == {"gate"} \X {"failOpen", "failClosed", "nonRejecting"}

\* The wordings no pattern takes.
Unread ==
  (KnownChecks \X {"odd stop", "odd adjust", "odd outside"}) \cup {<<"counter", "odd used">>, OddGate}

\* No reason is none of these.
ASSUME ReasonAssumption == Absent \notin GateEntries \cup Unread \cup {<<"counter", "used">>}

\* Mutant: the scan does not look for rate limits.
StopScanShort(k) == k \notin Timing \cup Counters

\* STOP_SCAN: the checks whose wording is looked for whatever the id.
StopScan(k) == k \notin (Timing \cup Counters) \ {"rateLimit"}

\* The first of: the gate's own, what the id says, what it sounds like, any budget.
StopTemplate(id, reason) ==
  CASE reason \in GateEntries -> reason
    [] reason \notin GateEntries /\ Parses(KeyForId(id), "stop", reason) -> <<KeyForId(id), "reject">>
    [] OTHER ->
         LET sounds == {k \in KnownChecks : StopScan(k) /\ Parses(k, "stop", reason)}
         IN  IF sounds # {} THEN <<CHOOSE k \in sounds : TRUE, "reject">>
             ELSE IF SoundsLikeBudget(reason)
                  THEN <<IF reason[1] = "rateLimit" THEN "budget" ELSE reason[1], "reject">>
                  ELSE <<"fallback", "stop">>

\* A skip or an adjustment: the gate's own, what the id says, what it sounds like.
Worded(id, what, reason) ==
  LET sounds == {k \in KnownChecks : Parses(k, what, reason)}
  IN  CASE reason \in GateEntries -> reason
        [] reason \notin GateEntries /\ KeyForId(id) \in sounds -> <<KeyForId(id), what>>
        [] OTHER -> <<IF sounds # {} THEN CHOOSE k \in sounds : TRUE ELSE "fallback", what>>

PassTemplate(id, reason) ==
  LET k == KeyForId(id)
  IN  CASE k # Absent /\ (reason = Absent \/ Parses(k, "pass", reason)) -> <<k, "pass">>
        [] k = Absent /\ reason = <<"counter", "used">> -> <<"budget", "pass">>
        [] OTHER -> <<"fallback", "pass">>

\* entryBody(): the template of the sentence about the j-th entry of the trace.
EntryBody(j) ==
  CASE trace[j].kind \in {"reject", "defer"} -> StopTemplate(checks[j].id, reasons[j])
    [] trace[j].kind = "pass" -> PassTemplate(checks[j].id, reasons[j])
    [] OTHER -> Worded(checks[j].id, trace[j].kind, reasons[j])

-----------------------------------------------------------------------------
(* summarize() *)

\* Mutant: the first entry of that id.
StopEntryFirst(stopId) ==
  CHOOSE j \in DOMAIN trace :
    /\ checks[j].id = stopId /\ trace[j].kind \in {"reject", "defer"}
    /\ \A i \in DOMAIN trace :
         checks[i].id = stopId /\ trace[i].kind \in {"reject", "defer"} => j <= i

\* The last entry of that id that could have stopped the message.
StopEntry(stopId) ==
  CHOOSE j \in DOMAIN trace :
    /\ checks[j].id = stopId /\ trace[j].kind \in {"reject", "defer"}
    /\ \A i \in DOMAIN trace :
         checks[i].id = stopId /\ trace[i].kind \in {"reject", "defer"} => i <= j

\* The sentences whose clause says until when.
SaysUntil == {<<"snooze", "reject">>, <<"dismissalCooldown", "reject">>}

\* Mutant: the end of quiet hours is named whatever the outcome.
HeadlineAlways(j) ==
  CASE EntryBody(j) = <<"quietHours", "reject">> -> "window end"
    [] trace[j].kind = "defer" /\ EntryBody(j) \notin SaysUntil -> decision.retryAt
    [] OTHER -> None

\* What the summary says the message is held until, before its clause, or None.
Headline(j) ==
  CASE trace[j].kind # "defer" -> None
    [] trace[j].kind = "defer" /\ EntryBody(j) = <<"quietHours", "reject">> -> "window end"
    [] OTHER -> IF EntryBody(j) \in SaysUntil THEN None ELSE decision.retryAt

-----------------------------------------------------------------------------
(* Properties *)

\* Every document the schema accepts compiles, no option of it is ignored, and a
\* check of an entry in shadow mode decides nothing, unless it fails in a gate
\* that fails closed.
DocumentsAreHonoured ==
  document # Absent /\ Accepts(document) =>
    /\ Compiles(document)
    /\ \A k \in DOMAIN document.entries :
         LET e == document.entries[k]
         IN  e.id # Absent => \A o \in e.options : Reads(e.id, o[1], o[2])
    /\ pc # "loop" /\ decision.by # None =>
         \/ document.entries[EntryOf(document, decision.by)].shadow # "true"
         \/ said[decision.by].kind = "throws" /\ document.onStoreError = "closed"

\* A document of one preset, or one that init wrote, delivers as many messages as
\* the strictest of its counters allows, to adults and minors alike: no limit is
\* used up by counting one message twice.
PresetsKeepTheirLimits ==
  document # Absent /\ Compiles(document)
    /\ (Len(document.entries) = 1 \/ document \in {InitDocument(p) : p \in PresetNames}) =>
    \A minor \in BOOLEAN :
      Consumers(checks, minor) # {} =>
        LET n == Promised(checks, minor)
        IN  GrantsNth(checks, minor, n) /\ ~GrantsNth(checks, minor, n + 1)

\* Checks of the library that are written by hand run under an id of their own or
\* of the caller's, not under that of another check of the library.
OwnIds ==
  \A hand \in HandWritten : \A i \in DOMAIN hand.checks :
    LET check == hand.checks[i]
    IN  check.kind \in KnownChecks => KeyForId(check.id) \in {check.kind, Absent}

\* A check of the library is never spoken for by another check's sentence, under
\* whatever id it runs.  The sentence is its own; or the general one of budgets for
\* a counter under an id of the caller's, or with an odd period; and its reason is
\* quoted as it stands, whatever that says, exactly where no pattern takes it: an
\* odd wording, the note of a preset, the reason of a pass under an unknown id.
\* The gate's own reason is the gate's sentence, or quoted if it breaks the line.
SpeaksForTheSpeaker ==
  \A j \in DOMAIN trace :
    LET body == EntryBody(j)
        kind == checks[j].kind
    IN  /\ body \in English
        /\ reasons[j] \in GateEntries => body = reasons[j]
        /\ reasons[j] \in Unread => body[1] = "fallback"
        /\ reasons[j] \notin GateEntries \cup Unread /\ kind \in KnownChecks =>
             \/ body[1] = kind
             \/ body[1] = "budget" /\ kind \in Counters
                  /\ (trace[j].kind = "pass" \/ reasons[j] = OddPeriod)
             \/ trace[j].kind = "pass" /\ body[1] = "fallback"
                  /\ (checks[j].spares # "nobody" \/ KeyForId(checks[j].id) = Absent)

\* The summary is about the entry that decided, also when checks of the same id
\* were held back in shadow mode before it; and it names an instant only for a
\* deferral, the one the caller is told to come back at.
SummaryNamesTheDecider ==
  pc # "loop" /\ decision.verdict # "allowed" =>
    LET j == StopEntry(checks[decision.by].id)
    IN  /\ j = decision.by
        /\ trace[j].flag = "none"
        /\ Headline(j) # None => decision.verdict = "deferred" /\ Headline(j) = decision.retryAt
=============================================================================
