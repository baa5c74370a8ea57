# Proactive Gate: verification project

TLA+ models, TLC runs and machine-checked proofs for the library in this
repository: a gate that decides whether an agent may send a message to a user
now, and that spends the user's budgets when the message goes out.

Check a module with `tlc -config <run>.cfg MC<Module>.tla`, prove one with
`tlapm <Module>Proofs.tla`. PROJECT.json lists every run, the source lines each
definition models, the hazards and the properties that cover them.

## 1. The system

| component | code | state it keeps | operations |
|---|---|---|---|
| gate | `src/src/gate.ts` | the evaluation sequence number; `commit:<id>` markers in the store | `evaluate`, `commit`, `record`, `inspect` |
| consuming checks | `src/src/checks.ts` | counters `budget:`, `weeklyBudget:`, `monthlyBudget:`, `dedupe:`, `rate:`, `windowBudget:` | `run` reads, `consume` increments |
| other checks | `src/src/checks.ts` | none, but for `cooldown:<user>:<type>` read by `dismissalCooldown` | `run`, `nextAllowedAt` |
| local clock | `src/src/checks.ts` | none | local day, ISO week, quiet windows and the end of a refusal over clock changes |
| stores | `src/src/stores.ts` | keys with a value and an expiry | `get`, `set`, `incr`, `del` in memory, Redis, Postgres, SQLite |
| policy and presets | `src/src/policy.ts`, `presets.ts`, `policy-schema.ts` | none | a policy document becomes a list of checks |
| simulator | `src/src/simulate.ts` | a clock, a pending queue, a memory store | replays a trace of events through a policy, and counts what became of it |
| explain | `src/src/explain.ts` | none | words a decision: parsers of the checks' reasons, templates, a summary |
| report, demo week | `src/src/simulate-report.ts`, `demo-week.ts` | none | tables of a simulation; a generated stream |
| front ends: CLI, MCP server | `src/src/cli.ts`, `mcp.ts`, `init.ts` | a store for the life of the process; the MCP server a queue of lines | commands, hook events and tool calls around evaluate and commit |
| front ends: adapters | `src/src/adapters/` | none | evaluate, then commit, around another framework's tool call |
| Python package | `src/python` | the same keys; SQLite stores with a lock and transactions of their own | the same protocol and checks |
| Go package | `src/go` | the same keys | the same protocol and checks |

How they interact. A worker calls `evaluate(input)`; the gate awaits one check
after another, and each may await the store. The worker then calls
`commit(decision, input)`: the gate reads the decision's marker, awaits one
atomic increment per consuming check, writes the marker, and the worker sends
the message when the answer is true. Nothing but the store is shared between
workers, and nothing holds a lock across awaits.

What is hard in it:

- everything between two awaits of one call interleaves with every other call
  of every worker on the same store, and the counters read by an evaluation are
  stale by the time its commit spends them;
- a commit is a sequence of store calls, any of which can throw before or after
  it took effect, and the process can die between any two of them; the caller
  then retries;
- the identity of a decision, on which idempotence rests, is made of a counter
  private to one gate instance;
- the same key means something else every local day, week and month, in zones
  whose clocks jump;
- a key expires while calls are using it, and the SQL stores remove it in
  statements of their own; a Python increment is a transaction, and a task can be
  cancelled in the middle of one;
- the schema, the table of known checks, the factories and the presets each say
  what a policy document means;
- an explanation parses back the reasons the checks worded;
- checks that defer or postpone make a replay's order of work depend on the
  policy's answers.

What makes each component correct:

- gate and consuming checks: never more grants under a key than its limit;
  retries answer what the first call answered and spend nothing; a refused
  duplicate does not cost a message; no unit is lost; the gate is, seen from
  outside, a ledger with room checks;
- one evaluation: the first check entitled to stop decides; a shadow or
  non-rejecting check never does, and the trace tells;
- other checks: a higher priority is never worse off, and a further check never
  makes a policy deliver more;
- record and cooldown: every dismissal reported alone counts;
- stores: all behave as one map with expiring keys, an increment is atomic and
  keeps the window of the first increment;
- local clock: a quiet period ends at the first instant that is not quiet; the
  reset of a budget is the first instant with another key;
- policy and presets: a document the schema accepts compiles, none of its options
  is ignored, its shadow marks arrive, and no counter counts a message twice;
- explain: the decider is spoken for, in its own sentence;
- simulator: what it reports is what a live gate would have decided, in time
  order; a deferred event is decided once; the books balance;
- front ends: what goes out after a commit holds a unit of every budget, and
  nothing else costs one.

## 2. The modules

**GateCommit** models `evaluate` and `commit` of any number of gate instances
over one store. One evaluation and one commit call are records with a program
counter; a step is the code between two awaits of the store. `Begin` is the
call of `evaluate`, `RunCheck` one consuming check of the loop, `RunCheckThrows`
the catch around it, `Allow` the end of the loop; `Finish` draws the sequence
number. `StartCommit`, `GetMarker`, `Consume` (one consumer each) and
`SetMarker` are the four stages of `commit`, `CommitThrows` its catch, with the
store call taking effect or not. `Crash` takes a process away with all it had in
flight. The store is `counter` and `marker`; `delivered` is what callers were
told to send, and `ticket` in a call remembers which value each increment
returned. `mode` says whether the gates fail open or closed, and whether callers
wait for an answer before they call again. Of a policy only the consuming checks
are kept, since no other check reads or writes a key that commit touches: an
evaluation that another check stops is one that never begins here. Checks may
share a key, as two daily budgets do, and as the document `init` writes for the
minor mode has it. `Expire` is the end of a marker, two days after it was written
(COMMIT_TTL), while the counters of a week or a month live on. A counter's own
expiry is not modelled: its key names its period, and it lives for longer than
that (`ttlSeconds`), so that no commit of the period finds it gone; dedupe's, which
is a window from the first delivery, is left to the store modules. The caller is
taken to hand `commit` the input it evaluated.

**BudgetLedger** is what the gate promises, without store, calls or failures: a
decision is issued for a candidate and granted at most once, while every limit
has room.

**FrontEnds** puts callers around GateCommit: adapters (with or without `commit:
false`, here "dryAdapter"), the MCP server, the hook and the replay of the command
line, each with a gate of its own. Request d makes decision d and commit call d.
`Ask` is the call of `evaluate`; the MCP server and the replay await one request
before they take the next, a hook process has one (`MayAsk`). `PassBy` is a
request the gate never sees (a tool nobody watches, a hook event without a
payload), `Work` the gate's own steps, `Forget` the end of a marker, and
`TurnDown`, `Answered`, `Commit` and `Settle` what the front end does with what
`evaluate` and `commit` answer.

**Setup** is what comes before a gate: `Made` is the table of factories,
`Compiled` is `compilePolicy` (`Marked` its shadow marks), `Accepts` the JSON
Schema, `Preset` the checks of each preset with the wrappers that let minors or
critical messages pass, `InitDocument` what `init` writes. A document is data:
its options are pairs of a key and the sort of the value.

**GateEvaluate** is the inside of one evaluation: the loop over a policy of any
length, with everything a check may answer, throw or say of the next allowed
instant. An iteration is one action, split by what becomes of the outcome:
`Pass`, `Adjust`, `Stop`, `Note` (shadow), `Ignore` (non-rejecting), `FailOpen`
and `FailClosed` (the catch), and `Allow` at the end.

**Explain** composes the two: a document is compiled, its checks are evaluated,
each answering anything its factory can make it answer (`Answers`), and
`explain()` renders the trace. `Worded` finds the sentence of an entry
(`GateEntries`, `KeyForId`, the scan over the parsers in `StopScan`'s order),
`StopEntry` and `Headline` are the summary. A reason is what its wording tells,
not a string; a sentence is the key of its template, in English. A wording is
"odd" when a value in it is none its check's pattern takes: "day -2 of 7" for an
account created in the future (checks.ts:301 against explain.ts:311), a limit that
is not whole, a name of two lines, the message of an error with a line break in it
(explain.ts:351). The explanation quotes these "verbatim rather than guessing"
(explain.ts:12-13), and `SpeaksForTheSpeaker` says so.

**KeyStore** is what the gate and `store-contract.ts` expect of a store: a map
whose keys vanish when they expire. **StoreKeys** is what the models of stores
share: callers, keys, a clock. **MapStores** is MemoryStore, which deletes
lazily, and RedisStore, with a script or with INCR and EXPIRE as two round
trips that other callers come between and that can throw. **SqlStore** is
PostgresStore and SqliteStore, statement by statement: `Initialize`, the sweep,
the upsert, the overwrite, the SELECT and the DELETE of a read that found its
row expired. `home` says which process each caller is in (one of `Layouts`). A
`SqliteStore` runs the statements of one process without a break (`MayRun`).
**PyStore** adds the two SQLite stores of the Python package to those kinds: the
lock of a process (`Lock`), the connection an AsyncSqliteStore opens on first use
(`Open`), and an increment as a transaction: `BeginImmediate`, `TxSweep`,
`TxRead`, `TxWrite`, `Commit`, `Rollback`. `row` is what the writing process
sees, `committed` what the others read meanwhile. `CancelBegin` is a task
cancelled while it awaits BEGIN IMMEDIATE.

**LocalClock** is the local clock with one change of the offset, the quiet
windows of a day, a weekday or a date, and the searches `quietEndsAt` and
`nextKeyChange`, an iteration of either loop per action.

**Simulate** is `runOne`: the queue of events and pending work, the snapshots of
users, evaluation, commit, deferral, postponed delivery and the budget rows. An
iteration of the queue loop is one action. It keeps consent, one deferring
check, a daily budget and one postponing check of a policy, and of a send the
local day, and whether it was felt at night or in the user's quiet hours. `draws` is
what the transport's generator answers, in the order of the messages sent (`Sent`,
`Draw`). A check may name any moment for the delivery (`Moments`); only one later
than the look postpones it (`Later`).
**SimulateReport** is what is computed from the records of the finished run: the
counts, the run without a gate (whose sends fail by the same draws, dealt to other
candidates), the timeline's differences and verdicts, and which rows the summary
table prints.

**Policies** is the other checks and what a policy made of them does to a stream
of messages. A check is the condition under which it stops a message; the
options of its factory are CONSTANTS, a user's settings and a candidate's
estimates are fields. The same stream goes through two policies, a looser and a
stricter one, each with its own budget counters per local day (`used`), and
`sent` counts what each delivers. `Message` evaluates and commits in one step.
`RecordRead` and `RecordWrite` are the two halves of `record()`, with the pruning
(`Kept`), the list's expiry and any store call throwing (`RecordThrows`); the
list of a type is `log`, and `dismissed` remembers what callers were told was
recorded, and whether another call for that type was under way. `ZoneOf` is the
fixed zone of an allowed window or a consent's hours, or the user's. Local time is an
offset here, and a commit is not interrupted: LocalClock and GateCommit have
those. Checks that defer instead of stopping (`snooze` with `defer`), dedupe and
the weekly, monthly, rate and window counters are not compared: a message that
may come again, on another day, can be sent by the stricter policy on a day on
which the looser one had it behind it.

`MC*` modules give constants their values. `MCStores` also puts the two families of
stores side by side, and `MCPolicies` leaves out of the next-state relation what would
only multiply (`OnlyDismissals`, `MayRecord`). `GateCommitProofs`,
`FrontEndsProofs`, `ExplainProofs` (with those of GateEvaluate and Setup),
`MapStoresProofs`, `SqlStoreProofs` (with those of PyStore), `LocalClockProofs`,
`PoliciesProofs` and `SimulateProofs` (with those of SimulateReport) hold the
theorems.

## 3. The runs

| run | question | result |
|---|---|---|
| `faults` | with overlapping or patient callers, crashes at any await and a store that throws or drops a marker that has had its two days: do limits hold, do duplicates leave the budget alone, does a patient caller spend once and hear one answer, has a refusal a cause, and is a gate that fails closed a ledger? | yes; a gate that fails open sends at most one more per failure |
| `race` | five kinds of front end race under two budgets that share a key: does what they let out hold a unit of each, and nothing else cost one; are the units of a budget with a key of its own all used; can one that works through a queue lose a commit to another request of its own? | yes; yes; no |
| `overlap_spend` | does the documented idempotence hold when a retry overlaps? | no |
| `shadow_refuses` | can a shadow check stop a message? | yes, at commit |
| `evaluate` | documents and presets: do they compile as the schema says, marked as they say, with limits that hold; then who decides, where and when does the message go, what does the trace tell, and whom does the explanation speak for, in usual wordings and odd ones? | as documented |
| `stores` | is a MemoryStore or a RedisStore a map with expiring keys; does one caller claim a key for its lifetime; who can leave a counter that never expires; what can take away what a caller of one of four SQL stores wrote; does every Python increment end its transaction? | yes; yes; only a failure between INCR and EXPIRE; only the DELETE of a pruning read, in one SQLite process not even that; yes, but for a task cancelled at BEGIN |
| `sql_prune` | does one caller claim a window of a PostgresStore? | no |
| `clock` | is the end of a refusal ever named too early, given up too soon, missed though no clock changed, or by more than a clock change; are quiet hours what the schedule's windows cover; do weeks reset on Mondays? | no; yes; yes |
| `quiet_end` | is the end of quiet hours always the earliest open minute? | no |
| `simulate` | does a replay work in time order, forget nothing, send on the latest consent and account for what was paid; do the counts add up and the timeline tell where the run differs from one without a gate, when the transport fails in both? | yes |
| `policies` | does a policy with more checks ever deliver more, is an urgent message ever worse off, is a dismissal told alone ever forgotten, whatever other calls overlap or throw? | no |
| `silence_ends` | does a type that was dismissed often enough stay silent for its seven days? | no |

Bounds. `faults`: two decisions of two events and three calls let two decisions
compete while a retry of either is in flight; two gates are what restarts need;
limits of one reach exhaustion. A behaviour of `faults` has a store call that
throws or a marker that ends, not both (its CONSTRAINT `OneMishap`). `race` has a
front end of each kind, and three requests for two candidates under the document
of the minor mode, of which one is a minor's and counts twice: every pair of kinds
competes, and one loses. `MaxSequence` is as large as the number of decisions, so
it never stops one; `MaxErrors` is one in `faults`, which reaches a failure at
every point of every call, and none in `race`, where a failure may cost a unit.
`evaluate` has documents of one check or preset with at most one option of any key
and sort (how two options interact in one check is left to the proofs), documents
wrong as a whole, documents of two and three entries, in shadow mode or not, with
ids shared or not, and policies of three checks written by hand: one check that
could decide, one before it and one after. A limit given is five, above some
presets' and below others'. `stores` has three callers, a counter and a cell, and
one failure: a reader, a writer and somebody between them, over two lifetimes (a
tick less for tables, its CONSTRAINT `SmallTables`): a window is opened, expires
and is opened again. The callers of a table are in one process, or one of them is
in a second. A behaviour is of one family of stores, and leaves the state of the
other as it began. `sql_prune` needs four callers: the reader, two claimants and
the one that opened the window before. `clock` has a local day of six minutes,
changes of up to two (and a whole day skipped), searches from every minute of two
days and from days later in the week, and windows of every kind relative to
midnight and to each other; the bounds on jumps are the code's. `simulate` has two
candidates at the first or the second of two local days, a state update at the
second (its CONSTRAINT `UpdatedLater`), three states of the user in two zones,
three attempts, and instants at and after each event; a local day is two hours, of
which one is night. `policies` has a local day of four ticks and four instants,
which in a zone ahead of UTC is two local days; a budget of one, and two messages
a day, so that the second depends on the first. Two dismissals silence, and
without messages there are four calls of `record()` by two callers, one of them
for another type: two are told alone while, before, between or after them, calls
overlap, lose one another's entries or throw. Before messages there are two calls,
one after the other, for the cooldown with the budget: the comparison needs a
list, not how it came about. `silence_ends` has the shipped numbers, a tick a day,
and `quiet_end` the one night in quarters of an hour. Decisions, calls, gates and
callers are interchangeable and symmetric; the liveness run uses no symmetry.

Fairness. Only `race` assumes any: `FrontFairness` asks that a request that was
taken goes on when it can, since a promise of the store settles, the event loop
runs its continuation, and the front end awaits it. Nothing asks an agent to make
a request. With several requests weak fairness of each is enough: a step of
another request disables none of them for good.

CHECK_DEADLOCK is off where the system may stop: every call of the instance is
used up (gate and stores), an evaluation, a search or a replay has ended.

What the runs that end in a violation show:

- `overlap_spend`: `commit` reads the marker, increments, then writes the
  marker. A second call started in between spends a second unit. A retry after
  a store call threw does the same, since the catch writes no marker.
- `shadow_refuses`: a budget in shadow mode lets an evaluation pass, and its
  `consume()` makes `commit` answer false.
- `sql_prune`: a read selects an expired row, awaits, and deletes by key what
  another caller has opened since; a third caller claims the same window.
- `quiet_end`: the search jumps to the end of the window and steps back as long as
  the minutes before it are open. For 01:15 to 02:30 in New York, 2026-11-01T05:30Z
  is answered by 07:30Z, though 06:00Z to 06:14Z, the repeated 01:00 to 01:14, is
  open: quiet minutes lie between it and the answer. Both the comment (checks.ts:127)
  and the specification (SPEC.md 3.7) promise the earliest minute. What does hold is
  `OnlyShortSpellsOverlooked`.
- `silence_ends`: the count is taken over the last thirty days again at every
  evaluation, so the silence also ends when an old dismissal leaves them: after
  dismissals on days 0, 28 and 29.9 the type is heard from day 30 on, not from day
  36.9, which the reason of the refusal had named ("silent until", checks.ts:332).
  What does hold is `DismissalsSilence`: while enough dismissals lie in the window and
  the latest of them is younger than the silence, the check stops the message.

What passing runs say beside their properties, without a run that ends in a
violation:

- `faults`: a decision id is unique within one gate, whose `sequence` is a
  variable of one `createGate()` (gate.ts:89). Two gates that evaluate one event
  in the same millisecond make the same id and share one marker: the second commit
  answers the first one's true, and both deliver, though types.ts:167 calls the id
  "unique per evaluation" and SPEC.md 5.6 (lines 106-110) says that exactly one
  commit succeeds. `faults` has `SharedInstants = FALSE`; with TRUE, TLC refutes
  `GrantsBounded` at once. Two checks with one key draw from it in turn
  (`DuplicatesSpendNothing`).
- `clock`: of a reset `OnlyShortSpellsOverlooked` allows one oversight: after a
  refusal in the first minutes of a day whose clock then goes back over midnight,
  the repeated end of the day before, which has another key, is passed over. A
  window ends before its last minute: a comment says that Friday 18:00 to 00:00
  "silences Saturday 00:00 too" (checks.ts:103), but a window that ends at 00:00
  covers no minute of Saturday (`minutes < end`, line 118; `Covers`).
- `evaluate`: both daily budgets of `init`'s document for `cnMinorMode` count
  under one key, so with an own limit edited from five to one a minor's first
  message would use up both counts (1 of 1 and 2 of 2 units) and be refused at
  commit. `init` always writes five; `GivenLimit # 1` in section 4 is this case.
- `simulate`: `BusyDaysWerePostponed` is what is left of "at most so many a day":
  a daily budget bounds what is paid on a local day, and postponed deliveries may
  land on one day in any number. The row "moved to a later moment"
  (simulate-report.ts:62) counts every send of which a check named a `deliverAt`,
  also one made at once because that moment was not later: line 283 only asks
  whether there is one, line 524 postpones a later one only. `TimelineTellsTheRun`
  says of the rows just that: whoever was sent later is in them, and whoever else
  is in them was sent at once. The budget rows are read under the fixed prefix
  `pg:` (simulate.ts:454), so a policy whose gate has another `keyPrefix` has
  none; the model keeps the default. With a transport that fails, the k-th draw of
  the generator goes to whatever candidate is sent k-th, a different one per
  policy: a candidate may fail in one run and be sent in the other, and the
  timeline counts it as a difference in outcome though no check stopped it.
- `race`: a minor under the document of the minor mode spends two units of one key
  per message, so a race can use units up that no message goes out for, and a
  commit can be lost to its own first check. `LosesToOthersOnly` allows the
  second; `EveryUnitIsUsed` speaks of keys that one check counts under and that are
  their candidates' only ones, here the day of whoever is no minor.
- `race`: an MCP notification (a request without an id) of `tools/call` is carried
  out and can spend a unit, though nobody is answered (mcp.ts:140: the call is
  awaited before `reply` looks at the id).
- `stores`: `TransactionsEnd` excepts AsyncSqliteStore, where a task cancelled
  while it awaits BEGIN IMMEDIATE (stores.py:209, outside the `try`) leaves the
  transaction open: every later increment of its process throws, and other
  processes cannot write. A first use that throws after the connection was awaited
  (stores.py:165-175) makes the store unusable, since a second await of it is not
  allowed (`Open`, "broken").

## 4. What is proved

For every value of the constants, under the named assumptions of the modules and
the hypotheses given here:

| theorem | says | hypotheses |
|---|---|---|
| **GateCommitProofs** | | |
| `TypeCorrect` | the protocol is well typed, and its sentinels mean what they say | |
| `LimitsHold` | `GrantsBounded` | `DistinctIds` |
| `GateImplementsLedger` | every step of a gate that fails closed is a step of BudgetLedger or a stutter | `DistinctIds` |
| `RefusalsHaveACause` | `RefusedForCause` | `NoShadow` |
| `PatientCallersSpendOnce` | `OneSpendForPatient` | `DistinctIds` |
| `MarkersStay` | `FirstResultStays` | `DistinctIds` |
| `EarlierChecksShield` | `DuplicatesSpendNothing` | finitely many candidates |
| **FrontEndsProofs** | | |
| `FrontEndsUseTheGate` | every step of any number of front ends is a step of GateCommit or leaves the gate alone, so the theorems above hold of them | |
| `DeliveriesHoldUnits` | `EachHoldsItsUnit` | `DistinctIds`, `NoErrors` |
| `SequentialFrontEndsLoseToOthers` | `LosesToOthersOnly` | `DistinctIds`, `NoErrors`, `NoShadow` |
| **ExplainProofs** | | |
| `FirstStop`, `LastAdjust`, `TraceTells` | who decides, where the message goes, what the trace tells of shadow mode, for policies of any length | |
| `PolicyIsEvaluated` | an explained evaluation is an evaluation of GateEvaluate | |
| `SummaryIsTheDeciders` | `SummaryNamesTheDecider` | |
| `AcceptedDocumentsCompile` | a document the schema accepts compiles | |
| `DocumentsHonoured` | `DocumentsAreHonoured`, for documents of any length | |
| `ChecksAreSpokenFor` | `SpeaksForTheSpeaker` | `OwnIds` |
| `PresetsKeepLimits` | `PresetsKeepTheirLimits` | `GivenLimit # 1` |
| **MapStoresProofs** | | |
| `MapIsAStore` | MemoryStore, and RedisStore with a script, implement KeyStore | |
| `ClaimsAreExclusive` | `OneClaimPerLifetime` | |
| `OnlyFailureLeavesImmortals` | `ImmortalOnlyByFailure` | |
| **SqlStoreProofs** | | |
| `OnlyPrunesLose` | `WritesLostToPruneOnly` | |
| `TransactionsAreEnded` | `TransactionsEnd` | |
| `OneProcessIsSafe` | `OneProcessPrunesTheDead` | |
| **LocalClockProofs** | | |
| `TypeCorrect`, `NeverEarly` | a search keeps its bounds; no refusal is said to end too early | |
| `WindowsSilence` | `SilentInItsWindows` | the sentinel is no window, `WindowsInDay` |
| `WeekTurnsOnMonday` | the ISO week changes on Mondays only | |
| `WeeksTurn` | `ResetsOnMonday` | `SmallShifts`, `CalendarRuns`, at least 32 jumps |
| `ResetsFound` | of every reset, `GivesUpSixDaysOn` and `OnlyShortSpellsOverlooked`: it is always found | as before |
| `EndsFound` | of quiet hours whose end is named, `OnlyShortSpellsOverlooked` | `SmallShifts`, `WindowsInDay` |
| **PoliciesProofs** | | |
| `TypeCorrect`, `ChecksOnlyTake`, `UrgencySafe`, `ToldIsSilenced` | types, `StricterNeverMore`, `UrgencyNeverHurts`, `DismissalsSilence`, for every pair of policies, every user and any length of time | |
| **SimulateProofs** | | |
| `ReplayIsSound` | the invariant `ReplayInv`, below | |
| `TheClockOnlyMovesForward` | `ForwardOnly` | |
| `NoCandidateIsForgotten` | `NothingForgotten` | |
| `DeferralsEnd` | `DeferralEnds` | |
| `SendsReadFreshState` | `SentOnFreshState` | |
| `PaidForIsPaidFor`, `RowsCountThePayers` | `PaidDeliveriesStand`, `RowsAreWhatWasPaid` | |
| `TheTimelineIsTrue`, `BusyDaysArePostponedDays`, `TheBooksBalance` | `TimelineTellsTheRun`, `BusyDaysWerePostponed`, `BooksBalance`, for streams of any length | |

The hypotheses, and why they are there:

- `DistinctIds`: no two instances evaluate one candidate in one millisecond;
  section 3 says what happens when they do. `OneSpendForPatient` and
  `FirstResultStays` speak of callers that wait, by their own premise;
  `overlap_spend` is the other case.
- `NoErrors`: no store call throws. A call that throws after its increment has
  spent a unit that nothing was delivered for.
- `NoShadow`: no consuming check is in shadow mode; `shadow_refuses` shows one
  that stops a message at commit, so its refusal has a cause no limit explains.
- `OwnIds`: checks of the library in a policy written by hand have ids of their
  own. Under the id of another check, `keyForId` hands a trace entry to that
  check's templates. Compiled checks need no such promise: it is proved of them.
- `GivenLimit # 1`: see `evaluate` in section 3.
- `SmallShifts`: no zone's clock jumps by more than a search steps back (180
  minutes, checks.ts:178). Zones that skipped a whole day are left to TLC.
- `CalendarRuns`: a year and a month have begun before any day, and another
  month begins within 31 days. Thirty-two jumps of a midnight each, of the
  forty the code allows, then reach one.
- `WindowsInDay`: windows begin and end between 00:00 and 24:00
  (policy-schema.ts).

The argument for the limits. `GrantsBounded` counts deliveries, and no action
can see that count; the invariant `GrantInv` makes it inductive with tickets.
The value an increment returned is a ticket: no other call has it for that key
(`TicketInv`). A call in its loop holds tickets within the limits for all the
checks behind it (`LoopInv`). Behind every marker "1" and every delivered
decision, but for those a failure let out, there is a call that holds a ticket
within the limit for each of its keys (`PaidInv`), and since ids are unique
(`UniqueInv`) a marker speaks of one decision only. Mapping each paid decision
of a key to its payer's ticket is then an injection into 1..limit
(`GrantBound`), and the unpaid ones are at most the errors.

The other properties of the protocol use the same tickets. A refusal: each "0"
about to be written, written or answered stands for a counter above its limit,
and counters only grow (`CauseInv`). Duplicates: a later check's counter is at
most the number of keys the earlier check let a call through for (`SpendInv`).
Patient callers: of the calls for a decision at most one is under way, and once
one has finished, the marker has its answer (`RetryInv`).

For the front ends a call belongs to the request of its number (`RequestInv`), so
the marker a commit reads is never another decision's, and a grant is paid by the
call itself (`GrantedInv`); a call has no ticket of a check it has not come to
(`FreshInv`), and so each increment adds one to the set of calls and checks that
hold a ticket of that key, whose size is the counter (`CountInv`). That a queue loses to
others only (`OthersInv`) follows from the room its evaluation saw (`RoomInv`):
all its front end has drawn so far is below the limit, and while the request is
pending that front end has no other.

For one evaluation the invariants of GateEvaluate say of the history of
answers what the loop has not stored: that no check so far was entitled to stop,
and which one adjusted last. For documents `SetupInv` says that the gate is the
document's throughout. What `compilePolicy` builds is a recursion over the
entries; a first entry at which it went wrong would be preceded by one at which
it did not, and so each check is found at its entry without induction
over data. `VoiceInv` says that each answer of the trace is one its check's
factory can give, and a table of those answers shows which parser takes each.

For the searches `OpenInv` says that the instant they step back from is open.
`ResetInv` adds that all local days from the refusal's to the one a search for a
reset has come to have the same key, that no minute behind it is of a later day,
and that it has jumped at most once more than there were days; where it lands,
what is behind it of the new day can still be reached by stepping back. `EndInv`
says of a search for the end of quiet hours that every minute behind it is quiet,
in a short spell, or within reach.

For the stores, `WindowInv` says that a claim is either a lifetime old or still
holds the counter, and that a caller between INCR and EXPIRE is the only one on
its key, which until then never expires and which nobody else has a claim on.
For SQL (`StoreInv`) the same holds of two tables, what the writing process sees
and what is committed, so that a rollback restores a table that is right, too;
a call keeps the instant it read, which is at most as old as the call; and an open
transaction has an increment that will end it, or was left by a task cancelled
at BEGIN.

`ReplayInv` of the simulator has five parts: types; the queue and the stream lie
ahead of the clock (`TimeInv`); the queue holds every candidate that waits once
and no other (`QueueInv`); each record is what the snapshots and the policy say
at its instant (`TrailInv`); and the rows count the charges, one per candidate,
within the limit (`MoneyInv`). An iteration changes one candidate's records and
at most one charge (`Taken`), so that each part is shown once for all outcomes.
The report's counts then follow by counting the finished records apart.

For two policies `Fewer` makes `StricterNeverMore` inductive: where the looser
policy has a budget so has the stricter, and neither its counter nor what it
delivers past the counter (by bypass) exceeds the looser one's. For dismissals
`Memory` says that a list outlives what must be remembered and holds it, and so
does the copy of every caller of `record()` that has read and not yet written.

Only model-checked:

- `EveryUnitIsUsed`: liveness is out of the prover's reach, and so is the
  ENABLED in its fairness.
- `GivesUpSixDaysOn` for quiet hours, where sixteen jumps for up to two windows a
  day and a change of the clock just suffice, and searches in a zone that skips
  a whole day.
- What is open between the refusal and where a search for the end of quiet hours
  gives up (`EndsFound` speaks of ends that are named).
- The runs that end in a violation.

CASE in TLA+ may take any of several arms that hold. Where the code's branches
overlap, the arms here exclude each other (`Start` of SqlStore, the cells of
SimulateReport), so that TLC and the proofs see the branch the code takes.

## 5. What is not modelled

- The hooks of a gate: they are caught and change nothing. `inspect` only reads.
- The zone rules themselves (`Intl`), ISO parsing, JSON.
- Of explain: the languages other than English, which fill the same templates, and
  the numbers and names filled in. Of the reports: layout, samples and sentences.
- Of the front ends: arguments, output formats, the handshake of MCP, and the
  commands that call no gate (`validate`, `init`'s questions).
- Of the simulator: the check of its input and the seeded generator (a send fails
  or not); the demo week is a stream like any other.
- The gate, checks and explain of the Python package, and the Go package: the same
  protocol over the same keys, so that their modules would repeat these line by
  line. The Python MemoryStore and RedisStore do what MapStores has, behind a lock.
- The conformance runner, the release scripts, the documentation site, benchmarks
  and CI.

## 6. What could follow

1. **Policies** further: what dedupe and the slower counters do to the
   comparison of policies.
2. **FrontEnds** with a store that throws: which requests cost a unit without a
   delivery, one per failure at most.
3. **Proofs**: `GivesUpSixDaysOn` for quiet hours; searches in zones that skip a
   day; a RedisStore without a script as a KeyStore whose counters may lack their
   expiry for a while.
4. **Ports**: the clocks of the Python and Go packages, where they differ from the
   TypeScript one.
