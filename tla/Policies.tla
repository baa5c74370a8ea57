------------------------------- MODULE Policies -------------------------------
(***************************************************************************)
(* The checks a policy is built from, and what becomes of one stream of    *)
(* messages under two policies, a looser one and a stricter one that has   *)
(* more checks.  Each policy has a store of its own, as two runs of a      *)
(* replay have; the messages, the settings they carry and the user's       *)
(* dismissals are the same.  A message is evaluated and committed in one   *)
(* step here (GateCommit is about what happens in between).  What record() *)
(* does is two steps: it reads a list, and writes it back with an entry    *)
(* more.                                                                   *)
(*                                                                         *)
(* Instants are ticks; a zone is an offset (LocalClock has the real ones). *)
(***************************************************************************)
EXTENDS Integers, FiniteSets

CONSTANTS
  Users,             \* the user states messages carry
  Candidates,        \* the candidates, priority apart
  Types,             \* the types of candidates
  Policies,          \* the sets of checks to compare
  DayLength,         \* ticks in a local day
  AllowedModes,      \* mode({allow})
  IntensityFloors,   \* intensity(floors)
  QuietFloor,        \* quietHours({priorityFloor})
  RampTicks, RampFloor,            \* trustRamp({days, minPriority})
  Dismissals, Within, Silence,     \* dismissalCooldown({dismissals, withinDays, silenceDays})
  Keep,              \* record() keeps a dismissal for ninety days
  AllowedMinutes, WindowFloor,     \* allowedWindow(): the minutes, the floor or Null
  WindowZone,                      \* its fixed zone, or Null for the user's
  ConsentName, ConsentMinutes,     \* requiresConsent({name, when}): the minutes, or Null
  ConsentZone,                     \* the zone of `when`, or Null for the user's
  InboundTicks,      \* recentInteraction({withinHours})
  CostFalseAlarm, CostMissedHelp,  \* utilityFloor()
  Certain,           \* the probability 1: probabilities are multiples of 1/Certain
  Limit, BypassPriority,           \* dailyBudget({limit, bypassPriority}), or Null
  Recorders,         \* callers of record()
  MaxLate,           \* ticks a dismissal is reported late, at most
  MaxNow, MaxSent, MaxCalls,       \* bounds
  Null

PRIORITY_RANK == [low |-> 0, normal |-> 1, high |-> 2, critical |-> 3]
Priorities == DOMAIN PRIORITY_RANK

\* The order of defaultChecks(), as a set: any stop refuses the message.
DefaultOrder ==
  {"killSwitch", "consent", "enabled", "mode", "snooze", "mute", "intensity",
   "quietHours", "trustRamp", "dismissalCooldown", "adaptiveTiming", "dailyBudget"}

\* Checks a policy document may add, apart from further counters.
Optional == {"utilityFloor", "boundedDeferral", "allowedWindow", "requiresConsent",
             "recentInteraction"}

Instants == 0..MaxNow
Days == -1..(MaxNow \div DayLength + 1)

ASSUME PolicyAssumption == Policies \subseteq SUBSET (DefaultOrder \cup Optional)
ASSUME DayAssumption == DayLength \in Nat \ {0}
ASSUME BoundAssumption == MaxNow \in Nat /\ MaxSent \in Nat /\ MaxCalls \in Nat
ASSUME LimitAssumption == Limit \in Nat
ASSUME FloorAssumption ==
  /\ IntensityFloors \in [{"low", "normal", "high"} -> Priorities]
  /\ QuietFloor \in Priorities /\ RampFloor \in Priorities
  /\ WindowFloor \in Priorities \cup {Null} /\ BypassPriority \in Priorities \cup {Null}
ASSUME CooldownAssumption ==
  Dismissals \in Nat \ {0} /\ Within \in Nat /\ Silence \in Nat /\ Keep \in Nat /\ MaxLate \in Nat
\* A user is between the three intensities, undefined being "normal", and lives in
\* a zone less than a day away.
ASSUME UserAssumption ==
  \A user \in Users : /\ user.intensity \in {"low", "normal", "high"}
                      /\ user.timezone \in {Null} \cup (-DayLength..DayLength)
ASSUME ZoneAssumption == {WindowZone, ConsentZone} \subseteq {Null} \cup (-DayLength..DayLength)
ASSUME NullAssumption == Null \notin Int /\ Null \notin Types

VARIABLES
  now,        \* the clock
  policy,     \* the looser and the stricter policy, the same throughout
  sent,       \* history: messages delivered, per policy and local day
  used,       \* the daily budget's counters, per policy and local day
  log,        \* the lists record() keeps, per type: the entries, and when the key expires
  recorder,   \* what each caller of record() is at
  calls,      \* history: calls of record(), which tells entries of one instant apart
  dismissed   \* history: the dismissals whose record() returned

vars == <<now, policy, sent, used, log, recorder, calls, dismissed>>

Both == {"looser", "stricter"}

-----------------------------------------------------------------------------
(* The checks: when each stops a message.  What they skip, they pass.      *)

AtLeast(priority, floor) == PRIORITY_RANK[priority] >= PRIORITY_RANK[floor]

\* localClock() and localDay(): without a zone, the day is that of UTC.
LocalMinute(t, zone) == (t + zone) % DayLength
LocalDay(user) == (now + (IF user.timezone = Null THEN 0 ELSE user.timezone)) \div DayLength

Consent(user) == ~user.consent
Enabled(user) == user.proactiveEnabled = "off"
Mode(user) == user.mode # Null /\ user.mode \notin AllowedModes
Snooze(user) == user.snoozedUntil # Null /\ user.snoozedUntil > now
Mute(user, candidate) == candidate.type \in user.mutedTypes

\* Mutant: the floor is compared the wrong way round.
IntensityCapped(user, priority) == ~AtLeast(IntensityFloors[user.intensity], priority)

Intensity(user, priority) == ~AtLeast(priority, IntensityFloors[user.intensity])

\* The user's quiet hours, as the local minutes they silence.
QuietHours(user, priority) ==
  /\ user.timezone # Null
  /\ LocalMinute(now, user.timezone) \in user.quietMinutes
  /\ ~AtLeast(priority, QuietFloor)

TrustRamp(user, priority) ==
  /\ user.createdAt # Null
  /\ now - user.createdAt < RampTicks
  /\ ~AtLeast(priority, RampFloor)

\* zoneOf(): a fixed zone, or the user's.
ZoneOf(user, fixed) == IF fixed = Null THEN user.timezone ELSE fixed

AllowedWindow(user, priority) ==
  LET zone == ZoneOf(user, WindowZone) IN
  /\ zone # Null
  /\ WindowFloor = Null \/ ~AtLeast(priority, WindowFloor)
  /\ LocalMinute(now, zone) \notin AllowedMinutes

RequiresConsent(user) ==
  LET zone == ZoneOf(user, ConsentZone) IN
  /\ ConsentName \notin user.consents
  /\ ConsentMinutes # Null => zone # Null /\ LocalMinute(now, zone) \in ConsentMinutes

RecentInteraction(user) ==
  user.lastInboundAt = Null \/ now - user.lastInboundAt > InboundTicks

\* pAccept < cFA / (cFA + pNeed * cFN), multiplied out; the quotient is not a
\* number when nothing costs anything, and then no pAccept reaches it.
UtilityFloor(candidate) ==
  LET pNeed == IF candidate.pNeed = Null THEN Certain ELSE candidate.pNeed
      cost == CostFalseAlarm * Certain + pNeed * CostMissedHelp
  IN  /\ candidate.pAccept # Null
      /\ cost = 0 \/ candidate.pAccept * cost < CostFalseAlarm * Certain * Certain

-----------------------------------------------------------------------------
(* Dismissals *)

\* The list of a type is modelled as the set of its entries: the check sorts it.
\* store.get(): a key is gone at its expiry.
Entries(type) == IF now < log[type].expires THEN log[type].entries ELSE {}

\* The dismissals still inside the window silence the type from the latest on.
DismissalCooldown(type) ==
  LET recent == {e \in Entries(type) : e.at >= now - Within}
  IN  Cardinality(recent) >= Dismissals /\ \E e \in recent : now < e.at + Silence

Idle == [pc |-> "idle", type |-> Null, entry |-> Null, raw |-> {}, alone |-> "no"]

\* The calls of record() under way for a type.
Recording(type) == {r \in Recorders : recorder[r].pc = "read" /\ recorder[r].type = type}

\* record() reads the list.  `at` is the caller's, else the time of the call.
\* Whether another call for the type is under way meanwhile is history.
RecordRead(r, type, at) ==
  /\ recorder[r].pc = "idle"
  /\ calls < MaxCalls
  /\ calls' = calls + 1
  /\ recorder' = [q \in Recorders |->
       IF q = r THEN [pc |-> "read", type |-> type, entry |-> [at |-> at, call |-> calls],
                      raw |-> Entries(type),
                      alone |-> IF Recording(type) = {} THEN "yes" ELSE "no"]
       ELSE IF q \in Recording(type) THEN [recorder[q] EXCEPT !.alone = "no"]
       ELSE recorder[q]]
  /\ UNCHANGED <<now, policy, sent, used, log, dismissed>>

\* Mutant: dismissals are kept only as long as they silence.
KeptForSilence(r) == {e \in recorder[r].raw : e.at >= recorder[r].entry.at - Silence}

\* The entries of the list that are kept.
Kept(r) == {e \in recorder[r].raw : e.at >= recorder[r].entry.at - Keep}

\* It writes the list back, whatever was written in between.
RecordWrite(r) ==
  LET type == recorder[r].type
      entry == recorder[r].entry
  IN  /\ recorder[r].pc = "read"
      /\ log' = [log EXCEPT ![type] = [entries |-> Kept(r) \cup {entry}, expires |-> now + Keep]]
      /\ dismissed' = dismissed \cup {[type |-> type, entry |-> entry, alone |-> recorder[r].alone]}
      /\ recorder' = [recorder EXCEPT ![r] = Idle]
      /\ UNCHANGED <<now, policy, sent, used, calls>>

\* A store call throws, and so does record().
RecordThrows(r) ==
  /\ recorder[r].pc = "read"
  /\ recorder' = [recorder EXCEPT ![r] = Idle]
  /\ UNCHANGED <<now, policy, sent, used, log, calls, dismissed>>

-----------------------------------------------------------------------------
(* Policies *)

\* The checks that keep no counter.  adaptiveTiming and boundedDeferral move a
\* delivery and never stop one.
Stops(c, user, candidate, priority, killed) ==
  \/ c = "killSwitch"        /\ killed
  \/ c = "consent"           /\ Consent(user)
  \/ c = "enabled"           /\ Enabled(user)
  \/ c = "mode"              /\ Mode(user)
  \/ c = "snooze"            /\ Snooze(user)
  \/ c = "mute"              /\ Mute(user, candidate)
  \/ c = "intensity"         /\ Intensity(user, priority)
  \/ c = "quietHours"        /\ QuietHours(user, priority)
  \/ c = "trustRamp"         /\ TrustRamp(user, priority)
  \/ c = "dismissalCooldown" /\ DismissalCooldown(candidate.type)
  \/ c = "utilityFloor"      /\ UtilityFloor(candidate)
  \/ c = "allowedWindow"     /\ AllowedWindow(user, priority)
  \/ c = "requiresConsent"   /\ RequiresConsent(user)
  \/ c = "recentInteraction" /\ RecentInteraction(user)

Bypass(priority) == BypassPriority # Null /\ AtLeast(priority, BypassPriority)

\* Mutant: run() forgets the bypass that consume() grants.
ExhaustedForAll(w, user, priority) == used[w][LocalDay(user)] >= Limit

\* run() of the daily budget.
Exhausted(w, user, priority) == ~Bypass(priority) /\ used[w][LocalDay(user)] >= Limit

\* evaluate(): no check of the policy stops the message.
Allowed(w, user, candidate, priority, killed) ==
  /\ \A c \in policy[w] : ~Stops(c, user, candidate, priority, killed)
  /\ "dailyBudget" \in policy[w] => ~Exhausted(w, user, priority)

\* consume() of the daily budget, which the commit of a delivery runs.
Consumes(w, priority) == "dailyBudget" \in policy[w] /\ ~Bypass(priority)

\* A message comes up, and each policy delivers it or does not.
Message(user, candidate, priority, killed) ==
  LET today == LocalDay(user)
      delivers == {w \in Both : Allowed(w, user, candidate, priority, killed)}
      charges == {w \in delivers : Consumes(w, priority)}
  IN  /\ \A w \in Both : sent[w][today] < MaxSent
      /\ sent' = [w \in Both |->
           IF w \in delivers THEN [sent[w] EXCEPT ![today] = @ + 1] ELSE sent[w]]
      /\ used' = [w \in Both |->
           IF w \in charges THEN [used[w] EXCEPT ![today] = @ + 1] ELSE used[w]]
      /\ UNCHANGED <<now, policy, log, recorder, calls, dismissed>>

Tick ==
  /\ now < MaxNow
  /\ now' = now + 1
  /\ UNCHANGED <<policy, sent, used, log, recorder, calls, dismissed>>

Init ==
  /\ now = 0
  /\ policy \in [Both -> Policies]
  /\ policy["looser"] \subseteq policy["stricter"]
  /\ sent = [w \in Both |-> [d \in Days |-> 0]]
  /\ used = [w \in Both |-> [d \in Days |-> 0]]
  /\ log = [type \in Types |-> [entries |-> {}, expires |-> 0]]
  /\ recorder = [r \in Recorders |-> Idle]
  /\ calls = 0
  /\ dismissed = {}

Next ==
  \/ Tick
  \/ \E user \in Users, candidate \in Candidates, priority \in Priorities, killed \in BOOLEAN :
       Message(user, candidate, priority, killed)
  \/ \E r \in Recorders, type \in Types, at \in {t \in Instants : now - MaxLate <= t /\ t <= now} :
       RecordRead(r, type, at)
  \/ \E r \in Recorders : RecordWrite(r)
  \/ \E r \in Recorders : RecordThrows(r)

Spec == Init /\ [][Next]_vars

-----------------------------------------------------------------------------
(* Properties *)

Entry == [at : Int, call : Nat]

Calling == [pc : {"read"}, type : Types, entry : Entry, raw : SUBSET Entry,
            alone : {"yes", "no"}]

TypeOK ==
  /\ now \in Instants
  /\ policy \in [Both -> Policies]
  /\ sent \in [Both -> [Days -> Nat]]
  /\ used \in [Both -> [Days -> 0..Limit]]
  /\ log \in [Types -> [entries : SUBSET Entry, expires : Nat]]
  /\ recorder \in [Recorders -> {Idle} \cup Calling]
  /\ calls \in Nat
  /\ dismissed \subseteq [type : Types, entry : Entry, alone : {"yes", "no"}]

\* Checks only take away: on every local day the stricter policy delivers at
\* most as many messages as the looser one.  None of these checks defers, and
\* what a check refuses leaves the budget to others, but never more of it than
\* the looser policy had spent.
StricterNeverMore ==
  \A d \in Days : sent["stricter"][d] <= sent["looser"][d]

\* Urgency never works against a message: what a policy lets pass at a priority
\* it lets pass at a higher one, whatever the user's settings and the counters.
UrgencyNeverHurts ==
  \A w \in Both, user \in Users, candidate \in Candidates, killed \in BOOLEAN :
    LET passes == {p \in Priorities : Allowed(w, user, candidate, p, killed)}
    IN  \A p \in passes, q \in Priorities : AtLeast(q, p) => q \in passes

\* The entries of a type no other call of record() for it was under way with, as
\* far back as the list goes.
Remembered(type) ==
  {d.entry : d \in {d \in dismissed : d.type = type /\ d.alone = "yes"
                                       /\ d.entry.at > now - Keep}}

\* What record() was told in time silences: as long as enough dismissals lie in
\* the window, and one of them is recent, the type is silent.  Pruning, the expiry
\* of the list, late reports, failures, and concurrent calls for other types or
\* among themselves take nothing away; only what was told while another call for
\* the type was under way can be lost.
DismissalsSilence ==
  \A type \in Types :
    LET recent == {e \in Remembered(type) : e.at >= now - Within}
    IN  /\ Cardinality(recent) >= Dismissals
        /\ \E e \in recent : now < e.at + Silence
        => DismissalCooldown(type)

\* What the source says of the silence: enough dismissals within the window buy a
\* silence that runs from the latest of them, for all of its length.
SilenceRunsItsCourse ==
  \A type \in Types : \A latest \in Remembered(type) :
    LET counted == {e \in Remembered(type) : latest.at - Within <= e.at /\ e.at <= latest.at}
    IN  Cardinality(counted) >= Dismissals /\ now < latest.at + Silence => DismissalCooldown(type)
=============================================================================
