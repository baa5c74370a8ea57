---------------------------- MODULE PoliciesProofs ----------------------------
(***************************************************************************)
(* What holds of any two policies built from these checks, for every user, *)
(* limit, floor and length of time: more checks never deliver more,        *)
(* urgency never hurts, and dismissals told one at a time silence.         *)
(***************************************************************************)
EXTENDS Policies, FiniteSetTheorems, TLAPS

-----------------------------------------------------------------------------
(* Urgency *)

LEMMA Ranks == \A p \in Priorities : PRIORITY_RANK[p] \in 0..3
  BY DEF Priorities, PRIORITY_RANK

LEMMA Transitive ==
  ASSUME NEW p \in Priorities, NEW q \in Priorities, NEW floor \in Priorities,
         AtLeast(q, p), AtLeast(p, floor)
  PROVE  AtLeast(q, floor)
  BY Ranks DEF AtLeast

\* No check without a counter stops a message at a higher priority that it lets
\* pass at a lower one.
LEMMA StopsLess ==
  ASSUME NEW c, NEW user \in Users, NEW candidate, NEW killed,
         NEW p \in Priorities, NEW q \in Priorities, AtLeast(q, p),
         Stops(c, user, candidate, q, killed)
  PROVE  Stops(c, user, candidate, p, killed)
<1>1. Intensity(user, q) => Intensity(user, p)
  BY Transitive, FloorAssumption, UserAssumption DEF Intensity
<1>2. QuietHours(user, q) => QuietHours(user, p)
  BY Transitive, FloorAssumption DEF QuietHours
<1>3. TrustRamp(user, q) => TrustRamp(user, p)
  BY Transitive, FloorAssumption DEF TrustRamp
<1>4. AllowedWindow(user, q) => AllowedWindow(user, p)
  BY Transitive, FloorAssumption DEF AllowedWindow
<1>. QED BY <1>1, <1>2, <1>3, <1>4 DEF Stops

LEMMA ExhaustsLess ==
  ASSUME NEW w, NEW user, NEW p \in Priorities, NEW q \in Priorities, AtLeast(q, p),
         Exhausted(w, user, q)
  PROVE  Exhausted(w, user, p)
<1>1. Bypass(p) => Bypass(q)
  BY Transitive, FloorAssumption DEF Bypass
<1>. QED BY <1>1 DEF Exhausted

LEMMA UrgencyHere == UrgencyNeverHurts
<1>. SUFFICES ASSUME NEW w \in Both, NEW user \in Users, NEW candidate \in Candidates,
                     NEW killed \in BOOLEAN, NEW p \in Priorities, NEW q \in Priorities,
                     Allowed(w, user, candidate, p, killed), AtLeast(q, p)
              PROVE  Allowed(w, user, candidate, q, killed)
  BY DEF UrgencyNeverHurts
<1>1. \A c \in policy[w] : ~Stops(c, user, candidate, q, killed)
  BY StopsLess DEF Allowed
<1>2. "dailyBudget" \in policy[w] => ~Exhausted(w, user, q)
  BY ExhaustsLess DEF Allowed
<1>. QED BY <1>1, <1>2 DEF Allowed

\* A policy never refuses at a higher priority what it allows at a lower one,
\* for every policy, user and counter: floors and bypasses only open upwards
\* (intensity, quietHours, trustRamp, allowedWindow, bypassPriority).
THEOREM UrgencySafe == Spec => []UrgencyNeverHurts
<1>1. UrgencyNeverHurts BY UrgencyHere
<1>. QED BY <1>1, PTL

-----------------------------------------------------------------------------
(* Types, and the counters *)

\* What a message does to the history and the counter of a day.
LEMMA MessageCounts ==
  ASSUME TypeOK, NEW user, NEW candidate, NEW priority, NEW killed,
         Message(user, candidate, priority, killed),
         NEW w \in Both, NEW d \in Days
  PROVE  /\ sent'[w][d] = IF Allowed(w, user, candidate, priority, killed) /\ d = LocalDay(user)
                          THEN sent[w][d] + 1 ELSE sent[w][d]
         /\ used'[w][d] = IF /\ Allowed(w, user, candidate, priority, killed)
                            /\ Consumes(w, priority) /\ d = LocalDay(user)
                          THEN used[w][d] + 1 ELSE used[w][d]
  BY DEF TypeOK, Message

\* A unit is charged only while there is one.
LEMMA ChargedWithin ==
  ASSUME NEW w, NEW user, NEW candidate, NEW priority, NEW killed,
         Allowed(w, user, candidate, priority, killed), Consumes(w, priority)
  PROVE  ~(used[w][LocalDay(user)] >= Limit)
  BY DEF Allowed, Consumes, Exhausted

LEMMA InitTypeOK == Init => TypeOK
  BY BoundAssumption, LimitAssumption
  DEF Init, TypeOK, Instants, Both, Entry, Calling

LEMMA MessageTypeOK ==
  ASSUME TypeOK, NEW user, NEW candidate, NEW priority, NEW killed,
         Message(user, candidate, priority, killed)
  PROVE  TypeOK'
<1>1. sent' \in [Both -> [Days -> Nat]]
  <2>1. ASSUME NEW w \in Both PROVE sent'[w] \in [Days -> Nat]
    <3>1. \A d \in Days : sent[w][d] \in Nat BY DEF TypeOK
    <3>2. \A d \in Days : sent'[w][d] \in Nat BY <3>1, MessageCounts
    <3>3. sent'[w] = [d \in Days |-> sent'[w][d]] BY DEF TypeOK, Message
    <3>. QED BY <3>2, <3>3
  <2>. QED BY <2>1 DEF Message
<1>2. used' \in [Both -> [Days -> 0..Limit]]
  <2>1. ASSUME NEW w \in Both PROVE used'[w] \in [Days -> 0..Limit]
    <3>1. ASSUME NEW d \in Days PROVE used'[w][d] \in 0..Limit
      <4>1. used[w][d] \in 0..Limit BY DEF TypeOK
      <4>2. CASE /\ Allowed(w, user, candidate, priority, killed)
                 /\ Consumes(w, priority) /\ d = LocalDay(user)
        <5>1. used[w][d] < Limit BY <4>1, <4>2, ChargedWithin, LimitAssumption
        <5>. QED BY <4>1, <4>2, <5>1, MessageCounts, LimitAssumption
      <4>3. CASE ~(/\ Allowed(w, user, candidate, priority, killed)
                   /\ Consumes(w, priority) /\ d = LocalDay(user))
        BY <4>1, <4>3, MessageCounts
      <4>. QED BY <4>2, <4>3
    <3>2. used'[w] = [d \in Days |-> used'[w][d]]
      BY DEF TypeOK, Message
    <3>. QED BY <3>1, <3>2
  <2>. QED BY <2>1 DEF Message
<1>. QED BY <1>1, <1>2 DEF TypeOK, Message

LEMMA RecordTypeOK ==
  ASSUME TypeOK, NEW r \in Recorders,
         \/ \E type \in Types, at \in Instants : RecordRead(r, type, at)
         \/ RecordWrite(r) \/ RecordThrows(r)
  PROVE  TypeOK'
<1>0. /\ recorder[r].pc = "read" => recorder[r] \in Calling
      /\ Instants \subseteq Int /\ now \in Nat
  BY BoundAssumption DEF TypeOK, Idle, Instants
<1>1. ASSUME NEW type \in Types, NEW at \in Instants, RecordRead(r, type, at) PROVE TypeOK'
  <2>1. Entries(type) \subseteq Entry BY DEF TypeOK, Entries
  <2>2. recorder' \in [Recorders -> {Idle} \cup Calling]
    <3>1. ASSUME NEW q \in Recorders PROVE recorder'[q] \in {Idle} \cup Calling
      <4>1. CASE q = r
        <5>. DEFINE entry == [at |-> at, call |-> calls]
                    alone == IF Recording(type) = {} THEN "yes" ELSE "no"
        <5>1. recorder'[r] = [pc |-> "read", type |-> type, entry |-> entry,
                              raw |-> Entries(type), alone |-> alone]
          BY <1>1 DEF RecordRead
        <5>2. entry \in Entry
          BY <1>0 DEF TypeOK, Entry
        <5>3. alone \in {"yes", "no"}
          OBVIOUS
        <5>. HIDE DEF entry, alone
        <5>4. recorder'[r] \in Calling
          BY <2>1, <5>1, <5>2, <5>3 DEF Calling
        <5>. QED BY <4>1, <5>4
      <4>2. CASE q # r /\ q \in Recording(type)
        <5>1. recorder[q] \in Calling BY <4>2 DEF TypeOK, Recording, Idle
        <5>. QED BY <1>1, <4>2, <5>1 DEF RecordRead, Calling
      <4>3. CASE q # r /\ q \notin Recording(type)
        BY <1>1, <4>3 DEF RecordRead, TypeOK
      <4>. QED BY <4>1, <4>2, <4>3
    <3>. QED BY <1>1, <3>1 DEF RecordRead
  <2>3. calls' = calls + 1 /\ UNCHANGED <<now, policy, sent, used, log, dismissed>>
    BY <1>1 DEF RecordRead
  <2>. QED BY <2>2, <2>3 DEF TypeOK
<1>2. CASE RecordWrite(r)
  <2>1. recorder[r] \in Calling BY <1>0, <1>2 DEF RecordWrite
  <2>2. [entries |-> Kept(r) \cup {recorder[r].entry}, expires |-> now + Keep]
          \in [entries : SUBSET Entry, expires : Nat]
    BY <1>0, <2>1, CooldownAssumption DEF Kept, Calling
  <2>3. log' \in [Types -> [entries : SUBSET Entry, expires : Nat]]
    BY <1>2, <2>1, <2>2 DEF RecordWrite, TypeOK
  <2>4. recorder' \in [Recorders -> {Idle} \cup Calling]
    BY <1>2 DEF RecordWrite, TypeOK
  <2>5. dismissed' \subseteq [type : Types, entry : Entry, alone : {"yes", "no"}]
    BY <1>2, <2>1 DEF RecordWrite, TypeOK, Calling
  <2>. QED BY <1>2, <2>3, <2>4, <2>5 DEF RecordWrite, TypeOK
<1>3. CASE RecordThrows(r)
  BY <1>3 DEF RecordThrows, TypeOK
<1>. QED BY <1>1, <1>2, <1>3

LEMMA TypeOKStep == TypeOK /\ [Next]_vars => TypeOK'
<1>. SUFFICES ASSUME TypeOK, [Next]_vars PROVE TypeOK'
  OBVIOUS
<1>1. CASE Tick
  BY <1>1, BoundAssumption DEF Tick, TypeOK, Instants
<1>2. CASE \E user \in Users, candidate \in Candidates, priority \in Priorities,
              killed \in BOOLEAN : Message(user, candidate, priority, killed)
  BY <1>2, MessageTypeOK
<1>3. CASE \E r \in Recorders :
             \/ \E type \in Types, at \in Instants : RecordRead(r, type, at)
             \/ RecordWrite(r) \/ RecordThrows(r)
  BY <1>3, RecordTypeOK
<1>4. CASE UNCHANGED vars
  BY <1>4 DEF vars, TypeOK
<1>. QED BY <1>1, <1>2, <1>3, <1>4 DEF Next

\* The state keeps its types, and the daily budget's counter never passes its
\* limit: nothing is charged without a unit (budget() in checks.ts).
THEOREM TypeCorrect == Spec => []TypeOK
  BY InitTypeOK, TypeOKStep, PTL DEF Spec

-----------------------------------------------------------------------------
(* More checks *)

\* The stricter policy has at most the looser one's deliveries: where the looser
\* one has a budget, so has the stricter, and neither its counter nor what it
\* delivers past the counter exceeds the looser one's.
Fewer ==
  /\ policy["looser"] \subseteq policy["stricter"]
  /\ StricterNeverMore
  /\ "dailyBudget" \in policy["looser"] =>
       \A d \in Days :
         /\ used["stricter"][d] <= used["looser"][d]
         /\ sent["stricter"][d] - used["stricter"][d] <= sent["looser"][d] - used["looser"][d]

LEMMA InitFewer == Init => Fewer
  BY DEF Init, Fewer, StricterNeverMore, Both

LEMMA MessageFewer ==
  ASSUME TypeOK, Fewer, NEW user, NEW candidate, NEW priority, NEW killed,
         Message(user, candidate, priority, killed)
  PROVE  Fewer'
<1>. DEFINE Delivers(w) == Allowed(w, user, candidate, priority, killed)
            Charged(w) == Delivers(w) /\ Consumes(w, priority)
            today == LocalDay(user)
<1>1. policy' = policy
  BY DEF Message
<1>2. ASSUME NEW d \in Days
      PROVE  /\ sent["stricter"][d] \in Nat /\ sent["looser"][d] \in Nat
             /\ used["stricter"][d] \in Nat /\ used["looser"][d] \in Nat
  BY LimitAssumption DEF TypeOK, Both
<1>3. ASSUME NEW w \in Both, NEW d \in Days
      PROVE  /\ sent'[w][d] = IF Delivers(w) /\ d = today THEN sent[w][d] + 1 ELSE sent[w][d]
             /\ used'[w][d] = IF Charged(w) /\ d = today THEN used[w][d] + 1 ELSE used[w][d]
  <2>1. /\ sent'[w][d] = IF Delivers(w) /\ d = today THEN sent[w][d] + 1 ELSE sent[w][d]
        /\ used'[w][d] = IF Delivers(w) /\ Consumes(w, priority) /\ d = today
                         THEN used[w][d] + 1 ELSE used[w][d]
    BY MessageCounts
  <2>. QED BY <2>1
<1>4. "stricter" \in Both /\ "looser" \in Both
  BY DEF Both
\* What stops neither in the looser policy is the budget.
<1>5. Delivers("stricter") =>
        \/ Delivers("looser")
        \/ "dailyBudget" \in policy["looser"] /\ Exhausted("looser", user, priority)
  BY DEF Allowed, Fewer
<1>6. CASE "dailyBudget" \notin policy["looser"]
  <2>1. Delivers("stricter") => Delivers("looser")
    BY <1>5, <1>6
  <2>. HIDE DEF Delivers, Charged, today
  <2>2. ASSUME NEW d \in Days PROVE sent'["stricter"][d] <= sent'["looser"][d]
    <3>1. sent["stricter"][d] <= sent["looser"][d]
      BY DEF Fewer, StricterNeverMore
    <3>. QED BY <1>2, <1>3, <1>4, <2>1, <3>1
  <2>. QED BY <1>1, <1>6, <2>2 DEF Fewer, StricterNeverMore
<1>7. CASE "dailyBudget" \in policy["looser"]
  <2>1. "dailyBudget" \in policy["stricter"]
    BY <1>7 DEF Fewer
  <2>2. \A w \in Both : "dailyBudget" \in policy[w]
    BY <1>7, <2>1 DEF Both
  \* A bypass is the priority's, so both policies grant it or neither.
  <2>3. CASE Bypass(priority)
    <3>1. Delivers("stricter") => Delivers("looser")
      BY <1>5, <2>3 DEF Exhausted
    <3>2. \A w \in Both : ~Charged(w)
      BY <2>3 DEF Consumes
    <3>. HIDE DEF Delivers, Charged, today
    <3>3. ASSUME NEW d \in Days
          PROVE  /\ sent'["stricter"][d] <= sent'["looser"][d]
                 /\ used'["stricter"][d] <= used'["looser"][d]
                 /\ sent'["stricter"][d] - used'["stricter"][d]
                      <= sent'["looser"][d] - used'["looser"][d]
      <4>1. /\ sent["stricter"][d] <= sent["looser"][d]
            /\ used["stricter"][d] <= used["looser"][d]
            /\ sent["stricter"][d] - used["stricter"][d] <= sent["looser"][d] - used["looser"][d]
        BY <1>7 DEF Fewer, StricterNeverMore
      <4>. QED BY <1>2, <1>3, <1>4, <3>1, <3>2, <4>1
    <3>. QED BY <1>1, <3>3 DEF Fewer, StricterNeverMore
  <2>4. CASE ~Bypass(priority)
    <3>1. \A w \in Both : Charged(w) <=> Delivers(w)
      BY <2>2, <2>4 DEF Consumes
    <3>2. Delivers("stricter") =>
            Delivers("looser") \/ used["looser"][today] >= Limit
      BY <1>5 DEF Exhausted
    <3>3. Delivers("stricter") => ~(used["stricter"][today] >= Limit)
      BY <2>1, <2>4 DEF Allowed, Exhausted
    <3>. HIDE DEF Delivers, Charged, today
    <3>4. ASSUME NEW d \in Days
          PROVE  /\ sent'["stricter"][d] <= sent'["looser"][d]
                 /\ used'["stricter"][d] <= used'["looser"][d]
                 /\ sent'["stricter"][d] - used'["stricter"][d]
                      <= sent'["looser"][d] - used'["looser"][d]
      <4>1. /\ sent["stricter"][d] <= sent["looser"][d]
            /\ used["stricter"][d] <= used["looser"][d]
            /\ sent["stricter"][d] - used["stricter"][d] <= sent["looser"][d] - used["looser"][d]
        BY <1>7 DEF Fewer, StricterNeverMore
      <4>. QED BY <1>2, <1>3, <1>4, <3>1, <3>2, <3>3, <4>1, LimitAssumption
    <3>. QED BY <1>1, <3>4 DEF Fewer, StricterNeverMore
  <2>. QED BY <2>3, <2>4
<1>. QED BY <1>6, <1>7

LEMMA FewerStep == TypeOK /\ Fewer /\ [Next]_vars => Fewer'
<1>. SUFFICES ASSUME TypeOK, Fewer, [Next]_vars PROVE Fewer'
  OBVIOUS
<1>1. CASE \E user \in Users, candidate \in Candidates, priority \in Priorities,
              killed \in BOOLEAN : Message(user, candidate, priority, killed)
  BY <1>1, MessageFewer
<1>2. CASE UNCHANGED <<policy, sent, used>>
  BY <1>2 DEF Fewer, StricterNeverMore
<1>. QED BY <1>1, <1>2 DEF Next, vars, Tick, RecordRead, RecordWrite, RecordThrows

\* Adding checks that refuse never adds a delivery on any local day, for every two
\* policies of which one has all checks of the other (test/monotonicity.test.ts
\* measures it on pairs of subsets of the default order).
THEOREM ChecksOnlyTake == Spec => []StricterNeverMore
<1>1. Fewer => StricterNeverMore BY DEF Fewer
<1>. QED BY <1>1, TypeCorrect, InitFewer, FewerStep, PTL DEF Spec

-----------------------------------------------------------------------------
(* Dismissals *)

\* The list of a type is finite, holds nothing from the future, and outlives its
\* entries' retention; what is to be remembered is in it.
ListHolds(type) ==
  /\ IsFiniteSet(log[type].entries)
  /\ \A e \in log[type].entries : e.at <= now /\ e.at + Keep <= log[type].expires
  /\ Remembered(type) \subseteq Entries(type)

\* So does the copy a caller of record() is about to write back; a caller still
\* alone is the only one.
CopyHolds(r) ==
  recorder[r].pc = "read" =>
    /\ recorder[r].entry.at <= now
    /\ IsFiniteSet(recorder[r].raw)
    /\ \A e \in recorder[r].raw : e.at <= now
    /\ Remembered(recorder[r].type) \subseteq recorder[r].raw
    /\ recorder[r].alone = "yes" => Recording(recorder[r].type) = {r}

Memory == (\A type \in Types : ListHolds(type)) /\ (\A r \in Recorders : CopyHolds(r))

LEMMA InitMemory == Init => Memory
<1>. SUFFICES ASSUME Init PROVE Memory
  OBVIOUS
<1>1. ASSUME NEW type \in Types PROVE ListHolds(type)
  <2>1. log[type].entries = {}
    BY DEF Init
  <2>2. Remembered(type) = {}
    BY DEF Init, Remembered
  <2>. QED BY <2>1, <2>2, FS_EmptySet DEF ListHolds
<1>2. ASSUME NEW r \in Recorders PROVE CopyHolds(r)
  BY DEF Init, CopyHolds, Idle
<1>. QED BY <1>1, <1>2 DEF Memory

\* Time only shortens what is to be remembered.
LEMMA TickMemory == TypeOK /\ Memory /\ Tick => Memory'
<1>. SUFFICES ASSUME TypeOK, Memory, Tick PROVE Memory'
  OBVIOUS
<1>1. /\ now \in Int /\ now' = now + 1 /\ Keep \in Nat
      /\ UNCHANGED <<log, recorder, dismissed>>
  BY BoundAssumption, CooldownAssumption DEF TypeOK, Instants, Tick
<1>2. ASSUME NEW type \in Types
      PROVE  /\ Remembered(type)' \subseteq Remembered(type)
             /\ \A e \in Remembered(type)' : e.at > now' - Keep /\ e.at \in Int
  BY <1>1 DEF Remembered, TypeOK, Entry
<1>3. ASSUME NEW type \in Types PROVE ListHolds(type)'
  <2>1. ListHolds(type) BY DEF Memory
  <2>2. \A e \in log[type].entries : e.at \in Int BY DEF TypeOK, Entry
  <2>3. log[type].expires \in Nat BY DEF TypeOK
  <2>4. ASSUME NEW e \in Remembered(type)' PROVE e \in Entries(type)'
    <3>1. e \in log[type].entries BY <1>2, <2>1 DEF ListHolds, Entries
    <3>2. now' < log[type].expires BY <1>1, <1>2, <2>1, <2>2, <2>3, <3>1 DEF ListHolds
    <3>. QED BY <1>1, <3>1, <3>2 DEF Entries
  <2>. QED BY <1>1, <2>1, <2>2, <2>3, <2>4 DEF ListHolds
<1>4. ASSUME NEW r \in Recorders PROVE CopyHolds(r)'
  <2>. SUFFICES ASSUME recorder[r].pc = "read" PROVE CopyHolds(r)'
    BY <1>1 DEF CopyHolds
  <2>1. CopyHolds(r) BY DEF Memory
  <2>2. recorder[r] \in Calling BY DEF TypeOK, Idle
  <2>3. \A e \in recorder[r].raw \cup {recorder[r].entry} : e.at \in Int
    BY <2>2 DEF Calling, Entry
  <2>4. Remembered(recorder[r].type)' \subseteq recorder[r].raw
    <3>1. \A type \in Types : Remembered(type)' \subseteq Remembered(type)
      BY <1>2
    <3>. QED BY <1>1, <2>1, <2>2, <3>1 DEF CopyHolds, Calling, Remembered
  <2>5. Recording(recorder[r].type)' = Recording(recorder[r].type)
    BY <1>1 DEF Recording
  <2>. QED BY <1>1, <2>1, <2>3, <2>4, <2>5 DEF CopyHolds
<1>. QED BY <1>3, <1>4 DEF Memory

LEMMA StillMemory ==
  Memory /\ UNCHANGED <<now, log, recorder, dismissed>> => Memory'
<1>. SUFFICES ASSUME Memory, UNCHANGED <<now, log, recorder, dismissed>> PROVE Memory'
  OBVIOUS
<1>1. ASSUME NEW type PROVE /\ Remembered(type)' = Remembered(type)
                            /\ Entries(type)' = Entries(type)
                            /\ Recording(type)' = Recording(type)
  BY DEF Remembered, Entries, Recording
<1>2. ASSUME NEW type \in Types PROVE ListHolds(type)'
  BY <1>1 DEF Memory, ListHolds
<1>3. ASSUME NEW r \in Recorders PROVE CopyHolds(r)'
  <2>1. CopyHolds(r) /\ recorder' = recorder /\ now' = now
    BY DEF Memory
  <2>2. /\ Remembered(recorder[r].type)' = Remembered(recorder[r].type)
        /\ Recording(recorder[r].type)' = Recording(recorder[r].type)
    BY <2>1 DEF Remembered, Recording
  <2>. QED BY <2>1, <2>2 DEF CopyHolds
<1>. QED BY <1>2, <1>3 DEF Memory

\* A copy is all that is to be remembered, and spoils the solitude of the others.
LEMMA ReadMemory ==
  ASSUME TypeOK, Memory, NEW r \in Recorders, NEW type \in Types,
         NEW at \in Instants, at <= now, RecordRead(r, type, at)
  PROVE  Memory'
<1>1. /\ recorder[r].pc = "idle" /\ UNCHANGED <<now, log, dismissed>>
      /\ \A q \in Recorders :
           recorder'[q] = IF q = r
             THEN [pc |-> "read", type |-> type, entry |-> [at |-> at, call |-> calls],
                   raw |-> Entries(type),
                   alone |-> IF Recording(type) = {} THEN "yes" ELSE "no"]
             ELSE IF q \in Recording(type) THEN [recorder[q] EXCEPT !.alone = "no"]
             ELSE recorder[q]
  BY DEF RecordRead
<1>8. /\ recorder'[r].pc = "read" /\ recorder'[r].type = type /\ recorder'[r].entry.at = at
      /\ recorder'[r].raw = Entries(type)
      /\ recorder'[r].alone = "yes" => Recording(type) = {}
  <2>. DEFINE alone == IF Recording(type) = {} THEN "yes" ELSE "no"
  <2>1. recorder'[r] = [pc |-> "read", type |-> type, entry |-> [at |-> at, call |-> calls],
                        raw |-> Entries(type), alone |-> alone]
    BY DEF RecordRead
  <2>2. alone = "yes" => Recording(type) = {}
    OBVIOUS
  <2>. HIDE DEF alone
  <2>. QED BY <2>1, <2>2
<1>2. ASSUME NEW t PROVE Remembered(t)' = Remembered(t) /\ Entries(t)' = Entries(t)
  BY <1>1 DEF Remembered, Entries
<1>3. ASSUME NEW t \in Types PROVE ListHolds(t)'
  BY <1>1, <1>2 DEF Memory, ListHolds
<1>4. ASSUME NEW q \in Recorders, q # r, recorder[q].pc = "read"
      PROVE  /\ recorder'[q].pc = "read" /\ recorder'[q].type = recorder[q].type
             /\ recorder'[q].entry = recorder[q].entry /\ recorder'[q].raw = recorder[q].raw
             /\ recorder'[q].alone = IF recorder[q].type = type THEN "no" ELSE recorder[q].alone
  <2>1. recorder[q] \in Calling
    BY <1>4 DEF TypeOK, Idle
  <2>2. q \in Recording(type) <=> recorder[q].type = type
    BY <1>4 DEF Recording
  <2>. QED BY <1>1, <1>4, <2>1, <2>2 DEF Calling
<1>5. ASSUME NEW q \in Recorders, q # r, recorder[q].pc # "read"
      PROVE  recorder'[q] = recorder[q]
  BY <1>1, <1>5 DEF Recording
<1>6. CopyHolds(r)'
  <2>1. /\ recorder'[r].type = type /\ recorder'[r].entry.at = at
        /\ recorder'[r].raw = Entries(type)
        /\ recorder'[r].alone = "yes" => Recording(type) = {}
    BY <1>8
  <2>2. IsFiniteSet(Entries(type)) /\ \A e \in Entries(type) : e.at <= now
    BY FS_EmptySet DEF Memory, ListHolds, Entries
  <2>3. Remembered(type)' \subseteq Entries(type)
    BY <1>2 DEF Memory, ListHolds
  <2>4. Recording(type) = {} => Recording(type)' = {r}
    <3>. SUFFICES ASSUME Recording(type) = {} PROVE Recording(type)' = {r}
      OBVIOUS
    <3>1. ASSUME NEW q \in Recorders, q # r PROVE q \notin Recording(type)'
      BY <1>4, <1>5, <3>1 DEF Recording
    <3>2. r \in Recording(type)'
      BY <1>8 DEF Recording
    <3>. QED BY <3>1, <3>2 DEF Recording
  <2>5. Remembered(recorder[r].type)' = Remembered(type)' /\ Recording(recorder[r].type)' = Recording(type)'
    BY <2>1 DEF Remembered, Recording
  <2>. QED BY <1>1, <2>1, <2>2, <2>3, <2>4, <2>5 DEF CopyHolds
<1>7. ASSUME NEW q \in Recorders, q # r PROVE CopyHolds(q)'
  <2>1. CASE recorder[q].pc # "read"
    BY <1>5, <1>7, <2>1 DEF CopyHolds
  <2>2. CASE recorder[q].pc = "read"
    <3>1. CopyHolds(q)
      BY DEF Memory
    <3>2. Remembered(recorder[q].type)' = Remembered(recorder[q].type)
      BY <1>1, <1>4, <1>7, <2>2 DEF Remembered
    <3>3. recorder'[q].alone = "yes" => Recording(recorder[q].type)' = {q}
      <4>. SUFFICES ASSUME recorder'[q].alone = "yes" PROVE Recording(recorder[q].type)' = {q}
        OBVIOUS
      <4>1. recorder[q].type # type /\ recorder[q].alone = "yes"
        BY <1>4, <1>7, <2>2
      <4>2. Recording(recorder[q].type) = {q}
        BY <2>2, <3>1, <4>1 DEF CopyHolds
      <4>3. \A s \in Recorders :
              s \in Recording(recorder[q].type)' <=> s \in Recording(recorder[q].type)
        <5>1. recorder'[q].type = recorder[q].type
          BY <1>4, <1>7, <2>2
        <5>2. ASSUME NEW s \in Recorders
              PROVE  recorder'[s].pc = "read" /\ recorder'[s].type = recorder[q].type
                       <=> recorder[s].pc = "read" /\ recorder[s].type = recorder[q].type
          <6>1. CASE s = r BY <1>1, <1>8, <4>1, <6>1
          <6>2. CASE s # r /\ recorder[s].pc = "read" BY <1>4, <6>2
          <6>3. CASE s # r /\ recorder[s].pc # "read" BY <1>5, <6>3
          <6>. QED BY <6>1, <6>2, <6>3
        <5>. QED BY <5>1, <5>2 DEF Recording
      <4>. QED BY <4>2, <4>3 DEF Recording
    <3>. QED BY <1>1, <1>4, <1>7, <2>2, <3>1, <3>2, <3>3 DEF CopyHolds
  <2>. QED BY <2>1, <2>2
<1>. QED BY <1>3, <1>6, <1>7 DEF Memory

\* A call that ends, by writing or by a throw, leaves the others as they are.
LEMMA OthersStay ==
  ASSUME TypeOK, NEW r \in Recorders, recorder[r].pc = "read",
         recorder' = [recorder EXCEPT ![r] = Idle]
  PROVE  /\ recorder'[r].pc = "idle"
         /\ \A q \in Recorders : q # r => recorder'[q] = recorder[q]
         /\ \A type : Recording(type)' = Recording(type) \ {r}
<1>1. recorder'[r] = Idle /\ \A q \in Recorders : q # r => recorder'[q] = recorder[q]
  BY DEF TypeOK
<1>2. recorder'[r].pc = "idle"
  BY <1>1 DEF Idle
<1>. QED BY <1>1, <1>2 DEF Recording

\* What a caller writes back holds all that is to be remembered: either it was in
\* the copy, or it is the caller's own.
LEMMA WriteMemory ==
  ASSUME TypeOK, Memory, NEW r \in Recorders, RecordWrite(r),
         NEW type \in Types, type = recorder[r].type,
         NEW entry \in Entry, entry = recorder[r].entry
  PROVE  Memory'
<1>1. /\ recorder[r] \in Calling /\ recorder[r].pc = "read"
      /\ now' = now /\ now \in Int /\ Keep \in Nat
      /\ log' = [log EXCEPT ![type] = [entries |-> Kept(r) \cup {entry}, expires |-> now + Keep]]
      /\ dismissed' = dismissed \cup {[type |-> type, entry |-> entry, alone |-> recorder[r].alone]}
      /\ recorder' = [recorder EXCEPT ![r] = Idle]
  BY BoundAssumption, CooldownAssumption DEF RecordWrite, TypeOK, Idle, Instants
<1>2. /\ entry.at \in Int
      /\ recorder[r].raw \subseteq Entry /\ recorder[r].alone \in {"yes", "no"}
  BY <1>1 DEF Calling, Entry
<1>3. /\ entry.at <= now /\ IsFiniteSet(recorder[r].raw)
      /\ \A e \in recorder[r].raw : e.at <= now /\ e.at \in Int
      /\ Remembered(type) \subseteq recorder[r].raw
      /\ recorder[r].alone = "yes" => Recording(type) = {r}
  <2>1. CopyHolds(r) BY DEF Memory
  <2>2. \A e \in recorder[r].raw : e.at \in Int BY <1>2 DEF Entry
  <2>. QED BY <1>1, <2>1, <2>2 DEF CopyHolds
<1>4. ASSUME NEW t
      PROVE  Remembered(t)' \subseteq
               Remembered(t) \cup (IF t = type /\ recorder[r].alone = "yes" THEN {entry} ELSE {})
  <2>. SUFFICES ASSUME NEW e \in Remembered(t)', e \notin Remembered(t)
                PROVE  t = type /\ recorder[r].alone = "yes" /\ e = entry
    OBVIOUS
  <2>1. PICK d \in dismissed' : /\ d.type = t /\ d.alone = "yes" /\ d.entry.at > now - Keep
                                /\ e = d.entry
    BY <1>1 DEF Remembered
  <2>2. d \notin dismissed
    BY <2>1 DEF Remembered
  <2>3. d = [type |-> type, entry |-> entry, alone |-> recorder[r].alone]
    BY <1>1, <2>2
  <2>. QED BY <2>1, <2>3
<1>5. ASSUME NEW t, NEW e \in Remembered(t)' PROVE e.at > now - Keep
  BY <1>1 DEF Remembered
<1>6. ListHolds(type)'
  <2>1. /\ log'[type].entries = Kept(r) \cup {entry} /\ log'[type].expires = now + Keep
    BY <1>1, <1>2 DEF TypeOK
  <2>2. /\ Kept(r) \subseteq recorder[r].raw
        /\ \A e \in recorder[r].raw : e.at > now - Keep => e \in Kept(r)
    BY <1>1, <1>2, <1>3 DEF Kept
  <2>3. IsFiniteSet(log'[type].entries)
    BY <1>3, <2>1, <2>2, FS_Subset, FS_AddElement
  <2>4. \A e \in log'[type].entries : e.at <= now /\ e.at \in Int
    BY <1>2, <1>3, <2>1, <2>2
  <2>5. ASSUME NEW e \in Remembered(type)' PROVE e \in Entries(type)'
    <3>1. e \in recorder[r].raw \cup {entry}
      BY <1>3, <1>4
    <3>2. e \in log'[type].entries
      BY <1>5, <2>1, <2>2, <3>1
    <3>3. now < log'[type].expires
      BY <1>1, <1>5, <2>1, <2>4, <3>2
    <3>. QED BY <1>1, <3>2, <3>3 DEF Entries
  <2>6. \A e \in log'[type].entries : e.at <= now' /\ e.at + Keep <= log'[type].expires
    BY <1>1, <2>1, <2>4
  <2>7. Remembered(type)' \subseteq Entries(type)'
    BY <2>5
  <2>. QED BY <2>3, <2>6, <2>7 DEF ListHolds
<1>7. ASSUME NEW t \in Types, t # type PROVE ListHolds(t)'
  <2>1. log'[t] = log[t] /\ Remembered(t)' \subseteq Remembered(t)
    BY <1>1, <1>4, <1>7 DEF TypeOK
  <2>2. Entries(t)' = Entries(t)
    <3>1. now' = now /\ log'[t] = log[t] BY <1>1, <2>1
    <3>. QED BY <3>1 DEF Entries
  <2>3. ListHolds(t) BY DEF Memory
  <2>. QED BY <1>1, <2>1, <2>2, <2>3 DEF ListHolds
<1>8. ASSUME NEW q \in Recorders, recorder'[q].pc = "read" PROVE CopyHolds(q)'
  <2>1. q # r /\ recorder'[q] = recorder[q]
        /\ \A t : Recording(t)' = Recording(t) \ {r}
    BY <1>1, <1>8, OthersStay
  <2>2. CopyHolds(q) /\ recorder[q].pc = "read" BY <1>8, <2>1 DEF Memory
  <2>3. recorder[q].type = type /\ recorder[r].alone = "yes" => FALSE
    BY <1>3, <2>1, <2>2 DEF Recording
  <2>4. ASSUME NEW t, t = recorder[q].type
        PROVE  /\ Remembered(t)' \subseteq recorder[q].raw
               /\ recorder[q].alone = "yes" => Recording(t)' = {q}
    <3>1. Remembered(t)' \subseteq Remembered(t)
      BY <1>4, <2>3, <2>4
    <3>2. recorder[q].alone = "yes" => Recording(t)' = {q}
      BY <2>1, <2>2, <2>4 DEF CopyHolds
    <3>. QED BY <2>2, <2>4, <3>1, <3>2 DEF CopyHolds
  <2>. QED BY <1>1, <2>1, <2>2, <2>4 DEF CopyHolds
<1>9. ASSUME NEW q \in Recorders PROVE CopyHolds(q)'
  BY <1>8 DEF CopyHolds
<1>. QED BY <1>6, <1>7, <1>9 DEF Memory

LEMMA ThrowMemory ==
  ASSUME TypeOK, Memory, NEW r \in Recorders, RecordThrows(r)
  PROVE  Memory'
<1>1. /\ recorder[r].pc = "read" /\ recorder' = [recorder EXCEPT ![r] = Idle]
      /\ now' = now /\ log' = log /\ dismissed' = dismissed
  BY DEF RecordThrows
<1>2. ASSUME NEW t PROVE Remembered(t)' = Remembered(t) /\ Entries(t)' = Entries(t)
  BY <1>1 DEF Remembered, Entries
<1>3. ASSUME NEW t \in Types PROVE ListHolds(t)'
  BY <1>1, <1>2 DEF Memory, ListHolds
<1>4. ASSUME NEW q \in Recorders, recorder'[q].pc = "read" PROVE CopyHolds(q)'
  <2>1. /\ q # r /\ recorder'[q] = recorder[q]
        /\ \A t : Recording(t)' = Recording(t) \ {r}
    BY <1>1, <1>4, OthersStay
  <2>2. CopyHolds(q) /\ recorder[q].pc = "read" BY <1>4, <2>1 DEF Memory
  <2>3. ASSUME NEW t, t = recorder[q].type
        PROVE  /\ Remembered(t)' \subseteq recorder[q].raw
               /\ recorder[q].alone = "yes" => Recording(t)' = {q}
    BY <1>2, <2>1, <2>2, <2>3 DEF CopyHolds
  <2>. QED BY <1>1, <2>1, <2>2, <2>3 DEF CopyHolds
<1>5. ASSUME NEW q \in Recorders PROVE CopyHolds(q)'
  BY <1>4 DEF CopyHolds
<1>. QED BY <1>3, <1>5 DEF Memory

LEMMA MemoryStep == TypeOK /\ Memory /\ [Next]_vars => Memory'
<1>. SUFFICES ASSUME TypeOK, Memory, [Next]_vars PROVE Memory'
  OBVIOUS
<1>1. CASE Tick
  BY <1>1, TickMemory
<1>2. ASSUME NEW r \in Recorders, NEW type \in Types, NEW at \in Instants, at <= now,
             RecordRead(r, type, at)
      PROVE  Memory'
  BY <1>2, ReadMemory
<1>3. ASSUME NEW r \in Recorders, RecordWrite(r) PROVE Memory'
  <2>1. recorder[r].type \in Types /\ recorder[r].entry \in Entry
    BY <1>3 DEF RecordWrite, TypeOK, Idle, Calling
  <2>2. PICK type \in Types : type = recorder[r].type BY <2>1
  <2>3. PICK entry \in Entry : entry = recorder[r].entry BY <2>1
  <2>. QED BY <1>3, <2>2, <2>3, WriteMemory
<1>4. ASSUME NEW r \in Recorders, RecordThrows(r) PROVE Memory'
  BY <1>4, ThrowMemory
<1>5. CASE UNCHANGED <<now, log, recorder, dismissed>>
  BY <1>5, StillMemory
<1>. QED BY <1>1, <1>2, <1>3, <1>4, <1>5 DEF Next, vars, Message

\* While the list holds them, enough dismissals silence.
LEMMA MemorySilences == TypeOK /\ Memory => DismissalsSilence
<1>. SUFFICES ASSUME TypeOK, Memory, NEW type \in Types,
                     Cardinality({e \in Remembered(type) : e.at >= now - Within}) >= Dismissals,
                     NEW e \in Remembered(type), e.at >= now - Within, now < e.at + Silence
              PROVE  DismissalCooldown(type)
  BY DEF DismissalsSilence
<1>. DEFINE told == {f \in Remembered(type) : f.at >= now - Within}
            recent == {f \in Entries(type) : f.at >= now - Within}
<1>1. told \subseteq recent /\ IsFiniteSet(recent)
  <2>1. Remembered(type) \subseteq Entries(type) /\ IsFiniteSet(Entries(type))
    BY FS_EmptySet DEF Memory, ListHolds, Entries
  <2>2. told \subseteq recent BY <2>1
  <2>3. recent \subseteq Entries(type) OBVIOUS
  <2>. QED BY <2>1, <2>2, <2>3, FS_Subset
<1>2. Cardinality(recent) >= Dismissals
  <2>1. IsFiniteSet(told) /\ Cardinality(told) <= Cardinality(recent)
    BY <1>1, FS_Subset
  <2>2. Cardinality(told) \in Nat /\ Cardinality(recent) \in Nat
    BY <1>1, <2>1, FS_CardinalityType
  <2>. HIDE DEF recent
  <2>. QED BY <2>1, <2>2, CooldownAssumption
<1>3. e \in recent
  BY <1>1
<1>. QED BY <1>2, <1>3 DEF DismissalCooldown

\* Dismissals that record() was told one at a time are never lost while they
\* count, whatever is pruned, expires, is reported late, fails or runs at the
\* same time for other types, for every number of callers and every retention.
THEOREM ToldIsSilenced == Spec => []DismissalsSilence
  BY TypeCorrect, InitMemory, MemoryStep, MemorySilences, PTL DEF Spec
=============================================================================
