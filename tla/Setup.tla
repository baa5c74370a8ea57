--------------------------------- MODULE Setup ---------------------------------
(***************************************************************************)
(* From a policy document to the checks of a gate: what compilePolicy()    *)
(* builds, what the JSON Schema of the documents accepts, the presets, and *)
(* the documents `proactive-gate init` writes.                             *)
(*                                                                         *)
(* A document has a version (its numbers), onStoreError (or Absent) and      *)
(* entries.  An entry names an id, a preset, both or neither; its options  *)
(* are pairs of a key and the sort of the value.  "time", "priority",      *)
(* "scope", "plan" and "word" are sorts of strings, "floors", "window" and *)
(* "object" of objects.  A number given for a limit is GivenLimit.         *)
(***************************************************************************)
EXTENDS Integers, Sequences, FiniteSets

CONSTANTS GivenLimit, Absent

ASSUME LimitAssumption == GivenLimit \in Nat

Strings == {"time", "priority", "scope", "plan", "word"}
Sorts == Strings \cup {"number", "boolean", "list", "floors", "window", "object"}

-----------------------------------------------------------------------------
(* The checks *)

\* A check: the factory it comes from, its id (the part before a colon and the
\* rest), the counter it consumes, and whom a preset's wrapper lets pass unasked.
Plain(kind) == [kind |-> kind, id |-> <<kind, "">>, counter |-> <<>>, limit |-> 0,
                spares |-> "nobody", shadow |-> FALSE]

Named(kind, prefix, name) == [Plain(kind) EXCEPT !.id = <<prefix, name>>]
Consent(name) == Named("requiresConsent", "consent", name)
Window(name) == Named("allowedWindow", "window", name)

\* budget(): the counter of a budget is of its own kind, for one user.
Budget(kind, limit) == [Plain(kind) EXCEPT !.counter = <<kind, "user", 0>>, !.limit = limit]

\* Mutant: the length of the period is not part of the key.
RateLimitAnyPeriod(name, limit, keyBy, perSeconds) ==
  [Named("rateLimit", "rate", name) EXCEPT !.counter = <<"rate", keyBy, 1>>, !.limit = limit]

\* rateLimit(): one counter per scope and length of the period.
RateLimit(name, limit, keyBy, perSeconds) ==
  [Named("rateLimit", "rate", name) EXCEPT !.counter = <<"rate", keyBy, perSeconds>>,
                                           !.limit = limit]

DefaultLimit == [dailyBudget |-> 5, weeklyBudget |-> 20, monthlyBudget |-> 60, windowBudget |-> 1]

\* The ids a document may name.
KnownChecks ==
  DOMAIN DefaultLimit \cup
  {"killSwitch", "consent", "enabled", "mode", "snooze", "mute", "intensity", "quietHours",
   "trustRamp", "dismissalCooldown", "adaptiveTiming", "dedupe", "utilityFloor",
   "boundedDeferral", "allowedWindow", "requiresConsent", "rateLimit", "recentInteraction"}

Budgets == {"dailyBudget", "weeklyBudget", "monthlyBudget"}

\* Does the factory of this id read such an option?  A value of another sort is as
\* if absent.
Reads(id, key, sort) ==
  \/ /\ sort = "number"
     /\ \/ id \in Budgets /\ key \in {"limit", "nearLimit"}
        \/ id = "trustRamp" /\ key = "days"
        \/ id = "dismissalCooldown" /\ key \in {"dismissals", "withinDays", "silenceDays"}
        \/ id = "dedupe" /\ key = "windowSeconds"
        \/ id = "utilityFloor" /\ key \in {"costFalseAlarm", "costMissedHelp"}
        \/ id = "boundedDeferral" /\ key \in {"lambda", "interruptCost", "staleness", "boundSeconds"}
        \/ id = "rateLimit" /\ key \in {"limit", "perSeconds"}
        \/ id = "windowBudget" /\ key \in {"limit", "withinHours"}
        \/ id = "recentInteraction" /\ key = "withinHours"
  \/ /\ sort \in Strings
     /\ \/ id \in Budgets /\ key = "bypassPriority"
        \/ id = "quietHours" /\ key = "priorityFloor"
        \/ id = "trustRamp" /\ key = "minPriority"
        \/ id = "allowedWindow" /\ key \in {"start", "end", "timezone", "priorityFloor"}
        \/ id = "requiresConsent" /\ key = "name"
        \/ id = "rateLimit" /\ key = "keyBy"
  \/ <<id, key, sort>> \in {<<"killSwitch", "on", "boolean">>, <<"snooze", "defer", "boolean">>,
                            <<"mode", "allow", "list">>}
  \/ <<id, key>> \in {<<"intensity", "floors">>, <<"requiresConsent", "when">>}

\* Does the factory throw on it?  A window needs times.
ThrowsOn(id, key, sort) ==
  \/ id = "allowedWindow" /\ key \in {"start", "end"} /\ sort \in Strings \ {"time"}
  \/ id = "requiresConsent" /\ key = "when" /\ sort # "window"

LimitOf(id, options) ==
  IF <<"limit", "number">> \in options THEN GivenLimit ELSE DefaultLimit[id]

\* What the factory of this id makes.
Made(id, options) ==
  CASE id \in DOMAIN DefaultLimit -> Budget(id, LimitOf(id, options))
    [] id = "rateLimit" ->
         RateLimit("own", IF <<"limit", "number">> \in options THEN GivenLimit ELSE 1,
                   IF <<"keyBy", "scope">> \in options THEN "channel" ELSE "user",
                   IF <<"perSeconds", "number">> \in options THEN 60 ELSE 1)
    [] id = "dedupe" -> Budget(id, 1)
    [] id = "requiresConsent" -> Consent("own")
    [] OTHER -> Plain(id)

-----------------------------------------------------------------------------
(* The presets *)

\* The wrappers of some presets: whom they spare passes, and pays nothing.
Sparing(who, check) == [check EXCEPT !.spares = who]
Minor(check) == Sparing("adults", check)

PresetNames ==
  {"lineMessagingApi", "wechatSubscriptionMessage", "wechatCustomerService",
   "wechatTemplateMessage", "wecomAppMessage", "kakaoAlimtalk", "kakaoBrandMessage",
   "krNetworkAct50", "jpAntiSpamLaw", "cnMinorMode", "inTcccp", "brLgpd", "usTcpa",
   "euEprivacy", "telegramBot", "slackApp", "whatsappBusiness"}

ASSUME AbsentAssumption == Absent \notin KnownChecks \cup PresetNames

LinePlan(options) == IF <<"plan", "plan">> \in options THEN 5000 ELSE 200

Preset(name, options) ==
  CASE name = "lineMessagingApi" ->
         <<Plain("consent"), Budget("monthlyBudget", LinePlan(options))>>
    [] name = "wechatSubscriptionMessage" -> <<Consent("subscription"), Budget("windowBudget", 1)>>
    [] name = "wechatCustomerService" -> <<Plain("recentInteraction"), Budget("windowBudget", 5)>>
    [] name = "wechatTemplateMessage" ->
         <<Consent("templateTrigger"), RateLimit("template", 3, "user", 86400)>>
    [] name = "wecomAppMessage" ->
         <<RateLimit("30/min", 30, "user", 60), RateLimit("1000/h", 1000, "user", 3600)>>
    [] name = "kakaoAlimtalk" -> <<Plain("consent")>>
    [] name = "kakaoBrandMessage" -> <<Consent("ad"), Window("kakao")>>
    [] name = "krNetworkAct50" -> <<Consent("ad"), Consent("night")>>
    [] name = "jpAntiSpamLaw" -> <<Consent("optIn")>>
    [] name = "cnMinorMode" -> <<Minor(Window("minor")), Minor(Budget("dailyBudget", 1))>>
    [] name = "inTcccp" ->
         <<Consent("promotional"), Consent("band00to06"), Consent("band06to08"),
           Consent("band08to10"), Consent("band21to24")>>
    [] name = "brLgpd" -> <<Consent("marketing"), Minor(Consent("parental"))>>
    [] name = "usTcpa" -> <<Window("tcpa")>>
    [] name = "euEprivacy" -> <<Sparing("customers", Consent("marketing"))>>
    [] name = "telegramBot" ->
         <<RateLimit("1/s", 1, "channel", 1), RateLimit("20/min", 20, "channel", 60)>>
    [] name = "slackApp" -> <<RateLimit("1/s", 1, "channel", 1)>>
    [] name = "whatsappBusiness" ->
         <<Consent("whatsappOptIn")>>
         \o (IF <<"template", "boolean">> \in options THEN <<>> ELSE <<Plain("recentInteraction")>>)
         \o <<RateLimit("waPair", 600, "user", 3600)>>

-----------------------------------------------------------------------------
(* compilePolicy() *)

\* Mutant: the mark of an entry reaches the first of its checks only.
MarkedFirst(shadow, checks) ==
  [i \in DOMAIN checks |-> [checks[i] EXCEPT !.shadow = (shadow = "true" /\ i = 1)]]

\* The shadow mark of an entry is the mark of every check it builds.
Marked(shadow, checks) == [i \in DOMAIN checks |-> [checks[i] EXCEPT !.shadow = (shadow = "true")]]

\* A preset is looked at before an id, and its options are not told apart.
Builds(e) ==
  CASE e.preset # Absent -> e.preset \in PresetNames
         /\ ~(e.preset = "lineMessagingApi" /\ \E s \in Strings \ {"plan"} : <<"plan", s>> \in e.options)
    [] e.preset = Absent /\ e.id # Absent ->
         e.id \in KnownChecks /\ \A o \in e.options : ~ThrowsOn(e.id, o[1], o[2])
    [] OTHER -> FALSE

Built(e) ==
  Marked(e.shadow, IF e.preset # Absent THEN Preset(e.preset, e.options)
                                      ELSE <<Made(e.id, e.options)>>)

\* compilePolicy() does not throw.
Compiles(doc) ==
  /\ doc.version[1] = 1
  /\ doc.entries # <<>>
  /\ \A i \in DOMAIN doc.entries : Builds(doc.entries[i])

\* The checks it builds.
Compiled(doc) ==
  LET upTo[i \in 0..Len(doc.entries)] ==
        IF i = 0 THEN <<>> ELSE upTo[i - 1] \o Built(doc.entries[i])
  IN  upTo[Len(doc.entries)]

-----------------------------------------------------------------------------
(* policySchema() *)

\* CHECK_DOCS: the options a check is documented to have.
Documented(id, key, sort) ==
  \/ /\ sort = "number"
     /\ \/ id \in Budgets /\ key \in {"limit", "nearLimit"}
        \/ id = "trustRamp" /\ key = "days"
        \/ id = "dismissalCooldown" /\ key \in {"dismissals", "withinDays", "silenceDays"}
        \/ id = "dedupe" /\ key = "windowSeconds"
        \/ id = "utilityFloor" /\ key \in {"costFalseAlarm", "costMissedHelp"}
        \/ id = "boundedDeferral" /\ key \in {"lambda", "interruptCost", "staleness", "boundSeconds"}
        \/ id = "rateLimit" /\ key \in {"limit", "perSeconds"}
        \/ id = "windowBudget" /\ key \in {"limit", "withinHours"}
        \/ id = "recentInteraction" /\ key = "withinHours"
  \/ /\ sort = "priority"
     /\ \/ id \in Budgets /\ key = "bypassPriority"
        \/ id \in {"quietHours", "allowedWindow"} /\ key = "priorityFloor"
        \/ id = "trustRamp" /\ key = "minPriority"
  \/ id = "allowedWindow" /\ key \in {"start", "end"} /\ sort = "time"
  \/ sort \in Strings /\ <<id, key>> \in {<<"allowedWindow", "timezone">>, <<"requiresConsent", "name">>}
  \/ <<id, key, sort>> \in {<<"killSwitch", "on", "boolean">>, <<"snooze", "defer", "boolean">>,
                            <<"mode", "allow", "list">>, <<"intensity", "floors", "floors">>,
                            <<"requiresConsent", "when", "window">>, <<"rateLimit", "keyBy", "scope">>}

\* PRESET_OPTIONS.
PresetOptions(name) ==
  CASE name = "lineMessagingApi" -> {<<"plan", "plan">>}
    [] name = "whatsappBusiness" -> {<<"template", "boolean">>}
    [] OTHER -> {}

\* The entries of the schema: an id or a preset it knows, and nothing undocumented.
AcceptsEntry(e) ==
  /\ e.shadow \in {"absent", "true", "false"}
  /\ \/ /\ e.id \in KnownChecks /\ e.preset = Absent
        /\ \A o \in e.options : Documented(e.id, o[1], o[2])
     \/ /\ e.id = Absent /\ e.preset \in PresetNames
        /\ e.options \subseteq PresetOptions(e.preset)

Accepts(doc) ==
  /\ Len(doc.version) = 3 /\ doc.version[1] = 1
  /\ doc.onStoreError \in {Absent, "open", "closed"}
  /\ doc.entries # <<>>
  /\ \A i \in DOMAIN doc.entries : AcceptsEntry(doc.entries[i])

-----------------------------------------------------------------------------
(* proactive-gate init *)

Entry(id, options) == [id |-> id, preset |-> Absent, options |-> options, shadow |-> "absent"]
PresetEntry(name) == [id |-> Absent, preset |-> name, options |-> {}, shadow |-> "absent"]

\* buildPolicy(): a preset goes before the budget.
InitDocument(preset) ==
  [version |-> <<1, 0, 0>>, onStoreError |-> "open",
   entries |->
     <<Entry("consent", {}), Entry("enabled", {}), Entry("mode", {<<"allow", "list">>}),
       Entry("snooze", {<<"defer", "boolean">>}), Entry("mute", {}), Entry("intensity", {}),
       Entry("quietHours", {<<"priorityFloor", "priority">>}),
       Entry("trustRamp", {<<"days", "number">>, <<"minPriority", "priority">>}),
       Entry("dismissalCooldown", {"dismissals", "withinDays", "silenceDays"} \X {"number"})>>
     \o (IF preset = Absent THEN <<>> ELSE <<PresetEntry(preset)>>)
     \o <<Entry("dailyBudget", {<<"limit", "number">>, <<"bypassPriority", "priority">>})>>]

-----------------------------------------------------------------------------
(* Deliveries to one user, all in one period of every counter *)

\* The checks that count a message to this user.
Consumers(checks, minor) ==
  {i \in DOMAIN checks : checks[i].counter # <<>> /\ (checks[i].spares = "adults" => minor)}

Sharing(checks, minor, i) ==
  {j \in Consumers(checks, minor) : checks[j].counter = checks[i].counter}

\* Does commit() grant the n-th message, after n - 1 granted ones?  Each has been
\* counted by all the checks that share the counter, in the order of the policy.
GrantsNth(checks, minor, n) ==
  \A i \in Consumers(checks, minor) :
    LET sharing == Sharing(checks, minor, i)
    IN  (n - 1) * Cardinality(sharing) + Cardinality({j \in sharing : j <= i}) <= checks[i].limit

\* The smallest limit of the checks that count a message to this user.
Promised(checks, minor) ==
  CHOOSE n \in {checks[i].limit : i \in Consumers(checks, minor)} :
    \A i \in Consumers(checks, minor) : n <= checks[i].limit

\* The entry of the document check i was built from.
EntryOf(doc, i) ==
  CHOOSE k \in DOMAIN doc.entries :
    /\ i <= Len(Compiled([doc EXCEPT !.entries = SubSeq(@, 1, k)]))
    /\ i > Len(Compiled([doc EXCEPT !.entries = SubSeq(@, 1, k - 1)]))
=============================================================================
