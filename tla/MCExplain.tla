------------------------------- MODULE MCExplain -------------------------------
(* Values of Explain's constants for TLC. *)
EXTENDS Explain

CONSTANTS feed, push

Document(version, onStoreError, entries) ==
  [version |-> version, onStoreError |-> onStoreError, entries |-> entries]

\* Every check and every preset with at most one option, known to it or not.
OptionKeys ==
  {"limit", "nearLimit", "bypassPriority", "on", "allow", "defer", "floors", "priorityFloor", "days",
   "minPriority", "dismissals", "windowSeconds", "costMissedHelp", "boundSeconds", "start", "timezone",
   "name", "when", "perSeconds", "keyBy", "withinHours", "plan", "template", "limt"}
AnyOption == OptionKeys \X Sorts
OneOption == {{}} \cup {{o} : o \in AnyOption}

Alone ==
  {Document(<<1, 0, 0>>, Absent, <<e>>) :
     e \in {Entry(id, os) : id \in KnownChecks \cup {"unheard of"}, os \in OneOption}
          \cup {[PresetEntry(p) EXCEPT !.options = os] :
                  p \in PresetNames \cup {"unheard of"}, os \in OneOption}}

\* Documents that are wrong as a whole, and a shared counter.
Odd ==
  {Document(v, "open", es) : v \in {<<1>>, <<1, 2, 0>>, <<2, 0, 0>>},
     es \in {<<>>, <<Entry("consent", {})>>, <<[PresetEntry("usTcpa") EXCEPT !.id = "mute"]>>,
            <<PresetEntry("telegramBot"), PresetEntry("slackApp")>>}}

\* Documents of three checks: any check, in shadow mode or not, before one of the
\* same id or of another, or a preset before a check.
Shade(e) == {e, [e EXCEPT !.shadow = "true"]}
Threes ==
  UNION {{Document(<<1, 0, 0>>, onError, <<a, Entry(b, {}), Entry(c, {})>>) :
            a \in Shade(Entry(id, {})), b \in {id, "snooze"}, c \in {"dailyBudget", "adaptiveTiming"},
            onError \in {"open", "closed"}} : id \in KnownChecks}
  \cup UNION {{Document(<<1, 0, 0>>, onError, <<a, b>>) :
                 a \in Shade(PresetEntry(p)), b \in Shade(Entry("dailyBudget", {})),
                 onError \in {Absent, "closed"}} : p \in PresetNames}

MCDocuments ==
  Alone \cup Odd \cup Threes \cup {InitDocument(p) : p \in PresetNames \cup {Absent}}

\* Three checks of the caller's, the second one non-rejecting or not, and checks of
\* the library under ids of the caller's.
Custom == Plain("custom")
Mine(check) == [check EXCEPT !.id = <<"mine", "">>]
MCHandWritten ==
  [checks : {<<Custom, Custom, Custom>>}, nonRejecting : {{}, {2}}]
  \cup [checks : {<<Mine(Made(id, {})), Mine(Made(other, {})), Mine(Plain("mute"))>> :
                    id \in KnownChecks, other \in {"rateLimit", "dailyBudget", "quietHours"}},
        nonRejecting : {{}}]
=============================================================================
