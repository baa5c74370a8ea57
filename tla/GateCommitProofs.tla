--------------------------- MODULE GateCommitProofs ---------------------------
(***************************************************************************)
(* The safety of commit(), for every policy, number of gates, decisions    *)
(* and calls, every overlap, crash and lost store reply: a gate that fails *)
(* closed never grants more than a limit and implements BudgetLedger, and  *)
(* one that fails open grants at most one more per error.                  *)
(*                                                                         *)
(* The argument: the value an atomic increment returns is a ticket no      *)
(* other call gets for that key.  A decision is delivered, or its marker   *)
(* is "1", only if some call holds a ticket within the limit for each of   *)
(* its keys; tickets are distinct, so at most `limit` decisions do.  Only  *)
(* the catch of commit() delivers an unpaid decision, one per error, and   *)
(* only in a gate that fails open.                                         *)
(*                                                                         *)
(* Three more invariants follow the calls.  A decision is refused only     *)
(* when some counter it needs had reached its limit, a marker said so, or  *)
(* the store threw.  A caller that retries a decision until it is answered *)
(* meets the marker of its own first result.  And behind a check that      *)
(* counts a candidate once, the later counters move once for it at most.   *)
(***************************************************************************)
EXTENDS GateCommit, TLAPS, FiniteSetTheorems

-----------------------------------------------------------------------------
(* Types *)

\* One conjunct per assumption a proof uses.
LEMMA ConstantsOK ==
  /\ NumChecks \in Nat
  /\ MaxSequence \in Nat
  /\ MaxErrors \in Nat
  /\ NoKey \notin Keys
  /\ KeyOf \in [Checks -> [Candidates -> Keys \cup {NoKey}]]
  /\ Limit \in [Checks -> Nat]
  BY NumChecksAssumption, SequenceAssumption, BoundAssumption, KeyAssumption,
     LimitAssumption

\* The types of the model, with what the sentinels mean: an evaluation that
\* began has its inputs, a call that began has an evaluated decision.
EvalOK ==
  \A d \in Decisions :
    /\ eval[d].pc = "unused" =>
         /\ eval[d].gate = None
         /\ eval[d].candidate = None
         /\ eval[d].at = None
    /\ eval[d].pc # "unused" =>
         /\ eval[d].gate \in Gates
         /\ eval[d].candidate \in Candidates
         /\ eval[d].at \in Instants
    /\ Evaluated(d) => eval[d].number \in 1..sequence[eval[d].gate]

OneCallOK(c) ==
  /\ call[c].pc # "idle" => call[c].of \in Decisions /\ Evaluated(call[c].of)
  /\ InFlight(c) => eval[call[c].of].pc = "allowed"
  /\ call[c].pc = "consume" => call[c].pos \in Checks
  /\ call[c].pc = "get" => call[c].pos = 1 /\ NumChecks > 0
  /\ call[c].pc = "idle" => call[c].pos = 1

CallOK == \A c \in Calls : OneCallOK(c)

TypeInv == TypeOK /\ EvalOK /\ CallOK

\* The empty store, with nothing begun, is well typed.
LEMMA TypeInit == Init => TypeInv
  BY ConstantsOK, NoneAssumption
  DEF Init, TypeInv, TypeOK, EvalOK, CallOK, OneCallOK, EvalState, CallState, Evaluated,
      InFlight, Checks

\* finish() keeps the types and gives a number within the gate's sequence.
LEMMA FinishType ==
  ASSUME TypeInv, NEW d \in Decisions, eval[d].pc = "running",
         NEW verdict \in {"allowed", "refused"}, Finish(d, verdict)
  PROVE  /\ sequence' \in [Gates -> 0..MaxSequence]
         /\ eval' \in [Decisions -> EvalState]
         /\ EvalOK'
         /\ \A x \in Decisions : Evaluated(x) => eval'[x] = eval[x]
<1> DEFINE g == eval[d].gate
<1>1. g \in Gates /\ eval[d].candidate \in Candidates /\ eval[d].at \in Instants
  BY DEF TypeInv, EvalOK
<1>2. sequence[g] \in Nat /\ sequence[g] + 1 \in 1..MaxSequence
  BY <1>1, ConstantsOK DEF TypeInv, TypeOK, Finish
<1>3. sequence' \in [Gates -> 0..MaxSequence]
  BY <1>1, <1>2 DEF TypeInv, TypeOK, Finish
<1>4. eval' \in [Decisions -> EvalState]
  <2>1. eval[d] \in EvalState
    BY DEF TypeInv, TypeOK
  <2>2. sequence[g] + 1 \in 0..MaxSequence
    BY <1>2, ConstantsOK
  <2>3. [eval[d] EXCEPT !.pc = verdict, !.number = sequence[g] + 1] \in EvalState
    BY <2>1, <2>2 DEF EvalState
  <2>4. QED BY <2>3 DEF TypeInv, TypeOK, Finish
<1>5. \A x \in Decisions : x # d => eval'[x] = eval[x]
  BY DEF Finish, TypeInv, TypeOK
<1>6. /\ eval'[d].pc = verdict
      /\ eval'[d].number = sequence[g] + 1
      /\ eval'[d].gate = g
      /\ eval'[d].candidate = eval[d].candidate
      /\ eval'[d].at = eval[d].at
  BY DEF Finish, TypeInv, TypeOK, EvalState
<1>7. \A h \in Gates : sequence[h] \in Nat /\ sequence'[h] \in Nat /\ sequence[h] <= sequence'[h]
  BY <1>1, <1>2, <1>3 DEF Finish, TypeInv, TypeOK
<1>8. sequence'[g] = sequence[g] + 1
  BY <1>1 DEF Finish, TypeInv, TypeOK
<1>9. EvalOK'
  <2> SUFFICES ASSUME NEW x \in Decisions
               PROVE  /\ eval'[x].pc = "unused" =>
                           /\ eval'[x].gate = None
                           /\ eval'[x].candidate = None
                           /\ eval'[x].at = None
                      /\ eval'[x].pc # "unused" =>
                           /\ eval'[x].gate \in Gates
                           /\ eval'[x].candidate \in Candidates
                           /\ eval'[x].at \in Instants
                      /\ eval'[x].pc \in {"allowed", "refused"} =>
                           eval'[x].number \in 1..sequence'[eval'[x].gate]
    BY DEF EvalOK, Evaluated
  <2>1. CASE x = d
    BY <2>1, <1>1, <1>2, <1>6, <1>8
  <2>2. CASE x # d
    <3>1. eval'[x] = eval[x]
      BY <2>2, <1>5
    <3>2. eval[x].number \in Nat
      BY DEF TypeInv, TypeOK, EvalState
    <3>3. QED BY <3>1, <3>2, <1>7 DEF TypeInv, EvalOK, Evaluated
  <2>3. QED BY <2>1, <2>2
<1>10. \A x \in Decisions : Evaluated(x) => eval'[x] = eval[x]
  BY <1>5 DEF Evaluated
<1>11. QED BY <1>3, <1>4, <1>9, <1>10

\* A call's record stays typed when it moves on or answers.
LEMMA AnswerType ==
  ASSUME TypeInv, NEW c \in Calls, NEW d \in Decisions, NEW answer \in {"0", "1"},
         Answer(c, d, answer)
  PROVE  /\ call' \in [Calls -> CallState]
         /\ delivered' \subseteq Decisions
         /\ \A x \in Calls : /\ call'[x].of = call[x].of
                             /\ call'[x].pos = call[x].pos
                             /\ call'[x].ticket = call[x].ticket
                             /\ x # c => call'[x] = call[x]
         /\ call'[c].pc = "returned"
<1>1. call[c] \in CallState
  BY DEF TypeInv, TypeOK
<1>2. [call[c] EXCEPT !.pc = "returned", !.result = answer] \in CallState
  BY <1>1 DEF CallState
<1>3. call' \in [Calls -> CallState]
  BY <1>2 DEF TypeInv, TypeOK, Answer
<1>4. delivered' \subseteq Decisions
  BY DEF TypeInv, TypeOK, Answer
<1>5. \A x \in Calls : x # c => call'[x] = call[x]
  BY DEF TypeInv, TypeOK, Answer
<1>6. /\ call'[c].pc = "returned"
      /\ call'[c].of = call[c].of
      /\ call'[c].pos = call[c].pos
      /\ call'[c].ticket = call[c].ticket
  BY <1>1 DEF TypeInv, TypeOK, Answer, CallState
<1>7. QED BY <1>3, <1>4, <1>5, <1>6

\* An evaluated decision keeps its record; a call may move on under CallOK.
LEMMA CallFrame ==
  ASSUME TypeInv,
         \A d \in Decisions : Evaluated(d) => eval'[d] = eval[d],
         UNCHANGED call
  PROVE  CallOK'
  BY DEF TypeInv, CallOK, OneCallOK, Evaluated, InFlight

\* A step of one call leaves the others as they were.
LEMMA OtherCalls ==
  ASSUME TypeInv, NEW c \in Calls, UNCHANGED eval, OneCallOK(c)',
         \A x \in Calls : x # c => call'[x] = call[x]
  PROVE  CallOK'
<1>1. ASSUME NEW x \in Calls, x # c PROVE OneCallOK(x)'
  BY <1>1 DEF TypeInv, CallOK, OneCallOK, Evaluated, InFlight
<1>2. QED BY <1>1 DEF CallOK

\* The marker key of an evaluated decision is a marker of the store.
LEMMA MarkerType ==
  ASSUME TypeInv, NEW d \in Decisions, Evaluated(d)
  PROVE  Id(d) \in Ids /\ marker[Id(d)] \in {"none", "0", "1"}
<1>1. /\ eval[d].candidate \in Candidates
      /\ eval[d].at \in Instants
      /\ eval[d].number \in 1..sequence[eval[d].gate]
      /\ sequence[eval[d].gate] \in 0..MaxSequence
  BY DEF TypeInv, TypeOK, EvalOK, Evaluated
<1>2. eval[d].number \in 1..MaxSequence
  BY <1>1, ConstantsOK
<1>3. QED BY <1>1, <1>2 DEF TypeInv, TypeOK, Id, Ids

\* What one turn of the consume loop does: without a key it moves on; with one
\* it takes the incremented value as its ticket, and goes on, or ends with "1",
\* only when that value is within the limit.
LEMMA ConsumeEffect ==
  ASSUME TypeInv, NEW c \in Calls, Consume(c)
  PROVE  /\ call[c].pc = "consume"
         /\ call[c].of \in Decisions
         /\ call[c].pos \in Checks
         /\ counter' \in [Keys -> Nat]
         /\ call' \in [Calls -> CallState]
         /\ \A x \in Calls : x # c => call'[x] = call[x]
         /\ call'[c].of = call[c].of
         /\ call'[c].pos = call[c].pos + 1
         /\ call'[c].pc \in {"consume", "set"}
         /\ call'[c].pc = "consume" => call[c].pos # NumChecks
         /\ call'[c].result = "1" => call[c].pos = NumChecks
         /\ \/ /\ Key(call[c].pos, call[c].of) = NoKey
               /\ UNCHANGED counter
               /\ call'[c].ticket = call[c].ticket
            \/ /\ Key(call[c].pos, call[c].of) \in Keys
               /\ counter' = [counter EXCEPT ![Key(call[c].pos, call[c].of)] = @ + 1]
               /\ call'[c].ticket =
                    [call[c].ticket EXCEPT ![call[c].pos] =
                       counter[Key(call[c].pos, call[c].of)] + 1]
               /\ call'[c].pc = "consume" \/ call'[c].result = "1" =>
                    counter[Key(call[c].pos, call[c].of)] + 1 <= Limit[call[c].pos]
<1> DEFINE d == call[c].of
           i == call[c].pos
           k == Key(i, d)
           used == counter[k] + 1
           last == i = NumChecks
<1>1. /\ call[c] \in CallState
      /\ call[c].pc = "consume"
      /\ d \in Decisions
      /\ i \in Checks
      /\ eval[d].candidate \in Candidates
  BY DEF Consume, TypeInv, TypeOK, CallOK, OneCallOK, EvalOK, Evaluated, InFlight
<1>2. k \in Keys \/ k = NoKey
  BY <1>1, ConstantsOK DEF Key
<1>3. i + 1 \in 1..(NumChecks + 1) /\ i \in Int /\ NumChecks \in Int
  BY <1>1, ConstantsOK DEF Checks
<1>4. CASE k = NoKey
  <2> DEFINE q == [call[c] EXCEPT !.pos = i + 1,
                                  !.result = IF last THEN "1" ELSE "0",
                                  !.pc = IF last THEN "set" ELSE "consume"]
  <2>1. call' = [call EXCEPT ![c] = q] /\ UNCHANGED counter
    BY <1>4 DEF Consume
  <2>2. /\ q \in CallState /\ q.of = d /\ q.pos = i + 1 /\ q.ticket = call[c].ticket
        /\ q.pc \in {"consume", "set"}
        /\ q.pc = "consume" => ~last
        /\ q.result = "1" => last
    BY <1>1, <1>3 DEF CallState
  <2> HIDE DEF q
  <2>3. /\ call' \in [Calls -> CallState]
        /\ \A x \in Calls : x # c => call'[x] = call[x]
        /\ call'[c] = q
    BY <2>1, <2>2 DEF TypeInv, TypeOK
  <2>4. counter' \in [Keys -> Nat]
    BY <2>1 DEF TypeInv, TypeOK
  <2>5. QED BY <1>1, <1>4, <2>1, <2>2, <2>3, <2>4
<1>5. CASE k \in Keys
  <2> DEFINE result == IF last /\ Within(i, used) THEN "1" ELSE "0"
             pc == IF LoopEnds(i, used) THEN "set" ELSE "consume"
             q == [call[c] EXCEPT !.pos = i + 1, !.ticket[i] = used,
                                  !.result = result, !.pc = pc]
  <2>1. k # NoKey /\ used \in Nat /\ Limit[i] \in Nat
    BY <1>1, <1>5, ConstantsOK DEF TypeInv, TypeOK
  <2>2. call' = [call EXCEPT ![c] = q] /\ counter' = [counter EXCEPT ![k] = used]
    BY <2>1 DEF Consume
  <2>3. /\ q \in CallState /\ q.of = d /\ q.pos = i + 1
        /\ q.ticket = [call[c].ticket EXCEPT ![i] = used]
        /\ q.pc \in {"consume", "set"}
        /\ q.pc = "consume" => ~last /\ used <= Limit[i]
        /\ q.result = "1" => last /\ used <= Limit[i]
    <3>1. /\ pc \in {"consume", "set"} /\ result \in {"0", "1"}
          /\ pc = "consume" => ~last /\ used <= Limit[i]
          /\ result = "1" => last /\ used <= Limit[i]
      BY <2>1 DEF Within, LoopEnds
    <3>2. [call[c].ticket EXCEPT ![i] = used] \in [Checks -> Nat]
      BY <1>1, <2>1 DEF CallState
    <3> HIDE DEF pc, result, used, last
    <3>3. /\ q \in CallState /\ q.of = d /\ q.pos = i + 1 /\ q.pc = pc
          /\ q.result = result /\ q.ticket = [call[c].ticket EXCEPT ![i] = used]
      BY <1>1, <1>3, <3>1, <3>2 DEF CallState
    <3>4. QED BY <3>1, <3>3
  <2> HIDE DEF q
  <2>4. /\ call' \in [Calls -> CallState]
        /\ \A x \in Calls : x # c => call'[x] = call[x]
        /\ call'[c] = q
    BY <2>2, <2>3 DEF TypeInv, TypeOK
  <2>5. counter' \in [Keys -> Nat]
    BY <2>1, <2>2 DEF TypeInv, TypeOK
  <2>6. QED BY <1>1, <1>5, <2>2, <2>3, <2>4, <2>5
<1>6. QED BY <1>2, <1>4, <1>5

\* Every action keeps the types and what the sentinels mean.
LEMMA TypeStep == TypeInv /\ [Next]_vars => TypeInv'
<1> SUFFICES ASSUME TypeInv, [Next]_vars PROVE TypeInv'
  OBVIOUS
<1> USE DEF TypeInv
<1>1. ASSUME NEW d \in Decisions, NEW g \in Gates, NEW e \in Candidates,
             NEW t \in Instants, Begin(d, g, e, t)
      PROVE  TypeInv'
  <2>1. eval[d] \in EvalState
    BY DEF TypeOK
  <2> DEFINE r == [eval[d] EXCEPT !.pc = "running", !.gate = g,
                                  !.candidate = e, !.at = t]
  <2>2. r \in EvalState /\ r.pc = "running" /\ r.gate = g /\ r.candidate = e /\ r.at = t
    BY <2>1 DEF EvalState
  <2>3. eval' = [eval EXCEPT ![d] = r]
    BY <1>1 DEF Begin
  <2> HIDE DEF r
  <2>4. TypeOK'
    BY <1>1, <2>2, <2>3 DEF TypeOK, Begin
  <2>5. EvalOK'
    BY <1>1, <2>2, <2>3 DEF TypeOK, Begin, EvalOK, Evaluated
  <2>6. \A x \in Decisions : Evaluated(x) => eval'[x] = eval[x]
    BY <1>1, <2>3 DEF TypeOK, Begin, Evaluated
  <2>7. CallOK'
    BY <1>1, <2>6, CallFrame DEF Begin
  <2>8. QED BY <2>4, <2>5, <2>7
<1>2. ASSUME NEW d \in Decisions, eval[d].pc = "running",
             NEW verdict \in {"allowed", "refused"}, Finish(d, verdict),
             UNCHANGED <<mode, expired, alive, counter, marker, call, delivered>>,
             errors' \in 0..MaxErrors
      PROVE  TypeInv'
  BY <1>2, FinishType, CallFrame DEF TypeOK
<1>3. ASSUME NEW d \in Decisions, eval[d].pc = "running", eval[d].pos \in Checks,
             NextCheck(d), UNCHANGED <<mode, expired, alive, counter, marker, call, delivered>>,
             errors' \in 0..MaxErrors
      PROVE  TypeInv'
  <2>1. eval[d] \in EvalState
    BY DEF TypeOK
  <2> DEFINE r == [eval[d] EXCEPT !.pos = @ + 1]
  <2>2. r \in EvalState /\ r.pc = "running" /\ r.gate = eval[d].gate
          /\ r.candidate = eval[d].candidate /\ r.at = eval[d].at
    <3>1. eval[d].pos + 1 \in 1..(NumChecks + 1)
      BY <1>3, ConstantsOK DEF Checks
    <3>2. QED BY <1>3, <2>1, <3>1 DEF EvalState
  <2>3. eval' = [eval EXCEPT ![d] = r]
    BY <1>3 DEF NextCheck
  <2> HIDE DEF r
  <2>4. TypeOK'
    BY <1>3, <2>2, <2>3 DEF TypeOK, NextCheck
  <2>5. EvalOK'
    BY <1>3, <2>2, <2>3 DEF TypeOK, NextCheck, EvalOK, Evaluated
  <2>6. \A x \in Decisions : Evaluated(x) => eval'[x] = eval[x]
    BY <1>3, <2>3 DEF TypeOK, Evaluated
  <2>7. CallOK'
    BY <1>3, <2>6, CallFrame
  <2>8. QED BY <2>4, <2>5, <2>7
<1>4. ASSUME NEW d \in Decisions, RunCheck(d)
      PROVE  TypeInv'
  BY <1>2, <1>3, <1>4 DEF RunCheck, TypeOK
<1>5. ASSUME NEW d \in Decisions, RunCheckThrows(d)
      PROVE  TypeInv'
  <2>1. errors' \in 0..MaxErrors
    BY <1>5, ConstantsOK DEF RunCheckThrows, TypeOK
  <2>2. QED BY <1>2, <1>3, <1>5, <2>1 DEF RunCheckThrows
<1>6. ASSUME NEW d \in Decisions, Allow(d)
      PROVE  TypeInv'
  BY <1>2, <1>6 DEF Allow, TypeOK
<1>7. ASSUME NEW c \in Calls, NEW d \in Decisions, NEW g \in Gates, StartCommit(c, d, g)
      PROVE  TypeInv'
  <2>1. call[c] \in CallState
    BY DEF TypeOK
  <2> DEFINE atOnce == eval[d].pc = "refused" \/ NumChecks = 0
             pc == IF atOnce THEN "returned" ELSE "get"
             result == IF atOnce /\ eval[d].pc = "allowed" THEN "1" ELSE "0"
             r == [call[c] EXCEPT !.pc = pc, !.of = d, !.gate = g, !.result = result]
  <2>2. /\ pc \in {"returned", "get"}
        /\ pc = "get" => eval[d].pc = "allowed" /\ NumChecks > 0
        /\ result \in {"0", "1"}
    BY <1>7, ConstantsOK DEF StartCommit, Evaluated
  <2>3. call' = [call EXCEPT ![c] = r]
    BY <1>7 DEF StartCommit
  <2> HIDE DEF pc, result
  <2>4. r \in CallState /\ r.pc = pc /\ r.of = d /\ r.pos = call[c].pos
    BY <2>1, <2>2 DEF CallState
  <2> HIDE DEF r
  <2>5. TypeOK'
    BY <1>7, <2>3, <2>4 DEF TypeOK, StartCommit
  <2>6. EvalOK' /\ UNCHANGED eval
    BY <1>7 DEF StartCommit, EvalOK, Evaluated
  <2>7. CallOK'
    <3>1. call'[c] = r /\ \A x \in Calls : x # c => call'[x] = call[x]
      BY <2>3 DEF TypeOK
    <3>2. call[c].pos = 1 /\ Evaluated(d)
      BY <1>7 DEF StartCommit, CallOK, OneCallOK
    <3>3. OneCallOK(c)'
      BY <2>2, <2>4, <2>6, <3>1, <3>2 DEF OneCallOK, Evaluated, InFlight
    <3>4. QED BY <2>6, <3>1, <3>3, OtherCalls
  <2>8. QED BY <2>5, <2>6, <2>7
<1>8. ASSUME NEW c \in Calls, GetMarker(c)
      PROVE  TypeInv'
  <2>1. call[c].of \in Decisions
    BY <1>8 DEF GetMarker, CallOK, OneCallOK
  <2>2. CASE marker[Id(call[c].of)] = "none"
    <3>1. call[c] \in CallState
      BY DEF TypeOK
    <3> DEFINE r == [call[c] EXCEPT !.pc = "consume"]
    <3>2. r \in CallState /\ r.pc = "consume" /\ r.of = call[c].of /\ r.pos = call[c].pos
      BY <3>1 DEF CallState
    <3>3. call' = [call EXCEPT ![c] = r]
      BY <1>8, <2>2 DEF GetMarker
    <3> HIDE DEF r
    <3>4. TypeOK'
      BY <1>8, <2>2, <3>2, <3>3 DEF TypeOK, GetMarker
    <3>5. 1 \in Checks \/ NumChecks = 0
      BY ConstantsOK DEF Checks
    <3>6. EvalOK' /\ CallOK'
      BY <1>8, <3>2, <3>3, <3>5, ConstantsOK
      DEF TypeOK, GetMarker, CallOK, OneCallOK, EvalOK, Evaluated, InFlight
    <3>7. QED BY <3>4, <3>6
  <2>3. CASE marker[Id(call[c].of)] # "none"
    <3> DEFINE m == marker[Id(call[c].of)]
    <3>1. Answer(c, call[c].of, m) /\ m \in {"0", "1"}
      BY <1>8, <2>1, <2>3, MarkerType DEF GetMarker, CallOK, OneCallOK
    <3> HIDE DEF m
    <3>2. TypeOK'
      BY <1>8, <2>1, <3>1, AnswerType DEF TypeOK, GetMarker
    <3>3. EvalOK'
      BY <1>8 DEF GetMarker, EvalOK, Evaluated
    <3>4. CallOK'
      <4>1. OneCallOK(c)'
        BY <1>8, <2>1, <3>1, AnswerType DEF GetMarker, CallOK, OneCallOK, Evaluated, InFlight
      <4>2. QED BY <1>8, <2>1, <3>1, <4>1, AnswerType, OtherCalls DEF GetMarker
    <3>5. QED BY <3>2, <3>3, <3>4
  <2>4. QED BY <2>2, <2>3
<1>9. ASSUME NEW c \in Calls, Consume(c)
      PROVE  TypeInv'
  <2>1. UNCHANGED eval
    BY <1>9 DEF Consume
  <2>2. TypeOK'
    BY <1>9, ConsumeEffect DEF TypeOK, Consume
  <2>3. EvalOK'
    BY <1>9 DEF Consume, EvalOK, Evaluated
  <2>4. OneCallOK(c)'
    <3>1. Evaluated(call[c].of) /\ eval[call[c].of].pc = "allowed"
      BY <1>9 DEF Consume, CallOK, OneCallOK, InFlight
    <3>2. call'[c].pc = "consume" => call'[c].pos \in Checks
      <4>1. /\ call[c].pos \in 1..NumChecks
            /\ call'[c].pos = call[c].pos + 1
            /\ call'[c].pc = "consume" => call[c].pos # NumChecks
        BY <1>9, ConsumeEffect DEF Checks
      <4> HIDE DEF TypeInv
      <4>2. QED BY <4>1, ConstantsOK DEF Checks
    <3>3. QED
      BY <1>9, <2>1, <3>1, <3>2, ConsumeEffect DEF OneCallOK, Evaluated, InFlight
  <2>5. CallOK'
    BY <1>9, <2>1, <2>4, ConsumeEffect, OtherCalls
  <2>6. QED BY <2>2, <2>3, <2>5
<1>10. ASSUME NEW c \in Calls, call[c].pc \in {"get", "consume", "set"},
              NEW answer \in {"0", "1"}, Answer(c, call[c].of, answer),
              UNCHANGED <<mode, expired, alive, sequence, eval>>,
              counter' \in [Keys -> Nat], marker' \in [Ids -> {"none", "0", "1"}],
              errors' \in 0..MaxErrors
       PROVE  TypeInv'
  <2>1. call[c].of \in Decisions
    BY <1>10 DEF CallOK, OneCallOK
  <2>2. TypeOK'
    BY <1>10, <2>1, AnswerType DEF TypeOK
  <2>3. EvalOK'
    BY <1>10 DEF EvalOK, Evaluated
  <2>4. CallOK'
    <3>1. OneCallOK(c)'
      BY <1>10, <2>1, AnswerType DEF CallOK, OneCallOK, Evaluated, InFlight
    <3>2. QED BY <1>10, <2>1, <3>1, AnswerType, OtherCalls
  <2>5. QED BY <2>2, <2>3, <2>4
<1>11. ASSUME NEW c \in Calls, SetMarker(c)
       PROVE  TypeInv'
  <2>1. call[c].result \in {"0", "1"}
    BY DEF TypeOK, CallState
  <2>2. marker' \in [Ids -> {"none", "0", "1"}]
    BY <1>11, <2>1 DEF SetMarker, TypeOK
  <2>3. QED BY <1>10, <1>11, <2>1, <2>2 DEF SetMarker, TypeOK
<1>12. ASSUME NEW c \in Calls, CommitThrows(c)
       PROVE  TypeInv'
  <2>1. errors' \in 0..MaxErrors
    BY <1>12, ConstantsOK DEF CommitThrows, TypeOK
  <2>2. marker' \in [Ids -> {"none", "0", "1"}]
    <3>1. call[c].result \in {"0", "1"}
      BY DEF TypeOK, CallState
    <3>2. QED BY <1>12, <3>1 DEF CommitThrows, TypeOK, storeVars
  <2>3. counter' \in [Keys -> Nat]
    BY <1>12 DEF CommitThrows, TypeOK, storeVars
  <2>4. QED BY <1>10, <1>12, <2>1, <2>2, <2>3 DEF CommitThrows, AnswerOnError
<1>13. ASSUME NEW g \in Gates, Crash(g)
       PROVE  TypeInv'
  <2>1. ASSUME NEW d \in Decisions
        PROVE  /\ eval'[d] \in EvalState
               /\ eval'[d].gate = eval[d].gate
               /\ eval'[d].candidate = eval[d].candidate
               /\ eval'[d].at = eval[d].at
               /\ eval'[d] = eval[d] \/ (eval[d].pc = "running" /\ eval'[d].pc = "lost")
    <3>1. eval[d] \in EvalState
      BY DEF TypeOK
    <3>2. eval'[d] = eval[d]
            \/ (eval[d].pc = "running" /\ eval'[d] = [eval[d] EXCEPT !.pc = "lost"])
      BY <1>13 DEF Crash
    <3>3. QED BY <3>1, <3>2 DEF EvalState
  <2>2. ASSUME NEW c \in Calls
        PROVE  /\ call'[c] \in CallState
               /\ call'[c].of = call[c].of
               /\ call'[c].pos = call[c].pos
               /\ call'[c] = call[c] \/ (InFlight(c) /\ call'[c].pc = "lost")
    <3>1. call[c] \in CallState
      BY DEF TypeOK
    <3>2. call'[c] = call[c]
            \/ (InFlight(c) /\ call'[c] = [call[c] EXCEPT !.pc = "lost"])
      BY <1>13 DEF Crash
    <3>3. QED BY <3>1, <3>2 DEF CallState
  <2>3. TypeOK'
    BY <1>13, <2>1, <2>2 DEF Crash, TypeOK
  <2>4. EvalOK'
    BY <1>13, <2>1 DEF Crash, EvalOK, Evaluated
  <2>5. CallOK'
    BY <1>13, <2>1, <2>2 DEF Crash, CallOK, OneCallOK, Evaluated, InFlight
  <2>6. QED BY <2>3, <2>4, <2>5
<1>14. CASE UNCHANGED vars
  BY <1>14 DEF vars, TypeOK, EvalOK, CallOK, OneCallOK, Evaluated, InFlight
<1>16. ASSUME NEW id \in Ids, Expire(id)
       PROVE  TypeInv'
  BY <1>16 DEF Expire, TypeOK, EvalOK, CallOK, OneCallOK, Evaluated, InFlight
<1>15. QED
  BY <1>1, <1>4, <1>5, <1>6, <1>7, <1>8, <1>9, <1>11, <1>12, <1>13, <1>14, <1>16 DEF Next

\* Every reachable state of the gate and its store is well typed, for every
\* policy, set of gates, and number of calls.
THEOREM TypeCorrect == Spec => []TypeOK
<1>1. TypeInv => TypeOK
  BY DEF TypeInv
<1>2. QED BY <1>1, TypeInit, TypeStep, PTL DEF Spec

-----------------------------------------------------------------------------
\* What the theorems assume: ids are unique, because no two gates evaluate one
\* candidate at one instant.
DistinctIds == ~SharedInstants

\* The store key of check i, and the decision id, of a call.
CallKey(i, c) == Key(i, call[c].of)
CallId(c) == Id(call[c].of)

\* A call past its consume loop: its tickets no longer change.
Settled(c) == call[c].pc \in {"set", "returned", "lost"}

\* The call holds a ticket within the limit for every key of its decision.
Paid(c) ==
  /\ Settled(c)
  /\ \A i \in Checks :
       CallKey(i, c) # NoKey => call[c].ticket[i] \in 1..Limit[i]

UniqueInv ==
  /\ \A x, y \in Decisions :
       /\ Begun(x) /\ Begun(y)
       /\ eval[x].candidate = eval[y].candidate
       /\ eval[x].at = eval[y].at
       => eval[x].gate = eval[y].gate
  /\ \A x, y \in Decisions :
       /\ Evaluated(x) /\ Evaluated(y) /\ x # y
       /\ eval[x].gate = eval[y].gate
       => eval[x].number # eval[y].number

TicketInv ==
  /\ \A c \in Calls, i \in Checks :
       call[c].ticket[i] > 0 =>
         /\ call[c].pc # "idle"
         /\ CallKey(i, c) \in Keys
         /\ call[c].ticket[i] <= counter[CallKey(i, c)]
  /\ \A b, c \in Calls, i, j \in Checks :
       /\ b # c \/ i # j
       /\ call[b].ticket[i] > 0 /\ call[c].ticket[j] > 0
       /\ CallKey(i, b) = CallKey(j, c)
       => call[b].ticket[i] # call[c].ticket[j]

\* The consume loop so far: every check before the current one was within its
\* limit, and a call about to write "1" is paid.
LoopInv ==
  \A c \in Calls :
    /\ call[c].pc = "consume" =>
         \A i \in Checks :
           i < call[c].pos /\ CallKey(i, c) # NoKey
             => call[c].ticket[i] \in 1..Limit[i]
    /\ call[c].pc = "set" /\ call[c].result = "1" => Paid(c)

\* The delivered decisions without a paid call.
Unpaid == {d \in delivered : \A c \in Calls : ~(Paid(c) /\ call[c].of = d)}

\* Every marker "1" has a paid call behind it, and so has every delivered
\* decision but those an error let out.
PaidInv ==
  /\ \A id \in Ids : marker[id] = "1" => \E c \in Calls : Paid(c) /\ CallId(c) = id
  /\ Cardinality(Unpaid) <= Overshoot

\* The inductive invariant behind GrantsBounded.
GrantInv == TypeInv /\ UniqueInv /\ TicketInv /\ LoopInv /\ PaidInv

-----------------------------------------------------------------------------
\* What a call may do in a step: nothing, one of its own steps, or be lost in a
\* crash of its gate.
LEMMA CallMoves ==
  ASSUME TypeInv, [Next]_vars, NEW x \in Calls
  PROVE  \/ call'[x] = call[x]
         \/ \E d \in Decisions, g \in Gates : StartCommit(x, d, g)
         \/ GetMarker(x)
         \/ Consume(x)
         \/ SetMarker(x)
         \/ CommitThrows(x)
         \/ /\ InFlight(x) /\ call'[x].pc = "lost"
            /\ call'[x].of = call[x].of /\ call'[x].pos = call[x].pos
            /\ call'[x].ticket = call[x].ticket
<1>1. CASE UNCHANGED call
  BY <1>1
<1>2. ASSUME NEW c \in Calls, NEW d \in Decisions, NEW r \in {"0", "1"}, Answer(c, d, r)
      PROVE  x # c => call'[x] = call[x]
  BY <1>2, AnswerType
<1>3. ASSUME NEW c \in Calls, NEW d \in Decisions, NEW g \in Gates, StartCommit(c, d, g)
      PROVE  x # c => call'[x] = call[x]
  BY <1>3 DEF StartCommit, TypeInv, TypeOK
<1>4. ASSUME NEW c \in Calls, GetMarker(c)
      PROVE  x # c => call'[x] = call[x]
  <2>1. call[c].of \in Decisions /\ Evaluated(call[c].of)
    BY <1>4 DEF GetMarker, TypeInv, CallOK, OneCallOK
  <2>2. CASE marker[Id(call[c].of)] = "none"
    BY <1>4, <2>2 DEF GetMarker, TypeInv, TypeOK
  <2>3. CASE marker[Id(call[c].of)] # "none"
    BY <1>2, <1>4, <2>1, <2>3, MarkerType DEF GetMarker
  <2>4. QED BY <2>2, <2>3
<1>5. ASSUME NEW c \in Calls, Consume(c)
      PROVE  x # c => call'[x] = call[x]
  BY <1>5, ConsumeEffect
<1>6. ASSUME NEW c \in Calls, SetMarker(c) \/ CommitThrows(c)
      PROVE  x # c => call'[x] = call[x]
  <2>1. call[c].of \in Decisions /\ call[c].result \in {"0", "1"}
    BY <1>6 DEF SetMarker, CommitThrows, TypeInv, TypeOK, CallOK, OneCallOK, CallState
  <2>2. QED BY <1>2, <1>6, <2>1 DEF SetMarker, CommitThrows, AnswerOnError
<1>7. ASSUME NEW g \in Gates, Crash(g)
      PROVE  \/ call'[x] = call[x]
             \/ /\ InFlight(x) /\ call'[x].pc = "lost"
                /\ call'[x].of = call[x].of /\ call'[x].pos = call[x].pos
                /\ call'[x].ticket = call[x].ticket
  BY <1>7 DEF Crash, TypeInv, TypeOK, CallState
<1>8. QED
  BY <1>1, <1>3, <1>4, <1>5, <1>6, <1>7
  DEF Next, vars, Begin, RunCheck, RunCheckThrows, Allow, Expire

\* An answer is of the call that gave it, and nothing else of it changes.
LEMMA AnswerEffect ==
  ASSUME TypeInv, NEW c \in Calls, NEW d, NEW r \in {"0", "1"}, Answer(c, d, r)
  PROVE  /\ call'[c].pc = "returned" /\ call'[c].result = r
         /\ call'[c].of = call[c].of /\ call'[c].pos = call[c].pos
         /\ call'[c].ticket = call[c].ticket
  BY DEF Answer, TypeInv, TypeOK, CallState

\* commit() up to its first await.
LEMMA StartEffect ==
  ASSUME TypeInv, NEW c \in Calls, NEW d \in Decisions, NEW g \in Gates, StartCommit(c, d, g)
  PROVE  /\ call[c].pc = "idle" /\ Evaluated(d)
         /\ UNCHANGED <<mode, counter, marker, eval, errors>>
         /\ \A x \in Calls : x # c => call'[x] = call[x]
         /\ call'[c].of = d /\ call'[c].pos = call[c].pos
         /\ call'[c].ticket = call[c].ticket
         /\ \/ /\ call'[c].pc = "get" /\ eval[d].pc = "allowed" /\ NumChecks > 0
            \/ /\ call'[c].pc = "returned" /\ (eval[d].pc = "refused" \/ NumChecks = 0)
               /\ call'[c].result = IF eval[d].pc = "allowed" THEN "1" ELSE "0"
  BY ConstantsOK DEF StartCommit, TypeInv, TypeOK, CallState, Evaluated

\* The marker is there and answers, or it is not and the consume loop begins.
LEMMA GetEffect ==
  ASSUME TypeInv, NEW c \in Calls, GetMarker(c)
  PROVE  /\ call[c].pc = "get" /\ call[c].of \in Decisions /\ Evaluated(call[c].of)
         /\ CallId(c) \in Ids
         /\ UNCHANGED <<mode, counter, marker, eval, errors>>
         /\ \A x \in Calls : x # c => call'[x] = call[x]
         /\ call'[c].of = call[c].of /\ call'[c].pos = call[c].pos
         /\ call'[c].ticket = call[c].ticket
         /\ \/ marker[CallId(c)] = "none" /\ call'[c].pc = "consume"
            \/ /\ marker[CallId(c)] # "none" /\ call'[c].pc = "returned"
               /\ call'[c].result = marker[CallId(c)]
<1>1. /\ call[c].pc = "get" /\ call[c].of \in Decisions /\ Evaluated(call[c].of)
      /\ call[c] \in CallState /\ UNCHANGED <<mode, counter, marker, eval, errors>>
  BY DEF GetMarker, TypeInv, TypeOK, CallOK, OneCallOK
<1>2. CallId(c) \in Ids /\ marker[CallId(c)] \in {"none", "0", "1"}
  BY <1>1, MarkerType DEF CallId
<1>3. CASE marker[CallId(c)] = "none"
  <2>1. call' = [call EXCEPT ![c].pc = "consume"]
    BY <1>3 DEF GetMarker, CallId
  <2>2. QED BY <1>1, <1>2, <1>3, <2>1 DEF TypeInv, TypeOK, CallState
<1>4. CASE marker[CallId(c)] # "none"
  <2>1. Answer(c, call[c].of, marker[CallId(c)])
    BY <1>4 DEF GetMarker, CallId
  <2>2. QED BY <1>1, <1>2, <1>4, <2>1, AnswerEffect, AnswerType
<1>5. QED BY <1>3, <1>4

\* The marker is written and the call answers with what it wrote.
LEMMA SetEffect ==
  ASSUME TypeInv, NEW c \in Calls, SetMarker(c)
  PROVE  /\ call[c].pc = "set" /\ call[c].of \in Decisions /\ Evaluated(call[c].of)
         /\ CallId(c) \in Ids
         /\ UNCHANGED <<mode, counter, eval, errors>>
         /\ marker' = [marker EXCEPT ![CallId(c)] = call[c].result]
         /\ \A x \in Calls : x # c => call'[x] = call[x]
         /\ call'[c].pc = "returned" /\ call'[c].of = call[c].of
         /\ call'[c].pos = call[c].pos /\ call'[c].ticket = call[c].ticket
         /\ call'[c].result = call[c].result
<1>1. /\ call[c].pc = "set" /\ call[c].of \in Decisions /\ Evaluated(call[c].of)
      /\ call[c].result \in {"0", "1"} /\ UNCHANGED <<mode, counter, eval, errors>>
  BY DEF SetMarker, TypeInv, TypeOK, CallOK, OneCallOK, CallState
<1>2. CallId(c) \in Ids
  BY <1>1, MarkerType DEF CallId
<1>3. Answer(c, call[c].of, call[c].result)
      /\ marker' = [marker EXCEPT ![CallId(c)] = call[c].result]
  BY DEF SetMarker, CallId
<1>4. QED BY <1>1, <1>2, <1>3, AnswerEffect, AnswerType

\* Where a store call throws the call answers, and may have taken its effect.
LEMMA ThrowEffect ==
  ASSUME TypeInv, NEW c \in Calls, CommitThrows(c)
  PROVE  /\ InFlight(c) /\ call[c].of \in Decisions /\ Evaluated(call[c].of)
         /\ CallId(c) \in Ids /\ errors' = errors + 1
         /\ UNCHANGED <<mode, eval>>
         /\ \A x \in Calls : x # c => call'[x] = call[x]
         /\ call'[c].pc = "returned" /\ call'[c].of = call[c].of
         /\ call'[c].pos = call[c].pos /\ call'[c].ticket = call[c].ticket
         /\ \/ call[c].pc = "get" /\ UNCHANGED storeVars
            \/ /\ call[c].pc = "consume" /\ UNCHANGED marker
               /\ call[c].pos \in Checks /\ CallKey(call[c].pos, c) \in Keys
               /\ \/ UNCHANGED counter
                  \/ counter' = [counter EXCEPT ![CallKey(call[c].pos, c)] = @ + 1]
            \/ /\ call[c].pc = "set" /\ UNCHANGED counter
               /\ \/ UNCHANGED marker
                  \/ marker' = [marker EXCEPT ![CallId(c)] = call[c].result]
<1>1. /\ InFlight(c) /\ call[c].of \in Decisions /\ Evaluated(call[c].of)
      /\ call[c].pc = "consume" => call[c].pos \in Checks
  BY DEF CommitThrows, TypeInv, TypeOK, CallOK, OneCallOK, CallState, InFlight
<1>2. CallId(c) \in Ids
  BY <1>1, MarkerType DEF CallId
<1>3. eval[call[c].of].candidate \in Candidates
  BY <1>1 DEF TypeInv, EvalOK, Evaluated
<1>4. call[c].pc = "consume" => CallKey(call[c].pos, c) \in Keys \cup {NoKey}
  BY <1>1, <1>3, ConstantsOK DEF CallKey, Key
<1>5. Answer(c, call[c].of, AnswerOnError) /\ AnswerOnError \in {"0", "1"}
  BY DEF CommitThrows, AnswerOnError
<1>6. /\ \A x \in Calls : x # c => call'[x] = call[x]
      /\ call'[c].pc = "returned" /\ call'[c].of = call[c].of
      /\ call'[c].pos = call[c].pos /\ call'[c].ticket = call[c].ticket
  BY <1>1, <1>5, AnswerType, AnswerEffect
<1>7. QED BY <1>1, <1>2, <1>4, <1>6 DEF CommitThrows, CallKey, CallId, storeVars

\* Only writing a marker changes the markers, but for those that run out.
LEMMA MarkerMoves ==
  ASSUME [Next]_vars
  PROVE  \/ UNCHANGED <<marker, expired>>
         \/ \E id \in Ids : Expire(id)
         \/ UNCHANGED expired /\ \E c \in Calls : SetMarker(c) \/ CommitThrows(c)
  BY DEF Next, vars, Begin, RunCheck, RunCheckThrows, Allow, StartCommit, GetMarker,
         Consume, Crash, SetMarker, CommitThrows

-----------------------------------------------------------------------------
\* What no step changes: the inputs of an evaluation, the record of a finished
\* one, the counters' growth, the decision of a call, a settled call's tickets.
Frame ==
  /\ \A d \in Decisions :
       /\ Begun(d) => /\ Begun(d)'
                      /\ eval'[d].gate = eval[d].gate
                      /\ eval'[d].candidate = eval[d].candidate
                      /\ eval'[d].at = eval[d].at
       /\ Evaluated(d) => eval'[d] = eval[d]
  /\ \A k \in Keys : counter[k] <= counter'[k]
  /\ \A c \in Calls :
       /\ call[c].pc # "idle" => call'[c].pc # "idle" /\ call'[c].of = call[c].of
       /\ call'[c].ticket = call[c].ticket \/ Consume(c)
       /\ Settled(c) => Settled(c)' /\ call'[c].ticket = call[c].ticket

\* An answer ends its own call and leaves every ticket and decision alone.
LEMMA AnswerFrame ==
  ASSUME TypeInv, NEW c \in Calls, NEW d \in Decisions, NEW answer \in {"0", "1"},
         Answer(c, d, answer), InFlight(c)
  PROVE  \A x \in Calls :
           /\ call[x].pc # "idle" => call'[x].pc # "idle" /\ call'[x].of = call[x].of
           /\ call'[x].ticket = call[x].ticket
           /\ Settled(x) => Settled(x)'
  BY AnswerType DEF Settled, InFlight

\* A step that leaves the evaluations and the counters alone.
LEMMA CallStepFrame ==
  ASSUME TypeInv, UNCHANGED <<eval, counter>>,
         \A x \in Calls :
           /\ call[x].pc # "idle" => call'[x].pc # "idle" /\ call'[x].of = call[x].of
           /\ call'[x].ticket = call[x].ticket
           /\ Settled(x) => Settled(x)'
  PROVE  Frame
  BY DEF Frame, TypeInv, TypeOK, Begun, Evaluated

\* A step that only moves one running evaluation on, or begins it.
LEMMA EvalStepFrame ==
  ASSUME TypeInv, UNCHANGED <<counter, call>>, NEW d \in Decisions,
         \A x \in Decisions : x # d => eval'[x] = eval[x],
         eval[d].pc \in {"unused", "running"},
         eval[d].pc = "running" =>
           /\ eval'[d].pc # "unused"
           /\ eval'[d].gate = eval[d].gate
           /\ eval'[d].candidate = eval[d].candidate
           /\ eval'[d].at = eval[d].at
  PROVE  Frame
  BY DEF Frame, TypeInv, TypeOK, Begun, Evaluated, Settled

\* Every action stays within the frame.
LEMMA StepFrame == TypeInv /\ [Next]_vars => Frame
<1> SUFFICES ASSUME TypeInv, [Next]_vars PROVE Frame
  OBVIOUS
<1>1. ASSUME NEW d \in Decisions, NEW g \in Gates, NEW e \in Candidates,
             NEW t \in Instants, Begin(d, g, e, t)
      PROVE  Frame
  <2>1. \A x \in Decisions : x # d => eval'[x] = eval[x]
    BY <1>1 DEF Begin, TypeInv, TypeOK
  <2>2. QED BY <1>1, <2>1, EvalStepFrame DEF Begin
<1>2. ASSUME NEW d \in Decisions, eval[d].pc = "running", UNCHANGED <<counter, call>>,
             \/ NextCheck(d)
             \/ Finish(d, "allowed")
             \/ Finish(d, "refused")
      PROVE  Frame
  <2>1. eval[d] \in EvalState
    BY DEF TypeInv, TypeOK
  <2>2. /\ \A x \in Decisions : x # d => eval'[x] = eval[x]
        /\ eval'[d].pc # "unused"
        /\ eval'[d].gate = eval[d].gate
        /\ eval'[d].candidate = eval[d].candidate
        /\ eval'[d].at = eval[d].at
    <3>1. CASE NextCheck(d)
      BY <1>2, <2>1, <3>1 DEF NextCheck, TypeInv, TypeOK, EvalState
    <3>2. ASSUME NEW v \in {"allowed", "refused"}, Finish(d, v)
          PROVE  /\ \A x \in Decisions : x # d => eval'[x] = eval[x]
                 /\ eval'[d].pc # "unused"
                 /\ eval'[d].gate = eval[d].gate
                 /\ eval'[d].candidate = eval[d].candidate
                 /\ eval'[d].at = eval[d].at
      BY <2>1, <3>2 DEF Finish, TypeInv, TypeOK, EvalState
    <3>3. QED BY <1>2, <3>1, <3>2
  <2>3. QED BY <1>2, <2>2, EvalStepFrame
<1>3. ASSUME NEW d \in Decisions, RunCheck(d) \/ RunCheckThrows(d) \/ Allow(d)
      PROVE  Frame
  BY <1>2, <1>3 DEF RunCheck, RunCheckThrows, Allow
<1>4. ASSUME NEW c \in Calls, NEW d \in Decisions, NEW g \in Gates, StartCommit(c, d, g)
      PROVE  Frame
  <2>1. call[c] \in CallState
    BY DEF TypeInv, TypeOK
  <2>2. \A x \in Calls :
          /\ x # c => call'[x] = call[x]
          /\ call'[x].ticket = call[x].ticket
    BY <1>4, <2>1 DEF StartCommit, TypeInv, TypeOK, CallState
  <2>3. call[c].pc = "idle"
    BY <1>4 DEF StartCommit
  <2>4. \A x \in Calls :
          /\ call[x].pc # "idle" => call'[x].pc # "idle" /\ call'[x].of = call[x].of
          /\ call'[x].ticket = call[x].ticket
          /\ Settled(x) => Settled(x)'
    BY <2>2, <2>3 DEF Settled
  <2>5. QED BY <1>4, <2>4, CallStepFrame DEF StartCommit
<1>5. ASSUME NEW c \in Calls, GetMarker(c)
      PROVE  Frame
  <2>1. /\ call[c].of \in Decisions /\ call[c] \in CallState
        /\ Evaluated(call[c].of) /\ InFlight(c)
    BY <1>5 DEF GetMarker, TypeInv, TypeOK, CallOK, OneCallOK, InFlight
  <2>2. CASE marker[Id(call[c].of)] = "none"
    <3>1. call' = [call EXCEPT ![c].pc = "consume"]
      BY <1>5, <2>2 DEF GetMarker
    <3>2. /\ \A x \in Calls : x # c => call'[x] = call[x]
          /\ call'[c].pc = "consume"
          /\ call'[c].of = call[c].of
          /\ call'[c].ticket = call[c].ticket
      BY <2>1, <3>1 DEF TypeInv, TypeOK, CallState
    <3>3. QED BY <1>5, <3>2, CallStepFrame DEF GetMarker, Settled
  <2>3. CASE marker[Id(call[c].of)] # "none"
    <3> DEFINE m == marker[Id(call[c].of)]
    <3>1. Answer(c, call[c].of, m) /\ m \in {"0", "1"}
      BY <1>5, <2>1, <2>3, MarkerType DEF GetMarker
    <3> HIDE DEF m
    <3>2. QED BY <1>5, <2>1, <3>1, AnswerFrame, CallStepFrame DEF GetMarker
  <2>4. QED BY <2>2, <2>3
<1>6. ASSUME NEW c \in Calls, Consume(c)
      PROVE  Frame
  <2>1. /\ call[c].pc = "consume"
        /\ call'[c].pc # "idle"
        /\ call'[c].of = call[c].of
        /\ \A x \in Calls : x # c => call'[x] = call[x]
    BY <1>6, ConsumeEffect
  <2>2. \A x \in Keys : counter[x] <= counter'[x]
    <3>1. CASE UNCHANGED counter
      BY <3>1 DEF TypeInv, TypeOK
    <3>2. CASE \E k \in Keys : counter' = [counter EXCEPT ![k] = @ + 1]
      BY <3>2 DEF TypeInv, TypeOK
    <3>3. QED BY <1>6, <3>1, <3>2, ConsumeEffect
  <2>3. UNCHANGED eval
    BY <1>6 DEF Consume
  <2>4. QED BY <1>6, <2>1, <2>2, <2>3 DEF Frame, Settled, Begun, Evaluated
<1>7. ASSUME NEW c \in Calls, SetMarker(c)
      PROVE  Frame
  <2>1. call[c].of \in Decisions /\ call[c].result \in {"0", "1"} /\ InFlight(c)
    BY <1>7 DEF SetMarker, TypeInv, TypeOK, CallOK, OneCallOK, InFlight, CallState
  <2>2. QED BY <1>7, <2>1, AnswerFrame, CallStepFrame DEF SetMarker
<1>8. ASSUME NEW c \in Calls, CommitThrows(c)
      PROVE  Frame
  <2>1. call[c].of \in Decisions /\ InFlight(c)
    BY <1>8 DEF CommitThrows, TypeInv, CallOK, OneCallOK, InFlight
  <2>2. \A x \in Calls :
          /\ call[x].pc # "idle" => call'[x].pc # "idle" /\ call'[x].of = call[x].of
          /\ call'[x].ticket = call[x].ticket
          /\ Settled(x) => Settled(x)'
    BY <1>8, <2>1, AnswerFrame DEF CommitThrows, AnswerOnError
  <2>3. \A k \in Keys : counter[k] <= counter'[k]
    BY <1>8 DEF CommitThrows, TypeInv, TypeOK, storeVars
  <2>4. UNCHANGED eval
    BY <1>8 DEF CommitThrows, AnswerOnError
  <2>5. QED BY <2>2, <2>3, <2>4 DEF Frame, Begun, Evaluated
<1>9. ASSUME NEW g \in Gates, Crash(g)
      PROVE  Frame
  <2>1. ASSUME NEW d \in Decisions
        PROVE  \/ eval'[d] = eval[d]
               \/ /\ eval[d].pc = "running"
                  /\ eval'[d].pc = "lost"
                  /\ eval'[d].gate = eval[d].gate
                  /\ eval'[d].candidate = eval[d].candidate
                  /\ eval'[d].at = eval[d].at
    BY <1>9 DEF Crash, TypeInv, TypeOK, EvalState
  <2>2. ASSUME NEW c \in Calls
        PROVE  \/ call'[c] = call[c]
               \/ /\ InFlight(c)
                  /\ call'[c].pc = "lost"
                  /\ call'[c].of = call[c].of
                  /\ call'[c].ticket = call[c].ticket
    BY <1>9 DEF Crash, TypeInv, TypeOK, CallState
  <2>3. UNCHANGED counter
    BY <1>9 DEF Crash
  <2>4. QED
    BY <2>1, <2>2, <2>3 DEF Frame, TypeInv, TypeOK, Begun, Evaluated, Settled, InFlight
<1>10. CASE UNCHANGED vars
  BY <1>10, CallStepFrame DEF vars, Settled
<1>12. ASSUME NEW id \in Ids, Expire(id)
       PROVE  Frame
  BY <1>12, CallStepFrame DEF Expire, Settled
<1>11. QED
  BY <1>1, <1>3, <1>4, <1>5, <1>6, <1>7, <1>8, <1>9, <1>10, <1>12 DEF Next

-----------------------------------------------------------------------------
\* Two evaluated decisions with one id are one decision.
LEMMA IdUnique ==
  ASSUME TypeInv, UniqueInv, NEW x \in Decisions, NEW y \in Decisions,
         Evaluated(x), Evaluated(y), Id(x) = Id(y)
  PROVE  x = y
  BY DEF UniqueInv, Id, Begun, Evaluated

\* finish() draws a fresh number of its gate, so ids stay unique.
LEMMA UniqueStep ==
  ASSUME TypeInv, UniqueInv, DistinctIds, [Next]_vars
  PROVE  UniqueInv'
<1>1. Frame /\ TypeInv'
  BY StepFrame, TypeStep
<1>2. ASSUME NEW d \in Decisions, NEW g \in Gates, NEW e \in Candidates,
             NEW t \in Instants, Begin(d, g, e, t)
      PROVE  UniqueInv'
  <2>1. eval[d] \in EvalState
    BY DEF TypeInv, TypeOK
  <2>2. /\ \A x \in Decisions : x # d => eval'[x] = eval[x]
        /\ eval'[d].pc = "running"
        /\ eval'[d].gate = g
        /\ eval'[d].candidate = e
        /\ eval'[d].at = t
    BY <1>2, <2>1 DEF Begin, TypeInv, TypeOK, EvalState
  <2>3. \A x \in Decisions : eval[x].candidate = e /\ eval[x].at = t => eval[x].gate = g
    BY <1>2 DEF Begin, DistinctIds
  <2>4. QED BY <2>2, <2>3 DEF UniqueInv, Begun, Evaluated
<1>3. ASSUME NEW d \in Decisions, eval[d].pc = "running",
             NEW v \in {"allowed", "refused"}, Finish(d, v)
      PROVE  UniqueInv'
  <2>1. eval[d] \in EvalState /\ eval[d].gate \in Gates
    BY <1>3 DEF TypeInv, TypeOK, EvalOK
  <2>2. /\ \A x \in Decisions : x # d => eval'[x] = eval[x]
        /\ eval'[d].pc = v
        /\ eval'[d].gate = eval[d].gate
        /\ eval'[d].candidate = eval[d].candidate
        /\ eval'[d].at = eval[d].at
        /\ eval'[d].number = sequence[eval[d].gate] + 1
    BY <1>3, <2>1 DEF Finish, TypeInv, TypeOK, EvalState
  <2>3. \A x \in Decisions :
          Evaluated(x) /\ eval[x].gate = eval[d].gate
            => eval[x].number # sequence[eval[d].gate] + 1
    <3>1. sequence[eval[d].gate] \in Nat
      BY <2>1 DEF TypeInv, TypeOK
    <3>2. QED BY <3>1 DEF TypeInv, EvalOK
  <2>4. QED BY <1>3, <2>2, <2>3 DEF UniqueInv, Begun, Evaluated
<1>4. ASSUME \A d \in Decisions : /\ eval'[d].gate = eval[d].gate
                                  /\ eval'[d].candidate = eval[d].candidate
                                  /\ eval'[d].at = eval[d].at
                                  /\ Begun(d)' => Begun(d)
                                  /\ Evaluated(d)' => Evaluated(d)
      PROVE  UniqueInv'
  BY <1>1, <1>4 DEF UniqueInv, Frame
<1>5. ASSUME NEW d \in Decisions, eval[d].pc = "running", NextCheck(d)
      PROVE  UniqueInv'
  <2>1. eval[d] \in EvalState
    BY DEF TypeInv, TypeOK
  <2>2. QED BY <1>4, <1>5, <2>1 DEF NextCheck, TypeInv, TypeOK, EvalState, Begun, Evaluated
<1>6. ASSUME NEW d \in Decisions, RunCheck(d) \/ RunCheckThrows(d) \/ Allow(d)
      PROVE  UniqueInv'
  BY <1>3, <1>5, <1>6 DEF RunCheck, RunCheckThrows, Allow
<1>7. CASE UNCHANGED eval
  BY <1>4, <1>7 DEF Begun, Evaluated
<1>8. ASSUME NEW g \in Gates, Crash(g)
      PROVE  UniqueInv'
  <2>1. ASSUME NEW d \in Decisions
        PROVE  /\ eval'[d].gate = eval[d].gate
               /\ eval'[d].candidate = eval[d].candidate
               /\ eval'[d].at = eval[d].at
               /\ Begun(d)' => Begun(d)
               /\ Evaluated(d)' => Evaluated(d)
    BY <1>8 DEF Crash, TypeInv, TypeOK, EvalState, Begun, Evaluated
  <2>2. QED BY <1>4, <2>1
<1>9. QED
  BY <1>2, <1>6, <1>7, <1>8
  DEF Next, vars, StartCommit, GetMarker, Consume, SetMarker, CommitThrows, Expire

\* The key of a call's decision does not change once the call has started.
LEMMA KeyStable ==
  ASSUME TypeInv, Frame, NEW c \in Calls, call[c].pc # "idle", NEW i \in Checks
  PROVE  /\ call'[c].of = call[c].of
         /\ CallKey(i, c)' = CallKey(i, c)
         /\ CallId(c)' = CallId(c)
         /\ CallKey(i, c) \in Keys \cup {NoKey}
  BY ConstantsOK
  DEF Frame, TypeInv, CallOK, OneCallOK, EvalOK, CallKey, CallId, Key, Id, Begun, Evaluated

\* Only Consume hands out a ticket, and it is above all earlier ones.
LEMMA TicketStep ==
  ASSUME TypeInv, TicketInv, [Next]_vars
  PROVE  TicketInv'
<1>1. Frame /\ TypeInv'
  BY StepFrame, TypeStep
<1>2. \A c \in Calls : call[c] \in CallState /\ call'[c] \in CallState
  BY <1>1 DEF TypeInv, TypeOK
<1>3. ASSUME NEW c \in Calls, NEW i \in Checks, call'[c].ticket[i] > 0,
             call'[c].ticket[i] = call[c].ticket[i]
      PROVE  /\ call[c].pc # "idle" /\ call'[c].pc # "idle"
             /\ CallKey(i, c)' = CallKey(i, c)
             /\ CallKey(i, c) \in Keys
             /\ call'[c].ticket[i] <= counter[CallKey(i, c)]
             /\ call'[c].ticket[i] <= counter'[CallKey(i, c)]
  <2>1. /\ call[c].pc # "idle"
        /\ CallKey(i, c) \in Keys
        /\ call[c].ticket[i] <= counter[CallKey(i, c)]
    BY <1>3 DEF TicketInv
  <2>2. CallKey(i, c)' = CallKey(i, c)
    BY <1>1, <2>1, KeyStable
  <2>3. counter[CallKey(i, c)] <= counter'[CallKey(i, c)]
    BY <1>1, <2>1 DEF Frame
  <2>4. /\ counter[CallKey(i, c)] \in Nat
        /\ counter'[CallKey(i, c)] \in Nat
        /\ call[c].ticket[i] \in Nat
    BY <1>1, <1>2, <2>1 DEF TypeInv, TypeOK, CallState
  <2>5. QED BY <1>1, <1>3, <2>1, <2>2, <2>3, <2>4 DEF Frame
<1>4. CASE \A c \in Calls : call'[c].ticket = call[c].ticket
  <2>1. ASSUME NEW c \in Calls, NEW i \in Checks, call'[c].ticket[i] > 0
        PROVE  /\ call'[c].pc # "idle"
               /\ CallKey(i, c)' \in Keys
               /\ call'[c].ticket[i] <= counter'[CallKey(i, c)']
    BY <1>3, <1>4, <2>1
  <2>2. ASSUME NEW b \in Calls, NEW c \in Calls, NEW i \in Checks, NEW j \in Checks,
               b # c \/ i # j, call'[b].ticket[i] > 0, call'[c].ticket[j] > 0,
               CallKey(i, b)' = CallKey(j, c)'
        PROVE  call'[b].ticket[i] # call'[c].ticket[j]
    <3>1. CallKey(i, b) = CallKey(j, c)
      BY <1>3, <1>4, <2>2
    <3>2. QED BY <1>4, <2>2, <3>1 DEF TicketInv
  <2>3. QED BY <2>1, <2>2 DEF TicketInv
<1>5. ASSUME NEW c \in Calls, Consume(c), call'[c].ticket # call[c].ticket
      PROVE  TicketInv'
  <2>0. PICK j \in Checks, k \in Keys, used \in Nat :
          j = call[c].pos /\ k = CallKey(j, c) /\ used = counter[k] + 1
    <3>1. /\ call[c].pos \in Checks
          /\ CallKey(call[c].pos, c) \in Keys
      BY <1>5, ConsumeEffect DEF CallKey
    <3>2. counter[CallKey(call[c].pos, c)] + 1 \in Nat
      BY <3>1 DEF TypeInv, TypeOK
    <3>3. QED BY <3>1, <3>2
  <2>1. /\ call[c].pc = "consume"
        /\ call'[c].pc # "idle"
        /\ \A x \in Calls : x # c => call'[x] = call[x]
        /\ counter' = [counter EXCEPT ![k] = used]
        /\ call'[c].ticket = [call[c].ticket EXCEPT ![j] = used]
    BY <1>5, <2>0, ConsumeEffect DEF CallKey
  <2>2. /\ counter[k] \in Nat /\ counter'[k] = used
        /\ call[c].ticket \in [Checks -> Nat]
    BY <1>2, <2>1 DEF TypeInv, TypeOK, CallState
  <2>3. /\ call'[c].ticket[j] = used
        /\ \A i \in Checks : i # j => call'[c].ticket[i] = call[c].ticket[i]
    BY <2>1, <2>2
  <2>4. CallKey(j, c)' = k
    BY <1>1, <2>0, <2>1, KeyStable
  <2>5. ASSUME NEW x \in Calls, NEW i \in Checks, call'[x].ticket[i] > 0
        PROVE  /\ call'[x].pc # "idle"
               /\ CallKey(i, x)' \in Keys
               /\ call'[x].ticket[i] <= counter'[CallKey(i, x)']
    <3>1. CASE x = c /\ i = j
      BY <2>1, <2>2, <2>3, <2>4, <3>1
    <3>2. CASE ~(x = c /\ i = j)
      <4>1. call'[x].ticket[i] = call[x].ticket[i]
        BY <2>1, <2>3, <3>2
      <4>2. QED BY <1>3, <2>5, <4>1
    <3>3. QED BY <3>1, <3>2
  <2>6. ASSUME NEW b \in Calls, NEW i \in Checks, b # c \/ i # j,
               call'[b].ticket[i] > 0, CallKey(i, b)' = k
        PROVE  call'[b].ticket[i] # used
    <3>1. call'[b].ticket[i] = call[b].ticket[i]
      BY <2>1, <2>3, <2>6
    <3>2. /\ CallKey(i, b) = k
          /\ call'[b].ticket[i] <= counter[k]
          /\ call'[b].ticket[i] \in Nat
      BY <1>2, <1>3, <2>6, <3>1 DEF CallState
    <3>3. QED BY <2>0, <2>2, <3>2
  <2>7. ASSUME NEW a \in Calls, NEW b \in Calls, NEW i \in Checks, NEW m \in Checks,
               a # b \/ i # m, call'[a].ticket[i] > 0, call'[b].ticket[m] > 0,
               CallKey(i, a)' = CallKey(m, b)'
        PROVE  call'[a].ticket[i] # call'[b].ticket[m]
    <3>1. CASE a = c /\ i = j
      BY <2>3, <2>4, <2>6, <2>7, <3>1
    <3>2. CASE b = c /\ m = j
      BY <2>3, <2>4, <2>6, <2>7, <3>2
    <3>3. CASE ~(a = c /\ i = j) /\ ~(b = c /\ m = j)
      <4>1. /\ call'[a].ticket[i] = call[a].ticket[i]
            /\ call'[b].ticket[m] = call[b].ticket[m]
        BY <2>1, <2>3, <3>3
      <4>2. CallKey(i, a) = CallKey(m, b)
        BY <1>3, <2>7, <4>1
      <4>3. QED BY <2>7, <4>1, <4>2 DEF TicketInv
    <3>4. QED BY <3>1, <3>2, <3>3
  <2>8. QED BY <2>5, <2>7 DEF TicketInv
<1>6. QED BY <1>1, <1>4, <1>5 DEF Frame

\* How a call gets into, or on in, the consume loop.
LEMMA MoveOn ==
  ASSUME TypeInv, [Next]_vars, NEW x \in Calls
  PROVE  \/ call'[x] = call[x]
         \/ call'[x].pc \notin {"consume", "set"}
         \/ Consume(x)
         \/ call'[x].pc = "consume" /\ call'[x].pos = 1
<1>1. call[x].pc = "get" => call[x].pos = 1
  BY DEF TypeInv, CallOK, OneCallOK
<1>2. QED BY <1>1, CallMoves, StartEffect, GetEffect, SetEffect, ThrowEffect

\* The consume loop goes on, or ends with "1", only within the limits.
LEMMA LoopStep ==
  ASSUME TypeInv, LoopInv, [Next]_vars
  PROVE  LoopInv'
<1>1. Frame /\ TypeInv'
  BY StepFrame, TypeStep
<1>2. \A c \in Calls : call[c] \in CallState /\ call'[c] \in CallState
  BY <1>1 DEF TypeInv, TypeOK
<1> SUFFICES ASSUME NEW x \in Calls
             PROVE  /\ call'[x].pc = "consume" =>
                         \A i \in Checks :
                           i < call'[x].pos /\ CallKey(i, x)' # NoKey
                             => call'[x].ticket[i] \in 1..Limit[i]
                    /\ call'[x].pc = "set" /\ call'[x].result = "1" => Paid(x)'
  BY DEF LoopInv
<1>3. CASE call'[x] = call[x]
  <2>1. call[x].pc # "idle" => \A i \in Checks : CallKey(i, x)' = CallKey(i, x)
    BY <1>1, KeyStable
  <2>2. QED BY <1>3, <2>1 DEF LoopInv, Paid, Settled
<1>4. CASE call'[x].pc \notin {"consume", "set"}
  BY <1>4
<1>5. CASE call'[x].pc = "consume" /\ call'[x].pos = 1
  BY <1>5 DEF Checks
<1>6. CASE Consume(x)
  <2>0. PICK j \in Checks : j = call[x].pos
    BY <1>6, ConsumeEffect
  <2>1. /\ call[x].pc = "consume"
        /\ call'[x].pos = j + 1
        /\ call'[x].result = "1" => j = NumChecks
    BY <1>6, <2>0, ConsumeEffect
  <2>2. \A i \in Checks : CallKey(i, x)' = CallKey(i, x)
    BY <1>1, <2>1, KeyStable
  <2>3. \A i \in Checks : i # j => call'[x].ticket[i] = call[x].ticket[i]
    <3>1. \/ call'[x].ticket = call[x].ticket
          \/ \E n : call'[x].ticket = [call[x].ticket EXCEPT ![j] = n]
      BY <1>6, <2>0, ConsumeEffect
    <3>2. call[x].ticket \in [Checks -> Nat]
      BY <1>2 DEF CallState
    <3>3. QED BY <3>1, <3>2
  <2>4. /\ CallKey(j, x) # NoKey
        /\ call'[x].pc = "consume" \/ call'[x].result = "1"
        => call'[x].ticket[j] \in 1..Limit[j]
    <3>1. CASE CallKey(j, x) = NoKey
      BY <3>1
    <3>2. CASE CallKey(j, x) # NoKey
      <4>1. PICK k \in Keys :
              /\ call'[x].ticket = [call[x].ticket EXCEPT ![j] = counter[k] + 1]
              /\ call'[x].pc = "consume" \/ call'[x].result = "1"
                   => counter[k] + 1 <= Limit[j]
        BY <1>6, <2>0, <3>2, ConsumeEffect DEF CallKey
      <4>2. counter[k] \in Nat /\ Limit[j] \in Nat
        BY ConstantsOK DEF TypeInv, TypeOK
      <4>3. call'[x].ticket[j] = counter[k] + 1
        BY <1>2, <4>1 DEF CallState
      <4>4. QED BY <4>1, <4>2, <4>3
    <3>3. QED BY <3>1, <3>2
  <2>5. \A i \in Checks :
          i < j /\ CallKey(i, x) # NoKey => call'[x].ticket[i] \in 1..Limit[i]
    BY <2>0, <2>1, <2>3 DEF LoopInv, Checks
  <2>6. \A i \in Checks : i < j + 1 => i < j \/ i = j
    BY DEF Checks
  <2>7. j = NumChecks => \A i \in Checks : i < j + 1
    BY ConstantsOK DEF Checks
  <2>8. QED BY <2>1, <2>2, <2>4, <2>5, <2>6, <2>7 DEF Paid, Settled
<1>7. QED BY <1>3, <1>4, <1>5, <1>6, MoveOn

\* A paid call stays paid, for the same decision.
LEMMA PaidStays ==
  ASSUME TypeInv, Frame, NEW c \in Calls, Paid(c)
  PROVE  Paid(c)' /\ CallId(c)' = CallId(c) /\ call'[c].of = call[c].of
<1>1. call[c].pc # "idle"
  BY DEF Paid, Settled
<1>2. /\ \A i \in Checks : CallKey(i, c)' = CallKey(i, c)
      /\ call'[c].of = call[c].of
  BY <1>1, KeyStable DEF Frame
<1>3. CallId(c)' = CallId(c)
  BY <1>1 DEF Frame, TypeInv, CallOK, OneCallOK, CallId, Id
<1>4. Settled(c)' /\ call'[c].ticket = call[c].ticket
  BY DEF Frame, Paid
<1>5. QED BY <1>2, <1>3, <1>4 DEF Paid

\* The size of a set with one more element.
LEMMA OneMore ==
  ASSUME NEW S, NEW x, IsFiniteSet(S)
  PROVE  IsFiniteSet(S \cup {x}) /\ Cardinality(S \cup {x}) <= Cardinality(S) + 1
<1>1. Cardinality(S) \in Nat
  BY FS_CardinalityType
<1>2. /\ IsFiniteSet(S \cup {x})
      /\ Cardinality(S \cup {x}) = IF x \in S THEN Cardinality(S) ELSE Cardinality(S) + 1
  BY FS_AddElement
<1>3. QED BY <1>1, <1>2

\* The size of two sets together.
LEMMA UnionBound ==
  ASSUME NEW S, IsFiniteSet(S), NEW T, IsFiniteSet(T)
  PROVE  IsFiniteSet(S \cup T) /\ Cardinality(S \cup T) <= Cardinality(S) + Cardinality(T)
<1>1. IsFiniteSet(S \cap T)
  BY FS_Subset
<1>2. Cardinality(S) \in Nat /\ Cardinality(T) \in Nat /\ Cardinality(S \cap T) \in Nat
  BY <1>1, FS_CardinalityType
<1>3. /\ IsFiniteSet(S \cup T)
      /\ Cardinality(S \cup T) = Cardinality(S) + Cardinality(T) - Cardinality(S \cap T)
  BY FS_Union
<1>4. QED BY <1>2, <1>3

\* No step changes the mode or takes an error back.
LEMMA ErrorsGrow ==
  ASSUME TypeInv, [Next]_vars
  PROVE  mode' = mode /\ errors \in Nat /\ errors' \in Nat /\ errors <= errors'
<1>1. errors \in Nat
  BY BoundAssumption DEF TypeInv, TypeOK
<1>2. ASSUME mode' = mode, errors' = errors \/ errors' = errors + 1
      PROVE  mode' = mode /\ errors \in Nat /\ errors' \in Nat /\ errors <= errors'
  BY <1>1, <1>2
<1>3. QED
  BY <1>2
  DEF Next, vars, Begin, RunCheck, RunCheckThrows, Allow, StartCommit, GetMarker, Consume,
      SetMarker, CommitThrows, Crash, Expire

\* A marker "1" and a delivery come only from a paid call.
LEMMA PaidStep ==
  ASSUME GrantInv, DistinctIds, [Next]_vars
  PROVE  PaidInv'
<1> USE DEF GrantInv
<1>1. Frame /\ TypeInv'
  BY StepFrame, TypeStep
<1>2. \A c \in Calls :
        Paid(c) => Paid(c)' /\ CallId(c)' = CallId(c) /\ call'[c].of = call[c].of
  BY <1>1, PaidStays
<1>11. IsFiniteSet(Unpaid) /\ Cardinality(Unpaid) \in Nat
  <2>1. Unpaid \subseteq Decisions
    BY DEF Unpaid, TypeInv, TypeOK
  <2>2. QED BY <2>1, FiniteAssumption, FS_Subset, FS_CardinalityType
<1>12. mode' = mode /\ errors \in Nat /\ errors' \in Nat /\ errors <= errors'
  BY ErrorsGrow
\* Delivering only decisions with a paid call keeps the delivery half.
<1>13. ASSUME \A d \in delivered' \ delivered : \E b \in Calls : Paid(b)' /\ call'[b].of = d
       PROVE  Cardinality(Unpaid)' <= Overshoot'
  <2>1. Unpaid' \subseteq Unpaid
    BY <1>2, <1>13 DEF Unpaid
  <2>2. Cardinality(Unpaid') <= Cardinality(Unpaid) /\ Cardinality(Unpaid') \in Nat
    BY <1>11, <2>1, FS_Subset, FS_CardinalityType
  <2>3. QED BY <1>11, <1>12, <2>2 DEF PaidInv, Overshoot
<1>3. ASSUME UNCHANGED <<marker, delivered>>
      PROVE  PaidInv'
  BY <1>2, <1>3, <1>13 DEF PaidInv
<1>4. ASSUME NEW c \in Calls, NEW d \in Decisions, NEW g \in Gates, StartCommit(c, d, g)
      PROVE  PaidInv'
  <2>1. UNCHANGED marker
    BY <1>4 DEF StartCommit
  <2>2. CASE UNCHANGED delivered
    BY <1>3, <2>1, <2>2
  <2>3. CASE delivered' # delivered
    <3>1. NumChecks = 0 /\ eval[d].pc = "allowed" /\ delivered' = delivered \cup {d}
      BY <1>4, <2>3 DEF StartCommit
    <3>2. call'[c].pc = "returned" /\ call'[c].of = d
      BY <1>4, <3>1 DEF StartCommit, TypeInv, TypeOK, CallState
    <3>3. Paid(c)'
      BY <3>1, <3>2 DEF Paid, Settled, Checks
    <3>4. Cardinality(Unpaid)' <= Overshoot'
      BY <1>13, <3>1, <3>2, <3>3
    <3>5. QED BY <1>2, <2>1, <3>4 DEF PaidInv
  <2>4. QED BY <2>2, <2>3
\* An answer "1" backed by a paid call of the decision keeps the invariant.
<1>5. ASSUME NEW c \in Calls, NEW r \in {"0", "1"}, Answer(c, call[c].of, r),
             r = "1" => \E b \in Calls : Paid(b) /\ call[b].of = call[c].of
      PROVE  Cardinality(Unpaid)' <= Overshoot'
  <2>1. \A d \in delivered' \ delivered : r = "1" /\ d = call[c].of
    BY <1>5 DEF Answer
  <2>2. QED BY <1>2, <1>5, <1>13, <2>1
<1>6. ASSUME NEW c \in Calls, GetMarker(c)
      PROVE  PaidInv'
  <2>1. call[c].of \in Decisions /\ Evaluated(call[c].of)
    BY <1>6 DEF GetMarker, TypeInv, CallOK, OneCallOK
  <2>2. CASE marker[Id(call[c].of)] = "none"
    BY <1>3, <1>6, <2>2 DEF GetMarker
  <2>3. CASE marker[Id(call[c].of)] # "none"
    <3>1. PICK r \in {"0", "1"} : r = marker[Id(call[c].of)]
      BY <2>1, <2>3, MarkerType
    <3>2. Answer(c, call[c].of, r) /\ UNCHANGED marker
      BY <1>6, <2>3, <3>1 DEF GetMarker
    <3>3. ASSUME r = "1"
          PROVE  \E b \in Calls : Paid(b) /\ call[b].of = call[c].of
      <4>1. PICK b \in Calls : Paid(b) /\ CallId(b) = Id(call[c].of)
        BY <2>1, <3>1, <3>3, MarkerType DEF PaidInv
      <4>2. call[b].of \in Decisions /\ Evaluated(call[b].of)
        BY <4>1 DEF Paid, Settled, TypeInv, CallOK, OneCallOK
      <4>3. call[b].of = call[c].of
        BY <2>1, <4>1, <4>2, IdUnique DEF CallId
      <4>4. QED BY <4>1, <4>3
    <3>4. QED BY <1>2, <1>5, <3>2, <3>3 DEF PaidInv
  <2>4. QED BY <2>2, <2>3
\* Writing a call's own result as its marker keeps the marker half.
<1>7. ASSUME NEW c \in Calls, call[c].pc = "set",
             marker' \in {marker, [marker EXCEPT ![Id(call[c].of)] = call[c].result]}
      PROVE  \A id \in Ids : marker'[id] = "1" =>
               \E b \in Calls : Paid(b)' /\ CallId(b)' = id
  <2>1. marker \in [Ids -> {"none", "0", "1"}]
    BY DEF TypeInv, TypeOK
  <2>2. call[c].result = "1" => Paid(c)
    BY <1>7 DEF LoopInv
  <2>3. QED BY <1>2, <1>7, <2>1, <2>2 DEF PaidInv, CallId
<1>8. ASSUME NEW c \in Calls, SetMarker(c)
      PROVE  PaidInv'
  <2>1. PICK r \in {"0", "1"} : r = call[c].result
    BY DEF TypeInv, TypeOK, CallState
  <2>2. r = "1" => Paid(c)
    BY <1>8, <2>1 DEF SetMarker, LoopInv
  <2>3. Answer(c, call[c].of, r)
    BY <1>8, <2>1 DEF SetMarker
  <2>4. Cardinality(Unpaid)' <= Overshoot'
    BY <1>5, <2>2, <2>3
  <2>5. \A id \in Ids : marker'[id] = "1" => \E b \in Calls : Paid(b)' /\ CallId(b)' = id
    BY <1>7, <1>8 DEF SetMarker
  <2>6. QED BY <2>4, <2>5 DEF PaidInv
<1>9. ASSUME NEW c \in Calls, CommitThrows(c)
      PROVE  PaidInv'
  <2>1. ASSUME mode.onStoreError = "closed" PROVE Cardinality(Unpaid)' <= Overshoot'
    <3>1. Answer(c, call[c].of, "0")
      BY <1>9, <2>1 DEF CommitThrows, AnswerOnError
    <3>2. QED BY <1>5, <3>1
  <2>2. ASSUME mode.onStoreError = "open" PROVE Cardinality(Unpaid)' <= Overshoot'
    <3> DEFINE d == call[c].of
    <3>1. delivered' \subseteq delivered \cup {d} /\ errors' = errors + 1
      BY <1>9 DEF CommitThrows, Answer
    <3>2. Unpaid' \subseteq Unpaid \cup {d}
      BY <1>2, <3>1 DEF Unpaid
    <3>3. IsFiniteSet(Unpaid \cup {d}) /\ Cardinality(Unpaid \cup {d}) <= Cardinality(Unpaid) + 1
      BY <1>11, OneMore
    <3>4. Cardinality(Unpaid') <= Cardinality(Unpaid \cup {d}) /\ Cardinality(Unpaid') \in Nat
          /\ Cardinality(Unpaid \cup {d}) \in Nat
      BY <3>2, <3>3, FS_Subset, FS_CardinalityType
    <3>5. Cardinality(Unpaid) <= errors /\ Overshoot' = errors + 1
      BY <1>12, <2>2, <3>1 DEF PaidInv, Overshoot
    <3>6. QED BY <1>11, <1>12, <3>3, <3>4, <3>5
  <2>6. mode.onStoreError \in {"open", "closed"}
    BY ModeAssumption DEF Mode, TypeInv, TypeOK
  <2>7. Cardinality(Unpaid)' <= Overshoot'
    BY <2>1, <2>2, <2>6
  <2>3. CASE UNCHANGED marker
    BY <1>2, <2>3, <2>7 DEF PaidInv
  <2>4. CASE call[c].pc = "set"
    BY <1>7, <1>9, <2>4, <2>7 DEF CommitThrows, PaidInv
  <2>5. QED BY <1>9, <2>3, <2>4 DEF CommitThrows, storeVars
<1>14. ASSUME NEW id \in Ids, Expire(id)
       PROVE  PaidInv'
  <2>1. UNCHANGED delivered /\ \A x \in Ids : marker'[x] = "1" => marker[x] = "1"
    BY <1>14 DEF Expire, TypeInv, TypeOK
  <2>2. QED BY <1>2, <1>13, <2>1 DEF PaidInv
<1>10. QED
  BY <1>3, <1>4, <1>6, <1>8, <1>9, <1>14
  DEF Next, vars, Begin, RunCheck, RunCheckThrows, Allow, Consume, Crash

-----------------------------------------------------------------------------
\* The invariant holds of an empty store.
LEMMA GrantInit == Init => GrantInv
<1> SUFFICES ASSUME Init PROVE GrantInv
  OBVIOUS
<1>1. TypeInv
  BY TypeInit
<1>2. UniqueInv /\ TicketInv /\ LoopInv
  BY DEF Init, UniqueInv, TicketInv, LoopInv, Begun, Evaluated
<1>3. PaidInv
  <2>1. Unpaid = {} /\ errors = 0
    BY DEF Init, Unpaid
  <2>2. QED BY <2>1, FS_EmptySet DEF Init, PaidInv, Overshoot
<1>4. QED BY <1>1, <1>2, <1>3 DEF GrantInv

\* The invariant is inductive in a strict gate.
LEMMA GrantStep == DistinctIds /\ GrantInv /\ [Next]_vars => GrantInv'
  BY TypeStep, UniqueStep, TicketStep, LoopStep, PaidStep DEF GrantInv

\* The paid ones among the decisions that hold a key map to distinct tickets
\* in 1..limit, and the others are at most the overshoot.
LEMMA GrantBound == GrantInv => GrantsBounded
<1> SUFFICES ASSUME GrantInv, NEW i \in Checks, NEW k \in Keys
             PROVE  Cardinality(Holders(i, k)) <= Limit[i] + Overshoot
  BY DEF GrantsBounded
<1> USE DEF GrantInv
<1> DEFINE H == Holders(i, k) \ Unpaid
           payer(d) == CHOOSE c \in Calls : Paid(c) /\ call[c].of = d
           f == [d \in H |-> call[payer(d)].ticket[i]]
<1>1. \A d \in H : payer(d) \in Calls /\ Paid(payer(d)) /\ call[payer(d)].of = d
  <2>1. \A d \in H : \E c \in Calls : Paid(c) /\ call[c].of = d
    BY DEF Unpaid, Holders
  <2>2. QED BY <2>1
<1>2. \A d \in H : CallKey(i, payer(d)) = k /\ f[d] \in 1..Limit[i]
  <2>1. k # NoKey
    BY ConstantsOK
  <2>2. \A d \in H : Key(i, d) = k
    BY DEF Holders
  <2>3. \A d \in H : CallKey(i, payer(d)) = k
    BY <1>1, <2>2 DEF CallKey
  <2>4. \A d \in H : call[payer(d)].ticket[i] \in 1..Limit[i]
    BY <1>1, <2>1, <2>3 DEF Paid
  <2>5. QED BY <2>3, <2>4
<1>3. ASSUME NEW a \in H, NEW b \in H, a # b
      PROVE  f[a] # f[b]
  <2>1. payer(a) # payer(b)
    BY <1>1, <1>3
  <2>2. f[a] > 0 /\ f[b] > 0
    BY <1>2
  <2>3. QED BY <1>1, <1>2, <2>1, <2>2 DEF TicketInv
<1> HIDE DEF f
<1>4. f \in Injection(H, 1..Limit[i])
  <2>1. f \in [H -> 1..Limit[i]]
    BY <1>2 DEF f
  <2>2. QED BY <1>3, <2>1 DEF Injection, IsInjective
<1>5. Limit[i] \in Nat
  BY ConstantsOK
<1>6. IsFiniteSet(H) /\ Cardinality(H) <= Limit[i]
  <2>1. IsFiniteSet(1..Limit[i]) /\ Cardinality(1..Limit[i]) = Limit[i]
    BY <1>5, FS_Interval
  <2>2. QED BY <1>4, <2>1, FS_Injection
<1> HIDE DEF H
<1>7. IsFiniteSet(Unpaid) /\ Cardinality(Unpaid) \in Nat
  <2>1. Unpaid \subseteq Decisions
    BY DEF Unpaid, TypeInv, TypeOK
  <2>2. QED BY <2>1, FiniteAssumption, FS_Subset, FS_CardinalityType
<1>8. IsFiniteSet(H \cup Unpaid) /\ Cardinality(H \cup Unpaid) <= Cardinality(H) + Cardinality(Unpaid)
  BY <1>6, <1>7, UnionBound
<1>9. Holders(i, k) \subseteq H \cup Unpaid
  BY DEF H
<1>10. /\ Cardinality(Holders(i, k)) <= Cardinality(H \cup Unpaid)
       /\ Cardinality(Holders(i, k)) \in Nat /\ Cardinality(H \cup Unpaid) \in Nat
       /\ Cardinality(H) \in Nat
  BY <1>6, <1>8, <1>9, FS_Subset, FS_CardinalityType
<1>11. Cardinality(Unpaid) <= Overshoot /\ Overshoot \in Nat
  BY BoundAssumption DEF PaidInv, Overshoot, TypeInv, TypeOK
<1>12. QED BY <1>5, <1>6, <1>7, <1>8, <1>10, <1>11

\* However many evaluations and commits race, overlap, crash or lose a store
\* reply, a gate that fails closed never exceeds the limit of a key, and one that
\* fails open exceeds it by at most the number of errors.
THEOREM LimitsHold == ASSUME DistinctIds PROVE Spec => []GrantsBounded
<1>1. Init => GrantInv
  BY GrantInit
<1>2. GrantInv /\ [Next]_vars => GrantInv'
  BY DistinctIds, GrantStep
<1>3. GrantInv => GrantsBounded
  BY GrantBound
<1>4. QED BY <1>1, <1>2, <1>3, PTL DEF Spec

-----------------------------------------------------------------------------
\* A step delivers at most one decision, and then one some call committed.
LEMMA DeliverStep ==
  ASSUME TypeInv, [Next]_vars, delivered' # delivered
  PROVE  \E d \in Decisions :
           Begun(d) /\ d \notin delivered /\ delivered' = delivered \cup {d} /\ UNCHANGED eval
<1>1. ASSUME NEW c \in Calls, NEW d \in Decisions, NEW g \in Gates, StartCommit(c, d, g)
      PROVE  Evaluated(d) /\ delivered' = delivered \cup {d} /\ UNCHANGED eval
  BY <1>1 DEF StartCommit
<1>2. ASSUME NEW c \in Calls, GetMarker(c) \/ SetMarker(c) \/ CommitThrows(c)
      PROVE  /\ call[c].of \in Decisions /\ Evaluated(call[c].of)
             /\ delivered' = delivered \cup {call[c].of} /\ UNCHANGED eval
  BY <1>2 DEF GetMarker, SetMarker, CommitThrows, Answer, TypeInv, CallOK, OneCallOK
<1>3. CASE \E d \in Decisions :
             Evaluated(d) /\ delivered' = delivered \cup {d} /\ UNCHANGED eval
  BY <1>3 DEF Begun, Evaluated
<1>4. QED
  BY <1>1, <1>2, <1>3
  DEF Next, vars, Begin, RunCheck, RunCheckThrows, Allow, Consume, Crash, Expire

\* No step but Begin changes what an evaluation is about.
LEMMA SubjectStep ==
  ASSUME TypeInv, [Next]_vars
  PROVE  \/ \A d \in Decisions : eval'[d].candidate = eval[d].candidate
         \/ /\ UNCHANGED delivered
            /\ \E d \in Decisions, e \in Candidates :
                 /\ eval[d].candidate = None
                 /\ \A x \in Decisions :
                      eval'[x].candidate = IF x = d THEN e ELSE eval[x].candidate
<1>1. ASSUME NEW d \in Decisions, NEW g \in Gates, NEW e \in Candidates,
             NEW t \in Instants, Begin(d, g, e, t)
      PROVE  /\ UNCHANGED delivered
             /\ eval[d].candidate = None
             /\ \A x \in Decisions :
                  eval'[x].candidate = IF x = d THEN e ELSE eval[x].candidate
  <2>1. eval[d] \in EvalState
    BY DEF TypeInv, TypeOK
  <2>2. eval'[d].candidate = e /\ \A x \in Decisions : x # d => eval'[x] = eval[x]
    BY <1>1, <2>1 DEF Begin, TypeInv, TypeOK, EvalState
  <2>3. QED BY <1>1, <2>2 DEF Begin, TypeInv, EvalOK
<1>2. ASSUME NEW d \in Decisions, RunCheck(d) \/ RunCheckThrows(d) \/ Allow(d)
      PROVE  \A x \in Decisions : eval'[x].candidate = eval[x].candidate
  <2>1. eval \in [Decisions -> EvalState]
    BY DEF TypeInv, TypeOK
  <2>2. CASE \E v \in {"allowed", "refused"} : Finish(d, v)
    BY <2>1, <2>2 DEF Finish, EvalState
  <2>3. CASE NextCheck(d)
    BY <2>1, <2>3 DEF NextCheck, EvalState
  <2>4. QED BY <1>2, <2>2, <2>3 DEF RunCheck, RunCheckThrows, Allow
<1>3. ASSUME NEW g \in Gates, Crash(g)
      PROVE  \A x \in Decisions : eval'[x].candidate = eval[x].candidate
  <2>1. eval \in [Decisions -> EvalState]
    BY DEF TypeInv, TypeOK
  <2>2. QED BY <1>3, <2>1 DEF Crash, EvalState
<1>4. CASE \E d \in Decisions, g \in Gates, e \in Candidates, t \in Instants :
             Begin(d, g, e, t)
  BY <1>1, <1>4
<1>5. CASE UNCHANGED eval
  BY <1>5
<1>6. QED
  BY <1>2, <1>3, <1>4, <1>5
  DEF Next, vars, StartCommit, GetMarker, Consume, SetMarker, CommitThrows, Expire

\* The ledger's instance of FiniteSets counts as the gate's does.
LEMMA SameCardinality == \A S : Ledger!Cardinality(S) = Cardinality(S)
  BY Zenon DEF Cardinality, Ledger!Cardinality

\* Delivering one more decision within the limits had room for it before.
LEMMA RoomBefore ==
  ASSUME TypeInv, GrantsBounded', UNCHANGED <<eval, mode>>, NEW d \in Decisions,
         mode.onStoreError = "closed",
         d \notin delivered, delivered' = delivered \cup {d}, Begun(d)
  PROVE  Ledger!HasRoom(d)
<1> SUFFICES ASSUME NEW i \in Checks, Key(i, d) # NoKey
             PROVE  Cardinality(Holders(i, Key(i, d))) < Limit[i]
  <2>1. \A i, k : Ledger!Holders(i, k) = Holders(i, k)
    BY DEF Ledger!Holders, Subject, Holders, Key, TypeInv, TypeOK
  <2>2. QED BY <2>1, SameCardinality DEF Ledger!HasRoom, Subject, Key, Checks
<1> DEFINE k == Key(i, d)
           H == Holders(i, k)
<1>1. k \in Keys
  BY ConstantsOK DEF Key, TypeInv, EvalOK, Begun
<1>2. IsFiniteSet(H) /\ d \notin H
  <2>1. H \subseteq Decisions
    BY DEF Holders, TypeInv, TypeOK
  <2>2. QED BY <2>1, FiniteAssumption, FS_Subset DEF Holders
<1>3. Cardinality(H \cup {d}) = Cardinality(H) + 1 /\ Cardinality(H) \in Nat
  BY <1>2, FS_AddElement, FS_CardinalityType
<1>4. Cardinality(H \cup {d}) <= Limit[i]
  <2>1. {x \in delivered' : KeyOf[i][eval'[x].candidate] = k} = H \cup {d}
    BY DEF Holders, Key
  <2>2. Cardinality({x \in delivered' : KeyOf[i][eval'[x].candidate] = k}) <= Limit[i] + 0
    BY <1>1 DEF GrantsBounded, Holders, Key, Overshoot
  <2>4. Limit[i] + 0 = Limit[i]
    BY ConstantsOK
  <2>3. QED BY <2>1, <2>2, <2>4
<1>5. Limit[i] \in Nat
  BY ConstantsOK
<1>6. QED BY <1>3, <1>4, <1>5

\* A step of a gate that fails closed is a step of the ledger or a stutter.
LEMMA LedgerStep ==
  ASSUME TypeInv, GrantsBounded', [Next]_vars, mode.onStoreError = "closed"
  PROVE  Ledger!Next \/ UNCHANGED <<Subject, delivered>>
<1>1. CASE delivered' # delivered
  <2>1. PICK d \in Decisions :
          Begun(d) /\ d \notin delivered /\ delivered' = delivered \cup {d} /\ UNCHANGED eval
    BY <1>1, DeliverStep
  <2>2. Ledger!HasRoom(d)
    BY <2>1, RoomBefore, ErrorsGrow
  <2>3. eval[d].candidate # None
    BY <2>1, NoneAssumption DEF TypeInv, EvalOK, Begun
  <2>4. Ledger!Grant(d)
    BY <2>1, <2>2, <2>3 DEF Ledger!Grant, Subject
  <2>5. QED BY <2>4 DEF Ledger!Next
<1>2. CASE /\ UNCHANGED delivered
           /\ \A d \in Decisions : eval'[d].candidate = eval[d].candidate
  BY <1>2 DEF Subject
<1>3. ASSUME UNCHANGED delivered, NEW d \in Decisions, NEW e \in Candidates,
             eval[d].candidate = None,
             \A x \in Decisions :
               eval'[x].candidate = IF x = d THEN e ELSE eval[x].candidate
      PROVE  Ledger!Issue(d, e)
  BY <1>3 DEF Ledger!Issue, Subject
<1>4. QED
  BY <1>1, <1>2, <1>3, SubjectStep DEF Ledger!Next

\* commit() over atomic increments and markers implements the abstract ledger
\* when it fails closed: every message it lets out is a Grant with room under
\* every limit.
THEOREM GateImplementsLedger == ASSUME DistinctIds PROVE Spec => ImplementsLedger
<1>1. Init => Ledger!Init
  BY DEF Init, Ledger!Init, Subject
<1>2. TypeInv /\ GrantsBounded' /\ [Next]_vars =>
        [mode.onStoreError = "closed" => Ledger!Next]_<<Subject, delivered>>
  BY LedgerStep
<1>3. Spec => []TypeInv
  BY TypeInit, TypeStep, PTL DEF Spec
<1>4. Spec => []GrantsBounded
  BY DistinctIds, LimitsHold
<1>5. QED BY <1>1, <1>2, <1>3, <1>4, PTL DEF Spec, ImplementsLedger

-----------------------------------------------------------------------------
\* A call holds no ticket of the checks it has not come to.
FreshInv ==
  \A c \in Calls : call[c].pc \in {"idle", "get", "consume"} =>
    \A i \in Checks : i >= call[c].pos => call[c].ticket[i] = 0

\* A call stays where it is among the consumers, but for its consume loop.
LEMMA PosStep ==
  ASSUME TypeInv, [Next]_vars, NEW x \in Calls
  PROVE  call'[x].pos = call[x].pos \/ Consume(x)
  BY CallMoves, StartEffect, GetEffect, SetEffect, ThrowEffect

\* Only a turn of the consume loop gives a call a ticket, that of its check.
LEMMA FreshStep ==
  ASSUME TypeInv, FreshInv, [Next]_vars
  PROVE  FreshInv'
<1>1. Frame /\ TypeInv'
  BY StepFrame, TypeStep
<1>2. ASSUME NEW c \in Calls, call'[c].pc \in {"idle", "get", "consume"},
             NEW i \in Checks, i >= call'[c].pos
      PROVE  call'[c].ticket[i] = 0
  <2>1. call[c] \in CallState /\ call'[c] \in CallState
    BY <1>1 DEF TypeInv, TypeOK
  <2>2. call[c].pc \in {"idle", "get", "consume"}
    BY <1>1, <1>2, <2>1 DEF Frame, Settled, CallState
  <2>3. CASE Consume(c)
    <3>1. call'[c].pos = call[c].pos + 1 /\ call[c].pos \in Checks
      BY <2>3, ConsumeEffect
    <3>2. i > call[c].pos
      BY <1>2, <3>1 DEF Checks
    <3>3. call'[c].ticket[i] = call[c].ticket[i]
      <4>1. \/ call'[c].ticket = call[c].ticket
            \/ \E n : call'[c].ticket = [call[c].ticket EXCEPT ![call[c].pos] = n]
        BY <2>3, ConsumeEffect
      <4>2. call[c].ticket \in [Checks -> Nat] /\ i # call[c].pos
        BY <2>1, <3>1, <3>2 DEF CallState, Checks
      <4>3. QED BY <4>1, <4>2
    <3>4. QED BY <2>2, <3>1, <3>2, <3>3 DEF FreshInv, Checks
  <2>4. CASE ~Consume(c)
    <3>1. call'[c].pos = call[c].pos
      BY <2>4, PosStep
    <3>2. call'[c].ticket = call[c].ticket
      BY <1>1, <2>4 DEF Frame
    <3>3. QED BY <1>2, <2>2, <3>1, <3>2 DEF FreshInv
  <2>5. QED BY <2>3, <2>4
<1>3. QED BY <1>2 DEF FreshInv

-----------------------------------------------------------------------------
\* A consume loop that ends with "0" has taken a counter above its limit.
LEMMA ConsumeRefuses ==
  ASSUME TypeInv, NEW c \in Calls, Consume(c), call'[c].pc = "set", call'[c].result = "0"
  PROVE  /\ call[c].pos \in Checks
         /\ CallKey(call[c].pos, c) \in Keys
         /\ counter'[CallKey(call[c].pos, c)] > Limit[call[c].pos]
<1> DEFINE i == call[c].pos
           k == CallKey(i, c)
<1>1. i \in Checks /\ call[c].pc = "consume" /\ call[c] \in CallState
  BY ConsumeEffect DEF TypeInv, TypeOK
<1>2. CASE k = NoKey
  <2>1. call' = [call EXCEPT ![c] =
                  [@ EXCEPT !.pos = i + 1,
                            !.result = IF i = NumChecks THEN "1" ELSE "0",
                            !.pc = IF i = NumChecks THEN "set" ELSE "consume"]]
    BY <1>2 DEF Consume, CallKey
  <2>2. QED BY <1>1, <2>1 DEF TypeInv, TypeOK, CallState
<1>3. CASE k # NoKey
  <2>1. k \in Keys /\ counter' = [counter EXCEPT ![k] = @ + 1]
    BY <1>3, ConsumeEffect DEF CallKey
  <2>2. call' = [call EXCEPT ![c] =
                  [@ EXCEPT !.pos = i + 1,
                            !.ticket[i] = counter[k] + 1,
                            !.result = IF i = NumChecks /\ Within(i, counter[k] + 1)
                                       THEN "1" ELSE "0",
                            !.pc = IF LoopEnds(i, counter[k] + 1) THEN "set" ELSE "consume"]]
    BY <1>3 DEF Consume, CallKey
  <2>3. LoopEnds(i, counter[k] + 1) /\ ~(i = NumChecks /\ Within(i, counter[k] + 1))
    <3>1. /\ call'[c].pc = IF LoopEnds(i, counter[k] + 1) THEN "set" ELSE "consume"
          /\ call'[c].result = IF i = NumChecks /\ Within(i, counter[k] + 1) THEN "1" ELSE "0"
      BY <1>1, <2>2 DEF TypeInv, TypeOK, CallState
    <3>2. QED BY <3>1
  <2>4. ~Within(i, counter[k] + 1)
    BY <2>3 DEF LoopEnds
  <2>5. counter'[k] = counter[k] + 1 /\ counter[k] \in Nat /\ Limit[i] \in Nat
    BY <1>1, <2>1, ConstantsOK DEF TypeInv, TypeOK
  <2>6. QED BY <1>1, <2>1, <2>4, <2>5 DEF Within
<1>4. QED BY <1>2, <1>3

\* What the theorem on refusals assumes: with a check in shadow mode commit()
\* also refuses what only that check is out of.
NoShadow == Shadow = {}

\* Some check has its counter for the candidate above the limit.
Exhausted(e) == \E i \in Checks : KeyOf[i][e] \in Keys /\ counter[KeyOf[i][e]] > Limit[i]

\* While nothing threw, every "0" there is, about to be written, written or
\* answered, stands for an exhausted counter.
CauseInv ==
  errors = 0 =>
    /\ \A c \in Calls :
         /\ call[c].result = "0"
         /\ \/ call[c].pc = "set"
            \/ call[c].pc = "returned" /\ eval[call[c].of].pc = "allowed"
         => Exhausted(eval[call[c].of].candidate)
    /\ \A id \in Ids : marker[id] = "0" => Exhausted(id[1])

\* A counter above its limit stays there.
LEMMA ExhaustedStays ==
  ASSUME TypeInv, TypeInv', Frame, NEW e \in Candidates, Exhausted(e)
  PROVE  Exhausted(e)'
<1>1. PICK i \in Checks : KeyOf[i][e] \in Keys /\ counter[KeyOf[i][e]] > Limit[i]
  BY DEF Exhausted
<1>2. /\ counter[KeyOf[i][e]] <= counter'[KeyOf[i][e]] /\ Limit[i] \in Nat
      /\ counter[KeyOf[i][e]] \in Nat /\ counter'[KeyOf[i][e]] \in Nat
  BY <1>1, ConstantsOK DEF Frame, TypeInv, TypeOK
<1>3. QED BY <1>1, <1>2 DEF Exhausted

\* A refusing consume loop exhausted a counter; its result is what the marker
\* and every later call say.
LEMMA CauseStep ==
  ASSUME TypeInv, CauseInv, [Next]_vars
  PROVE  CauseInv'
<1>1. Frame /\ TypeInv'
  BY StepFrame, TypeStep
<1> SUFFICES ASSUME errors' = 0 PROVE CauseInv'
  BY DEF CauseInv
<1>2. errors = 0
  BY ErrorsGrow
<1>3. \A c \in Calls : ~CommitThrows(c)
  BY <1>2, ThrowEffect
<1>4. ASSUME NEW c \in Calls, call'[c].result = "0",
             \/ call'[c].pc = "set"
             \/ call'[c].pc = "returned" /\ eval'[call'[c].of].pc = "allowed"
      PROVE  Exhausted(eval[call[c].of].candidate)'
  <2>1. /\ call'[c].of \in Decisions
        /\ Evaluated(call[c].of)'
        /\ eval'[call'[c].of].candidate \in Candidates
    BY <1>1, <1>4 DEF TypeInv, CallOK, OneCallOK, EvalOK, Evaluated
  <2>2. call[c].pc # "idle" => /\ call'[c].of = call[c].of
                               /\ eval'[call[c].of] = eval[call[c].of]
    BY <1>1 DEF Frame, TypeInv, CallOK, OneCallOK
  <2>3. CASE call'[c] = call[c]
    <3>1. call[c].pc # "idle"
      BY <1>4, <2>3
    <3>2. Exhausted(eval[call[c].of].candidate)
      BY <1>2, <1>4, <2>2, <2>3, <3>1 DEF CauseInv
    <3>3. QED BY <1>1, <2>1, <2>2, <3>1, <3>2, ExhaustedStays
  <2>4. ASSUME NEW d \in Decisions, NEW g \in Gates, StartCommit(c, d, g)
        PROVE  FALSE
    BY <1>4, <2>4, StartEffect
  <2>5. CASE GetMarker(c)
    <3>1. /\ marker[CallId(c)] = "0" /\ CallId(c) \in Ids /\ call[c].pc = "get"
      BY <1>4, <2>5, GetEffect
    <3>2. Exhausted(eval[call[c].of].candidate)
      BY <1>2, <3>1 DEF CauseInv, CallId, Id
    <3>3. QED BY <1>1, <2>1, <2>2, <3>1, <3>2, ExhaustedStays
  <2>6. CASE Consume(c)
    <3>1. /\ call'[c].pc = "set" /\ call[c].pc = "consume"
      BY <1>4, <2>6, ConsumeEffect
    <3>2. /\ call[c].pos \in Checks
          /\ CallKey(call[c].pos, c) \in Keys
          /\ counter'[CallKey(call[c].pos, c)] > Limit[call[c].pos]
      BY <1>4, <2>6, <3>1, ConsumeRefuses
    <3>3. QED BY <2>2, <3>1, <3>2 DEF Exhausted, CallKey, Key
  <2>7. CASE SetMarker(c)
    <3>1. call[c].pc = "set" /\ call[c].result = "0"
      BY <1>4, <2>7, SetEffect
    <3>2. Exhausted(eval[call[c].of].candidate)
      BY <1>2, <3>1 DEF CauseInv
    <3>3. QED BY <1>1, <2>1, <2>2, <3>1, <3>2, ExhaustedStays
  <2>8. CASE call'[c].pc = "lost"
    BY <1>4, <2>8
  <2>9. QED BY <1>3, <2>3, <2>4, <2>5, <2>6, <2>7, <2>8, CallMoves
<1>5. ASSUME NEW id \in Ids, marker'[id] = "0"
      PROVE  Exhausted(id[1])'
  <2>1. id[1] \in Candidates
    BY DEF Ids
  <2>2. CASE marker[id] = "0"
    BY <1>1, <1>2, <2>1, <2>2, ExhaustedStays DEF CauseInv
  <2>3. CASE marker[id] # "0"
    <3>0. \A x \in Ids : ~Expire(x)
      BY <1>5, <2>3 DEF Expire, TypeInv, TypeOK
    <3>1. PICK c \in Calls : SetMarker(c)
      BY <1>3, <1>5, <2>3, <3>0, MarkerMoves
    <3>2. CallId(c) = id /\ call[c].result = "0" /\ call[c].pc = "set"
      BY <1>5, <2>3, <3>1, SetEffect DEF TypeInv, TypeOK
    <3>3. Exhausted(id[1])
      BY <1>2, <3>2 DEF CauseInv, CallId, Id
    <3>4. QED BY <1>1, <2>1, <3>3, ExhaustedStays
  <2>4. QED BY <2>2, <2>3
<1>6. QED BY <1>4, <1>5 DEF CauseInv

\* While no store call throws, and with no check in shadow mode, commit() refuses
\* an allowed decision only when one of its counters is above the limit: never
\* because of another call's marker, a crash or a lost answer.
THEOREM RefusalsHaveACause == ASSUME NoShadow PROVE Spec => []RefusedForCause
<1>1. Init => CauseInv
  BY DEF Init, CauseInv
<1>2. TypeInv /\ CauseInv /\ [Next]_vars => CauseInv'
  BY CauseStep
<1>3. TypeInv /\ CauseInv => RefusedForCause
  <2> SUFFICES ASSUME TypeInv, CauseInv, NEW c \in Calls, errors = 0,
                      call[c].pc = "returned", call[c].result = "0",
                      eval[call[c].of].pc = "allowed"
               PROVE  \E i \in Checks \ Shadow :
                        Key(i, call[c].of) # NoKey /\ counter[Key(i, call[c].of)] > Limit[i]
    BY DEF RefusedForCause
  <2>1. Exhausted(eval[call[c].of].candidate)
    BY DEF CauseInv
  <2>2. QED BY <2>1, ConstantsOK DEF NoShadow, Exhausted, Key
<1>4. QED BY <1>1, <1>2, <1>3, TypeInit, TypeStep, NoShadow, PTL DEF Spec

-----------------------------------------------------------------------------
\* Patient callers have one call of a decision in flight at a time, and while
\* that call consumes or is about to write, the decision has no marker.
OneAtATime ==
  \A b, c \in Calls :
    b # c /\ InFlight(b) /\ InFlight(c) => call[b].of # call[c].of
Unmarked == \A c \in Calls : call[c].pc \in {"consume", "set"} => marker[CallId(c)] = "none"

PatientInv == mode.callers = "patient" => OneAtATime /\ Unmarked

\* A call that answered without the consume loop says what the decision was, and
\* only calls of allowed decisions hold tickets.
AnswerInv ==
  \A c \in Calls :
    /\ call[c].pc = "set" => NumChecks > 0
    /\ call[c].pc = "returned" /\ eval[call[c].of].pc = "refused" => call[c].result = "0"
    /\ call[c].pc = "returned" /\ eval[call[c].of].pc = "allowed" /\ NumChecks = 0
         => call[c].result = "1"
    /\ \A i \in Checks : call[c].ticket[i] > 0 => eval[call[c].of].pc = "allowed"

\* The answer of a call of an allowed decision is its marker, while that lives.
Recorded ==
  \A c \in Calls :
    /\ call[c].pc = "returned" /\ eval[call[c].of].pc = "allowed" /\ NumChecks > 0
    /\ CallId(c) \notin expired
    => marker[CallId(c)] = call[c].result

RecordInv == Orderly => Recorded /\ OneSpendPerDecision

\* The inductive invariant behind OneSpendForPatient and FirstResultStays.
RetryInv == TypeInv /\ UniqueInv /\ TicketInv /\ AnswerInv /\ PatientInv /\ RecordInv

-----------------------------------------------------------------------------
\* A call that is under way keeps its decision, and the decision its record.
LEMMA OfStable ==
  ASSUME TypeInv, Frame, NEW c \in Calls, call[c].pc # "idle"
  PROVE  /\ call[c].of \in Decisions /\ call'[c].of = call[c].of
         /\ eval'[call[c].of] = eval[call[c].of]
         /\ CallId(c)' = CallId(c) /\ CallId(c) \in Ids
<1>1. call[c].of \in Decisions /\ Evaluated(call[c].of)
  BY DEF TypeInv, CallOK, OneCallOK
<1>2. /\ call'[c].of = call[c].of
      /\ eval'[call[c].of] = eval[call[c].of]
  BY <1>1 DEF Frame
<1>3. QED BY <1>1, <1>2, MarkerType DEF CallId, Id

\* Only StartCommit brings a call in flight, and then no other of the decision is.
LEMMA OneAtATimeStep ==
  ASSUME TypeInv, mode.callers = "patient", OneAtATime, [Next]_vars
  PROVE  OneAtATime'
<1>1. Frame
  BY StepFrame
<1>2. ASSUME NEW c \in Calls, InFlight(c)'
      PROVE  InFlight(c) \/ \E d \in Decisions, g \in Gates : StartCommit(c, d, g)
  BY <1>2, CallMoves, GetEffect, ConsumeEffect, SetEffect, ThrowEffect DEF InFlight
<1>3. ASSUME NEW b \in Calls, NEW c \in Calls, b # c, InFlight(b)', InFlight(c)',
             call'[b].of = call'[c].of, NEW d \in Decisions, NEW g \in Gates,
             StartCommit(b, d, g)
      PROVE  FALSE
  <2>1. call'[c] = call[c] /\ call'[b].of = d
    BY <1>3, StartEffect
  <2>2. InFlight(c) /\ call[c].of = d
    BY <1>3, <2>1 DEF InFlight
  <2>3. QED BY <1>3, <2>2 DEF StartCommit
<1>4. ASSUME NEW b \in Calls, NEW c \in Calls, b # c, InFlight(b), InFlight(c),
             call'[b].of = call'[c].of
      PROVE  FALSE
  BY <1>1, <1>4 DEF Frame, OneAtATime, InFlight
<1>5. QED BY <1>2, <1>3, <1>4 DEF OneAtATime

\* A marker is written by the call that found none, the only one of its decision,
\* or it runs out.
LEMMA MarkerWriter ==
  ASSUME TypeInv, PatientInv, mode.callers = "patient", [Next]_vars, NEW id \in Ids,
         marker'[id] # marker[id]
  PROVE  \/ marker'[id] = "none" /\ id \in expired'
         \/ /\ marker[id] = "none"
            /\ \E c \in Calls : /\ SetMarker(c) \/ CommitThrows(c)
                                /\ call[c].pc = "set" /\ CallId(c) = id
                                /\ marker'[id] = call[c].result
<1>6. ASSUME NEW x \in Ids, Expire(x)
      PROVE  marker'[id] = "none" /\ id \in expired'
  BY <1>6 DEF Expire, TypeInv, TypeOK
<1> SUFFICES ASSUME \A x \in Ids : ~Expire(x)
             PROVE  /\ marker[id] = "none"
                    /\ \E c \in Calls : /\ SetMarker(c) \/ CommitThrows(c)
                                        /\ call[c].pc = "set" /\ CallId(c) = id
                                        /\ marker'[id] = call[c].result
  BY <1>6
<1>1. PICK c \in Calls : SetMarker(c) \/ CommitThrows(c)
  BY MarkerMoves
<1>2. /\ call[c].pc = "set" /\ CallId(c) \in Ids
      /\ marker' = [marker EXCEPT ![CallId(c)] = call[c].result]
  BY <1>1, SetEffect, ThrowEffect DEF storeVars
<1>3. CallId(c) = id /\ marker'[id] = call[c].result
  BY <1>2 DEF TypeInv, TypeOK
<1>4. marker[id] = "none"
  BY <1>2, <1>3 DEF PatientInv, Unmarked
<1>5. QED BY <1>1, <1>2, <1>3, <1>4

\* Patient callers: the call that consumes is alone with its decision's marker.
LEMMA PatientStep ==
  ASSUME TypeInv, UniqueInv, PatientInv, [Next]_vars
  PROVE  PatientInv'
<1> SUFFICES ASSUME mode.callers = "patient" PROVE OneAtATime' /\ Unmarked'
  BY ErrorsGrow DEF PatientInv
<1>1. Frame
  BY StepFrame
<1>2. OneAtATime /\ Unmarked /\ OneAtATime'
  BY OneAtATimeStep DEF PatientInv
<1>3. ASSUME NEW c \in Calls, call'[c].pc \in {"consume", "set"}
      PROVE  marker'[CallId(c)'] = "none"
  <2>1. /\ call[c].pc \in {"get", "consume", "set"}
        /\ marker[CallId(c)] = "none"
    BY <1>2, <1>3, CallMoves, StartEffect, GetEffect, ConsumeEffect, SetEffect, ThrowEffect
    DEF Unmarked
  <2>2. CallId(c)' = CallId(c) /\ CallId(c) \in Ids /\ call[c].of \in Decisions
        /\ Evaluated(call[c].of)
    BY <1>1, <2>1, OfStable DEF TypeInv, CallOK, OneCallOK
  <2>3. ASSUME marker'[CallId(c)] # "none" PROVE FALSE
    <3>1. PICK b \in Calls : /\ SetMarker(b) \/ CommitThrows(b)
                             /\ call[b].pc = "set" /\ CallId(b) = CallId(c)
      BY <2>1, <2>2, <2>3, MarkerWriter
    <3>2. b # c
      BY <1>3, <3>1, SetEffect, ThrowEffect
    <3>3. call[b].of \in Decisions /\ Evaluated(call[b].of)
      BY <3>1 DEF TypeInv, CallOK, OneCallOK
    <3>4. call[b].of = call[c].of
      BY <2>2, <3>1, <3>3, IdUnique DEF CallId
    <3>5. QED BY <1>2, <2>1, <3>1, <3>2, <3>4 DEF OneAtATime, InFlight
  <2>4. QED BY <2>1, <2>2, <2>3
<1>4. QED BY <1>2, <1>3 DEF Unmarked

\* What a call answers at once is the verdict of its decision.
LEMMA AnswerStep ==
  ASSUME TypeInv, TicketInv, AnswerInv, [Next]_vars
  PROVE  AnswerInv'
<1>1. Frame /\ TypeInv'
  BY StepFrame, TypeStep
<1> SUFFICES ASSUME NEW c \in Calls
    PROVE /\ call'[c].pc = "set" => NumChecks > 0
          /\ call'[c].pc = "returned" /\ eval'[call'[c].of].pc = "refused" => call'[c].result = "0"
          /\ call'[c].pc = "returned" /\ eval'[call'[c].of].pc = "allowed" /\ NumChecks = 0
               => call'[c].result = "1"
          /\ \A i \in Checks : call'[c].ticket[i] > 0 => eval'[call'[c].of].pc = "allowed"
  BY DEF AnswerInv
<1>3. CASE call[c].pc = "idle" /\ call'[c] = call[c]
  BY <1>3 DEF TicketInv
<1>4. CASE call[c].pc # "idle"
  <2>1. call'[c].of = call[c].of /\ eval'[call[c].of] = eval[call[c].of]
    BY <1>1, <1>4, OfStable
  <2>2. InFlight(c) => eval[call[c].of].pc = "allowed"
    BY DEF TypeInv, CallOK, OneCallOK
  <2>3. CASE call'[c] = call[c]
    BY <2>1, <2>3 DEF AnswerInv
  <2>4. CASE InFlight(c)
    <3>1. call[c].pc = "get" => NumChecks > 0
      BY DEF TypeInv, CallOK, OneCallOK
    <3>2. call[c].pc = "consume" => NumChecks > 0
      BY ConstantsOK DEF TypeInv, CallOK, OneCallOK, Checks
    <3>3. NumChecks > 0
      BY <2>4, <3>1, <3>2 DEF AnswerInv, InFlight
    <3>4. QED BY <2>1, <2>2, <2>4, <3>3
  <2>5. call'[c] = call[c] \/ InFlight(c)
    BY <1>4, CallMoves, StartEffect, GetEffect, ConsumeEffect, SetEffect DEF InFlight, CommitThrows
  <2>6. QED BY <2>3, <2>4, <2>5
<1>5. ASSUME NEW d \in Decisions, NEW g \in Gates, StartCommit(c, d, g)
      PROVE /\ call'[c].pc = "set" => NumChecks > 0
            /\ call'[c].pc = "returned" /\ eval'[call'[c].of].pc = "refused" => call'[c].result = "0"
            /\ call'[c].pc = "returned" /\ eval'[call'[c].of].pc = "allowed" /\ NumChecks = 0
                 => call'[c].result = "1"
            /\ \A i \in Checks : call'[c].ticket[i] > 0 => eval'[call'[c].of].pc = "allowed"
  BY <1>5, StartEffect DEF TicketInv
<1>6. QED
  BY <1>3, <1>4, <1>5, CallMoves, GetEffect, ConsumeEffect, SetEffect, ThrowEffect
  DEF InFlight

\* The first answer is recorded, and no later call of the decision consumes.
LEMMA RecordStep ==
  ASSUME RetryInv, [Next]_vars
  PROVE  RecordInv'
<1> USE DEF RetryInv
<1>1. Frame /\ TypeInv'
  BY StepFrame, TypeStep
<1> SUFFICES ASSUME Orderly' PROVE Recorded' /\ OneSpendPerDecision'
  BY DEF RecordInv
<1>2. mode.callers = "patient" /\ errors = 0 /\ errors' = 0
  BY ErrorsGrow DEF Orderly
<1>3. OneAtATime /\ Unmarked /\ Recorded /\ OneSpendPerDecision
  BY <1>2 DEF PatientInv, RecordInv, Orderly
<1>4. \A c \in Calls : ~CommitThrows(c)
  BY <1>2, ThrowEffect
<1>5. \A id \in Ids : marker[id] # "none" /\ id \notin expired' => marker'[id] = marker[id]
  BY <1>2, MarkerWriter
<1>11. expired \subseteq expired'
  BY MarkerMoves DEF Expire
<1>6. ASSUME NEW c \in Calls, call'[c].pc = "returned", eval'[call'[c].of].pc = "allowed",
             NumChecks > 0, CallId(c)' \notin expired'
      PROVE  marker'[CallId(c)'] = call'[c].result
  <2>1. \A d \in Decisions, g \in Gates : ~StartCommit(c, d, g)
    BY <1>6, StartEffect
  <2>2. call[c].pc # "idle"
    BY <1>4, <1>6, <2>1, CallMoves, GetEffect, ConsumeEffect, SetEffect DEF InFlight
  <2>3. /\ call'[c].of = call[c].of /\ eval'[call[c].of] = eval[call[c].of]
        /\ CallId(c)' = CallId(c) /\ CallId(c) \in Ids
    BY <1>1, <2>2, OfStable
  <2>4. CASE call'[c] = call[c]
    <3>1. marker[CallId(c)] = call[c].result /\ call[c].result # "none"
      BY <1>3, <1>6, <1>11, <2>3, <2>4 DEF Recorded, TypeInv, TypeOK, CallState
    <3>2. QED BY <1>5, <1>6, <2>3, <2>4, <3>1
  <2>5. CASE GetMarker(c)
    BY <1>5, <1>6, <2>3, <2>5, GetEffect
  <2>6. CASE SetMarker(c)
    BY <2>3, <2>6, SetEffect DEF TypeInv, TypeOK
  <2>7. QED BY <1>4, <1>6, <2>1, <2>4, <2>5, <2>6, CallMoves, ConsumeEffect
<1>7. ASSUME NEW b \in Calls, NEW c \in Calls, NEW i \in Checks, b # c,
             call'[b].of = call'[c].of, call'[b].pc # "lost", call'[c].pc # "lost",
             call'[b].ticket[i] > 0, call'[c].ticket[i] > 0, Consume(b),
             CallId(b)' \notin expired'
      PROVE  FALSE
  <2>1. call'[c] = call[c] /\ call'[b].of = call[b].of /\ call[b].pc = "consume"
    BY <1>7, ConsumeEffect
  <2>2. call[c].pc # "idle" /\ eval[call[c].of].pc = "allowed"
    BY <1>7, <2>1 DEF TicketInv, AnswerInv
  <2>3. ~InFlight(c)
    BY <1>3, <1>7, <2>1 DEF OneAtATime, InFlight
  <2>4. call[c].pc = "returned"
    BY <1>7, <2>1, <2>2, <2>3 DEF InFlight, TypeInv, TypeOK, CallState
  <2>5. NumChecks > 0
    BY ConstantsOK DEF Checks
  <2>9. CallId(c) \notin expired
    <3>1. CallId(c)' = CallId(c)
      BY <1>1, <2>2, OfStable
    <3>2. CallId(b)' = CallId(c)'
      BY <1>7 DEF CallId, Id
    <3>3. QED BY <1>7, <1>11, <3>1, <3>2
  <2>6. marker[CallId(c)] = call[c].result /\ call[c].result # "none"
    BY <1>3, <2>2, <2>4, <2>5, <2>9 DEF Recorded, TypeInv, TypeOK, CallState
  <2>7. CallId(b) = CallId(c)
    BY <1>7, <2>1 DEF CallId
  <2>8. QED BY <1>3, <2>1, <2>6, <2>7 DEF Unmarked
<1>8. ASSUME NEW b \in Calls, NEW c \in Calls, NEW i \in Checks, b # c,
             call'[b].of = call'[c].of, call'[b].pc # "lost", call'[c].pc # "lost",
             call'[b].ticket[i] > 0, call'[c].ticket[i] > 0, ~Consume(b), ~Consume(c),
             CallId(b)' \notin expired'
      PROVE  FALSE
  <2>1. call'[b].ticket = call[b].ticket /\ call'[c].ticket = call[c].ticket
    BY <1>1, <1>8 DEF Frame
  <2>2. call[b].pc # "idle" /\ call[c].pc # "idle"
    BY <1>8, <2>1 DEF TicketInv
  <2>3. call'[b].of = call[b].of /\ call'[c].of = call[c].of
    BY <1>1, <2>2 DEF Frame
  <2>4. call[b].pc # "lost" /\ call[c].pc # "lost"
    BY <1>4, <1>8, CallMoves, StartEffect, GetEffect, SetEffect DEF InFlight
  <2>7. Id(call[b].of) \notin expired
    <3>1. CallId(b)' = CallId(b)
      BY <1>1, <2>2, OfStable
    <3>2. QED BY <1>8, <1>11, <3>1 DEF CallId
  <2>5. call[c].ticket[i] = 0
    BY <1>3, <1>8, <2>1, <2>3, <2>4, <2>7 DEF OneSpendPerDecision
  <2>6. QED BY <1>8, <2>1, <2>5
<1>9. ASSUME NEW b \in Calls, NEW c \in Calls, NEW i \in Checks, b # c,
             call'[b].of = call'[c].of, call'[b].pc # "lost", call'[c].pc # "lost",
             call'[b].ticket[i] > 0, CallId(b)' \notin expired'
      PROVE  call'[c].ticket[i] = 0
  <2>1. call'[c].ticket[i] \in Nat
    BY <1>1 DEF TypeInv, TypeOK, CallState
  <2>2. CallId(c)' \notin expired'
    BY <1>9 DEF CallId, Id
  <2>3. ~(call'[c].ticket[i] > 0)
    BY <1>7, <1>8, <1>9, <2>2
  <2>4. QED BY <2>1, <2>3
<1>10. QED BY <1>6, <1>9 DEF Recorded, OneSpendPerDecision, CallId

\* The invariant holds at first, and every step keeps it.
LEMMA RetryInit == Init => RetryInv
  BY GrantInit
  DEF GrantInv, Init, RetryInv, AnswerInv, PatientInv, OneAtATime, Unmarked, InFlight,
      RecordInv, Recorded, OneSpendPerDecision

\* Every step keeps what a caller that retries relies on.
LEMMA RetryStep == DistinctIds /\ RetryInv /\ [Next]_vars => RetryInv'
  BY TypeStep, UniqueStep, TicketStep, AnswerStep, PatientStep, RecordStep DEF RetryInv

\* For callers who wait: all the calls for a decision that answer give its first
\* result, and at most one of those no crash cut short spends.
LEMMA RetrySpends == RetryInv => OneSpendForPatient
<1> SUFFICES ASSUME RetryInv, Orderly,
                    NEW b \in Calls, NEW c \in Calls, call[b].of = call[c].of,
                    call[b].pc = "returned", call[c].pc = "returned",
                    Id(call[b].of) \notin expired
             PROVE  call[b].result = call[c].result
  BY DEF OneSpendForPatient, RetryInv, RecordInv
<1> USE DEF RetryInv
<1>1. /\ call[b].of \in Decisions /\ Evaluated(call[b].of)
      /\ errors = 0
  BY DEF TypeInv, CallOK, OneCallOK, Orderly
<1>2. CASE eval[call[b].of].pc = "refused"
  BY <1>2 DEF AnswerInv
<1>3. CASE eval[call[b].of].pc = "allowed" /\ NumChecks = 0
  BY <1>1, <1>3 DEF AnswerInv
<1>4. CASE eval[call[b].of].pc = "allowed" /\ NumChecks > 0
  BY <1>4 DEF RecordInv, Recorded, CallId
<1>5. QED BY <1>1, <1>2, <1>3, <1>4, ConstantsOK DEF Evaluated

\* Callers who wait for an answer before they retry, through crashes and at other
\* gates: while the decision's marker lives it spends once, and every answer is the
\* first one.
THEOREM PatientCallersSpendOnce == ASSUME DistinctIds PROVE Spec => []OneSpendForPatient
<1>1. RetryInv /\ [Next]_vars => RetryInv'
  BY DistinctIds, RetryStep
<1>2. QED BY <1>1, RetryInit, RetrySpends, PTL DEF Spec

\* A marker once written keeps its value until it runs out, also when store calls
\* throw.
THEOREM MarkersStay == ASSUME DistinctIds PROVE Spec => FirstResultStays
<1>1. RetryInv /\ [Next]_vars => RetryInv'
  BY DistinctIds, RetryStep
<1>2. RetryInv /\ [Next]_vars =>
        [mode.callers = "patient" =>
           \A id \in Ids : marker[id] # "none" =>
             \/ marker'[id] = marker[id]
             \/ marker'[id] = "none" /\ id \in expired']_vars
  BY MarkerWriter DEF RetryInv
<1>3. QED BY <1>1, <1>2, RetryInit, PTL DEF Spec, FirstResultStays

-----------------------------------------------------------------------------
\* Check i spends, under a key, whatever candidate later checks count under key k.
Guards(i, k) ==
  /\ Counting(k) # {} /\ \A j \in Counting(k) : i < j
  /\ NoKey \notin Earlier(i, k)

\* The calls that came through check i and on to key k, each with the check it counts
\* under there: past that check, or ended there by a throw that may have taken effect.
Tried(i, k) ==
  {u \in Calls \X Checks :
     /\ call[u[1]].pc # "idle" /\ CallKey(u[2], u[1]) = k
     /\ call[u[1]].pos > u[2] \/ (call[u[1]].pos = u[2] /\ call[u[1]].pc = "returned")
     /\ call[u[1]].ticket[i] \in 1..Limit[i]}

\* What key k ever spent, calls that check i let through spent.
TriedInv ==
  \A i \in Checks, k \in Keys : Guards(i, k) => counter[k] <= Cardinality(Tried(i, k))

\* The inductive invariant behind DuplicatesSpendNothing.
SpendInv == TypeInv /\ TicketInv /\ LoopInv /\ TriedInv

-----------------------------------------------------------------------------
\* Finitely many candidates have finitely many keys, and the checks are finite.
LEMMA EarlierFinite ==
  ASSUME IsFiniteSet(Candidates), NEW i \in Checks, NEW k \in Keys
  PROVE  /\ IsFiniteSet(Earlier(i, k)) /\ Cardinality(Earlier(i, k)) \in Nat
         /\ IsFiniteSet(Counting(k)) /\ Cardinality(Counting(k)) \in Nat
<1> DEFINE C == {x \in Candidates : \E j \in Checks : KeyOf[j][x] = k}
           f == [e \in C |-> KeyOf[i][e]]
<1>1. IsFiniteSet(C)
  BY FS_Subset
<1>2. f \in Surjection(C, Earlier(i, k))
  BY DEF Surjection, Earlier
<1>3. IsFiniteSet(Earlier(i, k))
  BY <1>1, <1>2, FS_Surjection
<1>4. IsFiniteSet(Counting(k))
  <2>1. IsFiniteSet(Checks)
    BY ConstantsOK, FS_Interval DEF Checks
  <2>2. QED BY <2>1, FS_Subset DEF Counting
<1>5. QED BY <1>3, <1>4, FS_CardinalityType

\* The calls check i let through are as many as its tickets under the earlier keys,
\* each once for every check that counts it.
LEMMA TriedBound ==
  ASSUME TypeInv, TicketInv, IsFiniteSet(Candidates),
         NEW i \in Checks, NEW k \in Keys, Guards(i, k)
  PROVE  /\ IsFiniteSet(Tried(i, k))
         /\ Cardinality(Tried(i, k))
              <= Limit[i] * Cardinality(Earlier(i, k)) * Cardinality(Counting(k))
<1> DEFINE S == Tried(i, k)
           E == Earlier(i, k)
           U == Counting(k)
           L == 1..Limit[i]
           f == [u \in S |-> <<CallKey(i, u[1]), call[u[1]].ticket[i], u[2]>>]
<1>1. Limit[i] \in Nat /\ i \in Nat
  BY ConstantsOK DEF Checks
<1>2. IsFiniteSet(E) /\ Cardinality(E) \in Nat /\ IsFiniteSet(U) /\ Cardinality(U) \in Nat
  BY EarlierFinite
<1>3. IsFiniteSet(L) /\ Cardinality(L) = Limit[i]
  <2>1. \A n \in Nat : IsFiniteSet(1..n) /\ Cardinality(1..n) = n
    BY FS_Interval
  <2>2. QED BY <1>1, <2>1
<1>5. ASSUME NEW u \in S
      PROVE  /\ u[1] \in Calls /\ u[2] \in U /\ u = <<u[1], u[2]>>
             /\ CallKey(i, u[1]) \in E
             /\ CallKey(i, u[1]) \in Keys /\ call[u[1]].ticket[i] \in L
  <2>1. /\ u[1] \in Calls /\ u[2] \in Checks /\ u = <<u[1], u[2]>>
        /\ call[u[1]].pc # "idle" /\ CallKey(u[2], u[1]) = k
        /\ call[u[1]].ticket[i] \in L
    BY DEF Tried
  <2>2. eval[call[u[1]].of].candidate \in Candidates
    BY <2>1 DEF TypeInv, CallOK, OneCallOK, EvalOK, Evaluated
  <2>3. CallKey(i, u[1]) \in E /\ u[2] \in U
    BY <2>1, <2>2 DEF Earlier, Counting, CallKey, Key
  <2>4. call[u[1]].ticket[i] > 0
    BY <1>1, <2>1
  <2>5. QED BY <2>1, <2>3, <2>4 DEF TicketInv
<1>6. ASSUME NEW u \in S, NEW v \in S, f[u] = f[v]
      PROVE  u = v
  <2>1. /\ CallKey(i, u[1]) = CallKey(i, v[1])
        /\ call[u[1]].ticket[i] = call[v[1]].ticket[i] /\ u[2] = v[2]
    BY <1>6
  <2>2. call[u[1]].ticket[i] > 0 /\ call[v[1]].ticket[i] > 0
    BY <1>1, <1>5
  <2>3. u[1] = v[1]
    BY <1>5, <2>1, <2>2 DEF TicketInv
  <2>4. QED BY <1>5, <2>1, <2>3
<1> DEFINE T == E \X L \X U
<1>7. f \in Injection(S, T)
  <2>1. f \in [S -> T]
    BY <1>5
  <2> HIDE DEF f, S, T
  <2>2. QED BY <1>6, <2>1 DEF Injection, IsInjective
<1>4. IsFiniteSet(T) /\ Cardinality(T) = Limit[i] * Cardinality(E) * Cardinality(U)
  <2> DEFINE P == (E \X L) \X U
             g == [q \in P |-> <<q[1][1], q[1][2], q[2]>>]
  <2>1. /\ IsFiniteSet(E \X L) /\ Cardinality(E \X L) = Cardinality(E) * Limit[i]
    BY <1>2, <1>3, FS_Product
  <2>2. IsFiniteSet(P) /\ Cardinality(P) = (Cardinality(E) * Limit[i]) * Cardinality(U)
    BY <1>2, <2>1, FS_Product
  <2>3. g \in Bijection(P, T)
    <3>1. g \in [P -> T]
      OBVIOUS
    <3>2. \A q, r \in P : g[q] = g[r] => q = r
      OBVIOUS
    <3>3. \A t \in T : \E q \in P : g[q] = t
      <4>1. ASSUME NEW t \in T PROVE \E q \in P : g[q] = t
        <5>1. <<<<t[1], t[2]>>, t[3]>> \in P /\ g[<<<<t[1], t[2]>>, t[3]>>] = t
          OBVIOUS
        <5>2. QED BY <5>1
      <4>2. QED BY <4>1
    <3> HIDE DEF g, T, P
    <3>4. QED BY <3>1, <3>2, <3>3 DEF Bijection, Injection, Surjection, IsInjective
  <2> HIDE DEF g, T, P
  <2>4. IsFiniteSet(T) /\ Cardinality(T) = Cardinality(P)
    <3>1. ExistsBijection(P, T)
      BY <2>3 DEF ExistsBijection
    <3>2. QED BY <2>2, <3>1, FS_Bijection
  <2>5. Cardinality(E) * Limit[i] = Limit[i] * Cardinality(E)
    BY <1>1, <1>2
  <2>6. QED BY <2>2, <2>4, <2>5
<1> HIDE DEF f, S, E, U, T
<1>8. IsFiniteSet(S) /\ Cardinality(S) <= Cardinality(T)
  BY <1>4, <1>7, FS_Injection
<1>10. QED BY <1>4, <1>8 DEF S, E, U

\* So they are finitely many, before and after a step.
LEMMA TriedFinite ==
  IsFiniteSet(Candidates) /\ TypeInv /\ TicketInv =>
    \A i \in Checks, k \in Keys : Guards(i, k) => IsFiniteSet(Tried(i, k))
  BY TriedBound

\* A step starts at most one more call, so those of a key stay finitely many.
LEMMA TriedFiniteAfter ==
  (IsFiniteSet(Candidates) /\ TypeInv /\ TicketInv)' =>
    (\A i \in Checks, k \in Keys : Guards(i, k) => IsFiniteSet(Tried(i, k)))'
  BY TriedFinite, PTL

\* A counter changes only under the call at its check, by one.
LEMMA CounterMoves ==
  ASSUME TypeInv, [Next]_vars
  PROVE  \/ UNCHANGED counter
         \/ \E c \in Calls :
              /\ Consume(c) \/ CommitThrows(c)
              /\ call[c].pc = "consume" /\ call[c].pos \in Checks
              /\ CallKey(call[c].pos, c) \in Keys
              /\ counter' = [counter EXCEPT ![CallKey(call[c].pos, c)] = @ + 1]
<1>1. ASSUME NEW c \in Calls, Consume(c)
      PROVE  \/ UNCHANGED counter
             \/ /\ call[c].pc = "consume" /\ call[c].pos \in Checks
                /\ CallKey(call[c].pos, c) \in Keys
                /\ counter' = [counter EXCEPT ![CallKey(call[c].pos, c)] = @ + 1]
  BY <1>1, ConsumeEffect DEF CallKey
<1>2. ASSUME NEW c \in Calls, CommitThrows(c)
      PROVE  \/ UNCHANGED counter
             \/ /\ call[c].pc = "consume" /\ call[c].pos \in Checks
                /\ CallKey(call[c].pos, c) \in Keys
                /\ counter' = [counter EXCEPT ![CallKey(call[c].pos, c)] = @ + 1]
  BY <1>2, ThrowEffect DEF storeVars
<1>3. QED
  BY <1>1, <1>2
  DEF Next, vars, Begin, RunCheck, RunCheckThrows, Allow, StartCommit, GetMarker, SetMarker,
      Crash, Expire

\* Who came through stays through.
LEMMA TriedGrows ==
  ASSUME TypeInv, [Next]_vars, NEW i \in Checks, NEW k \in Keys, Guards(i, k)
  PROVE  Tried(i, k) \subseteq Tried(i, k)'
<1> SUFFICES ASSUME NEW u \in Tried(i, k) PROVE u \in Tried(i, k)'
  OBVIOUS
<1>0. PICK c \in Calls, j \in Checks : u = <<c, j>>
  BY DEF Tried
<1>1. Frame /\ TypeInv'
  BY StepFrame, TypeStep
<1>2. /\ call[c].pc # "idle" /\ CallKey(j, c) = k
      /\ call[c].pos > j \/ (call[c].pos = j /\ call[c].pc = "returned")
      /\ call[c].ticket[i] \in 1..Limit[i]
      /\ call[c] \in CallState
  BY <1>0 DEF Tried, TypeInv, TypeOK
<1>7. i < j
  <2>1. eval[call[c].of].candidate \in Candidates
    BY <1>2 DEF TypeInv, CallOK, OneCallOK, EvalOK, Evaluated
  <2>2. QED BY <1>2, <2>1 DEF Guards, Counting, CallKey, Key
<1>3. call'[c].pc # "idle" /\ CallKey(j, c)' = k
  BY <1>1, <1>2, KeyStable DEF Frame
<1>4. CASE Consume(c)
  <2>1. call[c].pc = "consume" /\ call[c].pos \in Checks /\ call'[c].pos = call[c].pos + 1
    BY <1>2, <1>4, ConsumeEffect
  <2>2. call[c].pos > j /\ call'[c].pos > j /\ i # call[c].pos
    BY <1>2, <1>7, <2>1 DEF Checks
  <2>3. call'[c].ticket[i] = call[c].ticket[i]
    <3>1. \/ call'[c].ticket = call[c].ticket
          \/ \E n : call'[c].ticket = [call[c].ticket EXCEPT ![call[c].pos] = n]
      BY <1>2, <1>4, ConsumeEffect
    <3>2. QED BY <1>2, <2>2, <3>1 DEF CallState
  <2>4. QED BY <1>0, <1>2, <1>3, <2>2, <2>3 DEF Tried
<1>5. CASE ~Consume(c)
  <2>1. call'[c].pos = call[c].pos /\ call'[c].ticket = call[c].ticket
    BY <1>1, <1>2, <1>5, CallMoves, StartEffect, GetEffect, SetEffect, ThrowEffect DEF Frame
  <2>2. call[c].pc = "returned" => call'[c].pc = "returned"
    BY <1>2, <1>5, CallMoves, StartEffect, GetEffect, SetEffect, ThrowEffect DEF InFlight
  <2>3. QED BY <1>0, <1>2, <1>3, <2>1, <2>2 DEF Tried
<1>6. QED BY <1>4, <1>5

\* The call that increments a counter is one more that came through.
LEMMA TriedStep ==
  ASSUME SpendInv, IsFiniteSet(Candidates), [Next]_vars
  PROVE  TriedInv'
<1> USE DEF SpendInv
<1>1. Frame /\ TypeInv' /\ TicketInv'
  BY StepFrame, TypeStep, TicketStep
<1> SUFFICES ASSUME NEW i \in Checks, NEW k \in Keys, Guards(i, k)
             PROVE  counter'[k] <= Cardinality(Tried(i, k)')
  BY DEF TriedInv, Guards, Earlier, Counting
<1> DEFINE S == Tried(i, k)
           T == Tried(i, k)'
<1>3. /\ IsFiniteSet(S) /\ Cardinality(S) \in Nat
      /\ IsFiniteSet(T) /\ Cardinality(T) \in Nat
  <2>1. IsFiniteSet(S)
    BY TriedBound
  <2>2. IsFiniteSet(T)
    <3>1. Guards(i, k)'
      BY DEF Guards, Earlier, Counting
    <3>2. QED BY <1>1, <3>1, TriedFiniteAfter
  <2>3. QED BY <2>1, <2>2, FS_CardinalityType
<1>4. S \subseteq T
  BY TriedGrows
<1>5. counter[k] <= Cardinality(S) /\ counter[k] \in Nat
  BY DEF TriedInv, TypeInv, TypeOK
<1>6. CASE counter'[k] = counter[k]
  <2>1. Cardinality(S) <= Cardinality(T)
    BY <1>3, <1>4, FS_Subset
  <2>2. QED BY <1>3, <1>5, <1>6, <2>1
<1>7. CASE counter'[k] # counter[k]
  <2>1. PICK c \in Calls :
          /\ Consume(c) \/ CommitThrows(c)
          /\ call[c].pc = "consume" /\ call[c].pos \in Checks
          /\ CallKey(call[c].pos, c) \in Keys
          /\ counter' = [counter EXCEPT ![CallKey(call[c].pos, c)] = @ + 1]
    BY <1>7, CounterMoves
  <2>2. PICK j \in Checks : j = call[c].pos
    BY <2>1
  <2>3. CallKey(j, c) = k /\ counter'[k] = counter[k] + 1
    BY <1>7, <2>1, <2>2 DEF TypeInv, TypeOK
  <2>4. eval[call[c].of].candidate \in Candidates
    BY <2>1 DEF TypeInv, CallOK, OneCallOK, EvalOK, Evaluated
  <2>5. i < j /\ i \in Int /\ j \in Int /\ CallKey(i, c) # NoKey
    BY <2>3, <2>4 DEF Guards, Earlier, Counting, CallKey, Key, Checks
  <2>6. <<c, j>> \notin S
    BY <2>1, <2>2, <2>5 DEF Tried
  <2>7. call[c].ticket[i] \in 1..Limit[i]
    BY <2>1, <2>2, <2>5 DEF LoopInv
  <2>8. /\ call'[c].pc # "idle" /\ CallKey(j, c)' = k
        /\ call'[c].pos > j \/ (call'[c].pos = j /\ call'[c].pc = "returned")
        /\ call'[c].ticket[i] = call[c].ticket[i]
    <3>1. call'[c].pc # "idle" /\ CallKey(j, c)' = k
      BY <1>1, <2>1, <2>3, KeyStable DEF Frame
    <3>2. CASE Consume(c)
      <4>1. call'[c].pos = j + 1
        BY <2>2, <3>2, ConsumeEffect
      <4>2. \/ call'[c].ticket = call[c].ticket
            \/ \E n : call'[c].ticket = [call[c].ticket EXCEPT ![j] = n]
        BY <2>2, <3>2, ConsumeEffect
      <4>3. call[c].ticket \in [Checks -> Nat] /\ i # j
        BY <2>5 DEF TypeInv, TypeOK, CallState
      <4>4. call'[c].pos > j
        BY <2>5, <4>1
      <4>5. call'[c].ticket[i] = call[c].ticket[i]
        BY <4>2, <4>3
      <4>6. QED BY <3>1, <4>4, <4>5
    <3>3. CASE CommitThrows(c)
      BY <2>2, <3>1, <3>3, ThrowEffect
    <3>4. QED BY <2>1, <3>2, <3>3
  <2>9. <<c, j>> \in T
    BY <2>7, <2>8 DEF Tried
  <2>10. S \cup {<<c, j>>} \subseteq T
    BY <1>4, <2>9
  <2>11. Cardinality(S \cup {<<c, j>>}) = Cardinality(S) + 1
    BY <1>3, <2>6, FS_AddElement
  <2>12. Cardinality(S \cup {<<c, j>>}) <= Cardinality(T)
    BY <1>3, <2>10, FS_Subset
  <2>13. QED BY <1>3, <1>5, <2>3, <2>11, <2>12
<1>8. QED BY <1>6, <1>7

\* At first nothing is spent.
LEMMA SpendInit == Init => SpendInv
<1> SUFFICES ASSUME Init PROVE SpendInv
  OBVIOUS
<1>1. TypeInv /\ TicketInv /\ LoopInv
  BY GrantInit DEF GrantInv
<1>2. ASSUME NEW i \in Checks, NEW k \in Keys
      PROVE  counter[k] <= Cardinality(Tried(i, k))
  <2>1. Tried(i, k) = {}
    BY DEF Init, Tried
  <2>2. QED BY <2>1, FS_EmptySet DEF Init
<1>3. QED BY <1>1, <1>2 DEF SpendInv, TriedInv

\* What later checks ever spend under a key, an earlier one let through: each of
\* them spends at most the earlier check's limit for each of its keys, also when
\* they share the key, whatever fails, crashes, runs out or is retried.
THEOREM EarlierChecksShield ==
  ASSUME IsFiniteSet(Candidates)
  PROVE  Spec => []DuplicatesSpendNothing
<1>1. SpendInv /\ [Next]_vars => SpendInv'
  BY TypeStep, TicketStep, LoopStep, TriedStep DEF SpendInv
<1>2. SpendInv => DuplicatesSpendNothing
  <2> SUFFICES ASSUME SpendInv, NEW i \in Checks, NEW k \in Keys, Guards(i, k)
               PROVE  counter[k]
                        <= Limit[i] * Cardinality(Earlier(i, k)) * Cardinality(Counting(k))
    BY DEF DuplicatesSpendNothing, Guards
  <2> USE DEF SpendInv
  <2>1. /\ IsFiniteSet(Tried(i, k))
        /\ Cardinality(Tried(i, k))
             <= Limit[i] * Cardinality(Earlier(i, k)) * Cardinality(Counting(k))
    BY TriedBound
  <2>2. counter[k] <= Cardinality(Tried(i, k)) /\ counter[k] \in Nat
    BY DEF TriedInv, TypeInv, TypeOK
  <2>3. Cardinality(Tried(i, k)) \in Nat /\ Limit[i] \in Nat
    BY <2>1, FS_CardinalityType, ConstantsOK
  <2>4. Cardinality(Earlier(i, k)) \in Nat /\ Cardinality(Counting(k)) \in Nat
    BY EarlierFinite
  <2>5. Limit[i] * Cardinality(Earlier(i, k)) \in Nat
    BY <2>3, <2>4
  <2>6. Limit[i] * Cardinality(Earlier(i, k)) * Cardinality(Counting(k)) \in Nat
    BY <2>4, <2>5
  <2>7. QED BY <2>1, <2>2, <2>3, <2>6
<1>3. QED BY <1>1, <1>2, SpendInit, PTL DEF Spec
=============================================================================
