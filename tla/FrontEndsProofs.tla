---------------------------- MODULE FrontEndsProofs ----------------------------
(***************************************************************************)
(* The front ends use the gate as its protocol allows, for any number of   *)
(* front ends, requests and checks: every step of theirs is a step of      *)
(* GateCommit or none of it.  While no store call throws, what a request   *)
(* lets out holds a unit of its own of every budget that counts it, the    *)
(* counters are exactly the units requests for a delivery drew, and one    *)
(* that loses at commit lost to another's unit taken since it was allowed. *)
(***************************************************************************)
EXTENDS FrontEnds, GateCommitProofs

\* What the second theorem assumes beside DistinctIds.
NoErrors == MaxErrors = 0

\* A call belongs to the request of its number, which asked for a delivery, and
\* a delivery rests on the answer of that call.
Stages == {"none", "asked", "unwatched", "refused", "allowed", "committing", "delivered", "lostAtCommit"}

RequestInv ==
  /\ request \in [Decisions -> Stages]
  /\ wants \in [Decisions -> {"nothing", "delivery", "decision"}]
  /\ \A d \in Decisions :
       /\ call[d].pc # "idle" => call[d].of = d /\ wants[d] = "delivery"
       /\ request[d] = "delivered" => call[d].pc = "returned" /\ call[d].result = "1"

\* A call that granted paid for it.
GrantedInv == \A c \in Calls : call[c].pc = "returned" /\ call[c].result = "1" => Paid(c)

\* What calls drew from key k, each under the check it drew for, is as much as the
\* counter says.
Payers(k) == {u \in Calls \X Checks : call[u[1]].ticket[u[2]] > 0 /\ CallKey(u[2], u[1]) = k}
CountInv == \A k \in Keys : counter[k] = Cardinality(Payers(k))

\* The inductive invariant behind EachHoldsItsUnit.
FrontInv == GrantInv /\ RequestInv /\ GrantedInv /\ FreshInv /\ CountInv

-----------------------------------------------------------------------------
\* Every step of a front end is a step of the gate or leaves the gate alone.
LEMMA FrontIsGate == TypeInv /\ [FrontNext]_frontVars => [Next]_vars
<1> SUFFICES ASSUME TypeInv, [FrontNext]_frontVars PROVE [Next]_vars
  OBVIOUS
<1>1. ASSUME NEW d \in Decisions, NEW g \in Gates, NEW e \in Candidates,
             NEW t \in Instants, NEW wish \in {"delivery", "decision"}, Ask(d, g, e, t, wish)
      PROVE  Next
  BY <1>1 DEF Ask, Next
<1>2. ASSUME NEW d \in Decisions, Work(d)
      PROVE  Next
  BY <1>2, FrontEndAssumption DEF Work, CallStep, Next
<1>3. ASSUME NEW d \in Decisions, Commit(d)
      PROVE  Next
  <2>1. eval[d].gate \in Gates /\ StartCommit(d, d, eval[d].gate)
    BY <1>3 DEF Commit, TypeInv, EvalOK
  <2>2. QED BY <2>1, FrontEndAssumption DEF Next
<1>4. ASSUME NEW d \in Decisions,
             TurnDown(d) \/ Answered(d) \/ Settle(d) \/ \E how \in {"unwatched", "refused"} : PassBy(d, how)
      PROVE  UNCHANGED vars
  BY <1>4 DEF TurnDown, Answered, Settle, PassBy
<1>5. ASSUME NEW id \in Ids, Forget(id)
      PROVE  Next
  BY <1>5 DEF Forget, Next
<1>6. QED
  BY <1>1, <1>2, <1>3, <1>4, <1>5 DEF FrontNext, frontVars

\* With every front end and every store: the requests drive the gate as its own
\* specification lets callers do, so what holds of the gate holds of them.
THEOREM FrontEndsUseTheGate == FrontSpec => Spec
<1>1. FrontInit => Init /\ TypeInv
  BY TypeInit DEF FrontInit
<1>2. TypeInv /\ [FrontNext]_frontVars => TypeInv' /\ [Next]_vars
  BY FrontIsGate, TypeStep
<1>3. QED BY <1>1, <1>2, PTL DEF FrontSpec, Spec

-----------------------------------------------------------------------------
\* While nothing throws, only a turn of the consume loop changes a counter.
LEMMA CounterStep ==
  ASSUME TypeInv, NoErrors, [Next]_vars
  PROVE  UNCHANGED counter \/ \E c \in Calls : Consume(c)
<1>1. ~(errors < MaxErrors)
  BY DEF NoErrors, TypeInv, TypeOK
<1>2. QED
  BY <1>1
  DEF Next, vars, Begin, RunCheck, RunCheckThrows, Allow, StartCommit, GetMarker, SetMarker,
      CommitThrows, Crash, Expire

\* A counter grows by one when one more call holds a ticket of it.
LEMMA CountStep ==
  ASSUME TypeInv, TicketInv, FreshInv, CountInv, NoErrors, [Next]_vars
  PROVE  CountInv'
<1>1. Frame /\ TypeInv' /\ TicketInv'
  BY StepFrame, TypeStep, TicketStep
<1>2. \A c \in Calls : call[c] \in CallState /\ call'[c] \in CallState
  BY <1>1 DEF TypeInv, TypeOK
<1>3. ASSUME NEW c \in Calls, NEW i \in Checks, call[c].ticket[i] > 0
      PROVE  CallKey(i, c)' = CallKey(i, c)
  BY <1>1, <1>3, KeyStable DEF TicketInv
<1>4. ASSUME UNCHANGED counter, \A c \in Calls : call'[c].ticket = call[c].ticket
      PROVE  CountInv'
  <2>1. ASSUME NEW k \in Keys
        PROVE  Payers(k)' = Payers(k)
    <3>1. \A x \in Calls, i \in Checks : <<x, i>> \in Payers(k)' <=> <<x, i>> \in Payers(k)
      BY <1>3, <1>4 DEF Payers
    <3>2. QED BY <3>1 DEF Payers
  <2>2. QED BY <1>4, <2>1 DEF CountInv
<1>5. ASSUME NEW c \in Calls, Consume(c), CallKey(call[c].pos, c) \in Keys
      PROVE  CountInv'
  <2>0. PICK j \in Checks, q \in Keys : j = call[c].pos /\ q = CallKey(j, c)
    BY <1>5, ConsumeEffect
  <2>1. /\ call[c].pc = "consume" /\ call[c].of \in Decisions
        /\ \A x \in Calls : x # c => call'[x] = call[x]
        /\ counter' = [counter EXCEPT ![q] = @ + 1]
        /\ call'[c].ticket = [call[c].ticket EXCEPT ![j] = counter[q] + 1]
    <3>1. q # NoKey
      BY ConstantsOK
    <3>2. QED BY <1>5, <2>0, <3>1, ConsumeEffect DEF CallKey
  <2>2. CallKey(j, c)' = q
    BY <1>1, <2>0, <2>1, KeyStable
  <2>3. /\ call[c].ticket \in [Checks -> Nat]
        /\ counter \in [Keys -> Nat]
    BY <1>2 DEF TypeInv, TypeOK, CallState
  <2>4. /\ call[c].ticket[j] = 0
        /\ call'[c].ticket[j] > 0
        /\ \A i \in Checks : i # j => call'[c].ticket[i] = call[c].ticket[i]
    <3>1. j >= call[c].pos
      BY <2>0 DEF Checks
    <3>2. QED BY <2>1, <2>3, <3>1 DEF FreshInv
  <2>5. ASSUME NEW x \in Calls, NEW i \in Checks, NEW k \in Keys, x # c \/ i # j
        PROVE  <<x, i>> \in Payers(k)' <=> <<x, i>> \in Payers(k)
    <3>1. call'[x].ticket[i] = call[x].ticket[i]
      BY <2>1, <2>4, <2>5
    <3>2. QED BY <1>3, <3>1 DEF Payers
  <2>6. ASSUME NEW k \in Keys, k # q
        PROVE  counter'[k] = counter[k] /\ Payers(k)' = Payers(k)
    <3>1. <<c, j>> \notin Payers(k)' /\ <<c, j>> \notin Payers(k)
      BY <2>2, <2>4, <2>6 DEF Payers
    <3>2. \A x \in Calls, i \in Checks : <<x, i>> \in Payers(k)' <=> <<x, i>> \in Payers(k)
      BY <2>5, <3>1
    <3>3. counter'[k] = counter[k]
      BY <2>1, <2>3, <2>6
    <3>4. QED BY <3>2, <3>3 DEF Payers
  <2>7. Payers(q)' = Payers(q) \cup {<<c, j>>} /\ <<c, j>> \notin Payers(q)
    <3>1. <<c, j>> \in Payers(q)' /\ <<c, j>> \notin Payers(q)
      BY <2>2, <2>4 DEF Payers
    <3>2. \A x \in Calls, i \in Checks :
            <<x, i>> \in Payers(q)' <=> <<x, i>> \in Payers(q) \/ <<x, i>> = <<c, j>>
      BY <2>5, <3>1
    <3>3. QED BY <3>1, <3>2 DEF Payers
  <2>8. counter'[q] = Cardinality(Payers(q)')
    <3>1. IsFiniteSet(Payers(q))
      <4>1. IsFiniteSet(Calls) /\ IsFiniteSet(Checks)
        BY FiniteAssumption, FrontEndAssumption, ConstantsOK, FS_Interval DEF Checks
      <4>2. IsFiniteSet(Calls \X Checks)
        BY <4>1, FS_Product
      <4>3. QED BY <4>2, FS_Subset DEF Payers
    <3>2. Cardinality(Payers(q) \cup {<<c, j>>}) = Cardinality(Payers(q)) + 1
      BY <2>7, <3>1, FS_AddElement
    <3>3. QED BY <2>1, <2>3, <2>7, <3>2 DEF CountInv
  <2>9. QED BY <2>6, <2>8 DEF CountInv
<1>6. ASSUME NEW c \in Calls, Consume(c), CallKey(call[c].pos, c) \notin Keys
      PROVE  UNCHANGED counter /\ \A x \in Calls : call'[x].ticket = call[x].ticket
  BY <1>6, ConsumeEffect DEF CallKey
<1>7. CASE \A c \in Calls : ~Consume(c)
  BY <1>1, <1>4, <1>7, CounterStep DEF Frame
<1>8. QED BY <1>4, <1>5, <1>6, <1>7

-----------------------------------------------------------------------------
\* Every call is of the decision of its number, and only one call commits it.
OwnCalls == \A c \in Calls : call[c].pc # "idle" => call[c].of = c

\* With a call per decision a grant is paid by the call itself: the marker of
\* another decision is never read.
LEMMA GrantedStep ==
  ASSUME GrantInv, GrantedInv, OwnCalls, NoErrors, [Next]_vars
  PROVE  GrantedInv'
<1> USE DEF GrantInv
<1>1. Frame /\ TypeInv'
  BY StepFrame, TypeStep
<1>2. ASSUME NEW x \in Calls, Paid(x)
      PROVE  Paid(x)'
  BY <1>1, <1>2, PaidStays
<1> SUFFICES ASSUME NEW x \in Calls, call'[x].pc = "returned", call'[x].result = "1"
             PROVE  Paid(x)'
  BY DEF GrantedInv
<1>3. CASE call'[x] = call[x]
  BY <1>2, <1>3 DEF GrantedInv
<1>4. ASSUME NEW c \in Calls, NEW d \in Decisions, NEW r \in {"0", "1"}, Answer(c, d, r)
      PROVE  call'[x] = call[x] \/ (x = c /\ r = "1")
  <2>1. call[c] \in CallState /\ (x # c => call'[x] = call[x])
    BY <1>4, AnswerType DEF TypeInv, TypeOK
  <2>2. CASE x = c
    BY <1>4, <2>1, <2>2 DEF Answer, TypeInv, TypeOK, CallState
  <2>3. QED BY <2>1, <2>2
<1>5. ASSUME NEW c \in Calls, NEW d \in Decisions, NEW g \in Gates, StartCommit(c, d, g),
             call'[x] # call[x]
      PROVE  Paid(x)'
  <2>1. x = c /\ call[c] \in CallState
    BY <1>5 DEF StartCommit, TypeInv, TypeOK
  <2>2. NumChecks = 0
    BY <1>5, <2>1 DEF StartCommit, TypeInv, TypeOK, CallState
  <2>3. QED BY <2>2 DEF Paid, Settled, Checks
<1>6. ASSUME NEW c \in Calls, GetMarker(c), call'[x] # call[x]
      PROVE  FALSE
  <2>1. /\ call[c] \in CallState /\ call[c].pc = "get" /\ call[c].of = c
        /\ c \in Decisions /\ Evaluated(c)
    BY <1>6 DEF GetMarker, TypeInv, TypeOK, CallOK, OneCallOK, OwnCalls
  <2>2. CASE marker[Id(c)] = "none"
    <3>1. call' = [call EXCEPT ![c].pc = "consume"]
      BY <1>6, <2>1, <2>2 DEF GetMarker
    <3>2. QED BY <1>6, <2>1, <3>1 DEF TypeInv, TypeOK, CallState
  <2>3. CASE marker[Id(c)] # "none"
    <3>1. Id(c) \in Ids /\ marker[Id(c)] \in {"0", "1"} /\ Answer(c, c, marker[Id(c)])
      BY <1>6, <2>1, <2>3, MarkerType DEF GetMarker
    <3>2. marker[Id(c)] = "1"
      BY <1>4, <1>6, <2>1, <3>1
    <3>3. PICK b \in Calls : Paid(b) /\ CallId(b) = Id(c)
      BY <3>1, <3>2 DEF PaidInv
    <3>4. call[b].of = b /\ b \in Decisions /\ Evaluated(b)
      BY <3>3 DEF Paid, Settled, OwnCalls, TypeInv, CallOK, OneCallOK
    <3>5. b = c
      BY <2>1, <3>3, <3>4, IdUnique DEF CallId
    <3>6. QED BY <2>1, <3>3, <3>5 DEF Paid, Settled
  <2>4. QED BY <2>2, <2>3
<1>7. ASSUME NEW c \in Calls, SetMarker(c), call'[x] # call[x]
      PROVE  Paid(x)'
  <2>1. /\ call[c].of \in Decisions /\ call[c].result \in {"0", "1"}
        /\ call[c].pc = "set" /\ Answer(c, call[c].of, call[c].result)
    BY <1>7 DEF SetMarker, TypeInv, TypeOK, CallOK, OneCallOK, CallState
  <2>2. x = c /\ call[c].result = "1"
    BY <1>4, <1>7, <2>1
  <2>3. QED BY <1>2, <2>1, <2>2 DEF LoopInv
<1>8. ASSUME NEW c \in Calls, CommitThrows(c)
      PROVE  FALSE
  BY <1>8 DEF CommitThrows, NoErrors, TypeInv, TypeOK
<1>9. ASSUME NEW c \in Calls, Consume(c)
      PROVE  call'[x] = call[x]
  BY <1>9, ConsumeEffect
<1>10. ASSUME NEW g \in Gates, Crash(g)
       PROVE  call'[x] = call[x]
  BY <1>10 DEF Crash, TypeInv, TypeOK, CallState
<1>11. QED
  BY <1>3, <1>5, <1>6, <1>7, <1>8, <1>9, <1>10
  DEF Next, vars, Begin, RunCheck, RunCheckThrows, Allow, Expire

\* A step of a call touches no other call, nor one that is over.
LEMMA CallStepEffect ==
  ASSUME TypeInv, NEW c \in Calls, CallStep(c)
  PROVE  \A x \in Calls : /\ call'[x].of = call[x].of
                          /\ call[x].pc \in {"idle", "returned"} => call'[x] = call[x]
<1>1. ASSUME call[c].pc \in {"get", "set", "consume"}, NEW d \in Decisions,
             NEW r \in {"0", "1"}, Answer(c, d, r)
      PROVE  \A x \in Calls : /\ call'[x].of = call[x].of
                              /\ call[x].pc \in {"idle", "returned"} => call'[x] = call[x]
  BY <1>1, AnswerType
<1>2. CASE GetMarker(c)
  <2>1. call[c].of \in Decisions /\ call[c] \in CallState /\ Evaluated(call[c].of)
    BY <1>2 DEF GetMarker, TypeInv, TypeOK, CallOK, OneCallOK
  <2>2. CASE marker[Id(call[c].of)] = "none"
    <3>1. call' = [call EXCEPT ![c].pc = "consume"] /\ call[c].pc = "get"
      BY <1>2, <2>2 DEF GetMarker
    <3>2. QED BY <2>1, <3>1 DEF TypeInv, TypeOK, CallState
  <2>3. CASE marker[Id(call[c].of)] # "none"
    BY <1>1, <1>2, <2>1, <2>3, MarkerType DEF GetMarker
  <2>4. QED BY <2>2, <2>3
<1>3. CASE Consume(c)
  BY <1>3, ConsumeEffect
<1>4. CASE SetMarker(c) \/ CommitThrows(c)
  <2>1. call[c].of \in Decisions /\ call[c].result \in {"0", "1"}
    BY <1>4 DEF SetMarker, CommitThrows, TypeInv, TypeOK, CallOK, OneCallOK, CallState
  <2>2. QED BY <1>1, <1>4, <2>1 DEF SetMarker, CommitThrows, AnswerOnError
<1>5. QED BY <1>2, <1>3, <1>4 DEF CallStep

\* What a step makes of a request and of the call of its number.
LEMMA RequestStep ==
  ASSUME TypeInv, RequestInv, [FrontNext]_frontVars
  PROVE  RequestInv'
<1>1. \A c \in Calls : call[c] \in CallState
  BY DEF TypeInv, TypeOK
<1>2. CASE UNCHANGED <<call, request, wants>>
  BY <1>2 DEF RequestInv
<1>3. ASSUME NEW d \in Decisions, NEW stage \in Stages \ {"delivered"},
             request[d] # "delivered", request' = [request EXCEPT ![d] = stage],
             UNCHANGED <<call, wants>>
      PROVE  RequestInv'
  BY <1>3 DEF RequestInv
<1>4. ASSUME NEW d \in Decisions, NEW g \in Gates, NEW e \in Candidates,
             NEW t \in Instants, NEW wish \in {"delivery", "decision"}, Ask(d, g, e, t, wish)
      PROVE  RequestInv'
  <2>1. /\ UNCHANGED call /\ call[d].pc = "idle"
        /\ request' = [request EXCEPT ![d] = "asked"]
        /\ wants' = [wants EXCEPT ![d] = wish]
    BY <1>4, FrontEndAssumption DEF Ask, Begin, RequestInv, TypeInv, CallOK, OneCallOK, Evaluated
  <2>2. QED BY <2>1 DEF RequestInv, Stages
<1>5. ASSUME NEW d \in Decisions, Work(d)
      PROVE  RequestInv'
  <2>1. UNCHANGED <<request, wants>> /\ d \in Calls
    BY <1>5, FrontEndAssumption DEF Work
  <2>2. CASE RunCheck(d) \/ RunCheckThrows(d) \/ Allow(d)
    BY <1>2, <2>1, <2>2 DEF RunCheck, RunCheckThrows, Allow
  <2>3. CASE CallStep(d)
    <3>1. \A x \in Calls : /\ call'[x].of = call[x].of
                           /\ call[x].pc \in {"idle", "returned"} => call'[x] = call[x]
      BY <2>1, <2>3, CallStepEffect
    <3>2. QED BY <2>1, <3>1, FrontEndAssumption DEF RequestInv
  <2>4. QED BY <1>5, <2>2, <2>3 DEF Work
<1>6. ASSUME NEW d \in Decisions, Commit(d)
      PROVE  RequestInv'
  <2>1. /\ request' = [request EXCEPT ![d] = "committing"] /\ UNCHANGED wants
        /\ wants[d] = "delivery" /\ request[d] = "asked"
        /\ \A x \in Calls : x # d => call'[x] = call[x]
        /\ call'[d].of = d /\ d \in Calls
    BY <1>1, <1>6, FrontEndAssumption DEF Commit, StartCommit, TypeInv, TypeOK, CallState
  <2>2. QED BY <2>1, FrontEndAssumption DEF RequestInv, Stages
<1>7. ASSUME NEW d \in Decisions, Settle(d)
      PROVE  RequestInv'
  BY <1>7 DEF Settle, Ending, RequestInv, Stages, vars
<1>8. QED
  BY <1>2, <1>3, <1>4, <1>5, <1>6, <1>7
  DEF FrontNext, frontVars, vars, PassBy, TurnDown, Answered, Stages, Forget, Expire

-----------------------------------------------------------------------------
\* The invariant holds before anything was asked.
LEMMA FrontInit0 == FrontInit => FrontInv
<1> SUFFICES ASSUME FrontInit PROVE FrontInv
  OBVIOUS
<1>1. GrantInv
  BY GrantInit DEF FrontInit
<1>2. RequestInv /\ GrantedInv /\ FreshInv
  BY FrontEndAssumption DEF FrontInit, Init, RequestInv, Stages, GrantedInv, FreshInv
<1>3. ASSUME NEW k \in Keys
      PROVE  counter[k] = Cardinality(Payers(k))
  <2>1. Payers(k) = {}
    BY DEF FrontInit, Init, Payers
  <2>2. QED BY <2>1, FS_EmptySet DEF FrontInit, Init
<1>4. QED BY <1>1, <1>2, <1>3 DEF FrontInv, CountInv

\* Every step keeps it.
LEMMA FrontStep ==
  ASSUME DistinctIds, NoErrors
  PROVE  FrontInv /\ [FrontNext]_frontVars => FrontInv'
<1> SUFFICES ASSUME FrontInv, [FrontNext]_frontVars PROVE FrontInv'
  OBVIOUS
<1>1. TypeInv /\ TicketInv /\ GrantInv /\ RequestInv /\ GrantedInv /\ FreshInv /\ CountInv
  BY DEF FrontInv, GrantInv
<1>2. [Next]_vars
  BY <1>1, FrontIsGate
<1>3. OwnCalls
  BY <1>1, FrontEndAssumption DEF RequestInv, OwnCalls
<1>4. GrantInv'
  BY <1>1, <1>2, DistinctIds, GrantStep
<1>5. RequestInv'
  BY <1>1, RequestStep
<1>6. GrantedInv'
  BY <1>1, <1>2, <1>3, NoErrors, GrantedStep
<1>7. FreshInv' /\ CountInv'
  BY <1>1, <1>2, NoErrors, FreshStep, CountStep
<1>8. QED BY <1>4, <1>5, <1>6, <1>7 DEF FrontInv

\* A delivered request holds the tickets its call paid with; they are nobody
\* else's, and all the tickets there are make up the counters.
LEMMA FrontUnits == FrontInv => EachHoldsItsUnit
<1> SUFFICES ASSUME FrontInv PROVE EachHoldsItsUnit
  OBVIOUS
<1>1. TypeInv /\ TicketInv /\ RequestInv /\ GrantedInv /\ CountInv
  BY DEF FrontInv, GrantInv
<1>2. \A c \in Calls : call[c].pc # "idle" => call[c].of = c /\ wants[c] = "delivery"
  BY <1>1, FrontEndAssumption DEF RequestInv
<1>3. ASSUME NEW d \in Delivered, NEW i \in Checks, Key(i, d) # NoKey
      PROVE  /\ Unit(d, i) \in 1..Limit[i]
             /\ d \in Calls /\ call[d].of = d
  <2>1. d \in Calls /\ call[d].pc = "returned" /\ call[d].result = "1"
    BY <1>1, FrontEndAssumption DEF Delivered, RequestInv
  <2>2. call[d].of = d /\ Paid(d)
    BY <1>1, <1>2, <2>1 DEF GrantedInv
  <2>3. QED BY <1>3, <2>1, <2>2 DEF Paid, CallKey, Unit
<1>4. ASSUME NEW d \in Delivered, NEW x \in Delivered, NEW i \in Checks, NEW j \in Checks,
             Key(i, d) # NoKey, Key(j, x) = Key(i, d), Unit(x, j) = Unit(d, i)
      PROVE  x = d /\ j = i
  <2>1. /\ Unit(d, i) \in 1..Limit[i] /\ Unit(x, j) \in 1..Limit[j]
        /\ d \in Calls /\ call[d].of = d /\ x \in Calls /\ call[x].of = x
    BY <1>3, <1>4
  <2>2. call[d].ticket[i] > 0 /\ call[x].ticket[j] > 0
    BY <2>1, ConstantsOK DEF Unit
  <2>3. QED BY <1>1, <1>4, <2>1, <2>2 DEF TicketInv, CallKey, Unit
<1>5. ASSUME NEW k \in Keys
      PROVE  counter[k] = Cardinality(Draws(k))
  <2>1. ASSUME NEW d \in Decisions, NEW i \in Checks, Unit(d, i) > 0
        PROVE  call[d].of = d /\ wants[d] = "delivery" /\ eval[d].candidate # None
    <3>1. d \in Calls /\ call[d].pc # "idle"
      BY <1>1, <2>1, FrontEndAssumption DEF TicketInv, Unit
    <3>2. call[d].of = d /\ wants[d] = "delivery" /\ Evaluated(d)
      BY <1>1, <1>2, <3>1 DEF TypeInv, CallOK, OneCallOK
    <3>3. QED BY <1>1, <3>2, NoneAssumption DEF TypeInv, EvalOK, Evaluated
  <2>2. \A d \in Decisions, i \in Checks : <<d, i>> \in Payers(k) <=> <<d, i>> \in Draws(k)
    BY <2>1, FrontEndAssumption DEF Payers, Draws, CallKey, Unit
  <2>3. Payers(k) = Draws(k)
    BY <2>2, FrontEndAssumption DEF Payers, Draws
  <2>4. QED BY <1>1, <2>3 DEF CountInv
<1>6. QED BY <1>3, <1>4, <1>5 DEF EachHoldsItsUnit

\* While no store call throws and no two front ends evaluate one candidate in one
\* millisecond, for any list of checks and whichever of them share a key: whatever a
\* front end lets out after a commit holds a unit of its own of every budget, and
\* nothing else costs one, however many requests race.
THEOREM DeliveriesHoldUnits ==
  ASSUME DistinctIds, NoErrors
  PROVE  FrontSpec => []EachHoldsItsUnit
<1>1. FrontInit => FrontInv
  BY FrontInit0
<1>2. FrontInv /\ [FrontNext]_frontVars => FrontInv'
  BY DistinctIds, NoErrors, FrontStep
<1>3. FrontInv => EachHoldsItsUnit
  BY FrontUnits
<1>4. QED BY <1>1, <1>2, <1>3, PTL DEF FrontSpec

-----------------------------------------------------------------------------
\* A front end that handles one request at a time.
Sequential(g) == Kind[g] \in {"mcp", "replay"}

\* Where the call of a request is: idle before the commit, over after it.
StageInv ==
  \A d \in Decisions :
    /\ eval[d].pc = "unused" => eval[d].pos = 1
    /\ request[d] = "none" => call[d].pc = "idle" /\ eval[d].pc = "unused"
    /\ request[d] = "committing" => eval[d].pc = "allowed" /\ call[d].pc # "idle"
    /\ call[d].pc # "idle" => request[d] \in {"committing", "delivered", "lostAtCommit"}
    /\ request[d] = "lostAtCommit" => call[d].pc = "returned"

\* A sequential front end has one request pending at a time.
AloneInv ==
  \A x, d \in Decisions :
    /\ Pending(x) /\ Pending(d) /\ Begun(x) /\ Begun(d)
    /\ eval[x].gate = eval[d].gate /\ Sequential(eval[d].gate)
    => x = d

\* What the evaluation of a pending request saw: room, beyond what the requests
\* its own front end handled before it had drawn under any check of that key.
RoomInv ==
  \A d \in Decisions, i \in Checks :
    /\ Pending(d) /\ Begun(d) /\ Sequential(eval[d].gate)
    /\ i < eval[d].pos /\ Key(i, d) # NoKey
    => /\ Limit[i] > 0
       /\ \A x \in Decisions, j \in Checks :
            /\ x # d /\ Begun(x)
            /\ eval[x].gate = eval[d].gate /\ Key(j, x) = Key(i, d)
            => Unit(x, j) < Limit[i]

\* The evaluation of an allowed decision passed every check.
PassedInv == \A d \in Decisions : eval[d].pc = "allowed" => eval[d].pos = NumChecks + 1

\* Every marker was written by a call that is over.
WrittenInv ==
  \A id \in Ids : marker[id] # "none" =>
    \E c \in Calls : call[c].pc = "returned" /\ CallId(c) = id

\* A call is refused with a ticket of its own above the limit, the last it drew.
OverdrawnInv ==
  \A c \in Calls :
    /\ call[c].pc \in {"set", "returned"} /\ call[c].result = "0"
    /\ eval[call[c].of].pc = "allowed"
    => \E i \in Checks : /\ CallKey(i, c) \in Keys /\ call[c].ticket[i] > Limit[i]
                         /\ \A j \in Checks : j > i => call[c].ticket[j] = 0

\* The inductive invariant behind LosesToOthersOnly.
OthersInv ==
  /\ FrontInv
  /\ StageInv /\ AloneInv /\ RoomInv /\ PassedInv /\ WrittenInv /\ OverdrawnInv
  /\ LosesToOthersOnly

-----------------------------------------------------------------------------
\* What a step of a gate makes of an evaluation that had begun.
LEMMA EvalMoves ==
  ASSUME TypeInv, [Next]_vars, NEW d \in Decisions
  PROVE  \/ eval'[d] = eval[d]
         \/ eval[d].pc = "unused" /\ eval'[d].pc = "running" /\ eval'[d].pos = eval[d].pos
         \/ RunCheck(d) \/ RunCheckThrows(d) \/ Allow(d)
         \/ /\ eval[d].pc = "running" /\ eval'[d].pc = "lost"
            /\ eval'[d].pos = eval[d].pos
<1>1. eval \in [Decisions -> EvalState]
  BY DEF TypeInv, TypeOK
<1>2. ASSUME NEW x \in Decisions, NEW g \in Gates, NEW e \in Candidates,
             NEW t \in Instants, Begin(x, g, e, t)
      PROVE  \/ eval'[d] = eval[d]
             \/ eval[d].pc = "unused" /\ eval'[d].pc = "running" /\ eval'[d].pos = eval[d].pos
  BY <1>1, <1>2 DEF Begin, EvalState
<1>3. ASSUME NEW x \in Decisions, RunCheck(x) \/ RunCheckThrows(x) \/ Allow(x)
      PROVE  x # d => eval'[d] = eval[d]
  BY <1>1, <1>3 DEF RunCheck, RunCheckThrows, Allow, Finish, NextCheck
<1>4. ASSUME NEW g \in Gates, Crash(g)
      PROVE  \/ eval'[d] = eval[d]
             \/ /\ eval[d].pc = "running" /\ eval'[d].pc = "lost"
                /\ eval'[d].pos = eval[d].pos
  BY <1>1, <1>4 DEF Crash, EvalState
<1>5. CASE UNCHANGED eval
  BY <1>5
<1>6. QED
  BY <1>2, <1>3, <1>4, <1>5
  DEF Next, vars, StartCommit, GetMarker, Consume, SetMarker, CommitThrows, Expire

\* A check that lets a decision on found room under its key.
LEMMA CheckEffect ==
  ASSUME TypeInv, NoShadow, NoErrors, NEW d \in Decisions,
         RunCheck(d) \/ RunCheckThrows(d) \/ Allow(d)
  PROVE  /\ eval[d].pc = "running"
         /\ UNCHANGED <<counter, marker, call>>
         /\ \/ /\ eval'[d].pos = eval[d].pos /\ eval'[d].pc = "allowed"
               /\ eval[d].pos = NumChecks + 1
            \/ eval'[d].pos = eval[d].pos /\ eval'[d].pc = "refused"
            \/ /\ eval'[d].pos = eval[d].pos + 1 /\ eval'[d].pc = "running"
               /\ eval[d].pos \in Checks
               /\ Key(eval[d].pos, d) = NoKey
                    \/ ~(counter[Key(eval[d].pos, d)] >= Limit[eval[d].pos])
<1>1. eval \in [Decisions -> EvalState]
  BY DEF TypeInv, TypeOK
<1>2. ~RunCheckThrows(d)
  BY DEF RunCheckThrows, NoErrors, TypeInv, TypeOK
<1>3. CASE RunCheck(d)
  BY <1>1, <1>3 DEF RunCheck, Finish, NextCheck, EvalState, NoShadow
<1>4. CASE Allow(d)
  BY <1>1, <1>4 DEF Allow, Finish, EvalState
<1>5. QED BY <1>2, <1>3, <1>4

\* An allowed decision came to the end of the loop.
LEMMA PassedStep ==
  ASSUME TypeInv, PassedInv, NoShadow, NoErrors, [Next]_vars
  PROVE  PassedInv'
  BY EvalMoves, CheckEffect DEF PassedInv

\* A marker names a call that is over, for good.
LEMMA WrittenStep ==
  ASSUME TypeInv, WrittenInv, NoErrors, [Next]_vars
  PROVE  WrittenInv'
<1>1. Frame
  BY StepFrame
<1>2. ASSUME NEW c \in Calls, CommitThrows(c) PROVE FALSE
  BY <1>2 DEF CommitThrows, NoErrors, TypeInv, TypeOK
<1>3. ASSUME NEW c \in Calls, call[c].pc = "returned"
      PROVE  call'[c].pc = "returned" /\ CallId(c)' = CallId(c)
  BY <1>1, <1>2, <1>3, CallMoves, StartEffect, GetEffect, SetEffect, ConsumeEffect, OfStable
  DEF InFlight
<1>4. ASSUME NEW id \in Ids, marker'[id] # "none"
      PROVE  \E c \in Calls : call'[c].pc = "returned" /\ CallId(c)' = id
  <2>1. CASE marker[id] # "none"
    BY <1>3, <2>1 DEF WrittenInv
  <2>2. CASE marker[id] = "none"
    <3>0. ~\E x \in Ids : Expire(x)
      BY <1>4, <2>2 DEF Expire, TypeInv, TypeOK
    <3>1. PICK c \in Calls : SetMarker(c)
      BY <1>2, <1>4, <2>2, <3>0, MarkerMoves
    <3>2. CallId(c) = id /\ call'[c].pc = "returned" /\ call[c].pc # "idle"
      BY <1>4, <2>2, <3>1, SetEffect DEF TypeInv, TypeOK
    <3>3. QED BY <1>1, <3>2, OfStable
  <2>3. QED BY <2>1, <2>2
<1>5. QED BY <1>4 DEF WrittenInv

\* With a call per decision no marker answers a call but its own, so a refused
\* call drew a ticket above the limit.
LEMMA OverdrawnStep ==
  ASSUME TypeInv, UniqueInv, FreshInv, WrittenInv, OverdrawnInv, OwnCalls, NoErrors, [Next]_vars
  PROVE  OverdrawnInv'
<1>1. Frame /\ TypeInv'
  BY StepFrame, TypeStep
<1>2. ASSUME NEW c \in Calls, CommitThrows(c) PROVE FALSE
  BY <1>2 DEF CommitThrows, NoErrors, TypeInv, TypeOK
<1> SUFFICES ASSUME NEW c \in Calls,
                    call'[c].pc \in {"set", "returned"}, call'[c].result = "0",
                    eval'[call'[c].of].pc = "allowed"
             PROVE  \E i \in Checks :
                      /\ CallKey(i, c)' \in Keys /\ call'[c].ticket[i] > Limit[i]
                      /\ \A j \in Checks : j > i => call'[c].ticket[j] = 0
  BY DEF OverdrawnInv
<1>3. \A d \in Decisions, g \in Gates : ~StartCommit(c, d, g)
  BY StartEffect
<1>4. ASSUME GetMarker(c) PROVE FALSE
  <2>1. /\ call[c].pc = "get" /\ call[c].of \in Decisions /\ Evaluated(call[c].of)
        /\ CallId(c) \in Ids /\ marker[CallId(c)] # "none"
    BY <1>4, GetEffect
  <2>2. PICK b \in Calls : call[b].pc = "returned" /\ CallId(b) = CallId(c)
    BY <2>1 DEF WrittenInv
  <2>3. call[b].of \in Decisions /\ Evaluated(call[b].of) /\ call[b].of = b /\ call[c].of = c
    BY <2>1, <2>2 DEF TypeInv, CallOK, OneCallOK, OwnCalls
  <2>4. b = c
    BY <2>1, <2>2, <2>3, IdUnique DEF CallId
  <2>5. QED BY <2>1, <2>2, <2>4
<1>5. call[c].pc # "idle"
  BY <1>2, <1>3, <1>4, CallMoves, SetEffect, ConsumeEffect
<1>6. /\ call'[c].of = call[c].of /\ eval'[call[c].of] = eval[call[c].of]
      /\ \A i \in Checks : CallKey(i, c)' = CallKey(i, c)
  BY <1>1, <1>5, OfStable, KeyStable
<1>7. CASE Consume(c)
  <2>1. call'[c].pc = "set"
    BY <1>7, ConsumeEffect
  <2>2. /\ call[c].pos \in Checks /\ CallKey(call[c].pos, c) \in Keys
        /\ counter'[CallKey(call[c].pos, c)] > Limit[call[c].pos]
    BY <1>7, <2>1, ConsumeRefuses
  <2>3. CallKey(call[c].pos, c) # NoKey
    BY <2>2, ConstantsOK
  <2>4. call'[c].ticket[call[c].pos] = counter'[CallKey(call[c].pos, c)]
    <3>1. PICK i \in Checks, k \in Keys : i = call[c].pos /\ k = CallKey(i, c)
      BY <2>2
    <3>2. /\ counter' = [counter EXCEPT ![k] = @ + 1]
          /\ call'[c].ticket = [call[c].ticket EXCEPT ![i] = counter[k] + 1]
      BY <1>7, <2>3, <3>1, ConsumeEffect DEF CallKey
    <3>3. call[c].ticket \in [Checks -> Nat] /\ counter \in [Keys -> Nat]
      BY DEF TypeInv, TypeOK, CallState
    <3>4. QED BY <3>1, <3>2, <3>3
  <2>5. ASSUME NEW j \in Checks, j > call[c].pos
        PROVE  call'[c].ticket[j] = 0
    <3>1. call[c].ticket[j] = 0
      BY <1>7, <2>2, <2>5 DEF FreshInv, Consume, Checks
    <3>2. call'[c].ticket[j] = call[c].ticket[j]
      <4>1. call[c].ticket \in [Checks -> Nat] /\ j # call[c].pos
        BY <2>2, <2>5 DEF TypeInv, TypeOK, CallState, Checks
      <4>2. QED BY <1>7, <2>5, <4>1, ConsumeEffect
    <3>3. QED BY <3>1, <3>2
  <2>6. QED BY <1>6, <2>2, <2>4, <2>5
<1>8. CASE call'[c] = call[c]
  BY <1>6, <1>8 DEF OverdrawnInv
<1>9. CASE SetMarker(c)
  BY <1>6, <1>9, SetEffect DEF OverdrawnInv
<1>10. QED BY <1>2, <1>3, <1>4, <1>7, <1>8, <1>9, CallMoves

-----------------------------------------------------------------------------
\* What a step makes of a request, its evaluation and its call.
LEMMA FrontMoves ==
  ASSUME TypeInv, [FrontNext]_frontVars, RequestInv, NEW x \in Decisions
  PROVE  /\ request \in [Decisions -> Stages]
         /\ \/ request'[x] = request[x] /\ eval'[x] = eval[x] /\ call'[x] = call[x]
            \/ /\ request[x] = "none" /\ request'[x] = "asked"
               /\ eval[x].pc = "unused" /\ eval'[x].pc = "running"
               /\ eval'[x].pos = eval[x].pos
               /\ MayAsk(eval'[x].gate) /\ call'[x] = call[x]
               /\ \A d \in Decisions : d # x => eval'[d] = eval[d] /\ request'[d] = request[d]
               /\ UNCHANGED <<call, counter>>
            \/ /\ RunCheck(x) \/ RunCheckThrows(x) \/ Allow(x)
               /\ request'[x] = request[x] /\ call'[x] = call[x]
            \/ CallStep(x) /\ request'[x] = request[x] /\ eval'[x] = eval[x]
            \/ /\ request[x] \in {"none", "asked"} /\ eval[x].pc # "running"
               /\ request'[x] \in {"unwatched", "refused", "allowed"}
               /\ eval'[x] = eval[x] /\ call'[x] = call[x]
            \/ /\ Commit(x) /\ request'[x] = "committing"
               /\ eval'[x] = eval[x] /\ eval[x].pc = "allowed"
               /\ call[x].pc = "idle" /\ call'[x].pc \in {"get", "returned"}
               /\ call'[x].ticket = call[x].ticket
            \/ Settle(x) /\ request'[x] = Ending(x) /\ eval'[x] = eval[x] /\ call'[x] = call[x]
<1>0. /\ request \in [Decisions -> Stages] /\ eval \in [Decisions -> EvalState]
      /\ call \in [Decisions -> CallState] /\ Calls = Decisions
  BY FrontEndAssumption DEF RequestInv, TypeInv, TypeOK
<1>1. ASSUME NEW d \in Decisions, NEW g \in Gates, NEW e \in Candidates,
             NEW t \in Instants, NEW wish \in {"delivery", "decision"}, Ask(d, g, e, t, wish)
      PROVE  IF x = d
             THEN /\ request[x] = "none" /\ request'[x] = "asked"
                  /\ eval[x].pc = "unused" /\ eval'[x].pc = "running"
                  /\ eval'[x].pos = eval[x].pos
                  /\ MayAsk(eval'[x].gate) /\ call'[x] = call[x]
                  /\ \A y \in Decisions : y # x => eval'[y] = eval[y] /\ request'[y] = request[y]
                  /\ UNCHANGED <<call, counter>>
             ELSE request'[x] = request[x] /\ eval'[x] = eval[x] /\ call'[x] = call[x]
  BY <1>0, <1>1 DEF Ask, Begin, EvalState
<1>2. ASSUME NEW d \in Decisions, Work(d), x # d
      PROVE  request'[x] = request[x] /\ eval'[x] = eval[x] /\ call'[x] = call[x]
  <2>1. CASE RunCheck(d) \/ RunCheckThrows(d) \/ Allow(d)
    BY <1>0, <1>2, <2>1 DEF Work, RunCheck, RunCheckThrows, Allow, Finish, NextCheck
  <2>2. CASE CallStep(d)
    <3>1. request'[x] = request[x]
      BY <1>2 DEF Work
    <3>2. eval'[x] = eval[x]
      BY <2>2 DEF CallStep, GetMarker, Consume, SetMarker, CommitThrows
    <3>3. call'[x] = call[x]
      <4>1. d \in Calls /\ x \in Calls
        BY <1>0
      <4>2. CASE GetMarker(d)
        BY <1>2, <4>1, <4>2, GetEffect
      <4>3. CASE Consume(d)
        BY <1>2, <4>1, <4>3, ConsumeEffect
      <4>4. CASE SetMarker(d)
        BY <1>2, <4>1, <4>4, SetEffect
      <4>5. CASE CommitThrows(d)
        BY <1>2, <4>1, <4>5, ThrowEffect
      <4>6. QED BY <2>2, <4>2, <4>3, <4>4, <4>5 DEF CallStep
    <3>4. QED BY <3>1, <3>2, <3>3
  <2>3. QED BY <1>2, <2>1, <2>2 DEF Work
<1>3. CASE Work(x)
  BY <1>0, <1>3, GetEffect, SetEffect, ThrowEffect
  DEF Work, CallStep, Consume, RunCheck, RunCheckThrows, Allow
<1>4. ASSUME NEW d \in Decisions, Commit(d)
      PROVE  IF x = d
             THEN /\ request'[x] = "committing"
                  /\ eval'[x] = eval[x] /\ eval[x].pc = "allowed"
                  /\ call[x].pc = "idle" /\ call'[x].pc \in {"get", "returned"}
                  /\ call'[x].ticket = call[x].ticket
             ELSE request'[x] = request[x] /\ eval'[x] = eval[x] /\ call'[x] = call[x]
  <2>1. eval[d].gate \in Gates /\ StartCommit(d, d, eval[d].gate)
    BY <1>4 DEF Commit, TypeInv, EvalOK
  <2>2. QED BY <1>0, <1>4, <2>1, StartEffect DEF Commit
<1>5. ASSUME NEW d \in Decisions, NEW how \in {"unwatched", "refused"},
             PassBy(d, how) \/ TurnDown(d) \/ Answered(d)
      PROVE  /\ eval'[x] = eval[x] /\ call'[x] = call[x]
             /\ IF x = d
                THEN /\ request[x] \in {"none", "asked"} /\ eval[x].pc # "running"
                     /\ request'[x] \in {"unwatched", "refused", "allowed"}
                ELSE request'[x] = request[x]
  BY <1>0, <1>5 DEF PassBy, TurnDown, Answered, vars
<1>6. ASSUME NEW d \in Decisions, Settle(d)
      PROVE  /\ eval'[x] = eval[x] /\ call'[x] = call[x]
             /\ request'[x] = IF x = d THEN Ending(x) ELSE request[x]
  BY <1>0, <1>6 DEF Settle, vars
<1>7. CASE UNCHANGED frontVars
  BY <1>0, <1>7 DEF frontVars, vars
<1>8. ASSUME NEW id \in Ids, Forget(id)
      PROVE  request'[x] = request[x] /\ eval'[x] = eval[x] /\ call'[x] = call[x]
  BY <1>8 DEF Forget, Expire
<1>9. QED
  BY <1>0, <1>1, <1>2, <1>3, <1>4, <1>5, <1>6, <1>7, <1>8 DEF FrontNext

\* The call of a request is under way only while the request commits.
LEMMA StageStep ==
  ASSUME TypeInv, RequestInv, StageInv, NoShadow, NoErrors, [FrontNext]_frontVars
  PROVE  StageInv'
<1> SUFFICES ASSUME NEW x \in Decisions
    PROVE /\ eval'[x].pc = "unused" => eval'[x].pos = 1
          /\ request'[x] = "none" => call'[x].pc = "idle" /\ eval'[x].pc = "unused"
          /\ request'[x] = "committing" => eval'[x].pc = "allowed" /\ call'[x].pc # "idle"
          /\ call'[x].pc # "idle" => request'[x] \in {"committing", "delivered", "lostAtCommit"}
          /\ request'[x] = "lostAtCommit" => call'[x].pc = "returned"
  BY DEF StageInv
<1>1. CASE RunCheck(x) \/ RunCheckThrows(x) \/ Allow(x)
  <2>1. eval[x].pc = "running" /\ eval'[x].pc # "unused" /\ UNCHANGED call
    BY <1>1, CheckEffect
  <2>2. request'[x] = request[x]
    BY <2>1, FrontMoves DEF StageInv, Commit, Settle
  <2>3. QED BY <2>1, <2>2 DEF StageInv
<1>2. CASE CallStep(x)
  <2>0. x \in Calls
    BY FrontEndAssumption
  <2>1. InFlight(x) /\ call'[x].pc # "idle"
    BY <1>2, <2>0, GetEffect, ConsumeEffect, SetEffect, ThrowEffect DEF CallStep, InFlight
  <2>2. UNCHANGED eval
    BY <1>2 DEF CallStep, GetMarker, Consume, SetMarker, CommitThrows
  <2>3. request[x] = "committing"
    BY <2>1 DEF StageInv, RequestInv, InFlight
  <2>4. CASE request'[x] = request[x]
    BY <2>1, <2>2, <2>3, <2>4 DEF StageInv
  <2>5. CASE Settle(x)
    BY <2>1, <2>5 DEF Settle, InFlight
  <2>6. QED BY <2>3, <2>4, <2>5, FrontMoves DEF Commit
<1>3. CASE Settle(x)
  BY <1>3, FrontMoves DEF Settle, StageInv, Ending
<1>4. QED
  BY <1>1, <1>2, <1>3, FrontMoves DEF StageInv, Commit

\* Only an evaluation that runs is worked on.
LEMMA CheckRuns ==
  ASSUME NEW d \in Decisions
  PROVE  RunCheck(d) \/ RunCheckThrows(d) \/ Allow(d) => eval[d].pc = "running"
  BY DEF RunCheck, RunCheckThrows, Allow

\* The inputs of an evaluation that began, and the calls of the others.
LEMMA AskedStays ==
  ASSUME TypeInv, [Next]_vars, NEW x \in Decisions, Begun(x)
  PROVE  /\ Begun(x)' /\ eval'[x].gate = eval[x].gate
         /\ \A i \in Checks : Key(i, x)' = Key(i, x)
  BY StepFrame DEF Frame, Key

\* A sequential front end asks only when nothing of its own is pending.
LEMMA AloneStep ==
  ASSUME TypeInv, RequestInv, StageInv, AloneInv, [FrontNext]_frontVars
  PROVE  AloneInv'
<1>1. [Next]_vars
  BY FrontIsGate
<1>2. ASSUME NEW x \in Decisions, Pending(x)', Begun(x)'
      PROVE  \/ Pending(x) /\ Begun(x) /\ eval'[x].gate = eval[x].gate
             \/ /\ MayAsk(eval'[x].gate) /\ ~Begun(x)
                /\ \A d \in Decisions : d # x => eval'[d] = eval[d] /\ request'[d] = request[d]
  <2>1. CASE Begun(x)
    <3>1. eval'[x].gate = eval[x].gate
      BY <1>1, <2>1, AskedStays
    <3>2. Pending(x)
      BY <1>2, <2>1, FrontMoves DEF Pending, StageInv, Begun, Commit, Settle
    <3>3. QED BY <2>1, <3>1, <3>2
  <2>2. CASE ~Begun(x)
    BY <1>2, <2>2, FrontMoves, CheckRuns DEF Begun, Pending, Settle, StageInv
  <2>3. QED BY <2>1, <2>2
<1>3. ASSUME NEW x \in Decisions, NEW d \in Decisions, x # d,
             Pending(x)', Pending(d)', Begun(x)', Begun(d)',
             eval'[x].gate = eval'[d].gate, Sequential(eval'[d].gate),
             MayAsk(eval'[x].gate), eval'[d] = eval[d], request'[d] = request[d]
      PROVE  FALSE
  BY <1>3 DEF MayAsk, Sequential, Of, Pending
<1>4. QED BY <1>2, <1>3 DEF AloneInv

\* A request that holds a unit has begun, and the counter covers the unit.
LEMMA UnitHeld ==
  ASSUME TypeInv, TicketInv, RequestInv, NEW x \in Decisions, NEW i \in Checks
  PROVE  /\ Unit(x, i) \in Nat
         /\ Unit(x, i) > 0 => /\ Begun(x) /\ call[x].pc # "idle" /\ call[x].of = x
                             /\ Key(i, x) \in Keys /\ Unit(x, i) <= counter[Key(i, x)]
         /\ call[x].pc # "idle" => Begun(x)
<1>0. x \in Calls
  BY FrontEndAssumption
<1>1. Unit(x, i) \in Nat
  BY <1>0 DEF Unit, TypeInv, TypeOK, CallState
<1>2. call[x].pc # "idle" => call[x].of = x /\ Begun(x)
  BY <1>0 DEF RequestInv, TypeInv, CallOK, OneCallOK, Evaluated, Begun
<1>3. QED BY <1>0, <1>1, <1>2 DEF TicketInv, Unit, CallKey

\* While a request is pending at a sequential front end, no other one of that
\* front end draws: what the evaluation saw of them stays true.
LEMMA RoomStep ==
  ASSUME TypeInv, TicketInv, RequestInv, StageInv, AloneInv, RoomInv, NoShadow, NoErrors,
         [FrontNext]_frontVars
  PROVE  RoomInv'
<1>1. [Next]_vars
  BY FrontIsGate
<1>2. Frame /\ TypeInv'
  BY <1>1, StepFrame, TypeStep
<1> SUFFICES ASSUME NEW d \in Decisions, NEW i \in Checks,
                    Pending(d)', Begun(d)', Sequential(eval'[d].gate),
                    i < eval'[d].pos, Key(i, d)' # NoKey
    PROVE  /\ Limit[i] > 0
           /\ \A x \in Decisions, j \in Checks :
                /\ x # d /\ Begun(x)'
                /\ eval'[x].gate = eval'[d].gate /\ Key(j, x)' = Key(i, d)'
                => Unit(x, j)' < Limit[i]
  BY DEF RoomInv
<1>3. i \in Nat /\ Limit[i] \in Nat /\ eval[d].pos \in Nat /\ i >= 1
  BY ConstantsOK DEF Checks, TypeInv, TypeOK, EvalState
<1>4. Begun(d)
  <2>1. ~Begun(d) => eval'[d].pos = eval[d].pos /\ eval[d].pos = 1
    BY FrontMoves, CheckRuns DEF Begun, StageInv, Commit, Settle
  <2>2. QED BY <1>3, <2>1
<1>5. /\ eval'[d].gate = eval[d].gate
      /\ Key(i, d)' = Key(i, d)
  BY <1>1, <1>4, AskedStays
<1>6. Pending(d)
  BY <1>4, FrontMoves DEF Pending, StageInv, Begun, Commit, Settle
<1>7. CASE i < eval[d].pos
  <2>1. /\ Limit[i] > 0
        /\ \A x \in Decisions, j \in Checks :
             /\ x # d /\ Begun(x)
             /\ eval[x].gate = eval[d].gate /\ Key(j, x) = Key(i, d)
             => Unit(x, j) < Limit[i]
    BY <1>4, <1>5, <1>6, <1>7 DEF RoomInv
  <2>2. ASSUME NEW x \in Decisions, NEW j \in Checks, x # d, Begun(x)', eval'[x].gate = eval'[d].gate,
               Key(j, x)' = Key(i, d)'
        PROVE  Unit(x, j)' < Limit[i]
    <3>0. x \in Calls /\ d \in Calls
      BY FrontEndAssumption
    <3>1. CASE Begun(x)
      <4>1. eval[x].gate = eval[d].gate /\ Key(j, x) = Key(i, d)
        BY <1>1, <1>5, <2>2, <3>1, AskedStays
      <4>2. ~Consume(x)
        <5>1. ASSUME Consume(x) PROVE FALSE
          <6>1. call[x].pc = "consume"
            BY <5>1 DEF Consume
          <6>2. Pending(x)
            BY <6>1 DEF StageInv, RequestInv, Pending
          <6>3. QED BY <1>4, <1>5, <1>6, <2>2, <3>1, <4>1, <6>2 DEF AloneInv
        <5>2. QED BY <5>1
      <4>3. Unit(x, j)' = Unit(x, j)
        BY <1>2, <3>0, <4>2 DEF Frame, Unit
      <4>4. QED BY <2>1, <2>2, <3>1, <4>1, <4>3
    <3>2. CASE ~Begun(x)
      <4>1. call[x].pc = "idle" /\ Unit(x, j) = 0
        BY <3>2, UnitHeld
      <4>2. Unit(x, j)' = Unit(x, j)
        BY <1>2, <3>0, <4>1 DEF Frame, Unit, Consume
      <4>3. QED BY <2>1, <4>1, <4>2
    <3>3. QED BY <3>1, <3>2
  <2>3. QED BY <2>1, <2>2
<1>8. CASE ~(i < eval[d].pos)
  <2>1. RunCheck(d) \/ RunCheckThrows(d) \/ Allow(d)
    BY <1>1, <1>4, <1>8, EvalMoves DEF Begun
  <2>2. /\ eval'[d].pos = eval[d].pos + 1 /\ eval[d].pos = i
        /\ ~(counter[Key(i, d)] >= Limit[i]) /\ UNCHANGED call
    BY <1>3, <1>5, <1>8, <2>1, CheckEffect
  <2>3. Key(i, d) \in Keys /\ counter[Key(i, d)] \in Nat
    BY <1>4, <1>5, ConstantsOK DEF Key, Begun, TypeInv, TypeOK, EvalOK
  <2>4. ASSUME NEW x \in Decisions, NEW j \in Checks, Key(j, x)' = Key(i, d)'
        PROVE  Unit(x, j)' < Limit[i]
    <3>1. Unit(x, j)' = Unit(x, j)
      BY <2>2 DEF Unit
    <3>2. Unit(x, j) > 0 => Key(j, x) = Key(i, d) /\ Unit(x, j) <= counter[Key(j, x)]
      BY <1>1, <1>5, <2>4, UnitHeld, AskedStays
    <3>3. Unit(x, j) \in Nat
      BY UnitHeld
    <3>4. QED BY <1>3, <2>2, <2>3, <3>1, <3>2, <3>3
  <2>5. QED BY <1>3, <2>2, <2>3, <2>4
<1>9. QED BY <1>7, <1>8

-----------------------------------------------------------------------------
\* Every value up to the counter is some request's unit.
LEMMA UnitsCover ==
  ASSUME TypeInv, TicketInv, CountInv, NEW k \in Keys, NEW n \in 1..counter[k]
  PROVE  \E c \in Calls, j \in Checks : CallKey(j, c) = k /\ call[c].ticket[j] = n
<1> DEFINE P == Payers(k)
           N == 1..counter[k]
           f == [u \in P |-> call[u[1]].ticket[u[2]]]
<1>1. counter[k] \in Nat
  BY DEF TypeInv, TypeOK
<1>2. IsFiniteSet(N) /\ Cardinality(N) = counter[k]
  <2>1. \A m \in Nat : IsFiniteSet(1..m) /\ Cardinality(1..m) = m
    BY FS_Interval
  <2>2. QED BY <1>1, <2>1
<1>3. ASSUME NEW u \in P
      PROVE  /\ u[1] \in Calls /\ u[2] \in Checks /\ u = <<u[1], u[2]>>
             /\ CallKey(u[2], u[1]) = k /\ call[u[1]].ticket[u[2]] > 0
             /\ call[u[1]].ticket[u[2]] \in N
  <2>1. /\ u[1] \in Calls /\ u[2] \in Checks /\ u = <<u[1], u[2]>>
        /\ CallKey(u[2], u[1]) = k /\ call[u[1]].ticket[u[2]] > 0
    BY <1>3 DEF Payers
  <2>2. call[u[1]].ticket[u[2]] \in Nat
    BY <2>1 DEF TypeInv, TypeOK, CallState
  <2>3. call[u[1]].ticket[u[2]] <= counter[k]
    BY <2>1 DEF TicketInv
  <2>4. QED BY <1>1, <2>1, <2>2, <2>3
<1>4. ASSUME NEW u \in P, NEW v \in P, call[u[1]].ticket[u[2]] = call[v[1]].ticket[v[2]]
      PROVE  u = v
  <2>1. ~(u[1] # v[1] \/ u[2] # v[2])
    BY <1>3, <1>4 DEF TicketInv
  <2>2. QED BY <1>3, <2>1
<1>5. f \in Injection(P, N)
  <2>1. f \in [P -> N] /\ \A u \in P : f[u] = call[u[1]].ticket[u[2]]
    BY <1>3
  <2> HIDE DEF f, P, N
  <2>2. QED BY <1>4, <2>1 DEF Injection, IsInjective
<1>6. Cardinality(P) = Cardinality(N)
  BY <1>2 DEF CountInv
<1> HIDE DEF P, N, f
<1>7. f \in Surjection(P, N)
  BY <1>2, <1>5, <1>6, FS_Injection
<1>8. PICK u \in P : f[u] = n
  BY <1>7 DEF Surjection, N
<1>9. f[u] = call[u[1]].ticket[u[2]]
  BY DEF f
<1>10. QED BY <1>3, <1>8, <1>9

\* A refused commit of a sequential front end lost its unit to another one.
LEMMA LossCause ==
  ASSUME FrontInv, StageInv, RoomInv, PassedInv, OverdrawnInv, NEW d \in Decisions,
         request[d] = "committing", call[d].pc = "returned", call[d].result = "0",
         Sequential(eval[d].gate)
  PROVE  \E x \in Decisions, i, j \in Checks :
           /\ eval[x].candidate # None
           /\ eval[x].gate # eval[d].gate \/ (x = d /\ j < i)
           /\ Key(j, x) = Key(i, d) /\ Unit(x, j) \in 1..Limit[i]
<1>0. TypeInv /\ TicketInv /\ RequestInv /\ CountInv /\ Calls = Decisions
  BY FrontEndAssumption DEF FrontInv, GrantInv
<1>1. call[d].of = d /\ eval[d].pc = "allowed" /\ Begun(d) /\ Pending(d)
  BY <1>0 DEF RequestInv, StageInv, Begun, Pending
<1>2. PICK i \in Checks : /\ CallKey(i, d) \in Keys /\ call[d].ticket[i] > Limit[i]
                         /\ \A j \in Checks : j > i => call[d].ticket[j] = 0
  BY <1>0, <1>1 DEF OverdrawnInv
<1>3. PICK k \in Keys : k = CallKey(i, d) /\ k = Key(i, d)
  BY <1>1, <1>2 DEF CallKey
<1>4. i < eval[d].pos /\ k # NoKey /\ Limit[i] \in Nat
  BY <1>1, ConstantsOK DEF PassedInv, Checks
<1>5. /\ Limit[i] > 0
      /\ \A x \in Decisions, j \in Checks :
           /\ x # d /\ Begun(x)
           /\ eval[x].gate = eval[d].gate /\ Key(j, x) = Key(i, d)
           => Unit(x, j) < Limit[i]
  BY <1>1, <1>3, <1>4 DEF RoomInv
<1>6. Limit[i] \in 1..counter[k]
  <2>1. call[d].ticket[i] <= counter[k] /\ call[d].ticket[i] \in Nat /\ counter[k] \in Nat
    <3>1. Unit(d, i) \in Nat /\ (Unit(d, i) > 0 => Unit(d, i) <= counter[Key(i, d)])
      BY <1>0, UnitHeld
    <3>2. QED BY <1>0, <1>2, <1>3, <1>4, <3>1 DEF Unit, TypeInv, TypeOK
  <2>2. QED BY <1>2, <1>4, <1>5, <2>1
<1>7. PICK x \in Calls, j \in Checks : CallKey(j, x) = k /\ call[x].ticket[j] = Limit[i]
  BY <1>0, <1>6, UnitsCover
<1>8. x \in Decisions /\ Unit(x, j) = Limit[i] /\ Unit(x, j) > 0
  BY <1>0, <1>5, <1>7 DEF Unit
<1>9. Begun(x) /\ call[x].of = x /\ Key(j, x) = k
  BY <1>0, <1>7, <1>8, UnitHeld DEF CallKey
<1>10. eval[x].gate # eval[d].gate \/ (x = d /\ j < i)
  <2>1. CASE x = d
    <3>1. j # i /\ ~(j > i)
      BY <1>2, <1>4, <1>7, <1>8, <2>1 DEF Unit
    <3>2. QED BY <2>1, <3>1 DEF Checks
  <2>2. CASE x # d
    <3>1. ~(Unit(x, j) < Limit[i])
      BY <1>4, <1>8
    <3>2. QED BY <1>3, <1>5, <1>8, <1>9, <2>2, <3>1
  <2>3. QED BY <2>1, <2>2
<1>11. eval[x].candidate # None
  BY <1>0, <1>8, <1>9, NoneAssumption DEF TypeInv, EvalOK, Begun
<1>12. QED BY <1>3, <1>4, <1>5, <1>8, <1>9, <1>10, <1>11

\* The loser's witness keeps its unit.
LEMMA LosesStep ==
  ASSUME OthersInv, [FrontNext]_frontVars
  PROVE  LosesToOthersOnly'
<1>0. TypeInv /\ TicketInv /\ FreshInv /\ RequestInv /\ StageInv /\ Calls = Decisions
  BY FrontEndAssumption DEF OthersInv, FrontInv, GrantInv
<1>1. [Next]_vars
  BY <1>0, FrontIsGate
<1>2. Frame
  BY <1>0, <1>1, StepFrame
<1> SUFFICES ASSUME NEW d \in Decisions, request'[d] = "lostAtCommit",
                    Kind[eval'[d].gate] \in {"mcp", "replay"}
    PROVE  \E x \in Decisions, i, j \in Checks :
             /\ eval'[x].candidate # None
             /\ eval'[x].gate # eval'[d].gate \/ (x = d /\ j < i)
             /\ Key(j, x)' = Key(i, d)' /\ Unit(x, j)' \in 1..Limit[i]
  BY DEF LosesToOthersOnly
<1>3. Begun(d) /\ (request[d] = "lostAtCommit"
                   \/ (request[d] = "committing" /\ call[d].pc = "returned"
                        /\ call[d].result = "0"))
  <2>1. request[d] \in {"committing", "lostAtCommit"} => call[d].pc # "idle"
    BY <1>0 DEF StageInv
  <2>2. call[d].pc # "idle" => Begun(d)
    BY <1>0 DEF RequestInv, TypeInv, CallOK, OneCallOK, Evaluated, Begun
  <2>3. request[d] = "lostAtCommit"
          \/ (request[d] = "committing" /\ call[d].pc = "returned" /\ call[d].result = "0")
    BY <1>0, FrontMoves DEF Settle, Ending, TypeInv, TypeOK, CallState
  <2>4. QED BY <2>1, <2>2, <2>3
<1>4. eval'[d].gate = eval[d].gate /\ \A i \in Checks : Key(i, d)' = Key(i, d)
  BY <1>0, <1>1, <1>3, AskedStays
<1>5. PICK x \in Decisions, i \in Checks, j \in Checks :
        /\ eval[x].candidate # None
        /\ eval[x].gate # eval[d].gate \/ (x = d /\ j < i)
        /\ Key(j, x) = Key(i, d) /\ Unit(x, j) \in 1..Limit[i]
  BY <1>3, <1>4, LossCause DEF OthersInv, LosesToOthersOnly, Sequential
<1>6. Limit[i] \in Nat /\ Unit(x, j) > 0
  BY <1>5, ConstantsOK
<1>7. Begun(x) /\ Begun(x)' /\ eval'[x].gate = eval[x].gate
        /\ eval'[x].candidate = eval[x].candidate /\ Key(j, x)' = Key(j, x)
  BY <1>0, <1>1, <1>2, <1>6, UnitHeld, AskedStays DEF Frame
<1>8. Unit(x, j)' = Unit(x, j)
  <2>1. CASE Consume(x)
    <3>1. call[x].pc = "consume" /\ call[x].pos \in Checks
      BY <1>0, <2>1, ConsumeEffect
    <3>2. j # call[x].pos
      <4>1. \A y \in Checks : y >= call[x].pos => call[x].ticket[y] = 0
        BY <1>0, <3>1 DEF FreshInv
      <4>2. j # call[x].pos \/ j >= call[x].pos
        BY <3>1 DEF Checks
      <4>3. QED BY <1>6, <4>1, <4>2 DEF Unit
    <3>3. \/ call'[x].ticket = call[x].ticket
          \/ \E n : call'[x].ticket = [call[x].ticket EXCEPT ![call[x].pos] = n]
      <4>1. TypeInv /\ x \in Calls
        BY <1>0
      <4>2. QED BY <2>1, <4>1, ConsumeEffect
    <3>4. call[x].ticket \in [Checks -> Nat]
      BY <1>0 DEF TypeInv, TypeOK, CallState
    <3>5. QED BY <3>2, <3>3, <3>4 DEF Unit
  <2>2. CASE ~Consume(x)
    BY <1>0, <1>2, <2>2 DEF Frame, Unit
  <2>3. QED BY <2>1, <2>2
<1>9. QED BY <1>4, <1>5, <1>7, <1>8

\* Nothing is asked at first.
LEMMA OthersInit == FrontInit => OthersInv
<1> SUFFICES ASSUME FrontInit PROVE OthersInv
  OBVIOUS
<1>1. FrontInv
  BY FrontInit0
<1>2. /\ StageInv /\ AloneInv /\ RoomInv /\ PassedInv /\ WrittenInv /\ OverdrawnInv
      /\ LosesToOthersOnly
  BY FrontEndAssumption
  DEF FrontInit, Init, StageInv, AloneInv, RoomInv, PassedInv, WrittenInv, OverdrawnInv,
      LosesToOthersOnly, Pending, Begun
<1>3. QED BY <1>1, <1>2 DEF OthersInv

\* A server or a replay that handles one request at a time never loses a unit to
\* another request of its own: while no store call throws, ids are distinct and no
\* check is in shadow mode, whoever took it is a request of another front end, or the
\* request itself under an earlier check that shares the key.
THEOREM SequentialFrontEndsLoseToOthers ==
  ASSUME DistinctIds, NoErrors, NoShadow
  PROVE  FrontSpec => []LosesToOthersOnly
<1>1. OthersInv /\ [FrontNext]_frontVars => OthersInv'
  <2> SUFFICES ASSUME OthersInv, [FrontNext]_frontVars PROVE OthersInv'
    OBVIOUS
  <2>0. FreshInv
    BY DEF OthersInv, FrontInv
  <2>1. /\ FrontInv /\ TypeInv /\ TicketInv /\ UniqueInv /\ RequestInv
        /\ StageInv /\ AloneInv /\ RoomInv /\ PassedInv /\ WrittenInv /\ OverdrawnInv
    BY DEF OthersInv, FrontInv, GrantInv
  <2>2. [Next]_vars
    BY <2>1, FrontIsGate
  <2>3. OwnCalls
    BY <2>1, FrontEndAssumption DEF RequestInv, OwnCalls
  <2>4. FrontInv'
    BY <2>1, DistinctIds, NoErrors, FrontStep
  <2>5. StageInv' /\ AloneInv' /\ RoomInv'
    BY <2>1, NoErrors, NoShadow, StageStep, AloneStep, RoomStep
  <2>6. PassedInv' /\ WrittenInv' /\ OverdrawnInv'
    BY <2>0, <2>1, <2>2, <2>3, NoErrors, NoShadow, PassedStep, WrittenStep, OverdrawnStep
  <2>7. LosesToOthersOnly'
    BY LosesStep
  <2>8. QED BY <2>4, <2>5, <2>6, <2>7 DEF OthersInv
<1>2. OthersInv => LosesToOthersOnly
  BY DEF OthersInv
<1>3. QED BY <1>1, <1>2, OthersInit, PTL DEF FrontSpec
=============================================================================
