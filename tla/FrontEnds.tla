------------------------------- MODULE FrontEnds -------------------------------
(***************************************************************************)
(* What stands between an agent and the gate: the adapters of four agent   *)
(* frameworks, the MCP server, the hook and the replay of the command      *)
(* line.  Each has a gate of its own, and they share a store; a request is *)
(* a tool call, a JSON-RPC request, a hook event or a line of a file, and  *)
(* request d makes decision d and the commit call d, if any.               *)
(***************************************************************************)
EXTENDS GateCommit

CONSTANT Kind   \* the kind of front end a gate serves

Kinds == {"adapter", "dryAdapter", "mcp", "hook", "replay"}

ASSUME FrontEndAssumption == Kind \in [Gates -> Kinds] /\ Calls = Decisions

VARIABLES
  request,   \* how far each request is
  wants      \* what it asks for: a delivery, or only a decision

frontVars == <<vars, request, wants>>

FrontInit ==
  /\ Init
  /\ request = [d \in Decisions |-> "none"]
  /\ wants = [d \in Decisions |-> "nothing"]

\* An adapter commits unless told not to, a hook always, an MCP tool call when
\* `decide` carries commit: true, a replay under --commit.
Wishes(g) ==
  CASE Kind[g] \in {"adapter", "hook"} -> {"delivery"}
    [] Kind[g] = "dryAdapter" -> {"decision"}
    [] OTHER -> {"delivery", "decision"}

Pending(d) == request[d] \in {"asked", "committing"}
Of(g) == {d \in Decisions : eval[d].gate = g}

\* Mutant: the next line is read while the last one is being handled.
MayAskAtOnce(g) == TRUE

\* The server and the replay await one line before they read the next; the process
\* of a hook reads one event.
MayAsk(g) ==
  /\ Kind[g] \in {"mcp", "replay"} => \A d \in Of(g) : ~Pending(d)
  /\ Kind[g] = "hook" => Of(g) = {}

\* A request reaches its gate.
Ask(d, g, e, t, wish) ==
  /\ request[d] = "none"
  /\ MayAsk(g)
  /\ wish \in Wishes(g)
  /\ Begin(d, g, e, t)
  /\ request' = [request EXCEPT ![d] = "asked"]
  /\ wants' = [wants EXCEPT ![d] = wish]

\* A request the gate never sees: a tool nobody watches, or one without a payload.
PassBy(d, how) ==
  /\ request[d] = "none"
  /\ eval[d].pc = "unused"
  /\ how \in {"unwatched", "refused"}
  /\ request' = [request EXCEPT ![d] = how]
  /\ UNCHANGED <<vars, wants>>

\* The gate works on the request.
Work(d) == (RunCheck(d) \/ RunCheckThrows(d) \/ Allow(d) \/ CallStep(d)) /\ UNCHANGED <<request, wants>>

\* The store drops a marker; no request reads it again.
Forget(id) == Expire(id) /\ UNCHANGED <<request, wants>>

\* The decision is there: refuse, or answer, or commit.
TurnDown(d) ==
  /\ request[d] = "asked"
  /\ eval[d].pc = "refused"
  /\ request' = [request EXCEPT ![d] = "refused"]
  /\ UNCHANGED <<vars, wants>>

Answered(d) ==
  /\ request[d] = "asked"
  /\ eval[d].pc = "allowed"
  /\ wants[d] = "decision"
  /\ request' = [request EXCEPT ![d] = "allowed"]
  /\ UNCHANGED <<vars, wants>>

Commit(d) ==
  /\ request[d] = "asked"
  /\ wants[d] = "delivery"
  /\ eval[d].pc = "allowed"
  /\ StartCommit(d, d, eval[d].gate)
  /\ request' = [request EXCEPT ![d] = "committing"]
  /\ UNCHANGED wants

\* Mutant: the answer of commit() is not looked at.
EndingUnread(d) == "delivered"

\* What the answer of commit() makes of the request.
Ending(d) == IF call[d].result = "1" THEN "delivered" ELSE "lostAtCommit"

\* The tool runs, or the request is refused because a budget ran out at commit.
Settle(d) ==
  /\ request[d] = "committing"
  /\ call[d].pc = "returned"
  /\ request' = [request EXCEPT ![d] = Ending(d)]
  /\ UNCHANGED <<vars, wants>>

FrontNext ==
  \/ \E d \in Decisions, g \in Gates, e \in Candidates, t \in Instants,
        wish \in {"delivery", "decision"} : Ask(d, g, e, t, wish)
  \/ \E d \in Decisions, how \in {"unwatched", "refused"} : PassBy(d, how)
  \/ \E d \in Decisions : Work(d)
  \/ \E d \in Decisions : TurnDown(d)
  \/ \E d \in Decisions : Answered(d)
  \/ \E d \in Decisions : Commit(d)
  \/ \E d \in Decisions : Settle(d)
  \/ \E id \in Ids : Forget(id)

\* A request that was taken is worked on: the promises it awaits settle.
FrontFairness ==
  \A d \in Decisions :
    WF_frontVars(Work(d) \/ TurnDown(d) \/ Answered(d) \/ Commit(d) \/ Settle(d))

FrontSpec == FrontInit /\ [][FrontNext]_frontVars /\ FrontFairness

-----------------------------------------------------------------------------
(* Properties *)

Delivered == {d \in Decisions : request[d] = "delivered"}

\* The unit of check i that request d spent, by its number; 0 when it spent none.
Unit(d, i) == call[d].ticket[i]

\* What front ends draw from key k: the request and the check it drew under.
Draws(k) ==
  {u \in Decisions \X Checks : /\ eval[u[1]].candidate # None
                               /\ Key(u[2], u[1]) = k
                               /\ wants[u[1]] = "delivery"
                               /\ Unit(u[1], u[2]) > 0}

\* Each message a front end lets out after a commit holds a unit of its own of every
\* budget that counts it, one for each of two budgets that share a key, and nothing
\* else costs a unit: no decision asked for without a delivery, no explanation, no
\* refused request.
EachHoldsItsUnit ==
  /\ \A d \in Delivered, i \in Checks :
       Key(i, d) # NoKey =>
         /\ Unit(d, i) \in 1..Limit[i]
         /\ \A x \in Delivered, j \in Checks :
              Key(j, x) = Key(i, d) /\ Unit(x, j) = Unit(d, i) => x = d /\ j = i
  /\ \A k \in Keys : counter[k] = Cardinality(Draws(k))

\* A server or a replay that awaits each request loses a unit between evaluation
\* and commit only to another front end on the store, or to an earlier check of its
\* own policy that counts the same request under the same key; never to another
\* request of its own.
LosesToOthersOnly ==
  \A d \in Decisions :
    request[d] = "lostAtCommit" /\ Kind[eval[d].gate] \in {"mcp", "replay"} =>
      \E x \in Decisions, i, j \in Checks :
        /\ eval[x].candidate # None
        /\ eval[x].gate # eval[d].gate \/ (x = d /\ j < i)
        /\ Key(j, x) = Key(i, d) /\ Unit(x, j) \in 1..Limit[i]

\* However many requests race, in the end exactly min(asked, limit) of them are
\* delivered: no unit is lost between an evaluation and its commit.  For keys one
\* check counts under and that are their candidates' only one: of two budgets on one
\* key, or in a row, a race can use up units no message goes out for.
EveryUnitIsUsed ==
  \A i \in Checks, k \in Keys :
    (/\ Counting(k) = {i}
     /\ \A j \in Checks \ {i}, e \in Candidates : KeyOf[i][e] = k => KeyOf[j][e] = NoKey) =>
    <>[](LET asked == {d \in Decisions : /\ eval[d].candidate # None
                                         /\ Key(i, d) = k /\ wants[d] = "delivery"}
             count == Cardinality(asked)
         IN  Cardinality(Delivered \cap asked) = IF count < Limit[i] THEN count ELSE Limit[i])
=============================================================================
