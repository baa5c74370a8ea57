---------------------------- MODULE SqlStoreProofs ----------------------------
(***************************************************************************)
(* The SQL stores, for any number of callers, processes, keys and values,  *)
(* any lifetime and any number of statements that throw.                   *)
(*                                                                         *)
(* The argument is about two tables, the one the file holds and the one a  *)
(* transaction would go back to: each still has what set() wrote and the   *)
(* window of every claim, unless time or a pruning read took it away.  No  *)
(* call comes between the statements of a transaction, so a rollback loses *)
(* only what had expired.                                                  *)
(***************************************************************************)
EXTENDS PyStore, TLAPS

Transaction == {"txSweep", "txRead", "txWrite", "commit"}
Statements == Transaction \cup
  {"select", "compare", "prune", "sweep", "write", "remove", "begin"}
Pcs == {"idle", "wait", "lock", "done", "threw"} \cup Statements
Rows == [value : Nat, until : Nat]
Calls == [pc : Pcs, op : Operations \cup {None}, key : Keys \cup {None},
          value : Values \cup {None}, at : Nat \cup {NoTime}]

\* The types of the variables.
TypeInv ==
  /\ home \in Layouts /\ now \in Nat /\ errors \in Nat
  /\ row \in [Keys -> Rows \cup {Absent}]
  /\ committed \in [Keys -> Rows \cup {Absent}]
  /\ written \in [Cells -> Rows \cup {Absent}]
  /\ call \in [Callers -> Calls]

\* What a call is about at each of its statements, and that the clock it read is
\* not ahead.
CallOK(me, t) ==
  /\ me.pc # "idle" =>
       /\ me.op \in Operations /\ me.key \in Keys /\ me.value \in Values
       /\ me.op = "incr" => me.key \in Counters
       /\ me.op \in {"set", "del"} => me.key \in Cells
  /\ me.pc \in {"select", "compare", "prune"} => me.op = "get"
  /\ me.pc \in {"sweep", "write"} => me.op \in {"set", "incr"} /\ me.at \in Nat /\ me.at <= t
  /\ me.pc = "remove" => me.op = "del"
  /\ me.pc = "lock" =>
       /\ kind \in Python
       /\ me.op = "set" => me.at \in Nat /\ me.at <= t
       /\ me.op # "set" => me.at = NoTime
  /\ me.pc \in Transaction \cup {"begin"} => kind \in Python /\ me.op = "incr"
  /\ me.pc = "select" /\ Serial => me.at = NoTime

CallInv == \A c \in Callers : CallOK(call[c], now)

\* In one process, one call at a time is between its statements.
AloneInv ==
  Serial => \A b, c \in Callers : Running(b) /\ Running(c) /\ home[b] = home[c] => b = c

\* What a step may do to the calls.
Moves ==
  \/ call' = call
  \/ \E c \in Callers : /\ \A x \in Callers : x # c => call'[x] = call[x]
                        /\ Running(c)' => MayRun(c)

\* What a call knows stays true while time goes on.
LEMMA CallWaits ==
  ASSUME NEW me, NEW s \in Nat, NEW t \in Nat, s <= t, CallOK(me, s)
  PROVE  CallOK(me, t)
  BY DEF CallOK

\* One caller's step: the others' calls are as they were.
LEMMA OneCallMoves ==
  ASSUME TypeInv, CallInv, NEW c \in Callers,
         NEW new \in Calls,
         call' = [call EXCEPT ![c] = new], CallOK(new, now), UNCHANGED <<kind, now>>
  PROVE  /\ call' \in [Callers -> Calls]
         /\ CallInv'
         /\ call'[c] = new /\ \A x \in Callers : x # c => call'[x] = call[x]
<1>1. call'[c] = new /\ \A x \in Callers : x # c => call'[x] = call[x]
  BY DEF TypeInv
<1>2. ASSUME NEW x \in Callers PROVE CallOK(call'[x], now)
  BY <1>1 DEF CallInv
<1>3. CallInv'
  <2>1. ASSUME NEW x \in Callers PROVE CallOK(call[x], now)'
    BY <1>2 DEF CallOK, Serial
  <2>2. QED BY <2>1 DEF CallInv
<1>4. QED BY <1>1, <1>3 DEF TypeInv

\* The next statement of a call, whose arguments stay.
LEMMA Goes ==
  ASSUME TypeInv, CallInv, NEW c \in Callers, NEW pc \in Pcs, Go(c, pc),
         CallOK([call[c] EXCEPT !.pc = pc], now), UNCHANGED <<kind, now>>,
         pc \in Statements => MayRun(c)
  PROVE  /\ call' \in [Callers -> Calls]
         /\ CallInv' /\ Moves
         /\ call'[c] = [call[c] EXCEPT !.pc = pc]
         /\ \A x \in Callers : x # c => call'[x] = call[x]
<1> DEFINE new == [call[c] EXCEPT !.pc = pc]
<1>1. new \in Calls
  BY DEF TypeInv, Calls
<1>2. call' = [call EXCEPT ![c] = new]
  BY DEF Go, TypeInv
<1>3. new.pc = pc
  BY DEF TypeInv, Calls
<1> HIDE DEF new
<1>4. CallOK(new, now)
  BY DEF new
<1>5. /\ call' \in [Callers -> Calls]
      /\ CallInv'
      /\ call'[c] = new /\ \A x \in Callers : x # c => call'[x] = call[x]
  BY <1>1, <1>2, <1>4, OneCallMoves
<1>6. Running(c)' => pc \in Statements
  BY <1>3, <1>5 DEF Running, Pcs, Statements, Transaction
<1>7. QED BY <1>5, <1>6 DEF new, Moves

\* A step of any kind: time, errors and losses only grow, at most one call moves
\* and keeps its event loop or its lock, and every call stays in order.
LEMMA CallsStep ==
  ASSUME TypeInv, CallInv, [PyNext]_allVars
  PROVE  /\ call' \in [Callers -> Calls] /\ CallInv' /\ Moves
         /\ UNCHANGED <<kind, home>>
         /\ now' \in Nat /\ now <= now' /\ errors' \in Nat /\ errors <= errors'
         /\ taken \subseteq taken'
<1> DEFINE Goal == /\ call' \in [Callers -> Calls] /\ CallInv' /\ Moves
                   /\ UNCHANGED <<kind, home>>
                   /\ now' \in Nat /\ now <= now' /\ errors' \in Nat /\ errors <= errors'
                   /\ taken \subseteq taken'
<1> SUFFICES Goal
  OBVIOUS
<1>0. now \in Nat /\ errors \in Nat
  BY DEF TypeInv
<1>1. \A c \in Callers : call[c] \in Calls /\ CallOK(call[c], now)
  BY DEF TypeInv, CallInv
<1>2. ASSUME UNCHANGED <<kind, home, call>>, now' \in Nat, now <= now', errors' = errors,
             taken' = taken
      PROVE  Goal
  <2>1. CallInv'
    BY <1>0, <1>2, CallWaits DEF CallInv, CallOK, Serial
  <2>2. QED BY <1>0, <1>2, <2>1 DEF Moves, TypeInv
<1>3. ASSUME NEW c \in Callers, NEW pc \in Pcs, Go(c, pc),
             CallOK([call[c] EXCEPT !.pc = pc], now), UNCHANGED <<kind, home, now>>,
             pc \in Statements => MayRun(c),
             errors' = errors \/ errors' = errors + 1, taken \subseteq taken'
      PROVE  Goal
  BY <1>0, <1>3, Goes
<1> HIDE DEF Goal
<1>4. ASSUME NEW c \in Callers, NEW new \in Calls, call' = [call EXCEPT ![c] = new],
             CallOK(new, now), UNCHANGED <<kind, home, now>>,
             new.pc \in Statements => MayRun(c),
             errors' = errors, taken' = taken
      PROVE  Goal
  <2>1. /\ call' \in [Callers -> Calls] /\ CallInv'
        /\ call'[c] = new /\ \A x \in Callers : x # c => call'[x] = call[x]
    BY <1>4, OneCallMoves
  <2>2. Moves
    BY <1>4, <2>1 DEF Moves, Running, Calls, Pcs
  <2>3. QED BY <1>0, <1>4, <2>1, <2>2 DEF Goal
<1>6. ASSUME NEW c \in Callers, call[c].pc # "idle", NEW pc \in {"done", "threw"}
      PROVE  CallOK([call[c] EXCEPT !.pc = pc], now) /\ pc \in Pcs /\ pc \notin Statements
  BY <1>1, <1>6 DEF CallOK, Calls, Pcs, Statements, Transaction
<1>7. CASE Tick
  BY <1>0, <1>2, <1>7 DEF Tick
<1>8. CASE Initialize
  BY <1>0, <1>2, <1>8 DEF Initialize
<1>9. ASSUME NEW c \in Callers, NEW op \in Operations, NEW k \in Keys, NEW v \in Values,
             Call(c, op, k, v)
      PROVE  Goal
  <2> DEFINE new == [call[c] EXCEPT !.pc = "wait", !.op = op, !.key = k, !.value = v]
  <2>1. new \in Calls /\ new.pc = "wait" /\ new.op = op /\ new.key = k /\ new.value = v
    BY <1>1 DEF Calls, Pcs
  <2>2. call' = [call EXCEPT ![c] = new] /\ UNCHANGED <<kind, home, now, errors, taken>>
    BY <1>9 DEF Call, TypeInv
  <2>3. (op = "incr" => k \in Counters) /\ (op \in {"set", "del"} => k \in Cells)
    BY <1>9 DEF Call
  <2> HIDE DEF new
  <2>4. CallOK(new, now)
    BY <2>1, <2>3 DEF CallOK, Transaction
  <2>5. QED BY <1>4, <2>1, <2>2, <2>4 DEF Statements, Transaction
<1>10. ASSUME NEW c \in Callers, Start(c), kind \notin Python
       PROVE  Goal
  <2> DEFINE first == IF ready = "failed" THEN "threw"
                      ELSE CASE call[c].op = "get" -> "select"
                             [] call[c].op = "del" -> "remove"
                             [] OTHER              -> "sweep"
             clock == IF call[c].op = "get" /\ Serial THEN NoTime ELSE now
             new == [call[c] EXCEPT !.pc = first, !.at = clock]
  <2>1. call' = [call EXCEPT ![c] = new] /\ UNCHANGED <<kind, home, now, errors, taken>>
        /\ call[c].pc = "wait" /\ MayRun(c)
    BY <1>10 DEF Start, At
  <2>2. first \in {"threw", "select", "remove", "sweep"} /\ clock \in Nat \cup {NoTime}
    BY <1>0
  <2>3. /\ first = "select" => call[c].op = "get"
        /\ first = "remove" => call[c].op = "del"
        /\ first = "sweep" => call[c].op \notin {"get", "del"}
        /\ call[c].op # "get" => clock = now
        /\ call[c].op = "get" /\ Serial => clock = NoTime
    OBVIOUS
  <2> HIDE DEF first, clock
  <2>4. /\ new \in Calls /\ new.pc = first /\ new.at = clock
        /\ new.op = call[c].op /\ new.key = call[c].key /\ new.value = call[c].value
    BY <1>1, <2>2 DEF Calls, Pcs, Statements
  <2> HIDE DEF new
  <2>5. CallOK(new, now)
    <3>1. /\ call[c].op \in Operations /\ call[c].key \in Keys /\ call[c].value \in Values
          /\ call[c].op = "incr" => call[c].key \in Counters
          /\ call[c].op \in {"set", "del"} => call[c].key \in Cells
          /\ call[c].op \in {"get", "set", "incr", "del"}
      BY <1>1, <2>1, ModeAssumption DEF CallOK
    <3>2. QED BY <1>0, <2>2, <2>3, <2>4, <3>1 DEF CallOK, Transaction
  <2>6. QED BY <1>4, <2>1, <2>4, <2>5
<1>11. ASSUME NEW c \in Callers, Sweep(c) PROVE Goal
  <2>1. CallOK([call[c] EXCEPT !.pc = "write"], now)
    BY <1>1, <1>11 DEF CallOK, Calls, Sweep, At, Transaction
  <2>2. QED BY <1>3, <1>11, <2>1 DEF Sweep, At, Pcs, Statements
<1>12. ASSUME NEW c \in Callers, Upsert(c) \/ Overwrite(c) \/ Prune(c) \/ Remove(c) PROVE Goal
  <2>1. /\ Go(c, "done") /\ call[c].pc # "idle"
        /\ UNCHANGED <<kind, home, now, errors>> /\ taken \subseteq taken'
    BY <1>12 DEF Upsert, Overwrite, Prune, Remove, At
  <2>2. QED BY <1>3, <1>6, <2>1
<1>13. ASSUME NEW c \in Callers, Compare(c) PROVE Goal
  <2> DEFINE pc == IF call[c].at <= now THEN "prune" ELSE "done"
  <2>1. pc \in {"prune", "done"} /\ Go(c, pc) /\ MayRun(c) /\ call[c].pc = "compare"
        /\ UNCHANGED <<kind, home, now, errors, taken>>
    BY <1>13 DEF Compare, At
  <2> HIDE DEF pc
  <2>2. CallOK([call[c] EXCEPT !.pc = pc], now)
    BY <1>1, <2>1 DEF CallOK, Calls, Transaction
  <2>3. pc \in Pcs
    BY <2>1 DEF Pcs, Statements
  <2>4. QED BY <1>3, <2>1, <2>2, <2>3
<1>14. ASSUME NEW c \in Callers, Throws(c) PROVE Goal
  <2>1. /\ Go(c, "threw") /\ call[c].pc # "idle"
        /\ UNCHANGED <<kind, home, now, taken>> /\ errors' = errors + 1
    BY <1>14 DEF Throws, Running
  <2>2. QED BY <1>3, <1>6, <2>1
<1>15. ASSUME NEW c \in Callers, NEW seen \in Rows \cup {Absent}, SelectSees(c, seen) PROVE Goal
  <2>1. /\ call[c].pc = "select" /\ MayRun(c)
        /\ UNCHANGED <<kind, home, now, errors, taken>>
        /\ call' = [call EXCEPT ![c] =
             CASE seen = Absent -> [call[c] EXCEPT !.pc = "done"]
               [] seen # Absent /\ call[c].at = NoTime ->
                    [call[c] EXCEPT !.pc = "compare", !.at = seen.until]
               [] seen # Absent /\ call[c].at # NoTime ->
                    [call[c] EXCEPT !.pc = IF seen.until <= call[c].at THEN "prune" ELSE "done"]]
    BY <1>15 DEF SelectSees, At
  <2>2. \E new \in Calls :
          /\ call' = [call EXCEPT ![c] = new]
          /\ new.pc \in {"done", "compare", "prune"}
          /\ new.op = call[c].op /\ new.key = call[c].key /\ new.value = call[c].value
    <3>1. CASE seen = Absent
      <4> DEFINE new == [call[c] EXCEPT !.pc = "done"]
      <4>1. new \in Calls /\ call' = [call EXCEPT ![c] = new] /\ new.pc = "done"
            /\ new.op = call[c].op /\ new.key = call[c].key /\ new.value = call[c].value
        BY <1>1, <2>1, <3>1 DEF Calls, Pcs
      <4> HIDE DEF new
      <4>2. QED BY <4>1
    <3>2. CASE seen # Absent /\ call[c].at = NoTime
      <4> DEFINE new == [call[c] EXCEPT !.pc = "compare", !.at = seen.until]
      <4>1. seen.until \in Nat
        BY <3>2 DEF Rows
      <4>2. new \in Calls /\ call' = [call EXCEPT ![c] = new] /\ new.pc = "compare"
            /\ new.op = call[c].op /\ new.key = call[c].key /\ new.value = call[c].value
        BY <1>1, <2>1, <3>2, <4>1 DEF Calls, Pcs, Statements
      <4> HIDE DEF new
      <4>3. QED BY <4>2
    <3>3. CASE seen # Absent /\ call[c].at # NoTime
      <4> DEFINE pc == IF seen.until <= call[c].at THEN "prune" ELSE "done"
                 new == [call[c] EXCEPT !.pc = pc]
      <4>1. pc \in {"prune", "done"} /\ call' = [call EXCEPT ![c] = new]
        BY <2>1, <3>3
      <4> HIDE DEF pc
      <4>2. new \in Calls /\ new.pc = pc
            /\ new.op = call[c].op /\ new.key = call[c].key /\ new.value = call[c].value
        BY <1>1, <4>1 DEF Calls, Pcs, Statements
      <4> HIDE DEF new
      <4>3. QED BY <4>1, <4>2
    <3>4. QED BY <3>1, <3>2, <3>3
  <2>3. PICK new \in Calls :
          /\ call' = [call EXCEPT ![c] = new]
          /\ new.pc \in {"done", "compare", "prune"}
          /\ new.op = call[c].op /\ new.key = call[c].key /\ new.value = call[c].value
    BY <2>2
  <2>4. CallOK(new, now)
    BY <1>1, <2>1, <2>3 DEF CallOK, Transaction
  <2>5. QED BY <1>4, <2>1, <2>3, <2>4
<1>16. ASSUME NEW c \in Callers, Queue(c), kind \in Python PROVE Goal
  <2> DEFINE clock == IF call[c].op = "set" THEN now ELSE NoTime
             new == [call[c] EXCEPT !.pc = "lock", !.at = clock]
  <2>1. call' = [call EXCEPT ![c] = new] /\ UNCHANGED <<kind, home, now, errors, taken>>
        /\ call[c].pc = "wait"
    BY <1>16 DEF Queue, TypeInv
  <2>2. clock \in Nat \cup {NoTime}
        /\ (call[c].op = "set" => clock = now) /\ (call[c].op # "set" => clock = NoTime)
    BY <1>0
  <2> HIDE DEF clock
  <2>4. /\ new \in Calls /\ new.pc = "lock" /\ new.at = clock
        /\ new.op = call[c].op /\ new.key = call[c].key /\ new.value = call[c].value
    BY <1>1, <2>2 DEF Calls, Pcs, Statements
  <2> HIDE DEF new
  <2>5. CallOK(new, now)
    BY <1>0, <1>1, <1>16, <2>1, <2>2, <2>4 DEF CallOK, Transaction
  <2>6. QED BY <1>4, <2>1, <2>4, <2>5 DEF Statements, Transaction
<1>17. ASSUME NEW c \in Callers, At(c, "lock")
       PROVE  /\ FirstStatement(c) \in Pcs /\ CallOK([call[c] EXCEPT !.pc = FirstStatement(c)], now)
              /\ MayRun(c) /\ call[c].pc = "lock"
  <2>1. call[c].pc = "lock" /\ MayRun(c) /\ call[c].op \in {"get", "set", "incr", "del"}
    BY <1>1, <1>17, ModeAssumption DEF At, CallOK
  <2>2. FirstStatement(c) \in {"select", "sweep", "remove", "begin"}
        /\ (FirstStatement(c) = "select" <=> call[c].op = "get")
        /\ (FirstStatement(c) = "sweep" <=> call[c].op = "set")
        /\ (FirstStatement(c) = "remove" <=> call[c].op = "del")
        /\ (FirstStatement(c) = "begin" <=> call[c].op = "incr")
    BY <2>1 DEF FirstStatement
  <2>3. QED BY <1>1, <2>1, <2>2 DEF CallOK, Calls, Pcs, Statements, Transaction
<1>18. ASSUME NEW c \in Callers, Lock(c) PROVE Goal
  BY <1>3, <1>17, <1>18 DEF Lock
<1>19. ASSUME NEW c \in Callers, Open(c) PROVE Goal
  <2>1. /\ Go(c, FirstStatement(c)) \/ Go(c, "threw")
        /\ At(c, "lock") /\ UNCHANGED <<kind, home, now, taken>>
        /\ errors' = errors \/ errors' = errors + 1
    BY <1>19 DEF Open
  <2>2. QED BY <1>3, <1>6, <1>17, <2>1
<1>20. ASSUME NEW c \in Callers, BeginImmediate(c) PROVE Goal
  <2>1. /\ Go(c, "txSweep") \/ Go(c, "threw")
        /\ At(c, "begin") /\ UNCHANGED <<kind, home, now, errors, taken>>
    BY <1>20 DEF BeginImmediate
  <2>2. call[c].pc = "begin" /\ MayRun(c)
    BY <2>1 DEF At
  <2>3. CallOK([call[c] EXCEPT !.pc = "txSweep"], now) /\ "txSweep" \in Pcs
    BY <1>1, <2>2 DEF CallOK, Calls, Pcs, Statements, Transaction
  <2>4. QED BY <1>3, <1>6, <2>1, <2>2, <2>3
<1>21. ASSUME NEW c \in Callers, CancelBegin(c) \/ Rollback(c) PROVE Goal
  <2>1. /\ Go(c, "threw") /\ call[c].pc # "idle"
        /\ UNCHANGED <<kind, home, now, taken>> /\ errors' = errors + 1
    BY <1>21 DEF CancelBegin, Rollback, InTransaction, At
  <2>2. QED BY <1>3, <1>6, <2>1
<1>22. ASSUME NEW c \in Callers, TxSweep(c) \/ TxRead(c) \/ TxWrite(c) \/ Commit(c) PROVE Goal
  <2>1. PICK pc \in {"txRead", "txWrite", "commit", "done"} :
          /\ Go(c, pc) /\ MayRun(c) /\ call[c].pc \in Transaction
          /\ UNCHANGED <<kind, home, now, errors, taken>>
    BY <1>22 DEF TxSweep, TxRead, TxWrite, Commit, InTx, At, Transaction
  <2>2. CallOK([call[c] EXCEPT !.pc = pc], now) /\ pc \in Pcs
    BY <1>1, <2>1 DEF CallOK, Calls, Pcs, Statements, Transaction
  <2>3. QED BY <1>3, <2>1, <2>2
<1>23. \A c \in Callers : row[call[c].key] \in Rows \cup {Absent} \/ call[c].pc # "select"
  BY <1>1 DEF TypeInv, CallOK
<1>24. \A c \in Callers : Sees(c, call[c].key) \in Rows \cup {Absent} \/ call[c].pc # "select"
  BY <1>1 DEF TypeInv, CallOK, Sees
<1>25. ASSUME NEW c \in Callers, Select(c) PROVE Goal
  BY <1>15, <1>23, <1>25 DEF Select, SelectSees, At
<1>26. ASSUME NEW c \in Callers, Plain(c) PROVE Goal
  <2>1. CASE SelectSees(c, Sees(c, call[c].key))
    BY <1>15, <1>24, <2>1 DEF SelectSees, At
  <2>2. QED BY <1>11, <1>12, <1>13, <1>14, <1>26, <2>1 DEF Plain
<1>27. CASE UNCHANGED allVars
  BY <1>0, <1>2, <1>27 DEF allVars, vars
<1>28. CASE kind \notin Python /\ Next /\ UNCHANGED pyVars
  BY <1>7, <1>8, <1>9, <1>10, <1>11, <1>12, <1>13, <1>14, <1>25, <1>28 DEF Next
<1>29. ASSUME NEW c \in Callers, kind \in Python, PyStep(c) PROVE Goal
  BY <1>16, <1>18, <1>19, <1>20, <1>21, <1>22, <1>26, <1>29 DEF PyStep
<1>30. Goal
  BY <1>7, <1>9, <1>27, <1>28, <1>29 DEF PyNext
<1>31. QED BY <1>30 DEF Goal

\* What a move to the next statement leaves of the calls.
LEMMA GoesOn ==
  ASSUME TypeInv, NEW c \in Callers, NEW pc, Go(c, pc)
  PROVE  /\ call'[c].pc = pc /\ call'[c].key = call[c].key /\ call'[c].at = call[c].at
         /\ \A x \in Callers : x # c => call'[x] = call[x]
  BY DEF TypeInv, Calls, Go

\* Calls of one process stay one at a time.
LEMMA AloneStep ==
  ASSUME AloneInv, Moves, UNCHANGED <<kind, home>>
  PROVE  AloneInv'
<1>1. CASE call' = call
  BY <1>1 DEF AloneInv, Serial, Running
<1>2. ASSUME NEW c \in Callers, \A x \in Callers : x # c => call'[x] = call[x],
             Running(c)' => MayRun(c)
      PROVE  AloneInv'
  BY <1>2 DEF AloneInv, Serial, Running, MayRun
<1>3. QED BY <1>1, <1>2 DEF Moves

-----------------------------------------------------------------------------
(* What the tables keep *)

\* A table still has what set() wrote and the window of every claim, unless time
\* or a pruning read took it away; and no counter is below 1.
Keeps(table, cl, tk, wr, t) ==
  /\ \A a \in cl : a.key \notin tk =>
       \/ a.from + Lifetime <= t
       \/ table[a.key] # Absent /\ table[a.key].until >= a.from + Lifetime
  /\ \A k \in Cells : wr[k] # Absent /\ wr[k].until > t /\ k \notin tk => table[k] = wr[k]
  /\ \A k \in Counters : table[k] # Absent => table[k].value >= 1

Claims == [by : Callers, key : Counters, from : Int, to : Int]

\* Two claims of one window, on a key no pruning read took, are a lifetime apart.
Apart(a, b) ==
  a.key = b.key /\ a.by # b.by /\ a.key \notin taken
    => a.to - b.from >= Lifetime \/ b.to - a.from >= Lifetime

ClaimsInv == claims \subseteq Claims /\ \A a, b \in claims : Apart(a, b)

\* A transaction is its process's, and one that is open will be ended by its
\* increment, or was left by a task cancelled at BEGIN.
TxInv ==
  /\ \A c \in Callers : InTransaction(c) => writer = home[c]
  /\ writer # None =>
       \/ \E c \in Callers : InTransaction(c) /\ home[c] = writer
       \/ kind = "aiosqlite" /\ errors > 0
  /\ \A c \in Callers : call[c].pc = "commit" =>
       LET k == call[c].key IN
       /\ row[k] # Absent
       /\ row[k].value = 1 /\ k \notin taken =>
            \A a \in claims : a.key = k => a.from + Lifetime <= now

TablesInv ==
  /\ Keeps(row, claims, taken, written, now)
  /\ \A c \in Callers : InTransaction(c) => Keeps(committed, claims, taken, written, now)

StoreInv ==
  TypeInv /\ CallInv /\ AloneInv /\ ClaimsInv /\ TxInv /\ TablesInv

\* A table that loses only expired rows, and those a read is known to have taken,
\* keeps the rest.
LEMMA Fades ==
  ASSUME NEW table \in [Keys -> Rows \cup {Absent}], NEW table2, NEW cl \in SUBSET Claims,
         NEW tk, NEW tk2, tk \subseteq tk2, NEW wr \in [Cells -> Rows \cup {Absent}],
         NEW t \in Nat, NEW t2 \in Nat, t <= t2,
         Keeps(table, cl, tk, wr, t),
         \A k \in Keys : \/ table2[k] = table[k]
                         \/ /\ table2[k] = Absent
                            /\ table[k] = Absent \/ table[k].until <= t \/ k \in tk2
  PROVE  Keeps(table2, cl, tk2, wr, t2)
<1>0. Lifetime \in Nat /\ Counters \subseteq Keys /\ Cells \subseteq Keys
  BY LifetimeAssumption DEF Keys
<1>1. ASSUME NEW a \in cl, a.key \notin tk2
      PROVE  \/ a.from + Lifetime <= t2
             \/ table2[a.key] # Absent /\ table2[a.key].until >= a.from + Lifetime
  <2>1. a.key \in Counters /\ a.from \in Int /\ a.key \notin tk
    BY <1>1 DEF Claims
  <2>2. \/ a.from + Lifetime <= t
        \/ table[a.key] # Absent /\ table[a.key].until >= a.from + Lifetime
    BY <2>1 DEF Keeps
  <2>3. CASE a.from + Lifetime <= t
    BY <1>0, <2>1, <2>3
  <2>4. CASE table[a.key] # Absent /\ table[a.key].until >= a.from + Lifetime
    <3>1. table[a.key].until \in Nat
      BY <1>0, <2>1, <2>4 DEF Rows
    <3>2. QED BY <1>0, <1>1, <2>1, <2>4, <3>1
  <2>5. QED BY <2>2, <2>3, <2>4
<1>2. ASSUME NEW k \in Cells, wr[k] # Absent, wr[k].until > t2, k \notin tk2
      PROVE  table2[k] = wr[k]
  <2>1. wr[k].until \in Nat
    BY <1>2 DEF Rows
  <2>2. table[k] = wr[k] /\ table[k].until > t
    BY <1>2, <2>1 DEF Keeps
  <2>3. QED BY <1>0, <1>2, <2>1, <2>2
<1>3. ASSUME NEW k \in Counters, table2[k] # Absent
      PROVE  table2[k].value >= 1
  BY <1>0, <1>3 DEF Keeps
<1>4. QED BY <1>1, <1>2, <1>3 DEF Keeps

\* A step that touches no table and begins or ends no transaction.
LEMMA QuietStep ==
  ASSUME StoreInv, now' \in Nat, now <= now', errors' \in Nat, errors <= errors',
         UNCHANGED <<kind, home, row, claims, taken, written, writer, committed>>,
         \A x \in Callers : call[x].pc \in Transaction \/ call'[x].pc \in Transaction
                              => call'[x] = call[x]
  PROVE  ClaimsInv' /\ TxInv' /\ TablesInv'
<1> USE DEF StoreInv
<1>1. \A x \in Callers : /\ InTransaction(x)' <=> InTransaction(x)
                         /\ call'[x].pc = "commit" => call'[x] = call[x]
  BY DEF InTransaction, Transaction
<1>2. ClaimsInv'
  BY DEF ClaimsInv, Apart
<1>3. TxInv'
  <2>1. \A c \in Callers : InTransaction(c)' => writer' = home'[c]
    BY <1>1 DEF TxInv
  <2>2. writer' # None =>
          \/ \E c \in Callers : InTransaction(c)' /\ home'[c] = writer'
          \/ kind' = "aiosqlite" /\ errors' > 0
    BY <1>1 DEF TxInv, TypeInv
  <2>3. ASSUME NEW c \in Callers, call'[c].pc = "commit"
        PROVE  LET k == call'[c].key IN
               /\ row'[k] # Absent
               /\ row'[k].value = 1 /\ k \notin taken' =>
                    \A a \in claims' : a.key = k => a.from + Lifetime <= now'
    <3>1. \A a \in claims : a.from + Lifetime \in Int
      BY LifetimeAssumption DEF ClaimsInv, Claims
    <3>2. QED BY <1>1, <2>3, <3>1 DEF TxInv, TypeInv
  <2>4. QED BY <2>1, <2>2, <2>3 DEF TxInv
<1>4. TablesInv'
  <2>1. Keeps(row, claims, taken, written, now')
    BY Fades DEF TablesInv, TypeInv, ClaimsInv
  <2>2. ASSUME NEW c \in Callers, InTransaction(c)
        PROVE  Keeps(committed, claims, taken, written, now')
    BY <2>2, Fades DEF TablesInv, TypeInv, ClaimsInv
  <2>3. QED BY <1>1, <2>1, <2>2 DEF TablesInv
<1>5. QED BY <1>2, <1>3, <1>4

\* A call that may write outside a transaction finds none under way.
LEMMA NoneUnderWay ==
  ASSUME StoreInv, NEW c \in Callers, MayRun(c), call[c].pc \notin Transaction,
         kind \in Python => MayWrite(c)
  PROVE  \A x \in Callers : ~InTransaction(x)
<1> SUFFICES ASSUME NEW x \in Callers, InTransaction(x) PROVE FALSE
  OBVIOUS
<1>1. kind \in Python /\ Serial /\ Running(x)
  BY DEF StoreInv, CallInv, CallOK, InTransaction, Transaction, Python, Serial, Running
<1>2. writer = home[x] /\ home[x] # None
  BY ProcessAssumption DEF StoreInv, TxInv, TypeInv, Processes
<1>3. home[x] = home[c]
  BY <1>1, <1>2 DEF MayWrite
<1>4. x # c
  BY DEF InTransaction, Transaction
<1>5. QED BY <1>1, <1>3, <1>4 DEF MayRun

\* A step taken while no transaction is under way, that begins none.
LEMMA FreeStep ==
  ASSUME StoreInv, \A x \in Callers : ~InTransaction(x) /\ ~InTransaction(x)',
         UNCHANGED <<kind, home, writer, errors>>,
         Keeps(row', claims', taken', written', now')
  PROVE  TxInv' /\ TablesInv'
<1>1. TablesInv'
  BY DEF TablesInv
<1>2. \A c \in Callers : call'[c].pc # "commit"
  BY DEF InTransaction
<1>3. TxInv'
  BY <1>2 DEF StoreInv, TxInv
<1>4. QED BY <1>1, <1>3

\* A claim made after another's window on the key ended.
LEMMA LaterClaim ==
  ASSUME ClaimsInv, NEW b \in Claims, claims' = claims \cup {b}, UNCHANGED taken,
         b.key \notin taken =>
           \A a \in claims : a.key = b.key => a.from + Lifetime <= b.to
  PROVE  ClaimsInv'
<1>0. Lifetime \in Nat
  BY LifetimeAssumption
<1>1. ASSUME NEW a \in claims
      PROVE  Apart(a, b) /\ Apart(b, a)
  BY <1>0, <1>1 DEF Apart, ClaimsInv, Claims
<1>2. Apart(b, b)
  BY DEF Apart
<1>3. QED BY <1>1, <1>2 DEF ClaimsInv, Apart

\* The upsert of an increment: a stale clock cannot open a window inside another.
LEMMA UpsertKeeps ==
  ASSUME StoreInv, NEW c \in Callers, Upsert(c)
  PROVE  ClaimsInv' /\ Keeps(row', claims', taken', written', now')
<1> USE DEF StoreInv
<1>0. Lifetime \in Nat /\ Counters \subseteq Keys /\ Cells \subseteq Keys
      /\ \A x \in Cells : x \notin Counters
  BY LifetimeAssumption, KeyAssumption DEF Keys
<1>1. PICK k \in Counters, at \in Nat :
        /\ k = call[c].key /\ at = call[c].at /\ at <= now /\ now \in Nat
        /\ row' = [row EXCEPT ![k] = IF row[k] = Absent \/ Expired(k, at)
                                     THEN [value |-> 1, until |-> Until(at)]
                                     ELSE [row[k] EXCEPT !.value = @ + 1]]
        /\ claims' = IF (IF row[k] = Absent \/ Expired(k, at)
                         THEN [value |-> 1, until |-> Until(at)]
                         ELSE [row[k] EXCEPT !.value = @ + 1]).value = 1
                     THEN claims \cup {[by |-> c, key |-> k, from |-> at, to |-> now]}
                     ELSE claims
        /\ UNCHANGED <<now, taken, written>>
  BY DEF Upsert, At, CallInv, CallOK, TypeInv
<1>2. /\ row \in [Keys -> Rows \cup {Absent}]
      /\ claims \subseteq Claims
      /\ Keeps(row, claims, taken, written, now)
  BY DEF TypeInv, ClaimsInv, TablesInv
<1>3. \A x \in Keys : x # k => row'[x] = row[x]
  BY <1>1, <1>2
<1>4. ASSUME NEW cl \in SUBSET Claims,
             Keeps(row, claims, taken, written, now),
             row'[k] # Absent, row'[k].value >= 1,
             \A a \in cl : a.key # k => a \in claims,
             \A a \in cl : a.key = k /\ k \notin taken =>
               a.from + Lifetime <= now \/ row'[k].until >= a.from + Lifetime
      PROVE  Keeps(row', cl, taken, written, now)
  <2>1. ASSUME NEW a \in cl, a.key \notin taken
        PROVE  \/ a.from + Lifetime <= now
               \/ row'[a.key] # Absent /\ row'[a.key].until >= a.from + Lifetime
    BY <1>0, <1>3, <1>4, <2>1 DEF Keeps, Claims
  <2>2. \A x \in Cells : written[x] # Absent /\ written[x].until > now /\ x \notin taken
          => row'[x] = written[x]
    BY <1>0, <1>3, <1>4 DEF Keeps
  <2>3. \A x \in Counters : row'[x] # Absent => row'[x].value >= 1
    BY <1>0, <1>3, <1>4 DEF Keeps
  <2>4. QED BY <2>1, <2>2, <2>3 DEF Keeps
<1>5. CASE row[k] = Absent \/ Expired(k, at)
  <2>1. PICK b \in Claims : b = [by |-> c, key |-> k, from |-> at, to |-> now]
    <3>1. [by |-> c, key |-> k, from |-> at, to |-> now] \in Claims
      BY <1>1 DEF Claims
    <3>2. QED BY <3>1
  <2>2. /\ row'[k] = [value |-> 1, until |-> at + Lifetime]
        /\ claims' = claims \cup {b}
    BY <1>0, <1>1, <1>2, <1>5, <2>1 DEF Until
  <2>3. row'[k] # Absent /\ row'[k].value = 1 /\ row'[k].until = at + Lifetime
    BY <1>0, <1>1, <2>2, SentinelAssumption
  <2>4. ASSUME NEW a \in claims, a.key = k, k \notin taken
        PROVE  a.from + Lifetime <= now
    <3>1. \/ a.from + Lifetime <= now
          \/ row[k] # Absent /\ row[k].until >= a.from + Lifetime
      BY <1>2, <2>4 DEF Keeps
    <3>2. a.from \in Int /\ (row[k] # Absent => row[k].until \in Nat)
      BY <1>0, <1>2, <2>4 DEF Claims, Rows
    <3>3. QED BY <1>0, <1>1, <1>5, <3>1, <3>2 DEF Expired
  <2>5. ClaimsInv'
    <3>1. b.key = k /\ b.to = now
      BY <2>1
    <3>2. QED BY <1>1, <2>2, <2>4, <3>1, LaterClaim
  <2>6. Keeps(row', claims', taken, written, now)
    <3>1. b.key = k /\ b.from = at
      BY <2>1
    <3>2. /\ claims' \in SUBSET Claims
          /\ \A a \in claims' : a.key # k => a \in claims
      BY <1>2, <2>2, <3>1
    <3>3. ASSUME NEW a \in claims', a.key = k, k \notin taken
          PROVE  a.from + Lifetime <= now \/ row'[k].until >= a.from + Lifetime
      BY <1>0, <1>1, <2>2, <2>3, <2>4, <3>1, <3>3
    <3>4. QED BY <1>2, <1>4, <2>3, <3>2, <3>3
  <2>7. QED BY <1>1, <2>5, <2>6
<1>6. CASE row[k] # Absent /\ ~Expired(k, at)
  <2>1. row[k] \in Rows /\ row[k].value >= 1
    BY <1>0, <1>2, <1>6 DEF Keeps
  <2>2. /\ row'[k] = [row[k] EXCEPT !.value = @ + 1]
        /\ claims' = IF row'[k].value = 1
                     THEN claims \cup {[by |-> c, key |-> k, from |-> at, to |-> now]}
                     ELSE claims
    BY <1>0, <1>1, <1>2, <1>6
  <2>3. row'[k] \in Rows /\ row'[k].value = row[k].value + 1 /\ row'[k].until = row[k].until
    BY <2>1, <2>2 DEF Rows
  <2>4. claims' = claims /\ row'[k] # Absent /\ row'[k].value >= 1
    BY <2>1, <2>2, <2>3, SentinelAssumption DEF Rows
  <2>5. \A a \in claims : a.key = k /\ k \notin taken =>
          a.from + Lifetime <= now \/ row'[k].until >= a.from + Lifetime
    BY <1>2, <2>3 DEF Keeps
  <2>6. QED BY <1>1, <1>2, <1>4, <2>4, <2>5 DEF ClaimsInv, Apart
<1>7. QED BY <1>5, <1>6

\* The other statements outside a transaction.
LEMMA StatementKeeps ==
  ASSUME StoreInv, NEW c \in Callers, Sweep(c) \/ Overwrite(c) \/ Prune(c) \/ Remove(c)
  PROVE  ClaimsInv' /\ Keeps(row', claims', taken', written', now')
<1> USE DEF StoreInv
<1>0. Lifetime \in Nat /\ Counters \subseteq Keys /\ Cells \subseteq Keys
      /\ \A x \in Cells : x \notin Counters
  BY LifetimeAssumption, KeyAssumption DEF Keys
<1>1. /\ row \in [Keys -> Rows \cup {Absent}] /\ written \in [Cells -> Rows \cup {Absent}]
      /\ claims \in SUBSET Claims /\ now \in Nat
      /\ Keeps(row, claims, taken, written, now)
      /\ call[c] \in Calls /\ CallOK(call[c], now)
  BY DEF TypeInv, ClaimsInv, TablesInv, CallInv
<1>2. claims' = claims /\ now' = now /\ taken \subseteq taken'
  BY DEF Sweep, Overwrite, Prune, Remove
<1>3. ClaimsInv'
  BY <1>2 DEF ClaimsInv, Apart
<1>4. CASE Sweep(c)
  <2>1. call[c].at \in Nat /\ call[c].at <= now
    BY <1>1, <1>4 DEF Sweep, At, CallOK
  <2>2. \A k \in Keys : row[k] = Absent \/ row[k].until \in Nat
    BY <1>1 DEF Rows
  <2>3. \A k \in Keys : \/ row'[k] = row[k]
                        \/ row'[k] = Absent /\ row[k].until <= now
    BY <1>1, <1>4, <2>1, <2>2 DEF Sweep, Expired
  <2>4. written' = written /\ taken' = taken
    BY <1>4 DEF Sweep
  <2>5. QED BY <1>1, <1>2, <1>3, <2>3, <2>4, Fades
<1>5. CASE Prune(c)
  <2>1. \A k \in Keys : \/ row'[k] = row[k]
                        \/ /\ row'[k] = Absent
                           /\ row[k] = Absent \/ row[k].until <= now \/ k \in taken'
    BY <1>1, <1>5 DEF Prune, Expired
  <2>2. written' = written
    BY <1>5 DEF Prune
  <2>3. QED BY <1>1, <1>2, <1>3, <2>1, <2>2, Fades
<1>6. CASE Overwrite(c) \/ Remove(c)
  <2>1. PICK k \in Cells : \E new :
          /\ row' = [row EXCEPT ![k] = new] /\ written' = [written EXCEPT ![k] = new]
          /\ taken' = taken
    BY <1>1, <1>6 DEF Overwrite, Remove, At, CallOK
  <2>2. /\ \A x \in Keys : x # k => row'[x] = row[x]
        /\ \A x \in Cells : x # k => written'[x] = written[x]
        /\ row'[k] = written'[k]
    BY <1>0, <1>1, <2>1
  <2>3. \A a \in claims : a.key \in Counters
    BY <1>1 DEF Claims
  <2>4. QED BY <1>0, <1>1, <1>2, <1>3, <2>1, <2>2, <2>3 DEF Keeps
<1>7. QED BY <1>4, <1>5, <1>6

-----------------------------------------------------------------------------
(* The transactions *)

\* There is one transaction at a time.
LEMMA OneTransaction ==
  ASSUME StoreInv, NEW b \in Callers, NEW c \in Callers, InTransaction(b), InTransaction(c)
  PROVE  b = c
<1>1. Serial /\ Running(b) /\ Running(c)
  BY DEF StoreInv, CallInv, CallOK, InTransaction, Transaction, Python, Serial, Running
<1>2. home[b] = home[c]
  BY DEF StoreInv, TxInv
<1>3. QED BY <1>1, <1>2 DEF StoreInv, AloneInv

\* A transaction begins with what the table keeps as the way back.
LEMMA BeginStep ==
  ASSUME StoreInv, NEW c \in Callers, BeginImmediate(c) \/ CancelBegin(c), errors' \in Nat
  PROVE  ClaimsInv' /\ TxInv' /\ TablesInv'
<1> USE DEF StoreInv
<1>1. UNCHANGED <<kind, home, now, row, claims, taken, written>> /\ now \in Nat /\ errors \in Nat
      /\ call[c].pc = "begin"
  BY DEF BeginImmediate, CancelBegin, At, TypeInv
<1>2. ClaimsInv'
  BY <1>1 DEF ClaimsInv, Apart
<1>3. ASSUME writer = None
      PROVE  \A x \in Callers : ~InTransaction(x)
  BY <1>3, ProcessAssumption DEF TxInv, TypeInv, Processes
<1>4. CASE TakeWriteLock(c) /\ Go(c, "txSweep") /\ UNCHANGED errors
  <2>1. call'[c].pc = "txSweep" /\ \A x \in Callers : x # c => call'[x] = call[x]
    BY <1>4, GoesOn
  <2>2. \A x \in Callers : InTransaction(x)' <=> x = c
    BY <1>3, <1>4, <2>1 DEF InTransaction, TakeWriteLock
  <2>3. \A x \in Callers : call'[x].pc # "commit"
    BY <2>1, <2>2 DEF InTransaction
  <2>4. writer' = home[c] /\ committed' = row
    BY <1>4 DEF TakeWriteLock
  <2>5. TxInv'
    BY <1>1, <2>2, <2>3, <2>4 DEF TxInv
  <2>6. TablesInv'
    BY <1>1, <2>4 DEF TablesInv
  <2>7. QED BY <1>2, <2>5, <2>6
<1>5. CASE TakeWriteLock(c) /\ Go(c, "threw") /\ kind = "aiosqlite" /\ errors' = errors + 1
  <2>1. call'[c].pc = "threw" /\ \A x \in Callers : x # c => call'[x] = call[x]
    BY <1>5, GoesOn
  <2>2. \A x \in Callers : ~InTransaction(x)'
    BY <1>3, <1>5, <2>1 DEF InTransaction, TakeWriteLock
  <2>3. \A x \in Callers : call'[x].pc # "commit"
    BY <2>1, <2>2 DEF InTransaction
  <2>4. errors' > 0
    BY <1>1, <1>5
  <2>5. TxInv'
    BY <1>1, <1>5, <2>2, <2>3, <2>4 DEF TxInv
  <2>6. TablesInv'
    BY <1>1, <2>2 DEF TablesInv
  <2>7. QED BY <1>2, <2>5, <2>6
<1>6. CASE Go(c, "threw") /\ UNCHANGED <<writer, committed, errors>>
  <2>1. call'[c].pc = "threw" /\ \A x \in Callers : x # c => call'[x] = call[x]
    BY <1>6, GoesOn
  <2>2. QED BY <1>1, <1>6, <2>1, QuietStep DEF Transaction
<1>7. QED BY <1>4, <1>5, <1>6 DEF BeginImmediate, CancelBegin

\* A sweep or a read inside the transaction drops expired rows only.
LEMMA TxFadesStep ==
  ASSUME StoreInv, NEW c \in Callers, TxSweep(c) \/ TxRead(c)
  PROVE  ClaimsInv' /\ TxInv' /\ TablesInv'
<1> USE DEF StoreInv
<1>1. /\ UNCHANGED <<kind, home, now, claims, taken, written, errors, writer, committed>>
      /\ InTransaction(c) /\ InTransaction(c)' /\ call'[c].pc # "commit"
      /\ \A x \in Callers : x # c => call'[x] = call[x]
  BY GoesOn DEF TxSweep, TxRead, InTx, At, InTransaction
<1>2. \A x \in Callers : InTransaction(x)' <=> InTransaction(x)
  BY <1>1 DEF InTransaction
<1>3. \A x \in Callers : call'[x].pc # "commit"
  BY <1>1, <1>2, OneTransaction DEF InTransaction
<1>4. ClaimsInv'
  BY <1>1 DEF ClaimsInv, Apart
<1>5. TxInv'
  BY <1>1, <1>2, <1>3 DEF TxInv
<1>6. \A k \in Keys : row'[k] = row[k] \/ (row'[k] = Absent /\ row[k].until <= now)
  BY DEF TxSweep, TxRead, Expired, TypeInv
<1>7. Keeps(row', claims, taken, written, now)
  BY <1>6, Fades DEF TablesInv, ClaimsInv, TypeInv
<1>8. TablesInv'
  BY <1>1, <1>2, <1>7 DEF TablesInv
<1>9. QED BY <1>4, <1>5, <1>8

\* The write of the transaction: a new counter is written when every claim of the
\* key is over.
LEMMA TxWriteStep ==
  ASSUME StoreInv, NEW c \in Callers, TxWrite(c)
  PROVE  ClaimsInv' /\ TxInv' /\ TablesInv'
<1> USE DEF StoreInv
<1>0. Lifetime \in Nat /\ Counters \subseteq Keys /\ Cells \subseteq Keys /\ now \in Nat
      /\ (\A x \in Cells : x \notin Counters)
      /\ row \in [Keys -> Rows \cup {Absent}] /\ claims \subseteq Claims
      /\ Keeps(row, claims, taken, written, now)
  BY LifetimeAssumption, KeyAssumption DEF Keys, TypeInv, ClaimsInv, TablesInv
<1>1. /\ UNCHANGED <<kind, home, now, claims, taken, written, errors, writer, committed>>
      /\ InTransaction(c) /\ InTransaction(c)' /\ call'[c].key = call[c].key
      /\ \A x \in Callers : x # c => call'[x] = call[x]
  BY GoesOn DEF TxWrite, InTx, At, InTransaction
<1>2. \A x \in Callers : InTransaction(x)' <=> InTransaction(x)
  BY <1>1 DEF InTransaction
<1>3. \A x \in Callers : call'[x].pc = "commit" => x = c
  BY <1>1, <1>2, OneTransaction DEF InTransaction
<1>4. ClaimsInv'
  BY <1>1 DEF ClaimsInv, Apart
<1>5. PICK k \in Counters :
        /\ k = call[c].key
        /\ row' = [row EXCEPT ![k] = IF row[k] = Absent THEN [value |-> 1, until |-> now + Lifetime]
                                     ELSE [row[k] EXCEPT !.value = @ + 1]]
  BY DEF TxWrite, InTx, At, CallInv, CallOK, Until, Transaction
<1>6. \A x \in Keys : x # k => row'[x] = row[x]
  BY <1>0, <1>5
<1>7. /\ row'[k] # Absent /\ row'[k].value \in Nat /\ row'[k].value >= 1
      /\ row[k] # Absent => row'[k].value # 1 /\ row'[k].until = row[k].until
  <2>1. CASE row[k] = Absent
    <3>1. row'[k] = [value |-> 1, until |-> now + Lifetime]
      BY <1>0, <1>5, <2>1
    <3>2. QED BY <1>0, <2>1, <3>1, SentinelAssumption
  <2>2. CASE row[k] # Absent
    <3>1. row[k] \in Rows /\ row[k].value >= 1
      BY <1>0, <2>2 DEF Keeps
    <3>2. row'[k] = [row[k] EXCEPT !.value = @ + 1]
      BY <1>0, <1>5, <2>2
    <3>3. /\ row'[k] \in Rows
          /\ row'[k].value = row[k].value + 1 /\ row'[k].until = row[k].until
      BY <3>1, <3>2 DEF Rows
    <3>4. QED BY <3>1, <3>3, SentinelAssumption DEF Rows
  <2>3. QED BY <2>1, <2>2
<1>8. ASSUME NEW a \in claims, a.key = k, k \notin taken, row[k] = Absent
      PROVE  a.from + Lifetime <= now
  BY <1>0, <1>8 DEF Keeps
<1>9. Keeps(row', claims, taken, written, now)
  <2>1. ASSUME NEW a \in claims, a.key \notin taken
        PROVE  \/ a.from + Lifetime <= now
               \/ row'[a.key] # Absent /\ row'[a.key].until >= a.from + Lifetime
    BY <1>0, <1>6, <1>7, <1>8, <2>1 DEF Keeps, Claims
  <2>2. \A x \in Cells : row'[x] = row[x]
    BY <1>0, <1>6
  <2>3. \A x \in Counters : row'[x] # Absent => row'[x].value >= 1
    BY <1>0, <1>6, <1>7 DEF Keeps
  <2>4. QED BY <1>0, <2>1, <2>2, <2>3 DEF Keeps
<1>10. TablesInv'
  BY <1>1, <1>2, <1>9 DEF TablesInv
<1>11. TxInv'
  <2>1. \A x \in Callers : InTransaction(x)' => writer' = home'[x]
    BY <1>1, <1>2 DEF TxInv
  <2>2. writer' # None =>
          \/ \E x \in Callers : InTransaction(x)' /\ home'[x] = writer'
          \/ kind' = "aiosqlite" /\ errors' > 0
    BY <1>1, <1>2 DEF TxInv
  <2>3. /\ row'[k] # Absent
        /\ row'[k].value = 1 /\ k \notin taken =>
             \A a \in claims : a.key = k => a.from + Lifetime <= now
    BY <1>7, <1>8
  <2>4. QED BY <1>1, <1>3, <1>5, <2>1, <2>2, <2>3 DEF TxInv
<1>12. QED BY <1>4, <1>10, <1>11

\* The end of a transaction: what it wrote, with its claim, or what was there.
LEMMA EndStep ==
  ASSUME StoreInv, NEW c \in Callers, Commit(c) \/ Rollback(c)
  PROVE  ClaimsInv' /\ TxInv' /\ TablesInv'
<1> USE DEF StoreInv
<1>0. Lifetime \in Nat /\ Counters \subseteq Keys /\ now \in Nat
      /\ row \in [Keys -> Rows \cup {Absent}] /\ claims \subseteq Claims
      /\ Keeps(row, claims, taken, written, now)
  BY LifetimeAssumption DEF Keys, TypeInv, ClaimsInv, TablesInv
<1>1. /\ UNCHANGED <<kind, home, now, taken, written>> /\ writer' = None
      /\ InTransaction(c) /\ call'[c].pc \in {"done", "threw"}
      /\ \A x \in Callers : x # c => call'[x] = call[x]
  BY GoesOn DEF Commit, Rollback, InTx, At, InTransaction
<1>2. \A x \in Callers : ~InTransaction(x)'
  BY <1>1, OneTransaction DEF InTransaction
<1>3. \A x \in Callers : call'[x].pc # "commit"
  BY <1>2 DEF InTransaction
<1>4. TxInv'
  BY <1>1, <1>2, <1>3 DEF TxInv
<1>5. CASE Rollback(c)
  <2>1. row' = committed /\ claims' = claims
    BY <1>5 DEF Rollback
  <2>2. Keeps(committed, claims, taken, written, now)
    BY <1>1 DEF TablesInv
  <2>3. QED BY <1>1, <1>2, <1>4, <2>1, <2>2 DEF TablesInv, ClaimsInv, Apart
<1>6. CASE Commit(c)
  <2>1. PICK k \in Counters :
          /\ k = call[c].key /\ row[k] \in Rows
          /\ row[k].value = 1 /\ k \notin taken =>
               \A a \in claims : a.key = k => a.from + Lifetime <= now
          /\ claims' = IF row[k].value = 1
                       THEN claims \cup {[by |-> c, key |-> k, from |-> row[k].until - Lifetime,
                                          to |-> now]}
                       ELSE claims
          /\ row' = row
    <3>1. call[c].key \in Counters /\ call[c].pc = "commit"
      BY <1>6 DEF Commit, InTx, At, CallInv, CallOK, Transaction
    <3>2. row[call[c].key] # Absent
          /\ (row[call[c].key].value = 1 /\ call[c].key \notin taken =>
               \A a \in claims : a.key = call[c].key => a.from + Lifetime <= now)
      BY <3>1 DEF TxInv
    <3>3. QED BY <1>0, <1>6, <3>1, <3>2 DEF Commit
  <2>2. CASE row[k].value # 1
    <3>1. claims' = claims
      BY <2>1, <2>2
    <3>2. QED BY <1>0, <1>1, <1>2, <1>4, <2>1, <3>1 DEF TablesInv, ClaimsInv, Apart
  <2>3. CASE row[k].value = 1
    <3>1. [by |-> c, key |-> k, from |-> row[k].until - Lifetime, to |-> now] \in Claims
      BY <1>0, <2>1 DEF Claims, Rows
    <3>2. PICK b \in Claims :
            b = [by |-> c, key |-> k, from |-> row[k].until - Lifetime, to |-> now]
      BY <3>1
    <3>3. b.key = k /\ b.to = now /\ b.from + Lifetime = row[k].until /\ row[k].until \in Nat
      BY <1>0, <2>1, <3>2 DEF Rows
    <3>4. claims' = claims \cup {b}
      BY <2>1, <2>3, <3>2
    <3>5. ClaimsInv'
      BY <1>1, <2>1, <2>3, <3>3, <3>4, LaterClaim
    <3>6. Keeps(row, claims', taken, written, now)
      <4>1. row[k] # Absent
        BY <2>1, SentinelAssumption DEF Rows
      <4>2. QED BY <1>0, <3>3, <3>4, <4>1 DEF Keeps
    <3>7. QED BY <1>1, <1>2, <1>4, <2>1, <3>5, <3>6 DEF TablesInv
  <2>4. QED BY <2>2, <2>3
<1>7. QED BY <1>5, <1>6

-----------------------------------------------------------------------------
(* Every step *)

\* What a step leaves in the tables are rows.
LEMMA TypeStep ==
  ASSUME TypeInv, CallInv, [PyNext]_allVars
  PROVE  TypeInv'
<1>0. /\ call' \in [Callers -> Calls] /\ UNCHANGED <<kind, home>>
      /\ now' \in Nat /\ errors' \in Nat
  BY CallsStep
<1>1. /\ row \in [Keys -> Rows \cup {Absent}] /\ committed \in [Keys -> Rows \cup {Absent}]
      /\ written \in [Cells -> Rows \cup {Absent}] /\ now \in Nat /\ home \in Layouts
      /\ \A c \in Callers : call[c] \in Calls /\ CallOK(call[c], now)
  BY DEF TypeInv, CallInv
<1> DEFINE Typed == /\ row' \in [Keys -> Rows \cup {Absent}]
                    /\ committed' \in [Keys -> Rows \cup {Absent}]
                    /\ written' \in [Cells -> Rows \cup {Absent}]
<1> SUFFICES Typed
  BY <1>0, <1>1 DEF TypeInv
<1>2. ASSUME UNCHANGED <<row, committed, written>> PROVE Typed
  BY <1>1, <1>2
<1>3. ASSUME UNCHANGED <<row, written>>,
             committed' = committed \/ committed' = row \/ committed' = Untouched
      PROVE  Typed
  BY <1>1, <1>3 DEF Untouched
<1>4. ASSUME UNCHANGED <<committed, written>>,
             \A k \in Keys : row'[k] \in Rows \cup {Absent},
             row' = [k \in Keys |-> row'[k]]
      PROVE  Typed
  BY <1>1, <1>4
<1>5. ASSUME NEW k \in Keys, NEW new \in Rows \cup {Absent}, row' = [row EXCEPT ![k] = new],
             UNCHANGED committed,
             written' = written \/ (k \in Cells /\ written' = [written EXCEPT ![k] = new])
      PROVE  Typed
  BY <1>1, <1>5
<1> HIDE DEF Typed
<1>6. CASE /\ \/ Tick \/ Initialize
              \/ \E c \in Callers, op \in Operations, k \in Keys, v \in Values : Call(c, op, k, v)
           /\ UNCHANGED pyVars
  BY <1>2, <1>6 DEF Tick, Initialize, Call, pyVars
<1>7. \A t \in Nat : Until(t) \in Nat
  BY LifetimeAssumption DEF Until
<1>8. Counters \subseteq Keys /\ Cells \subseteq Keys
  BY DEF Keys
<1>9. ASSUME NEW c \in Callers, Upsert(c), UNCHANGED committed PROVE Typed
  <2> DEFINE new == IF row[call[c].key] = Absent \/ Expired(call[c].key, call[c].at)
                    THEN [value |-> 1, until |-> Until(call[c].at)]
                    ELSE [row[call[c].key] EXCEPT !.value = @ + 1]
  <2>1. call[c].key \in Keys /\ call[c].at \in Nat
    BY <1>1, <1>8, <1>9 DEF Upsert, At, CallOK
  <2>2. [value |-> 1, until |-> Until(call[c].at)] \in Rows
    BY <1>7, <2>1 DEF Rows
  <2>3. row[call[c].key] # Absent => [row[call[c].key] EXCEPT !.value = @ + 1] \in Rows
    BY <1>1, <2>1 DEF Rows
  <2>4. new \in Rows
    BY <2>2, <2>3
  <2>5. row' = [row EXCEPT ![call[c].key] = new] /\ written' = written
    BY <1>9 DEF Upsert
  <2> HIDE DEF new
  <2>6. QED BY <1>5, <1>9, <2>1, <2>4, <2>5
<1>10. ASSUME NEW c \in Callers, Overwrite(c), UNCHANGED committed PROVE Typed
  <2>1. call[c].key \in Cells /\ call[c].at \in Nat /\ call[c].value \in Nat
    BY <1>1, <1>10, ValueAssumption DEF Overwrite, At, CallOK
  <2>2. [value |-> call[c].value, until |-> Until(call[c].at)] \in Rows
    BY <1>7, <2>1 DEF Rows
  <2>3. QED BY <1>5, <1>8, <1>10, <2>1, <2>2 DEF Overwrite
<1>11. ASSUME NEW c \in Callers, Sweep(c) \/ TxSweep(c), UNCHANGED committed PROVE Typed
  <2>1. UNCHANGED written /\ row' = [k \in Keys |-> row'[k]]
        /\ \A k \in Keys : row'[k] \in Rows \cup {Absent}
    BY <1>1, <1>11 DEF Sweep, TxSweep, InTx
  <2>2. QED BY <1>4, <1>11, <2>1
<1>12. ASSUME NEW c \in Callers, Prune(c) \/ Remove(c), UNCHANGED committed PROVE Typed
  <2>1. call[c].key \in Keys /\ (Remove(c) => call[c].key \in Cells)
    BY <1>1, <1>12 DEF Prune, Remove, At, CallOK
  <2>2. QED BY <1>5, <1>12, <2>1 DEF Prune, Remove
<1>13. ASSUME NEW c \in Callers, Select(c) \/ Compare(c) \/ Throws(c) \/ Start(c)
                \/ SelectSees(c, Sees(c, call[c].key)), UNCHANGED committed
       PROVE  Typed
  BY <1>2, <1>13 DEF Select, SelectSees, Compare, Throws, Start
<1>14. ASSUME NEW c \in Callers, Queue(c) \/ Lock(c) \/ Open(c) PROVE Typed
  BY <1>2, <1>14 DEF Queue, Lock, Open, pyVars
<1>15. ASSUME NEW c \in Callers, BeginImmediate(c) \/ CancelBegin(c) PROVE Typed
  BY <1>3, <1>15 DEF BeginImmediate, CancelBegin, TakeWriteLock
<1>16. ASSUME NEW c \in Callers, TxRead(c) PROVE Typed
  <2>1. call[c].key \in Keys /\ UNCHANGED <<committed, written>>
    BY <1>1, <1>16 DEF TxRead, InTx, At, CallOK
  <2>2. CASE row' = row
    BY <1>2, <2>1, <2>2
  <2>3. CASE row' = [row EXCEPT ![call[c].key] = Absent]
    BY <1>5, <2>1, <2>3
  <2>4. QED BY <1>16, <2>2, <2>3 DEF TxRead
<1>17. ASSUME NEW c \in Callers, TxWrite(c) PROVE Typed
  <2> DEFINE new == IF row[call[c].key] = Absent THEN [value |-> 1, until |-> Until(now)]
                    ELSE [row[call[c].key] EXCEPT !.value = @ + 1]
  <2>1. call[c].key \in Keys /\ UNCHANGED <<committed, written>>
    BY <1>1, <1>17 DEF TxWrite, InTx, At, CallOK
  <2>2. new \in Rows
    BY <1>1, <1>7, <2>1 DEF Rows
  <2>3. row' = [row EXCEPT ![call[c].key] = new]
    BY <1>17 DEF TxWrite
  <2> HIDE DEF new
  <2>4. QED BY <1>5, <2>1, <2>2, <2>3
<1>18. ASSUME NEW c \in Callers, Commit(c) PROVE Typed
  BY <1>3, <1>18 DEF Commit, InTx
<1>19. ASSUME NEW c \in Callers, Rollback(c) PROVE Typed
  BY <1>1, <1>19 DEF Rollback, Untouched, Typed
<1>20. CASE UNCHANGED allVars
  BY <1>2, <1>20 DEF allVars, vars, pyVars
<1>21. CASE Next /\ UNCHANGED pyVars
  BY <1>6, <1>9, <1>10, <1>11, <1>12, <1>13, <1>21 DEF Next, pyVars
<1>22. ASSUME NEW c \in Callers, PyStep(c) PROVE Typed
  <2>1. CASE Plain(c)
    <3>1. UNCHANGED committed
      BY <2>1 DEF Plain, pyVars
    <3>2. QED BY <1>10, <1>11, <1>12, <1>13, <2>1, <3>1 DEF Plain
  <2>2. CASE TxSweep(c)
    BY <1>11, <2>2 DEF TxSweep
  <2>3. QED BY <1>14, <1>15, <1>16, <1>17, <1>18, <1>19, <1>22, <2>1, <2>2 DEF PyStep
<1>23. QED BY <1>6, <1>20, <1>21, <1>22 DEF PyNext

\* Every step keeps the stores' invariant.
LEMMA StoreStep == StoreInv /\ [PyNext]_allVars => StoreInv'
<1> SUFFICES ASSUME StoreInv, [PyNext]_allVars PROVE StoreInv'
  OBVIOUS
<1>0. /\ TypeInv /\ CallInv /\ TypeInv' /\ CallInv' /\ Moves /\ AloneInv'
      /\ UNCHANGED <<kind, home>>
      /\ now' \in Nat /\ now <= now' /\ errors' \in Nat /\ errors <= errors'
  BY CallsStep, TypeStep, AloneStep DEF StoreInv
<1> DEFINE Kept == ClaimsInv' /\ TxInv' /\ TablesInv'
<1> SUFFICES Kept
  BY <1>0 DEF StoreInv
<1>1. ASSUME UNCHANGED <<row, claims, taken, written, writer, committed>>,
             \A x \in Callers : call[x].pc \in Transaction \/ call'[x].pc \in Transaction
                              => call'[x] = call[x]
      PROVE  Kept
  BY <1>0, <1>1, QuietStep
<1>2. ASSUME NEW c \in Callers, MayRun(c), call[c].pc \notin Transaction,
             kind \in Python => MayWrite(c),
             Sweep(c) \/ Overwrite(c) \/ Prune(c) \/ Remove(c) \/ Upsert(c),
             UNCHANGED <<writer, errors>>
      PROVE  Kept
  <2>1. \A x \in Callers : ~InTransaction(x)
    BY <1>2, NoneUnderWay
  <2>2. \E pc \in {"write", "done"} : Go(c, pc)
    BY <1>2 DEF Sweep, Overwrite, Prune, Remove, Upsert
  <2>3. call'[c].pc \in {"write", "done"} /\ \A x \in Callers : x # c => call'[x] = call[x]
    BY <1>0, <2>2, GoesOn
  <2>4. \A x \in Callers : ~InTransaction(x)'
    BY <2>1, <2>3 DEF InTransaction
  <2>5. ClaimsInv' /\ Keeps(row', claims', taken', written', now')
    BY <1>2, StatementKeeps, UpsertKeeps
  <2>6. QED BY <1>0, <1>2, <2>1, <2>4, <2>5, FreeStep
<1> HIDE DEF Kept
<1>3. ASSUME NEW c \in Callers, Start(c) \/ Queue(c) \/ Lock(c) \/ Open(c)
                \/ Compare(c) \/ Select(c) \/ SelectSees(c, Sees(c, call[c].key))
                \/ (~InTransaction(c) /\ Throws(c)),
             UNCHANGED <<writer, committed>>
      PROVE  Kept
  <2>1. UNCHANGED <<row, claims, taken, written>> /\ call[c].pc \notin Transaction
    BY <1>3 DEF Start, Queue, Lock, Open, Compare, Select, SelectSees, Throws, At, InTransaction,
                Transaction
  <2>2. call'[c].pc \notin Transaction /\ \A x \in Callers : x # c => call'[x] = call[x]
    <3>1. CASE Start(c)
      <4>1. \E first \in {"threw", "select", "remove", "sweep"} : \E at :
              call' = [call EXCEPT ![c] = [@ EXCEPT !.pc = first, !.at = at]]
        <5> DEFINE first == IF ready = "failed" THEN "threw"
                            ELSE CASE call[c].op = "get" -> "select"
                                   [] call[c].op = "del" -> "remove"
                                   [] OTHER              -> "sweep"
                   clock == IF call[c].op = "get" /\ Serial THEN NoTime ELSE now
        <5>1. first \in {"threw", "select", "remove", "sweep"}
          OBVIOUS
        <5>2. call' = [call EXCEPT ![c] = [@ EXCEPT !.pc = first, !.at = clock]]
          BY <3>1 DEF Start
        <5> HIDE DEF first, clock
        <5>3. QED BY <5>1, <5>2
      <4>2. QED BY <1>0, <4>1 DEF TypeInv, Calls, Transaction
    <3>2. CASE Queue(c)
      BY <1>0, <3>2 DEF Queue, TypeInv, Calls, Transaction
    <3>3. CASE Lock(c) \/ Open(c)
      <4>1. call[c].op \in {"get", "set", "incr", "del"}
        BY <1>0, <3>3, ModeAssumption DEF Lock, Open, At, CallInv, CallOK
      <4>2. FirstStatement(c) \notin Transaction
        BY <4>1 DEF FirstStatement, Transaction
      <4>3. Go(c, FirstStatement(c)) \/ Go(c, "threw")
        BY <3>3 DEF Lock, Open
      <4>4. QED BY <1>0, <4>2, <4>3, GoesOn DEF Transaction
    <3>4. CASE Compare(c)
      <4>1. Go(c, "prune") \/ Go(c, "done")
        BY <3>4 DEF Compare
      <4>2. QED BY <1>0, <4>1, GoesOn DEF Transaction
    <3>5. CASE Throws(c)
      BY <1>0, <3>5, GoesOn DEF Throws, Transaction
    <3>6. ASSUME NEW seen, SelectSees(c, seen)
          PROVE  call'[c].pc \notin Transaction /\ \A x \in Callers : x # c => call'[x] = call[x]
      <4>1. call[c] \in Calls
        BY <1>0 DEF TypeInv
      <4> DEFINE next ==
            CASE seen = Absent -> [call[c] EXCEPT !.pc = "done"]
              [] seen # Absent /\ call[c].at = NoTime ->
                   [call[c] EXCEPT !.pc = "compare", !.at = seen.until]
              [] seen # Absent /\ call[c].at # NoTime ->
                   [call[c] EXCEPT !.pc = IF seen.until <= call[c].at THEN "prune" ELSE "done"]
      <4>2. call' = [call EXCEPT ![c] = next]
        BY <3>6 DEF SelectSees
      <4>3. next.pc \in {"done", "compare", "prune"}
        <5>1. CASE seen = Absent
          BY <4>1, <5>1 DEF Calls
        <5>2. CASE seen # Absent /\ call[c].at = NoTime
          BY <4>1, <5>2 DEF Calls
        <5>3. CASE seen # Absent /\ call[c].at # NoTime
          BY <4>1, <5>3 DEF Calls
        <5>4. QED BY <5>1, <5>2, <5>3
      <4> HIDE DEF next
      <4>4. QED BY <1>0, <4>2, <4>3 DEF TypeInv, Transaction
    <3>7. QED BY <1>3, <3>1, <3>2, <3>3, <3>4, <3>5, <3>6 DEF Select
  <2>3. QED BY <1>1, <1>3, <2>1, <2>2
<1>4. ASSUME NEW c \in Callers, NEW op \in Operations, NEW k \in Keys, NEW v \in Values,
             Call(c, op, k, v), UNCHANGED pyVars
      PROVE  Kept
  <2>1. \A x \in Callers : \/ call'[x] = call[x]
                           \/ call[x].pc = "idle" /\ call'[x].pc = "wait"
    BY <1>0, <1>4 DEF Call, TypeInv, Calls
  <2>2. QED BY <1>1, <1>4, <2>1 DEF Call, Transaction, pyVars
<1>5. CASE (Tick \/ Initialize) /\ UNCHANGED pyVars
  BY <1>1, <1>5 DEF Tick, Initialize, pyVars
<1>6. CASE UNCHANGED allVars
  BY <1>1, <1>6 DEF allVars, vars, pyVars
<1>7. ASSUME NEW c \in Callers, PyStep(c), kind \in Python
      PROVE  Kept
  <2>1. CASE Plain(c)
    <3>1. CASE MayWrite(c) /\ (Sweep(c) \/ Overwrite(c) \/ Prune(c) \/ Remove(c))
      <4>1. UNCHANGED <<writer, errors>> /\ MayRun(c) /\ call[c].pc \notin Transaction
        BY <2>1, <3>1 DEF Plain, pyVars, Sweep, Overwrite, Prune, Remove, At, Transaction
      <4>2. QED BY <1>2, <3>1, <4>1
    <3>2. QED BY <1>3, <2>1, <3>1 DEF Plain, pyVars
  <2>2. CASE Queue(c) \/ Lock(c) \/ Open(c)
    BY <1>3, <2>2 DEF Queue, Lock, Open, pyVars
  <2>3. CASE BeginImmediate(c) \/ CancelBegin(c)
    BY <1>0, <2>3, BeginStep DEF Kept
  <2>4. CASE TxSweep(c) \/ TxRead(c)
    BY <2>4, TxFadesStep DEF Kept
  <2>5. CASE TxWrite(c)
    BY <2>5, TxWriteStep DEF Kept
  <2>6. CASE Commit(c) \/ Rollback(c)
    BY <2>6, EndStep DEF Kept
  <2>7. QED BY <1>7, <2>1, <2>2, <2>3, <2>4, <2>5, <2>6 DEF PyStep
<1>8. CASE kind \notin Python /\ Next /\ UNCHANGED pyVars
  <2>1. UNCHANGED <<writer, committed>>
    BY <1>8 DEF pyVars
  <2>2. \A c \in Callers : ~InTransaction(c)
    BY <1>0, <1>8 DEF CallInv, CallOK, InTransaction, Transaction
  <2>3. ASSUME NEW c \in Callers,
               Sweep(c) \/ Overwrite(c) \/ Prune(c) \/ Remove(c) \/ Upsert(c)
        PROVE  Kept
    <3>1. UNCHANGED errors /\ MayRun(c) /\ call[c].pc \notin Transaction
      BY <2>3 DEF Sweep, Overwrite, Prune, Remove, Upsert, At, Transaction
    <3>2. QED BY <1>2, <1>8, <2>1, <2>3, <3>1
  <2>4. QED BY <1>3, <1>4, <1>5, <1>8, <2>1, <2>2, <2>3 DEF Next
<1>9. Kept
  BY <1>4, <1>5, <1>6, <1>7, <1>8 DEF PyNext
<1>10. QED BY <1>9 DEF Kept

\* At first there is nothing to keep.
LEMMA StoreInit == PyInit => StoreInv
<1> SUFFICES ASSUME PyInit PROVE StoreInv
  OBVIOUS
<1>1. \A c \in Callers : call[c].pc = "idle"
  BY DEF PyInit, Init
<1>2. TypeInv
  BY DEF PyInit, Init, TypeInv, Calls, Pcs, Untouched
<1>3. CallInv
  BY <1>1 DEF CallInv, CallOK, Transaction
<1>4. AloneInv
  BY <1>1 DEF AloneInv, Running
<1>5. \A c \in Callers : ~InTransaction(c) /\ call[c].pc # "commit"
  BY <1>1 DEF InTransaction
<1>6. Keeps(row, claims, taken, written, now)
  BY DEF PyInit, Init, Keeps, Keys
<1>7. ClaimsInv /\ TxInv /\ TablesInv
  BY <1>5, <1>6 DEF ClaimsInv, TxInv, TablesInv, PyInit, Init
<1>8. QED BY <1>2, <1>3, <1>4, <1>7 DEF StoreInv

\* What set() wrote is in the table until it expires, is overwritten or removed,
\* and a window has one claimant, for every interleaving of callers and processes:
\* only a pruning read can break either.
THEOREM OnlyPrunesLose == PySpec => []WritesLostToPruneOnly
<1>1. StoreInv => WritesLostToPruneOnly
  BY DEF StoreInv, TablesInv, Keeps, ClaimsInv, Apart, WritesLostToPruneOnly
<1>2. QED BY <1>1, StoreInit, StoreStep, PTL DEF PySpec

\* A transaction nobody will end is a task's cancelled at BEGIN; until there is
\* one, every process reads what set() wrote, inside the transactions of others
\* and after a rollback too.
THEOREM TransactionsAreEnded == PySpec => []TransactionsEnd
<1>1. ASSUME StoreInv PROVE TransactionsEnd
  <2>1. Abandoned => kind = "aiosqlite" /\ errors > 0
    BY <1>1 DEF StoreInv, TxInv, Abandoned
  <2>2. ASSUME ~Abandoned, NEW c \in Callers, NEW k \in Cells,
               written[k] # Absent, written[k].until > now, k \notin taken
        PROVE  Sees(c, k) = written[k]
    <3>1. CASE MayWrite(c)
      BY <1>1, <2>2, <3>1 DEF StoreInv, TablesInv, Keeps, Sees
    <3>2. CASE ~MayWrite(c)
      <4>1. PICK x \in Callers : InTransaction(x)
        BY <2>2, <3>2 DEF Abandoned, MayWrite
      <4>2. Keeps(committed, claims, taken, written, now)
        BY <1>1, <4>1 DEF StoreInv, TablesInv
      <4>3. QED BY <2>2, <3>2, <4>2 DEF Keeps, Sees
    <3>3. QED BY <3>1, <3>2
  <2>3. QED BY <2>1, <2>2 DEF TransactionsEnd
<1>2. StoreInv => TransactionsEnd
  BY <1>1
<1>3. QED BY <1>2, StoreInit, StoreStep, PTL DEF PySpec

-----------------------------------------------------------------------------
(* One process *)

\* In one process, the row a read has seen is the row of its key until it is done:
\* what it prunes has expired.
OneProcess == Serial /\ \A b, c \in Callers : home[b] = home[c]

WriterInv == writer = None \/ \E c \in Callers : writer = home[c]

PruneInv ==
  OneProcess =>
    /\ taken = {}
    /\ \A c \in Callers :
         LET k == call[c].key IN
         /\ call[c].pc = "compare" => row[k] # Absent /\ row[k].until = call[c].at
         /\ call[c].pc = "prune" => row[k] # Absent /\ row[k].until <= now

\* The write lock is some caller's process's.
LEMMA WriterStep ==
  ASSUME WriterInv, UNCHANGED home, [PyNext]_allVars
  PROVE  WriterInv'
<1>1. \/ writer' \in {writer, None}
      \/ \E c \in Callers : writer' = home[c]
  <2>1. ASSUME NEW c \in Callers, PyStep(c)
        PROVE  writer' \in {writer, None} \/ writer' = home[c]
    BY <2>1 DEF PyStep, Queue, Lock, Open, Plain, BeginImmediate, CancelBegin, TakeWriteLock,
       TxSweep, TxRead, TxWrite, Commit, Rollback, pyVars
  <2>2. QED BY <2>1 DEF PyNext, pyVars, allVars
<1>2. QED BY <1>1 DEF WriterInv

\* A read between its statements is left alone by every statement of another call.
LEMMA PruneStep == StoreInv /\ WriterInv /\ PruneInv /\ [PyNext]_allVars => PruneInv'
<1> SUFFICES ASSUME StoreInv, WriterInv, PruneInv, [PyNext]_allVars, OneProcess
             PROVE  /\ taken' = {}
                    /\ \A c \in Callers :
                         LET k == call'[c].key IN
                         /\ call'[c].pc = "compare" => row'[k] # Absent /\ row'[k].until = call'[c].at
                         /\ call'[c].pc = "prune" => row'[k] # Absent /\ row'[k].until <= now'
  <2>1. StoreInv /\ [PyNext]_allVars => UNCHANGED <<kind, home>>
    BY CallsStep DEF StoreInv
  <2>2. QED BY <2>1 DEF PruneInv, OneProcess, Serial
<1>0. /\ TypeInv /\ CallInv /\ TypeInv' /\ Serial
      /\ now' \in Nat /\ now \in Nat /\ now <= now'
      /\ taken = {}
  BY CallsStep, TypeStep DEF StoreInv, OneProcess, PruneInv, TypeInv
<1>1. \A c \in Callers :
        /\ call[c] \in Calls /\ CallOK(call[c], now)
        /\ call[c].pc \in {"compare", "prune"} => row[call[c].key] \in Rows
        /\ call[c].pc = "compare" => row[call[c].key] # Absent /\ row[call[c].key].until = call[c].at
        /\ call[c].pc = "prune" => row[call[c].key] # Absent /\ row[call[c].key].until <= now
  <2>1. ASSUME NEW c \in Callers
        PROVE  /\ call[c] \in Calls /\ CallOK(call[c], now)
               /\ call[c].pc \in {"compare", "prune"} => call[c].key \in Keys
               /\ call[c].pc = "compare" => row[call[c].key] # Absent /\ row[call[c].key].until = call[c].at
               /\ call[c].pc = "prune" => row[call[c].key] # Absent /\ row[call[c].key].until <= now
    BY <1>0 DEF PruneInv, CallInv, CallOK, TypeInv
  <2>2. QED BY <1>0, <2>1 DEF TypeInv
<1> DEFINE Sound(c) ==
             /\ call'[c].pc = "compare" => row'[call'[c].key] # Absent
                                           /\ row'[call'[c].key].until = call'[c].at
             /\ call'[c].pc = "prune" => row'[call'[c].key] # Absent
                                         /\ row'[call'[c].key].until <= now'
           Goal == taken' = {} /\ \A c \in Callers : Sound(c)
<1> SUFFICES Goal
  OBVIOUS
<1>2. ASSUME NEW c \in Callers, call'[c] = call[c], row' = row PROVE Sound(c)
  BY <1>0, <1>1, <1>2 DEF Rows
<1>3. ASSUME NEW c \in Callers, call'[c].pc \notin {"compare", "prune"} PROVE Sound(c)
  BY <1>3
<1>4. ASSUME UNCHANGED <<row, taken>>,
             \A c \in Callers : call'[c] = call[c] \/ call'[c].pc \notin {"compare", "prune"}
      PROVE  Goal
  BY <1>0, <1>2, <1>3, <1>4
<1>5. ASSUME NEW c \in Callers, Running(c), call'[c].pc \notin {"compare", "prune"},
             \A x \in Callers : x # c => call'[x] = call[x], taken' = taken
      PROVE  Goal
  <2>1. ASSUME NEW x \in Callers, x # c
        PROVE  call'[x].pc \notin {"compare", "prune"}
    BY <1>5, <2>1 DEF StoreInv, AloneInv, OneProcess, Running
  <2>2. QED BY <1>0, <1>3, <1>5, <2>1
<1>6. ASSUME UNCHANGED <<row, call, taken>> PROVE Goal
  BY <1>4, <1>6
<1>7. ASSUME UNCHANGED <<row, taken>>, NEW c \in Callers,
             \A x \in Callers : x # c => call'[x] = call[x], Sound(c)
      PROVE  Goal
  BY <1>0, <1>2, <1>7
<1> HIDE DEF Goal
<1>8. ASSUME NEW c \in Callers, Prune(c) PROVE Goal
  <2>1. ~(row[call[c].key] # Absent /\ ~Expired(call[c].key, now))
    BY <1>1, <1>8 DEF Prune, At, Expired
  <2>2. taken' = taken /\ Go(c, "done") /\ Running(c)
    BY <1>8, <2>1 DEF Prune, At, Running
  <2>3. QED BY <1>0, <1>5, <2>2, GoesOn
<1>9. ASSUME NEW c \in Callers, NEW pc, pc \notin {"compare", "prune"}, Go(c, pc), taken' = taken,
             Running(c) \/ row' = row
      PROVE  Goal
  <2>1. call'[c].pc = pc /\ \A x \in Callers : x # c => call'[x] = call[x]
    BY <1>0, <1>9, GoesOn
  <2>2. QED BY <1>4, <1>5, <1>9, <2>1
<1>10. ASSUME NEW c \in Callers, Sweep(c) \/ Upsert(c) \/ Overwrite(c) \/ Remove(c) PROVE Goal
  <2>1. /\ Go(c, "write") \/ Go(c, "done")
        /\ taken' = taken /\ Running(c)
    BY <1>10 DEF Sweep, Upsert, Overwrite, Remove, At, Running
  <2>2. QED BY <1>9, <2>1
<1>11. ASSUME NEW c \in Callers, Compare(c) PROVE Goal
  <2>1. call[c].pc = "compare" /\ Go(c, IF call[c].at <= now THEN "prune" ELSE "done")
        /\ UNCHANGED <<row, taken, now>>
    BY <1>11 DEF Compare, At
  <2>2. /\ call'[c].pc = (IF call[c].at <= now THEN "prune" ELSE "done")
        /\ call'[c].key = call[c].key
        /\ \A x \in Callers : x # c => call'[x] = call[x]
    BY <1>0, <2>1, GoesOn
  <2>3. Sound(c)
    BY <1>1, <2>1, <2>2
  <2>4. QED BY <1>7, <2>1, <2>2, <2>3
<1>12. ASSUME NEW c \in Callers, SelectSees(c, row[call[c].key]) PROVE Goal
  <2>1. call[c].pc = "select" /\ call[c].at = NoTime /\ call[c] \in Calls
    BY <1>0, <1>1, <1>12 DEF SelectSees, At, CallOK
  <2>2. /\ row[call[c].key] = Absent => call' = [call EXCEPT ![c] = [call[c] EXCEPT !.pc = "done"]]
        /\ row[call[c].key] # Absent =>
             call' = [call EXCEPT ![c] = [call[c] EXCEPT !.pc = "compare", !.at = row[call[c].key].until]]
        /\ UNCHANGED <<row, taken>>
    BY <1>12, <2>1 DEF SelectSees
  <2>3. Sound(c) /\ \A x \in Callers : x # c => call'[x] = call[x]
    <3>1. CASE row[call[c].key] = Absent
      BY <1>0, <2>1, <2>2, <3>1 DEF TypeInv, Calls
    <3>2. CASE row[call[c].key] # Absent
      <4>1. PICK u : u = row[call[c].key].until
        OBVIOUS
      <4>2. call' = [call EXCEPT ![c] = [call[c] EXCEPT !.pc = "compare", !.at = u]]
        BY <2>2, <3>2, <4>1
      <4>3. /\ call'[c].pc = "compare" /\ call'[c].key = call[c].key /\ call'[c].at = u
            /\ \A x \in Callers : x # c => call'[x] = call[x]
        BY <1>0, <2>1, <4>2 DEF TypeInv, Calls
      <4>4. QED BY <2>2, <3>2, <4>1, <4>3
    <3>3. QED BY <3>1, <3>2
  <2>4. QED BY <1>7, <2>2, <2>3
<1>13. ASSUME NEW c \in Callers PROVE Sees(c, call[c].key) = row[call[c].key]
  BY DEF Sees, MayWrite, WriterInv, OneProcess
<1>14. ASSUME NEW c \in Callers, Select(c) \/ SelectSees(c, Sees(c, call[c].key)) PROVE Goal
  <2>1. SelectSees(c, row[call[c].key])
    BY <1>13, <1>14 DEF Select
  <2>2. QED BY <1>12, <2>1
<1>15. ASSUME NEW c \in Callers, Throws(c) PROVE Goal
  BY <1>9, <1>15 DEF Throws
<1>16. ASSUME NEW c \in Callers, Start(c) PROVE Goal
  <2> DEFINE first == IF ready = "failed" THEN "threw"
                      ELSE CASE call[c].op = "get" -> "select"
                             [] call[c].op = "del" -> "remove"
                             [] OTHER              -> "sweep"
             clock == IF call[c].op = "get" /\ Serial THEN NoTime ELSE now
  <2>1. first \in {"threw", "select", "remove", "sweep"}
    OBVIOUS
  <2>2. call' = [call EXCEPT ![c] = [@ EXCEPT !.pc = first, !.at = clock]]
        /\ UNCHANGED <<row, taken>>
    BY <1>16 DEF Start
  <2> HIDE DEF first, clock
  <2>3. call'[c].pc = first /\ \A x \in Callers : x # c => call'[x] = call[x]
    BY <1>0, <2>2 DEF TypeInv, Calls
  <2>4. QED BY <1>4, <2>1, <2>2, <2>3
<1>17. ASSUME NEW c \in Callers, NEW op \in Operations, NEW k \in Keys, NEW v \in Values,
              Call(c, op, k, v)
       PROVE  Goal
  <2>1. call'[c].pc = "wait" /\ \A x \in Callers : x # c => call'[x] = call[x]
    BY <1>0, <1>17 DEF Call, TypeInv, Calls
  <2>2. QED BY <1>4, <1>17, <2>1 DEF Call
<1>18. ASSUME NEW c \in Callers, Queue(c) PROVE Goal
  <2>1. call'[c].pc = "lock" /\ \A x \in Callers : x # c => call'[x] = call[x]
    BY <1>0, <1>18 DEF Queue, TypeInv, Calls
  <2>2. QED BY <1>4, <1>18, <2>1 DEF Queue
<1>19. ASSUME NEW c \in Callers, Lock(c) \/ Open(c) PROVE Goal
  <2>1. call[c].op \in {"get", "set", "incr", "del"}
    BY <1>1, <1>19, ModeAssumption DEF Lock, Open, At, CallOK
  <2>2. FirstStatement(c) \notin {"compare", "prune"}
    BY <2>1 DEF FirstStatement
  <2>3. Go(c, FirstStatement(c)) \/ Go(c, "threw")
    BY <1>19 DEF Lock, Open
  <2>4. UNCHANGED <<row, taken>>
    BY <1>19 DEF Lock, Open
  <2>5. QED BY <1>9, <2>2, <2>3, <2>4
<1>20. ASSUME NEW c \in Callers, BeginImmediate(c) \/ CancelBegin(c) PROVE Goal
  <2>1. /\ Go(c, "txSweep") \/ Go(c, "threw")
        /\ UNCHANGED <<row, taken>>
    BY <1>20 DEF BeginImmediate, CancelBegin
  <2>2. QED BY <1>9, <2>1
<1>21. ASSUME NEW c \in Callers,
              TxSweep(c) \/ TxRead(c) \/ TxWrite(c) \/ Commit(c) \/ Rollback(c)
       PROVE  Goal
  <2>1. /\ Go(c, "txRead") \/ Go(c, "txWrite") \/ Go(c, "commit") \/ Go(c, "done") \/ Go(c, "threw")
        /\ taken' = taken /\ Running(c)
    BY <1>21 DEF TxSweep, TxRead, TxWrite, Commit, Rollback, InTx, InTransaction, At, Running
  <2>2. QED BY <1>9, <2>1
<1>22. CASE (Tick \/ Initialize) \/ UNCHANGED allVars
  BY <1>6, <1>22 DEF Tick, Initialize, allVars, vars
<1>23. CASE Next
  BY <1>8, <1>10, <1>11, <1>14, <1>15, <1>16, <1>17, <1>22, <1>23 DEF Next
<1>24. ASSUME NEW c \in Callers, PyStep(c) PROVE Goal
  <2>1. CASE Plain(c)
    BY <1>8, <1>10, <1>11, <1>14, <1>15, <2>1 DEF Plain
  <2>2. QED BY <1>18, <1>19, <1>20, <1>21, <1>24, <2>1 DEF PyStep
<1>25. QED BY <1>17, <1>22, <1>23, <1>24 DEF PyNext

\* A store that one process uses, and whose statements do not interleave, never
\* deletes a live row by reading it.
THEOREM OneProcessIsSafe == PySpec => []OneProcessPrunesTheDead
<1>1. PyInit => WriterInv /\ PruneInv
  BY DEF PyInit, Init, WriterInv, PruneInv
<1>2. StoreInv /\ WriterInv /\ [PyNext]_allVars => WriterInv'
  BY CallsStep, WriterStep DEF StoreInv
<1>3. PruneInv => OneProcessPrunesTheDead
  BY DEF PruneInv, OneProcess, OneProcessPrunesTheDead
<1>4. QED BY <1>1, <1>2, <1>3, StoreInit, StoreStep, PruneStep, PTL DEF PySpec
=============================================================================
