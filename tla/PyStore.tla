-------------------------------- MODULE PyStore --------------------------------
(***************************************************************************)
(* The SqliteStore and AsyncSqliteStore of the Python package, beside the  *)
(* stores of SqlStore.                                                     *)
(*                                                                         *)
(* Each method holds the lock of its store, one per process, so only other *)
(* processes come between its statements.  get, set and delete send the    *)
(* statements of SqlStore; an increment is a transaction.  BEGIN IMMEDIATE *)
(* takes the write lock of the file: until the end of the transaction the  *)
(* other processes cannot write, and read what was committed.              *)
(*                                                                         *)
(* AsyncSqliteStore hands its statements to a thread, in order.  Cancelling *)
(* a task throws into its await, and the statement takes effect all the    *)
(* same.                                                                   *)
(***************************************************************************)
EXTENDS SqlStore

VARIABLES
  writer,     \* the process with a transaction open, or None
  committed,  \* the table before that transaction
  opened      \* per process: "no", "ok", or "broken" after a first use that threw

pyVars == <<writer, committed, opened>>
allVars == <<vars, pyVars>>

Processes == UNION {{layout[c] : c \in Callers} : layout \in Layouts}
ASSUME ProcessAssumption == None \notin Processes

Python == {"python", "aiosqlite"}
Untouched == [k \in Keys |-> Absent]

\* SqliteStore makes its table when it is constructed, AsyncSqliteStore when it is
\* first used.
PyInit ==
  /\ Init
  /\ writer = None
  /\ committed = Untouched
  /\ opened = [p \in Processes |-> IF kind = "aiosqlite" THEN "no" ELSE "ok"]

InTransaction(c) == call[c].pc \in {"txSweep", "txRead", "txWrite", "commit"}

\* A method is called.  A write reads the clock before it waits for the lock.
Queue(c) ==
  /\ call[c].pc = "wait"
  /\ call' = [call EXCEPT ![c].pc = "lock", ![c].at = IF call[c].op = "set" THEN now ELSE NoTime]
  /\ UNCHANGED <<kind, home, now, row, ready, claims, taken, written, errors, pyVars>>

FirstStatement(c) ==
  CASE call[c].op = "get" -> "select" [] call[c].op = "set" -> "sweep"
    [] call[c].op = "del" -> "remove" [] call[c].op = "incr" -> "begin"

\* with self._lock
Lock(c) ==
  /\ At(c, "lock")
  /\ opened[home[c]] = "ok"
  /\ Go(c, FirstStatement(c))
  /\ UNCHANGED <<kind, home, now, row, ready, claims, taken, written, errors, pyVars>>

\* _open(): the connection is awaited and the table made.  When that throws, the
\* next call awaits the connection a second time, which it does not allow.
Open(c) ==
  /\ At(c, "lock")
  /\ \/ /\ opened[home[c]] = "no"
        /\ opened' = [opened EXCEPT ![home[c]] = "ok"]
        /\ Go(c, FirstStatement(c))
        /\ UNCHANGED errors
     \/ /\ opened[home[c]] = "no"
        /\ errors < MaxErrors
        /\ errors' = errors + 1
        /\ opened' = [opened EXCEPT ![home[c]] = "broken"]
        /\ Go(c, "threw")
     \/ /\ opened[home[c]] = "broken"
        /\ Go(c, "threw")
        /\ UNCHANGED <<opened, errors>>
  /\ UNCHANGED <<kind, home, now, row, ready, claims, taken, written, writer, committed>>

-----------------------------------------------------------------------------
(* The increment *)

\* The write lock of the file, once its process has it.
TakeWriteLock(c) ==
  /\ writer = None
  /\ writer' = home[c]
  /\ committed' = row

\* BEGIN IMMEDIATE waits for other processes, and throws inside a transaction.
BeginImmediate(c) ==
  /\ At(c, "begin")
  /\ \/ TakeWriteLock(c) /\ Go(c, "txSweep")
     \/ writer = home[c] /\ Go(c, "threw") /\ UNCHANGED <<writer, committed>>
  /\ UNCHANGED <<kind, home, now, row, ready, claims, taken, written, errors, opened>>

\* The task is cancelled in that await, which is outside the try.
CancelBegin(c) ==
  /\ At(c, "begin")
  /\ kind = "aiosqlite"
  /\ errors < MaxErrors
  /\ errors' = errors + 1
  /\ TakeWriteLock(c)
  /\ Go(c, "threw")
  /\ UNCHANGED <<kind, home, now, row, ready, claims, taken, written, opened>>

\* One statement of the transaction.
InTx(c, pc, next) ==
  /\ At(c, pc)
  /\ UNCHANGED <<kind, home, now, ready, taken, written, errors, opened>>
  /\ Go(c, next)

TxSweep(c) ==
  /\ InTx(c, "txSweep", "txRead")
  /\ row' = [k \in Keys |-> IF Expired(k, now) THEN Absent ELSE row[k]]
  /\ UNCHANGED <<claims, writer, committed>>

\* _row(): the clock may have gone on since the sweep.
TxRead(c) ==
  LET k == call[c].key IN
  /\ InTx(c, "txRead", "txWrite")
  /\ row' = IF Expired(k, now) THEN [row EXCEPT ![k] = Absent] ELSE row
  /\ UNCHANGED <<claims, writer, committed>>

\* INSERT of a new counter, which reads the clock again; UPDATE of one that is there.
TxWrite(c) ==
  LET k == call[c].key IN
  /\ InTx(c, "txWrite", "commit")
  /\ row' = [row EXCEPT ![k] = IF row[k] = Absent THEN [value |-> 1, until |-> Until(now)]
                               ELSE [row[k] EXCEPT !.value = @ + 1]]
  /\ UNCHANGED <<claims, writer, committed>>

Commit(c) ==
  LET k == call[c].key IN
  /\ InTx(c, "commit", "done")
  /\ claims' = IF row[k].value = 1
               THEN claims \cup {[by |-> c, key |-> k, from |-> row[k].until - Lifetime, to |-> now]}
               ELSE claims
  /\ writer' = None
  /\ committed' = Untouched
  /\ UNCHANGED row

\* Mutant: an exception leaves the transaction open.
LeaveOpen(c) ==
  /\ At(c, call[c].pc)
  /\ InTransaction(c)
  /\ errors < MaxErrors
  /\ errors' = errors + 1
  /\ Go(c, "threw")
  /\ UNCHANGED <<kind, home, now, row, ready, claims, taken, written, pyVars>>

\* A statement of the transaction throws, or its task is cancelled: ROLLBACK.
Rollback(c) ==
  /\ InTransaction(c)
  /\ errors < MaxErrors
  /\ errors' = errors + 1
  /\ Go(c, "threw")
  /\ row' = committed
  /\ writer' = None
  /\ committed' = Untouched
  /\ UNCHANGED <<kind, home, now, ready, claims, taken, written, opened>>

-----------------------------------------------------------------------------

\* May the process of c write to the file?
MayWrite(c) == writer \in {None, home[c]}

\* What the process of c reads.
Sees(c, k) == IF MayWrite(c) THEN row[k] ELSE committed[k]

\* The statements the Python stores share with SqliteStore.
Plain(c) ==
  /\ \/ MayWrite(c) /\ (Sweep(c) \/ Overwrite(c) \/ Prune(c) \/ Remove(c))
     \/ SelectSees(c, Sees(c, call[c].key))
     \/ Compare(c)
     \/ ~InTransaction(c) /\ Throws(c)
  /\ UNCHANGED pyVars

PyStep(c) ==
  \/ Queue(c) \/ Lock(c) \/ Open(c) \/ Plain(c)
  \/ BeginImmediate(c) \/ CancelBegin(c)
  \/ TxSweep(c) \/ TxRead(c) \/ TxWrite(c) \/ Commit(c) \/ Rollback(c)

PyNext ==
  \/ kind \notin Python /\ Next /\ UNCHANGED pyVars
  \/ kind \in Python /\ Tick /\ UNCHANGED pyVars
  \/ kind \in Python /\ UNCHANGED pyVars
       /\ \E c \in Callers, op \in Operations, k \in Keys, v \in Values : Call(c, op, k, v)
  \/ kind \in Python /\ \E c \in Callers : PyStep(c)

PySpec == PyInit /\ [][PyNext]_allVars

-----------------------------------------------------------------------------
(* Properties *)

\* A transaction open without an increment that would end it: no other process can
\* write, and each later increment of its own process throws.
Abandoned == writer # None /\ \A c \in Callers : InTransaction(c) => home[c] # writer

\* No increment leaves its transaction open, whatever statement of it throws and
\* whatever other processes run; only a task cancelled while it awaits BEGIN does.
\* That aside, what set() wrote is in the file for every process to read, until it
\* expires, is overwritten or is removed, also when an increment is rolled back.
TransactionsEnd ==
  /\ Abandoned => kind = "aiosqlite" /\ errors > 0
  /\ ~Abandoned =>
       \A c \in Callers, k \in Cells :
         written[k] # Absent /\ written[k].until > now /\ k \notin taken
           => Sees(c, k) = written[k]
=============================================================================
