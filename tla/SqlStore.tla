------------------------------- MODULE SqlStore -------------------------------
(***************************************************************************)
(* PostgresStore and SqliteStore: operations of concurrent callers on one  *)
(* table whose rows outlive their expiry until a statement removes them.   *)
(*                                                                         *)
(* An operation is a sequence of statements, each atomic in the database.  *)
(* In PostgresStore every statement is awaited, so the statements of all   *)
(* callers interleave; the statements of a SqliteStore run without an      *)
(* await, so only those of other processes on the same file come between.  *)
(* The clock an operation compares with is read once: before the first     *)
(* statement, but after the SELECT in SqliteStore's get().  The Python      *)
(* stores, which share these statements, are in PyStore.                   *)
(***************************************************************************)
EXTENDS StoreKeys

CONSTANTS
  Layouts,           \* the ways to spread the callers over processes
  Operations,        \* the operations the callers use
  Lifetime,          \* ttlSeconds of an increment or a write
  Kinds,             \* the stores: "postgres", "sqlite", and the two of PyStore
  NoTime, None

ASSUME LifetimeAssumption == Lifetime \in Nat \ {0}
ASSUME SentinelAssumption == NoTime \notin Nat /\ Absent \notin [value : Nat, until : Nat]
ASSUME ModeAssumption == /\ Kinds \subseteq {"postgres", "sqlite", "python", "aiosqlite"}
                         /\ Operations \subseteq {"get", "set", "incr", "del"}

VARIABLES
  kind,     \* the store in use, the same throughout
  home,     \* the process of each caller, the same throughout
  row,      \* the table: a value and an expiry per key, or Absent
  call,     \* per caller: the statement it is about to run, and its operation
  ready,    \* "pending", "ok" or "failed": initialize() of PostgresStore
  claims,   \* history: the increments that answered 1
  taken,    \* history: the keys whose live row a pruning read removed
  written   \* history: per cell, the row the last set() wrote, or Absent

vars == <<kind, home, now, row, call, ready, claims, taken, written, errors>>

\* In one process, does one operation run after the other?  A SqliteStore does not
\* await between its statements, or holds a lock while it runs them.
Serial == kind # "postgres"

Init ==
  /\ kind \in Kinds
  /\ home \in Layouts
  /\ now = 0
  /\ row = [k \in Keys |-> Absent]
  /\ call = [c \in Callers |->
       [pc |-> "idle", op |-> None, key |-> None, value |-> None, at |-> NoTime]]
  /\ ready = IF Serial THEN "ok" ELSE "pending"
  /\ claims = {}
  /\ taken = {}
  /\ written = [k \in Cells |-> Absent]
  /\ errors = 0

Running(c) == call[c].pc \notin {"idle", "wait", "lock", "done", "threw"}

\* Mutant: an await between the statements of a SqliteStore, and no lock.
MayRunAwaited(c) ==
  kind \in {"python", "aiosqlite"} =>
    \A x \in Callers : x # c /\ home[x] = home[c] => ~Running(x)

\* The caller that is between two statements keeps the event loop of its process,
\* or the lock.
MayRun(c) ==
  Serial => \A x \in Callers : x # c /\ home[x] = home[c] => ~Running(x)

At(c, pc) == call[c].pc = pc /\ MayRun(c)
Go(c, pc) == call' = [call EXCEPT ![c].pc = pc]

\* CREATE TABLE IF NOT EXISTS, once per store: it may fail, and is not retried.
Initialize ==
  /\ ready = "pending"
  /\ ready' \in {"ok", "failed"}
  /\ UNCHANGED <<kind, home, now, row, call, claims, taken, written, errors>>

\* A caller calls a method of the store, and waits for the store to be ready.
Call(c, op, k, v) ==
  /\ call[c].pc = "idle"
  /\ op = "incr" => k \in Counters
  /\ op \in {"set", "del"} => k \in Cells
  /\ call' = [call EXCEPT ![c] = [@ EXCEPT !.pc = "wait", !.op = op, !.key = k, !.value = v]]
  /\ UNCHANGED <<kind, home, now, row, ready, claims, taken, written, errors>>

\* The promise of initialize() has settled.
Settled == ready # "pending"

\* waitReady(): initialize() settled; its failure is every operation's failure.
\* Otherwise the clock is read and the first statement sent.
Start(c) ==
  /\ At(c, "wait")
  /\ Settled
  /\ LET first == IF ready = "failed" THEN "threw"
                  ELSE CASE call[c].op = "get" -> "select"
                         [] call[c].op = "del" -> "remove"
                         [] OTHER              -> "sweep"
         clock == IF call[c].op = "get" /\ Serial THEN NoTime ELSE now
     IN  call' = [call EXCEPT ![c] = [@ EXCEPT !.pc = first, !.at = clock]]
  /\ UNCHANGED <<kind, home, now, row, ready, claims, taken, written, errors>>

\* Mutant: a row is dead a tick before its expiry.
ExpiredEarly(k, t) == row[k] # Absent /\ row[k].until <= t + 1

Expired(k, t) == row[k] # Absent /\ row[k].until <= t

\* now + ttlSeconds * 1000
Until(t) == t + Lifetime

\* Mutant: the sweep deletes every row that has an expiry.
SweepAll(c) ==
  /\ At(c, "sweep")
  /\ row' = [k \in Keys |-> Absent]
  /\ Go(c, "write")
  /\ UNCHANGED <<kind, home, now, ready, claims, taken, written, errors>>

\* DELETE ... WHERE expires_at <= $1, with the clock read at the start.
Sweep(c) ==
  /\ At(c, "sweep")
  /\ row' = [k \in Keys |-> IF Expired(k, call[c].at) THEN Absent ELSE row[k]]
  /\ Go(c, "write")
  /\ UNCHANGED <<kind, home, now, ready, claims, taken, written, errors>>

\* The upsert of incr(): one more in a live window, 1 in a new one.
Upsert(c) ==
  LET k    == call[c].key
      at   == call[c].at
      next == IF row[k] = Absent \/ Expired(k, at)
              THEN [value |-> 1, until |-> Until(at)]
              ELSE [row[k] EXCEPT !.value = @ + 1]
  IN
  /\ At(c, "write")
  /\ call[c].op = "incr"
  /\ row' = [row EXCEPT ![k] = next]
  /\ claims' = IF next.value = 1
               THEN claims \cup {[by |-> c, key |-> k, from |-> at, to |-> now]}
               ELSE claims
  /\ Go(c, "done")
  /\ UNCHANGED <<kind, home, now, ready, taken, written, errors>>

\* The upsert of set().
Overwrite(c) ==
  LET k    == call[c].key
      next == [value |-> call[c].value, until |-> Until(call[c].at)]
  IN
  /\ At(c, "write")
  /\ call[c].op = "set"
  /\ row' = [row EXCEPT ![k] = next]
  /\ written' = [written EXCEPT ![k] = next]
  /\ Go(c, "done")
  /\ UNCHANGED <<kind, home, now, ready, claims, taken, errors>>

\* SELECT, with what it sees: a live row is the answer; an expired one is deleted
\* next.  Where the clock is read afterwards, the row seen waits to be compared.
SelectSees(c, seen) ==
  LET me == call[c] IN
  /\ At(c, "select")
  /\ call' = [call EXCEPT ![c] =
       CASE seen = Absent -> [me EXCEPT !.pc = "done"]
         [] seen # Absent /\ me.at = NoTime -> [me EXCEPT !.pc = "compare", !.at = seen.until]
         [] seen # Absent /\ me.at # NoTime ->
              [me EXCEPT !.pc = IF seen.until <= me.at THEN "prune" ELSE "done"]]
  /\ UNCHANGED <<kind, home, now, row, ready, claims, taken, written, errors>>

Select(c) == SelectSees(c, row[call[c].key])

\* expires_at <= clock(), with the expiry the SELECT saw.
Compare(c) ==
  /\ At(c, "compare")
  /\ Go(c, IF call[c].at <= now THEN "prune" ELSE "done")
  /\ UNCHANGED <<kind, home, now, row, ready, claims, taken, written, errors>>

\* DELETE ... WHERE key = $1, whatever the row holds by now.
Prune(c) ==
  /\ At(c, "prune")
  /\ row' = [row EXCEPT ![call[c].key] = Absent]
  /\ taken' = IF row[call[c].key] # Absent /\ ~Expired(call[c].key, now)
              THEN taken \cup {call[c].key} ELSE taken
  /\ Go(c, "done")
  /\ UNCHANGED <<kind, home, now, ready, claims, written, errors>>

\* del().
Remove(c) ==
  LET k == call[c].key IN
  /\ At(c, "remove")
  /\ row' = [row EXCEPT ![k] = Absent]
  /\ written' = [written EXCEPT ![k] = Absent]
  /\ Go(c, "done")
  /\ UNCHANGED <<kind, home, now, ready, claims, taken, errors>>

\* A statement throws before it took effect; one that throws after it is the
\* statement itself, whose answer the caller never sees.
Throws(c) ==
  /\ Running(c)
  /\ MayRun(c)
  /\ errors < MaxErrors
  /\ errors' = errors + 1
  /\ Go(c, "threw")
  /\ UNCHANGED <<kind, home, now, row, ready, claims, taken, written>>

Tick ==
  /\ now < MaxNow
  /\ now' = now + 1
  /\ UNCHANGED <<kind, home, row, call, ready, claims, taken, written, errors>>

Next ==
  \/ Tick
  \/ Initialize
  \/ \E c \in Callers, op \in Operations, k \in Keys, v \in Values : Call(c, op, k, v)
  \/ \E c \in Callers : Start(c)
  \/ \E c \in Callers : Sweep(c)
  \/ \E c \in Callers : Upsert(c)
  \/ \E c \in Callers : Overwrite(c)
  \/ \E c \in Callers : Select(c)
  \/ \E c \in Callers : Compare(c)
  \/ \E c \in Callers : Prune(c)
  \/ \E c \in Callers : Remove(c)
  \/ \E c \in Callers : Throws(c)

Spec == Init /\ [][Next]_vars

-----------------------------------------------------------------------------
(* Properties *)

TypeOK ==
  /\ now \in 0..MaxNow
  /\ \A k \in Keys : row[k] # Absent =>
       row[k].value \in Nat /\ row[k].until \in 0..(MaxNow + Lifetime)
  /\ ready \in {"pending", "ok", "failed"}
  /\ errors \in 0..MaxErrors

\* Of two callers that were both told 1 for one counter (and, for dedupe, both
\* told to send), one finished at least a lifetime after the other was called.
OneClaimPerWindow ==
  \A a, b \in claims :
    a.key = b.key /\ a.by # b.by => a.to - b.from >= Lifetime \/ b.to - a.from >= Lifetime

\* What set() wrote is there until it expires, is overwritten or is deleted,
\* whatever other calls sweep; and a window has one claimant.  Stale clocks and
\* statements that throw cannot change that: only a read that saw the row of an
\* earlier window, and removed the live one by its key, can.
WritesLostToPruneOnly ==
  /\ \A k \in Cells :
       written[k] # Absent /\ written[k].until > now /\ k \notin taken => row[k] = written[k]
  /\ \A a, b \in claims :
       a.key = b.key /\ a.by # b.by /\ a.key \notin taken
         => a.to - b.from >= Lifetime \/ b.to - a.from >= Lifetime

\* The statements of a SqliteStore used by one process do not interleave: no
\* read of it removes a live row.
OneProcessPrunesTheDead ==
  Serial /\ (\A c, x \in Callers : home[c] = home[x]) => taken = {}

=============================================================================
