------------------------------- MODULE KeyStore -------------------------------
(***************************************************************************)
(* What the gate expects of any store: a map whose keys vanish the instant *)
(* they expire, with atomic operations, where an increment opens a window  *)
(* that later increments do not move.  MemoryStore implements it, and so   *)
(* does RedisStore on a client that can run scripts.                       *)
(***************************************************************************)
EXTENDS Integers

CONSTANTS Keys, Values, Lifetimes, Never, Absent

VARIABLES now,    \* the store's clock
          row,    \* the live keys: a value and an expiry, or Absent
          reply   \* what the last operation answered

store == <<now, row, reply>>

\* The expiry a write at time t gives: a lifetime of 0 stands for none.
Until(t, ttl) == IF ttl = 0 THEN Never ELSE t + ttl

Reply(op, k, answer) == [op |-> op, key |-> k, answer |-> answer]

Init ==
  /\ now = 0
  /\ row = [k \in Keys |-> Absent]
  /\ reply = Absent

\* Time passes and what expires is gone.
Tick ==
  /\ now' = now + 1
  /\ row' = [k \in Keys |->
               IF row[k] # Absent /\ row[k].until = now' THEN Absent ELSE row[k]]
  /\ UNCHANGED reply

Get(k) ==
  /\ reply' = Reply("get", k, IF row[k] = Absent THEN Absent ELSE row[k].value)
  /\ UNCHANGED <<now, row>>

Set(k, v, ttl) ==
  /\ row' = [row EXCEPT ![k] = [value |-> v, until |-> Until(now, ttl)]]
  /\ reply' = Reply("set", k, Absent)
  /\ UNCHANGED now

Incr(k, ttl) ==
  LET next == IF row[k] = Absent
              THEN [value |-> 1, until |-> Until(now, ttl)]
              ELSE [value |-> row[k].value + 1, until |-> row[k].until]
  IN  /\ row' = [row EXCEPT ![k] = next]
      /\ reply' = Reply("incr", k, next.value)
      /\ UNCHANGED now

Del(k) ==
  /\ row' = [row EXCEPT ![k] = Absent]
  /\ reply' = Reply("del", k, Absent)
  /\ UNCHANGED now

Next ==
  \/ Tick
  \/ \E k \in Keys :
       \/ Get(k)
       \/ \E v \in Values, ttl \in Lifetimes : Set(k, v, ttl)
       \/ \E ttl \in Lifetimes : Incr(k, ttl)
       \/ Del(k)

Spec == Init /\ [][Next]_store
=============================================================================
