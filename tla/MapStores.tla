------------------------------ MODULE MapStores ------------------------------
(***************************************************************************)
(* MemoryStore and RedisStore: operations of concurrent callers on a map   *)
(* that answers for an expired key as if it were gone.                     *)
(*                                                                         *)
(* MemoryStore is the map of one process, and each of its methods runs to  *)
(* its end without an await.  For RedisStore the map is the server's.      *)
(* With a client that has eval, an increment and its expiry are one script *)
(* on the server; without it they are two round trips, INCR and EXPIRE,    *)
(* and other callers' commands run between them.  A round trip can throw.  *)
(***************************************************************************)
EXTENDS StoreKeys

CONSTANTS
  Lifetimes,        \* ttlSeconds; 0 stands for none given
  Never

Entries == [value : Nat, until : Nat \cup {Never}]

ASSUME LifetimesAssumption == Lifetimes \subseteq Nat
ASSUME EntryAssumption == Never \notin Nat /\ Absent \notin Entries

VARIABLES
  client,   \* "memory", or RedisStore on a client with "eval" or with "commands"
            \* only; the same throughout
  data,     \* the map, expired entries included
  calling,  \* per caller: idle, expire (between INCR and EXPIRE) or done
  reply,    \* what the map last answered
  firsts    \* history: the increments that were answered 1

mapVars == <<client, now, data, calling, reply, firsts, errors>>

\* ttlSeconds ? clock() + ttlSeconds * 1000 : null
ExpiresAt(t, ttl) == IF ttl = 0 THEN Never ELSE t + ttl

\* Mutant: an entry still lives at the instant it expires.
LapsedLate(k) ==
  data[k] # Absent /\ data[k].until # Never /\ data[k].until < now

Lapsed(k) ==
  data[k] # Absent /\ data[k].until # Never /\ data[k].until <= now

\* live(): what the key holds now.
Live(k) == IF Lapsed(k) THEN Absent ELSE data[k]

Reply(op, k, answer) == [op |-> op, key |-> k, answer |-> answer]

MapInit ==
  /\ client \in {"memory", "eval", "commands"}
  /\ now = 0
  /\ data = [k \in Keys |-> Absent]
  /\ calling = [c \in Callers |-> [pc |-> "idle", key |-> Absent, ttl |-> 0]]
  /\ reply = Absent
  /\ firsts = {}
  /\ errors = 0

\* A call of caller c begins, and goes to pc.
Begin(c, pc, k, ttl) ==
  /\ calling[c].pc = "idle"
  /\ calling' = [calling EXCEPT ![c] = [pc |-> pc, key |-> k, ttl |-> ttl]]

\* The claim an answer of 1 makes.
Claimed(c, k, value, ttl) ==
  firsts' = IF value = 1
            THEN firsts \cup {[by |-> c, key |-> k, at |-> now, life |-> ttl]} ELSE firsts

\* MemoryStore drops the expired entry it meets.
Get(c, k) ==
  /\ Begin(c, "done", k, 0)
  /\ data' = IF client = "memory" THEN [data EXCEPT ![k] = Live(k)] ELSE data
  /\ reply' = Reply("get", k, IF Live(k) = Absent THEN Absent ELSE Live(k).value)
  /\ UNCHANGED <<client, now, firsts, errors>>

Set(c, k, v, ttl) ==
  /\ Begin(c, "done", k, ttl)
  /\ data' = [data EXCEPT ![k] = [value |-> v, until |-> ExpiresAt(now, ttl)]]
  /\ reply' = Reply("set", k, Absent)
  /\ UNCHANGED <<client, now, firsts, errors>>

Del(c, k) ==
  /\ Begin(c, "done", k, 0)
  /\ data' = [data EXCEPT ![k] = Absent]
  /\ reply' = Reply("del", k, Absent)
  /\ UNCHANGED <<client, now, firsts, errors>>

\* The entry an increment leaves: a new one lives until the instant given.
Incremented(k, until) ==
  IF Live(k) = Absent THEN [value |-> 1, until |-> until]
  ELSE [value |-> Live(k).value + 1, until |-> Live(k).until]

\* Mutant: every increment sets the expiry.
OpenedSliding(k, ttl) ==
  [value |-> Incremented(k, Never).value, until |-> ExpiresAt(now, ttl)]

\* Mutant: the script forgets the expiry.
OpenedForever(k, ttl) == Incremented(k, Never)

\* The increment of MemoryStore, and of the script: INCR, and EXPIRE when the
\* increment created the key.
Opened(k, ttl) == Incremented(k, ExpiresAt(now, ttl))

Incr(c, k, ttl) ==
  /\ client # "commands"
  /\ Begin(c, "done", k, ttl)
  /\ data' = [data EXCEPT ![k] = Opened(k, ttl)]
  /\ reply' = Reply("incr", k, Opened(k, ttl).value)
  /\ Claimed(c, k, Opened(k, ttl).value, ttl)
  /\ UNCHANGED <<client, now, errors>>

\* Mutant: INCR is taken to answer the value before.
ToExpireByOldValue(value, ttl) == value = 0 /\ ttl # 0

\* next === 1 && ttlSeconds: this INCR created the key.
ToExpire(value, ttl) == value = 1 /\ ttl # 0

\* Without eval, the first round trip: INCR alone.
IncrCommand(c, k, ttl) ==
  LET next == Incremented(k, Never) IN
  /\ client = "commands"
  /\ Begin(c, IF ToExpire(next.value, ttl) THEN "expire" ELSE "done", k, ttl)
  /\ data' = [data EXCEPT ![k] = next]
  /\ reply' = Reply("incr", k, next.value)
  /\ Claimed(c, k, next.value, ttl)
  /\ UNCHANGED <<client, now, errors>>

\* Mutant: EXPIRE given an instant.
ExpiryAbsolute(ttl) == ttl

\* EXPIRE counts the seconds from now.
Expiry(ttl) == now + ttl

\* The second round trip, by the caller whose INCR created the key.
ExpireCommand(c) ==
  LET k == calling[c].key IN
  /\ calling[c].pc = "expire"
  /\ calling' = [calling EXCEPT ![c].pc = "done"]
  /\ data' = IF Live(k) = Absent THEN data
             ELSE [data EXCEPT ![k] = [value |-> @.value, until |-> Expiry(calling[c].ttl)]]
  /\ UNCHANGED <<client, now, reply, firsts, errors>>

\* A round trip throws before the server took the command; one that throws
\* after it is one of the actions above, whose answer the caller never sees.
RoundTripThrows(c) ==
  /\ client # "memory"
  /\ calling[c].pc \in {"idle", "expire"}
  /\ errors < MaxErrors
  /\ errors' = errors + 1
  /\ calling' = [calling EXCEPT ![c].pc = "done"]
  /\ UNCHANGED <<client, now, data, reply, firsts>>

MapTick ==
  /\ now < MaxNow
  /\ now' = now + 1
  /\ UNCHANGED <<client, data, calling, reply, firsts, errors>>

MapNext ==
  \/ MapTick
  \/ \E c \in Callers, k \in Keys : Get(c, k)
  \/ \E c \in Callers, k \in Cells, v \in Values, ttl \in Lifetimes : Set(c, k, v, ttl)
  \/ \E c \in Callers, k \in Cells : Del(c, k)
  \/ \E c \in Callers, k \in Counters, ttl \in Lifetimes : Incr(c, k, ttl)
  \/ \E c \in Callers, k \in Counters, ttl \in Lifetimes : IncrCommand(c, k, ttl)
  \/ \E c \in Callers : ExpireCommand(c)
  \/ \E c \in Callers : RoundTripThrows(c)

MapSpec == MapInit /\ [][MapNext]_mapVars

-----------------------------------------------------------------------------
(* Properties *)

\* The map holds entries, none of which outlives the longest lifetime.
MapTypeOK ==
  /\ client \in {"memory", "eval", "commands"}
  /\ now \in 0..MaxNow
  /\ data \in [Keys -> Entries \cup {Absent}]
  /\ \A k \in Keys : data[k] # Absent /\ data[k].until # Never =>
       \E ttl \in Lifetimes : data[k].until <= MaxNow + ttl
  /\ \A c \in Callers : calling[c].pc \in {"idle", "expire", "done"} /\ calling[c].ttl \in Lifetimes \cup {0}

\* An increment answered 1 (for dedupe: told to send) has the key to itself for
\* its lifetime: nobody else is answered 1 before that, whatever interleaves,
\* expires late or throws.
OneClaimPerLifetime ==
  \A a, b \in firsts :
    a.key = b.key /\ a.by # b.by =>
      \/ a.life # 0 /\ b.at >= a.at + a.life
      \/ b.life # 0 /\ a.at >= b.at + b.life

\* A counter without an expiry silences its user for good.  Unless its first
\* increment gave no lifetime, only a failure between INCR and EXPIRE leaves
\* one, and before that some call is about to set the expiry; MemoryStore and
\* the script never leave one.
ImmortalOnlyByFailure ==
  \A k \in Counters :
    data[k] # Absent /\ data[k].until = Never =>
      \/ \E a \in firsts : a.key = k /\ a.life = 0
      \/ client = "commands" /\ errors > 0
      \/ \E c \in Callers : calling[c].pc = "expire" /\ calling[c].key = k

\* MemoryStore, and RedisStore on a client with eval, answer every sequence of
\* calls and clock steps as a map whose keys vanish when they expire, and whose
\* increments keep the window the first one opened.
Outside == INSTANCE KeyStore WITH row <- [k \in Keys |-> Live(k)]
ImplementsStore ==
  Outside!Init /\ [][client # "commands" => Outside!Next]_<<now, data, reply>>
=============================================================================
