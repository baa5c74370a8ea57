--------------------------- MODULE MapStoresProofs ---------------------------
(***************************************************************************)
(* MemoryStore, and RedisStore on a client with eval, implement KeyStore,  *)
(* for all sets of keys, values, lifetimes and callers and with round      *)
(* trips that throw.  Entries that expired but are still in the map are    *)
(* the only difference: an operation reads its key through live(), and an  *)
(* entry that time expires leaves the abstract map in the same step.       *)
(* The history of claims shows the two promises budgets rest on: a claim   *)
(* is given to one caller per window, and a counter without an expiry is   *)
(* the trace of a round trip that failed or is still pending.              *)
(***************************************************************************)
EXTENDS MapStores, TLAPS

\* What the map holds, and what a pending EXPIRE will set: the part of MapTypeOK
\* the refinement rests on.
TypeInv ==
  /\ now \in Nat
  /\ data \in [Keys -> Entries \cup {Absent}]
  /\ calling \in [Callers -> [pc : {"idle", "expire", "done"}, key : Keys \cup {Absent},
                           ttl : Lifetimes \cup {0}]]
  /\ \A c \in Callers : calling[c].pc = "expire" => client = "commands"

\* The empty map is typed.
LEMMA TypeInit == MapInit => TypeInv
  BY DEF MapInit, TypeInv

\* What a key holds now is an entry that has not expired.
LEMMA LiveType ==
  ASSUME TypeInv, NEW k \in Keys
  PROVE  /\ Live(k) \in Entries \cup {Absent}
         /\ Live(k) # Absent => ~Lapsed(k) /\ Live(k) = data[k]
  BY DEF TypeInv, Live, Lapsed

\* An expiry set now is a time to come.
LEMMA UntilType ==
  ASSUME TypeInv, NEW ttl \in Lifetimes
  PROVE  ExpiresAt(now, ttl) = Never \/ (ExpiresAt(now, ttl) \in Nat /\ ExpiresAt(now, ttl) > now)
  <1>1. ttl \in Nat /\ now \in Nat
    BY LifetimesAssumption DEF TypeInv
  <1> QED
    BY <1>1 DEF ExpiresAt

\* The entry an increment leaves.
LEMMA IncrementedType ==
  ASSUME TypeInv, NEW k \in Keys, NEW until \in Nat \cup {Never}
  PROVE  Incremented(k, until) \in Entries
  BY LiveType DEF Incremented, Entries

\* The call record of a caller that begins is typed.
LEMMA BeginType ==
  ASSUME TypeInv, NEW c \in Callers, NEW pc \in {"expire", "done"}, NEW k \in Keys,
         NEW ttl \in Lifetimes \cup {0}, Begin(c, pc, k, ttl), UNCHANGED client,
         pc = "expire" => client = "commands"
  PROVE  /\ calling' \in [Callers -> [pc : {"idle", "expire", "done"}, key : Keys \cup {Absent},
                                   ttl : Lifetimes \cup {0}]]
         /\ \A x \in Callers : calling'[x].pc = "expire" => client' = "commands"
  <1>1. [pc |-> pc, key |-> k, ttl |-> ttl]
          \in [pc : {"idle", "expire", "done"}, key : Keys \cup {Absent}, ttl : Lifetimes \cup {0}]
    OBVIOUS
  <1> QED
    BY <1>1 DEF Begin, TypeInv

\* A caller that ends between its round trips stays typed.
LEMMA EndType ==
  ASSUME TypeInv, NEW c \in Callers, calling' = [calling EXCEPT ![c].pc = "done"], UNCHANGED client
  PROVE  /\ calling' \in [Callers -> [pc : {"idle", "expire", "done"}, key : Keys \cup {Absent},
                                   ttl : Lifetimes \cup {0}]]
         /\ \A x \in Callers : calling'[x].pc = "expire" => client' = "commands"
  <1> DEFINE q == [calling[c] EXCEPT !.pc = "done"]
  <1>1. q \in [pc : {"idle", "expire", "done"}, key : Keys \cup {Absent}, ttl : Lifetimes \cup {0}]
        /\ q.pc = "done"
    BY DEF TypeInv
  <1>2. calling' = [calling EXCEPT ![c] = q]
    OBVIOUS
  <1> HIDE DEF q
  <1> QED
    BY <1>1, <1>2 DEF TypeInv

\* Every operation writes entries only.
LEMMA TypeStep ==
  ASSUME TypeInv, [MapNext]_mapVars
  PROVE  TypeInv'
  <1>1. ASSUME NEW c \in Callers, NEW k \in Keys, Get(c, k)
        PROVE  TypeInv'
    <2>1. data' \in [Keys -> Entries \cup {Absent}]
      BY <1>1, LiveType DEF Get, TypeInv
    <2> QED
      BY <1>1, <2>1, BeginType DEF Get, TypeInv
  <1>2. ASSUME NEW c \in Callers, NEW k \in Cells, NEW v \in Values, NEW ttl \in Lifetimes,
               Set(c, k, v, ttl)
        PROVE  TypeInv'
    <2>1. [value |-> v, until |-> ExpiresAt(now, ttl)] \in Entries /\ k \in Keys
      BY UntilType, ValueAssumption DEF Entries, Keys
    <2> QED
      BY <1>2, <2>1, BeginType DEF Set, TypeInv
  <1>3. ASSUME NEW c \in Callers, NEW k \in Cells, Del(c, k)
        PROVE  TypeInv'
    <2>1. k \in Keys
      BY DEF Keys
    <2> QED
      BY <1>3, <2>1, BeginType DEF Del, TypeInv
  <1>4. ASSUME NEW c \in Callers, NEW k \in Counters, NEW ttl \in Lifetimes, Incr(c, k, ttl)
        PROVE  TypeInv'
    <2>1. Opened(k, ttl) \in Entries /\ k \in Keys
      BY UntilType, IncrementedType DEF Opened, Keys
    <2> QED
      BY <1>4, <2>1, BeginType DEF Incr, TypeInv
  <1>5. ASSUME NEW c \in Callers, NEW k \in Counters, NEW ttl \in Lifetimes, IncrCommand(c, k, ttl)
        PROVE  TypeInv'
    <2>1. Incremented(k, Never) \in Entries /\ k \in Keys
      BY IncrementedType DEF Keys
    <2> DEFINE pc == IF ToExpire(Incremented(k, Never).value, ttl) THEN "expire" ELSE "done"
    <2>2. pc \in {"expire", "done"} /\ client = "commands" /\ UNCHANGED client
          /\ Begin(c, pc, k, ttl) /\ UNCHANGED now
          /\ data' = [data EXCEPT ![k] = Incremented(k, Never)]
      BY <1>5 DEF IncrCommand
    <2> HIDE DEF pc
    <2> QED
      BY <2>1, <2>2, BeginType DEF TypeInv
  <1>6. ASSUME NEW c \in Callers, ExpireCommand(c)
        PROVE  TypeInv'
    <2> DEFINE k == calling[c].key
    <2>1. UNCHANGED <<client, now>> /\ calling' = [calling EXCEPT ![c].pc = "done"]
      BY <1>6 DEF ExpireCommand
    <2>2. data' \in [Keys -> Entries \cup {Absent}]
      <3>1. CASE data' = data
        BY <3>1 DEF TypeInv
      <3>2. CASE Live(k) # Absent /\ k \in Keys
                 /\ data' = [data EXCEPT ![k] = [value |-> data[k].value,
                                                until |-> Expiry(calling[c].ttl)]]
        <4>1. data[k] \in Entries
          BY <3>2, LiveType
        <4>2. Expiry(calling[c].ttl) \in Nat
          <5>1. calling[c].ttl \in Lifetimes \cup {0}
            BY DEF TypeInv
          <5>2. \A t \in Lifetimes \cup {0} : t \in Nat
            BY LifetimesAssumption
          <5>4. calling[c].ttl \in Nat
            BY <5>1, <5>2
          <5>3. now \in Nat
            BY DEF TypeInv
          <5> QED
            BY <5>3, <5>4 DEF Expiry
        <4>3. [value |-> data[k].value, until |-> Expiry(calling[c].ttl)] \in Entries
          BY <4>1, <4>2 DEF Entries
        <4> QED
          BY <3>2, <4>3 DEF TypeInv
      <3>3. CASE k \notin Keys
        BY <1>6, <3>3 DEF ExpireCommand, TypeInv
      <3> QED
        BY <1>6, <3>1, <3>2, <3>3 DEF ExpireCommand
    <2> QED
      BY <2>1, <2>2, EndType DEF TypeInv
  <1>7. ASSUME NEW c \in Callers, RoundTripThrows(c)
        PROVE  TypeInv'
    BY <1>7, EndType DEF RoundTripThrows, TypeInv
  <1>8. CASE MapTick
    BY <1>8 DEF MapTick, TypeInv
  <1>9. CASE UNCHANGED mapVars
    BY <1>9 DEF mapVars, TypeInv
  <1> QED
    BY <1>1, <1>2, <1>3, <1>4, <1>5, <1>6, <1>7, <1>8, <1>9 DEF MapNext

\* An entry just written has not expired.
LEMMA FreshIsLive ==
  ASSUME TypeInv, NEW k \in Keys, NEW e \in Entries,
         e.until = Never \/ e.until > now,
         data' = [data EXCEPT ![k] = e], UNCHANGED now
  PROVE  \A x \in Keys : Live(x)' = IF x = k THEN e ELSE Live(x)
  <1>1. e # Absent
    BY EntryAssumption DEF Entries
  <1> QED
    BY <1>1 DEF TypeInv, Live, Lapsed, Entries

\* Pruning an expired entry, or reading a live one, shows nothing outside.
LEMMA GetRefines ==
  ASSUME TypeInv, NEW c \in Callers, NEW k \in Keys, Get(c, k)
  PROVE  Outside!Get(k)
  <1>1. \A x \in Keys : Live(x)' = Live(x)
    BY DEF Get, TypeInv, Live, Lapsed
  <1> QED
    BY <1>1 DEF Get, Outside!Get, Reply, Outside!Reply

\* A write is seen outside, whatever the key held.
LEMMA SetRefines ==
  ASSUME TypeInv, NEW c \in Callers, NEW k \in Keys, NEW v \in Values, NEW ttl \in Lifetimes,
         Set(c, k, v, ttl)
  PROVE  Outside!Set(k, v, ttl)
  <1> DEFINE e == [value |-> v, until |-> ExpiresAt(now, ttl)]
  <1>1. e \in Entries /\ (e.until = Never \/ e.until > now)
    BY UntilType, ValueAssumption DEF Entries
  <1>2. data' = [data EXCEPT ![k] = e] /\ UNCHANGED now
    BY DEF Set
  <1> HIDE DEF e
  <1>3. \A x \in Keys : Live(x)' = IF x = k THEN e ELSE Live(x)
    BY <1>1, <1>2, FreshIsLive
  <1> QED
    BY <1>3 DEF e, Set, Outside!Set, Reply, Outside!Reply, ExpiresAt, Outside!Until

\* An increment keeps the window of a live entry and opens one otherwise.
LEMMA IncrRefines ==
  ASSUME TypeInv, NEW c \in Callers, NEW k \in Keys, NEW ttl \in Lifetimes, Incr(c, k, ttl)
  PROVE  Outside!Incr(k, ttl)
  <1> DEFINE e == Opened(k, ttl)
  <1>1. e \in Entries
    BY UntilType, IncrementedType DEF Opened
  <1>2. e.until = Never \/ e.until > now
    <2>1. CASE Live(k) = Absent
      BY <2>1, UntilType DEF Opened, Incremented
    <2>2. CASE Live(k) # Absent
      <3>1. Live(k) \in Entries /\ ~Lapsed(k) /\ Live(k) = data[k]
        BY <2>2, LiveType
      <3> QED
        BY <2>2, <3>1 DEF Lapsed, Entries, TypeInv, Opened, Incremented
    <2> QED
      BY <2>1, <2>2
  <1>3. data' = [data EXCEPT ![k] = e] /\ UNCHANGED now /\ reply' = Reply("incr", k, e.value)
    BY DEF Incr
  <1> HIDE DEF e
  <1>4. \A x \in Keys : Live(x)' = IF x = k THEN e ELSE Live(x)
    BY <1>1, <1>2, <1>3, FreshIsLive
  <1> QED
    BY <1>3, <1>4
    DEF e, Opened, Incremented, Outside!Incr, Reply, Outside!Reply, ExpiresAt, Outside!Until

\* A deletion is seen outside.
LEMMA DelRefines ==
  ASSUME TypeInv, NEW c \in Callers, NEW k \in Keys, Del(c, k)
  PROVE  Outside!Del(k)
  <1>1. \A x \in Keys : Live(x)' = IF x = k THEN Absent ELSE Live(x)
    BY DEF Del, TypeInv, Live, Lapsed
  <1> QED
    BY <1>1 DEF Del, Outside!Del, Reply, Outside!Reply

\* The clock takes away exactly the entries that expire at its new value.
LEMMA TickRefines ==
  ASSUME TypeInv, MapTick
  PROVE  Outside!Tick
  <1>1. ASSUME NEW k \in Keys
        PROVE  Live(k)' = IF Live(k) # Absent /\ Live(k).until = now + 1
                          THEN Absent ELSE Live(k)
    <2>1. CASE data[k] = Absent
      BY <2>1 DEF MapTick, Live, Lapsed
    <2>2. CASE data[k] # Absent
      <3>1. data[k].until \in Nat \cup {Never}
        BY <2>2 DEF TypeInv, Entries
      <3> QED
        BY <2>2, <3>1, EntryAssumption DEF MapTick, TypeInv, Live, Lapsed
    <2> QED
      BY <2>1, <2>2
  <1> QED
    BY <1>1 DEF MapTick, Outside!Tick

\* MemoryStore, and RedisStore on a client with eval, answer every sequence of
\* calls and clock steps as a map whose keys vanish when they expire, and whose
\* increments keep the window the first one opened.
THEOREM MapIsAStore == MapSpec => ImplementsStore
  <1>1. MapInit => Outside!Init
    <2>1. ASSUME MapInit PROVE \A k \in Keys : Live(k) = Absent
      BY <2>1 DEF MapInit, Live, Lapsed
    <2> QED
      BY <2>1 DEF MapInit, Outside!Init
  <1>2. TypeInv /\ [MapNext]_mapVars => [client # "commands" => Outside!Next]_<<now, data, reply>>
    <2> SUFFICES ASSUME TypeInv, [MapNext]_mapVars, client # "commands"
                 PROVE  Outside!Next \/ UNCHANGED <<now, data, reply>>
      OBVIOUS
    <2>1. ASSUME NEW c \in Callers, NEW k \in Keys, Get(c, k) PROVE Outside!Next
      BY <2>1, GetRefines DEF Outside!Next
    <2>2. ASSUME NEW c \in Callers, NEW k \in Cells, NEW v \in Values, NEW ttl \in Lifetimes,
                 Set(c, k, v, ttl)
          PROVE  Outside!Next
      BY <2>2, SetRefines DEF Outside!Next, Keys
    <2>3. ASSUME NEW c \in Callers, NEW k \in Counters, NEW ttl \in Lifetimes, Incr(c, k, ttl)
          PROVE  Outside!Next
      BY <2>3, IncrRefines DEF Outside!Next, Keys
    <2>4. ASSUME NEW c \in Callers, NEW k \in Cells, Del(c, k) PROVE Outside!Next
      BY <2>4, DelRefines DEF Outside!Next, Keys
    <2>5. ASSUME NEW c \in Callers, NEW k \in Counters, NEW ttl \in Lifetimes, IncrCommand(c, k, ttl)
          PROVE  FALSE
      BY <2>5 DEF IncrCommand
    <2>6. ASSUME NEW c \in Callers, ExpireCommand(c)
          PROVE  FALSE
      BY <2>6 DEF ExpireCommand, TypeInv
    <2>7. ASSUME NEW c \in Callers, RoundTripThrows(c)
          PROVE  UNCHANGED <<now, data, reply>>
      BY <2>7 DEF RoundTripThrows
    <2>8. CASE MapTick
      BY <2>8, TickRefines DEF Outside!Next
    <2>9. CASE UNCHANGED mapVars
      BY <2>9 DEF mapVars
    <2> QED
      BY <2>1, <2>2, <2>3, <2>4, <2>5, <2>6, <2>7, <2>8, <2>9 DEF MapNext
  <1>3. TypeInv /\ [MapNext]_mapVars => TypeInv'
    BY TypeStep
  <1> QED
    BY <1>1, <1>2, <1>3, TypeInit, PTL DEF MapSpec, ImplementsStore

-----------------------------------------------------------------------------
(* The windows of the counters *)

\* The lifetime of claim a has passed, or its key still keeps others out.
Over(a) == a.life # 0 /\ a.at + a.life <= now
Holds(a) ==
  /\ data[a.key] # Absent
  /\ data[a.key].until = Never
       \/ (a.life # 0 /\ data[a.key].until \in Nat /\ data[a.key].until >= a.at + a.life)

\* A counter there counts at least the increment that created it.
CountedInv == \A k \in Counters : data[k] # Absent => data[k].value >= 1

ClaimInv ==
  \A a \in firsts :
    /\ a.key \in Counters /\ a.at \in Nat /\ a.at <= now /\ a.life \in Nat
    /\ Over(a) \/ Holds(a)

\* A caller between INCR and EXPIRE is the only one on its key, which lives
\* without an expiry; all claims on it but the caller's own are over.
PendingInv ==
  /\ \A c \in Callers : calling[c].pc = "expire" =>
       /\ calling[c].key \in Counters /\ calling[c].ttl \in Nat /\ calling[c].ttl # 0
       /\ data[calling[c].key] # Absent /\ data[calling[c].key].until = Never
       /\ \E e \in firsts :
            /\ e.key = calling[c].key /\ e.life = calling[c].ttl
            /\ \A a \in firsts : a.key = e.key /\ a # e => Over(a)
  /\ \A b, c \in Callers :
       calling[b].pc = "expire" /\ calling[c].pc = "expire" /\ calling[b].key = calling[c].key => b = c

\* The inductive invariant behind OneClaimPerWindow and ImmortalOnlyByFailure.
WindowInv ==
  /\ TypeInv /\ errors \in Nat
  /\ CountedInv /\ ClaimInv /\ PendingInv
  /\ OneClaimPerLifetime /\ ImmortalOnlyByFailure

\* A step that claims nothing, and of the counters at most drops expired ones;
\* a call it ends between its round trips ended in an error.
LEMMA QuietStep ==
  ASSUME WindowInv, TypeInv', UNCHANGED <<firsts, client>>, now <= now',
         errors' \in Nat, errors <= errors',
         \A k \in Counters : data'[k] = data[k] \/ (data'[k] = Absent /\ Lapsed(k)),
         \A c \in Callers :
           \/ calling'[c] = calling[c]
           \/ /\ calling'[c].pc = "done"
              /\ calling[c].pc = "expire" => client = "commands" /\ errors' > 0
  PROVE  WindowInv'
<1> USE DEF WindowInv
<1>1. now \in Nat /\ now' \in Nat
  BY DEF TypeInv
<1>2. \A k \in Counters : data[k] \in Entries \cup {Absent} /\ k \in Keys
  BY DEF TypeInv, Keys
<1>3. \A a \in firsts : Over(a) => Over(a)'
  BY <1>1 DEF Over, ClaimInv
<1>4. CountedInv'
  BY DEF CountedInv
<1>5. ClaimInv'
  <2> SUFFICES ASSUME NEW a \in firsts
               PROVE  /\ a.key \in Counters /\ a.at \in Nat /\ a.at <= now' /\ a.life \in Nat
                      /\ Over(a)' \/ Holds(a)'
    BY DEF ClaimInv
  <2>1. a.key \in Counters /\ a.at \in Nat /\ a.at <= now /\ a.life \in Nat
        /\ (Over(a) \/ Holds(a))
    BY DEF ClaimInv
  <2>2. CASE Over(a)
    BY <1>1, <1>3, <2>1, <2>2
  <2>3. CASE Holds(a) /\ data'[a.key] = data[a.key]
    BY <1>1, <2>1, <2>3 DEF Holds
  <2>4. CASE Holds(a) /\ Lapsed(a.key)
    <3>1. Over(a)
      BY <1>1, <1>2, <2>1, <2>4, EntryAssumption DEF Holds, Lapsed, Over
    <3>2. QED BY <1>1, <1>3, <2>1, <3>1
  <2>5. QED BY <2>1, <2>2, <2>3, <2>4
<1>6. \A c \in Callers : calling'[c].pc = "expire" => calling'[c] = calling[c]
  OBVIOUS
<1>7. PendingInv'
  <2>1. ASSUME NEW c \in Callers, calling'[c].pc = "expire"
        PROVE  /\ calling'[c].key \in Counters /\ calling'[c].ttl \in Nat /\ calling'[c].ttl # 0
               /\ data'[calling'[c].key] # Absent /\ data'[calling'[c].key].until = Never
               /\ \E e \in firsts :
                    /\ e.key = calling'[c].key /\ e.life = calling'[c].ttl
                    /\ \A a \in firsts : a.key = e.key /\ a # e => Over(a)'
    <3>1. /\ calling'[c] = calling[c]
          /\ calling[c].key \in Counters /\ calling[c].ttl \in Nat /\ calling[c].ttl # 0
          /\ data[calling[c].key] # Absent /\ data[calling[c].key].until = Never
      BY <1>6, <2>1 DEF PendingInv
    <3>2. PICK e \in firsts :
            /\ e.key = calling[c].key /\ e.life = calling[c].ttl
            /\ \A a \in firsts : a.key = e.key /\ a # e => Over(a)
      BY <2>1, <3>1 DEF PendingInv
    <3>3. ~Lapsed(calling[c].key)
      BY <3>1 DEF Lapsed
    <3>4. QED BY <1>3, <3>1, <3>2, <3>3
  <2>2. \A b, c \in Callers :
          calling'[b].pc = "expire" /\ calling'[c].pc = "expire" /\ calling'[b].key = calling'[c].key => b = c
    BY <1>6 DEF PendingInv
  <2>3. QED BY <2>1, <2>2 DEF PendingInv
<1>8. OneClaimPerLifetime'
  BY DEF OneClaimPerLifetime
<1>9. ImmortalOnlyByFailure'
  <2> SUFFICES ASSUME NEW k \in Counters, data'[k] # Absent, data'[k].until = Never
               PROVE  \/ \E a \in firsts : a.key = k /\ a.life = 0
                      \/ client = "commands" /\ errors' > 0
                      \/ \E c \in Callers : calling'[c].pc = "expire" /\ calling'[c].key = k
    BY DEF ImmortalOnlyByFailure
  <2>1. data'[k] = data[k]
    OBVIOUS
  <2>2. \/ \E a \in firsts : a.key = k /\ a.life = 0
        \/ client = "commands" /\ errors > 0
        \/ \E c \in Callers : calling[c].pc = "expire" /\ calling[c].key = k
    BY <2>1 DEF ImmortalOnlyByFailure
  <2>3. QED BY <2>2
<1>10. QED BY <1>4, <1>5, <1>7, <1>8, <1>9

\* A counter that answers for nothing has no claim still running.
LEMMA FreeKey ==
  ASSUME WindowInv, NEW k \in Counters, Live(k) = Absent
  PROVE  /\ \A a \in firsts : a.key = k => Over(a)
         /\ \A c \in Callers : calling[c].pc = "expire" => calling[c].key # k
<1> USE DEF WindowInv
<1>1. now \in Nat /\ data[k] \in Entries \cup {Absent}
  BY DEF TypeInv, Keys
<1>2. data[k] = Absent \/ (data[k].until # Never /\ data[k].until <= now)
  BY <1>1 DEF Live, Lapsed
<1>3. ASSUME NEW a \in firsts, a.key = k, Holds(a)
      PROVE  Over(a)
  BY <1>1, <1>2, <1>3 DEF Holds, Over, ClaimInv
<1>4. ASSUME NEW c \in Callers, calling[c].pc = "expire", calling[c].key = k
      PROVE  FALSE
  BY <1>2, <1>4 DEF PendingInv
<1>5. QED BY <1>3, <1>4 DEF ClaimInv

\* An increment: one that is answered 1 opens a window no other claim is in, and
\* every other one leaves the expiry alone.
LEMMA IncrStep ==
  ASSUME WindowInv, TypeInv', NEW c \in Callers, NEW k \in Counters, NEW ttl \in Lifetimes,
         NEW until \in Nat \cup {Never}, NEW pc \in {"expire", "done"},
         Begin(c, pc, k, ttl), UNCHANGED <<client, now, errors>>,
         data' = [data EXCEPT ![k] = Incremented(k, until)],
         Claimed(c, k, Incremented(k, until).value, ttl),
         until = Never \/ (ttl # 0 /\ until = now + ttl),
         pc = "expire" <=> Incremented(k, until).value = 1 /\ ttl # 0 /\ until = Never
  PROVE  WindowInv'
<1> USE DEF WindowInv
<1> DEFINE e == Incremented(k, until)
<1>0. Absent \notin Entries /\ Never \notin Nat
  BY EntryAssumption
<1>1. /\ now \in Nat /\ ttl \in Nat /\ k \in Keys
      /\ data \in [Keys -> Entries \cup {Absent}]
  BY LifetimesAssumption DEF TypeInv, Keys
<1>2. /\ calling[c].pc = "idle"
      /\ calling'[c] = [pc |-> pc, key |-> k, ttl |-> ttl]
      /\ \A b \in Callers : b # c => calling'[b] = calling[b]
  BY DEF Begin, TypeInv
<1>3. /\ data'[k] = e /\ e # Absent
      /\ \A x \in Counters : x # k => data'[x] = data[x]
  BY <1>0, <1>1, IncrementedType DEF Keys
<1>4. \A a \in firsts : Over(a)' = Over(a)
  BY DEF Over
<1>5. CASE Live(k) = Absent
  <2>0. PICK n : n = [by |-> c, key |-> k, at |-> now, life |-> ttl]
    OBVIOUS
  <2>1. e = [value |-> 1, until |-> until] /\ firsts' = firsts \cup {n}
    BY <1>5, <2>0 DEF Incremented, Claimed
  <2>2. /\ \A a \in firsts : a.key = k => Over(a)
        /\ \A b \in Callers : calling[b].pc = "expire" => calling[b].key # k
    BY <1>5, FreeKey
  <2>3. n.by = c /\ n.key = k /\ n.at = now /\ n.life = ttl
    BY <2>0
  <2> HIDE DEF e
  <2>4. e.value = 1 /\ e.until = until
    BY <2>1
  <2>5. CountedInv'
    BY <1>3, <2>4 DEF CountedInv
  <2>6. Holds(n)'
    BY <1>1, <1>3, <2>3, <2>4 DEF Holds
  <2>7. ClaimInv'
    <3>1. ASSUME NEW a \in firsts
          PROVE  /\ a.key \in Counters /\ a.at \in Nat /\ a.at <= now' /\ a.life \in Nat
                 /\ Over(a)' \/ Holds(a)'
      <4>1. a.key \in Counters /\ a.at \in Nat /\ a.at <= now /\ a.life \in Nat
            /\ (Over(a) \/ Holds(a))
        BY DEF ClaimInv
      <4>2. CASE a.key = k
        BY <1>4, <2>2, <4>1, <4>2
      <4>3. CASE a.key # k
        BY <1>3, <1>4, <4>1, <4>3 DEF Holds
      <4>4. QED BY <4>2, <4>3
    <3>2. n.key \in Counters /\ n.at \in Nat /\ n.at <= now' /\ n.life \in Nat
      BY <1>1, <2>3
    <3>3. QED BY <2>1, <2>6, <3>1, <3>2 DEF ClaimInv
  <2>8. PendingInv'
    <3>1. ASSUME NEW b \in Callers, calling'[b].pc = "expire"
          PROVE  /\ calling'[b].key \in Counters /\ calling'[b].ttl \in Nat /\ calling'[b].ttl # 0
                 /\ data'[calling'[b].key] # Absent /\ data'[calling'[b].key].until = Never
                 /\ \E x \in firsts' :
                      /\ x.key = calling'[b].key /\ x.life = calling'[b].ttl
                      /\ \A a \in firsts' : a.key = x.key /\ a # x => Over(a)'
      <4>1. CASE b = c
        <5>1. pc = "expire" /\ calling'[b].key = k /\ calling'[b].ttl = ttl
          BY <1>2, <3>1, <4>1
        <5>2. ttl # 0 /\ until = Never
          BY <5>1
        <5>3. \A a \in firsts' : a.key = n.key /\ a # n => Over(a)'
          BY <1>4, <2>1, <2>2, <2>3
        <5>4. QED BY <1>1, <1>3, <2>1, <2>3, <2>4, <5>1, <5>2, <5>3
      <4>2. CASE b # c
        <5>1. /\ calling'[b] = calling[b] /\ calling[b].key # k
              /\ calling[b].key \in Counters /\ calling[b].ttl \in Nat /\ calling[b].ttl # 0
              /\ data[calling[b].key] # Absent /\ data[calling[b].key].until = Never
          BY <1>2, <2>2, <3>1, <4>2 DEF PendingInv
        <5>2. PICK x \in firsts :
                /\ x.key = calling[b].key /\ x.life = calling[b].ttl
                /\ \A a \in firsts : a.key = x.key /\ a # x => Over(a)
          BY <3>1, <5>1 DEF PendingInv
        <5>3. \A a \in firsts' : a.key = x.key /\ a # x => Over(a)'
          BY <1>4, <2>1, <2>3, <5>1, <5>2
        <5>4. QED BY <1>3, <2>1, <5>1, <5>2, <5>3
      <4>3. QED BY <4>1, <4>2
    <3>2. ASSUME NEW a \in Callers, NEW b \in Callers, calling'[a].pc = "expire",
                 calling'[b].pc = "expire", calling'[a].key = calling'[b].key
          PROVE  a = b
      BY <1>2, <2>2, <3>2 DEF PendingInv
    <3>3. QED BY <3>1, <3>2 DEF PendingInv
  <2>9. OneClaimPerLifetime'
    <3>1. ASSUME NEW a \in firsts, a.key = k
          PROVE  a.life # 0 /\ n.at >= a.at + a.life
      BY <1>1, <2>2, <2>3, <3>1 DEF Over, ClaimInv
    <3>2. QED BY <2>1, <2>3, <3>1 DEF OneClaimPerLifetime
  <2>10. ImmortalOnlyByFailure'
    <3>1. ASSUME until = Never
          PROVE  \/ \E a \in firsts' : a.key = k /\ a.life = 0
                 \/ \E b \in Callers : calling'[b].pc = "expire" /\ calling'[b].key = k
      BY <1>2, <2>1, <2>3, <2>4, <3>1 DEF e
    <3>2. ASSUME NEW x \in Counters, x # k, data'[x] # Absent, data'[x].until = Never
          PROVE  \/ \E a \in firsts' : a.key = x /\ a.life = 0
                 \/ client' = "commands" /\ errors' > 0
                 \/ \E b \in Callers : calling'[b].pc = "expire" /\ calling'[b].key = x
      <4>1. \/ \E a \in firsts : a.key = x /\ a.life = 0
            \/ client = "commands" /\ errors > 0
            \/ \E b \in Callers : calling[b].pc = "expire" /\ calling[b].key = x
        BY <1>3, <3>2 DEF ImmortalOnlyByFailure
      <4>2. QED BY <1>2, <2>1, <4>1
    <3>3. QED BY <1>3, <2>4, <3>1, <3>2 DEF ImmortalOnlyByFailure
  <2>11. QED BY <2>5, <2>7, <2>8, <2>9, <2>10
<1>6. CASE Live(k) # Absent
  <2>1. /\ data[k] # Absent /\ data[k] \in Entries /\ Live(k) = data[k]
        /\ data[k].value \in Nat /\ data[k].value >= 1
    BY <1>1, <1>6, LiveType DEF Entries, CountedInv, Live
  <2>2. e.value = data[k].value + 1 /\ e.until = data[k].until
    BY <1>6, <2>1 DEF Incremented
  <2> HIDE DEF e
  <2>3. UNCHANGED firsts /\ pc = "done"
    BY <2>1, <2>2 DEF Claimed, e
  <2>4. CountedInv'
    BY <1>3, <2>1, <2>2 DEF CountedInv
  <2>5. \A x \in Counters : /\ data'[x] # Absent <=> data[x] # Absent
                            /\ data[x] # Absent => data'[x].until = data[x].until
    BY <1>3, <2>1, <2>2
  <2>6. ClaimInv'
    BY <1>4, <2>3, <2>5 DEF ClaimInv, Holds
  <2>7. \A b \in Callers : calling'[b].pc = "expire" => calling'[b] = calling[b]
    BY <1>2, <2>3
  <2>8. PendingInv'
    <3>1. ASSUME NEW b \in Callers, calling'[b].pc = "expire"
          PROVE  /\ calling'[b].key \in Counters /\ calling'[b].ttl \in Nat /\ calling'[b].ttl # 0
                 /\ data'[calling'[b].key] # Absent /\ data'[calling'[b].key].until = Never
                 /\ \E x \in firsts' :
                      /\ x.key = calling'[b].key /\ x.life = calling'[b].ttl
                      /\ \A a \in firsts' : a.key = x.key /\ a # x => Over(a)'
      BY <1>4, <2>3, <2>5, <2>7, <3>1 DEF PendingInv
    <3>2. QED BY <2>7, <3>1 DEF PendingInv
  <2>9. OneClaimPerLifetime'
    BY <2>3 DEF OneClaimPerLifetime
  <2>10. ImmortalOnlyByFailure'
    <3>1. \A b \in Callers : calling[b].pc = "expire" => calling'[b] = calling[b]
      BY <1>2
    <3>2. QED BY <2>3, <2>5, <3>1 DEF ImmortalOnlyByFailure
  <2>11. QED BY <2>4, <2>6, <2>8, <2>9, <2>10
<1>7. QED BY <1>5, <1>6

\* EXPIRE closes the window its own INCR opened, and no other.
LEMMA ExpireStep ==
  ASSUME WindowInv, TypeInv', NEW c \in Callers, ExpireCommand(c)
  PROVE  WindowInv'
<1> USE DEF WindowInv
<1>0. Absent \notin Entries /\ Never \notin Nat
  BY EntryAssumption
<1>1. PICK k \in Counters, ttl \in Nat, x \in firsts :
        /\ k = calling[c].key /\ ttl = calling[c].ttl /\ ttl # 0
        /\ data[k] # Absent /\ data[k].until = Never
        /\ x.key = k /\ x.life = ttl
        /\ \A a \in firsts : a.key = k /\ a # x => Over(a)
  BY DEF ExpireCommand, PendingInv
<1>2. /\ now \in Nat /\ k \in Keys /\ calling[c].pc = "expire"
      /\ data \in [Keys -> Entries \cup {Absent}]
  BY DEF TypeInv, Keys, ExpireCommand
<1>3. Live(k) = data[k]
  BY <1>1 DEF Live, Lapsed
<1>4. /\ UNCHANGED <<client, now, firsts, errors>>
      /\ data' = [data EXCEPT ![k] = [value |-> data[k].value, until |-> now + ttl]]
      /\ calling' = [calling EXCEPT ![c].pc = "done"]
  BY <1>1, <1>2, <1>3 DEF ExpireCommand, Expiry
<1>5. /\ data'[k] = [value |-> data[k].value, until |-> now + ttl]
      /\ \A y \in Counters : y # k => data'[y] = data[y]
      /\ calling'[c].pc = "done"
      /\ \A b \in Callers : b # c => calling'[b] = calling[b] /\ (calling[b].pc = "expire" => calling[b].key # k)
  BY <1>1, <1>2, <1>4 DEF TypeInv, PendingInv, Keys
<1>6. data'[k] \in Entries /\ data'[k] # Absent /\ data'[k].until = now + ttl
      /\ data'[k].value = data[k].value /\ now + ttl \in Nat
  BY <1>0, <1>1, <1>2, <1>5 DEF Entries
<1>7. \A a \in firsts : Over(a)' = Over(a)
  BY <1>4 DEF Over
<1>8. CountedInv'
  BY <1>1, <1>5, <1>6 DEF CountedInv
<1>9. ClaimInv'
  <2> SUFFICES ASSUME NEW a \in firsts
               PROVE  /\ a.key \in Counters /\ a.at \in Nat /\ a.at <= now /\ a.life \in Nat
                      /\ Over(a)' \/ Holds(a)'
    BY <1>4 DEF ClaimInv
  <2>1. a.key \in Counters /\ a.at \in Nat /\ a.at <= now /\ a.life \in Nat
        /\ (Over(a) \/ Holds(a))
    BY DEF ClaimInv
  <2>2. CASE a.key # k
    BY <1>5, <1>7, <2>1, <2>2 DEF Holds
  <2>3. CASE a = x
    BY <1>1, <1>2, <1>6, <2>1, <2>3 DEF Holds
  <2>4. CASE a.key = k /\ a # x
    BY <1>1, <1>7, <2>1, <2>4
  <2>5. QED BY <2>2, <2>3, <2>4
<1>10. PendingInv'
  <2>1. ASSUME NEW b \in Callers, calling'[b].pc = "expire"
        PROVE  /\ calling'[b].key \in Counters /\ calling'[b].ttl \in Nat /\ calling'[b].ttl # 0
               /\ data'[calling'[b].key] # Absent /\ data'[calling'[b].key].until = Never
               /\ \E y \in firsts' :
                    /\ y.key = calling'[b].key /\ y.life = calling'[b].ttl
                    /\ \A a \in firsts' : a.key = y.key /\ a # y => Over(a)'
    <3>1. b # c /\ calling'[b] = calling[b] /\ calling[b].key # k
      BY <1>5, <2>1
    <3>2. QED BY <1>4, <1>5, <1>7, <2>1, <3>1 DEF PendingInv
  <2>2. \A a, b \in Callers :
          calling'[a].pc = "expire" /\ calling'[b].pc = "expire" /\ calling'[a].key = calling'[b].key => a = b
    BY <1>5 DEF PendingInv
  <2>3. QED BY <2>1, <2>2 DEF PendingInv
<1>11. OneClaimPerLifetime'
  BY <1>4 DEF OneClaimPerLifetime
<1>12. ImmortalOnlyByFailure'
  <2> SUFFICES ASSUME NEW y \in Counters, data'[y] # Absent, data'[y].until = Never
               PROVE  \/ \E a \in firsts : a.key = y /\ a.life = 0
                      \/ client = "commands" /\ errors > 0
                      \/ \E b \in Callers : calling'[b].pc = "expire" /\ calling'[b].key = y
    BY <1>4 DEF ImmortalOnlyByFailure
  <2>1. y # k
    BY <1>0, <1>6
  <2>2. \/ \E a \in firsts : a.key = y /\ a.life = 0
        \/ client = "commands" /\ errors > 0
        \/ \E b \in Callers : calling[b].pc = "expire" /\ calling[b].key = y
    BY <1>5, <2>1 DEF ImmortalOnlyByFailure
  <2>3. QED BY <1>1, <1>5, <2>1, <2>2
<1>13. QED BY <1>4, <1>8, <1>9, <1>10, <1>11, <1>12

\* Every step keeps the windows.
LEMMA WindowStep == WindowInv /\ [MapNext]_mapVars => WindowInv'
<1> SUFFICES ASSUME WindowInv, [MapNext]_mapVars PROVE WindowInv'
  OBVIOUS
<1>0. TypeInv /\ TypeInv' /\ errors \in Nat /\ now \in Nat
  BY TypeStep DEF WindowInv, TypeInv
<1>1. ASSUME NEW c \in Callers, NEW k \in Keys, NEW ttl, Begin(c, "done", k, ttl)
      PROVE  \A b \in Callers :
               \/ calling'[b] = calling[b]
               \/ calling'[b].pc = "done" /\ calling[b].pc # "expire"
  BY <1>0, <1>1 DEF Begin, TypeInv
<1>2. \A k \in Cells : k \notin Counters /\ k \in Keys
  BY KeyAssumption DEF Keys
<1>3. ASSUME NEW c \in Callers, NEW k \in Keys, Get(c, k)
      PROVE  WindowInv'
  <2>1. \A x \in Counters : data'[x] = data[x] \/ (data'[x] = Absent /\ Lapsed(x))
    BY <1>0, <1>3 DEF Get, TypeInv, Live, Keys
  <2>2. QED BY <1>0, <1>1, <1>3, <2>1, QuietStep DEF Get
<1>4. ASSUME NEW c \in Callers, NEW k \in Cells, NEW v \in Values, NEW ttl \in Lifetimes,
             Set(c, k, v, ttl)
      PROVE  WindowInv'
  <2>1. \A x \in Counters : data'[x] = data[x]
    BY <1>0, <1>2, <1>4 DEF Set, TypeInv, Keys
  <2>2. QED BY <1>0, <1>1, <1>2, <1>4, <2>1, QuietStep DEF Set
<1>5. ASSUME NEW c \in Callers, NEW k \in Cells, Del(c, k)
      PROVE  WindowInv'
  <2>1. \A x \in Counters : data'[x] = data[x]
    BY <1>0, <1>2, <1>5 DEF Del, TypeInv, Keys
  <2>2. QED BY <1>0, <1>1, <1>2, <1>5, <2>1, QuietStep DEF Del
<1>6. ASSUME NEW c \in Callers, NEW k \in Counters, NEW ttl \in Lifetimes, Incr(c, k, ttl)
      PROVE  WindowInv'
  <2>1. /\ ExpiresAt(now, ttl) = Never \/ (ttl # 0 /\ ExpiresAt(now, ttl) = now + ttl)
        /\ ExpiresAt(now, ttl) = Never => ttl = 0
        /\ ExpiresAt(now, ttl) \in Nat \cup {Never}
    <3>1. ttl \in Nat /\ Never \notin Nat
      BY LifetimesAssumption, EntryAssumption
    <3>2. QED BY <1>0, <3>1 DEF ExpiresAt
  <2> DEFINE u == ExpiresAt(now, ttl)
  <2>2. /\ Begin(c, "done", k, ttl) /\ UNCHANGED <<client, now, errors>>
        /\ data' = [data EXCEPT ![k] = Incremented(k, u)]
        /\ Claimed(c, k, Incremented(k, u).value, ttl)
    BY <1>6 DEF Incr, Opened
  <2> HIDE DEF u
  <2>3. u \in Nat \cup {Never} /\ (u = Never \/ (ttl # 0 /\ u = now + ttl))
        /\ ~(ttl # 0 /\ u = Never)
    BY <2>1 DEF u
  <2>4. QED BY <1>0, <2>2, <2>3, IncrStep
<1>7. ASSUME NEW c \in Callers, NEW k \in Counters, NEW ttl \in Lifetimes, IncrCommand(c, k, ttl)
      PROVE  WindowInv'
  <2> DEFINE pc == IF ToExpire(Incremented(k, Never).value, ttl) THEN "expire" ELSE "done"
  <2>1. /\ Begin(c, pc, k, ttl) /\ UNCHANGED <<client, now, errors>>
        /\ data' = [data EXCEPT ![k] = Incremented(k, Never)]
        /\ Claimed(c, k, Incremented(k, Never).value, ttl)
    BY <1>7 DEF IncrCommand
  <2>2. /\ pc \in {"expire", "done"}
        /\ pc = "expire" <=> Incremented(k, Never).value = 1 /\ ttl # 0 /\ Never = Never
    BY DEF ToExpire
  <2> HIDE DEF pc
  <2>3. Never \in Nat \cup {Never}
    OBVIOUS
  <2>4. QED BY <1>0, <2>1, <2>2, <2>3, IncrStep
<1>8. ASSUME NEW c \in Callers, ExpireCommand(c)
      PROVE  WindowInv'
  BY <1>0, <1>8, ExpireStep
<1>9. ASSUME NEW c \in Callers, RoundTripThrows(c)
      PROVE  WindowInv'
  <2>1. \A b \in Callers :
          \/ calling'[b] = calling[b]
          \/ /\ calling'[b].pc = "done"
             /\ calling[b].pc = "expire" => client = "commands" /\ errors' > 0
    BY <1>0, <1>9 DEF RoundTripThrows, TypeInv
  <2>2. errors' \in Nat /\ errors <= errors'
    BY <1>0, <1>9 DEF RoundTripThrows
  <2>3. QED BY <1>0, <1>9, <2>1, <2>2, QuietStep DEF RoundTripThrows
<1>10. CASE MapTick
  BY <1>0, <1>10, QuietStep DEF MapTick
<1>11. CASE UNCHANGED mapVars
  BY <1>0, <1>11, QuietStep DEF mapVars
<1>12. QED
  BY <1>3, <1>4, <1>5, <1>6, <1>7, <1>8, <1>9, <1>10, <1>11 DEF MapNext

\* Nothing is claimed at first.
LEMMA WindowInit == MapInit => WindowInv
  BY TypeInit, EntryAssumption
  DEF MapInit, WindowInv, CountedInv, ClaimInv, PendingInv, OneClaimPerLifetime,
      ImmortalOnlyByFailure, Keys

\* With every client, and whatever interleaves, expires or throws: who is answered
\* 1 has the key to itself for the lifetime it gave.
THEOREM ClaimsAreExclusive == MapSpec => []OneClaimPerLifetime
<1>1. WindowInv => OneClaimPerLifetime
  BY DEF WindowInv
<1>2. QED BY <1>1, WindowInit, WindowStep, PTL DEF MapSpec

\* A counter is left without an expiry only by a caller that gave none, by one
\* about to set it, or by a round trip of a client without eval that threw.
THEOREM OnlyFailureLeavesImmortals == MapSpec => []ImmortalOnlyByFailure
<1>1. WindowInv => ImmortalOnlyByFailure
  BY DEF WindowInv
<1>2. QED BY <1>1, WindowInit, WindowStep, PTL DEF MapSpec
=============================================================================
