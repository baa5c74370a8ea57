--------------------------- MODULE SimulateProofs ---------------------------
(***************************************************************************)
(* The replay and its report, proved for every stream, every state of its  *)
(* users, every policy of the modelled form and every instant its checks   *)
(* may name.                                                               *)
(*                                                                         *)
(* Every action of the run is one iteration (Taken): it takes the work w   *)
(* off the queue, queues at most one piece of work for the same candidate, *)
(* records one outcome and either takes a unit or does not (NextIs).  The  *)
(* invariant ReplayInv is kept by such an iteration part by part:          *)
(*   TimeInv   no work is due before the clock, nor is the next event;     *)
(*   QueueInv  the queue holds each candidate that waits once, no other,   *)
(*             and knows its first sighting and its attempt;               *)
(*   TrailInv  a record says what was so at its instant, and a later look  *)
(*             was a further attempt or followed a postponed delivery;     *)
(*   MoneyInv  exactly the candidates whose last record is of something    *)
(*             paid have paid, once, and the rows count them.              *)
(* The report's properties follow from it in any state that is done.       *)
(***************************************************************************)
EXTENDS SimulateReport, TLAPS, FiniteSetTheorems, SequenceTheorems

\* Taking one element out of a sequence.
LEMMA RemoveAtIs ==
  ASSUME NEW S, NEW s \in Seq(S), NEW i \in 1..Len(s)
  PROVE  /\ RemoveAt(s, i) \in Seq(S)
         /\ Len(RemoveAt(s, i)) = Len(s) - 1
         /\ \A j \in 1..(Len(s) - 1) : RemoveAt(s, i)[j] = IF j < i THEN s[j] ELSE s[j + 1]
<1>1. i \in Nat /\ i >= 1 /\ i <= Len(s) /\ Len(s) \in Nat /\ \A j \in 1..Len(s) : s[j] \in S
  OBVIOUS
<1>2. /\ SubSeq(s, 1, i - 1) \in Seq(S)
      /\ Len(SubSeq(s, 1, i - 1)) = i - 1
      /\ \A j \in 1..(i - 1) : SubSeq(s, 1, i - 1)[j] = s[j]
  <2>1. \A j \in 1..(i - 1) : s[j] \in S
    BY <1>1
  <2>2. 1 \in Int /\ i - 1 \in Int
    BY <1>1
  <2>3. /\ SubSeq(s, 1, i - 1) \in Seq(S)
        /\ Len(SubSeq(s, 1, i - 1)) = IF 1 <= i - 1 THEN i - 1 - 1 + 1 ELSE 0
        /\ \A j \in 1..(i - 1 - 1 + 1) : SubSeq(s, 1, i - 1)[j] = s[1 + j - 1]
    BY <2>1, <2>2, SubSeqProperties
  <2>4. QED BY <1>1, <2>3
<1>3. /\ SubSeq(s, i + 1, Len(s)) \in Seq(S)
      /\ Len(SubSeq(s, i + 1, Len(s))) = Len(s) - i
      /\ \A j \in 1..(Len(s) - i) : SubSeq(s, i + 1, Len(s))[j] = s[i + j]
  <2>1. \A j \in (i + 1)..Len(s) : s[j] \in S
    BY <1>1
  <2>2. i + 1 \in Int /\ Len(s) \in Int
    BY <1>1
  <2>3. /\ SubSeq(s, i + 1, Len(s)) \in Seq(S)
        /\ Len(SubSeq(s, i + 1, Len(s))) = IF i + 1 <= Len(s) THEN Len(s) - (i + 1) + 1 ELSE 0
        /\ \A j \in 1..(Len(s) - (i + 1) + 1) : SubSeq(s, i + 1, Len(s))[j] = s[i + 1 + j - 1]
    BY <2>1, <2>2, SubSeqProperties
  <2>4. QED BY <1>1, <2>3
<1> DEFINE a == SubSeq(s, 1, i - 1)
           b == SubSeq(s, i + 1, Len(s))
<1>4. RemoveAt(s, i) = a \o b
  BY DEF RemoveAt
<1> HIDE DEF a, b
<1>5. /\ a \o b \in Seq(S)
      /\ Len(a \o b) = Len(a) + Len(b)
      /\ \A j \in 1..(Len(a) + Len(b)) : (a \o b)[j] = IF j <= Len(a) THEN a[j] ELSE b[j - Len(a)]
  BY <1>2, <1>3, ConcatProperties DEF a, b
<1>6. Len(a) = i - 1 /\ Len(b) = Len(s) - i
  BY <1>2, <1>3 DEF a, b
<1>7. ASSUME NEW j \in 1..(Len(s) - 1)
      PROVE  (a \o b)[j] = IF j < i THEN s[j] ELSE s[j + 1]
  <2>1. CASE j < i
    BY <1>1, <1>2, <1>5, <1>6, <2>1 DEF a
  <2>2. CASE j >= i
    <3>1. j - (i - 1) \in 1..(Len(s) - i)
      BY <1>1, <2>2
    <3>2. b[j - (i - 1)] = s[i + (j - (i - 1))]
      BY <1>3, <3>1 DEF b
    <3>3. i + (j - (i - 1)) = j + 1
      BY <1>1
    <3>4. QED BY <1>1, <1>5, <1>6, <2>2, <3>2, <3>3
  <2>3. j < i \/ j >= i
    BY <1>1
  <2>4. QED BY <2>1, <2>2, <2>3
<1>8. QED BY <1>1, <1>4, <1>5, <1>6, <1>7

\* A non-empty set of naturals has a least element.
LEMMA LeastOf ==
  ASSUME NEW T \in SUBSET Nat, T # {}
  PROVE  \E x \in T : \A y \in T : x <= y
<1>1. PICK x \in T : \A y \in T : ~ (<<y, x>> \in OpToRel(<, Nat))
  BY NatLessThanWellFounded, WFMin
<1>2. ASSUME NEW y \in T PROVE x <= y
  <2>1. ~(y < x)
    BY <1>1 DEF OpToRel
  <2>2. QED BY <2>1
<1>3. QED BY <1>2

-----------------------------------------------------------------------------
(* The types *)

Keyed == Users \X Days
Pieces == [kind : {"retry", "deliver"}, event : Events, due : Nat, attempt : Nat \ {0},
           firstSeen : Nat]
Facts == [day : Int, night : BOOLEAN, quiet : BOOLEAN]
Records == [at : Nat, attempt : Nat \ {0}, outcome : Outcomes \cup {"deferred"},
            by : Checks \cup {None}, timed : BOOLEAN, landed : SUBSET Facts]
EntryType == [user : Users, at : Instants, state : States]

TypeInv ==
  /\ entry \in [Entries -> EntryType]
  /\ options \in Policies
  /\ draws \in [Events -> Transport]
  /\ index \in 1..(NumEvents + 1)
  /\ pending \in Seq(Pieces)
  /\ now \in Nat /\ seen \in Nat
  /\ counter \in [Keyed -> Nat] /\ report \in [Keyed -> Nat]
  /\ records \in [Events -> Seq(Records)]
  /\ charges \in Seq([event : Events, key : Keyed])

\* A user with a state at or before an instant has a newest one.
LEMMA NewestIsAState ==
  ASSUME entry \in [Entries -> EntryType], NEW user, NEW t \in Nat,
         NEW e \in Entries, entry[e].user = user, entry[e].at <= t
  PROVE  Newest(user, t) \in States
<1> DEFINE past == {n \in Entries : entry[n].user = user /\ entry[n].at <= t}
<1>0. \A n \in Entries : n \in Nat /\ entry[n].at \in Nat /\ entry[n].state \in States
  <2>1. \A n \in Entries : n \in Nat
    BY EntryAssumption DEF Entries
  <2>2. \A n \in Entries : entry[n] \in EntryType
    OBVIOUS
  <2>3. \A r \in EntryType : r.at \in Nat /\ r.state \in States
    BY InstantAssumption DEF EntryType
  <2>4. QED BY <2>1, <2>2, <2>3
<1>1. \A n \in past : n \in Entries /\ entry[n].at <= t
  OBVIOUS
<1>2. e \in past
  OBVIOUS
<1>3. PICK d \in Nat : /\ \E n \in past : d = t - entry[n].at
                       /\ \A n \in past : d <= t - entry[n].at
  <2> DEFINE T == {t - entry[n].at : n \in past}
  <2>1. T \in SUBSET Nat /\ T # {}
    BY <1>0, <1>1, <1>2
  <2>2. PICK d \in T : \A y \in T : d <= y
    BY <2>1, LeastOf
  <2>3. QED BY <2>1, <2>2
<1>4. PICK last \in past : /\ d = t - entry[last].at
                           /\ \A n \in past : d = t - entry[n].at => n <= last
  <2> DEFINE top == NumEvents + NumUpdates
             T == {top - n : n \in {m \in past : d = t - entry[m].at}}
  <2>1. \A n \in past : n \in Nat /\ n <= top
    BY <1>1, EntryAssumption DEF Entries
  <2>2. top \in Nat
    BY EntryAssumption
  <2> HIDE DEF top, past
  <2>3. T \in SUBSET Nat /\ T # {}
    BY <1>3, <2>1, <2>2
  <2>4. PICK x \in T : \A y \in T : x <= y
    BY <2>3, LeastOf
  <2>5. PICK last \in past : d = t - entry[last].at /\ x = top - last
    BY <2>4
  <2>6. ASSUME NEW n \in past, d = t - entry[n].at PROVE n <= last
    <3>1. x <= top - n
      BY <2>4, <2>6
    <3>2. QED BY <2>1, <2>2, <2>5, <3>1
  <2>7. QED BY <2>5, <2>6
<1>5. \A n \in past : After(last, n)
  <2> SUFFICES ASSUME NEW n \in past PROVE After(last, n)
    OBVIOUS
  <2>1. /\ entry[n].at \in Nat /\ entry[last].at \in Nat /\ n \in Nat /\ last \in Nat
        /\ d <= t - entry[n].at /\ d = t - entry[last].at
    BY <1>0, <1>1, <1>3, <1>4
  <2>2. CASE entry[last].at > entry[n].at
    BY <2>2 DEF After
  <2>3. CASE entry[last].at = entry[n].at
    BY <1>4, <2>1, <2>3 DEF After
  <2>4. QED BY <2>1, <2>2, <2>3
<1>6. (CHOOSE n \in past : \A m \in past : After(n, m)) \in past
  BY <1>5
<1>7. QED BY <1>0, <1>6 DEF Newest

\* The piece of work due first is one of those that wait, and no other is due before.
LEMMA FirstIs ==
  ASSUME pending \in Seq(Pieces), pending # <<>>
  PROVE  /\ First \in DOMAIN pending
         /\ \A j \in DOMAIN pending : pending[First].due <= pending[j].due
<1>0. DOMAIN pending = 1..Len(pending) /\ Len(pending) \in Nat \ {0}
      /\ \A i \in 1..Len(pending) : pending[i] \in Pieces /\ pending[i].due \in Nat
  <2>1. DOMAIN pending = 1..Len(pending) /\ Len(pending) \in Nat
    OBVIOUS
  <2>2. Len(pending) # 0
    BY EmptySeq
  <2>3. \A i \in 1..Len(pending) : pending[i] \in Pieces
    OBVIOUS
  <2>4. \A p \in Pieces : p.due \in Nat
    BY DEF Pieces
  <2>5. QED BY <2>1, <2>2, <2>3, <2>4
<1>1. PICK d \in Nat : /\ \E i \in DOMAIN pending : d = pending[i].due
                       /\ \A i \in DOMAIN pending : d <= pending[i].due
  <2> DEFINE T == {pending[i].due : i \in DOMAIN pending}
  <2>1. T \in SUBSET Nat /\ T # {}
    BY <1>0
  <2>2. PICK d \in T : \A y \in T : d <= y
    BY <2>1, LeastOf
  <2>3. QED BY <2>1, <2>2
<1>2. PICK f \in DOMAIN pending :
        /\ pending[f].due = d
        /\ \A i \in DOMAIN pending : pending[i].due = d => f <= i
  <2> DEFINE T == {i \in DOMAIN pending : pending[i].due = d}
  <2>1. T \in SUBSET Nat /\ T # {}
    BY <1>0, <1>1
  <2>2. PICK f \in T : \A y \in T : f <= y
    BY <2>1, LeastOf
  <2>3. QED BY <2>2
<1>3. \A j \in DOMAIN pending :
        pending[f].due < pending[j].due \/ (pending[f].due = pending[j].due /\ f <= j)
  BY <1>0, <1>1, <1>2
<1>4. /\ First \in DOMAIN pending
      /\ \A j \in DOMAIN pending : pending[First].due < pending[j].due
                                     \/ (pending[First].due = pending[j].due /\ First <= j)
  BY <1>3 DEF First
<1>5. QED BY <1>0, <1>4

-----------------------------------------------------------------------------
(* The queue *)

Held(s) == {s[i] : i \in DOMAIN s}

\* At most one piece of work for each event.
Distinct(s) == \A i, j \in DOMAIN s : s[i].event = s[j].event => i = j

\* The work that stays.
Rest == IF TakesPending THEN Left ELSE pending

\* The queue without the piece that is taken still has one of each event, and all others.
LEMMA RestIs ==
  ASSUME pending \in Seq(Pieces), Distinct(pending)
  PROVE  /\ Rest \in Seq(Pieces) /\ Distinct(Rest)
         /\ Held(Rest) = IF TakesPending THEN Held(pending) \ {pending[First]} ELSE Held(pending)
<1>1. CASE ~TakesPending
  BY <1>1 DEF Rest
<1>2. CASE TakesPending
  <2>1. /\ First \in 1..Len(pending) /\ DOMAIN pending = 1..Len(pending) /\ Len(pending) \in Nat
        /\ Rest = RemoveAt(pending, First)
    BY <1>2, FirstIs DEF TakesPending, Rest, Left
  <2>2. /\ Rest \in Seq(Pieces) /\ Len(Rest) = Len(pending) - 1
        /\ \A j \in 1..(Len(pending) - 1) :
             Rest[j] = IF j < First THEN pending[j] ELSE pending[j + 1]
    BY <2>1, RemoveAtIs
  <2>3. DOMAIN Rest = 1..(Len(pending) - 1)
    BY <2>2
  <2>4. \A j \in DOMAIN Rest : \E i \in DOMAIN pending :
          Rest[j] = pending[i] /\ i # First /\ (i = j \/ i = j + 1) /\ (i = j <=> j < First)
    <3> SUFFICES ASSUME NEW j \in DOMAIN Rest
                 PROVE  \E i \in DOMAIN pending :
          Rest[j] = pending[i] /\ i # First /\ (i = j \/ i = j + 1) /\ (i = j <=> j < First)
      OBVIOUS
    <3>1. j \in 1..(Len(pending) - 1) /\ j \in Nat /\ j + 1 \in Nat /\ First \in Nat
      BY <2>1, <2>3
    <3>2. j \in DOMAIN pending /\ j + 1 \in DOMAIN pending /\ j # j + 1
      BY <2>1, <3>1
    <3>3. CASE j < First
      <4>1. Rest[j] = pending[j]
        BY <2>2, <3>1, <3>3
      <4>2. j # First
        BY <3>1, <3>3
      <4>3. QED BY <3>2, <3>3, <4>1, <4>2
    <3>4. CASE j >= First
      <4>1. ~(j < First) /\ j + 1 # First
        BY <3>1, <3>4
      <4>2. Rest[j] = pending[j + 1]
        BY <2>2, <3>1, <4>1
      <4>3. QED BY <3>2, <4>1, <4>2
    <3>5. j < First \/ j >= First
      BY <3>1
    <3>6. QED BY <3>3, <3>4, <3>5
  <2>5. Distinct(Rest)
    <3> SUFFICES ASSUME NEW i \in DOMAIN Rest, NEW j \in DOMAIN Rest, Rest[i].event = Rest[j].event
                 PROVE  i = j
      BY DEF Distinct
    <3>1. PICK x \in DOMAIN pending : Rest[i] = pending[x] /\ x # First
            /\ (x = i \/ x = i + 1) /\ (x = i <=> i < First)
      BY <2>4
    <3>2. PICK y \in DOMAIN pending : Rest[j] = pending[y] /\ y # First
            /\ (y = j \/ y = j + 1) /\ (y = j <=> j < First)
      BY <2>4
    <3>3. x = y
      BY <3>1, <3>2 DEF Distinct
    <3>4. QED BY <2>1, <2>3, <3>1, <3>2, <3>3
  <2>6. ASSUME NEW i \in DOMAIN pending, i # First
        PROVE  \E j \in DOMAIN Rest : Rest[j] = pending[i]
    <3>1. CASE i < First
      BY <2>1, <2>2, <2>3, <3>1
    <3>2. CASE i > First
      <4>1. i - 1 \in DOMAIN Rest /\ ~(i - 1 < First) /\ i - 1 + 1 = i
        BY <2>1, <2>3, <3>2
      <4>2. Rest[i - 1] = pending[i]
        BY <2>2, <2>3, <4>1
      <4>3. QED BY <4>1, <4>2
    <3>3. QED BY <2>1, <2>6, <3>1, <3>2
  <2>7. \A i \in DOMAIN pending : pending[i] = pending[First] => i = First
    BY <2>1 DEF Distinct
  <2>8. Held(Rest) = Held(pending) \ {pending[First]}
    BY <2>4, <2>6, <2>7 DEF Held
  <2>9. QED BY <1>2, <2>2, <2>5, <2>8
<1>3. QED BY <1>1, <1>2

\* One more piece of work, for an event that has none.
LEMMA QueuedIs ==
  ASSUME NEW s \in Seq(Pieces), Distinct(s), NEW p \in Pieces,
         \A x \in Held(s) : x.event # p.event
  PROVE  /\ s \o <<p>> \in Seq(Pieces) /\ Distinct(s \o <<p>>)
         /\ Held(s \o <<p>>) = Held(s) \cup {p}
<1>1. /\ s \o <<p>> \in Seq(Pieces) /\ Len(s \o <<p>>) = Len(s) + 1
      /\ \A i \in 1..(Len(s) + 1) : (s \o <<p>>)[i] = IF i <= Len(s) THEN s[i] ELSE p
  OBVIOUS
<1> DEFINE t == s \o <<p>>
<1>2. Len(s) \in Nat /\ DOMAIN s = 1..Len(s) /\ DOMAIN t = 1..(Len(s) + 1)
  BY <1>1
<1>3. /\ \A i \in DOMAIN s : i \in DOMAIN t /\ t[i] = s[i]
      /\ Len(s) + 1 \in DOMAIN t /\ t[Len(s) + 1] = p
      /\ \A i \in DOMAIN t : i \in DOMAIN s \/ i = Len(s) + 1
  BY <1>1, <1>2
<1> HIDE DEF t
<1>4. Held(t) = Held(s) \cup {p}
  BY <1>3 DEF Held
<1>5. Distinct(t)
  BY <1>3 DEF Distinct, Held
<1>6. QED BY <1>1, <1>4, <1>5 DEF t

-----------------------------------------------------------------------------
(* The work *)

\* The last thing recorded of a candidate is that it will be looked at again.
Waits(n) == records[n] # <<>> /\ Last(records[n]).outcome = "deferred"

\* The stream is in order, and so is all the work: none is due before the clock.
TimeInv ==
  /\ \A m, n \in Events : m <= n => entry[m].at <= entry[n].at
  /\ seen <= now
  /\ \A p \in Held(pending) : now <= p.due
  /\ index \in Events => now <= entry[index].at

\* What a piece of pending work knows of its candidate.
PieceInv(p) ==
  /\ p.firstSeen = entry[p.event].at /\ p.firstSeen < p.due
  /\ p.kind = "retry" => p.attempt > 1 /\ p.due <= p.firstSeen + Expiry
  /\ p.kind = "deliver" <=> Last(records[p.event]).by = "adaptiveTiming"
  /\ p.kind = "deliver" => p.attempt = Last(records[p.event]).attempt

\* The queue holds exactly the candidates that wait, each of them once.
QueueInv ==
  /\ Distinct(pending)
  /\ \A n \in Events : records[n] # <<>> <=> n < index
  /\ \A n \in Events : Waits(n) <=> \E p \in Held(pending) : p.event = n
  /\ \A n \in Events : \A i \in DOMAIN records[n] :
       i < Len(records[n]) => records[n][i].outcome = "deferred"
  /\ \A p \in Held(pending) : PieceInv(p)

\* The next event after this iteration.
Advanced == IF TakesPending THEN index ELSE index + 1

\* What an iteration works on: the queue gives up this candidate and no other,
\* and nothing that is left comes before it.
LEMMA WorkIs ==
  ASSUME TypeInv, TimeInv, QueueInv, NEW w \in Works
  PROVE  /\ w \in Pieces
         /\ w.firstSeen = entry[w.event].at
         /\ w.kind = "retry" => w.due <= w.firstSeen + Expiry
         /\ now <= w.due
         /\ Rest \in Seq(Pieces) /\ Distinct(Rest)
         /\ \A p \in Held(Rest) : p \in Held(pending) /\ p.event # w.event /\ w.due <= p.due
         /\ \A p \in Held(pending) : p.event # w.event => p \in Held(Rest)
         /\ Advanced \in 1..(NumEvents + 1)
         /\ \A n \in Events : n < Advanced <=> n < index \/ n = w.event
         /\ Advanced \in Events => w.due <= entry[Advanced].at
         /\ \A i \in DOMAIN records[w.event] : records[w.event][i].outcome = "deferred"
         /\ \/ /\ records[w.event] = <<>> /\ w.event = index
               /\ w.kind = "retry" /\ w.attempt = 1 /\ w.due = w.firstSeen
            \/ /\ records[w.event] # <<>> /\ w \in Held(pending)
               /\ w.firstSeen < w.due
               /\ w.kind = "retry" => w.attempt > 1
               /\ w.kind = "deliver" <=> Last(records[w.event]).by = "adaptiveTiming"
               /\ w.kind = "deliver" => w.attempt = Last(records[w.event]).attempt
<1> DEFINE Goal ==
         /\ w \in Pieces
         /\ w.firstSeen = entry[w.event].at
         /\ w.kind = "retry" => w.due <= w.firstSeen + Expiry
         /\ now <= w.due
         /\ Rest \in Seq(Pieces) /\ Distinct(Rest)
         /\ \A p \in Held(Rest) : p \in Held(pending) /\ p.event # w.event /\ w.due <= p.due
         /\ \A p \in Held(pending) : p.event # w.event => p \in Held(Rest)
         /\ Advanced \in 1..(NumEvents + 1)
         /\ \A n \in Events : n < Advanced <=> n < index \/ n = w.event
         /\ Advanced \in Events => w.due <= entry[Advanced].at
         /\ \A i \in DOMAIN records[w.event] : records[w.event][i].outcome = "deferred"
         /\ \/ /\ records[w.event] = <<>> /\ w.event = index
               /\ w.kind = "retry" /\ w.attempt = 1 /\ w.due = w.firstSeen
            \/ /\ records[w.event] # <<>> /\ w \in Held(pending)
               /\ w.firstSeen < w.due
               /\ w.kind = "retry" => w.attempt > 1
               /\ w.kind = "deliver" <=> Last(records[w.event]).by = "adaptiveTiming"
               /\ w.kind = "deliver" => w.attempt = Last(records[w.event]).attempt
<1> SUFFICES Goal
  OBVIOUS
<1> HIDE DEF Goal
<1>1. w = Work /\ ~Done
  BY DEF Works
<1>2. /\ Rest \in Seq(Pieces) /\ Distinct(Rest)
      /\ Held(Rest) = IF TakesPending THEN Held(pending) \ {pending[First]} ELSE Held(pending)
  BY RestIs DEF TypeInv, QueueInv
<1>3. NumEvents \in Nat \ {0} /\ index \in 1..(NumEvents + 1) /\ index \in Nat /\ Expiry \in Nat
  BY EntryAssumption, BoundAssumption DEF TypeInv
<1>4. \A n \in Events : n \in Nat /\ entry[n].at \in Nat /\ n \in Entries
  <2>1. \A n \in Events : n \in Entries /\ n \in Nat
    BY EntryAssumption DEF Events, Entries
  <2>2. \A n \in Entries : entry[n] \in EntryType
    BY DEF TypeInv
  <2>3. \A r \in EntryType : r.at \in Nat
    BY InstantAssumption DEF EntryType
  <2>4. QED BY <2>1, <2>2, <2>3
<1>5. \A p \in Held(pending) : p \in Pieces /\ p.due \in Nat /\ p.event \in Events
  <2>1. \A p \in Held(pending) : p \in Pieces
    BY DEF Held, TypeInv
  <2>2. \A p \in Pieces : p.due \in Nat /\ p.event \in Events
    BY DEF Pieces
  <2>3. QED BY <2>1, <2>2
<1>6. CASE TakesPending
  <2>1. /\ w = pending[First] /\ First \in DOMAIN pending
        /\ \A j \in DOMAIN pending : pending[First].due <= pending[j].due
    BY <1>1, <1>6, FirstIs DEF Work, TakesPending, TypeInv
  <2>2. w \in Held(pending) /\ \A p \in Held(pending) : w.due <= p.due
    BY <2>1 DEF Held
  <2>3. w \in Pieces /\ w.event \in Events /\ PieceInv(w) /\ now <= w.due
    BY <1>5, <2>2 DEF QueueInv, TimeInv
  <2>4. Held(Rest) = Held(pending) \ {w}
    BY <1>2, <1>6, <2>1
  <2>5. \A p \in Held(pending) : p.event = w.event => p = w
    BY <2>1, <2>2 DEF QueueInv, Distinct, Held
  <2>6. Advanced = index /\ (index \in Events => w.due <= entry[index].at)
    BY <1>6, <2>1 DEF Advanced, TakesPending
  <2>7. Waits(w.event)
    BY <2>2, <2>3 DEF QueueInv
  <2>8. records[w.event] # <<>> /\ w.event < index
    BY <2>3, <2>7 DEF Waits, QueueInv
  <2>9. \A i \in DOMAIN records[w.event] : records[w.event][i].outcome = "deferred"
    <3>1. records[w.event] \in Seq(Records)
      BY <2>3 DEF TypeInv
    <3>2. \A i \in DOMAIN records[w.event] : i < Len(records[w.event]) \/ i = Len(records[w.event])
      BY <3>1
    <3>3. QED BY <2>3, <2>7, <3>2 DEF QueueInv, Waits, Last
  <2>10. QED BY <1>2, <1>3, <2>2, <2>3, <2>4, <2>5, <2>6, <2>8, <2>9 DEF PieceInv, Goal
<1>7. CASE ~TakesPending
  <2>1. index \in Events
    BY <1>1, <1>7 DEF Done, TakesPending
  <2>2. w = [kind |-> "retry", event |-> index, due |-> entry[index].at, attempt |-> 1,
             firstSeen |-> entry[index].at]
    BY <1>1, <1>7 DEF Work
  <2>3. w \in Pieces
    BY <1>4, <2>1, <2>2 DEF Pieces
  <2>4. /\ w.kind = "retry" /\ w.event = index /\ w.due = entry[index].at /\ w.attempt = 1
        /\ w.firstSeen = entry[index].at
    BY <2>2
  <2>5. \A p \in Held(pending) : w.due <= p.due
    <3> SUFFICES ASSUME NEW p \in Held(pending) PROVE w.due <= p.due
      OBVIOUS
    <3>1. pending # <<>>
      BY DEF Held
    <3>2. /\ First \in DOMAIN pending
          /\ \A j \in DOMAIN pending : pending[First].due <= pending[j].due
      BY <3>1, FirstIs DEF TypeInv
    <3>3. pending[First].due <= p.due /\ pending[First] \in Held(pending)
      BY <3>2 DEF Held
    <3>4. ~(pending[First].due <= entry[index].at)
      BY <1>7, <2>1, <3>1 DEF TakesPending
    <3>5. QED BY <1>4, <1>5, <2>1, <2>4, <3>3, <3>4
  <2>6. records[index] = <<>>
    BY <1>3, <2>1 DEF QueueInv
  <2>7. \A p \in Held(pending) : p.event # index
    BY <2>1, <2>6 DEF QueueInv, Waits
  <2>8. Advanced = index + 1 /\ Rest = pending
    BY <1>7 DEF Advanced, Rest
  <2>9. /\ Advanced \in 1..(NumEvents + 1)
        /\ \A n \in Events : n < Advanced <=> n < index \/ n = w.event
    BY <1>3, <1>4, <2>1, <2>4, <2>8 DEF Events
  <2>10. Advanced \in Events => w.due <= entry[Advanced].at
    <3> SUFFICES ASSUME Advanced \in Events PROVE w.due <= entry[Advanced].at
      OBVIOUS
    <3>1. index <= Advanced
      BY <1>3, <2>8
    <3>2. QED BY <2>1, <2>4, <3>1 DEF TimeInv
  <2>11. w.due <= w.firstSeen + Expiry /\ now <= w.due
    BY <1>3, <1>4, <2>1, <2>4 DEF TimeInv
  <2>12. \A i \in DOMAIN records[w.event] : FALSE
    BY <2>4, <2>6
  <2>13. QED BY <1>2, <2>3, <2>4, <2>5, <2>6, <2>7, <2>8, <2>9, <2>10, <2>11, <2>12 DEF Goal
<1>8. QED BY <1>6, <1>7

\* What the gate reads of a user is a state of his.
LEMMA SnapshotIs ==
  ASSUME TypeInv, TimeInv, QueueInv, NEW w \in Works
  PROVE  /\ w.event \in Events /\ w.due \in Nat /\ w.attempt \in Nat /\ w.firstSeen \in Nat
         /\ User(w) \in Users
         /\ Snapshot(w) = Newest(User(w), w.due) /\ Snapshot(w) \in States
         /\ MarkDelivered(w) \in Facts
         /\ w.kind = "retry" => Key(w) \in Keyed
<1>1. /\ w \in Pieces /\ w.firstSeen = entry[w.event].at /\ now <= w.due
      /\ w.kind = "retry" => w.due <= w.firstSeen + Expiry
      /\ w.firstSeen <= w.due
  BY WorkIs DEF Pieces
<1>2. w.event \in Events /\ w.due \in Nat /\ w.attempt \in Nat /\ w.firstSeen \in Nat
  BY <1>1 DEF Pieces
<1>3. w.event \in Entries
  BY <1>2, EntryAssumption DEF Events, Entries
<1>4. entry[w.event].user \in Users /\ entry[w.event].at \in Instants
  <2>1. entry[w.event] \in EntryType
    BY <1>3 DEF TypeInv
  <2>2. QED BY <2>1 DEF EntryType
<1>5. ~(w.due > seen) => seen = w.due
  BY <1>1, <1>2 DEF TimeInv, TypeInv
<1>6. Snapshot(w) = Newest(User(w), w.due)
  BY <1>5 DEF Snapshot
<1>7. entry[w.event].at <= w.due
  BY <1>1
<1>8. Newest(User(w), w.due) \in States
  BY <1>2, <1>3, <1>7, NewestIsAState DEF User, TypeInv
<1> DEFINE state == Snapshot(w)
<1> HIDE DEF state
<1>9. state \in State
  BY <1>6, <1>8, StateAssumption DEF state
<1>10. state.offset \in Offsets /\ state.offset \in Int /\ DayLength \in Nat \ {0}
  BY <1>9, InstantAssumption, DayAssumption DEF State
<1>11. DayOf(w.due, state) \in Int
  BY <1>2, <1>10 DEF DayOf
<1>12. MarkDelivered(w) \in Facts
  BY <1>11 DEF MarkDelivered, Facts, state
<1>13. ASSUME w.kind = "retry" PROVE DayOf(w.due, state) \in Days
  <2> DEFINE late == w.due - w.firstSeen
             o == state.offset
  <2>1. late \in 0..Expiry /\ w.firstSeen \in Instants /\ o \in Offsets
    BY <1>1, <1>2, <1>4, <1>10, <1>13, BoundAssumption
  <2>2. w.firstSeen + late = w.due
    BY <1>2
  <2>3. DayOf(w.due, state) = DayOf(w.firstSeen + late, [offset |-> o])
    BY <2>2 DEF DayOf
  <2> HIDE DEF late, o
  <2>4. QED BY <2>1, <2>3 DEF Days
<1>14. QED BY <1>2, <1>4, <1>6, <1>8, <1>12, <1>13 DEF Key, User, Keyed, state

-----------------------------------------------------------------------------
(* The iteration *)

\* What is recorded of the iteration.
Rec(w, outcome, by, timed) ==
  [at |-> w.due, attempt |-> w.attempt, outcome |-> outcome, by |-> by, timed |-> timed,
   landed |-> IF outcome = "sent" THEN {MarkDelivered(w)} ELSE {}]

\* The work it queues again: a retry that can wait, or a delivery that was paid for.
QueuesOf(w, queued, outcome, by) ==
  /\ queued = <<>> \/ \E p \in Pieces : queued = <<p>>
  /\ outcome = "deferred" <=> queued # <<>>
  /\ by = "adaptiveTiming" => queued # <<>>
  /\ \A p \in Held(queued) :
       /\ p.event = w.event /\ p.firstSeen = w.firstSeen /\ w.due < p.due
       /\ w.kind = "retry"
       /\ \/ /\ p.kind = "retry" /\ by = "snooze"
             /\ p.attempt = w.attempt + 1 /\ p.due <= w.firstSeen + Expiry
          \/ /\ p.kind = "deliver" /\ by = "adaptiveTiming"
             /\ p.attempt = w.attempt

\* Why it ends as it does.
ReasonOf(w, outcome, by, timed) ==
  /\ outcome \in Outcomes \cup {"deferred"} /\ by \in Checks \cup {None} /\ timed \in BOOLEAN
  /\ w.kind = "deliver" => timed /\ outcome # "deferred"
  /\ outcome \in Transport <=> by = None
  /\ outcome \in Transport => Consents(w)
  /\ outcome \in {"held", "expired", "lostAtCommit"} => w.kind = "retry"
  /\ outcome = "stoppedAtDelivery" =>
       w.kind = "deliver" /\ (by = "snooze" \/ ~Snapshot(w).consents)

\* It takes a unit.
Pays(w, outcome, by) == w.kind = "retry" /\ (outcome \in Transport \/ by = "adaptiveTiming")

\* The unit taken, or the counter left alone or pushed past its limit.
UnitsOf(w, outcome, by) ==
  IF Pays(w, outcome, by) THEN Pay(w)
  ELSE /\ UNCHANGED <<report, charges>>
       /\ \/ UNCHANGED counter
          \/ w.kind = "retry" /\ ~Within(counter[Key(w)] + 1) /\ Increment(w)

Taken(w, queued, outcome, by, timed) ==
  /\ Turn(w, queued, outcome, by, timed)
  /\ QueuesOf(w, queued, outcome, by)
  /\ ReasonOf(w, outcome, by, timed)
  /\ UnitsOf(w, outcome, by)

\* The iteration that queues nothing.
LEMMA QueuesNothing ==
  ASSUME NEW w, NEW outcome, NEW by, outcome # "deferred", by # "adaptiveTiming"
  PROVE  QueuesOf(w, <<>>, outcome, by)
<1>1. Held(<<>>) = {}
  BY DEF Held
<1>2. QED BY <1>1 DEF QueuesOf

\* The iteration that queues one piece of work.
LEMMA QueuesOne ==
  ASSUME NEW p
  PROVE  Held(<<p>>) = {p} /\ <<p>> # <<>>
<1>1. DOMAIN <<p>> = {1} /\ <<p>>[1] = p
  OBVIOUS
<1>2. QED BY <1>1 DEF Held

\* The events are finite, and so is every set of them.
LEMMA EventsFinite ==
  /\ IsFiniteSet(Events) /\ Cardinality(Events) = NumEvents
  /\ \A T \in SUBSET Events : IsFiniteSet(T) /\ Cardinality(T) \in Nat /\ Cardinality(T) <= NumEvents
<1>1. IsFiniteSet(Events) /\ Cardinality(Events) = NumEvents
  BY EntryAssumption, FS_Interval DEF Events
<1>2. \A T \in SUBSET Events : IsFiniteSet(T) /\ Cardinality(T) \in Nat /\ Cardinality(T) <= NumEvents
  BY <1>1, FS_Subset, FS_CardinalityType
<1>3. QED BY <1>1, <1>2

\* The generator has a number for every message: the candidate at hand is not yet
\* among those that were sent one, so fewer have been drawn than there are.
LEMMA DrawIs ==
  ASSUME TypeInv, TimeInv, QueueInv, NEW w \in Works
  PROVE  Draw \in Transport
<1>1. w.event \in Events
  BY SnapshotIs
<1>2. \A i \in DOMAIN records[w.event] : records[w.event][i].outcome = "deferred"
  BY WorkIs
<1>3. w.event \notin Sent
  BY <1>2 DEF Sent, Transport
<1>4. Sent \subseteq Events \ {w.event} /\ IsFiniteSet(Events) /\ Cardinality(Events) = NumEvents
  BY <1>3, EventsFinite DEF Sent
<1>5. IsFiniteSet(Events \ {w.event}) /\ Cardinality(Events \ {w.event}) = NumEvents - 1
  BY <1>1, <1>4, FS_RemoveElement
<1>6. Cardinality(Sent) <= NumEvents - 1 /\ Cardinality(Sent) \in Nat
  BY <1>4, <1>5, FS_Subset, FS_CardinalityType
<1>7. Cardinality(Sent) + 1 \in Events
  BY <1>6, EntryAssumption DEF Events
<1>8. QED BY <1>7 DEF Draw, TypeInv

\* Every step of the run is an iteration of that form.
LEMMA NextIs ==
  ASSUME TypeInv, TimeInv, QueueInv, Next
  PROVE  \E w \in Works : \E queued, outcome, by, timed : Taken(w, queued, outcome, by, timed)
<1> DEFINE Goal == \E w \in Works : \E queued, outcome, by, timed : Taken(w, queued, outcome, by, timed)
<1> SUFFICES Goal
  OBVIOUS
<1>0. \A w \in Works : \A queued, outcome, by, timed : Taken(w, queued, outcome, by, timed) => Goal
  OBVIOUS
<1> HIDE DEF Goal
<1>a. None \notin Checks /\ None \notin Int /\ Delays \subseteq Int
  BY NoneAssumption, DelayAssumption
<1>b. \A w \in Works : w \in Pieces /\ w.event \in Events /\ w.due \in Nat
                       /\ w.attempt \in Nat /\ w.firstSeen \in Nat
  BY WorkIs, SnapshotIs
<1>c. \A w \in Works : ~Consents(w) => ~Snapshot(w).consents
  BY DEF Consents
<1>1. ASSUME NEW w \in Looks, Hold(w) PROVE Goal
  <2>1. w \in Works /\ w.kind = "retry"
    BY DEF Looks
  <2>2. PICK by \in {"consent", "budget"} : Turn(w, <<>>, "held", by, FALSE)
    BY <1>1 DEF Hold
  <2>3. ReasonOf(w, "held", by, FALSE) /\ ~Pays(w, "held", by)
    BY <1>a, <2>1 DEF ReasonOf, Outcomes, Checks, Transport, Pays
  <2>4. UnitsOf(w, "held", by)
    BY <1>1, <2>3 DEF Hold, UnitsOf
  <2>5. QED BY <1>0, <2>1, <2>2, <2>3, <2>4, QueuesNothing DEF Taken
<1>2. ASSUME NEW w \in Looks, NEW due \in Moments(w), Defer(w, due)
      PROVE  Goal
  <2>1. w \in Works /\ w.kind = "retry"
    BY DEF Looks
  <2>2. \A outcome \in {"expired", "deferred"} : ReasonOf(w, outcome, "snooze", FALSE)
          /\ ~Pays(w, outcome, "snooze") /\ UnitsOf(w, outcome, "snooze")
    BY <1>a, <1>2, <2>1 DEF ReasonOf, Outcomes, Checks, Transport, Pays, UnitsOf, Defer
  <2>3. CASE GivesUp(w, due)
    <3>1. Turn(w, <<>>, "expired", "snooze", FALSE)
      BY <1>2, <2>3 DEF Defer
    <3>2. QED BY <1>0, <2>1, <2>2, <3>1, QueuesNothing DEF Taken
  <2>4. CASE ~GivesUp(w, due)
    <3> DEFINE p == [kind |-> "retry", event |-> w.event, due |-> due, attempt |-> w.attempt + 1,
                     firstSeen |-> w.firstSeen]
    <3>1. Turn(w, <<p>>, "deferred", "snooze", FALSE)
      BY <1>2, <2>4 DEF Defer
    <3>2. due \in Nat /\ w.due < due /\ due <= w.firstSeen + Expiry
      <4>1. due # None /\ ~(due <= w.due) /\ ~(due > w.firstSeen + Expiry)
        BY <2>4 DEF GivesUp, Broken, TooLate
      <4>2. due \in Int
        BY <1>a, <1>b, <2>1, <4>1 DEF Moments
      <4>3. QED BY <1>b, <2>1, <4>1, <4>2, BoundAssumption
    <3>3. p \in Pieces
      BY <1>b, <2>1, <3>2 DEF Pieces
    <3>4. /\ p.kind = "retry" /\ p.event = w.event /\ p.due = due /\ p.attempt = w.attempt + 1
          /\ p.firstSeen = w.firstSeen
      OBVIOUS
    <3> HIDE DEF p
    <3>5. QueuesOf(w, <<p>>, "deferred", "snooze")
      BY <2>1, <3>2, <3>3, <3>4, QueuesOne DEF QueuesOf
    <3>6. QED BY <1>0, <2>1, <2>2, <3>1, <3>5 DEF Taken
  <2>5. QED BY <2>3, <2>4
<1>3. ASSUME NEW w \in Looks, NEW deliverAt \in Moments(w), LoseAtCommit(w, deliverAt) PROVE Goal
  <2>1. w \in Works /\ w.kind = "retry"
    BY DEF Looks
  <2>2. Turn(w, <<>>, "lostAtCommit", "commit", deliverAt # None)
    BY <1>3 DEF LoseAtCommit
  <2>3. ReasonOf(w, "lostAtCommit", "commit", deliverAt # None) /\ ~Pays(w, "lostAtCommit", "commit")
    BY <1>a, <2>1 DEF ReasonOf, Outcomes, Checks, Transport, Pays
  <2>4. UnitsOf(w, "lostAtCommit", "commit")
    BY <1>3, <2>1, <2>3 DEF LoseAtCommit, UnitsOf
  <2>5. QED BY <1>0, <2>1, <2>2, <2>3, <2>4, QueuesNothing DEF Taken
<1>4. ASSUME NEW w \in Looks, NEW due \in Moments(w), Postpone(w, due) PROVE Goal
  <2>1. w \in Works /\ w.kind = "retry"
    BY DEF Looks
  <2> DEFINE p == [kind |-> "deliver", event |-> w.event, due |-> due, attempt |-> w.attempt,
                   firstSeen |-> w.firstSeen]
  <2>2. Turn(w, <<p>>, "deferred", "adaptiveTiming", TRUE) /\ Pay(w) /\ due # None /\ due > w.due
    BY <1>4 DEF Postpone, Later
  <2>3. due \in Nat
    <3>1. due \in Int
      BY <1>a, <1>b, <2>1, <2>2 DEF Moments
    <3>2. QED BY <1>b, <2>1, <2>2, <3>1
  <2>4. p \in Pieces
    <3>1. w.attempt \in Nat \ {0}
      BY <1>b, <2>1 DEF Pieces
    <3>2. QED BY <1>b, <2>1, <2>3, <3>1 DEF Pieces
  <2>5. /\ p.kind = "deliver" /\ p.event = w.event /\ p.due = due /\ p.firstSeen = w.firstSeen
        /\ p.attempt = w.attempt
    OBVIOUS
  <2>6. w.due < due
    BY <1>b, <2>1, <2>2, <2>3
  <2> HIDE DEF p
  <2>7. QueuesOf(w, <<p>>, "deferred", "adaptiveTiming")
    BY <2>1, <2>4, <2>5, <2>6, QueuesOne DEF QueuesOf
  <2>8. ReasonOf(w, "deferred", "adaptiveTiming", TRUE) /\ Pays(w, "deferred", "adaptiveTiming")
    BY <1>a, <2>1 DEF ReasonOf, Outcomes, Checks, Transport, Pays
  <2>9. UnitsOf(w, "deferred", "adaptiveTiming")
    BY <2>2, <2>8 DEF UnitsOf
  <2>10. QED BY <1>0, <2>1, <2>2, <2>7, <2>8, <2>9 DEF Taken
<1>5. ASSUME NEW w \in Looks, NEW deliverAt \in Moments(w), Send(w, deliverAt) PROVE Goal
  <2>1. w \in Works /\ w.kind = "retry"
    BY DEF Looks
  <2>0. PICK outcome \in Transport : outcome = Draw
    BY <2>1, DrawIs
  <2>2. Turn(w, <<>>, outcome, None, deliverAt # None) /\ Pay(w) /\ Consents(w)
    BY <1>5, <2>0 DEF Send, Pay, Allowed
  <2>3. outcome # "deferred" /\ None # "adaptiveTiming"
    BY <1>a DEF Transport, Checks
  <2>4. ReasonOf(w, outcome, None, deliverAt # None) /\ Pays(w, outcome, None)
    BY <2>1, <2>2 DEF ReasonOf, Outcomes, Transport, Pays
  <2>5. UnitsOf(w, outcome, None)
    BY <2>2, <2>4 DEF UnitsOf
  <2>6. QED BY <1>0, <2>1, <2>2, <2>3, <2>4, <2>5, QueuesNothing DEF Taken
<1>6. ASSUME NEW w \in Deliveries, NEW by \in {"consent", "snooze", "budget"}, StopDelivery(w, by)
      PROVE  Goal
  <2>1. w \in Works /\ w.kind = "deliver"
    BY DEF Deliveries
  <2>2. Turn(w, <<>>, "stoppedAtDelivery", by, TRUE) /\ StopsDelivery(w, by)
    BY <1>6 DEF StopDelivery
  <2>3. by = "snooze" \/ ~Snapshot(w).consents
    BY <1>c, <2>1, <2>2 DEF StopsDelivery
  <2>4. ReasonOf(w, "stoppedAtDelivery", by, TRUE) /\ ~Pays(w, "stoppedAtDelivery", by)
    BY <1>a, <2>1, <2>3 DEF ReasonOf, Outcomes, Checks, Transport, Pays
  <2>5. UnitsOf(w, "stoppedAtDelivery", by)
    BY <1>6, <2>4 DEF StopDelivery, UnitsOf
  <2>6. QED BY <1>0, <2>1, <2>2, <2>4, <2>5, QueuesNothing DEF Taken
<1>7. ASSUME NEW w \in Deliveries, Deliver(w) PROVE Goal
  <2>1. w \in Works /\ w.kind = "deliver"
    BY DEF Deliveries
  <2>0. PICK outcome \in Transport : outcome = Draw
    BY <2>1, DrawIs
  <2>2. Turn(w, <<>>, outcome, None, TRUE) /\ Consents(w)
    BY <1>7, <2>0 DEF Deliver
  <2>3. outcome # "deferred" /\ None # "adaptiveTiming"
    BY <1>a DEF Transport, Checks
  <2>4. ReasonOf(w, outcome, None, TRUE) /\ ~Pays(w, outcome, None)
    BY <2>1, <2>2, <2>3 DEF ReasonOf, Outcomes, Transport, Pays
  <2>5. UnitsOf(w, outcome, None)
    BY <1>7, <2>4 DEF Deliver, UnitsOf
  <2>6. QED BY <1>0, <2>1, <2>2, <2>3, <2>4, <2>5, QueuesNothing DEF Taken
<1>8. QED BY <1>1, <1>2, <1>3, <1>4, <1>5, <1>6, <1>7 DEF Next

\* What an iteration leaves: the queue, the clock and the records.
LEMMA TurnIs ==
  ASSUME TypeInv, TimeInv, QueueInv, NEW w \in Works, NEW queued, NEW outcome, NEW by, NEW timed,
         Taken(w, queued, outcome, by, timed)
  PROVE  /\ entry' = entry /\ options' = options /\ draws' = draws /\ index' = Advanced
         /\ pending' \in Seq(Pieces) /\ Distinct(pending')
         /\ Held(pending') = Held(Rest) \cup Held(queued)
         /\ now' = w.due /\ seen' = w.due
         /\ Rec(w, outcome, by, timed) \in Records
         /\ records' \in [Events -> Seq(Records)]
         /\ \A n \in Events : n # w.event => records'[n] = records[n]
         /\ Len(records'[w.event]) = Len(records[w.event]) + 1
         /\ \A i \in DOMAIN records[w.event] :
              i \in DOMAIN records'[w.event] /\ records'[w.event][i] = records[w.event][i]
         /\ Len(records[w.event]) + 1 \in DOMAIN records'[w.event]
         /\ records'[w.event][Len(records[w.event]) + 1] = Rec(w, outcome, by, timed)
         /\ \A i \in DOMAIN records'[w.event] :
              i \in DOMAIN records[w.event] \/ i = Len(records[w.event]) + 1
<1>1. Turn(w, queued, outcome, by, timed) /\ QueuesOf(w, queued, outcome, by) /\ ReasonOf(w, outcome, by, timed)
  BY DEF Taken
<1>2. /\ w \in Pieces /\ now <= w.due /\ Rest \in Seq(Pieces) /\ Distinct(Rest)
      /\ \A p \in Held(Rest) : p.event # w.event
  BY WorkIs
<1>3. w.event \in Events /\ w.due \in Nat /\ w.attempt \in Nat \ {0} /\ MarkDelivered(w) \in Facts
  BY <1>2, SnapshotIs DEF Pieces
<1>4. entry' = entry /\ options' = options /\ draws' = draws /\ index' = Advanced /\ now' = w.due
  BY <1>1 DEF Turn, Advanced
<1>5. seen' = w.due
  <2>1. seen' = IF w.due > seen THEN w.due ELSE seen
    BY <1>1 DEF Turn
  <2>2. seen <= w.due /\ seen \in Nat
    BY <1>2, <1>3 DEF TimeInv, TypeInv
  <2>3. QED BY <1>3, <2>1, <2>2
<1>6. /\ pending' \in Seq(Pieces) /\ Distinct(pending')
      /\ Held(pending') = Held(Rest) \cup Held(queued)
  <2>1. pending' = Rest \o queued
    BY <1>1 DEF Turn, Rest
  <2>2. CASE queued = <<>>
    <3>1. Rest \o queued = Rest
      BY <1>2, <2>2
    <3>2. Held(queued) = {}
      BY <2>2 DEF Held
    <3>3. QED BY <1>2, <2>1, <3>1, <3>2
  <2>3. CASE queued # <<>>
    <3>1. PICK p \in Pieces : queued = <<p>>
      BY <1>1, <2>3 DEF QueuesOf
    <3>2. Held(queued) = {p}
      BY <3>1, QueuesOne
    <3>3. p.event = w.event
      BY <1>1, <3>2 DEF QueuesOf
    <3>4. QED BY <1>2, <2>1, <3>1, <3>2, <3>3, QueuedIs
  <2>4. QED BY <2>2, <2>3
<1>7. Rec(w, outcome, by, timed) \in Records
  BY <1>1, <1>3 DEF ReasonOf, Rec, Records
<1>8. records' = [records EXCEPT ![w.event] = Append(@, Rec(w, outcome, by, timed))]
  BY <1>1 DEF Turn, Rec
<1>9. records \in [Events -> Seq(Records)]
  BY DEF TypeInv
<1> DEFINE s == records[w.event]
           r == Rec(w, outcome, by, timed)
<1>10. s \in Seq(Records)
  BY <1>3, <1>9
<1>11. records'[w.event] = Append(s, r) /\ \A n \in Events : n # w.event => records'[n] = records[n]
  BY <1>3, <1>8, <1>9
<1>12. records' \in [Events -> Seq(Records)]
  BY <1>3, <1>7, <1>8, <1>9, <1>10
<1> HIDE DEF s, r
<1>13. /\ Len(Append(s, r)) = Len(s) + 1 /\ Len(s) \in Nat
       /\ DOMAIN s = 1..Len(s) /\ DOMAIN Append(s, r) = 1..(Len(s) + 1)
       /\ Append(s, r)[Len(s) + 1] = r
       /\ \A i \in 1..Len(s) : Append(s, r)[i] = s[i]
  BY <1>7, <1>10 DEF r
<1>14. QED BY <1>4, <1>5, <1>6, <1>7, <1>11, <1>12, <1>13 DEF s, r

\* What was last recorded of a candidate is what its iteration recorded.
LEMMA LastIs ==
  ASSUME TypeInv, TimeInv, QueueInv, NEW w \in Works, NEW queued, NEW outcome, NEW by, NEW timed,
         Taken(w, queued, outcome, by, timed)
  PROVE  /\ records'[w.event] # <<>> /\ Last(records'[w.event]) = Rec(w, outcome, by, timed)
         /\ \A n \in Events : n # w.event => Last(records'[n]) = Last(records[n])
         /\ Waits(w.event)' <=> outcome = "deferred"
         /\ \A n \in Events : n # w.event => (Waits(n)' <=> Waits(n))
         /\ \A n \in Events : Postponed(n) => Postponed(n)'
         /\ by = "adaptiveTiming" => Postponed(w.event)'
<1>1. /\ records' \in [Events -> Seq(Records)]
      /\ \A n \in Events : n # w.event => records'[n] = records[n]
      /\ Len(records'[w.event]) = Len(records[w.event]) + 1
      /\ \A i \in DOMAIN records[w.event] :
           i \in DOMAIN records'[w.event] /\ records'[w.event][i] = records[w.event][i]
      /\ Len(records[w.event]) + 1 \in DOMAIN records'[w.event]
      /\ records'[w.event][Len(records[w.event]) + 1] = Rec(w, outcome, by, timed)
  BY TurnIs
<1>2. w.event \in Events
  BY SnapshotIs
<1>3. records'[w.event] # <<>> /\ Last(records'[w.event]) = Rec(w, outcome, by, timed)
  BY <1>1 DEF Last
<1>4. Rec(w, outcome, by, timed).outcome = outcome /\ Rec(w, outcome, by, timed).by = by
  BY DEF Rec
<1>5. \A n \in Events : n # w.event => Last(records'[n]) = Last(records[n])
  BY <1>1
<1>6. Waits(w.event)' <=> outcome = "deferred"
  BY <1>3, <1>4 DEF Waits
<1>7. ASSUME NEW n \in Events, n # w.event PROVE Waits(n)' <=> Waits(n)
  BY <1>1, <1>7 DEF Waits
<1>8. ASSUME NEW n \in Events, Postponed(n) PROVE Postponed(n)'
  <2>1. CASE n # w.event
    BY <1>1, <1>8, <2>1 DEF Postponed
  <2>2. CASE n = w.event
    BY <1>1, <1>8, <2>2 DEF Postponed
  <2>3. QED BY <2>1, <2>2
<1>9. by = "adaptiveTiming" => Postponed(w.event)'
  BY <1>1, <1>4 DEF Postponed
<1>10. QED BY <1>3, <1>5, <1>6, <1>7, <1>8, <1>9

\* An iteration keeps the types.
LEMMA TypeStep ==
  ASSUME TypeInv, TimeInv, QueueInv, NEW w \in Works, NEW queued, NEW outcome, NEW by, NEW timed,
         Taken(w, queued, outcome, by, timed)
  PROVE  TypeInv'
<1>1. /\ entry' = entry /\ options' = options /\ draws' = draws /\ index' = Advanced
      /\ pending' \in Seq(Pieces) /\ now' = w.due /\ seen' = w.due
      /\ records' \in [Events -> Seq(Records)]
  BY TurnIs
<1>2. Advanced \in 1..(NumEvents + 1)
  BY WorkIs
<1>3. w.due \in Nat /\ w.event \in Events /\ (w.kind = "retry" => Key(w) \in Keyed)
  BY SnapshotIs
<1>5. counter' \in [Keyed -> Nat] /\ report' \in [Keyed -> Nat]
      /\ charges' \in Seq([event : Events, key : Keyed])
  <2>0. UnitsOf(w, outcome, by)
    BY DEF Taken
  <2>t. /\ counter \in [Keyed -> Nat] /\ report \in [Keyed -> Nat]
        /\ charges \in Seq([event : Events, key : Keyed])
    BY DEF TypeInv
  <2>1. CASE Pays(w, outcome, by)
    <3>1. Pay(w) /\ Key(w) \in Keyed
      BY <1>3, <2>0, <2>1 DEF Pays, UnitsOf
    <3> DEFINE k == Key(w)
    <3>2. k \in Keyed
      BY <3>1
    <3>3. /\ counter' = [counter EXCEPT ![k] = @ + 1]
          /\ report' = [report EXCEPT ![k] = SnapshotBudget(w, counter[k] + 1)]
          /\ charges' = Append(charges, [event |-> w.event, key |-> k])
      BY <3>1 DEF Pay, Increment
    <3>4. counter[k] + 1 \in Nat /\ SnapshotBudget(w, counter[k] + 1) \in Nat
      BY <2>t, <3>2 DEF SnapshotBudget
    <3> HIDE DEF k
    <3>5. [event |-> w.event, key |-> k] \in [event : Events, key : Keyed]
      BY <1>3, <3>2
    <3>6. QED BY <2>t, <3>2, <3>3, <3>4, <3>5
  <2>2. CASE ~Pays(w, outcome, by)
    <3>1. UNCHANGED <<report, charges>>
      BY <2>0, <2>2 DEF UnitsOf
    <3>2. counter' \in [Keyed -> Nat]
      <4>1. counter' = counter \/ (Key(w) \in Keyed /\ Increment(w))
        BY <1>3, <2>0, <2>2 DEF UnitsOf
      <4>2. CASE Key(w) \in Keyed /\ Increment(w)
        BY <2>t, <4>2 DEF Increment
      <4>3. QED BY <2>t, <4>1, <4>2
    <3>3. QED BY <2>t, <3>1, <3>2
  <2>3. QED BY <2>1, <2>2
<1>6. QED BY <1>1, <1>2, <1>3, <1>5 DEF TypeInv

\* An iteration keeps the order of the work.
LEMMA TimeStep ==
  ASSUME TypeInv, TimeInv, QueueInv, NEW w \in Works, NEW queued, NEW outcome, NEW by, NEW timed,
         Taken(w, queued, outcome, by, timed)
  PROVE  TimeInv'
<1>1. /\ entry' = entry /\ index' = Advanced /\ now' = w.due /\ seen' = w.due
      /\ Held(pending') = Held(Rest) \cup Held(queued)
  BY TurnIs
<1>2. /\ \A p \in Held(Rest) : w.due <= p.due
      /\ Advanced \in Events => w.due <= entry[Advanced].at
      /\ \A p \in Held(queued) : w.due < p.due /\ p \in Pieces
  <2>1. QueuesOf(w, queued, outcome, by)
    BY DEF Taken
  <2>2. \A p \in Held(queued) : w.due < p.due /\ p \in Pieces
    <3>1. \A p \in Held(queued) : w.due < p.due
      BY <2>1 DEF QueuesOf
    <3>2. \A p \in Held(queued) : p \in Pieces
      <4>1. CASE queued = <<>>
        BY <4>1 DEF Held
      <4>2. CASE \E p \in Pieces : queued = <<p>>
        BY <4>2, QueuesOne
      <4>3. QED BY <2>1, <4>1, <4>2 DEF QueuesOf
    <3>3. QED BY <3>1, <3>2
  <2>3. QED BY <2>2, WorkIs
<1>3. w.due \in Nat /\ \A p \in Pieces : p.due \in Nat
  BY SnapshotIs DEF Pieces
<1>4. \A p \in Held(pending') : w.due <= p.due
  BY <1>1, <1>2, <1>3
<1>5. QED BY <1>1, <1>2, <1>3, <1>4 DEF TimeInv, Held

\* An iteration keeps the queue and the records in step.
LEMMA QueueStep ==
  ASSUME TypeInv, TimeInv, QueueInv, NEW w \in Works, NEW queued, NEW outcome, NEW by, NEW timed,
         Taken(w, queued, outcome, by, timed)
  PROVE  QueueInv'
<1>1. /\ entry' = entry /\ index' = Advanced /\ Distinct(pending')
      /\ Held(pending') = Held(Rest) \cup Held(queued)
      /\ records' \in [Events -> Seq(Records)]
      /\ \A n \in Events : n # w.event => records'[n] = records[n]
      /\ Len(records'[w.event]) = Len(records[w.event]) + 1
      /\ \A i \in DOMAIN records[w.event] :
           i \in DOMAIN records'[w.event] /\ records'[w.event][i] = records[w.event][i]
      /\ \A i \in DOMAIN records'[w.event] :
           i \in DOMAIN records[w.event] \/ i = Len(records[w.event]) + 1
  BY TurnIs
<1>2. /\ \A p \in Held(Rest) : p \in Held(pending) /\ p.event # w.event
      /\ \A p \in Held(pending) : p.event # w.event => p \in Held(Rest)
      /\ \A n \in Events : n < Advanced <=> n < index \/ n = w.event
      /\ \A i \in DOMAIN records[w.event] : records[w.event][i].outcome = "deferred"
      /\ w \in Pieces /\ w.firstSeen = entry[w.event].at /\ w.firstSeen <= w.due
  <2>1. w.firstSeen <= w.due
    BY WorkIs DEF Pieces
  <2>2. QED BY <2>1, WorkIs
<1>3. /\ records'[w.event] # <<>>
      /\ Waits(w.event)' <=> outcome = "deferred"
      /\ \A n \in Events : n # w.event => (Waits(n)' <=> Waits(n))
      /\ Last(records'[w.event]).by = by /\ Last(records'[w.event]).attempt = w.attempt
  <2>1. Rec(w, outcome, by, timed).by = by /\ Rec(w, outcome, by, timed).attempt = w.attempt
    BY DEF Rec
  <2>2. QED BY <2>1, LastIs
<1>4. /\ w.event \in Events /\ w.due \in Nat /\ w.attempt \in Nat \ {0} /\ w.firstSeen \in Nat
  BY <1>2 DEF Pieces
<1>5. /\ outcome = "deferred" <=> queued # <<>>
      /\ queued # <<>> <=> \E p \in Held(queued) : TRUE
      /\ \A p \in Held(queued) :
           /\ p.event = w.event /\ p.firstSeen = w.firstSeen /\ w.due < p.due /\ p.due \in Nat
           /\ \/ /\ p.kind = "retry" /\ by = "snooze"
                 /\ p.attempt = w.attempt + 1 /\ p.due <= w.firstSeen + Expiry
              \/ p.kind = "deliver" /\ by = "adaptiveTiming" /\ p.attempt = w.attempt
  <2>1. QueuesOf(w, queued, outcome, by)
    BY DEF Taken
  <2>2. CASE queued = <<>>
    <3>1. Held(queued) = {}
      BY <2>2 DEF Held
    <3>2. QED BY <2>1, <2>2, <3>1 DEF QueuesOf
  <2>3. CASE queued # <<>>
    <3>1. PICK p \in Pieces : queued = <<p>>
      BY <2>1, <2>3 DEF QueuesOf
    <3>2. Held(queued) = {p} /\ p.due \in Nat
      BY <3>1, QueuesOne DEF Pieces
    <3>3. QED BY <2>1, <2>3, <3>2 DEF QueuesOf
  <2>4. QED BY <2>2, <2>3
<1>6. \A n \in Events : records'[n] # <<>> <=> n < index'
  BY <1>1, <1>2, <1>3 DEF QueueInv
<1>7. ASSUME NEW n \in Events
      PROVE  Waits(n)' <=> \E p \in Held(pending') : p.event = n
  <2>1. CASE n = w.event
    BY <1>1, <1>2, <1>3, <1>5, <2>1
  <2>2. CASE n # w.event
    <3>1. (\E p \in Held(pending') : p.event = n) <=> \E p \in Held(pending) : p.event = n
      BY <1>1, <1>2, <1>5, <2>2
    <3>2. QED BY <1>3, <2>2, <3>1 DEF QueueInv
  <2>3. QED BY <2>1, <2>2
<1>8. ASSUME NEW n \in Events, NEW i \in DOMAIN records'[n], i < Len(records'[n])
      PROVE  records'[n][i].outcome = "deferred"
  <2>1. CASE n # w.event
    BY <1>1, <1>8, <2>1 DEF QueueInv
  <2>2. CASE n = w.event
    <3>1. records[n] \in Seq(Records)
      BY DEF TypeInv
    <3>2. Len(records[n]) \in Nat
      BY <3>1
    <3>3. i \in DOMAIN records[n]
      BY <1>1, <1>8, <2>2, <3>2
    <3>4. QED BY <1>1, <1>2, <2>2, <3>3
  <2>3. QED BY <2>1, <2>2
<1>9. ASSUME NEW p \in Held(pending') PROVE PieceInv(p)'
  <2>1. CASE p \in Held(Rest)
    <3>1. PieceInv(p) /\ p.event \in Events
      <4>1. p \in Held(pending)
        BY <1>2, <2>1
      <4>2. p \in Pieces
        BY <4>1 DEF Held, TypeInv
      <4>3. QED BY <4>1, <4>2 DEF QueueInv, Pieces
    <3>2. records'[p.event] = records[p.event]
      BY <1>1, <1>2, <2>1, <3>1
    <3>3. QED BY <1>1, <3>1, <3>2 DEF PieceInv
  <2>2. CASE p \in Held(queued)
    <3>1. p.firstSeen = entry'[p.event].at /\ p.firstSeen < p.due
      BY <1>1, <1>2, <1>4, <1>5, <2>2
    <3>2. p.kind = "retry" => p.attempt > 1 /\ p.due <= p.firstSeen + Expiry
      BY <1>4, <1>5, <2>2
    <3>3. /\ p.kind = "deliver" <=> Last(records'[p.event]).by = "adaptiveTiming"
          /\ p.kind = "deliver" => p.attempt = Last(records'[p.event]).attempt
      BY <1>3, <1>5, <2>2
    <3>4. QED BY <3>1, <3>2, <3>3 DEF PieceInv
  <2>3. QED BY <1>1, <2>1, <2>2
<1>10. QED BY <1>1, <1>6, <1>7, <1>8, <1>9 DEF QueueInv, Held

-----------------------------------------------------------------------------
(* The records *)

\* What is recorded of a candidate is what was so at that instant: the consent
\* a send had, the reason a paid delivery was stopped, and where a send landed.
RecInv(n, r) ==
  LET state == Newest(entry[n].user, r.at) IN
  /\ r.outcome \in Transport <=> r.by = None
  /\ r.outcome \in Transport /\ options.rereads => state.consents
  /\ r.outcome = "stoppedAtDelivery" => r.by = "snooze" \/ ~state.consents
  /\ r.by = "adaptiveTiming" => r.outcome = "deferred"
  /\ r.landed = IF r.outcome = "sent"
                THEN {[day |-> DayOf(r.at, state), night |-> HourOf(r.at, state) \in Night,
                       quiet |-> HourOf(r.at, state) \in state.quiet]}
                ELSE {}

\* The first look is at the event itself; a later one is at a later instant, and
\* a further attempt while the candidate is worth sending.
LookInv(n, i) ==
  /\ i = 1 => records[n][i].at = entry[n].at /\ records[n][i].attempt = 1
  /\ i > 1 => /\ records[n][i].at > entry[n].at
              /\ records[n][i].attempt > 1 \/ Postponed(n)
              /\ records[n][i].attempt > records[n][i - 1].attempt
                   => records[n][i].at <= entry[n].at + Expiry
  /\ \A j \in DOMAIN records[n] : j < i /\ records[n][j].by = "adaptiveTiming"
       => records[n][i].timed /\ records[n][i].outcome # "deferred"

TrailInv == \A n \in Events : \A i \in DOMAIN records[n] : RecInv(n, records[n][i]) /\ LookInv(n, i)

\* What was true of a record stays so.
LEMMA RecStays ==
  ASSUME entry' = entry, options' = options, NEW n, NEW r, RecInv(n, r)
  PROVE  RecInv(n, r)'
<1>1. \A user, t : Newest(user, t)' = Newest(user, t)
  BY DEF Newest, After
<1>2. QED BY <1>1 DEF RecInv

\* An iteration leaves the records true.
LEMMA TrailStep ==
  ASSUME TypeInv, TimeInv, QueueInv, TrailInv, NEW w \in Works, NEW queued, NEW outcome, NEW by, NEW timed,
         Taken(w, queued, outcome, by, timed)
  PROVE  TrailInv'
<1>1. /\ entry' = entry /\ options' = options
      /\ \A n \in Events : n # w.event => records'[n] = records[n]
      /\ \A i \in DOMAIN records[w.event] :
           i \in DOMAIN records'[w.event] /\ records'[w.event][i] = records[w.event][i]
      /\ Len(records[w.event]) + 1 \in DOMAIN records'[w.event]
      /\ records'[w.event][Len(records[w.event]) + 1] = Rec(w, outcome, by, timed)
      /\ \A i \in DOMAIN records'[w.event] :
           i \in DOMAIN records[w.event] \/ i = Len(records[w.event]) + 1
  BY TurnIs
<1>2. /\ w.event \in Events /\ w.due \in Nat /\ w.firstSeen = entry[w.event].at
      /\ Snapshot(w) = Newest(entry[w.event].user, w.due)
      /\ w.kind = "retry" => w.due <= w.firstSeen + Expiry
      /\ \/ records[w.event] = <<>> /\ w.attempt = 1 /\ w.due = w.firstSeen
         \/ /\ records[w.event] # <<>> /\ w.firstSeen < w.due
            /\ w.kind = "retry" => w.attempt > 1
            /\ w.kind = "deliver" <=> Last(records[w.event]).by = "adaptiveTiming"
            /\ w.kind = "deliver" => w.attempt = Last(records[w.event]).attempt
      /\ w.kind \in {"retry", "deliver"} /\ w.attempt \in Nat
      /\ \A i \in DOMAIN records[w.event] : records[w.event][i].outcome = "deferred"
  <2>1. w.kind \in {"retry", "deliver"}
    BY WorkIs DEF Pieces
  <2>2. QED BY <2>1, WorkIs, SnapshotIs DEF User
<1>3. \A n \in Events : Postponed(n) => Postponed(n)'
  BY LastIs
<1>4. ReasonOf(w, outcome, by, timed) /\ (by = "adaptiveTiming" => outcome = "deferred")
  BY DEF Taken, QueuesOf
<1>s. PICK s : s = records[w.event]
  OBVIOUS
<1>r. PICK r : r = Rec(w, outcome, by, timed)
  OBVIOUS
<1>5. s \in Seq(Records) /\ Len(s) \in Nat /\ DOMAIN s = 1..Len(s)
  <2>1. s \in Seq(Records)
    BY <1>2, <1>s DEF TypeInv
  <2>2. QED BY <2>1
<1>m. PICK m \in Nat : m = Len(s) + 1
  BY <1>5
<1>n. /\ \A i \in DOMAIN s : i \in DOMAIN records'[w.event] /\ records'[w.event][i] = s[i]
      /\ m \in DOMAIN records'[w.event] /\ records'[w.event][m] = r
      /\ \A i \in DOMAIN records'[w.event] : i \in DOMAIN s \/ i = m
  BY <1>1, <1>s, <1>r, <1>m
<1>6. RecInv(w.event, r)'
  <2>1. /\ r.at = w.due /\ r.attempt = w.attempt /\ r.outcome = outcome /\ r.by = by
        /\ r.landed = IF outcome = "sent" THEN {MarkDelivered(w)} ELSE {}
    BY <1>r DEF Rec
  <2>2. /\ outcome \in Transport /\ options.rereads => Snapshot(w).consents
        /\ outcome = "stoppedAtDelivery" => by = "snooze" \/ ~Snapshot(w).consents
        /\ outcome \in Transport <=> by = None
    BY <1>4 DEF ReasonOf, Consents
  <2>3. RecInv(w.event, r)
    BY <1>2, <1>4, <2>1, <2>2 DEF RecInv, MarkDelivered
  <2>4. QED BY <1>1, <2>3, RecStays
<1>7. LookInv(w.event, m)'
  <2>0. /\ r.at = w.due /\ r.attempt = w.attempt
        /\ w.kind = "deliver" => r.timed /\ r.outcome # "deferred"
    BY <1>4, <1>r DEF Rec, ReasonOf
  <2>1. CASE s = <<>>
    <3>1. m = 1
      BY <1>m, <2>1
    <3>2. \A j \in DOMAIN records'[w.event] : ~(j < m)
      BY <1>n, <2>1, <3>1
    <3>3. QED BY <1>1, <1>2, <1>n, <1>s, <2>0, <2>1, <3>1, <3>2 DEF LookInv
  <2>2. CASE s # <<>>
    <3>1. m > 1 /\ m - 1 = Len(s) /\ m - 1 \in DOMAIN s
      <4>1. Len(s) # 0
        BY <1>5, <2>2, EmptySeq
      <4>2. QED BY <1>5, <1>m, <4>1
    <3>2. records'[w.event][m - 1] = s[m - 1] /\ s[m - 1] = Last(s)
      BY <1>n, <3>1 DEF Last
    <3>3. w.due > w.firstSeen /\ w.firstSeen \in Nat
      BY <1>2, <1>s, <2>2, SnapshotIs
    <3>6. ASSUME NEW j \in DOMAIN records'[w.event], j < m, records'[w.event][j].by = "adaptiveTiming"
          PROVE  r.timed /\ r.outcome # "deferred"
      <4>1. j \in DOMAIN s /\ s[j].by = "adaptiveTiming"
        <5>1. j # m
          BY <1>m, <3>6
        <5>2. QED BY <1>n, <3>6, <5>1
      <4>2. CASE j < Len(s)
        <5>1. LookInv(w.event, Len(s))
          BY <1>2, <1>s, <3>1 DEF TrailInv
        <5>2. s[Len(s)].outcome # "deferred"
          BY <1>s, <4>1, <4>2, <5>1 DEF LookInv
        <5>3. QED BY <1>2, <1>s, <3>1, <5>2
      <4>3. CASE ~(j < Len(s))
        <5>1. j = Len(s)
          BY <1>5, <4>1, <4>3
        <5>2. w.kind = "deliver"
          BY <1>2, <1>s, <2>2, <4>1, <5>1 DEF Last
        <5>3. QED BY <2>0, <5>2
      <4>4. QED BY <4>2, <4>3
    <3>4. CASE w.kind = "retry"
      <4>1. w.attempt > 1 /\ w.due <= entry[w.event].at + Expiry
        BY <1>2, <1>s, <2>2, <3>4
      <4>2. QED BY <1>1, <1>2, <1>n, <2>0, <3>1, <3>3, <3>6, <4>1 DEF LookInv
    <3>5. CASE w.kind = "deliver"
      <4>1. Postponed(w.event)
        BY <1>2, <1>s, <2>2, <3>1, <3>2, <3>5 DEF Postponed
      <4>2. Last(s).attempt \in Nat
        <5>1. Last(s) \in Records
          BY <1>5, <3>1, <3>2
        <5>2. QED BY <5>1 DEF Records
      <4>3. ~(w.attempt > Last(s).attempt)
        BY <1>2, <1>s, <2>2, <3>5, <4>2
      <4>4. Postponed(w.event)'
        BY <1>2, <1>3, <4>1
      <4>5. QED BY <1>1, <1>2, <1>n, <2>0, <3>1, <3>2, <3>3, <3>6, <4>3, <4>4 DEF LookInv
    <3>7. QED BY <1>2, <3>4, <3>5
  <2>3. QED BY <2>1, <2>2
<1>8. ASSUME NEW n \in Events, NEW i \in DOMAIN records[n], NEW x, x = records[n][i]
      PROVE  RecInv(n, x)' /\ LookInv(n, i)' /\ records'[n][i] = x
  <2>1. RecInv(n, x) /\ LookInv(n, i)
    BY <1>8 DEF TrailInv
  <2>2. records'[n][i] = x /\ (i > 1 => records'[n][i - 1] = records[n][i - 1])
    <3>1. CASE n # w.event
      BY <1>1, <1>8, <3>1
    <3>2. CASE n = w.event
      <4>1. i \in DOMAIN s /\ (i > 1 => i - 1 \in DOMAIN s)
        BY <1>5, <1>s, <3>2
      <4>2. QED BY <1>8, <1>n, <1>s, <3>2, <4>1
    <3>3. QED BY <3>1, <3>2
  <2>3. LookInv(n, i)'
    <3>1. ASSUME NEW j \in DOMAIN records'[n], j < i, records'[n][j].by = "adaptiveTiming"
          PROVE  x.timed /\ x.outcome # "deferred"
      <4>1. j \in DOMAIN records[n] /\ records[n][j].by = "adaptiveTiming"
        <5>1. CASE n # w.event
          BY <1>1, <3>1, <5>1
        <5>2. CASE n = w.event
          <6>1. j # m
            BY <1>5, <1>8, <1>m, <1>s, <3>1, <5>2
          <6>2. QED BY <1>n, <1>s, <3>1, <5>2, <6>1
        <5>3. QED BY <5>1, <5>2
      <4>2. QED BY <1>8, <2>1, <3>1, <4>1 DEF LookInv
    <3>2. QED BY <1>1, <1>3, <1>8, <2>1, <2>2, <3>1 DEF LookInv
  <2>4. RecInv(n, x)'
    BY <1>1, <2>1, RecStays
  <2>5. QED BY <2>2, <2>3, <2>4
<1>9. ASSUME NEW n \in Events, NEW i \in DOMAIN records'[n], NEW x, x = records'[n][i]
      PROVE  RecInv(n, x)' /\ LookInv(n, i)'
  <2>1. CASE i \in DOMAIN records[n]
    BY <1>8, <1>9, <2>1
  <2>2. CASE i \notin DOMAIN records[n]
    <3>1. n = w.event /\ i = m
      BY <1>1, <1>n, <1>s, <2>2
    <3>2. QED BY <1>6, <1>7, <1>9, <1>n, <3>1
  <2>3. QED BY <2>1, <2>2
<1>10. QED BY <1>9 DEF TrailInv

-----------------------------------------------------------------------------
(* The units *)

Charged(n) == \E i \in DOMAIN charges : charges[i].event = n

\* The candidates that paid under a user and day.
Payers(k) == {n \in Events : \E i \in DOMAIN charges : charges[i] = [event |-> n, key |-> k]}

\* What a unit was spent on.
Outlay == {"sent", "spentNotDelivered", "stoppedAtDelivery"}

\* The user and local day a record was felt on.
Landing(n, r) == <<entry[n].user, DayOf(r.at, Newest(entry[n].user, r.at))>>

\* No candidate pays twice, and exactly those have paid whose last record is of
\* a send, of a failed one, of a stopped delivery or of a postponed one.
ChargesInv ==
  /\ \A i, j \in DOMAIN charges : charges[i].event = charges[j].event => i = j
  /\ \A n \in Events :
       Charged(n) <=> /\ records[n] # <<>>
                      /\ \/ Last(records[n]).outcome \in Outlay
                         \/ Last(records[n]).by = "adaptiveTiming"
  /\ \A n \in Events :
       records[n] # <<>> /\ Last(records[n]).outcome = "sent"
         => Postponed(n) \/ n \in Payers(Landing(n, Last(records[n])))

\* A row counts those that paid, which is what the store says up to the limit.
RowsInv ==
  \A k \in Keyed :
    /\ report[k] = Cardinality(Payers(k))
    /\ report[k] <= options.limit
    /\ counter[k] <= options.limit => report[k] = counter[k]

MoneyInv == ChargesInv /\ RowsInv

\* An iteration leaves the books in order.
LEMMA MoneyStep ==
  ASSUME TypeInv, TimeInv, QueueInv, TrailInv, MoneyInv,
         NEW w \in Works, NEW queued, NEW outcome, NEW by, NEW timed, Taken(w, queued, outcome, by, timed)
  PROVE  MoneyInv'
<1>0. /\ QueuesOf(w, queued, outcome, by) /\ ReasonOf(w, outcome, by, timed) /\ UnitsOf(w, outcome, by)
      /\ by = "adaptiveTiming" => outcome = "deferred"
  BY DEF Taken, QueuesOf
<1>1. /\ entry' = entry /\ options' = options
      /\ \A n \in Events : n # w.event => records'[n] = records[n]
  BY TurnIs
<1>2. /\ w.event \in Events /\ w.due \in Nat
      /\ Snapshot(w) = Newest(entry[w.event].user, w.due)
      /\ w.kind = "retry" => Key(w) \in Keyed
      /\ w.kind \in {"retry", "deliver"}
      /\ \/ records[w.event] = <<>> /\ w.kind = "retry"
         \/ /\ records[w.event] # <<>> /\ w \in Held(pending)
            /\ w.kind = "deliver" <=> Last(records[w.event]).by = "adaptiveTiming"
  <2>1. w.kind \in {"retry", "deliver"}
    BY WorkIs DEF Pieces
  <2>2. QED BY <2>1, WorkIs, SnapshotIs DEF User
<1>3. /\ records'[w.event] # <<>>
      /\ Last(records'[w.event]).outcome = outcome /\ Last(records'[w.event]).by = by
      /\ Last(records'[w.event]).at = w.due
      /\ \A n \in Events : Postponed(n) => Postponed(n)'
  <2>1. /\ Rec(w, outcome, by, timed).outcome = outcome /\ Rec(w, outcome, by, timed).by = by
        /\ Rec(w, outcome, by, timed).at = w.due
    BY DEF Rec
  <2>2. QED BY <2>1, LastIs
<1>4. /\ counter \in [Keyed -> Nat] /\ report \in [Keyed -> Nat]
      /\ charges \in Seq([event : Events, key : Keyed]) /\ options.limit \in Nat
  BY PolicyAssumption DEF TypeInv, Policy
<1>5. Charged(w.event) <=> w.kind = "deliver"
  <2>1. CASE records[w.event] = <<>>
    BY <1>2, <2>1 DEF MoneyInv, ChargesInv
  <2>2. CASE records[w.event] # <<>>
    <3>1. Waits(w.event)
      BY <1>2, <2>2 DEF QueueInv
    <3>2. Last(records[w.event]).outcome \notin Outlay
      BY <3>1 DEF Waits, Outlay
    <3>3. QED BY <1>2, <2>2, <3>2 DEF MoneyInv, ChargesInv
  <2>3. QED BY <2>1, <2>2
<1>6. w.kind = "deliver" => outcome \in Outlay
  <2>1. w.kind = "deliver" => outcome # "deferred"
    <3>1. queued # <<>> => \E p \in Held(queued) : TRUE
      BY <1>0, QueuesOne DEF QueuesOf
    <3>2. QED BY <1>0, <3>1 DEF QueuesOf
  <2>2. QED BY <1>0, <2>1 DEF ReasonOf, Outcomes, Outlay
<1>7. w.kind = "retry" => (Pays(w, outcome, by) <=> outcome \in Outlay \/ by = "adaptiveTiming")
  BY <1>0 DEF ReasonOf, Pays, Transport, Outlay
<1>8. CASE Pays(w, outcome, by)
  <2>1. Pay(w) /\ w.kind = "retry"
    BY <1>0, <1>8 DEF UnitsOf, Pays
  <2>2. PICK k \in Keyed : k = Key(w)
    BY <1>2, <2>1
  <2>3. /\ counter' = [counter EXCEPT ![k] = @ + 1]
        /\ report' = [report EXCEPT ![k] = SnapshotBudget(w, counter[k] + 1)]
        /\ charges' = Append(charges, [event |-> w.event, key |-> k])
        /\ counter[k] + 1 <= options.limit
    BY <2>1, <2>2 DEF Pay, Increment, Within
  <2>4. PICK c : c = [event |-> w.event, key |-> k]
    OBVIOUS
  <2>5. PICK m : m = Len(charges) + 1
    OBVIOUS
  <2>6. /\ \A i \in DOMAIN charges : i \in DOMAIN charges' /\ charges'[i] = charges[i] /\ i # m
        /\ m \in DOMAIN charges' /\ charges'[m] = c
        /\ \A i \in DOMAIN charges' : i \in DOMAIN charges \/ i = m
    <3>1. c \in [event : Events, key : Keyed]
      BY <1>2, <2>4
    <3>2. charges' = Append(charges, c)
      BY <2>3, <2>4
    <3>3. Len(charges) \in Nat /\ DOMAIN charges = 1..Len(charges)
      BY <1>4
    <3>4. DOMAIN charges' = 1..(Len(charges) + 1) /\ charges'[Len(charges) + 1] = c
          /\ \A i \in 1..Len(charges) : charges'[i] = charges[i]
      BY <1>4, <3>1, <3>2
    <3>5. QED BY <2>5, <3>3, <3>4
  <2>7. c.event = w.event /\ c.key = k
    BY <2>4
  <2>8. ~Charged(w.event)
    BY <1>5, <2>1
  <2>9. \A n \in Events : Charged(n)' <=> Charged(n) \/ n = w.event
    BY <2>6, <2>7 DEF Charged
  <2>10. \A x \in Keyed : x # k => Payers(x)' = Payers(x)
    <3>1. \A x \in Keyed, n \in Events : x # k => [event |-> n, key |-> x] # c
      BY <2>4
    <3>2. QED BY <2>6, <3>1 DEF Payers
  <2>11. Payers(k)' = Payers(k) \cup {w.event}
    <3>1. \A n \in Events : [event |-> n, key |-> k] = c <=> n = w.event
      BY <2>4
    <3>2. QED BY <1>2, <2>6, <3>1 DEF Payers
  <2>12. w.event \notin Payers(k)
    <3>1. \A n \in Payers(k) : Charged(n)
      BY DEF Payers, Charged
    <3>2. QED BY <2>8, <3>1
  <2>13. \A i, j \in DOMAIN charges' : charges'[i].event = charges'[j].event => i = j
    <3>1. \A i \in DOMAIN charges : charges[i].event # w.event
      BY <2>8 DEF Charged
    <3>2. QED BY <2>6, <2>7, <3>1 DEF MoneyInv, ChargesInv
  <2>14. ASSUME NEW n \in Events
         PROVE  Charged(n)' <=> /\ records'[n] # <<>>
                                /\ \/ Last(records'[n]).outcome \in Outlay
                                   \/ Last(records'[n]).by = "adaptiveTiming"
    BY <1>1, <1>3, <1>7, <1>8, <2>1, <2>9 DEF MoneyInv, ChargesInv
  <2>15. \A x, n : n \in Payers(x) => n \in Payers(x)'
    BY <2>6 DEF Payers
  <2>16. ASSUME outcome = "sent"
         PROVE  w.event \in Payers(k)' /\ k = <<entry[w.event].user, DayOf(w.due, Newest(entry[w.event].user, w.due))>>
    BY <1>2, <2>2, <2>11 DEF Key, User
  <2>17. ASSUME NEW n \in Events, NEW r, r = Last(records'[n]), records'[n] # <<>>, r.outcome = "sent"
         PROVE  Postponed(n)' \/ n \in Payers(Landing(n, r))'
    <3>1. Landing(n, r)' = Landing(n, r)
      BY <1>1 DEF Landing, Newest, After
    <3>2. CASE n = w.event
      <4>1. Landing(n, r) = k
        BY <1>3, <2>16, <2>17, <3>2 DEF Landing
      <4>2. Landing(n, r)' = k
        BY <3>1, <4>1
      <4>3. QED BY <1>3, <2>16, <2>17, <3>2, <4>2 DEF Payers
    <3>3. CASE n # w.event
      <4>1. records'[n] = records[n]
        BY <1>1, <3>3
      <4>2. Postponed(n) \/ n \in Payers(Landing(n, r))
        BY <2>17, <4>1 DEF MoneyInv, ChargesInv
      <4>3. PICK x : x = Landing(n, r)
        OBVIOUS
      <4>4. Postponed(n)' \/ n \in Payers(x)'
        BY <1>3, <2>15, <4>2, <4>3
      <4>5. QED BY <3>1, <4>3, <4>4 DEF Payers
    <3>4. QED BY <3>2, <3>3
  <2>18. ChargesInv'
    BY <2>13, <2>14, <2>17 DEF ChargesInv
  <2>19. ASSUME NEW x \in Keyed
         PROVE  /\ report'[x] = Cardinality(Payers(x)')
                /\ report'[x] <= options'.limit
                /\ counter'[x] <= options'.limit => report'[x] = counter'[x]
    <3>1. CASE x # k
      BY <1>1, <1>4, <2>3, <2>10, <3>1 DEF MoneyInv, RowsInv
    <3>2. CASE x = k
      <4>1. Payers(k) \in SUBSET Events
        BY DEF Payers
      <4>2. Cardinality(Payers(k) \cup {w.event}) = Cardinality(Payers(k)) + 1
        BY <2>12, <4>1, EventsFinite, FS_AddElement
      <4>3. report[k] = counter[k] /\ report[k] = Cardinality(Payers(k)) /\ counter[k] \in Nat
        BY <1>4, <2>2, <2>3 DEF MoneyInv, RowsInv
      <4>4. report'[k] = counter[k] + 1 /\ counter'[k] = counter[k] + 1
        BY <1>4, <2>2, <2>3, <4>3 DEF SnapshotBudget
      <4>5. QED BY <1>1, <1>4, <2>3, <2>11, <3>2, <4>2, <4>3, <4>4
    <3>3. QED BY <3>1, <3>2
  <2>20. RowsInv'
    BY <2>19 DEF RowsInv, Keyed
  <2>21. QED BY <2>18, <2>20 DEF MoneyInv
<1>9. CASE ~Pays(w, outcome, by)
  <2>1. /\ report' = report /\ charges' = charges
        /\ \/ counter' = counter
           \/ w.kind = "retry" /\ ~Within(counter[Key(w)] + 1) /\ Increment(w)
    BY <1>0, <1>9 DEF UnitsOf
  <2>2. \A n : Charged(n)' <=> Charged(n)
    BY <2>1 DEF Charged
  <2>3. \A x : Payers(x)' = Payers(x)
    BY <2>1 DEF Payers
  <2>4. ASSUME NEW n \in Events
        PROVE  Charged(n)' <=> /\ records'[n] # <<>>
                               /\ \/ Last(records'[n]).outcome \in Outlay
                                  \/ Last(records'[n]).by = "adaptiveTiming"
    <3>1. CASE n # w.event
      BY <1>1, <2>2, <3>1 DEF MoneyInv, ChargesInv
    <3>2. CASE n = w.event
      BY <1>2, <1>3, <1>5, <1>6, <1>7, <1>9, <2>2, <3>2
    <3>3. QED BY <3>1, <3>2
  <2>5. ASSUME outcome = "sent" PROVE Postponed(w.event)
    <3>1. w.kind = "deliver"
      BY <1>2, <1>7, <1>9, <2>5 DEF Outlay
    <3>2. records[w.event] # <<>> /\ Last(records[w.event]).by = "adaptiveTiming"
      BY <1>2, <3>1
    <3>3. records[w.event] \in Seq(Records)
      BY <1>2 DEF TypeInv
    <3>4. Len(records[w.event]) \in DOMAIN records[w.event]
      <4>1. Len(records[w.event]) # 0
        BY <3>2, <3>3, EmptySeq
      <4>2. QED BY <3>3, <4>1
    <3>5. QED BY <3>2, <3>4 DEF Postponed, Last
  <2>6. ASSUME NEW n \in Events, NEW r, r = Last(records'[n]), records'[n] # <<>>, r.outcome = "sent"
        PROVE  Postponed(n)' \/ n \in Payers(Landing(n, r))'
    <3>1. CASE n = w.event
      BY <1>2, <1>3, <2>5, <2>6, <3>1
    <3>2. CASE n # w.event
      <4>1. Landing(n, r)' = Landing(n, r)
        BY <1>1 DEF Landing, Newest, After
      <4>2. Postponed(n) \/ n \in Payers(Landing(n, r))
        BY <1>1, <2>6, <3>2 DEF MoneyInv, ChargesInv
      <4>3. QED BY <1>3, <2>1, <4>1, <4>2 DEF Payers
    <3>3. QED BY <3>1, <3>2
  <2>7. ChargesInv'
    BY <2>1, <2>4, <2>6 DEF ChargesInv, MoneyInv
  <2>8. ASSUME NEW x \in Keyed
        PROVE  /\ report'[x] = Cardinality(Payers(x)')
               /\ report'[x] <= options'.limit
               /\ counter'[x] <= options'.limit => report'[x] = counter'[x]
    <3>1. counter'[x] = counter[x] \/ ~(counter'[x] <= options.limit)
      <4>1. CASE counter' = counter
        BY <4>1
      <4>2. CASE w.kind = "retry" /\ ~Within(counter[Key(w)] + 1) /\ Increment(w)
        <5>1. PICK k \in Keyed : k = Key(w)
          BY <1>2, <4>2
        <5>2. counter' = [counter EXCEPT ![k] = @ + 1] /\ ~(counter[k] + 1 <= options.limit)
          BY <4>2, <5>1 DEF Increment, Within
        <5>3. QED BY <1>4, <5>1, <5>2
      <4>3. QED BY <2>1, <4>1, <4>2
    <3>2. QED BY <1>1, <1>4, <2>1, <2>3, <3>1 DEF MoneyInv, RowsInv
  <2>9. RowsInv'
    BY <2>8 DEF RowsInv, Keyed
  <2>10. QED BY <2>7, <2>9 DEF MoneyInv
<1>10. QED BY <1>8, <1>9

-----------------------------------------------------------------------------
(* The invariant *)

ReplayInv == TypeInv /\ TimeInv /\ QueueInv /\ TrailInv /\ MoneyInv

\* It holds of a run that has not begun.
LEMMA ReplayInit == Init => ReplayInv
<1> SUFFICES ASSUME Init PROVE ReplayInv
  OBVIOUS
<1>1. /\ entry \in [Entries -> EntryType] /\ options \in Policies /\ draws \in [Events -> Transport]
      /\ \A m, n \in Events : m <= n => entry[m].at <= entry[n].at
      /\ index = 1 /\ pending = <<>> /\ now = entry[1].at /\ seen = 0
      /\ counter = [k \in Keyed |-> 0] /\ report = [k \in Keyed |-> 0]
      /\ records = [n \in Events |-> <<>>] /\ charges = <<>>
  BY DEF Init, EntryType, Keyed
<1>2. 1 \in Events /\ \A n \in Events : n \in Nat /\ n >= 1 /\ n \in Entries
  BY EntryAssumption DEF Events, Entries
<1>3. entry[1].at \in Nat
  <2>1. entry[1] \in EntryType
    BY <1>1, <1>2
  <2>2. QED BY <2>1, InstantAssumption DEF EntryType
<1>4. Held(pending) = {}
  BY <1>1 DEF Held
<1>5. TypeInv
  <2>1. index \in 1..(NumEvents + 1)
    BY <1>1, EntryAssumption
  <2>2. QED BY <1>1, <1>3, <2>1 DEF TypeInv
<1>6. TimeInv
  BY <1>1, <1>3, <1>4 DEF TimeInv
<1>7. \A n \in Events : records[n] = <<>> /\ ~(n < index)
  BY <1>1, <1>2
<1>8. QueueInv
  BY <1>1, <1>4, <1>7 DEF QueueInv, Distinct, Waits
<1>9. TrailInv
  BY <1>7 DEF TrailInv
<1>10. MoneyInv
  <2>1. DOMAIN charges = {}
    BY <1>1
  <2>2. ChargesInv
    BY <1>7, <2>1 DEF ChargesInv, Charged
  <2>3. \A k : Payers(k) = {}
    BY <2>1 DEF Payers
  <2>4. options.limit \in Nat
    BY <1>1, PolicyAssumption DEF Policy
  <2>5. RowsInv
    <3>1. \A k \in Keyed : report[k] = 0 /\ counter[k] = 0
      BY <1>1
    <3>2. \A k \in Keyed : Cardinality(Payers(k)) = 0
      BY <2>3, FS_EmptySet
    <3>3. 0 <= options.limit
      BY <2>4
    <3>4. QED BY <3>1, <3>2, <3>3 DEF RowsInv
  <2>6. QED BY <2>2, <2>5 DEF MoneyInv
<1>11. QED BY <1>5, <1>6, <1>8, <1>9, <1>10 DEF ReplayInv

\* Every iteration keeps it.
LEMMA ReplayStep == ReplayInv /\ [Next]_vars => ReplayInv'
<1> SUFFICES ASSUME ReplayInv, [Next]_vars PROVE ReplayInv'
  OBVIOUS
<1>0. TypeInv /\ TimeInv /\ QueueInv /\ TrailInv /\ MoneyInv
  BY DEF ReplayInv
<1>1. CASE Next
  <2>1. PICK w \in Works : \E queued, outcome, by, timed : Taken(w, queued, outcome, by, timed)
    BY <1>0, <1>1, NextIs
  <2>2. PICK queued, outcome, by, timed : Taken(w, queued, outcome, by, timed)
    BY <2>1
  <2>3. QED BY <1>0, <2>2, TypeStep, TimeStep, QueueStep, TrailStep, MoneyStep DEF ReplayInv
<1>2. CASE UNCHANGED vars
  <2>0. /\ entry' = entry /\ options' = options /\ draws' = draws /\ index' = index /\ pending' = pending
        /\ now' = now /\ seen' = seen /\ counter' = counter /\ report' = report
        /\ records' = records /\ charges' = charges
    BY <1>2 DEF vars
  <2>1. TypeInv'
    BY <1>0, <2>0 DEF TypeInv
  <2>2. TimeInv'
    BY <1>0, <2>0 DEF TimeInv, Held
  <2>3. QueueInv'
    BY <1>0, <2>0 DEF QueueInv, Distinct, Waits, Held, PieceInv
  <2>4. TrailInv'
    <3>1. ASSUME NEW n \in Events, NEW i \in DOMAIN records[n], NEW x, x = records[n][i]
          PROVE  RecInv(n, x)' /\ LookInv(n, i)'
      <4>1. RecInv(n, x) /\ LookInv(n, i)
        BY <1>0, <3>1 DEF TrailInv
      <4>2. RecInv(n, x)'
        BY <2>0, <4>1, RecStays
      <4>3. LookInv(n, i)'
        BY <2>0, <4>1 DEF LookInv, Postponed
      <4>4. QED BY <4>2, <4>3
    <3>2. QED BY <2>0, <3>1 DEF TrailInv
  <2>5. MoneyInv'
    <3>1. \A k : Payers(k)' = Payers(k)
      BY <2>0 DEF Payers
    <3>2. \A n, r : Landing(n, r)' = Landing(n, r)
      BY <2>0 DEF Landing, Newest, After
    <3>3. ChargesInv'
      BY <1>0, <2>0 DEF MoneyInv, ChargesInv, Charged, Postponed, Payers, Landing, Newest, After
    <3>4. RowsInv'
      BY <1>0, <2>0, <3>1 DEF MoneyInv, RowsInv, Keyed
    <3>5. QED BY <3>3, <3>4 DEF MoneyInv
  <2>6. QED BY <2>1, <2>2, <2>3, <2>4, <2>5 DEF ReplayInv
<1>3. QED BY <1>1, <1>2

\* The replay never leaves its invariant.
THEOREM ReplayIsSound == Spec => []ReplayInv
<1>1. QED BY ReplayInit, ReplayStep, PTL DEF Spec

-----------------------------------------------------------------------------
(* The queue's properties *)

\* The clock of gate and store, and the pointer over the snapshots, only move
\* forward, and together: the queue is worked off in the order of its instants
\* for whatever instants the checks name.
THEOREM TheClockOnlyMovesForward == Spec => ForwardOnly
<1>1. ReplayInv /\ [Next]_vars => [now' >= now /\ seen' = now']_vars
  <2> SUFFICES ASSUME ReplayInv, Next PROVE now' >= now /\ seen' = now'
    BY DEF vars
  <2>0. TypeInv /\ TimeInv /\ QueueInv
    BY DEF ReplayInv
  <2>1. PICK w \in Works : \E queued, outcome, by, timed : Taken(w, queued, outcome, by, timed)
    BY <2>0, NextIs
  <2>2. PICK queued, outcome, by, timed : Taken(w, queued, outcome, by, timed)
    BY <2>1
  <2>3. now' = w.due /\ seen' = w.due
    BY <2>0, <2>2, TurnIs
  <2>4. now <= w.due /\ w.due \in Nat /\ now \in Nat
    BY <2>0, WorkIs, SnapshotIs DEF TypeInv
  <2>5. QED BY <2>3, <2>4
<1>2. QED BY <1>1, ReplayIsSound, PTL DEF Spec, ForwardOnly

\* No candidate is dropped or decided twice, whatever is deferred and postponed:
\* one whose last record is a deferral waits in the queue exactly once, and any
\* other record is its last.
THEOREM NoCandidateIsForgotten == Spec => []NothingForgotten
<1>1. ReplayInv => NothingForgotten
  <2> SUFFICES ASSUME ReplayInv, NEW n \in Events
               PROVE  /\ Cardinality({i \in DOMAIN pending : pending[i].event = n})
                           = IF Waits(n) THEN 1 ELSE 0
                      /\ \A i \in DOMAIN records[n] : i < Len(records[n]) => records[n][i].outcome = "deferred"
                      /\ records[n] # <<>> <=> n < index
    BY DEF NothingForgotten, Waits
  <2>0. QueueInv
    BY DEF ReplayInv
  <2> DEFINE T == {i \in DOMAIN pending : pending[i].event = n}
  <2>1. CASE Waits(n)
    <3>1. PICK i \in DOMAIN pending : pending[i].event = n
      BY <2>0, <2>1 DEF QueueInv, Held
    <3>2. T = {i}
      BY <2>0, <3>1 DEF QueueInv, Distinct
    <3>3. QED BY <2>0, <2>1, <3>2, FS_Singleton DEF QueueInv
  <2>2. CASE ~Waits(n)
    <3>1. T = {}
      BY <2>0, <2>2 DEF QueueInv, Held
    <3>2. QED BY <2>0, <2>2, <3>1, FS_EmptySet DEF QueueInv
  <2>3. QED BY <2>1, <2>2
<1>2. QED BY <1>1, ReplayIsSound, PTL

\* A further attempt is only made while the candidate is worth sending, counted
\* from its first sighting and not from its latest hop.
THEOREM DeferralsEnd == Spec => []DeferralEnds
<1>1. ReplayInv => DeferralEnds
  <2> SUFFICES ASSUME ReplayInv, NEW n \in Events, NEW i \in DOMAIN records[n],
                      i > 1, records[n][i].attempt > records[n][i - 1].attempt
               PROVE  records[n][i].at <= records[n][1].at + Expiry
    BY DEF DeferralEnds
  <2>1. records[n] \in Seq(Records)
    BY DEF ReplayInv, TypeInv
  <2>2. 1 \in DOMAIN records[n]
    BY <2>1
  <2>3. records[n][1].at = entry[n].at
    BY <2>2 DEF ReplayInv, TrailInv, LookInv
  <2>4. QED BY <2>3 DEF ReplayInv, TrailInv, LookInv
<1>2. QED BY <1>1, ReplayIsSound, PTL

-----------------------------------------------------------------------------
(* The properties of what was recorded *)

\* A record of a candidate is a record of the trail.
LEMMA RecordedIs ==
  ASSUME NEW r \in Recorded
  PROVE  r.event \in Events /\ \E i \in DOMAIN records[r.event] : r.rec = records[r.event][i]
BY DEF Recorded

\* A message goes out only on the consent its user had given by the newest state
\* at that instant, and lands on the day, in the night and in the quiet hours of
\* that same state, however long ago it was deferred or paid for.
THEOREM SendsReadFreshState == Spec => []SentOnFreshState
<1>1. ReplayInv => SentOnFreshState
  <2> SUFFICES ASSUME ReplayInv, NEW r \in Recorded
               PROVE  LET state == Newest(entry[r.event].user, r.rec.at)
                          hour == HourOf(r.rec.at, state)
                      IN  /\ r.rec.outcome \in Transport /\ options.rereads => state.consents
                          /\ \A facts \in r.rec.landed :
                               facts = [day |-> DayOf(r.rec.at, state), night |-> hour \in Night,
                                        quiet |-> hour \in state.quiet]
    BY DEF SentOnFreshState
  <2>1. RecInv(r.event, r.rec)
    BY RecordedIs DEF ReplayInv, TrailInv
  <2>2. QED BY <2>1 DEF RecInv
<1>2. QED BY <1>1, ReplayIsSound, PTL

\* A delivery that was paid for is stopped by what its user's state says at that
\* moment and by nothing else: no budget is asked a second time.
THEOREM PaidForIsPaidFor == Spec => []PaidDeliveriesStand
<1>1. ReplayInv => PaidDeliveriesStand
  <2> SUFFICES ASSUME ReplayInv, NEW r \in Recorded, r.rec.outcome = "stoppedAtDelivery"
               PROVE  r.rec.by = "snooze" \/ ~Newest(entry[r.event].user, r.rec.at).consents
    BY DEF PaidDeliveriesStand
  <2>1. RecInv(r.event, r.rec)
    BY RecordedIs DEF ReplayInv, TrailInv
  <2>2. QED BY <2>1 DEF RecInv
<1>2. QED BY <1>1, ReplayIsSound, PTL

\* A row of the budget table counts the candidates that paid under its user and
\* day, each of them once, and never exceeds the limit, in shadow mode too.
THEOREM RowsCountThePayers == Spec => []RowsAreWhatWasPaid
<1>1. ReplayInv => RowsAreWhatWasPaid
  BY DEF ReplayInv, MoneyInv, RowsInv, RowsAreWhatWasPaid, Payers, Keyed
<1>2. QED BY <1>1, ReplayIsSound, PTL

-----------------------------------------------------------------------------
(* The report *)

\* What the records of a finished run are: each candidate has an outcome, and no
\* deferral is its last record; a send names no check and every other end does,
\* but for a message lost to the transport; a send came later than its candidate
\* exactly when it was deferred or postponed.
LEMMA FinalIs ==
  ASSUME ReplayInv, Done, NEW n \in Events
  PROVE  /\ Len(records[n]) \in Nat /\ Len(records[n]) >= 1
         /\ DOMAIN records[n] = 1..Len(records[n])
         /\ Final(n) = records[n][Len(records[n])] /\ Final(n) \in Records
         /\ Final(n).outcome \in Outcomes
         /\ Final(n).outcome \in Transport <=> Final(n).by = None
         /\ Final(n).by # "adaptiveTiming"
         /\ \A i \in 1..Len(records[n]) : i < Len(records[n]) => records[n][i].outcome = "deferred"
         /\ Final(n).outcome = "sent" =>
              (Final(n).at # entry[n].at <=> Final(n).attempt > 1 \/ Postponed(n))
         /\ Postponed(n) => Final(n).timed
<1>0. TypeInv /\ QueueInv /\ TrailInv
  BY DEF ReplayInv
<1>1. records[n] \in Seq(Records)
  BY <1>0 DEF TypeInv
<1>2. records[n] # <<>>
  <2>1. index \in 1..(NumEvents + 1) /\ index \notin Events
    BY <1>0 DEF TypeInv, Done
  <2>2. n < index
    BY <2>1, EntryAssumption DEF Events
  <2>3. QED BY <1>0, <2>2 DEF QueueInv
<1>3. /\ Len(records[n]) \in Nat /\ Len(records[n]) >= 1 /\ DOMAIN records[n] = 1..Len(records[n])
      /\ Len(records[n]) \in DOMAIN records[n]
  <2>1. Len(records[n]) # 0 /\ Len(records[n]) \in Nat
    BY <1>1, <1>2, EmptySeq
  <2>2. QED BY <1>1, <2>1
<1>4. Final(n) = records[n][Len(records[n])] /\ Final(n) \in Records
  BY <1>1, <1>3 DEF Final, Last
<1>5. ~Waits(n)
  <2>1. Held(pending) = {}
    BY DEF Done, Held
  <2>2. QED BY <1>0, <2>1 DEF QueueInv
<1>6. Final(n).outcome \in Outcomes
  <2>1. Final(n).outcome # "deferred"
    BY <1>2, <1>5 DEF Waits, Final
  <2>2. QED BY <1>4, <2>1 DEF Records
<1>7. RecInv(n, Final(n)) /\ LookInv(n, Len(records[n]))
  BY <1>0, <1>3, <1>4 DEF TrailInv
<1>8. Final(n).by # "adaptiveTiming"
  BY <1>6, <1>7 DEF RecInv, Outcomes
<1>9. \A i \in 1..Len(records[n]) : i < Len(records[n]) => records[n][i].outcome = "deferred"
  BY <1>0, <1>3 DEF QueueInv
<1>10. Final(n).outcome = "sent" =>
         (Final(n).at # entry[n].at <=> Final(n).attempt > 1 \/ Postponed(n))
  <2>1. CASE Len(records[n]) = 1
    <3>1. Final(n).at = entry[n].at /\ Final(n).attempt = 1
      BY <1>4, <1>7, <2>1 DEF LookInv
    <3>2. ~Postponed(n)
      BY <1>3, <1>4, <1>8, <2>1 DEF Postponed
    <3>3. QED BY <3>1, <3>2
  <2>2. CASE Len(records[n]) # 1
    <3>0. \A m \in Nat : m >= 1 /\ m # 1 => m > 1
      OBVIOUS
    <3>1. Len(records[n]) > 1
      BY <1>3, <2>2, <3>0
    <3>2. Final(n).at > entry[n].at /\ (Final(n).attempt > 1 \/ Postponed(n))
      BY <1>4, <1>7, <3>1 DEF LookInv
    <3>3. entry[n].at \in Nat /\ Final(n).at \in Nat
      <4>1. n \in Entries
        BY EntryAssumption DEF Events, Entries
      <4>2. entry[n] \in EntryType
        BY <1>0, <4>1 DEF TypeInv
      <4>3. QED BY <1>4, <4>2, InstantAssumption DEF EntryType, Records
    <3>4. QED BY <3>2, <3>3
  <2>3. QED BY <2>1, <2>2
<1>11. ASSUME Postponed(n) PROVE Final(n).timed
  <2>1. PICK j \in DOMAIN records[n] : records[n][j].by = "adaptiveTiming"
    BY <1>11 DEF Postponed
  <2>2. j # Len(records[n])
    BY <1>4, <1>8, <2>1
  <2>3. j < Len(records[n])
    BY <1>3, <2>2
  <2>4. QED BY <1>4, <1>7, <2>1, <2>3 DEF LookInv
<1>12. QED BY <1>3, <1>4, <1>6, <1>7, <1>8, <1>9, <1>10, <1>11 DEF RecInv

\* Of a set of events and the rest, the sizes add up.
LEMMA RestOfEvents ==
  ASSUME NEW T \in SUBSET Events
  PROVE  Cardinality(Events \ T) = NumEvents - Cardinality(T)
<1>1. Events \cap T = T
  OBVIOUS
<1>2. QED BY <1>1, EventsFinite, FS_Difference

\* Two sets of events without a common one: their sizes add up.
LEMMA DisjointParts ==
  ASSUME NEW S \in SUBSET Events, NEW T \in SUBSET Events, S \cap T = {}
  PROVE  Cardinality(S \cup T) = Cardinality(S) + Cardinality(T)
<1>1. IsFiniteSet(S) /\ IsFiniteSet(T) /\ Cardinality(S) \in Nat /\ Cardinality(T) \in Nat
  BY EventsFinite
<1>2. Cardinality(S \cap T) = 0
  BY FS_EmptySet
<1>3. Cardinality(S \cup T) = Cardinality(S) + Cardinality(T) - Cardinality(S \cap T)
  BY <1>1, FS_Union
<1>4. QED BY <1>1, <1>2, <1>3

\* The candidates that were sent a message.
LEMMA SentIs ==
  ASSUME NEW n \in Events
  PROVE  n \in Ended("gate", "sent") <=> Final(n).outcome = "sent"
BY DEF Ended, Finals

\* Beside the run without a gate a candidate of a finished run differs in one way
\* or none: by its outcome when only one of the two sent it, whichever of them the
\* transport failed; in when it landed when both sent it, which is so exactly when
\* it was deferred or postponed, and its cell says so.  Two rows count all the sends
\* that came later, and beside them only sends at their candidates' own instants.
THEOREM TheTimelineIsTrue == Spec => []TimelineTellsTheRun
<1>1. ReplayInv => TimelineTellsTheRun
  <2> DEFINE both == Ended("gate", "sent") \cap Ended("baseline", "sent")
             neither == Ended("gate", "spentNotDelivered") \cap Ended("baseline", "spentNotDelivered")
             rows == SummaryRow("gate", "sentAfterDeferral") \cup SummaryRow("gate", "sentAtALaterMoment")
             late == {n \in Events : "deliveryTime" \in Differences(n)}
             other == {n \in Events : "outcome" \in Differences(n)}
  <2> SUFFICES ASSUME ReplayInv, Done
               PROVE  /\ DifferenceCount("outcome") = NumEvents - Cardinality(both) - Cardinality(neither)
                      /\ DifferenceCount("deliveryTime") = Cardinality(SentLater \cap both)
                      /\ Cardinality(Disagreements)
                           = DifferenceCount("outcome") + DifferenceCount("deliveryTime")
                      /\ \A n \in both : "deliveryTime" \in Differences(n) <=> Verdict(n) = <<"sent", "later">>
                      /\ SentLater \subseteq rows
                      /\ \A n \in rows \ SentLater : Final(n).at = entry[n].at
    BY DEF TimelineTellsTheRun
  <2>1. \A n \in Events :
          /\ Baseline(n).outcome = draws[n] /\ draws[n] \in Transport
          /\ Baseline(n).by = None /\ Baseline(n).at = entry[n].at
    BY DEF Baseline, ReplayInv, TypeInv
  <2>2. /\ \A n \in Events : n \in both <=> Final(n).outcome = "sent" /\ draws[n] = "sent"
        /\ \A n \in Events : n \in neither <=>
             Final(n).outcome = "spentNotDelivered" /\ draws[n] = "spentNotDelivered"
        /\ both \in SUBSET Events /\ neither \in SUBSET Events
    BY <2>1 DEF Ended, Finals
  <2>3. ASSUME NEW n \in Events, n \notin both, n \notin neither
        PROVE  Differences(n) = {"outcome"}
    <3>1. Final(n).outcome # Baseline(n).outcome
      BY <2>1, <2>2, <2>3 DEF Transport
    <3>2. QED BY <3>1 DEF Differences
  <2>4. ASSUME NEW n \in neither PROVE Differences(n) = {}
    <3>1. n \in Events /\ Final(n).outcome = Baseline(n).outcome /\ Final(n).outcome = "spentNotDelivered"
      BY <2>1, <2>2, <2>4
    <3>2. Final(n).by = None
      BY <3>1, FinalIs DEF Transport
    <3>3. DeliveredAt("gate", n) = None /\ DeliveredAt("baseline", n) = None
      BY <3>1 DEF DeliveredAt, Finals
    <3>4. QED BY <2>1, <3>1, <3>2, <3>3 DEF Differences
  <2>5. ASSUME NEW n \in both
        PROVE  Differences(n) = IF Final(n).at # entry[n].at THEN {"deliveryTime"} ELSE {}
    <3>1. n \in Events /\ Final(n).outcome = Baseline(n).outcome /\ Final(n).outcome = "sent"
      BY <2>1, <2>2, <2>5
    <3>2. Final(n).by = None
      BY <3>1, FinalIs DEF Transport
    <3>3. DeliveredAt("gate", n) = Final(n).at /\ DeliveredAt("baseline", n) = entry[n].at
      BY <2>1, <3>1 DEF DeliveredAt, Finals
    <3>4. QED BY <2>1, <3>1, <3>2, <3>3 DEF Differences
  <2>6. both \cap neither = {}
    BY <2>2
  <2>7. other = Events \ (both \cup neither)
    BY <2>2, <2>3, <2>4, <2>5
  <2>8. \A n \in Events : n \in SentLater
          <=> Final(n).outcome = "sent" /\ (Final(n).attempt > 1 \/ Postponed(n))
    BY SentIs DEF SentLater
  <2>9. late = SentLater \cap both
    <3>1. \A n \in Events : "deliveryTime" \in Differences(n) <=> n \in both /\ Final(n).at # entry[n].at
      BY <2>3, <2>4, <2>5
    <3>2. \A n \in Events : n \in late <=> n \in SentLater \cap both
      BY <2>2, <2>8, <3>1, FinalIs
    <3>3. QED BY <2>2, <3>2
  <2>10. Disagreements = other \cup late /\ other \cap late = {}
    BY <2>3, <2>4, <2>5 DEF Disagreements
  <2>11. Cardinality(Disagreements) = Cardinality(other) + Cardinality(late)
    <3>1. other \in SUBSET Events /\ late \in SUBSET Events
      OBVIOUS
    <3> HIDE DEF other, late
    <3>2. QED BY <2>10, <3>1, DisjointParts
  <2>12. DifferenceCount("outcome") = Cardinality(other) /\ DifferenceCount("deliveryTime") = Cardinality(late)
    BY DEF DifferenceCount
  <2>13. Cardinality(other) = NumEvents - Cardinality(both) - Cardinality(neither)
    <3> HIDE DEF both, neither
    <3>1. Cardinality(both \cup neither) = Cardinality(both) + Cardinality(neither)
      BY <2>2, <2>6, DisjointParts
    <3>2. both \cup neither \in SUBSET Events
      BY <2>2
    <3>3. Cardinality(other) = NumEvents - Cardinality(both \cup neither)
      BY <2>7, <3>2, RestOfEvents
    <3>4. Cardinality(both) \in Nat /\ Cardinality(neither) \in Nat /\ NumEvents \in Nat
      BY <2>2, EventsFinite, EntryAssumption
    <3>5. QED BY <3>1, <3>3, <3>4
  <2>14. ASSUME NEW n \in both
         PROVE  "deliveryTime" \in Differences(n) <=> Verdict(n) = <<"sent", "later">>
    <3>1. None # "later"
      BY NoneAssumption
    <3>2. QED BY <2>2, <2>5, <3>1 DEF Verdict
  <2>15. \A n \in Events : n \in rows
           <=> Final(n).outcome = "sent" /\ (Final(n).attempt > 1 \/ Final(n).timed)
    <3>1. rows = SentAfterDeferral \cup SentAtALaterMoment
      BY DEF SummaryRow, Outcomes
    <3>2. QED BY <3>1, SentIs DEF SentAfterDeferral, SentAtALaterMoment
  <2>16. SentLater \subseteq rows
    <3>1. SentLater \subseteq Events
      BY DEF SentLater, Ended
    <3>2. QED BY <2>8, <2>15, <3>1, FinalIs
  <2>17. ASSUME NEW n \in rows, n \notin SentLater PROVE Final(n).at = entry[n].at
    <3>1. n \in Events
      BY DEF SummaryRow, Outcomes, SentAfterDeferral, SentAtALaterMoment, Ended
    <3>2. QED BY <2>8, <2>15, <2>17, <3>1, FinalIs
  <2>18. QED BY <2>9, <2>11, <2>12, <2>13, <2>14, <2>16, <2>17
<1>2. QED BY <1>1, ReplayIsSound, PTL

\* The budget bounds what a user is charged on a local day and not what he feels:
\* whatever lands beyond the limit on one day had been postponed into it.
THEOREM BusyDaysArePostponedDays == Spec => []BusyDaysWerePostponed
<1>1. ReplayInv => BusyDaysWerePostponed
  <2> SUFFICES ASSUME ReplayInv, Done, NEW user \in Users, NEW day \in Days
               PROVE  LET felt == PerUserDay("gate", user, day)
                          paidToday == {n \in felt : \E i \in DOMAIN charges :
                                          charges[i] = [event |-> n, key |-> <<user, day>>]}
                      IN  /\ Cardinality(paidToday) <= options.limit
                          /\ \A n \in felt \ paidToday : Postponed(n)
    BY DEF BusyDaysWerePostponed
  <2> DEFINE felt == PerUserDay("gate", user, day)
             paid == {n \in felt : \E i \in DOMAIN charges :
                        charges[i] = [event |-> n, key |-> <<user, day>>]}
             k == <<user, day>>
  <2>1. k \in Keyed
    BY DEF Keyed
  <2>2. report[k] = Cardinality(Payers(k)) /\ report[k] <= options.limit
    BY <2>1 DEF ReplayInv, MoneyInv, RowsInv
  <2>3. felt \subseteq Events
    BY DEF PerUserDay, Ended
  <2>4. paid \subseteq Payers(k) /\ Payers(k) \in SUBSET Events
    BY <2>3 DEF Payers
  <2>5. Cardinality(paid) <= Cardinality(Payers(k)) /\ Cardinality(paid) \in Nat
        /\ Cardinality(Payers(k)) \in Nat
    <3>1. IsFiniteSet(Payers(k)) /\ Cardinality(Payers(k)) \in Nat
      BY <2>4, EventsFinite
    <3>2. QED BY <2>4, <3>1, FS_Subset, FS_CardinalityType
  <2>6. options.limit \in Nat
    BY PolicyAssumption DEF ReplayInv, TypeInv, Policy
  <2>7. Cardinality(paid) <= options.limit
    BY <2>2, <2>5, <2>6
  <2>8. ASSUME NEW n \in felt, n \notin Payers(k) PROVE Postponed(n)
    <3>1. n \in Events /\ Final(n).outcome = "sent" /\ entry[n].user = user
          /\ \E facts \in Final(n).landed : facts.day = day /\ n \in Ended("gate", "sent")
      BY DEF PerUserDay, Ended, Finals
    <3>2. RecInv(n, Final(n)) /\ records[n] # <<>>
      <4>1. Len(records[n]) \in DOMAIN records[n] /\ Final(n) = records[n][Len(records[n])]
        BY <3>1, FinalIs
      <4>2. QED BY <3>1, <4>1 DEF ReplayInv, TrailInv
    <3>3. Landing(n, Final(n)) = k
      BY <3>1, <3>2 DEF RecInv, Landing
    <3>4. QED BY <2>8, <3>1, <3>2, <3>3 DEF ReplayInv, MoneyInv, ChargesInv, Final
  <2>9. \A n \in felt \ paid : Postponed(n)
    BY <2>3, <2>8 DEF Payers
  <2>10. QED BY <2>7, <2>9
<1>2. QED BY <1>1, ReplayIsSound, PTL

\* Numbering what paid under every user and day gives one unit for each payer.
LEMMA UnitsAreThePayers ==
  ASSUME ReplayInv
  PROVE  Cardinality({unit \in Keyed \X Events : unit[2] <= report[unit[1]]})
           = Cardinality({n \in Events : Charged(n)})
<1> DEFINE U == {unit \in Keyed \X Events : unit[2] <= report[unit[1]]}
           C == {n \in Events : Charged(n)}
<1> SUFFICES Cardinality(U) = Cardinality(C)
  OBVIOUS
<1>0. TypeInv /\ MoneyInv
  BY DEF ReplayInv
<1>1. \A k \in Keyed : /\ Payers(k) \in SUBSET Events /\ IsFiniteSet(Payers(k))
                       /\ report[k] = Cardinality(Payers(k)) /\ report[k] \in Nat
                       /\ report[k] <= NumEvents
  <2>1. \A k \in Keyed : Payers(k) \in SUBSET Events
    BY DEF Payers
  <2>2. QED BY <1>0, <2>1, EventsFinite DEF MoneyInv, RowsInv, TypeInv
<1>2. \A k \in Keyed : \E f : f \in Bijection(Payers(k), 1..report[k])
  <2> SUFFICES ASSUME NEW k \in Keyed PROVE \E f : f \in Bijection(Payers(k), 1..report[k])
    OBVIOUS
  <2>1. IsFiniteSet(1..report[k]) /\ Cardinality(1..report[k]) = report[k]
    <3>1. report[k] \in Nat
      BY <1>1
    <3>2. \A m \in Nat : IsFiniteSet(1..m) /\ Cardinality(1..m) = m
      BY FS_Interval
    <3>3. QED BY <3>1, <3>2
  <2>2. ExistsBijection(Payers(k), 1..report[k])
    BY <1>1, <2>1, FS_SameCardinalityBij
  <2>3. QED BY <2>2 DEF ExistsBijection
<1> DEFINE number(k) == CHOOSE f : f \in Bijection(Payers(k), 1..report[k])
<1>3. \A k \in Keyed : number(k) \in Bijection(Payers(k), 1..report[k])
  BY <1>2
<1> HIDE DEF number
<1>4. \A n \in C : \E c \in [event : Events, key : Keyed] :
        c.event = n /\ \E i \in DOMAIN charges : charges[i] = c
  <2> SUFFICES ASSUME NEW n \in C
               PROVE  \E c \in [event : Events, key : Keyed] :
                        c.event = n /\ \E i \in DOMAIN charges : charges[i] = c
    OBVIOUS
  <2>1. PICK i \in DOMAIN charges : charges[i].event = n
    BY DEF Charged
  <2>2. charges[i] \in [event : Events, key : Keyed]
    <3>1. charges \in Seq([event : Events, key : Keyed])
      BY <1>0 DEF TypeInv
    <3>2. \A T : \A s \in Seq(T) : \A j \in DOMAIN s : s[j] \in T
      OBVIOUS
    <3>3. QED BY <2>1, <3>1, <3>2
  <2>3. QED BY <2>1, <2>2
<1> DEFINE key(n) == CHOOSE k \in Keyed : n \in Payers(k)
<1>5. \A n \in C : key(n) \in Keyed /\ n \in Payers(key(n))
  <2> SUFFICES ASSUME NEW n \in C PROVE \E k \in Keyed : n \in Payers(k)
    OBVIOUS
  <2>1. PICK c \in [event : Events, key : Keyed] : c.event = n /\ \E i \in DOMAIN charges : charges[i] = c
    BY <1>4
  <2>2. c = [event |-> n, key |-> c.key] /\ c.key \in Keyed /\ n \in Events
    BY <2>1
  <2>3. n \in Payers(c.key)
    BY <2>1, <2>2 DEF Payers
  <2>4. QED BY <2>2, <2>3
<1> HIDE DEF key
<1>6. \A n \in C, k \in Keyed : n \in Payers(k) => k = key(n)
  <2> SUFFICES ASSUME NEW n \in C, NEW k \in Keyed, n \in Payers(k) PROVE k = key(n)
    OBVIOUS
  <2>1. PICK i \in DOMAIN charges : charges[i] = [event |-> n, key |-> k]
    BY DEF Payers
  <2>2. PICK j \in DOMAIN charges : charges[j] = [event |-> n, key |-> key(n)]
    BY <1>5 DEF Payers
  <2>3. charges[i].event = n /\ charges[j].event = n /\ charges[i].key = k /\ charges[j].key = key(n)
    BY <2>1, <2>2
  <2>4. i = j
    BY <1>0, <2>3 DEF MoneyInv, ChargesInv
  <2>5. QED BY <2>3, <2>4
<1>7. \A k \in Keyed : \A n \in Payers(k) : n \in C
  BY DEF Payers, Charged
<1> DEFINE F == [n \in C |-> <<key(n), number(key(n))[n]>>]
<1>8. \A n \in C : F[n] \in U /\ F[n][1] = key(n) /\ F[n][2] = number(key(n))[n]
  <2> SUFFICES ASSUME NEW n \in C
               PROVE  F[n] \in U /\ F[n][1] = key(n) /\ F[n][2] = number(key(n))[n]
    OBVIOUS
  <2>1. F[n] = <<key(n), number(key(n))[n]>> /\ key(n) \in Keyed
    BY <1>5
  <2>2. number(key(n))[n] \in 1..report[key(n)]
    BY <1>3, <1>5 DEF Bijection, Injection, Surjection
  <2>3. number(key(n))[n] \in Events /\ number(key(n))[n] <= report[key(n)]
    BY <1>1, <2>1, <2>2, EntryAssumption DEF Events
  <2>4. QED BY <2>1, <2>3
<1>9. \A m, n \in C : F[m] = F[n] => m = n
  <2> SUFFICES ASSUME NEW m \in C, NEW n \in C, F[m] = F[n] PROVE m = n
    OBVIOUS
  <2>1. key(m) = key(n) /\ number(key(n))[m] = number(key(n))[n]
    BY <1>8
  <2>2. m \in Payers(key(n)) /\ n \in Payers(key(n)) /\ key(n) \in Keyed
    BY <1>5, <2>1
  <2>3. QED BY <1>3, <2>1, <2>2 DEF Bijection, Injection, IsInjective
<1>10. \A u \in U : \E n \in C : F[n] = u
  <2> SUFFICES ASSUME NEW u \in U PROVE \E n \in C : F[n] = u
    OBVIOUS
  <2>1. PICK k \in Keyed, j \in Events : u = <<k, j>>
    OBVIOUS
  <2>2. j \in 1..report[k]
    BY <1>1, <2>1, EntryAssumption DEF Events
  <2>3. PICK n \in Payers(k) : number(k)[n] = j
    BY <1>3, <2>2 DEF Bijection, Surjection
  <2>4. n \in C /\ k = key(n)
    BY <1>6, <1>7, <2>3
  <2>5. F[n] = u
    BY <2>1, <2>3, <2>4
  <2>6. QED BY <2>4, <2>5
<1>11. F \in [C -> U]
  BY <1>8
<1>12. F \in Bijection(C, U)
  <2> HIDE DEF F, C, U
  <2>1. F \in Injection(C, U)
    BY <1>9, <1>11 DEF Injection, IsInjective
  <2>2. F \in Surjection(C, U)
    BY <1>10, <1>11 DEF Surjection
  <2>3. QED BY <2>1, <2>2 DEF Bijection
<1>13. IsFiniteSet(C)
  <2>1. C \in SUBSET Events
    OBVIOUS
  <2>2. QED BY <2>1, EventsFinite
<1> HIDE DEF F, C, U
<1>14. QED BY <1>12, <1>13, FS_Bijection DEF ExistsBijection

\* Each candidate of a finished run that was neither sent nor lost to the transport
\* is under exactly one check.
LEMMA StopsAreTheStopped ==
  ASSUME ReplayInv, Done
  PROVE  Cardinality({stop \in Events \X Checks : stop[1] \in StoppedBy(stop[2])})
           = Cardinality({n \in Events : Final(n).outcome \notin Transport})
<1> DEFINE S == {stop \in Events \X Checks : stop[1] \in StoppedBy(stop[2])}
           T == {n \in Events : Final(n).outcome \notin Transport}
           F == [n \in T |-> <<n, Final(n).by>>]
<1> SUFFICES Cardinality(S) = Cardinality(T)
  OBVIOUS
<1>1. \A n \in T : Final(n).by \in Checks /\ Final(n).outcome # "sent"
  <2>1. \A n \in Events : Final(n) \in Records
    BY FinalIs
  <2>2. \A n \in Events : Final(n).by \in Checks \cup {None}
    BY <2>1 DEF Records
  <2>3. QED BY <2>2, FinalIs DEF Transport
<1>2. \A n \in T : F[n] = <<n, Final(n).by>> /\ F[n] \in S
  BY <1>1 DEF StoppedBy
<1>3. \A s \in S : \E n \in T : F[n] = s
  <2> SUFFICES ASSUME NEW s \in S PROVE \E n \in T : F[n] = s
    OBVIOUS
  <2>1. PICK n \in Events, check \in Checks : s = <<n, check>>
    OBVIOUS
  <2>2. Final(n).by = check /\ Final(n).by # None
    BY <2>1, NoneAssumption DEF StoppedBy
  <2>3. n \in T
    BY <2>2, FinalIs
  <2>4. QED BY <1>2, <2>1, <2>2, <2>3
<1>4. F \in [T -> S]
  BY <1>2
<1>5. \A m, n \in T : F[m] = F[n] => m = n
  BY <1>2
<1>6. IsFiniteSet(T)
  <2>1. T \in SUBSET Events
    OBVIOUS
  <2>2. QED BY <2>1, EventsFinite
<1> HIDE DEF F, S, T
<1>7. F \in Bijection(T, S)
  BY <1>3, <1>4, <1>5 DEF Bijection, Injection, IsInjective, Surjection
<1>8. QED BY <1>6, <1>7, FS_Bijection DEF ExistsBijection

\* The books of a finished run balance: each column's outcomes add up to the
\* stream, every unit of the rows is a send, a failed send or a stopped delivery,
\* every other candidate is under the one check that stopped it, and those looked
\* at twice or given up are those counted as deferred.
THEOREM TheBooksBalance == Spec => []BooksBalance
<1>1. ReplayInv => BooksBalance
  <2> SUFFICES ASSUME ReplayInv, Done
               PROVE  LET shown == SummaryTable IN
    /\ \A column \in Columns : Events = UNION {SummaryRow(column, row) : row \in Outcomes \cap shown}
    /\ Cardinality({unit \in (Users \X Days) \X Events : unit[2] <= report[unit[1]]})
         = Cardinality(UNION {Ended("gate", o) : o \in {"sent", "spentNotDelivered", "stoppedAtDelivery"}})
    /\ Cardinality({stop \in Events \X Checks : stop[1] \in StoppedBy(stop[2])})
         = NumEvents - Cardinality(Ended("gate", "sent")) - Cardinality(Ended("gate", "spentNotDelivered"))
    /\ DeferredIds = {n \in Events : Len(records[n]) > 1 \/ Final(n).outcome = "expired"}
    BY DEF BooksBalance
  <2>0. \A n \in Events : Final(n).outcome \in Outcomes
    BY FinalIs
  <2>1. ASSUME NEW column \in Columns
        PROVE  Events = UNION {SummaryRow(column, row) : row \in Outcomes \cap SummaryTable}
    <3>1. \A row \in Outcomes : SummaryRow(column, row) = Ended(column, row)
      BY DEF SummaryRow, Outcomes
    <3>2. \A row \in Outcomes : Ended(column, row) # {} => row \in SummaryTable
      BY <3>1 DEF SummaryTable
    <3>3. \A n \in Events : Finals(column, n).outcome \in Outcomes
      <4>1. \A n \in Events : Baseline(n).outcome \in Outcomes
        BY DEF Baseline, ReplayInv, TypeInv, Transport, Outcomes
      <4>2. QED BY <2>0, <4>1 DEF Finals
    <3>4. \A n \in Events : n \in Ended(column, Finals(column, n).outcome)
      BY DEF Ended
    <3>5. \A row : Ended(column, row) \subseteq Events
      BY DEF Ended
    <3>6. QED BY <3>1, <3>2, <3>3, <3>4, <3>5
  <2>2. UNION {Ended("gate", o) : o \in {"sent", "spentNotDelivered", "stoppedAtDelivery"}}
          = {n \in Events : Charged(n)}
    <3>1. \A n \in Events : Charged(n) <=> Final(n).outcome \in Outlay
      BY FinalIs DEF ReplayInv, MoneyInv, ChargesInv, Final
    <3>2. \A n, o : n \in Ended("gate", o) <=> n \in Events /\ Final(n).outcome = o
      BY DEF Ended, Finals
    <3>3. QED BY <3>1, <3>2 DEF Outlay
  <2>3. Cardinality({n \in Events : Final(n).outcome \notin Transport})
          = NumEvents - Cardinality(Ended("gate", "sent")) - Cardinality(Ended("gate", "spentNotDelivered"))
    <3> DEFINE A == Ended("gate", "sent")
               B == Ended("gate", "spentNotDelivered")
    <3>1. A \in SUBSET Events /\ B \in SUBSET Events /\ A \cap B = {}
      BY DEF Ended
    <3>2. {n \in Events : Final(n).outcome \notin Transport} = Events \ (A \cup B)
      BY DEF Ended, Finals, Transport
    <3> HIDE DEF A, B
    <3>3. IsFiniteSet(A) /\ IsFiniteSet(B) /\ Cardinality(A) \in Nat /\ Cardinality(B) \in Nat
      BY <3>1, EventsFinite
    <3>4. Cardinality(A \cup B) = Cardinality(A) + Cardinality(B)
      <4>1. Cardinality(A \cap B) = 0
        BY <3>1, FS_EmptySet
      <4>2. Cardinality(A \cup B) = Cardinality(A) + Cardinality(B) - Cardinality(A \cap B)
        BY <3>3, FS_Union
      <4>3. QED BY <3>3, <4>1, <4>2
    <3>5. A \cup B \in SUBSET Events
      BY <3>1
    <3>6. Cardinality(Events \ (A \cup B)) = NumEvents - Cardinality(A \cup B)
      BY <3>5, RestOfEvents
    <3>7. NumEvents \in Nat
      BY EntryAssumption
    <3>8. NumEvents - (Cardinality(A) + Cardinality(B)) = NumEvents - Cardinality(A) - Cardinality(B)
      BY <3>3, <3>7
    <3>9. QED BY <3>2, <3>4, <3>6, <3>8 DEF A, B
  <2>4. DeferredIds = {n \in Events : Len(records[n]) > 1 \/ Final(n).outcome = "expired"}
    <3> SUFFICES ASSUME NEW n \in Events
                 PROVE  (\E i \in DOMAIN records[n] : records[n][i].outcome \in {"deferred", "expired"})
                          <=> Len(records[n]) > 1 \/ Final(n).outcome = "expired"
      BY DEF DeferredIds
    <3> DEFINE s == records[n]
    <3>1. /\ Len(s) \in Nat /\ Len(s) >= 1 /\ DOMAIN s = 1..Len(s) /\ Final(n) = s[Len(s)]
          /\ s[Len(s)].outcome \in Outcomes
          /\ \A i \in 1..Len(s) : i < Len(s) => s[i].outcome = "deferred"
      BY FinalIs
    <3> HIDE DEF s
    <3>2. ASSUME NEW i \in DOMAIN s, s[i].outcome \in {"deferred", "expired"}
          PROVE  Len(s) > 1 \/ Final(n).outcome = "expired"
      <4>1. CASE i = Len(s)
        BY <3>1, <3>2, <4>1 DEF Outcomes
      <4>2. CASE i # Len(s)
        BY <3>1, <4>2
      <4>3. QED BY <4>1, <4>2
    <3>3. ASSUME Len(s) > 1 PROVE \E i \in DOMAIN s : s[i].outcome = "deferred"
      <4>1. 1 \in DOMAIN s /\ 1 < Len(s)
        BY <3>1, <3>3
      <4>2. QED BY <3>1, <4>1
    <3>4. Len(s) \in DOMAIN s
      BY <3>1
    <3>5. QED BY <3>1, <3>2, <3>3, <3>4 DEF s
  <2>5. QED BY <2>1, <2>2, <2>3, <2>4, UnitsAreThePayers, StopsAreTheStopped DEF Keyed
<1>2. QED BY <1>1, ReplayIsSound, PTL
=============================================================================
