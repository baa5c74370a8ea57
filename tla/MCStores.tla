------------------------------- MODULE MCStores -------------------------------
(* Every store the packages ship, one at a time: the map stores of MapStores and *)
(* the tables of SqlStore and PyStore, on one clock.                             *)
EXTENDS MapStores, PyStore, TLC

CONSTANTS p1, p2

mapOnly == <<client, data, calling, reply, firsts>>
tableOnly == <<kind, home, row, call, ready, claims, taken, written, pyVars>>

\* One process, or one caller in a process of its own.
OneOrTwo ==
  {[c \in Callers |-> p1]}
  \cup {[c \in Callers |-> IF c = alone THEN p2 ELSE p1] : alone \in Callers}

\* The variables of the stores that are not in use, and never change.
NoTable ==
  /\ kind = None
  /\ home = [c \in Callers |-> p1]
  /\ row = Untouched
  /\ call = [c \in Callers |->
       [pc |-> "idle", op |-> None, key |-> None, value |-> None, at |-> NoTime]]
  /\ ready = "ok"
  /\ claims = {} /\ taken = {} /\ written = [k \in Cells |-> Absent]
  /\ writer = None
  /\ committed = Untouched
  /\ opened = [p \in Processes |-> "ok"]

NoMap ==
  /\ client = None
  /\ data = Untouched
  /\ calling = [c \in Callers |-> [pc |-> "idle", key |-> Absent, ttl |-> 0]]
  /\ reply = Absent
  /\ firsts = {}

MCInit == (MapInit /\ NoTable) \/ (PyInit /\ NoMap)

MCNext ==
  \/ client # None /\ MapNext /\ UNCHANGED tableOnly
  \/ kind # None /\ PyNext /\ UNCHANGED mapOnly

MCSpec == MCInit /\ [][MCNext]_<<allVars, mapVars>>

\* Bound: a tick less for the tables, whose operations take several steps.
SmallTables == kind # None => now < MaxNow

\* Callers are interchangeable: the layouts are closed under their permutations.
Symmetry == Permutations(Callers)
=============================================================================
