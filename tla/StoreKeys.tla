------------------------------- MODULE StoreKeys -------------------------------
(***************************************************************************)
(* What the models of the stores have in common: callers that each call    *)
(* one method, the keys, and a clock.  The gate increments counters and    *)
(* writes cells (markers, dismissals); no key is both.                     *)
(***************************************************************************)
EXTENDS Integers

CONSTANTS
  Callers,           \* calls of the store's methods, each used once
  Counters, Cells,   \* keys only incremented, keys only written
  Values,            \* the numerals set() may write
  Absent,            \* no entry, no row
  MaxNow,            \* bound: the clock
  MaxErrors          \* bound: round trips or statements that throw

Keys == Counters \cup Cells

ASSUME KeyAssumption == Counters \cap Cells = {}
ASSUME ValueAssumption == Values \subseteq Nat
ASSUME BoundAssumption == MaxNow \in Nat

VARIABLES
  now,     \* the clock of the process, of the server or of the processes on a table
  errors   \* round trips or statements that threw so far
=============================================================================
