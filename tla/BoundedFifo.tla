---------------------------- MODULE BoundedFifo ----------------------------
(***************************************************************************)
(* What a queue of lab2 promises to its writer and its reader: the writer  *)
(* puts the integers 0, 1, 2, ... one after the other while there is room, *)
(* and the reader takes what was put, in the order it was put.             *)
(***************************************************************************)
EXTENDS Integers, Sequences

CONSTANTS IntRange, Capacities

VARIABLES
  cap,   \* number of values the queue may hold
  buf,   \* the values put and not yet taken
  put,   \* the next value the writer will put
  taken  \* the successor of the value taken last

vars == <<cap, buf, put, taken>>

After(x) == IF x = IntRange - 1 THEN 0 ELSE x + 1

Init ==
  /\ cap \in Capacities
  /\ buf = <<>>
  /\ put = 0
  /\ taken = 0

Put ==
  /\ Len(buf) < cap
  /\ buf' = Append(buf, put)
  /\ put' = After(put)
  /\ UNCHANGED <<cap, taken>>

Take ==
  /\ buf # <<>>
  /\ taken' = After(Head(buf))
  /\ buf' = Tail(buf)
  /\ UNCHANGED <<cap, put>>

Next == Put \/ Take

Spec == Init /\ [][Next]_vars

(* Progress: room is used, and what is there is taken. *)
Fairness == WF_vars(Put) /\ WF_vars(Take)
=============================================================================
