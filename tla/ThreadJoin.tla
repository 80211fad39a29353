----------------------------- MODULE ThreadJoin -----------------------------
(***************************************************************************)
(* What lab1/code/1.6 promises to whoever creates threads: a thread runs   *)
(* its routine once, and a join returns after the routine has and hands    *)
(* over what the routine returned.  A process may end at any moment, and   *)
(* with it all of its threads.                                             *)
(***************************************************************************)
CONSTANTS
  Thread,    \* the threads, in the order of their creation
  Result,    \* what a routine may return
  NoResult

VARIABLES
  phase,     \* of each thread: "none", "running", "returned", "joined"
  result,    \* what its routine has returned
  joined     \* what the last join has returned

vars == <<phase, result, joined>>

Init ==
  /\ phase = [t \in Thread |-> "none"]
  /\ result = [t \in Thread |-> NoResult]
  /\ joined = NoResult

Move(t, from, to) ==
  /\ phase[t] = from
  /\ phase' = [phase EXCEPT ![t] = to]

Start(t) ==
  /\ Move(t, "none", "running")
  /\ UNCHANGED <<result, joined>>

Return(t) ==
  /\ Move(t, "running", "returned")
  /\ \E r \in Result : result' = [result EXCEPT ![t] = r]
  /\ UNCHANGED joined

Join(t) ==
  /\ Move(t, "returned", "joined")
  /\ joined' = result[t]
  /\ UNCHANGED result

(* The process ends; a new one starts without threads. *)
Restart ==
  /\ phase' = [t \in Thread |-> "none"]
  /\ result' = [t \in Thread |-> NoResult]
  /\ joined' = NoResult

Next == \/ \E t \in Thread : Start(t) \/ Return(t) \/ Join(t)
        \/ Restart

Spec == Init /\ [][Next]_vars
=============================================================================
