---------------------------- MODULE QueueProgram ----------------------------
(***************************************************************************)
(* The program around a queue of lab2/code/2.2: main starts the monitor    *)
(* (inside queueInit), the reader and the writer, in that order, and then  *)
(* waits in pthread_join for ever.  This module has the control state and  *)
(* the locals of these threads; how they get at the queue is the business  *)
(* of the module of each synchronisation variant.                          *)
(***************************************************************************)
EXTENDS QueueT

CONSTANT MaxAttempts   \* bound: attempts after which a routine stops calling

ASSUME QueueProgramAssumption == MaxAttempts \in Nat

VARIABLES
  pc,        \* what each thread does next
  i,         \* writer: the value to add
  expected,  \* reader: the value the next successful queueGet should return
  got,       \* reader: the value queueGet stored through its parameter val
  snap,      \* monitor: the locals of queuePrintStats
  status     \* "running", or what ended the process

locals      == <<i, expected, got, snap>>
programVars == <<pc, i, expected, got, snap, status>>

Workers == {"writer", "reader", "monitor"}
Threads == Workers \cup {"main"}

Statuses == {"running", "assertion_failed", "out_of_memory", "no_thread",
             "use_after_destroy"}

(* The fields queuePrintStats copies, in the order it copies them. *)
Fields == <<"count", "addAttempts", "getAttempts", "addCount", "getCount">>
FieldNames == {"count"} \cup Counters

NoSnap == [f \in FieldNames |-> 0]

-----------------------------------------------------------------------------

(* Thread t moves from one control point to another. *)
Step(t, from, to) ==
  /\ status = "running"
  /\ pc[t] = from
  /\ pc' = [pc EXCEPT ![t] = to]

(* Thread t ends the process: abort, a failed assert or a return of main.  *)
Die(t, from, why) ==
  /\ status = "running"
  /\ pc[t] = from
  /\ status' = why
  /\ UNCHANGED pc

ProgramInit ==
  /\ pc = [t \in Threads |-> IF t = "main" THEN "monitor" ELSE "unborn"]
  /\ i = 0
  /\ expected = 0
  /\ got = 0
  /\ snap = NoSnap
  /\ status = "running"

(* main is at the thread it creates next.  pthread_create succeeds: t      *)
(* enters its loop, main goes on.                                          *)
Create(t, next_pc, entry) ==
  /\ status = "running"
  /\ pc["main"] = t
  /\ pc' = [pc EXCEPT !["main"] = next_pc, ![t] = entry]
  /\ UNCHANGED status

(* pthread_create fails: queueInit aborts, main returns -1; the process is *)
(* gone either way, with every thread that was running in it.              *)
CreateFails(t) == Die("main", t, "no_thread")

MainStep(entry) ==
  \/ Create("monitor", "reader", entry)
  \/ Create("reader", "writer", entry)
  \/ Create("writer", "join", entry)
  \/ \E t \in Workers : CreateFails(t)

(* Mutant of WriterAdvances: an integer that never wraps. *)
WriterNeverWraps == i' = i + 1

(* The body of the writer's loop after queueAdd returned ok. *)
WriterAdvances == i' = NextInt(i)

(* Mutant of ReaderChecks: expected is what was got, not its successor. *)
ReaderChecksSame == expected' = got

(* The body of the reader's loop after queueGet returned 1: it compares    *)
(* got with expected, prints an error if they differ, and goes on.         *)
ReaderChecks == expected' = NextInt(got)

(* One copy of queuePrintStats into a local. *)
ReadField(k) ==
  snap' = [snap EXCEPT ![Fields[k]] =
             IF Fields[k] = "count" THEN count ELSE stats[Fields[k]]]

(* The end of the process. *)
Halted == status # "running"

-----------------------------------------------------------------------------
(* What the threads have done so far, seen through the list: a value is    *)
(* accepted when its node is linked, delivered when its node is unlinked.  *)

accepted  == IF pc["writer"] \in {"tally", "signal", "unlock", "post"}
             THEN NextInt(i) ELSE i
delivered == IF pc["reader"] \in {"tally", "signal", "unlock", "post", "check"}
             THEN NextInt(got) ELSE expected

ProgramTypeOK ==
  /\ i \in CInt
  /\ expected \in CInt
  /\ got \in CInt
  /\ snap \in [FieldNames -> Int]
  /\ status \in Statuses
=============================================================================
