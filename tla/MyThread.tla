------------------------------ MODULE MyThread ------------------------------
(***************************************************************************)
(* lab1/code/1.6: threads on clone.  The stack of a thread is a file       *)
(* stack-<id> that is mapped shared, and at its top lies a myThreadStruct  *)
(* through which the creator, the thread and the joining thread talk: the  *)
(* thread sets retVal and finished, myThreadJoin polls finished, takes     *)
(* retVal and sets joined, for which the thread polls before it ends.      *)
(*                                                                         *)
(* main:    call -> open -> grow -> fill -> set -> clone -> join -> take   *)
(*          -> release -> call ... -> return                               *)
(* thread:  start -> store -> finish -> wait -> done                       *)
(*                                                                         *)
(* main creates and joins one thread after the other.  A thread that was   *)
(* joined sleeps between two looks at joined, so it may still be there     *)
(* when the next one is created.  Files outlive the process that made      *)
(* them; the next process finds them as they are.                          *)
(***************************************************************************)
EXTENDS Naturals

CONSTANTS
  Calls,      \* how many threads main creates (main.c: 2)
  Result,     \* what startRoutine may return
  NULL,
  GARBAGE,    \* what memset leaves in a field, neither NULL nor zero
  NOTHING,    \* of a file: it is not there, or empty
  MaxRuns     \* bound: how often the program is started

Thread == 1 .. Calls

ASSUME MyThreadAssumption ==
  /\ Calls \in Nat /\ MaxRuns \in Nat
  /\ NULL \notin Result /\ GARBAGE \notin Result \cup {NULL} \cup Nat

VARIABLES
  file,        \* of each id: the struct at the end of stack-<id>, or NOTHING
  mythreadID,  \* static variable of myThreadCreate
  call,        \* main: which of its calls this is
  tid,         \* main: tid1, tid2, by the id of their stacks
  retVal,      \* main: what the last join has returned
  pc,          \* of main (0) and of each thread
  routineVal,  \* myThreadStart: its local retVal
  status,      \* "running", "returned", "failed", "killed"
  runs         \* how often the program was started

process == <<mythreadID, call, tid, retVal, pc, routineVal>>
vars    == <<file, process, status, runs>>

main == 0

pcAtStart == [p \in {main} \cup Thread |-> IF p = main THEN "call" ELSE "none"]

Init ==
  /\ file = [k \in Thread |-> NOTHING]
  /\ mythreadID = 0
  /\ call = 0
  /\ tid = [t \in Thread |-> NULL]
  /\ retVal = NULL
  /\ pc = pcAtStart
  /\ routineVal = [t \in Thread |-> NULL]
  /\ status = "running"
  /\ runs = 1

Step(p, from, to) ==
  /\ status = "running"
  /\ pc[p] = from
  /\ pc' = [pc EXCEPT ![p] = to]
  /\ UNCHANGED runs

(* The struct in the stack of thread t. *)
struct(t) == file[tid[t]]

-----------------------------------------------------------------------------
(* myThreadCreate and createStack. *)

(* Mutant of CreateCall: the id is that of the last thread. *)
CreateCallSameId ==
  /\ Step(main, "call", "open")
  /\ call < Calls
  /\ call' = call + 1
  /\ mythreadID' = 1
  /\ UNCHANGED <<file, tid, retVal, routineVal, status>>

CreateCall ==
  /\ Step(main, "call", "open")
  /\ call < Calls
  /\ call' = call + 1
  /\ mythreadID' = mythreadID + 1
  /\ UNCHANGED <<file, tid, retVal, routineVal, status>>

(* createStack: snprintf, open and ftruncate(0).  What an earlier process  *)
(* has left in the file is gone.                                           *)
StackOpen ==
  /\ Step(main, "open", "grow")
  /\ file' = [file EXCEPT ![mythreadID] = NOTHING]
  /\ UNCHANGED <<mythreadID, call, tid, retVal, routineVal, status>>

(* ftruncate(size), mmap, close.  The test for mmap's failure is one for   *)
(* NULL, but what mmap then returns is refused by mprotect.                *)
StackGrow ==
  /\ Step(main, "grow", "fill")
  /\ file' = [file EXCEPT ![mythreadID] = [retVal |-> NULL, finished |-> 0, joined |-> 0]]
  /\ UNCHANGED <<mythreadID, call, tid, retVal, routineVal, status>>

(* mprotect, memset. *)
StackFill ==
  /\ Step(main, "fill", "set")
  /\ file' = [file EXCEPT ![mythreadID] =
       [retVal |-> GARBAGE, finished |-> GARBAGE, joined |-> GARBAGE]]
  /\ UNCHANGED <<mythreadID, call, tid, retVal, routineVal, status>>

(* Mutant of StructSet: the struct keeps what memset has left in it. *)
StructSetForgotten ==
  /\ Step(main, "set", "clone")
  /\ UNCHANGED <<file, mythreadID, call, tid, retVal, routineVal, status>>

(* The six fields of the struct. *)
StructSet ==
  /\ Step(main, "set", "clone")
  /\ file' = [file EXCEPT ![mythreadID] = [retVal |-> NULL, finished |-> 0, joined |-> 0]]
  /\ UNCHANGED <<mythreadID, call, tid, retVal, routineVal, status>>

(* The thread may run before clone has returned and *mytid is set; only    *)
(* main reads *mytid.                                                      *)
Clone ==
  /\ status = "running"
  /\ pc[main] = "clone"
  /\ pc' = [pc EXCEPT ![main] = "join", ![call] = "start"]
  /\ tid' = [tid EXCEPT ![call] = mythreadID]
  /\ UNCHANGED <<file, mythreadID, call, retVal, routineVal, status, runs>>

(* Any of the system calls fails: main returns, and with it all threads.   *)
(* The file stays as it is; one that mmap or close has failed on is as far *)
(* as one that mprotect fails on.                                          *)
CreateFails ==
  /\ status = "running"
  /\ pc[main] \in {"open", "grow", "fill", "clone"}
  /\ status' = "failed"
  /\ UNCHANGED <<file, process, runs>>

-----------------------------------------------------------------------------
(* myThreadJoin, called by main for the thread it has just created. *)

(* Mutant of JoinPoll: finished is looked at once. *)
JoinPollOnce ==
  /\ Step(main, "join", "take")
  /\ UNCHANGED <<file, mythreadID, call, tid, retVal, routineVal, status>>

(* finished is a plain int: anything but zero ends the loop. *)
JoinPoll ==
  /\ Step(main, "join", "take")
  /\ struct(call).finished # 0
  /\ UNCHANGED <<file, mythreadID, call, tid, retVal, routineVal, status>>

JoinTake ==
  /\ Step(main, "take", "release")
  /\ retVal' = struct(call).retVal
  /\ UNCHANGED <<file, mythreadID, call, tid, routineVal, status>>

JoinRelease ==
  /\ Step(main, "release", "call")
  /\ file' = [file EXCEPT ![tid[call]].joined = 1]
  /\ UNCHANGED <<mythreadID, call, tid, retVal, routineVal, status>>

MainReturns ==
  /\ Step(main, "call", "return")
  /\ call = Calls
  /\ status' = "returned"
  /\ UNCHANGED <<file, mythreadID, call, tid, retVal, routineVal>>

Main == \/ CreateCall \/ StackOpen \/ StackGrow \/ StackFill \/ StructSet \/ Clone
        \/ JoinPoll \/ JoinTake \/ JoinRelease \/ MainReturns

-----------------------------------------------------------------------------
(* myThreadStart. *)

Routine(t) ==
  /\ Step(t, "start", "store")
  /\ \E r \in Result : routineVal' = [routineVal EXCEPT ![t] = r]
  /\ UNCHANGED <<file, mythreadID, call, tid, retVal, status>>

StoreRetVal(t) ==
  /\ Step(t, "store", "finish")
  /\ file' = [file EXCEPT ![tid[t]].retVal = routineVal[t]]
  /\ UNCHANGED <<mythreadID, call, tid, retVal, routineVal, status>>

(* Mutant of StoreFinished: the thread goes to wait without a word. *)
StoreFinishedForgotten(t) ==
  /\ Step(t, "finish", "wait")
  /\ UNCHANGED <<file, mythreadID, call, tid, retVal, routineVal, status>>

StoreFinished(t) ==
  /\ Step(t, "finish", "wait")
  /\ file' = [file EXCEPT ![tid[t]].finished = 1]
  /\ UNCHANGED <<mythreadID, call, tid, retVal, routineVal, status>>

WaitJoined(t) ==
  /\ Step(t, "wait", "done")
  /\ struct(t).joined # 0
  /\ UNCHANGED <<file, mythreadID, call, tid, retVal, routineVal, status>>

MyThreadStart(t) ==
  \/ Routine(t) \/ StoreRetVal(t) \/ StoreFinished(t) \/ WaitJoined(t)

-----------------------------------------------------------------------------

(* The process is killed from outside, at any moment.                      *)
Kill ==
  /\ status = "running"
  /\ status' = "killed"
  /\ UNCHANGED <<file, process, runs>>

(* Somebody starts the program again, in the same directory.               *)
Restart ==
  /\ status # "running"
  /\ runs < MaxRuns
  /\ runs' = runs + 1
  /\ status' = "running"
  /\ mythreadID' = 0
  /\ call' = 0
  /\ tid' = [t \in Thread |-> NULL]
  /\ retVal' = NULL
  /\ pc' = pcAtStart
  /\ routineVal' = [t \in Thread |-> NULL]
  /\ UNCHANGED file

Over == status # "running" /\ runs = MaxRuns

Next == \/ Main \/ CreateFails
        \/ \E t \in Thread : MyThreadStart(t)
        \/ Kill \/ Restart
        \/ Over /\ UNCHANGED vars

Spec == Init /\ [][Next]_vars

(* The scheduler runs every thread that can run; startRoutine returns.     *)
FairSpec == /\ Spec
            /\ WF_vars(Main)
            /\ \A t \in Thread : WF_vars(MyThreadStart(t))

-----------------------------------------------------------------------------

Struct == [retVal : Result \cup {NULL, GARBAGE},
           finished : {0, 1, GARBAGE}, joined : {0, 1, GARBAGE}]

MainPoints == {"call", "open", "grow", "fill", "set", "clone",
               "join", "take", "release", "return"}
ThreadPoints == {"none", "start", "store", "finish", "wait", "done"}

(* Every variable has its declared type, and retVal is never garbage.      *)
TypeOK ==
  /\ file \in [Thread -> Struct \cup {NOTHING}]
  /\ mythreadID \in {0} \cup Thread
  /\ call \in {0} \cup Thread
  /\ tid \in [Thread -> Thread \cup {NULL}]
  /\ retVal \in Result \cup {NULL}
  /\ pc \in [{main} \cup Thread -> MainPoints \cup ThreadPoints]
  /\ pc[main] \in MainPoints
  /\ \A t \in Thread : pc[t] \in ThreadPoints
  /\ routineVal \in [Thread -> Result \cup {NULL}]
  /\ status \in {"running", "returned", "failed", "killed"}
  /\ runs \in 0 .. MaxRuns + 1

(* How far main has come with thread t: a join is done when retVal has     *)
(* been taken.                                                             *)
Joined(t) == \/ t < call
             \/ t = call /\ pc[main] \in {"release", "call", "return"}

phase == [t \in Thread |->
  IF pc[t] = "none" THEN "none"
  ELSE IF Joined(t) THEN "joined"
  ELSE IF pc[t] = "start" THEN "running" ELSE "returned"]

Join == INSTANCE ThreadJoin WITH
          NoResult <- NULL, result <- routineVal, joined <- retVal

(* myThreadJoin returns only after the routine of the very thread has, and *)
(* with what that routine returned, although nothing but two ints in a     *)
(* reused file says so, and although every process finds the files of the  *)
(* one before, wherever that was killed.                                   *)
ImplementsJoin == Join!Spec

(* The stack of a thread that has not ended is not taken from it: its      *)
(* struct only changes by a step of the protocol, while main goes on to    *)
(* cut, grow and fill the stack of the next thread.                        *)
LiveStackIsKept ==
  [][\A t \in Thread :
       pc[t] \notin {"none", "done"} /\ file'[tid[t]] # struct(t) =>
         file'[tid[t]] \in {[struct(t) EXCEPT !.retVal = routineVal[t]],
                           [struct(t) EXCEPT !.finished = 1],
                           [struct(t) EXCEPT !.joined = 1]}]_vars

(* main never polls for ever: unless the process is killed or a call       *)
(* fails, it joins its threads and returns.                                *)
MainIsDone == status = "running" ~> status # "running"
=============================================================================
