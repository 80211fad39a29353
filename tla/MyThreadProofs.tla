--------------------------- MODULE MyThreadProofs ---------------------------
(***************************************************************************)
(* The safety of the threads on clone, for every number of threads and of  *)
(* starts of the program: types, the refinement of ThreadJoin, and that    *)
(* nobody takes a living thread's stack.                                   *)
(***************************************************************************)
EXTENDS MyThread, TLAPS

(* How far main has come with thread t. *)
Created(t) == \/ t < call
              \/ t = call /\ pc[main] \in {"join", "take", "release", "call", "return"}
Finished(t) == \/ t < call
               \/ t = call /\ pc[main] \in {"take", "release", "call", "return"}
Released(t) == \/ t < call
               \/ t = call /\ pc[main] \in {"call", "return"}

(* The static counter is main's count of its calls. *)
MainInv ==
  /\ mythreadID = call
  /\ pc[main] \notin {"call", "return"} => call # 0

(* A thread exists, and main has its id, when clone has returned. *)
CreatedInv == \A t \in Thread :
  /\ tid[t] = IF Created(t) THEN t ELSE NULL
  /\ pc[t] = "none" <=> ~ Created(t)

(* The struct as myThreadCreate sets it up before there is a thread.       *)
Fresh == [retVal |-> NULL, finished |-> 0, joined |-> 0]

(* The struct at the top of a stack says where its thread and main are,    *)
(* whatever the file held before.                                          *)
StructInv ==
  /\ pc[main] = "clone" => file[call] = Fresh
  /\ \A t \in Thread : pc[t] # "none" =>
       file[t] = [retVal   |-> IF pc[t] \in {"start", "store"} THEN NULL ELSE routineVal[t],
                  finished |-> IF pc[t] \in {"wait", "done"} THEN 1 ELSE 0,
                  joined   |-> IF Released(t) THEN 1 ELSE 0]

(* The routine has returned by the time its thread stores the result.      *)
ResultInv == \A t \in Thread :
  IF pc[t] \in {"none", "start"} THEN routineVal[t] = NULL ELSE routineVal[t] \in Result

(* main gets past its poll only when the thread has stored everything. *)
JoinInv ==
  /\ \A t \in Thread : Finished(t) => pc[t] \in {"wait", "done"}
  /\ pc[main] = "release" => retVal = routineVal[call]

(* The strengthening of the properties below.                              *)
Inv == TypeOK /\ MainInv /\ CreatedInv /\ StructInv /\ ResultInv /\ JoinInv

-----------------------------------------------------------------------------

(* Before main's first call there are no threads. *)
LEMMA AtStart ==
  /\ pcAtStart \in [{main} \cup Thread -> MainPoints \cup ThreadPoints]
  /\ pcAtStart[main] = "call" /\ main = 0
  /\ \A t \in Thread : pcAtStart[t] = "none" /\ t \in Nat /\ 0 < t
<1>1. main = 0 /\ \A t \in Thread : t \in Nat /\ 0 < t
  BY MyThreadAssumption DEF main, Thread
<1> QED
  BY <1>1 DEF pcAtStart, MainPoints, ThreadPoints

LEMMA Initially == Init => Inv
<1> SUFFICES ASSUME Init PROVE Inv
  OBVIOUS
<1> USE AtStart DEF Init
<1>1. TypeOK
  <2>1. /\ pc \in [{main} \cup Thread -> MainPoints \cup ThreadPoints]
        /\ pc[main] \in MainPoints
        /\ \A t \in Thread : pc[t] \in ThreadPoints
    BY DEF MainPoints, ThreadPoints
  <2>2. /\ file \in [Thread -> Struct \cup {NOTHING}]
        /\ tid \in [Thread -> Thread \cup {NULL}]
        /\ routineVal \in [Thread -> Result \cup {NULL}]
    OBVIOUS
  <2>3. runs \in 0 .. MaxRuns + 1
    BY MyThreadAssumption
  <2> QED
    BY <2>1, <2>2, <2>3 DEF TypeOK
<1>2. \A t \in Thread : ~ Created(t) /\ ~ Finished(t)
  BY DEF Created, Finished
<1> QED
  BY <1>1, <1>2 DEF Inv, MainInv, CreatedInv, StructInv, ResultInv, JoinInv

-----------------------------------------------------------------------------

LEMMA Facts ==
  ASSUME Inv
  PROVE  /\ main = 0 /\ call \in Nat /\ call <= Calls /\ Calls \in Nat
         /\ \A t \in Thread : t \in Nat /\ t # 0 /\ t <= Calls
         /\ pc[main] \notin {"call", "return"} => call \in Thread
BY MyThreadAssumption DEF Inv, TypeOK, MainInv, Thread, main

(* What ends the process leaves the protocol as it is.                     *)
LEMMA HaltKeepsInv ==
  ASSUME Inv, UNCHANGED <<file, process, runs>>,
         status' \in {"running", "returned", "failed", "killed"}
  PROVE  Inv'
BY DEF Inv, TypeOK, MainInv, CreatedInv, StructInv, ResultInv, JoinInv, Created,
       Finished, Released, process

LEMMA CreateCallKeepsInv ==
  ASSUME Inv, CreateCall
  PROVE  Inv'
<1> USE Facts DEF Inv, TypeOK
<1>0. call + 1 \in Thread
  BY DEF CreateCall, Thread
<1>1. TypeOK'
  BY <1>0 DEF CreateCall, Step, MainPoints, ThreadPoints, MainInv
<1>2. MainInv'
  BY DEF CreateCall, Step, MainInv
<1>3. CreatedInv'
  BY DEF CreateCall, Step, CreatedInv, Created, MainInv
<1>4. StructInv'
  BY DEF CreateCall, Step, StructInv, Released, CreatedInv, Created
<1>5. ResultInv'
  BY DEF CreateCall, Step, ResultInv
<1>6. JoinInv'
  BY DEF CreateCall, Step, JoinInv, Finished
<1> QED
  BY <1>1, <1>2, <1>3, <1>4, <1>5, <1>6

LEMMA StackOpenKeepsInv ==
  ASSUME Inv, StackOpen
  PROVE  Inv'
<1> USE Facts DEF Inv, TypeOK
<1>1. TypeOK'
  BY DEF StackOpen, Step, MainPoints, ThreadPoints
<1>2. MainInv'
  BY DEF StackOpen, Step, MainInv
<1>3. CreatedInv'
  BY DEF StackOpen, Step, CreatedInv, Created, MainInv
<1>4. StructInv'
  BY DEF StackOpen, Step, StructInv, Released, CreatedInv, Created, MainInv
<1>5. ResultInv'
  BY DEF StackOpen, Step, ResultInv
<1>6. JoinInv'
  BY DEF StackOpen, Step, JoinInv, Finished
<1> QED
  BY <1>1, <1>2, <1>3, <1>4, <1>5, <1>6

LEMMA StackGrowKeepsInv ==
  ASSUME Inv, StackGrow
  PROVE  Inv'
<1> USE Facts DEF Inv, TypeOK
<1>1. TypeOK'
  BY DEF StackGrow, Step, MainPoints, ThreadPoints, Struct
<1>2. MainInv'
  BY DEF StackGrow, Step, MainInv
<1>3. CreatedInv'
  BY DEF StackGrow, Step, CreatedInv, Created, MainInv
<1>4. StructInv'
  BY DEF StackGrow, Step, StructInv, Released, CreatedInv, Created, MainInv
<1>5. ResultInv'
  BY DEF StackGrow, Step, ResultInv
<1>6. JoinInv'
  BY DEF StackGrow, Step, JoinInv, Finished
<1> QED
  BY <1>1, <1>2, <1>3, <1>4, <1>5, <1>6

LEMMA StackFillKeepsInv ==
  ASSUME Inv, StackFill
  PROVE  Inv'
<1> USE Facts DEF Inv, TypeOK
<1>1. TypeOK'
  BY DEF StackFill, Step, MainPoints, ThreadPoints, Struct
<1>2. MainInv'
  BY DEF StackFill, Step, MainInv
<1>3. CreatedInv'
  BY DEF StackFill, Step, CreatedInv, Created, MainInv
<1>4. StructInv'
  BY DEF StackFill, Step, StructInv, Released, CreatedInv, Created, MainInv
<1>5. ResultInv'
  BY DEF StackFill, Step, ResultInv
<1>6. JoinInv'
  BY DEF StackFill, Step, JoinInv, Finished
<1> QED
  BY <1>1, <1>2, <1>3, <1>4, <1>5, <1>6

LEMMA StructSetKeepsInv ==
  ASSUME Inv, StructSet
  PROVE  Inv'
<1> USE Facts DEF Inv, TypeOK
<1>1. TypeOK'
  BY DEF StructSet, Step, MainPoints, ThreadPoints, Struct
<1>2. MainInv'
  BY DEF StructSet, Step, MainInv
<1>3. CreatedInv'
  BY DEF StructSet, Step, CreatedInv, Created, MainInv
<1>4. StructInv'
  BY DEF StructSet, Step, StructInv, Released, CreatedInv, Created, MainInv,
         Fresh
<1>5. ResultInv'
  BY DEF StructSet, Step, ResultInv
<1>6. JoinInv'
  BY DEF StructSet, Step, JoinInv, Finished
<1> QED
  BY <1>1, <1>2, <1>3, <1>4, <1>5, <1>6

LEMMA CloneKeepsInv ==
  ASSUME Inv, Clone
  PROVE  Inv'
<1> USE Facts DEF Inv, TypeOK
<1>1. TypeOK'
  BY DEF Clone, MainPoints, ThreadPoints, MainInv
<1>2. MainInv'
  BY DEF Clone, MainInv
<1>3. CreatedInv'
  BY DEF Clone, CreatedInv, Created, MainInv
<1>4. StructInv'
  BY DEF Clone, StructInv, Released, CreatedInv, Created, MainInv, Fresh
<1>5. ResultInv'
  BY DEF Clone, ResultInv, CreatedInv, Created
<1>6. JoinInv'
  BY DEF Clone, JoinInv, Finished
<1> QED
  BY <1>1, <1>2, <1>3, <1>4, <1>5, <1>6

LEMMA JoinPollKeepsInv ==
  ASSUME Inv, JoinPoll
  PROVE  Inv'
<1> USE Facts DEF Inv, TypeOK
<1>1. TypeOK'
  BY DEF JoinPoll, Step, MainPoints, ThreadPoints
<1>2. MainInv'
  BY DEF JoinPoll, Step, MainInv
<1>3. CreatedInv'
  BY DEF JoinPoll, Step, CreatedInv, Created, MainInv
<1>4. StructInv'
  BY DEF JoinPoll, Step, StructInv, Released, CreatedInv, Created
<1>5. ResultInv'
  BY DEF JoinPoll, Step, ResultInv
<1>6. JoinInv'
  BY DEF JoinPoll, Step, JoinInv, Finished, struct, StructInv, CreatedInv,
         Created
<1> QED
  BY <1>1, <1>2, <1>3, <1>4, <1>5, <1>6

LEMMA JoinTakeKeepsInv ==
  ASSUME Inv, JoinTake
  PROVE  Inv'
<1> USE Facts DEF Inv, TypeOK
<1>1. TypeOK'
  BY MyThreadAssumption DEF JoinTake, Step, MainPoints, ThreadPoints, struct,
         StructInv, ResultInv, JoinInv, Finished, CreatedInv, Created
<1>2. MainInv'
  BY DEF JoinTake, Step, MainInv
<1>3. CreatedInv'
  BY DEF JoinTake, Step, CreatedInv, Created, MainInv
<1>4. StructInv'
  BY DEF JoinTake, Step, StructInv, Released, CreatedInv, Created
<1>5. ResultInv'
  BY DEF JoinTake, Step, ResultInv
<1>6. JoinInv'
  BY DEF JoinTake, Step, JoinInv, Finished, struct, StructInv, CreatedInv,
         Created
<1> QED
  BY <1>1, <1>2, <1>3, <1>4, <1>5, <1>6

LEMMA JoinReleaseKeepsInv ==
  ASSUME Inv, JoinRelease
  PROVE  Inv'
<1> USE Facts DEF Inv, TypeOK
<1>1. TypeOK'
  BY MyThreadAssumption DEF JoinRelease, Step, MainPoints, ThreadPoints,
         Struct, StructInv, CreatedInv, Created, ResultInv
<1>2. MainInv'
  BY DEF JoinRelease, Step, MainInv
<1>3. CreatedInv'
  BY DEF JoinRelease, Step, CreatedInv, Created, MainInv
<1>4. StructInv'
  BY DEF JoinRelease, Step, StructInv, Released, CreatedInv, Created, JoinInv,
         Finished
<1>5. ResultInv'
  BY DEF JoinRelease, Step, ResultInv
<1>6. JoinInv'
  BY DEF JoinRelease, Step, JoinInv, Finished
<1> QED
  BY <1>1, <1>2, <1>3, <1>4, <1>5, <1>6

LEMMA MainReturnsKeepsInv ==
  ASSUME Inv, MainReturns
  PROVE  Inv'
<1> USE Facts DEF Inv, TypeOK
<1>1. TypeOK'
  BY DEF MainReturns, Step, MainPoints, ThreadPoints
<1>2. MainInv'
  BY DEF MainReturns, Step, MainInv
<1>3. CreatedInv'
  BY DEF MainReturns, Step, CreatedInv, Created, MainInv
<1>4. StructInv'
  BY DEF MainReturns, Step, StructInv, Released, CreatedInv, Created
<1>5. ResultInv'
  BY DEF MainReturns, Step, ResultInv
<1>6. JoinInv'
  BY DEF MainReturns, Step, JoinInv, Finished
<1> QED
  BY <1>1, <1>2, <1>3, <1>4, <1>5, <1>6

LEMMA RoutineKeepsInv ==
  ASSUME Inv, NEW t \in Thread, Routine(t)
  PROVE  Inv'
<1> USE Facts DEF Inv, TypeOK
<1>1. TypeOK'
  BY DEF Routine, Step, MainPoints, ThreadPoints
<1>2. MainInv'
  BY DEF Routine, Step, MainInv
<1>3. CreatedInv'
  BY DEF Routine, Step, CreatedInv, Created, MainInv
<1>4. StructInv'
  BY DEF Routine, Step, StructInv, Released, CreatedInv, Created
<1>5. ResultInv'
  BY DEF Routine, Step, ResultInv
<1>6. JoinInv'
  BY DEF Routine, Step, JoinInv, Finished
<1> QED
  BY <1>1, <1>2, <1>3, <1>4, <1>5, <1>6

LEMMA StoreRetValKeepsInv ==
  ASSUME Inv, NEW t \in Thread, StoreRetVal(t)
  PROVE  Inv'
<1> USE Facts DEF Inv, TypeOK
<1>1. TypeOK'
  BY MyThreadAssumption DEF StoreRetVal, Step, MainPoints, ThreadPoints,
         Struct, StructInv, CreatedInv, Created, ResultInv
<1>2. MainInv'
  BY DEF StoreRetVal, Step, MainInv
<1>3. CreatedInv'
  BY DEF StoreRetVal, Step, CreatedInv, Created, MainInv
<1>4. StructInv'
  BY DEF StoreRetVal, Step, StructInv, Released, CreatedInv, Created, JoinInv,
         Finished
<1>5. ResultInv'
  BY DEF StoreRetVal, Step, ResultInv
<1>6. JoinInv'
  BY DEF StoreRetVal, Step, JoinInv, Finished
<1> QED
  BY <1>1, <1>2, <1>3, <1>4, <1>5, <1>6

LEMMA StoreFinishedKeepsInv ==
  ASSUME Inv, NEW t \in Thread, StoreFinished(t)
  PROVE  Inv'
<1> USE Facts DEF Inv, TypeOK
<1>1. TypeOK'
  BY MyThreadAssumption DEF StoreFinished, Step, MainPoints, ThreadPoints,
         Struct, StructInv, CreatedInv, Created, ResultInv
<1>2. MainInv'
  BY DEF StoreFinished, Step, MainInv
<1>3. CreatedInv'
  BY DEF StoreFinished, Step, CreatedInv, Created, MainInv
<1>4. StructInv'
  BY DEF StoreFinished, Step, StructInv, Released, CreatedInv, Created,
         JoinInv, Finished
<1>5. ResultInv'
  BY DEF StoreFinished, Step, ResultInv
<1>6. JoinInv'
  BY DEF StoreFinished, Step, JoinInv, Finished
<1> QED
  BY <1>1, <1>2, <1>3, <1>4, <1>5, <1>6

LEMMA WaitJoinedKeepsInv ==
  ASSUME Inv, NEW t \in Thread, WaitJoined(t)
  PROVE  Inv'
<1> USE Facts DEF Inv, TypeOK
<1>1. TypeOK'
  BY DEF WaitJoined, Step, MainPoints, ThreadPoints
<1>2. MainInv'
  BY DEF WaitJoined, Step, MainInv
<1>3. CreatedInv'
  BY DEF WaitJoined, Step, CreatedInv, Created, MainInv
<1>4. StructInv'
  BY DEF WaitJoined, Step, StructInv, Released, CreatedInv, Created, struct
<1>5. ResultInv'
  BY DEF WaitJoined, Step, ResultInv
<1>6. JoinInv'
  BY DEF WaitJoined, Step, JoinInv, Finished
<1> QED
  BY <1>1, <1>2, <1>3, <1>4, <1>5, <1>6

LEMMA RestartKeepsInv ==
  ASSUME Inv, Restart
  PROVE  Inv'
<1> USE AtStart DEF Restart
<1>1. TypeOK'
  <2>1. (/\ pc \in [{main} \cup Thread -> MainPoints \cup ThreadPoints]
         /\ pc[main] \in MainPoints
         /\ \A t \in Thread : pc[t] \in ThreadPoints)'
    BY DEF MainPoints, ThreadPoints
  <2>2. (/\ file \in [Thread -> Struct \cup {NOTHING}]
         /\ tid \in [Thread -> Thread \cup {NULL}]
         /\ routineVal \in [Thread -> Result \cup {NULL}])'
    BY DEF Inv, TypeOK
  <2>3. runs' \in 0 .. MaxRuns + 1
    BY MyThreadAssumption DEF Inv, TypeOK
  <2> QED
    BY <2>1, <2>2, <2>3 DEF TypeOK
<1>2. \A t \in Thread : ~ Created(t)' /\ ~ Finished(t)'
  BY DEF Created, Finished
<1> QED
  BY <1>1, <1>2 DEF Inv, MainInv, CreatedInv, StructInv, ResultInv, JoinInv

LEMMA NextKeepsInv == Inv /\ [Next]_vars => Inv'
<1> SUFFICES ASSUME Inv, [Next]_vars PROVE Inv'
  OBVIOUS
<1>1. CASE Main
  BY <1>1, CreateCallKeepsInv, StackOpenKeepsInv, StackGrowKeepsInv, StackFillKeepsInv,
     StructSetKeepsInv, CloneKeepsInv, JoinPollKeepsInv, JoinTakeKeepsInv,
     JoinReleaseKeepsInv, MainReturnsKeepsInv DEF Main
<1>2. ASSUME NEW t \in Thread, MyThreadStart(t) PROVE Inv'
  BY <1>2, RoutineKeepsInv, StoreRetValKeepsInv, StoreFinishedKeepsInv,
     WaitJoinedKeepsInv DEF MyThreadStart
<1>3. CASE CreateFails
  BY <1>3, HaltKeepsInv DEF CreateFails
<1>4. CASE Kill
  BY <1>4, HaltKeepsInv DEF Kill
<1>5. CASE Restart
  BY <1>5, RestartKeepsInv
<1>6. CASE UNCHANGED vars
  BY <1>6, HaltKeepsInv DEF vars, Inv, TypeOK
<1> QED
  BY <1>1, <1>2, <1>3, <1>4, <1>5, <1>6 DEF Next

THEOREM Invariance == Spec => []Inv
BY Initially, NextKeepsInv, PTL DEF Spec

(* The variables keep their types, and main is never handed what memset    *)
(* has left in a struct.                                                   *)
THEOREM TypeCorrect == Spec => []TypeOK
<1>1. Inv => TypeOK
  BY DEF Inv
<1> QED
  BY <1>1, Invariance, PTL

-----------------------------------------------------------------------------

(* The struct of a thread that has been created. *)
LEMMA LivingFacts ==
  ASSUME Inv, NEW t \in Thread, pc[t] # "none"
  PROVE  tid[t] = t /\ struct(t) = file[t] /\ Created(t)
BY DEF Inv, CreatedInv, struct

(* The file of main's current call is no created thread's. *)
LEMMA OpenFacts ==
  ASSUME Inv, NEW t \in Thread, pc[t] # "none",
         pc[main] \in {"open", "grow", "fill", "set"}
  PROVE  t # mythreadID
BY Facts DEF Inv, MainInv, CreatedInv, Created

(* While main cuts, grows and fills the stack of the next thread and joins *)
(* this one, and other threads store into their structs, a thread that has *)
(* not ended sees nothing but the protocol's three stores in its own.      *)
THEOREM StackIsKept == Spec => LiveStackIsKept
<1> DEFINE Kept == \A t \in Thread :
      pc[t] \notin {"none", "done"} /\ file'[tid[t]] # struct(t) =>
        file'[tid[t]] \in {[struct(t) EXCEPT !.retVal = routineVal[t]],
                          [struct(t) EXCEPT !.finished = 1],
                          [struct(t) EXCEPT !.joined = 1]}
<1>1. Inv /\ [Next]_vars => [Kept]_vars
  <2> SUFFICES ASSUME Inv, [Next]_vars, NEW t \in Thread,
                      pc[t] \notin {"none", "done"}, file'[t] # file[t]
               PROVE  file'[t] \in {[file[t] EXCEPT !.retVal = routineVal[t]],
                                    [file[t] EXCEPT !.finished = 1],
                                    [file[t] EXCEPT !.joined = 1]}
    BY LivingFacts
  <2>1. CASE \E k : \/ file' = [file EXCEPT ![k].retVal = routineVal[k]]
                    \/ file' = [file EXCEPT ![k].finished = 1]
                    \/ file' = [file EXCEPT ![k].joined = 1]
    BY <2>1 DEF Inv, TypeOK
  <2>2. CASE \E v : file' = [file EXCEPT ![mythreadID] = v] /\ t # mythreadID
    BY <2>2 DEF Inv, TypeOK
  <2>3. CASE Main
    <3>1. CASE StackOpen \/ StackGrow \/ StackFill \/ StructSet
      BY <3>1, <2>2, OpenFacts DEF StackOpen, StackGrow, StackFill, StructSet, Step
    <3>2. CASE JoinRelease
      BY <3>2, <2>1 DEF JoinRelease
    <3> QED
      BY <2>3, <3>1, <3>2
      DEF Main, CreateCall, Clone, JoinPoll, JoinTake, MainReturns
  <2>4. ASSUME NEW u \in Thread, MyThreadStart(u)
        PROVE  \/ file' = file
               \/ \E k : \/ file' = [file EXCEPT ![k].retVal = routineVal[k]]
                         \/ file' = [file EXCEPT ![k].finished = 1]
    <3>1. CASE StoreRetVal(u)
      <4>1. tid[u] = u
        BY <3>1, LivingFacts DEF StoreRetVal, Step
      <4> QED
        BY <3>1, <4>1 DEF StoreRetVal
    <3> QED
      BY <2>4, <3>1 DEF MyThreadStart, Routine, StoreFinished, WaitJoined
  <2> QED
    BY <2>1, <2>3, <2>4 DEF Next, vars, process, CreateFails, Kill, Restart
<1> QED
  BY <1>1, Invariance, PTL DEF Spec, LiveStackIsKept

-----------------------------------------------------------------------------

LEMMA InitRefines == Init => Join!Init
<1> SUFFICES ASSUME Init PROVE Join!Init
  OBVIOUS
<1>1. \A t \in Thread : pc[t] = "none"
  BY AtStart DEF Init
<1> QED
  BY <1>1 DEF Init, Join!Init, phase

(* What main and the threads do between two steps of ThreadJoin. *)
LEMMA PhaseKept ==
  ASSUME \A t \in Thread : phase'[t] = phase[t], UNCHANGED <<routineVal, retVal>>
  PROVE  UNCHANGED Join!vars
BY DEF phase, Join!vars

LEMMA NextRefines == Inv /\ [Next]_vars => [Join!Next]_(Join!vars)
<1> SUFFICES ASSUME Inv, [Next]_vars PROVE [Join!Next]_(Join!vars)
  OBVIOUS
<1> USE Facts
<1>1. CASE Clone
  <2>1. Join!Start(call)
    BY <1>1 DEF Join!Start, Join!Move, phase, Joined, Clone, Inv, TypeOK,
                CreatedInv, Created
  <2> QED
    BY <1>1, <2>1 DEF Join!Next, Clone
<1>2. CASE JoinTake
  <2>1. Join!Join(call)
    BY <1>2 DEF Join!Join, Join!Move, phase, Joined, JoinTake, Step, struct, Inv,
                TypeOK, CreatedInv, Created, JoinInv, Finished, StructInv
  <2> QED
    BY <1>2, <2>1 DEF Join!Next, JoinTake, Step
<1>3. ASSUME NEW u \in Thread, Routine(u) PROVE Join!Return(u)
  BY <1>3 DEF Join!Return, Join!Move, phase, Joined, Routine, Step, Inv, TypeOK,
              JoinInv, Finished
<1>4. CASE Restart
  BY <1>4, AtStart DEF Restart, Join!Restart, Join!Next, phase
<1>5. CASE CreateCall \/ StackOpen \/ StackGrow \/ StackFill \/ StructSet
  BY <1>5, PhaseKept
  DEF CreateCall, StackOpen, StackGrow, StackFill, StructSet, Step, phase, Joined,
      Inv, TypeOK
<1>6. CASE JoinPoll \/ JoinRelease \/ MainReturns
  BY <1>6, PhaseKept
  DEF JoinPoll, JoinRelease, MainReturns, Step, phase, Joined, Inv, TypeOK
<1>7. ASSUME NEW u \in Thread, StoreRetVal(u) \/ StoreFinished(u) \/ WaitJoined(u)
      PROVE  UNCHANGED Join!vars
  BY <1>7, PhaseKept
  DEF StoreRetVal, StoreFinished, WaitJoined, Step, phase, Joined, Inv, TypeOK
<1>8. CASE CreateFails \/ Kill \/ UNCHANGED vars
  BY <1>8, PhaseKept DEF CreateFails, Kill, vars, process, phase, Joined
<1> QED
  BY <1>1, <1>2, <1>3, <1>4, <1>5, <1>6, <1>7, <1>8
  DEF Next, Main, MyThreadStart, Join!Next

(* A join of threads on clone is a join: it returns after the routine of   *)
(* the thread it was called for, with what that routine has returned,      *)
(* whatever earlier processes have left in the stack files.                *)
THEOREM Refinement == Spec => ImplementsJoin
BY InitRefines, NextRefines, Invariance, PTL DEF Spec, Join!Spec, ImplementsJoin
=============================================================================
