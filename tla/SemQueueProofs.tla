--------------------------- MODULE SemQueueProofs ---------------------------
(***************************************************************************)
(* The safety of the semaphore queue for every capacity, every supply of   *)
(* memory blocks and every width of the integers.                          *)
(***************************************************************************)
EXTENDS SemQueue, QueueTProofs

(* Every thread is at a control point of its routine.                      *)
ControlInv ==
  /\ pc \in [Threads -> UNION {WriterPoints, ReaderPoints, MonitorPoints, MainPoints}]
  /\ pc["writer"]  \in WriterPoints
  /\ pc["reader"]  \in ReaderPoints
  /\ pc["monitor"] \in MonitorPoints
  /\ pc["main"]    \in MainPoints

(* A thread main has not come to yet does not run. *)
BirthInv ==
  /\ pc["main"] = "monitor" => pc["monitor"] = "unborn"
  /\ pc["main"] \in {"monitor", "reader"} => pc["reader"] = "unborn"
  /\ pc["main"] \in {"monitor", "reader", "writer"} => pc["writer"] = "unborn"

(* There is one token: in a semaphore, or with the thread that took it.    *)
TokenInv ==
  semEmpty + semFull + (IF HoldsToken("writer") THEN 1 ELSE 0)
                     + (IF HoldsToken("reader") THEN 1 ELSE 0) = 1

(* Where the token is tells how many elements there are. *)
PlaceInv ==
  maxCount > 0 =>
    /\ (\/ semFull = 1
        \/ pc["writer"] \in {"lock", "test", "link", "tally"}
        \/ pc["reader"] \in {"unlock", "post"}) => count = 0
    /\ (\/ semEmpty = 1
        \/ pc["writer"] \in {"unlock", "post"}
        \/ pc["reader"] \in {"lock", "test", "take", "tally"}) => count = 1

(* Without a place in the queue nothing is ever added, and with a negative *)
(* capacity the reader is not let in.                                      *)
NoPlaceInv ==
  /\ (\/ pc["writer"] \in {"link", "tally", "unlock", "post", "abort"}
      \/ pc["reader"] \in {"take", "tally", "unlock", "post", "check"}) => maxCount > 0
  /\ maxCount <= 0 => count = 0
  /\ maxCount < 0 => semEmpty = 0 /\ pc["reader"] \in {"unborn", "wait"}

RefusePoints == {"refuse", "refuse_post", "destroy"}

(* Who refuses, or has refused, has found a queue without a place; who has *)
(* destroyed the queue without having refused is about to abort.           *)
RefuseInv ==
  /\ (\/ pc["writer"] \in RefusePoints
      \/ pc["reader"] \in RefusePoints) => maxCount = 0
  /\ destroyed \/ status = "use_after_destroy" =>
       maxCount = 0 \/ pc["writer"] = "abort"

(* count lags behind the list only while an operation is under way. *)
CountInv ==
  count = Len(chain) - (IF pc["writer"] = "tally" THEN 1 ELSE 0)
                     + (IF pc["reader"] = "tally" THEN 1 ELSE 0)

(* A value on its way from queueGet to the check is the expected one. *)
ReaderInv ==
  pc["reader"] \in {"tally", "unlock", "post", "check"} => got = expected

(* The values in the list are the numbers accepted and not yet delivered.  *)
ValuesInv == ValuesBetween(delivered, accepted)

(* The strengthening of the properties below.                              *)
Inv == /\ TypeOK /\ BirthInv /\ TokenInv /\ PlaceInv /\ NoPlaceInv /\ RefuseInv
       /\ ListIntact /\ CountInv /\ ReaderInv /\ ValuesInv

-----------------------------------------------------------------------------

LEMMA Initially == Init => Inv
<1> SUFFICES ASSUME Init PROVE Inv
  OBVIOUS
<1> USE DEF Init, QueueInit, ProgramInit
<1>1. TypeOK
  <2>1. QueueTypeOK
    BY QueueTAssumption, EmptySeq DEF QueueTypeOK, ListTypeOK, CInt, CLong
  <2>2. ProgramTypeOK
    BY QueueTAssumption DEF ProgramTypeOK, CInt, NoSnap, Statuses
  <2>3. ControlInv
    BY DEF ControlInv, WriterPoints, ReaderPoints, MonitorPoints, MainPoints,
           Threads, Workers
  <2>4. /\ mutex \in Workers \cup {NoOne}
        /\ semEmpty \in 0 .. 1 /\ semFull \in 0 .. 1
    OBVIOUS
  <2>5. destroyed \in BOOLEAN
    OBVIOUS
  <2> QED
    BY <2>1, <2>2, <2>3, <2>4, <2>5 DEF TypeOK, ControlInv
<1>2. Len(chain) = 0
  BY EmptySeq
<1>3. ListIntact
  BY <1>2 DEF ListIntact
<1>4. ValuesInv
  BY <1>2 DEF ValuesInv, ValuesBetween, delivered, accepted, Threads, Workers
<1>5. /\ pc["writer"] = "unborn" /\ pc["reader"] = "unborn" /\ pc["monitor"] = "unborn"
      /\ pc["main"] = "monitor"
  BY DEF Threads, Workers
<1>6. BirthInv /\ TokenInv /\ CountInv /\ ReaderInv
  BY <1>2, <1>5 DEF BirthInv, TokenInv, HoldsToken, CountInv, ReaderInv
<1>7. PlaceInv /\ NoPlaceInv /\ RefuseInv
  BY <1>5 DEF PlaceInv, NoPlaceInv, RefuseInv, RefusePoints
<1> QED
  BY <1>1, <1>3, <1>4, <1>6, <1>7 DEF Inv

-----------------------------------------------------------------------------

LEMMA ControlFacts ==
  ASSUME TypeOK
  PROVE  /\ ControlInv
         /\ maxCount \in Int /\ count \in Int /\ Len(chain) \in Nat
         /\ semEmpty \in {0, 1} /\ semFull \in {0, 1}
BY QueueTAssumption, LenProperties DEF TypeOK, QueueTypeOK, ListTypeOK, ControlInv

LEMMA BirthKept ==
  ASSUME ControlInv, BirthInv, NEW t \in Workers, NEW from, NEW to,
         from # "unborn", Step(t, from, to)
  PROVE  BirthInv'
BY DEF ControlInv, BirthInv, Step, Threads, Workers

(* A step that leaves the list alone. *)
LEMMA ListKept ==
  ASSUME Inv, NEW t \in Workers, NEW from, NEW to, Step(t, from, to),
         from # "unborn", UNCHANGED <<listVars, accepted, delivered>>,
         TypeOK', TokenInv', PlaceInv', NoPlaceInv', RefuseInv', ReaderInv', CountInv'
  PROVE  Inv'
<1>1. BirthInv'
  BY BirthKept, ControlFacts DEF Inv
<1>2. ListIntact' /\ ValuesInv'
  BY ListFrame DEF Inv, ValuesInv
<1> QED
  BY <1>1, <1>2 DEF Inv

(* A step that leaves the list and its count alone. *)
LEMMA QuietStep ==
  ASSUME Inv, NEW t \in Workers, NEW from, NEW to, Step(t, from, to),
         from \notin {"unborn", "tally"}, to # "tally",
         UNCHANGED <<listVars, maxCount, count, accepted, delivered>>,
         TypeOK', TokenInv', PlaceInv', NoPlaceInv', RefuseInv', ReaderInv'
  PROVE  Inv'
<1>1. pc[t] = from /\ pc'[t] = to /\ \A u \in Threads \ {t} : pc'[u] = pc[u]
  BY ControlFacts DEF Inv, Step, ControlInv, Threads, Workers
<1>2. CountInv'
  BY <1>1 DEF Inv, CountInv, listVars, Threads, Workers
<1> QED
  BY <1>2, ListKept

(* The end of the process. *)
LEMMA HaltKeepsInv ==
  ASSUME Inv, status' \in Statuses, stats' \in [Counters -> CLong],
         status' = "use_after_destroy" => status = status' \/ destroyed,
         UNCHANGED <<listVars, pc, maxCount, count, locals, mutex, sems, destroyed>>
  PROVE  Inv'
<1>1. TypeOK'
  BY DEF Inv, TypeOK, QueueTypeOK, ListTypeOK, ProgramTypeOK, listVars, locals, sems
<1>2. BirthInv' /\ TokenInv' /\ PlaceInv' /\ NoPlaceInv' /\ RefuseInv'
  BY DEF Inv, BirthInv, TokenInv, HoldsToken, PlaceInv, NoPlaceInv, RefuseInv, sems
<1>3. /\ ListIntact' /\ CountInv' /\ ReaderInv'
      /\ accepted' = accepted /\ delivered' = delivered
  BY ListFrame DEF Inv, CountInv, ReaderInv, accepted, delivered, locals
<1>4. ValuesInv'
  BY <1>3, ListFrame DEF Inv, ValuesInv
<1> QED
  BY <1>1, <1>2, <1>3, <1>4 DEF Inv

(* The queue that queueDestroy frees is empty, also under a writer that    *)
(* has got no memory.                                                      *)
LEMMA NothingToFree ==
  ASSUME Inv, maxCount = 0 \/ pc["writer"] = "link"
  PROVE  heap = {}
<1>1. Len(chain) = 0
  <2>1. CASE maxCount = 0
    BY <2>1, ControlFacts DEF Inv, CountInv, NoPlaceInv
  <2>2. CASE pc["writer"] = "link"
    <3>1. count = 0
      BY <2>2 DEF Inv, NoPlaceInv, PlaceInv
    <3>2. pc["reader"] # "tally"
      BY <2>2, ControlFacts DEF Inv, TokenInv, HoldsToken
    <3> QED
      BY <2>2, <3>1, <3>2, ControlFacts DEF Inv, CountInv
  <2> QED
    BY <2>1, <2>2
<1> QED
  BY <1>1 DEF Inv, ListIntact

(* A reader that has the token never finds a count below zero.             *)
LEMMA NeverNegative ==
  ASSUME Inv, pc["reader"] = "test"
  PROVE  count >= 0
BY ControlFacts DEF Inv, PlaceInv, NoPlaceInv

(* Writer and reader are not both between their semaphores. *)
LEMMA OneAtATime ==
  ASSUME Inv
  PROVE  ~ (HoldsToken("writer") /\ HoldsToken("reader"))
BY ControlFacts DEF Inv, TokenInv

-----------------------------------------------------------------------------
(* One lemma per thread, one step per action. *)

LEMMA WriterKeepsInv == Inv /\ Writer => Inv'
<1> SUFFICES ASSUME Inv, Writer PROVE Inv'
  OBVIOUS
<1>0. ControlInv /\ BirthInv /\ Inv /\ TypeOK
  BY ControlFacts DEF Inv
<1>1. CASE AddWait
  <2>1. /\ Step("writer", "wait", "lock") /\ pc["writer"] = "wait"
        /\ pc' = [pc EXCEPT !["writer"] = "lock"]
        /\ UNCHANGED <<listVars, maxCount, count>>
    BY <1>1 DEF AddWait, Access, Step, queueVars, listVars
  <2>2. pc'["writer"] = "lock" /\ \A u \in Threads \ {"writer"} : pc'[u] = pc[u]
    BY <1>0, <2>1 DEF ControlInv, Threads, Workers
  <2>3. TypeOK'
    BY <1>0, <1>1, <2>1
    DEF AddWait, TypeOK, QueueTypeOK, ListTypeOK, ProgramTypeOK, WriterPoints,
        Threads, Workers, listVars, queueVars, locals, sems
  <2>4. TokenInv' /\ PlaceInv' /\ NoPlaceInv' /\ RefuseInv'
    BY <1>0, <1>1, <2>1, <2>2, ControlFacts
    DEF AddWait, Access, Inv, TokenInv, PlaceInv, NoPlaceInv, RefuseInv, RefusePoints, HoldsToken,
        Threads, Workers, sems
  <2>5. ReaderInv' /\ UNCHANGED <<accepted, delivered>>
    BY <1>0, <1>1, <2>1, <2>2
    DEF AddWait, Inv, ReaderInv, accepted, delivered, Threads, Workers, locals
  <2> QED
    BY <1>0, <2>1, <2>3, <2>4, <2>5, QuietStep DEF Workers
<1>2. CASE AddLock
  <2>1. /\ Step("writer", "lock", "test") /\ pc["writer"] = "lock"
        /\ pc' = [pc EXCEPT !["writer"] = "test"]
        /\ UNCHANGED <<listVars, maxCount, count>>
    BY <1>2 DEF AddLock, Lock, Access, Step, queueVars, listVars
  <2>2. pc'["writer"] = "test" /\ \A u \in Threads \ {"writer"} : pc'[u] = pc[u]
    BY <1>0, <2>1 DEF ControlInv, Threads, Workers
  <2>3. TypeOK'
    BY <1>0, <1>2, <2>1
    DEF AddLock, Lock, TypeOK, QueueTypeOK, ListTypeOK, ProgramTypeOK, WriterPoints,
        Threads, Workers, listVars, queueVars, locals, sems
  <2>4. TokenInv' /\ PlaceInv' /\ NoPlaceInv' /\ RefuseInv'
    BY <1>0, <1>2, <2>1, <2>2, ControlFacts
    DEF AddLock, Lock, Access, Inv, TokenInv, PlaceInv, NoPlaceInv, RefuseInv, RefusePoints, HoldsToken,
        Threads, Workers, sems
  <2>5. ReaderInv' /\ UNCHANGED <<accepted, delivered>>
    BY <1>0, <1>2, <2>1, <2>2
    DEF AddLock, Lock, Inv, ReaderInv, accepted, delivered, Threads, Workers, locals
  <2> QED
    BY <1>0, <2>1, <2>3, <2>4, <2>5, QuietStep DEF Workers
<1>3. CASE AddTest
  <2>1. /\ pc["writer"] = "test" /\ stats' = Bump("addAttempts")
        /\ UNCHANGED <<listVars, maxCount, count, locals, mutex, sems, destroyed>>
    BY <1>3 DEF AddTest, Access, Step, Die
  <2>2. stats' \in [Counters -> CLong]
    BY <1>0, <2>1, BumpType DEF Counters, TypeOK, QueueTypeOK
  <2>3. CASE Die("writer", "test", "assertion_failed")
    BY <2>1, <2>2, <2>3, HaltKeepsInv DEF Die, Statuses
  <2>4. ASSUME NEW to \in {"link", "refuse"}, Step("writer", "test", to), status' = status,
               to = "link" => count < maxCount,
               to = "refuse" => count = maxCount
        PROVE  Inv'
    <3>1. pc'["writer"] = to /\ \A u \in Threads \ {"writer"} : pc'[u] = pc[u]
      BY <1>0, <2>4 DEF Step, ControlInv, Threads, Workers
    <3>2. TypeOK'
      BY <1>0, <2>1, <2>2, <2>4
      DEF Step, TypeOK, QueueTypeOK, ListTypeOK, ProgramTypeOK, WriterPoints,
          Threads, Workers, listVars, locals, sems
    <3>3. TokenInv' /\ PlaceInv' /\ NoPlaceInv' /\ RefuseInv'
      BY <1>0, <2>1, <2>4, <3>1, ControlFacts
      DEF Inv, TokenInv, PlaceInv, NoPlaceInv, RefuseInv, RefusePoints, HoldsToken,
          Threads, Workers, sems
    <3>4. ReaderInv' /\ UNCHANGED <<accepted, delivered>>
      BY <1>0, <2>1, <3>1
      DEF Inv, ReaderInv, accepted, delivered, Threads, Workers, locals
    <3> QED
      BY <1>0, <2>1, <2>4, <3>2, <3>3, <3>4, QuietStep DEF Workers
  <2> QED
    BY <1>3, <2>3, <2>4 DEF AddTest, Access, Step
<1>4. CASE AddLink
  <2>1. /\ Step("writer", "link", "tally") /\ pc["writer"] = "link"
        /\ pc' = [pc EXCEPT !["writer"] = "tally"]
        /\ UNCHANGED <<maxCount, count, stats, locals, status, mutex, sems, destroyed>>
    BY <1>4 DEF AddLink, Access, Step
  <2>2. pc'["writer"] = "tally" /\ \A u \in Threads \ {"writer"} : pc'[u] = pc[u]
    BY <1>0, <2>1 DEF ControlInv, Threads, Workers
  <2>3. PICK n \in Node \ heap : Link(n, i)
    BY <1>4 DEF AddLink
  <2>4. /\ ListTypeOK' /\ ListIntact' /\ chain' # <<>>
        /\ Len(chain') = Len(chain) + 1
    BY <1>0, <2>3, LinkAppends DEF Inv, TypeOK, QueueTypeOK, ProgramTypeOK
  <2>5. TypeOK'
    BY <1>0, <2>1, <2>4
    DEF TypeOK, QueueTypeOK, ProgramTypeOK, WriterPoints, Threads, Workers, locals, sems
  <2>6. BirthInv'
    BY <1>0, <2>1, BirthKept DEF Workers
  <2>7. TokenInv' /\ PlaceInv' /\ NoPlaceInv' /\ RefuseInv'
    BY <1>0, <2>1, <2>2
    DEF Inv, TokenInv, PlaceInv, NoPlaceInv, RefuseInv, RefusePoints, HoldsToken,
        Threads, Workers, sems
  <2>8. CountInv'
    <3>1. pc["reader"] # "tally" /\ pc'["reader"] = pc["reader"]
      BY <2>1, <2>2, OneAtATime DEF HoldsToken, Threads, Workers
    <3> QED
      BY <1>0, <2>1, <2>2, <2>4, <3>1, ControlFacts DEF Inv, CountInv
  <2>9. ReaderInv' /\ ValuesInv'
    <3>1. accepted = i /\ accepted' = NextInt(i) /\ delivered' = delivered /\ ReaderInv'
      BY <1>0, <2>1, <2>2
      DEF Inv, accepted, delivered, ReaderInv, Threads, Workers, locals
    <3>2. delivered \in CInt /\ i \in CInt
      BY <1>0, NextIntType DEF delivered, TypeOK, ProgramTypeOK
    <3>3. ValuesBetween(delivered, i)
      BY <1>0, <3>1 DEF Inv, ValuesInv
    <3> QED
      BY <1>0, <2>3, <2>4, <3>1, <3>2, <3>3, LinkExtendsValues
      DEF Inv, ValuesInv, ValuesBetween, TypeOK, QueueTypeOK
  <2> QED
    BY <2>4, <2>5, <2>6, <2>7, <2>8, <2>9 DEF Inv
<1>5. CASE AddNoMemory
  <2>0. pc["writer"] = "link" /\ heap = {}
    BY <1>5, NothingToFree DEF AddNoMemory, Access, Step
  <2>1. /\ Step("writer", "link", "abort")
        /\ pc' = [pc EXCEPT !["writer"] = "abort"]
        /\ UNCHANGED <<listVars, maxCount, count>>
    BY <1>5, <2>0 DEF AddNoMemory, Access, Step, listVars
  <2>2. pc'["writer"] = "abort" /\ \A u \in Threads \ {"writer"} : pc'[u] = pc[u]
    BY <1>0, <2>1 DEF ControlInv, Threads, Workers
  <2>3. TypeOK'
    BY <1>0, <1>5, <2>1
    DEF AddNoMemory, TypeOK, QueueTypeOK, ListTypeOK, ProgramTypeOK, WriterPoints,
        Threads, Workers, listVars, locals, sems
  <2>4. TokenInv' /\ PlaceInv' /\ NoPlaceInv' /\ RefuseInv'
    BY <1>0, <1>5, <2>0, <2>1, <2>2, ControlFacts
    DEF AddNoMemory, Inv, TokenInv, PlaceInv, NoPlaceInv, RefuseInv, RefusePoints,
        HoldsToken, Threads, Workers, sems
  <2>5. ReaderInv' /\ UNCHANGED <<accepted, delivered>>
    BY <1>0, <1>5, <2>0, <2>1, <2>2
    DEF AddNoMemory, Inv, ReaderInv, accepted, delivered, Threads, Workers, locals
  <2> QED
    BY <1>0, <2>1, <2>3, <2>4, <2>5, QuietStep DEF Workers
<1>5a. CASE AddAbort
  <2>1. UNCHANGED stats /\ stats' \in [Counters -> CLong]
    BY <1>0, <1>5a DEF AddAbort, queueVars, TypeOK, QueueTypeOK
  <2> QED
    BY <1>5a, <2>1, HaltKeepsInv DEF AddAbort, Die, Statuses, queueVars, listVars
<1>6. CASE AddTally
  <2>1. /\ Step("writer", "tally", "unlock") /\ pc["writer"] = "tally"
        /\ pc' = [pc EXCEPT !["writer"] = "unlock"]
        /\ count' = count + 1 /\ UNCHANGED <<listVars, maxCount, locals, sems, destroyed, status>>
    BY <1>6 DEF AddTally, TallyAdd, Access, Step
  <2>2. pc'["writer"] = "unlock" /\ \A u \in Threads \ {"writer"} : pc'[u] = pc[u]
    BY <1>0, <2>1 DEF ControlInv, Threads, Workers
  <2>3. TypeOK'
    <3>1. stats' \in [Counters -> CLong]
      BY <1>0, <1>6, BumpType DEF AddTally, TallyAdd, Counters, TypeOK, QueueTypeOK
    <3>2. count' \in Int
      BY <1>0, <2>1, ControlFacts
    <3> QED
      BY <1>0, <1>6, <2>1, <3>1, <3>2
      DEF AddTally, TypeOK, QueueTypeOK, ListTypeOK, ProgramTypeOK, WriterPoints,
          Threads, Workers, listVars, locals, sems
  <2>4. TokenInv' /\ PlaceInv' /\ NoPlaceInv' /\ RefuseInv'
    BY <1>0, <2>1, <2>2, ControlFacts
    DEF Inv, TokenInv, PlaceInv, NoPlaceInv, RefuseInv, RefusePoints, HoldsToken,
        Threads, Workers, sems
  <2>5. ReaderInv' /\ UNCHANGED <<accepted, delivered>>
    BY <1>0, <2>1, <2>2
    DEF Inv, ReaderInv, accepted, delivered, Threads, Workers, locals
  <2>6. CountInv'
    <3>1. Len(chain') = Len(chain)
      BY <2>1, ListFrame
    <3>2. pc'["reader"] = pc["reader"]
      BY <2>2 DEF Threads, Workers
    <3>3. CountInv /\ count \in Int /\ Len(chain) \in Nat
      BY ControlFacts DEF Inv
    <3>4. pc["writer"] = "tally" /\ pc'["writer"] = "unlock" /\ count' = count + 1
      BY <2>1, <2>2
    <3> QED
      BY <3>1, <3>2, <3>3, <3>4 DEF CountInv
  <2> QED
    BY <1>0, <2>1, <2>3, <2>4, <2>5, <2>6, ListKept DEF Workers
<1>7. CASE AddUnlock
  <2>1. /\ Step("writer", "unlock", "post") /\ pc["writer"] = "unlock"
        /\ pc' = [pc EXCEPT !["writer"] = "post"]
        /\ UNCHANGED <<listVars, maxCount, count>>
    BY <1>7 DEF AddUnlock, Unlock, Access, Step, queueVars, listVars
  <2>2. pc'["writer"] = "post" /\ \A u \in Threads \ {"writer"} : pc'[u] = pc[u]
    BY <1>0, <2>1 DEF ControlInv, Threads, Workers
  <2>3. TypeOK'
    BY <1>0, <1>7, <2>1
    DEF AddUnlock, Unlock, TypeOK, QueueTypeOK, ListTypeOK, ProgramTypeOK, WriterPoints,
        Threads, Workers, listVars, queueVars, locals, sems
  <2>4. TokenInv' /\ PlaceInv' /\ NoPlaceInv' /\ RefuseInv'
    BY <1>0, <1>7, <2>1, <2>2, ControlFacts
    DEF AddUnlock, Unlock, Access, Inv, TokenInv, PlaceInv, NoPlaceInv, RefuseInv, RefusePoints, HoldsToken,
        Threads, Workers, sems
  <2>5. ReaderInv' /\ UNCHANGED <<accepted, delivered>>
    BY <1>0, <1>7, <2>1, <2>2
    DEF AddUnlock, Unlock, Inv, ReaderInv, accepted, delivered, Threads, Workers, locals
  <2> QED
    BY <1>0, <2>1, <2>3, <2>4, <2>5, QuietStep DEF Workers
<1>8. CASE AddPost
  <2>1. /\ Step("writer", "post", "wait") /\ pc["writer"] = "post"
        /\ pc' = [pc EXCEPT !["writer"] = "wait"]
        /\ UNCHANGED <<listVars, maxCount, count>>
    BY <1>8 DEF AddPost, WriterAdvances, Access, Step, queueVars, listVars
  <2>2. pc'["writer"] = "wait" /\ \A u \in Threads \ {"writer"} : pc'[u] = pc[u]
    BY <1>0, <2>1 DEF ControlInv, Threads, Workers
  <2>3. TypeOK'
    <3>1. semEmpty' \in 0 .. 1
      BY <1>0, <1>8, <2>1, ControlFacts DEF AddPost, Inv, TokenInv, HoldsToken
    <3>2. i' \in CInt
      BY <1>8, <1>0, NextIntType DEF AddPost, WriterAdvances, TypeOK, ProgramTypeOK
    <3> QED
      BY <1>0, <1>8, <2>1, <3>1, <3>2
      DEF AddPost, TypeOK, QueueTypeOK, ListTypeOK, ProgramTypeOK, WriterPoints,
          Threads, Workers, listVars, queueVars, locals, sems
  <2>4. TokenInv' /\ PlaceInv' /\ NoPlaceInv' /\ RefuseInv'
    BY <1>0, <1>8, <2>1, <2>2, ControlFacts
    DEF AddPost, WriterAdvances, Access, Inv, TokenInv, PlaceInv, NoPlaceInv, RefuseInv, RefusePoints, HoldsToken,
        Threads, Workers, sems
  <2>5. ReaderInv' /\ UNCHANGED <<accepted, delivered>>
    BY <1>0, <1>8, <2>1, <2>2
    DEF AddPost, WriterAdvances, Inv, ReaderInv, accepted, delivered, Threads, Workers, locals
  <2> QED
    BY <1>0, <2>1, <2>3, <2>4, <2>5, QuietStep DEF Workers
<1>9. CASE AddRefuse
  <2>1. /\ Step("writer", "refuse", "refuse_post") /\ pc["writer"] = "refuse"
        /\ pc' = [pc EXCEPT !["writer"] = "refuse_post"]
        /\ UNCHANGED <<listVars, maxCount, count>>
    BY <1>9 DEF AddRefuse, Unlock, Access, Step, queueVars, listVars
  <2>2. pc'["writer"] = "refuse_post" /\ \A u \in Threads \ {"writer"} : pc'[u] = pc[u]
    BY <1>0, <2>1 DEF ControlInv, Threads, Workers
  <2>3. TypeOK'
    BY <1>0, <1>9, <2>1
    DEF AddRefuse, Unlock, TypeOK, QueueTypeOK, ListTypeOK, ProgramTypeOK, WriterPoints,
        Threads, Workers, listVars, queueVars, locals, sems
  <2>4. TokenInv' /\ PlaceInv' /\ NoPlaceInv' /\ RefuseInv'
    BY <1>0, <1>9, <2>1, <2>2, ControlFacts
    DEF AddRefuse, Unlock, Access, Inv, TokenInv, PlaceInv, NoPlaceInv, RefuseInv, RefusePoints, HoldsToken,
        Threads, Workers, sems
  <2>5. ReaderInv' /\ UNCHANGED <<accepted, delivered>>
    BY <1>0, <1>9, <2>1, <2>2
    DEF AddRefuse, Unlock, Inv, ReaderInv, accepted, delivered, Threads, Workers, locals
  <2> QED
    BY <1>0, <2>1, <2>3, <2>4, <2>5, QuietStep DEF Workers
<1>10. CASE AddRefusePost
  <2>1. /\ Step("writer", "refuse_post", "destroy") /\ pc["writer"] = "refuse_post"
        /\ pc' = [pc EXCEPT !["writer"] = "destroy"]
        /\ UNCHANGED <<listVars, maxCount, count>>
    BY <1>10 DEF AddRefusePost, Access, Step, queueVars, listVars
  <2>2. pc'["writer"] = "destroy" /\ \A u \in Threads \ {"writer"} : pc'[u] = pc[u]
    BY <1>0, <2>1 DEF ControlInv, Threads, Workers
  <2>3. TypeOK'
    <3>1. semEmpty' \in 0 .. 1
      BY <1>0, <1>10, <2>1, ControlFacts DEF AddRefusePost, Inv, TokenInv, HoldsToken
    <3> QED
      BY <1>0, <1>10, <2>1, <3>1
      DEF AddRefusePost, TypeOK, QueueTypeOK, ListTypeOK, ProgramTypeOK, WriterPoints,
          Threads, Workers, listVars, queueVars, locals, sems
  <2>4. TokenInv' /\ PlaceInv' /\ NoPlaceInv' /\ RefuseInv'
    BY <1>0, <1>10, <2>1, <2>2, ControlFacts
    DEF AddRefusePost, Access, Inv, TokenInv, PlaceInv, NoPlaceInv, RefuseInv, RefusePoints, HoldsToken,
        Threads, Workers, sems
  <2>5. ReaderInv' /\ UNCHANGED <<accepted, delivered>>
    BY <1>0, <1>10, <2>1, <2>2
    DEF AddRefusePost, Inv, ReaderInv, accepted, delivered, Threads, Workers, locals
  <2> QED
    BY <1>0, <2>1, <2>3, <2>4, <2>5, QuietStep DEF Workers
<1>11. CASE Destroy("writer")
  <2>1. /\ Step("writer", "destroy", "wait") /\ pc["writer"] = "destroy"
        /\ pc' = [pc EXCEPT !["writer"] = "wait"]
        /\ UNCHANGED <<listVars, maxCount, count>>
    <3>1. pc["writer"] = "destroy"
      BY <1>11 DEF Destroy, Access, Step
    <3>2. maxCount = 0 /\ heap = {}
      BY <3>1, NothingToFree DEF Inv, RefuseInv, RefusePoints
    <3> QED
      BY <1>11, <3>2 DEF Destroy, Access, Step, listVars
  <2>2. pc'["writer"] = "wait" /\ \A u \in Threads \ {"writer"} : pc'[u] = pc[u]
    BY <1>0, <2>1 DEF ControlInv, Threads, Workers
  <2>3. TypeOK'
    BY <1>0, <1>11, <2>1
    DEF Destroy, TypeOK, QueueTypeOK, ListTypeOK, ProgramTypeOK, WriterPoints,
        Threads, Workers, listVars, queueVars, locals, sems
  <2>4. TokenInv' /\ PlaceInv' /\ NoPlaceInv' /\ RefuseInv'
    BY <1>0, <1>11, <2>1, <2>2, ControlFacts
    DEF Destroy, Access, Inv, TokenInv, PlaceInv, NoPlaceInv, RefuseInv, RefusePoints, HoldsToken,
        Threads, Workers, sems
  <2>5. ReaderInv' /\ UNCHANGED <<accepted, delivered>>
    BY <1>0, <1>11, <2>1, <2>2
    DEF Destroy, Inv, ReaderInv, accepted, delivered, Threads, Workers, locals
  <2> QED
    BY <1>0, <2>1, <2>3, <2>4, <2>5, QuietStep DEF Workers
<1> QED
  BY <1>1, <1>2, <1>3, <1>4, <1>5, <1>5a, <1>6, <1>7, <1>8, <1>9, <1>10, <1>11
  DEF Writer

LEMMA ReaderKeepsInv == Inv /\ Reader => Inv'
<1> SUFFICES ASSUME Inv, Reader PROVE Inv'
  OBVIOUS
<1>0. ControlInv /\ BirthInv /\ Inv /\ TypeOK
  BY ControlFacts DEF Inv
<1>1. CASE GetWait
  <2>1. /\ Step("reader", "wait", "lock") /\ pc["reader"] = "wait"
        /\ pc' = [pc EXCEPT !["reader"] = "lock"]
        /\ UNCHANGED <<listVars, maxCount, count>>
    BY <1>1 DEF GetWait, Access, Step, queueVars, listVars
  <2>2. pc'["reader"] = "lock" /\ \A u \in Threads \ {"reader"} : pc'[u] = pc[u]
    BY <1>0, <2>1 DEF ControlInv, Threads, Workers
  <2>3. TypeOK'
    BY <1>0, <1>1, <2>1
    DEF GetWait, TypeOK, QueueTypeOK, ListTypeOK, ProgramTypeOK, ReaderPoints,
        Threads, Workers, listVars, queueVars, locals, sems
  <2>4. TokenInv' /\ PlaceInv' /\ NoPlaceInv' /\ RefuseInv'
    BY <1>0, <1>1, <2>1, <2>2, ControlFacts
    DEF GetWait, Access, Inv, TokenInv, PlaceInv, NoPlaceInv, RefuseInv, RefusePoints, HoldsToken,
        Threads, Workers, sems
  <2>5. ReaderInv' /\ UNCHANGED <<accepted, delivered>>
    BY <1>0, <1>1, <2>1, <2>2
    DEF GetWait, Inv, ReaderInv, accepted, delivered, Threads, Workers, locals
  <2> QED
    BY <1>0, <2>1, <2>3, <2>4, <2>5, QuietStep DEF Workers
<1>2. CASE GetLock
  <2>1. /\ Step("reader", "lock", "test") /\ pc["reader"] = "lock"
        /\ pc' = [pc EXCEPT !["reader"] = "test"]
        /\ UNCHANGED <<listVars, maxCount, count>>
    BY <1>2 DEF GetLock, Lock, Access, Step, queueVars, listVars
  <2>2. pc'["reader"] = "test" /\ \A u \in Threads \ {"reader"} : pc'[u] = pc[u]
    BY <1>0, <2>1 DEF ControlInv, Threads, Workers
  <2>3. TypeOK'
    BY <1>0, <1>2, <2>1
    DEF GetLock, Lock, TypeOK, QueueTypeOK, ListTypeOK, ProgramTypeOK, ReaderPoints,
        Threads, Workers, listVars, queueVars, locals, sems
  <2>4. TokenInv' /\ PlaceInv' /\ NoPlaceInv' /\ RefuseInv'
    BY <1>0, <1>2, <2>1, <2>2, ControlFacts
    DEF GetLock, Lock, Access, Inv, TokenInv, PlaceInv, NoPlaceInv, RefuseInv, RefusePoints, HoldsToken,
        Threads, Workers, sems
  <2>5. ReaderInv' /\ UNCHANGED <<accepted, delivered>>
    BY <1>0, <1>2, <2>1, <2>2
    DEF GetLock, Lock, Inv, ReaderInv, accepted, delivered, Threads, Workers, locals
  <2> QED
    BY <1>0, <2>1, <2>3, <2>4, <2>5, QuietStep DEF Workers
<1>3. CASE GetTest
  <2>1. /\ pc["reader"] = "test" /\ stats' = Bump("getAttempts")
        /\ UNCHANGED <<listVars, maxCount, count, locals, mutex, sems, destroyed>>
    BY <1>3 DEF GetTest, Access, Step, Die
  <2>2. stats' \in [Counters -> CLong]
    BY <1>0, <2>1, BumpType DEF Counters, TypeOK, QueueTypeOK
  <2>4. ASSUME NEW to \in {"take", "refuse"}, Step("reader", "test", to), status' = status,
               to = "take" => count # 0,
               to = "refuse" => count = 0
        PROVE  Inv'
    <3>1. pc'["reader"] = to /\ \A u \in Threads \ {"reader"} : pc'[u] = pc[u]
      BY <1>0, <2>4 DEF Step, ControlInv, Threads, Workers
    <3>2. TypeOK'
      BY <1>0, <2>1, <2>2, <2>4
      DEF Step, TypeOK, QueueTypeOK, ListTypeOK, ProgramTypeOK, ReaderPoints,
          Threads, Workers, listVars, locals, sems
    <3>3. TokenInv' /\ PlaceInv' /\ NoPlaceInv' /\ RefuseInv'
      BY <1>0, <2>1, <2>4, <3>1, ControlFacts
      DEF Inv, TokenInv, PlaceInv, NoPlaceInv, RefuseInv, RefusePoints, HoldsToken,
          Threads, Workers, sems
    <3>4. ReaderInv' /\ UNCHANGED <<accepted, delivered>>
      BY <1>0, <2>1, <3>1
      DEF Inv, ReaderInv, accepted, delivered, Threads, Workers, locals
    <3> QED
      BY <1>0, <2>1, <2>4, <3>2, <3>3, <3>4, QuietStep DEF Workers
  <2> QED
    <3>1. count >= 0 /\ count \in Int
      BY <1>0, <2>1, NeverNegative, ControlFacts
    <3>2. /\ UNCHANGED status
          /\ \/ count > 0 /\ Step("reader", "test", "take")
             \/ count = 0 /\ Step("reader", "test", "refuse")
      BY <1>3, <3>1 DEF GetTest, Access
    <3> QED
      BY <2>4, <3>1, <3>2
<1>4. CASE GetTake
  <2>1. /\ Step("reader", "take", "tally") /\ pc["reader"] = "take"
        /\ pc' = [pc EXCEPT !["reader"] = "tally"] /\ Unlink /\ got' = val[first]
        /\ UNCHANGED <<maxCount, count, stats, i, expected, snap, status, mutex, sems,
                       destroyed>>
    BY <1>4 DEF GetTake, Access, Step
  <2>2. pc'["reader"] = "tally" /\ \A u \in Threads \ {"reader"} : pc'[u] = pc[u]
    BY <1>0, <2>1 DEF ControlInv, Threads, Workers
  <2>3. pc["writer"] # "tally" /\ pc'["writer"] = pc["writer"]
    BY <2>1, <2>2, OneAtATime DEF HoldsToken, Threads, Workers
  <2>4. count = 1 /\ Len(chain) = 1
    BY <1>0, <2>1, <2>3, ControlFacts DEF Inv, PlaceInv, NoPlaceInv, CountInv
  <2>5. chain # <<>>
    BY <2>4, EmptySeq
  <2>6. /\ ListTypeOK' /\ ListIntact' /\ first \in Node
        /\ Len(chain') = Len(chain) - 1
    BY <1>0, <2>1, <2>5, UnlinkRemoves DEF Inv, TypeOK, QueueTypeOK
  <2>7. TypeOK'
    BY <1>0, <2>1, <2>6
    DEF TypeOK, QueueTypeOK, ListTypeOK, ProgramTypeOK, ReaderPoints, Threads, Workers, sems
  <2>8. BirthInv'
    BY <1>0, <2>1, BirthKept DEF Workers
  <2>9. TokenInv' /\ PlaceInv' /\ NoPlaceInv' /\ RefuseInv'
    BY <1>0, <2>1, <2>2
    DEF Inv, TokenInv, PlaceInv, NoPlaceInv, RefuseInv, RefusePoints, HoldsToken,
        Threads, Workers, sems
  <2>10. CountInv'
    BY <2>1, <2>2, <2>3, <2>4, <2>6 DEF CountInv
  <2>11. ReaderInv' /\ ValuesInv'
    <3>1. delivered = expected /\ delivered' = NextInt(got') /\ accepted' = accepted
      BY <2>1, <2>2, <2>3 DEF accepted, delivered
    <3>2. ValuesBetween(expected, accepted)
      BY <1>0, <3>1 DEF Inv, ValuesInv
    <3>3. got' = expected
      BY <1>0, <2>1, <2>5, <3>2, UnlinkShortensValues DEF Inv, TypeOK, QueueTypeOK
    <3>4. ValuesInv'
      BY <1>0, <2>1, <2>5, <3>1, <3>2, <3>3, UnlinkShortensValues
      DEF Inv, ValuesInv, ValuesBetween, TypeOK, QueueTypeOK
    <3> QED
      BY <2>1, <3>3, <3>4 DEF ReaderInv
  <2> QED
    BY <2>6, <2>7, <2>8, <2>9, <2>10, <2>11 DEF Inv
<1>5. CASE GetTally
  <2>1. /\ Step("reader", "tally", "unlock") /\ pc["reader"] = "tally"
        /\ pc' = [pc EXCEPT !["reader"] = "unlock"]
        /\ count' = count - 1 /\ UNCHANGED <<listVars, maxCount, locals, sems, destroyed, status>>
    BY <1>5 DEF GetTally, TallyGet, Access, Step
  <2>2. pc'["reader"] = "unlock" /\ \A u \in Threads \ {"reader"} : pc'[u] = pc[u]
    BY <1>0, <2>1 DEF ControlInv, Threads, Workers
  <2>3. TypeOK'
    <3>1. stats' \in [Counters -> CLong]
      BY <1>0, <1>5, BumpType DEF GetTally, TallyGet, Counters, TypeOK, QueueTypeOK
    <3>2. count' \in Int
      BY <1>0, <2>1, ControlFacts
    <3> QED
      BY <1>0, <1>5, <2>1, <3>1, <3>2
      DEF GetTally, TypeOK, QueueTypeOK, ListTypeOK, ProgramTypeOK, ReaderPoints,
          Threads, Workers, listVars, locals, sems
  <2>4. TokenInv' /\ PlaceInv' /\ NoPlaceInv' /\ RefuseInv'
    BY <1>0, <2>1, <2>2, ControlFacts
    DEF Inv, TokenInv, PlaceInv, NoPlaceInv, RefuseInv, RefusePoints, HoldsToken,
        Threads, Workers, sems
  <2>5. ReaderInv' /\ UNCHANGED <<accepted, delivered>>
    BY <1>0, <2>1, <2>2
    DEF Inv, ReaderInv, accepted, delivered, Threads, Workers, locals
  <2>6. CountInv'
    <3>1. Len(chain') = Len(chain)
      BY <2>1, ListFrame
    <3>2. pc'["writer"] = pc["writer"]
      BY <2>2 DEF Threads, Workers
    <3>3. CountInv /\ count \in Int /\ Len(chain) \in Nat
      BY ControlFacts DEF Inv
    <3>4. pc["reader"] = "tally" /\ pc'["reader"] = "unlock" /\ count' = count - 1
      BY <2>1, <2>2
    <3> QED
      BY <3>1, <3>2, <3>3, <3>4 DEF CountInv
  <2> QED
    BY <1>0, <2>1, <2>3, <2>4, <2>5, <2>6, ListKept DEF Workers
<1>6. CASE GetUnlock
  <2>1. /\ Step("reader", "unlock", "post") /\ pc["reader"] = "unlock"
        /\ pc' = [pc EXCEPT !["reader"] = "post"]
        /\ UNCHANGED <<listVars, maxCount, count>>
    BY <1>6 DEF GetUnlock, Unlock, Access, Step, queueVars, listVars
  <2>2. pc'["reader"] = "post" /\ \A u \in Threads \ {"reader"} : pc'[u] = pc[u]
    BY <1>0, <2>1 DEF ControlInv, Threads, Workers
  <2>3. TypeOK'
    BY <1>0, <1>6, <2>1
    DEF GetUnlock, Unlock, TypeOK, QueueTypeOK, ListTypeOK, ProgramTypeOK, ReaderPoints,
        Threads, Workers, listVars, queueVars, locals, sems
  <2>4. TokenInv' /\ PlaceInv' /\ NoPlaceInv' /\ RefuseInv'
    BY <1>0, <1>6, <2>1, <2>2, ControlFacts
    DEF GetUnlock, Unlock, Access, Inv, TokenInv, PlaceInv, NoPlaceInv, RefuseInv, RefusePoints, HoldsToken,
        Threads, Workers, sems
  <2>5. ReaderInv' /\ UNCHANGED <<accepted, delivered>>
    BY <1>0, <1>6, <2>1, <2>2
    DEF GetUnlock, Unlock, Inv, ReaderInv, accepted, delivered, Threads, Workers, locals
  <2> QED
    BY <1>0, <2>1, <2>3, <2>4, <2>5, QuietStep DEF Workers
<1>7. CASE GetPost
  <2>1. /\ Step("reader", "post", "check") /\ pc["reader"] = "post"
        /\ pc' = [pc EXCEPT !["reader"] = "check"]
        /\ UNCHANGED <<listVars, maxCount, count>>
    BY <1>7 DEF GetPost, Access, Step, queueVars, listVars
  <2>2. pc'["reader"] = "check" /\ \A u \in Threads \ {"reader"} : pc'[u] = pc[u]
    BY <1>0, <2>1 DEF ControlInv, Threads, Workers
  <2>3. TypeOK'
    <3>1. semFull' \in 0 .. 1
      BY <1>0, <1>7, <2>1, ControlFacts DEF GetPost, Inv, TokenInv, HoldsToken
    <3> QED
      BY <1>0, <1>7, <2>1, <3>1
      DEF GetPost, TypeOK, QueueTypeOK, ListTypeOK, ProgramTypeOK, ReaderPoints,
          Threads, Workers, listVars, queueVars, locals, sems
  <2>4. TokenInv' /\ PlaceInv' /\ NoPlaceInv' /\ RefuseInv'
    BY <1>0, <1>7, <2>1, <2>2, ControlFacts
    DEF GetPost, Access, Inv, TokenInv, PlaceInv, NoPlaceInv, RefuseInv, RefusePoints, HoldsToken,
        Threads, Workers, sems
  <2>5. ReaderInv' /\ UNCHANGED <<accepted, delivered>>
    BY <1>0, <1>7, <2>1, <2>2
    DEF GetPost, Inv, ReaderInv, accepted, delivered, Threads, Workers, locals
  <2> QED
    BY <1>0, <2>1, <2>3, <2>4, <2>5, QuietStep DEF Workers
<1>8. CASE GetRefuse
  <2>1. /\ Step("reader", "refuse", "refuse_post") /\ pc["reader"] = "refuse"
        /\ pc' = [pc EXCEPT !["reader"] = "refuse_post"]
        /\ UNCHANGED <<listVars, maxCount, count>>
    BY <1>8 DEF GetRefuse, Unlock, Access, Step, queueVars, listVars
  <2>2. pc'["reader"] = "refuse_post" /\ \A u \in Threads \ {"reader"} : pc'[u] = pc[u]
    BY <1>0, <2>1 DEF ControlInv, Threads, Workers
  <2>3. TypeOK'
    BY <1>0, <1>8, <2>1
    DEF GetRefuse, Unlock, TypeOK, QueueTypeOK, ListTypeOK, ProgramTypeOK, ReaderPoints,
        Threads, Workers, listVars, queueVars, locals, sems
  <2>4. TokenInv' /\ PlaceInv' /\ NoPlaceInv' /\ RefuseInv'
    BY <1>0, <1>8, <2>1, <2>2, ControlFacts
    DEF GetRefuse, Unlock, Access, Inv, TokenInv, PlaceInv, NoPlaceInv, RefuseInv, RefusePoints, HoldsToken,
        Threads, Workers, sems
  <2>5. ReaderInv' /\ UNCHANGED <<accepted, delivered>>
    BY <1>0, <1>8, <2>1, <2>2
    DEF GetRefuse, Unlock, Inv, ReaderInv, accepted, delivered, Threads, Workers, locals
  <2> QED
    BY <1>0, <2>1, <2>3, <2>4, <2>5, QuietStep DEF Workers
<1>9. CASE GetRefusePost
  <2>1. /\ Step("reader", "refuse_post", "destroy") /\ pc["reader"] = "refuse_post"
        /\ pc' = [pc EXCEPT !["reader"] = "destroy"]
        /\ UNCHANGED <<listVars, maxCount, count>>
    BY <1>9 DEF GetRefusePost, Access, Step, queueVars, listVars
  <2>2. pc'["reader"] = "destroy" /\ \A u \in Threads \ {"reader"} : pc'[u] = pc[u]
    BY <1>0, <2>1 DEF ControlInv, Threads, Workers
  <2>3. TypeOK'
    <3>1. semFull' \in 0 .. 1
      BY <1>0, <1>9, <2>1, ControlFacts DEF GetRefusePost, Inv, TokenInv, HoldsToken
    <3> QED
      BY <1>0, <1>9, <2>1, <3>1
      DEF GetRefusePost, TypeOK, QueueTypeOK, ListTypeOK, ProgramTypeOK, ReaderPoints,
          Threads, Workers, listVars, queueVars, locals, sems
  <2>4. TokenInv' /\ PlaceInv' /\ NoPlaceInv' /\ RefuseInv'
    BY <1>0, <1>9, <2>1, <2>2, ControlFacts
    DEF GetRefusePost, Access, Inv, TokenInv, PlaceInv, NoPlaceInv, RefuseInv, RefusePoints, HoldsToken,
        Threads, Workers, sems
  <2>5. ReaderInv' /\ UNCHANGED <<accepted, delivered>>
    BY <1>0, <1>9, <2>1, <2>2
    DEF GetRefusePost, Inv, ReaderInv, accepted, delivered, Threads, Workers, locals
  <2> QED
    BY <1>0, <2>1, <2>3, <2>4, <2>5, QuietStep DEF Workers
<1>10. CASE Destroy("reader")
  <2>1. /\ Step("reader", "destroy", "wait") /\ pc["reader"] = "destroy"
        /\ pc' = [pc EXCEPT !["reader"] = "wait"]
        /\ UNCHANGED <<listVars, maxCount, count>>
    <3>1. pc["reader"] = "destroy"
      BY <1>10 DEF Destroy, Access, Step
    <3>2. maxCount = 0 /\ heap = {}
      BY <3>1, NothingToFree DEF Inv, RefuseInv, RefusePoints
    <3> QED
      BY <1>10, <3>2 DEF Destroy, Access, Step, listVars
  <2>2. pc'["reader"] = "wait" /\ \A u \in Threads \ {"reader"} : pc'[u] = pc[u]
    BY <1>0, <2>1 DEF ControlInv, Threads, Workers
  <2>3. TypeOK'
    BY <1>0, <1>10, <2>1
    DEF Destroy, TypeOK, QueueTypeOK, ListTypeOK, ProgramTypeOK, ReaderPoints,
        Threads, Workers, listVars, queueVars, locals, sems
  <2>4. TokenInv' /\ PlaceInv' /\ NoPlaceInv' /\ RefuseInv'
    BY <1>0, <1>10, <2>1, <2>2, ControlFacts
    DEF Destroy, Access, Inv, TokenInv, PlaceInv, NoPlaceInv, RefuseInv, RefusePoints, HoldsToken,
        Threads, Workers, sems
  <2>5. ReaderInv' /\ UNCHANGED <<accepted, delivered>>
    BY <1>0, <1>10, <2>1, <2>2
    DEF Destroy, Inv, ReaderInv, accepted, delivered, Threads, Workers, locals
  <2> QED
    BY <1>0, <2>1, <2>3, <2>4, <2>5, QuietStep DEF Workers
<1>11. CASE GetCheck
  <2>1. /\ Step("reader", "check", "wait") /\ pc["reader"] = "check"
        /\ pc' = [pc EXCEPT !["reader"] = "wait"]
        /\ UNCHANGED <<listVars, maxCount, count>>
    BY <1>11 DEF GetCheck, ReaderChecks, Access, Step, queueVars, listVars
  <2>2. pc'["reader"] = "wait" /\ \A u \in Threads \ {"reader"} : pc'[u] = pc[u]
    BY <1>0, <2>1 DEF ControlInv, Threads, Workers
  <2>3. TypeOK'
    <3>1. expected' \in CInt
      BY <1>11, <1>0, NextIntType DEF GetCheck, ReaderChecks, TypeOK, ProgramTypeOK
    <3> QED
      BY <1>0, <1>11, <2>1, <3>1
      DEF GetCheck, TypeOK, QueueTypeOK, ListTypeOK, ProgramTypeOK, ReaderPoints,
          Threads, Workers, listVars, queueVars, locals, sems
  <2>4. TokenInv' /\ PlaceInv' /\ NoPlaceInv' /\ RefuseInv'
    BY <1>0, <1>11, <2>1, <2>2, ControlFacts
    DEF GetCheck, ReaderChecks, Access, Inv, TokenInv, PlaceInv, NoPlaceInv, RefuseInv, RefusePoints, HoldsToken,
        Threads, Workers, sems
  <2>5. ReaderInv' /\ UNCHANGED <<accepted, delivered>>
    BY <1>0, <1>11, <2>1, <2>2
    DEF GetCheck, ReaderChecks, Inv, ReaderInv, accepted, delivered, Threads, Workers, locals
  <2> QED
    BY <1>0, <2>1, <2>3, <2>4, <2>5, QuietStep DEF Workers
<1> QED
  BY <1>1, <1>2, <1>3, <1>4, <1>5, <1>6, <1>7, <1>8, <1>9, <1>10, <1>11 DEF Reader

LEMMA MonitorKeepsInv == Inv /\ Monitor => Inv'
<1> SUFFICES ASSUME Inv, Monitor PROVE Inv'
  OBVIOUS
<1>0. ControlInv /\ TypeOK
  BY ControlFacts DEF Inv
<1>1. /\ UNCHANGED <<queueVars, i, expected, got, status, mutex, sems, destroyed>>
      /\ snap' \in [FieldNames -> Int]
  <2>1. CASE StatsCall
    BY <1>0, <2>1 DEF StatsCall, locals, TypeOK, ProgramTypeOK
  <2>2. CASE StatsRead
    <3>1. PICK k \in 1 .. 5 : ReadField(k)
      BY <2>2 DEF StatsRead
    <3>2. Fields[k] \in FieldNames
      BY DEF Fields, FieldNames, Counters
    <3>3. snap' \in [FieldNames -> Int]
      BY <1>0, <3>1, <3>2
      DEF ReadField, CLong, FieldNames, TypeOK, QueueTypeOK, ProgramTypeOK
    <3> QED
      BY <2>2, <3>3 DEF StatsRead
  <2>3. CASE StatsPrint
    BY <2>3 DEF StatsPrint, NoSnap
  <2> QED
    BY <2>1, <2>2, <2>3 DEF Monitor
<1>2. PICK from \in {"wait", "print"} \cup FieldNames, to \in {"wait", "print"} \cup FieldNames :
        Step("monitor", from, to)
  <2>1. \A k \in 1 .. 5 : Fields[k] \in FieldNames
    BY DEF Fields, FieldNames, Counters
  <2>2. CASE StatsCall
    <3>1. Step("monitor", "wait", Fields[1]) /\ Fields[1] \in FieldNames
      BY <2>1, <2>2 DEF StatsCall, Access
    <3> QED
      BY <3>1
  <2>3. CASE StatsRead
    <3>1. PICK k \in 1 .. 5 :
            Step("monitor", Fields[k], IF k = 5 THEN "print" ELSE Fields[k + 1])
      BY <2>3 DEF StatsRead, Access
    <3>2. CASE k = 5
      BY <2>1, <3>1, <3>2
    <3>3. CASE k # 5
      <4>1. /\ Step("monitor", Fields[k], Fields[k + 1])
            /\ Fields[k] \in FieldNames /\ Fields[k + 1] \in FieldNames
        BY <2>1, <3>1, <3>3
      <4> QED
        BY <4>1
    <3> QED
      BY <3>2, <3>3
  <2>4. CASE StatsPrint
    BY <2>4 DEF StatsPrint, Access
  <2> QED
    BY <2>2, <2>3, <2>4 DEF Monitor
<1>3. /\ pc' = [pc EXCEPT !["monitor"] = to]
      /\ \A u \in Threads \ {"monitor"} : pc'[u] = pc[u]
  BY <1>0, <1>2 DEF Step, ControlInv, Threads, Workers
<1>4. TypeOK'
  BY <1>0, <1>1, <1>2, <1>3
  DEF TypeOK, QueueTypeOK, ListTypeOK, ProgramTypeOK, MonitorPoints, Threads, Workers,
      queueVars, sems
<1>5. /\ UNCHANGED <<maxCount, count, listVars>>
      /\ pc'["writer"] = pc["writer"] /\ pc'["reader"] = pc["reader"]
  BY <1>1, <1>3 DEF queueVars, listVars, Threads, Workers
<1>6. TokenInv' /\ PlaceInv' /\ NoPlaceInv' /\ RefuseInv'
  BY <1>1, <1>5
  DEF Inv, TokenInv, PlaceInv, NoPlaceInv, RefuseInv, HoldsToken, sems
<1>7. ReaderInv' /\ UNCHANGED <<accepted, delivered>>
  BY <1>1, <1>5 DEF Inv, ReaderInv, accepted, delivered
<1>8. "unborn" \notin {"wait", "print"} \cup FieldNames
      /\ "tally" \notin {"wait", "print"} \cup FieldNames
  BY DEF FieldNames, Counters
<1>9. from \notin {"unborn", "tally"} /\ to # "tally"
  BY <1>8
<1> QED
  BY <1>2, <1>4, <1>5, <1>6, <1>7, <1>9, QuietStep DEF Workers

(* What main turns to once it has created t. *)
Successor(t) ==
  {nxt \in {"reader", "writer", "join"} :
     \/ t = "monitor" /\ nxt = "reader"
     \/ t = "reader" /\ nxt = "writer"
     \/ t = "writer" /\ nxt = "join"}

LEMMA MainKeepsInv == Inv /\ Main => Inv'
<1> SUFFICES ASSUME Inv, Main PROVE Inv'
  OBVIOUS
<1>0. ControlInv /\ BirthInv /\ TypeOK
  BY ControlFacts DEF Inv
<1>1. UNCHANGED <<listVars, maxCount, count, stats, locals, mutex, sems, destroyed>>
  BY DEF Main, queueVars, listVars
<1>2. PICK t \in Workers :
        CreateFails(t) \/ \E nxt \in Successor(t) : Create(t, nxt, "wait")
  BY DEF Main, MainStep, Successor, Workers
<1>3. CASE CreateFails(t)
  <2>1. stats' \in [Counters -> CLong]
    BY <1>0, <1>1 DEF TypeOK, QueueTypeOK
  <2> QED
    BY <1>1, <1>3, <2>1, HaltKeepsInv DEF CreateFails, Die, Statuses
<1>4. ASSUME NEW nxt \in Successor(t), Create(t, nxt, "wait")
      PROVE  Inv'
  <2>1. pc[t] = "unborn" /\ pc["main"] = t
    BY <1>0, <1>2, <1>4 DEF Create, BirthInv, Workers
  <2>2. /\ pc' = [pc EXCEPT !["main"] = nxt, ![t] = "wait"]
        /\ status' = status
    BY <1>4 DEF Create
  <2>3. TypeOK'
    BY <1>0, <1>1, <2>2
    DEF TypeOK, QueueTypeOK, ListTypeOK, ProgramTypeOK, listVars, locals, sems,
        WriterPoints, ReaderPoints, MonitorPoints, MainPoints, Successor, Threads,
        Workers
  <2>4. BirthInv'
    BY <1>0, <2>1, <2>2 DEF BirthInv, Successor, ControlInv, Threads, Workers
  <2>5. /\ \A u \in Workers \ {t} : pc'[u] = pc[u]
        /\ pc'[t] = "wait"
    BY <1>0, <2>1, <2>2 DEF ControlInv, Threads, Workers
  <2>6. \A u \in Workers : \/ pc'[u] = pc[u]
                           \/ pc[u] = "unborn" /\ pc'[u] = "wait"
    BY <1>2, <2>1, <2>5
  <2>7. TokenInv' /\ PlaceInv' /\ NoPlaceInv' /\ RefuseInv'
    BY <1>1, <2>2, <2>6
    DEF Inv, TokenInv, PlaceInv, NoPlaceInv, RefuseInv, RefusePoints, HoldsToken, sems,
        Workers
  <2>8. ReaderInv' /\ accepted' = accepted /\ delivered' = delivered
    BY <1>1, <2>6 DEF Inv, ReaderInv, accepted, delivered, locals, Workers
  <2>9. CountInv'
    BY <1>1, <2>6, ListFrame DEF Inv, CountInv, Workers
  <2>10. ListIntact' /\ ValuesInv'
    BY <1>1, <2>8, ListFrame DEF Inv, ValuesInv
  <2> QED
    BY <2>3, <2>4, <2>7, <2>8, <2>9, <2>10 DEF Inv
<1> QED
  BY <1>2, <1>3, <1>4

-----------------------------------------------------------------------------

LEMMA NextKeepsInv == Inv /\ [Next]_vars => Inv'
<1> SUFFICES ASSUME Inv, [Next]_vars PROVE Inv'
  OBVIOUS
<1>0. stats \in [Counters -> CLong] /\ status \in Statuses
  BY DEF Inv, TypeOK, QueueTypeOK, ProgramTypeOK
<1>1. CASE UNCHANGED vars
  <2>1. UNCHANGED <<listVars, pc, maxCount, count, stats, locals, status, mutex, sems,
                    destroyed>>
    BY <1>1 DEF vars, queueVars, listVars, programVars, locals, sems
  <2> QED
    BY <1>0, <2>1, HaltKeepsInv
<1>2. CASE UseAfterDestroy
  <2>1. /\ status' = "use_after_destroy" /\ destroyed
        /\ UNCHANGED <<listVars, pc, maxCount, count, stats, locals, mutex, sems,
                       destroyed>>
    BY <1>2 DEF UseAfterDestroy, Die, queueVars, listVars
  <2> QED
    BY <1>0, <2>1, HaltKeepsInv DEF Statuses
<1> QED
  BY <1>1, <1>2, WriterKeepsInv, ReaderKeepsInv, MonitorKeepsInv, MainKeepsInv DEF Next

(* The strengthening of the properties below is an invariant. *)
THEOREM Invariance == Spec => []Inv
BY Initially, NextKeepsInv, PTL DEF Spec

-----------------------------------------------------------------------------

(* Every variable keeps its type: the semaphores never leave 0 and 1, no   *)
(* counter leaves its width, every thread is where its routine is.         *)
THEOREM TypeCorrect == Spec => []TypeOK
<1>1. Inv => TypeOK
  BY DEF Inv
<1> QED
  BY <1>1, Invariance, PTL

(* The two semaphores of queue-sem-impl.c pass one token between writer    *)
(* and reader, for every capacity; the mutex beside them excludes nobody.  *)
THEOREM TokenIsUnique == Spec => []OneToken
<1>1. Inv => OneToken
  BY DEF Inv, TokenInv, PlaceInv, OneToken
<1> QED
  BY <1>1, Invariance, PTL

(* A queue with room is destroyed by no refusal and by no queueGet: what   *)
(* frees it is a queueAdd without memory, on its way to abort.  So with    *)
(* memory enough nobody touches a freed queue, for any capacity but 0.     *)
THEOREM DestructionHasCause == Spec => []DestroyedForCause
<1>1. Inv => DestroyedForCause
  BY DEF Inv, RefuseInv, DestroyedForCause
<1> QED
  BY <1>1, Invariance, PTL

-----------------------------------------------------------------------------
(* The semaphore queue implements the bounded queue: linking a node is a   *)
(* Put, unlinking one is a Take, and no other step is visible, not even    *)
(* the destruction of the queue.                                           *)

LEMMA InitRefines == Init => Fifo!Init
<1> SUFFICES ASSUME Init PROVE Fifo!Init
  OBVIOUS
<1>1. Len(chain) = 0
  BY EmptySeq DEF Init, QueueInit
<1>2. contents = <<>>
  BY <1>1 DEF contents
<1> QED
  BY <1>2 DEF Init, QueueInit, ProgramInit, Fifo!Init, accepted, delivered,
              Threads, Workers

LEMMA NextRefines == Inv /\ [Next]_vars => [Fifo!Next]_(Fifo!vars)
<1> SUFFICES ASSUME Inv, [Next]_vars PROVE [Fifo!Next]_(Fifo!vars)
  OBVIOUS
<1>0. ControlInv /\ TypeOK
  BY ControlFacts DEF Inv
<1>1. ASSUME UNCHANGED listVars, UNCHANGED <<maxCount, accepted, delivered>>
      PROVE  UNCHANGED Fifo!vars
  BY <1>1, ContentsFrame DEF Fifo!vars
<1>2. CASE AddLink
  <2>1. PICK n \in Node \ heap : Link(n, i)
    BY <1>2 DEF AddLink
  <2>2. ListTypeOK /\ ListIntact /\ i \in CInt
    BY DEF Inv, TypeOK, QueueTypeOK, ProgramTypeOK
  <2>3. contents' = Append(contents, i)
    BY <2>1, <2>2, LinkContents
  <2>4. Len(contents) < maxCount
    <3>1. pc["writer"] = "link"
      BY <1>2 DEF AddLink, Access, Step
    <3>2. pc["reader"] # "tally"
      BY <3>1, OneAtATime DEF HoldsToken
    <3>3. count = 0 /\ maxCount > 0
      BY <3>1 DEF Inv, PlaceInv, NoPlaceInv
    <3>4. Len(chain) = 0
      BY <1>0, <3>1, <3>2, <3>3, ControlFacts DEF Inv, CountInv
    <3>5. Len(contents) = Len(chain)
      BY <2>2, ContentsType DEF contents, ListTypeOK
    <3> QED
      BY <3>3, <3>4, <3>5
  <2>5. /\ accepted = i /\ accepted' = NextInt(i)
        /\ delivered' = delivered /\ maxCount' = maxCount
    BY <1>0, <1>2 DEF AddLink, Access, Step, locals, accepted, delivered, ControlInv,
                      Threads, Workers
  <2> QED
    BY <2>3, <2>4, <2>5 DEF Fifo!Next, Fifo!Put, Fifo!After, NextInt
<1>3. CASE GetTake
  <2>1. chain # <<>> /\ ListTypeOK /\ ListIntact
    <3>1. pc["reader"] = "take"
      BY <1>3 DEF GetTake, Access, Step
    <3>2. pc["writer"] # "tally"
      BY <3>1, OneAtATime DEF HoldsToken
    <3>3. count = 1
      BY <3>1 DEF Inv, PlaceInv, NoPlaceInv
    <3>4. Len(chain) = 1
      BY <1>0, <3>1, <3>2, <3>3, ControlFacts DEF Inv, CountInv
    <3>5. chain # <<>>
      BY <3>4, EmptySeq
    <3> QED
      BY <3>5 DEF Inv, TypeOK, QueueTypeOK
  <2>2. /\ contents # <<>>
        /\ Head(contents) = got'
        /\ contents' = Tail(contents)
    BY <1>3, <2>1, UnlinkContents DEF GetTake
  <2>3. /\ accepted' = accepted /\ maxCount' = maxCount
        /\ delivered' = NextInt(got')
    BY <1>0, <1>3 DEF GetTake, Access, Step, accepted, delivered, ControlInv, Threads,
                      Workers
  <2> QED
    BY <2>2, <2>3 DEF Fifo!Next, Fifo!Take, Fifo!After, NextInt
<1>4. CASE Destroy("writer") \/ Destroy("reader")
  <2>1. PICK t \in {"writer", "reader"} : Destroy(t)
    BY <1>4
  <2>2. pc[t] = "destroy" /\ pc' = [pc EXCEPT ![t] = "wait"]
    BY <2>1 DEF Destroy, Access, Step
  <2>3. maxCount = 0 /\ heap = {}
    BY <2>2, NothingToFree DEF Inv, RefuseInv, RefusePoints
  <2>4. UNCHANGED listVars /\ UNCHANGED <<maxCount, i, expected, got>>
    BY <2>1, <2>3 DEF Destroy, listVars, locals
  <2>5. UNCHANGED <<accepted, delivered>>
    BY <1>0, <2>2, <2>4 DEF accepted, delivered, ControlInv, Threads, Workers
  <2> QED
    BY <1>1, <2>4, <2>5
<1>5. CASE Writer /\ ~ AddLink /\ ~ Destroy("writer")
  <2>1. UNCHANGED listVars /\ UNCHANGED <<maxCount, expected, got>>
    <3>1. AddNoMemory => heap = {}
      BY NothingToFree DEF AddNoMemory, Access, Step
    <3> QED
      BY <1>5, <3>1
      DEF Writer, AddWait, AddLock, Lock, AddTest, AddNoMemory, AddAbort, AddTally, AddUnlock,
                Unlock, AddPost, AddRefuse, AddRefusePost, queueVars, listVars, locals
  <2>2. \/ /\ pc["writer"] \in {"tally", "unlock"} /\ i' = i
           /\ \E to \in {"unlock", "post"} : pc' = [pc EXCEPT !["writer"] = to]
        \/ /\ pc["writer"] = "post" /\ i' = NextInt(i)
           /\ pc' = [pc EXCEPT !["writer"] = "wait"]
        \/ /\ pc["writer"] \in {"wait", "lock", "test", "refuse", "refuse_post"} /\ i' = i
           /\ \E to \in {"lock", "test", "link", "refuse", "refuse_post", "destroy"} :
                pc' = [pc EXCEPT !["writer"] = to]
        \/ /\ pc["writer"] = "link" /\ i' = i
           /\ pc' = [pc EXCEPT !["writer"] = "abort"]
        \/ pc' = pc /\ i' = i
    <3>1. CASE AddWait
      BY <3>1 DEF AddWait, Access, Step, locals
    <3>2. CASE AddLock
      BY <3>2 DEF AddLock, Lock, Access, Step, locals
    <3>3. CASE AddTest
      BY <3>3 DEF AddTest, Access, Step, Die, locals
    <3>4. CASE AddNoMemory
      BY <3>4 DEF AddNoMemory, Access, Step, locals
    <3>4a. CASE AddAbort
      BY <3>4a DEF AddAbort, Die, locals
    <3>5. CASE AddTally
      BY <3>5 DEF AddTally, Access, Step, locals
    <3>6. CASE AddUnlock
      BY <3>6 DEF AddUnlock, Unlock, Access, Step, locals
    <3>7. CASE AddPost
      BY <3>7 DEF AddPost, Access, Step, WriterAdvances
    <3>8. CASE AddRefuse
      BY <3>8 DEF AddRefuse, Unlock, Access, Step, locals
    <3>9. CASE AddRefusePost
      BY <3>9 DEF AddRefusePost, Access, Step, locals
    <3> QED
      BY <1>5, <3>1, <3>2, <3>3, <3>4, <3>4a, <3>5, <3>6, <3>7, <3>8, <3>9 DEF Writer
  <2>3. UNCHANGED <<accepted, delivered>>
    BY <1>0, <2>1, <2>2 DEF accepted, delivered, ControlInv, Threads, Workers
  <2> QED
    BY <1>1, <2>1, <2>3
<1>6. CASE Reader /\ ~ GetTake /\ ~ Destroy("reader")
  <2>1. UNCHANGED listVars /\ UNCHANGED <<maxCount, i, got>>
    BY <1>6 DEF Reader, GetWait, GetLock, Lock, GetTest, GetTally, GetUnlock, Unlock,
                GetPost, GetRefuse, GetRefusePost, GetCheck, queueVars, listVars, locals
  <2>2. \/ /\ pc["reader"] \in {"tally", "unlock", "post"} /\ expected' = expected
           /\ \E to \in {"unlock", "post", "check"} : pc' = [pc EXCEPT !["reader"] = to]
        \/ /\ pc["reader"] = "check" /\ expected' = NextInt(got)
           /\ pc' = [pc EXCEPT !["reader"] = "wait"]
        \/ /\ pc["reader"] \in {"wait", "lock", "test", "refuse", "refuse_post"}
           /\ expected' = expected
           /\ \E to \in {"lock", "test", "take", "refuse", "refuse_post", "destroy"} :
                pc' = [pc EXCEPT !["reader"] = to]
    <3>1. CASE GetWait
      BY <3>1 DEF GetWait, Access, Step, locals
    <3>2. CASE GetLock
      BY <3>2 DEF GetLock, Lock, Access, Step, locals
    <3>3. CASE GetTest
      <4>1. pc["reader"] = "test"
        BY <3>3 DEF GetTest, Access, Step, Die
      <4>2. count >= 0
        BY <4>1, NeverNegative
      <4> QED
        BY <3>3, <4>1, <4>2, <1>0, ControlFacts DEF GetTest, Access, Step, locals
    <3>4. CASE GetTally
      BY <3>4 DEF GetTally, Access, Step, locals
    <3>5. CASE GetUnlock
      BY <3>5 DEF GetUnlock, Unlock, Access, Step, locals
    <3>6. CASE GetPost
      BY <3>6 DEF GetPost, Access, Step, locals
    <3>7. CASE GetRefuse
      BY <3>7 DEF GetRefuse, Unlock, Access, Step, locals
    <3>8. CASE GetRefusePost
      BY <3>8 DEF GetRefusePost, Access, Step, locals
    <3>9. CASE GetCheck
      BY <3>9 DEF GetCheck, Step, ReaderChecks
    <3> QED
      BY <1>6, <3>1, <3>2, <3>3, <3>4, <3>5, <3>6, <3>7, <3>8, <3>9 DEF Reader
  <2>3. UNCHANGED <<accepted, delivered>>
    BY <1>0, <2>1, <2>2 DEF accepted, delivered, ControlInv, Threads, Workers
  <2> QED
    BY <1>1, <2>1, <2>3
<1>7. CASE Monitor
  <2>1. UNCHANGED listVars /\ UNCHANGED <<maxCount, i, expected, got>>
    BY <1>7 DEF Monitor, StatsCall, StatsRead, StatsPrint, queueVars, listVars, locals
  <2>2. \E to : pc' = [pc EXCEPT !["monitor"] = to]
    BY <1>7 DEF Monitor, StatsCall, StatsRead, StatsPrint, Access, Step
  <2>3. UNCHANGED <<accepted, delivered>>
    BY <1>0, <2>1, <2>2 DEF accepted, delivered, ControlInv, Threads, Workers
  <2> QED
    BY <1>1, <2>1, <2>3
<1>8. CASE Main
  <2>1. UNCHANGED listVars /\ UNCHANGED <<maxCount, i, expected, got>>
    BY <1>8 DEF Main, queueVars, locals, listVars
  <2>2. PICK t \in Workers :
          CreateFails(t) \/ \E nxt \in Successor(t) : Create(t, nxt, "wait")
    BY <1>8 DEF Main, MainStep, Successor, Workers
  <2>3. UNCHANGED <<accepted, delivered>>
    BY <1>0, <2>1, <2>2
    DEF CreateFails, Die, Create, BirthInv, accepted, delivered, Inv, ControlInv,
        Threads, Workers
  <2> QED
    BY <1>1, <2>1, <2>3
<1>9. CASE UseAfterDestroy \/ UNCHANGED vars
  <2>1. /\ UNCHANGED listVars
        /\ UNCHANGED <<maxCount, accepted, delivered>>
    BY <1>9 DEF UseAfterDestroy, Die, vars, queueVars, programVars, locals, listVars,
                accepted, delivered
  <2> QED
    BY <1>1, <2>1
<1> QED
  BY <1>2, <1>3, <1>4, <1>5, <1>6, <1>7, <1>8, <1>9 DEF Next, Writer, Reader

(* The queue of the semaphore variant is the bounded queue: what queueAdd  *)
(* accepts comes out of queueGet, in order, and never more than maxCount   *)
(* of it is inside.                                                        *)
THEOREM Refinement == Spec => ImplementsFifo
BY InitRefines, NextRefines, Invariance, PTL DEF Spec, Fifo!Spec, ImplementsFifo
-----------------------------------------------------------------------------

(* If an assertion fails, it is that of queueAdd, for a capacity below 0.  *)
AssertOnlyForNegativeCapacity ==
  status = "assertion_failed" => maxCount < 0 /\ pc["writer"] = "test"

(* queueGet's assertion (queue-sem-impl.c:219) never fails, and queueAdd's *)
(* only for a capacity below 0.                                            *)
THEOREM AssertionsHold == Spec => []AssertOnlyForNegativeCapacity
<1>1. Init => AssertOnlyForNegativeCapacity
  BY DEF Init, ProgramInit, AssertOnlyForNegativeCapacity
<1>2. Inv /\ AssertOnlyForNegativeCapacity /\ [Next]_vars
        => AssertOnlyForNegativeCapacity'
  <2> SUFFICES ASSUME Inv, [Next]_vars, AssertOnlyForNegativeCapacity,
                      status' = "assertion_failed"
               PROVE  maxCount' < 0 /\ pc'["writer"] = "test"
    BY DEF AssertOnlyForNegativeCapacity
  <2>1. CASE AddTest
    <3>1. /\ pc["writer"] = "test" /\ count > maxCount
          /\ UNCHANGED <<pc, maxCount>>
      BY <2>1 DEF AddTest, Access, Step, Die
    <3> QED
      BY <3>1, ControlFacts DEF Inv, PlaceInv, NoPlaceInv
  <2>2. CASE UNCHANGED vars
    BY <2>2 DEF vars, queueVars, programVars, AssertOnlyForNegativeCapacity
  <2>3. CASE Writer /\ ~ AddTest
    BY <2>3 DEF Writer, AddWait, AddLock, Lock, Unlock, AddLink, AddNoMemory, AddAbort,
                AddTally, AddUnlock, AddPost, AddRefuse, AddRefusePost, Destroy,
                Access, Step, Die
  <2>4. CASE Reader
    <3>1. GetTest => count >= 0 /\ pc["reader"] = "test"
      BY NeverNegative DEF GetTest, Access, Step, Die
    <3> QED
      BY <2>4, <3>1, ControlFacts
      DEF Reader, GetWait, GetLock, Lock, Unlock, GetTest, GetTake, GetTally, GetUnlock,
          GetPost, GetRefuse, GetRefusePost, Destroy, GetCheck, Access, Step, Inv
  <2>5. CASE Monitor \/ Main \/ UseAfterDestroy
    BY <2>5 DEF Monitor, StatsCall, StatsRead, StatsPrint, Main, MainStep, Create,
                CreateFails, UseAfterDestroy, Access, Step, Die
  <2> QED
    BY <2>1, <2>2, <2>3, <2>4, <2>5 DEF Next
<1> QED
  BY <1>1, <1>2, Invariance, PTL DEF Spec
=============================================================================
