--------------------------- MODULE WorkerPoolProofs ---------------------------
(* Theorems about WorkerPool, for any number of tasks, calls and sizes.      *)
EXTENDS WorkerPool, FiniteSetTheorems, SequenceTheorems, TLAPS

(* An int within range survives the conversion to int32, so that New and     *)
(* Resize store a limit of at least one.                                     *)
LEMMA LimitPositive ==
  ASSUME NEW n \in Sizes
  PROVE  Limit(n) \in Int /\ Limit(n) >= 1
<1> DEFINE m == IF n <= 0 THEN 1 ELSE n
<1>1. n \in Int /\ n < Half /\ Half \in Nat /\ Half > 1
  BY SizesAssumption
<1>2. m \in Int /\ 1 <= m /\ m < Half
  BY <1>1
<1>3. \A a, b \in Nat : a < b => a % b = a
  OBVIOUS
<1>4. (m + Half) % (2 * Half) = m + Half
  BY <1>1, <1>2, <1>3
<1> QED
  BY <1>1, <1>2, <1>4 DEF Limit, Int32

-------------------------------------------------------------------------------
(* The queue holds tasks that are queued, each of them once.                 *)
QueueInv ==
  /\ \A i \in DOMAIN taskQueue : task[taskQueue[i]] = "queued"
  /\ \A i, j \in DOMAIN taskQueue : taskQueue[i] = taskQueue[j] => i = j

(* TypeOK needs QueueInv: Receive and StopDrain move the head of the queue.  *)
TypeInv == TypeOK /\ QueueInv

(* There are finitely many workers.                                         *)
LEMMA WorkersFinite == IsFiniteSet(Workers)
  BY TasksAssumption, FS_Subset DEF Workers

(* What taking the head off the queue leaves.                                *)
LEMMA QueueTail ==
  ASSUME TypeInv, taskQueue # <<>>
  PROVE  /\ Head(taskQueue) \in Tasks /\ task[Head(taskQueue)] = "queued"
         /\ Tail(taskQueue) \in Seq(Tasks)
         /\ Len(Tail(taskQueue)) = Len(taskQueue) - 1
         /\ \A i \in DOMAIN Tail(taskQueue) :
              /\ Tail(taskQueue)[i] \in Tasks \ {Head(taskQueue)}
              /\ task[Tail(taskQueue)[i]] = "queued"
         /\ \A i, j \in DOMAIN Tail(taskQueue) :
              Tail(taskQueue)[i] = Tail(taskQueue)[j] => i = j
<1> DEFINE q == taskQueue
<1>1. q \in Seq(Tasks) /\ q # <<>>
  BY DEF TypeInv, TypeOK
<1>2. /\ Tail(q) \in Seq(Tasks) /\ Len(Tail(q)) = Len(q) - 1
      /\ \A i \in 1 .. Len(Tail(q)) : Tail(q)[i] = q[i + 1]
  BY <1>1, HeadTailProperties
<1>3. Len(q) \in Nat \ {0} /\ DOMAIN q = 1 .. Len(q)
      /\ DOMAIN Tail(q) = 1 .. (Len(q) - 1)
  BY <1>1, <1>2, EmptySeq, LenProperties
<1>4. Head(q) = q[1] /\ 1 \in DOMAIN q /\ \A i \in DOMAIN q : q[i] \in Tasks
  BY <1>1, <1>3, ElementOfSeq
<1>5. \A i \in DOMAIN Tail(q) : Tail(q)[i] = q[i + 1] /\ i + 1 \in DOMAIN q /\ i + 1 # 1
  BY <1>2, <1>3
<1> QED
  BY <1>2, <1>4, <1>5 DEF TypeInv, QueueInv

(* The initial states are well typed.                                       *)
LEMMA TypeInit == Init => TypeInv
<1> SUFFICES ASSUME Init PROVE TypeInv
  OBVIOUS
<1>1. PICK n \in Sizes : maxWorkers = Limit(n)
  BY DEF Init
<1>2. maxWorkers \in Int
  BY <1>1, LimitPositive
<1>3. Workers = {} /\ Cardinality({}) = 0
  BY FS_EmptySet DEF Init, Workers
<1>4. <<>> \in Seq(Tasks) /\ Len(<<>>) = 0 /\ DOMAIN <<>> = {}
  OBVIOUS
<1>5. QueueInv
  BY <1>4 DEF Init, QueueInv
<1>6. taskQueue \in Seq(Tasks) /\ Len(taskQueue) <= QueueCap
  BY <1>4, QueueCapAssumption DEF Init
<1>7. activeCount = Cardinality(Workers) /\ peak \in Int /\ awaited \subseteq Tasks
  BY <1>2, <1>3 DEF Init
<1>8. TypeOK
  BY <1>2, <1>6, <1>7 DEF Init, TypeOK
<1> QED
  BY <1>5, <1>8 DEF TypeInv

(* Every step keeps the types.                                              *)
LEMMA TypeNext == TypeInv /\ [Next]_vars => TypeInv'
<1> SUFFICES ASSUME TypeInv, [Next]_vars PROVE TypeInv'
  OBVIOUS
<1> USE DEF TypeInv, TypeOK, QueueInv, poolVars, histVars
<1>1. ASSUME NEW t \in Tasks, SubmitBegin(t) PROVE TypeInv'
  <2>1. Workers' = Workers
    BY <1>1 DEF SubmitBegin, Workers
  <2> QED
    BY <1>1, <2>1 DEF SubmitBegin
<1>2. ASSUME NEW t \in Tasks, SubmitSend(t) PROVE TypeInv'
  <2>1. Workers' = Workers
    BY <1>2 DEF SubmitSend, Workers
  <2>2. /\ taskQueue' \in Seq(Tasks)
        /\ Len(taskQueue') = Len(taskQueue) + 1
    BY <1>2, AppendProperties DEF SubmitSend
  <2>3. Len(taskQueue') <= QueueCap
    BY <1>2, <2>2, QueueCapAssumption DEF SubmitSend
  <2>4. TypeOK'
    BY <1>2, <2>1, <2>2, <2>3 DEF SubmitSend
  <2>5. \A i \in DOMAIN taskQueue : taskQueue[i] # t
    BY <1>2 DEF SubmitSend
  <2>6. QueueInv'
    BY <1>2, <2>5, ElementOfSeq, LenProperties, AppendProperties DEF SubmitSend
  <2> QED
    BY <2>4, <2>6
<1>3. ASSUME NEW t \in Tasks, SubmitCancelled(t) PROVE TypeInv'
  <2>1. Workers' = Workers
    BY <1>3 DEF SubmitCancelled, Workers
  <2> QED
    BY <1>3, <2>1 DEF SubmitCancelled
<1>4. CASE SelectDone
  BY <1>4 DEF SelectDone, Workers
<1>5. CASE Receive
  <2>1. Workers' = Workers
    BY <1>5, QueueTail DEF Receive, Workers
  <2>2. TypeOK'
    <3>1. /\ Head(taskQueue) \in Tasks
          /\ Tail(taskQueue) \in Seq(Tasks)
          /\ Len(Tail(taskQueue)) <= QueueCap
      BY <1>5, QueueTail, QueueCapAssumption, LenProperties DEF Receive
    <3>2. task' = [task EXCEPT ![Head(taskQueue)] = "held"]
      BY <1>5 DEF Receive
    <3>3. held' \in Tasks /\ task'[held'] = "held"
      BY <1>5, <3>1, <3>2 DEF Receive
    <3> QED
      BY <1>5, <2>1, <3>1, <3>3 DEF Receive
  <2>3. \A i \in DOMAIN taskQueue' : task'[taskQueue'[i]] = "queued"
    BY <1>5, QueueTail DEF Receive
  <2>4. \A i, j \in DOMAIN taskQueue' : taskQueue'[i] = taskQueue'[j] => i = j
    BY <1>5, QueueTail DEF Receive
  <2> QED
    BY <2>2, <2>3, <2>4
<1>6. ASSUME NEW at, NEW next, UnlessStopped(at, next),
             at \notin {"select", "exited"},
             next \in {"lock", "retest", "start"}
      PROVE TypeInv'
  <2>1. Workers' = Workers
    BY <1>6 DEF UnlessStopped, Workers
  <2> QED
    BY <1>6, <2>1 DEF UnlessStopped
<1>7. CASE TestLimit
  BY <1>7 DEF TestLimit, Workers
<1>8. CASE Park
  BY <1>8 DEF Park, Workers
<1>9. CASE StartWorker
  <2>1. Workers' = Workers \cup {held} /\ held \notin Workers
    BY <1>9 DEF StartWorker, Workers
  <2>2. Cardinality(Workers') = Cardinality(Workers) + 1
    BY <2>1, WorkersFinite, FS_AddElement
  <2> QED
    BY <1>9, <2>2 DEF StartWorker, CountIf
<1>10. ASSUME NEW t \in Tasks, RunTask(t) \/ TaskReturns(t) PROVE TypeInv'
  <2>1. Workers' = Workers
    BY <1>10 DEF RunTask, TaskReturns, Workers
  <2> QED
    BY <1>10, <2>1 DEF RunTask, TaskReturns
<1>11. ASSUME NEW t \in Tasks, WorkerExits(t) PROVE TypeInv'
  <2>1. Workers' = Workers \ {t} /\ t \in Workers
    BY <1>11 DEF WorkerExits, Workers
  <2>2. Cardinality(Workers') = Cardinality(Workers) - 1
    BY <2>1, WorkersFinite, FS_RemoveElement
  <2> QED
    BY <1>11, <2>2 DEF WorkerExits, Notified
<1>12. ASSUME NEW r \in Resizers, ResizeStore(r) PROVE TypeInv'
  <2>1. Workers' = Workers
    BY <1>12 DEF ResizeStore, Workers
  <2>2. maxWorkers' \in Int /\ peak' \in Int
    BY <1>12, LimitPositive DEF ResizeStore
  <2> QED
    BY <1>12, <2>1, <2>2 DEF ResizeStore
<1>13. ASSUME NEW r \in Resizers, ResizeBroadcast(r) PROVE TypeInv'
  BY <1>13 DEF ResizeBroadcast, Notified, Workers
<1>14. CASE StopCAS \/ StopCancel \/ StopBroadcast
  BY <1>14 DEF StopCAS, StopCancel, StopBroadcast, Notified, Workers
<1>15. CASE StopDrain
  <2>1. Workers' = Workers
    BY <1>15, QueueTail DEF StopDrain, Workers
  <2>2. CASE taskQueue = <<>>
    BY <1>15, <2>1, <2>2 DEF StopDrain
  <2>3. CASE taskQueue # <<>>
    <3>1. TypeOK'
      <4>1. /\ Head(taskQueue) \in Tasks /\ task[Head(taskQueue)] = "queued"
            /\ Tail(taskQueue) \in Seq(Tasks)
            /\ Len(Tail(taskQueue)) <= QueueCap
        BY <2>3, QueueTail, QueueCapAssumption, LenProperties
      <4>2. task' = [task EXCEPT ![Head(taskQueue)] = "dropped"]
        BY <1>15, <2>3 DEF StopDrain
      <4>3. held \in Tasks => task'[held] = task[held]
             \/ task[held] # "held"
        BY <4>1, <4>2
      <4> QED
        BY <1>15, <2>1, <2>3, <4>1, <4>3 DEF StopDrain
    <3>2. \A i \in DOMAIN taskQueue' : task'[taskQueue'[i]] = "queued"
      BY <1>15, <2>3, QueueTail DEF StopDrain
    <3>3. \A i, j \in DOMAIN taskQueue' : taskQueue'[i] = taskQueue'[j] => i = j
      BY <1>15, <2>3, QueueTail DEF StopDrain
    <3> QED
      BY <3>1, <3>2, <3>3
  <2> QED
    BY <2>2, <2>3
<1>16. CASE WaitIdle
  <2>1. awaited' \subseteq Tasks
    BY <1>16 DEF WaitIdle, WaitIdleCall, ReadActive, ReadQueue, Accepted
  <2> QED
    BY <1>16, <2>1 DEF WaitIdle, WaitIdleCall, ReadActive, ReadQueue, Workers
<1>17. CASE UNCHANGED vars
  BY <1>17 DEF vars, Workers
<1> QED
  BY <1>1, <1>2, <1>3, <1>4, <1>5, <1>6, <1>7, <1>8, <1>9, <1>10, <1>11, <1>12,
     <1>13, <1>14, <1>15, <1>16, <1>17
  DEF Next, Dispatch, Stop, Submit, Worker, Resize,
      CheckReceived, CheckWoken, CheckStart

(* The pool keeps its types, activeCount is the number of worker goroutines, *)
(* and no task is queued twice or lost between the queue and the dispatcher. *)
THEOREM TypeCorrect == Spec => []TypeOK
<1>1. TypeInv => TypeOK
  BY DEF TypeInv
<1> QED
  BY <1>1, TypeInit, TypeNext, PTL DEF Spec

-------------------------------------------------------------------------------
(* The dispatcher's place says what its last test of the limit is still      *)
(* worth: activeCount cannot grow behind its back, maxWorkers can change.    *)
PoolInv ==
  /\ 1 <= maxWorkers /\ maxWorkers <= peak
  /\ activeCount <= peak
  /\ dispatcher \in {"full", "parked"} => activeCount > 0
  /\ dispatcher \in {"recheck", "start"} => activeCount < peak
  /\ dispatcher \in {"recheck", "start"} => overshoot = 0 \/ activeCount < maxWorkers
  /\ overshoot <= 1
  /\ lateStarts <= 1
  /\ lateStarts = 1 => stopped /\ dispatcher \in {"select", "received", "exited"}

(* The initial states satisfy the invariant of the pool.                    *)
LEMMA PoolInit == Init => PoolInv
<1> SUFFICES ASSUME Init PROVE PoolInv
  OBVIOUS
<1>1. PICK n \in Sizes : maxWorkers = Limit(n)
  BY DEF Init
<1> QED
  BY <1>1, LimitPositive DEF Init, PoolInv

(* Every step keeps the invariant of the pool.                              *)
LEMMA PoolNext == TypeInv /\ PoolInv /\ [Next]_vars => PoolInv'
<1> SUFFICES ASSUME TypeInv, PoolInv, [Next]_vars PROVE PoolInv'
  OBVIOUS
<1>0. /\ maxWorkers \in Int /\ peak \in Int /\ activeCount \in Nat
      /\ lateStarts \in Nat /\ overshoot \in Nat
  BY WorkersFinite, FS_CardinalityType DEF TypeInv, TypeOK
<1> USE <1>0 DEF PoolInv, poolVars, histVars
<1>1. ASSUME NEW t \in Tasks, Submit(t) \/ RunTask(t) \/ TaskReturns(t)
      PROVE PoolInv'
  BY <1>1 DEF Submit, SubmitBegin, SubmitSend, SubmitCancelled, RunTask, TaskReturns
<1>2. ASSUME NEW t \in Tasks, WorkerExits(t) PROVE PoolInv'
  BY <1>2 DEF WorkerExits, MuHeld, Notified
<1>3. CASE SelectDone \/ Receive
  BY <1>3 DEF SelectDone, Receive
<1>4. CASE CheckReceived \/ CheckWoken \/ CheckStart
  BY <1>4 DEF CheckReceived, CheckWoken, CheckStart, UnlessStopped
<1>5. CASE TestLimit \/ Park
  BY <1>5 DEF TestLimit, Park
<1>6. CASE StartWorker
  BY <1>6 DEF StartWorker, CountIf
<1>7. ASSUME NEW r \in Resizers, ResizeStore(r) PROVE PoolInv'
  <2>1. PICK n \in Sizes : /\ maxWorkers' = Limit(n)
                           /\ peak' = IF Limit(n) > peak THEN Limit(n) ELSE peak
    BY <1>7 DEF ResizeStore
  <2> QED
    BY <1>7, <2>1, LimitPositive DEF ResizeStore
<1>8. ASSUME NEW r \in Resizers, ResizeBroadcast(r) PROVE PoolInv'
  BY <1>8 DEF ResizeBroadcast, Notified
<1>9. CASE Stop
  BY <1>9 DEF Stop, StopCAS, StopCancel, StopBroadcast, StopDrain, Notified
<1>10. CASE WaitIdle
  BY <1>10 DEF WaitIdle, WaitIdleCall, ReadActive, ReadQueue
<1>11. CASE UNCHANGED vars
  BY <1>11 DEF vars
<1> QED
  BY <1>1, <1>2, <1>3, <1>4, <1>5, <1>6, <1>7, <1>8, <1>9, <1>10, <1>11
  DEF Next, Dispatch, Worker, Resize

(* The inductive invariant behind the four theorems below.                   *)
THEOREM PoolCorrect == Spec => [](TypeInv /\ PoolInv)
  BY TypeInit, TypeNext, PoolInit, PoolNext, PTL DEF Spec

(* Never more workers than the largest limit, whatever Resize does meanwhile. *)
THEOREM ConcurrencyBounded == Spec => []ConcurrencyBound
<1>1. TypeInv /\ PoolInv => ConcurrencyBound
  BY DEF TypeInv, TypeOK, PoolInv, ConcurrencyBound
<1> QED
  BY <1>1, PoolCorrect, PTL

(* A smaller limit is exceeded by at most one more start.                    *)
THEOREM ShrinkBounded == Spec => []ShrinkOvershootsByOne
<1>1. TypeInv /\ PoolInv => ShrinkOvershootsByOne
  BY DEF PoolInv, ShrinkOvershootsByOne
<1> QED
  BY <1>1, PoolCorrect, PTL

(* At most one task starts once Stop has won its CAS.                        *)
THEOREM LateStartBounded == Spec => []AtMostOneLateStart
<1>1. TypeInv /\ PoolInv => AtMostOneLateStart
  BY DEF PoolInv, AtMostOneLateStart
<1> QED
  BY <1>1, PoolCorrect, PTL

(* A parked dispatcher always has a worker left that will signal it.         *)
THEOREM ParkedIsSignalled == Spec => []NeverParkedIdle
<1>1. TypeInv /\ PoolInv => NeverParkedIdle
  BY DEF PoolInv, NeverParkedIdle
<1> QED
  BY <1>1, PoolCorrect, PTL

-------------------------------------------------------------------------------
(* Whatever is queued is in the queue; what WaitIdle waits for was accepted, *)
(* and never is to be sent again.                                            *)
AcceptInv ==
  /\ \A t \in Tasks : task[t] = "queued" => \E i \in DOMAIN taskQueue : taskQueue[i] = t
  /\ awaited \subseteq Accepted
  /\ WaitIdleDrains

(* The initial states satisfy it.                                            *)
LEMMA AcceptInit == Init => AcceptInv
<1> SUFFICES ASSUME Init PROVE AcceptInv
  OBVIOUS
<1>1. DOMAIN <<>> = {}
  OBVIOUS
<1> QED
  BY <1>1 DEF Init, AcceptInv, Accepted, WaitIdleDrains

(* A task whose state changes stays accepted, and is not queued anew.        *)
LEMMA AcceptMoves ==
  ASSUME TypeInv, AcceptInv, NEW t \in Tasks, NEW s,
         task' = [task EXCEPT ![t] = s], UNCHANGED <<taskQueue, awaited, waiter>>,
         s # "queued", task[t] # "queued",
         task[t] \in {"new", "sending"} \/ s \notin {"new", "sending", "refused"}
  PROVE  AcceptInv'
<1>1. \A u \in Tasks : task'[u] = IF u = t THEN s ELSE task[u]
  BY DEF TypeInv, TypeOK
<1>2. awaited \subseteq Tasks
  BY DEF TypeInv, TypeOK
<1> QED
  BY <1>1, <1>2 DEF AcceptInv, Accepted, WaitIdleDrains

(* Taking the head off the queue keeps it, whatever becomes of the head.     *)
LEMMA AcceptTakes ==
  ASSUME TypeInv, AcceptInv, taskQueue # <<>>, NEW s \in {"held", "dropped"},
         taskQueue' = Tail(taskQueue), task' = [task EXCEPT ![Head(taskQueue)] = s],
         UNCHANGED <<awaited, waiter>>
  PROVE  AcceptInv'
<1>1. DOMAIN task = Tasks /\ taskQueue \in Seq(Tasks)
  BY DEF TypeInv, TypeOK
<1>2. Head(taskQueue) \in Tasks
  BY QueueTail
<1>3. \A t \in Tasks : task'[t] = IF t = Head(taskQueue) THEN s ELSE task[t]
  BY <1>1, <1>2
<1>4. ASSUME NEW t \in Tasks, task'[t] = "queued"
      PROVE  \E i \in DOMAIN taskQueue' : taskQueue'[i] = t
  <2>1. t # Head(taskQueue) /\ task[t] = "queued"
    BY <1>3, <1>4
  <2>2. PICK i \in DOMAIN taskQueue : taskQueue[i] = t
    BY <2>1 DEF AcceptInv
  <2>3. /\ Len(taskQueue) \in Nat /\ DOMAIN taskQueue = 1 .. Len(taskQueue)
        /\ Head(taskQueue) = taskQueue[1]
        /\ Tail(taskQueue) \in Seq(Tasks) /\ Len(Tail(taskQueue)) = Len(taskQueue) - 1
        /\ \A j \in 1 .. Len(Tail(taskQueue)) : Tail(taskQueue)[j] = taskQueue[j + 1]
    BY <1>1, LenProperties, HeadTailProperties
  <2>4. i # 1 /\ i - 1 \in 1 .. Len(Tail(taskQueue)) /\ (i - 1) + 1 = i
    BY <2>1, <2>2, <2>3
  <2>5. Tail(taskQueue)[i - 1] = t /\ i - 1 \in DOMAIN Tail(taskQueue)
    BY <2>2, <2>3, <2>4, LenProperties
  <2> QED
    BY <2>5
<1>5. awaited \subseteq Tasks
  BY DEF TypeInv, TypeOK
<1> QED
  BY <1>3, <1>4, <1>5 DEF AcceptInv, Accepted, WaitIdleDrains

(* Every step keeps it.                                                      *)
LEMMA AcceptNext == TypeInv /\ AcceptInv /\ [Next]_vars => AcceptInv'
<1> SUFFICES ASSUME TypeInv, AcceptInv, [Next]_vars PROVE AcceptInv'
  OBVIOUS
<1> USE DEF poolVars, histVars
<1>1. ASSUME UNCHANGED <<task, taskQueue, awaited, waiter>> PROVE AcceptInv'
  BY <1>1 DEF AcceptInv, Accepted, WaitIdleDrains
<1>2. ASSUME NEW t \in Tasks, SubmitBegin(t) \/ SubmitCancelled(t) PROVE AcceptInv'
  BY <1>2, AcceptMoves DEF SubmitBegin, SubmitCancelled
<1>3. ASSUME NEW t \in Tasks, SubmitSend(t) PROVE AcceptInv'
  <2>1. /\ task[t] = "sending" /\ task' = [task EXCEPT ![t] = "queued"]
        /\ taskQueue' = Append(taskQueue, t)
        /\ UNCHANGED <<awaited, waiter>>
    BY <1>3 DEF SubmitSend
  <2>2. /\ DOMAIN task = Tasks /\ taskQueue \in Seq(Tasks)
        /\ awaited \subseteq Tasks
    BY DEF TypeInv, TypeOK
  <2>3. \A u \in Tasks : task'[u] = IF u = t THEN "queued" ELSE task[u]
    BY <2>1, <2>2
  <2>4. /\ DOMAIN taskQueue' = 1 .. Len(taskQueue) + 1 /\ DOMAIN taskQueue = 1 .. Len(taskQueue)
        /\ Len(taskQueue) \in Nat /\ taskQueue'[Len(taskQueue) + 1] = t
        /\ \A i \in 1 .. Len(taskQueue) : taskQueue'[i] = taskQueue[i]
    BY <2>1, <2>2, AppendProperties, LenProperties
  <2>5. ASSUME NEW u \in Tasks, task'[u] = "queued"
        PROVE  \E i \in DOMAIN taskQueue' : taskQueue'[i] = u
    <3>1. CASE u = t
      BY <2>4, <3>1
    <3>2. CASE u # t
      <4>1. PICK i \in DOMAIN taskQueue : taskQueue[i] = u
        BY <2>3, <2>5, <3>2 DEF AcceptInv
      <4> QED
        BY <2>4, <4>1
    <3> QED
      BY <3>1, <3>2
  <2>6. \A u \in awaited : u # t
    BY <2>1 DEF AcceptInv, Accepted
  <2> QED
    BY <2>1, <2>2, <2>3, <2>5, <2>6 DEF AcceptInv, Accepted, WaitIdleDrains
<1>4. CASE Receive
  BY <1>4, AcceptTakes DEF Receive
<1>5. ASSUME NEW at, NEW next, at \notin {"select", "exited"}, UnlessStopped(at, next)
      PROVE  AcceptInv'
  <2>1. held \in Tasks /\ task[held] = "held"
    BY <1>5 DEF UnlessStopped, TypeInv, TypeOK
  <2> QED
    BY <1>1, <1>5, <2>1, AcceptMoves DEF UnlessStopped
<1>6. CASE StartWorker
  <2>1. held \in Tasks /\ task[held] = "held"
    BY <1>6 DEF StartWorker, TypeInv, TypeOK
  <2> QED
    BY <1>6, <2>1, AcceptMoves DEF StartWorker
<1>7. ASSUME NEW t \in Tasks, Worker(t) PROVE AcceptInv'
  BY <1>7, AcceptMoves DEF Worker, RunTask, TaskReturns, WorkerExits
<1>8. CASE StopDrain
  BY <1>1, <1>8, AcceptTakes DEF StopDrain
<1>9. CASE WaitIdleCall
  <2>1. awaited' = Accepted /\ waiter' = "readActive" /\ UNCHANGED <<task, taskQueue>>
    BY <1>9 DEF WaitIdleCall
  <2> QED
    BY <2>1 DEF AcceptInv, Accepted, WaitIdleDrains
<1>10. CASE ReadActive
  BY <1>10 DEF ReadActive, AcceptInv, Accepted, WaitIdleDrains
<1>11. CASE ReadQueue
  <2>1. awaited \subseteq Tasks /\ DOMAIN <<>> = {}
    BY DEF TypeInv, TypeOK
  <2>2. taskQueue = <<>> => \A t \in awaited : task[t] # "queued"
    BY <2>1 DEF AcceptInv
  <2> QED
    BY <1>11, <2>2 DEF ReadQueue, AcceptInv, Accepted, WaitIdleDrains
<1>12. ASSUME NEW r \in Resizers, Resize(r) PROVE AcceptInv'
  BY <1>1, <1>12 DEF Resize, ResizeStore, ResizeBroadcast
<1>13. CASE SelectDone \/ TestLimit \/ Park \/ StopCAS \/ StopCancel \/ StopBroadcast \/ UNCHANGED vars
  BY <1>1, <1>13 DEF SelectDone, TestLimit, Park, StopCAS, StopCancel, StopBroadcast, vars
<1> QED
  BY <1>2, <1>3, <1>4, <1>5, <1>6, <1>7, <1>8, <1>9, <1>10, <1>11, <1>12, <1>13
  DEF Next, Dispatch, Stop, WaitIdle, Submit, CheckReceived, CheckWoken, CheckStart

(* Whatever was accepted before a WaitIdle has left the queue when it        *)
(* returns.                                                                  *)
THEOREM WaitIdleSeesQueue == Spec => []WaitIdleDrains
<1>1. AcceptInv => WaitIdleDrains
  BY DEF AcceptInv
<1> QED
  BY <1>1, TypeInit, TypeNext, AcceptInit, AcceptNext, PTL DEF Spec

-------------------------------------------------------------------------------
(* The refinement of TaskPool.  Only Stop stops the pool, before it cancels. *)
StopInv == (stopped <=> stopper # "cas") /\ (ctxDone => stopped)

(* Stop sets stopped once, and before anything else.                         *)
LEMMA StopNext == TypeInv /\ StopInv /\ [Next]_vars => StopInv'
<1> SUFFICES ASSUME TypeInv, StopInv, [Next]_vars PROVE StopInv'
  OBVIOUS
<1>1. ASSUME UNCHANGED <<stopped, stopper, ctxDone>> PROVE StopInv'
  BY <1>1 DEF StopInv
<1>2. CASE StopCAS \/ StopCancel \/ StopBroadcast \/ StopDrain
  <2>1. CASE StopCAS
    BY <2>1 DEF StopCAS, StopInv
  <2>2. CASE StopCancel
    BY <2>2 DEF StopCancel, StopInv
  <2>3. CASE StopBroadcast
    BY <2>3 DEF StopBroadcast, StopInv, poolVars
  <2>4. CASE StopDrain
    BY <2>4 DEF StopDrain, StopInv
  <2> QED
    BY <1>2, <2>1, <2>2, <2>3, <2>4
<1>3. ASSUME NEW t, Submit(t) \/ Worker(t) PROVE StopInv'
  BY <1>1, <1>3 DEF Submit, SubmitBegin, SubmitSend, SubmitCancelled, Worker, RunTask,
                    TaskReturns, WorkerExits, poolVars
<1>4. ASSUME NEW r, Resize(r) PROVE StopInv'
  BY <1>1, <1>4 DEF Resize, ResizeStore, ResizeBroadcast, poolVars
<1>5. CASE Dispatch
  BY <1>1, <1>5 DEF Dispatch, SelectDone, Receive, CheckReceived, TestLimit, Park, CheckWoken,
                    CheckStart, StartWorker, UnlessStopped, poolVars
<1>6. CASE WaitIdle \/ UNCHANGED vars
  BY <1>1, <1>6 DEF WaitIdle, WaitIdleCall, ReadActive, ReadQueue, vars, poolVars
<1> QED
  BY <1>2, <1>3, <1>4, <1>5, <1>6 DEF Next, Stop

(* What Promise puts for the variables of TaskPool.                          *)
Phase == [t \in Tasks |-> PhaseOf(task[t])]
Line  == IF held = NoTask THEN taskQueue ELSE <<held>> \o taskQueue

(* A step of one task moves its phase alone.                                 *)
LEMMA PhaseMoves ==
  ASSUME TypeInv, NEW t \in Tasks, NEW s, task' = [task EXCEPT ![t] = s]
  PROVE  Phase' = [Phase EXCEPT ![t] = PhaseOf(s)] /\ Phase[t] = PhaseOf(task[t])
<1>1. \A u \in Tasks : task'[u] = IF u = t THEN s ELSE task[u]
  BY DEF TypeInv, TypeOK
<1>2. \A u \in Tasks : Phase[u] = PhaseOf(task[u]) /\ Phase'[u] = PhaseOf(task'[u])
  BY DEF Phase
<1>3. \A u \in Tasks : Phase'[u] = IF u = t THEN PhaseOf(s) ELSE Phase[u]
  BY <1>1, <1>2
<1>4. DOMAIN Phase = Tasks /\ DOMAIN Phase' = Tasks /\ Phase' = [u \in Tasks |-> Phase'[u]]
  BY DEF Phase
<1>5. Phase' = [Phase EXCEPT ![t] = PhaseOf(s)]
  BY <1>3, <1>4
<1> QED
  BY <1>2, <1>5

(* A task in hand is first in line, the queue behind it.                     *)
LEMMA LineOfHeld ==
  ASSUME TypeInv, held # NoTask
  PROVE  /\ Line = <<held>> \o taskQueue /\ Line \in Seq(Tasks)
         /\ Len(Line) = Len(taskQueue) + 1 /\ Len(taskQueue) \in Nat
         /\ Line[1] = held /\ Head(Line) = held /\ Line # <<>> /\ Tail(Line) = taskQueue
         /\ \A i \in 1 .. Len(taskQueue) : Line[i + 1] = taskQueue[i]
         /\ held \in Tasks /\ task[held] = "held"
<1>1. held \in Tasks /\ task[held] = "held" /\ taskQueue \in Seq(Tasks)
  BY DEF TypeInv, TypeOK
<1>2. Line = <<held>> \o taskQueue
  BY DEF Line
<1>3. <<held>> \in Seq(Tasks) /\ Len(<<held>>) = 1 /\ <<held>>[1] = held
  BY <1>1
<1>4. Len(taskQueue) \in Nat /\ DOMAIN taskQueue = 1 .. Len(taskQueue)
  BY <1>1, LenProperties
<1>5. /\ Line \in Seq(Tasks) /\ Len(Line) = 1 + Len(taskQueue)
      /\ \A i \in 1 .. 1 + Len(taskQueue) :
            Line[i] = IF i <= 1 THEN <<held>>[i] ELSE taskQueue[i - 1]
  BY <1>1, <1>2, <1>3, ConcatProperties
<1>6. \A i \in 1 .. Len(taskQueue) : Line[i + 1] = taskQueue[i]
  <2> SUFFICES ASSUME NEW i \in 1 .. Len(taskQueue) PROVE Line[i + 1] = taskQueue[i]
    OBVIOUS
  <2>1. i + 1 \in 1 .. 1 + Len(taskQueue) /\ ~ (i + 1 <= 1) /\ (i + 1) - 1 = i
    BY <1>4
  <2> QED
    BY <1>5, <2>1
<1>7. Line[1] = held /\ Line # <<>> /\ Head(Line) = held
  <2>1. Line[1] = held
    BY <1>3, <1>4, <1>5
  <2>2. Line # <<>>
    BY <1>4, <1>5, EmptySeq
  <2> QED
    BY <1>5, <2>1, <2>2
<1>8. Tail(Line) = taskQueue
  <2>1. /\ Tail(Line) \in Seq(Tasks) /\ Len(Tail(Line)) = Len(Line) - 1
        /\ \A i \in 1 .. Len(Tail(Line)) : Tail(Line)[i] = Line[i + 1]
    BY <1>5, <1>7, HeadTailProperties
  <2>2. Len(Tail(Line)) = Len(taskQueue)
    BY <1>4, <1>5, <2>1
  <2>3. \A i \in 1 .. Len(Tail(Line)) : Tail(Line)[i] = taskQueue[i]
    BY <1>6, <2>1, <2>2
  <2> QED
    BY <1>1, <2>1, <2>2, <2>3, SeqEqual
<1> QED
  BY <1>1, <1>2, <1>4, <1>5, <1>6, <1>7, <1>8

(* Dropping the task in hand, or the first of the queue, from the line.      *)
LEMMA LineDrops ==
  ASSUME TypeInv
  PROVE  /\ held # NoTask => Promise!RemoveAt(Line, 1) = taskQueue
         /\ taskQueue # <<>> =>
              LET i == IF held = NoTask THEN 1 ELSE 2
              IN  /\ i \in DOMAIN Line /\ Line[i] = Head(taskQueue)
                  /\ Promise!RemoveAt(Line, i) = IF held = NoTask THEN Tail(taskQueue)
                                                 ELSE <<held>> \o Tail(taskQueue)
<1>1. taskQueue \in Seq(Tasks) /\ Line \in Seq(Tasks)
  BY LineOfHeld DEF TypeInv, TypeOK, Line
<1>2. Len(taskQueue) \in Nat /\ DOMAIN Line = 1 .. Len(Line) /\ Len(Line) \in Nat
  BY <1>1, LenProperties
<1>3. SubSeq(Line, 1, 0) = <<>>
  BY SubSeqEmpty
<1>4. ASSUME Line # <<>> PROVE Promise!RemoveAt(Line, 1) = Tail(Line)
  <2>1. Promise!RemoveAt(Line, 1) = SubSeq(Line, 1, 0) \o SubSeq(Line, 2, Len(Line))
    BY DEF Promise!RemoveAt
  <2>2. SubSeq(Line, 2, Len(Line)) = Tail(Line) /\ Tail(Line) \in Seq(Tasks)
    BY <1>1, <1>4, TailIsSubSeq, HeadTailProperties
  <2> QED
    BY <1>3, <2>1, <2>2, ConcatEmptySeq
<1>5. ASSUME held # NoTask PROVE Promise!RemoveAt(Line, 1) = taskQueue
  BY <1>4, <1>5, LineOfHeld
<1>6. ASSUME taskQueue # <<>>, held = NoTask
      PROVE  /\ 1 \in DOMAIN Line /\ Line[1] = Head(taskQueue)
             /\ Promise!RemoveAt(Line, 1) = Tail(taskQueue)
  <2>1. Line = taskQueue
    BY <1>6 DEF Line
  <2>2. Len(taskQueue) \in Nat \ {0}
    BY <1>1, <1>6, EmptySeq
  <2> QED
    BY <1>1, <1>2, <1>4, <1>6, <2>1, <2>2
<1>7. ASSUME taskQueue # <<>>, held # NoTask
      PROVE  /\ 2 \in DOMAIN Line /\ Line[2] = Head(taskQueue)
             /\ Promise!RemoveAt(Line, 2) = <<held>> \o Tail(taskQueue)
  <2> DEFINE n == Len(taskQueue)
  <2>1. n \in Nat \ {0} /\ Len(Line) = n + 1
    BY <1>1, <1>7, EmptySeq, LineOfHeld
  <2>2. Line[2] = taskQueue[1] /\ Head(taskQueue) = taskQueue[1]
    <3>1. 1 \in 1 .. n /\ 1 + 1 = 2
      BY <2>1
    <3> QED
      BY <1>1, <1>7, <3>1, LineOfHeld
  <2>3. Promise!RemoveAt(Line, 2) = SubSeq(Line, 1, 1) \o SubSeq(Line, 3, Len(Line))
    BY DEF Promise!RemoveAt
  <2>4. SubSeq(Line, 1, 1) = <<held>>
    <3>1. 1 \in Int /\ \A i \in 1 .. 1 : Line[i] \in Tasks
      BY <1>7, LineOfHeld
    <3>2. /\ SubSeq(Line, 1, 1) \in Seq(Tasks) /\ Len(SubSeq(Line, 1, 1)) = 1
          /\ SubSeq(Line, 1, 1)[1] = Line[1]
      BY <3>1, SubSeqProperties
    <3>3. <<held>> \in Seq(Tasks) /\ Len(<<held>>) = 1 /\ <<held>>[1] = held /\ Line[1] = held
      BY <1>7, LineOfHeld
    <3>4. \A i \in 1 .. Len(SubSeq(Line, 1, 1)) : SubSeq(Line, 1, 1)[i] = <<held>>[i]
      BY <3>2, <3>3
    <3> QED
      BY <3>2, <3>3, <3>4, SeqEqual
  <2>5. SubSeq(Line, 3, n + 1) = Tail(taskQueue)
    <3>1. \A i \in 3 .. n + 1 : Line[i] \in Tasks
      BY <1>1, <2>1, ElementOfSeq
    <3>2. /\ SubSeq(Line, 3, n + 1) \in Seq(Tasks)
          /\ Len(SubSeq(Line, 3, n + 1)) = IF 3 <= n + 1 THEN (n + 1) - 3 + 1 ELSE 0
          /\ \A i \in 1 .. (n + 1) - 3 + 1 : SubSeq(Line, 3, n + 1)[i] = Line[3 + i - 1]
      <4>1. 3 \in Int /\ n + 1 \in Int
        BY <2>1
      <4> QED
        BY <3>1, <4>1, SubSeqProperties
    <3>3. /\ Tail(taskQueue) \in Seq(Tasks) /\ Len(Tail(taskQueue)) = n - 1
          /\ \A i \in 1 .. Len(Tail(taskQueue)) : Tail(taskQueue)[i] = taskQueue[i + 1]
      BY <1>1, <1>7, HeadTailProperties
    <3>4. Len(SubSeq(Line, 3, n + 1)) = n - 1
      <4>1. (IF 3 <= n + 1 THEN (n + 1) - 3 + 1 ELSE 0) = n - 1
        <5> HIDE DEF n
        <5> QED
          BY <2>1
      <4> QED
        BY <3>2, <4>1
    <3>5. ASSUME NEW i \in 1 .. n - 1 PROVE SubSeq(Line, 3, n + 1)[i] = taskQueue[i + 1]
      <4>1. i \in 1 .. (n + 1) - 3 + 1 /\ 3 + i - 1 = (i + 1) + 1 /\ i + 1 \in 1 .. n
        BY <2>1
      <4>2. SubSeq(Line, 3, n + 1)[i] = Line[(i + 1) + 1]
        BY <3>2, <4>1
      <4> QED
        BY <1>7, <4>1, <4>2, LineOfHeld
    <3> QED
      BY <3>2, <3>3, <3>4, <3>5, SeqEqual
  <2>6. Promise!RemoveAt(Line, 2) = <<held>> \o Tail(taskQueue)
    BY <2>1, <2>3, <2>4, <2>5
  <2>7. 2 \in 1 .. Len(Line)
    BY <2>1
  <2> QED
    BY <1>2, <2>2, <2>6, <2>7
<1> QED
  BY <1>5, <1>6, <1>7

(* The pool begins as TaskPool does.                                         *)
LEMMA PromiseInit == Init => Promise!Init
<1> SUFFICES ASSUME Init PROVE Promise!Init
  OBVIOUS
<1>1. PICK n \in Sizes : maxWorkers = Limit(n)
  BY DEF Init
<1>2. peak \in Nat \ {0}
  BY <1>1, LimitPositive DEF Init
<1>3. [t \in Tasks |-> PhaseOf(task[t])] = [t \in Tasks |-> "new"]
  BY DEF Init, PhaseOf
<1> QED
  BY <1>2, <1>3 DEF Init, Promise!Init

(* Every step of the pool is a step of TaskPool or none.                     *)
LEMMA PromiseNext ==
  TypeInv /\ PoolInv /\ StopInv /\ [Next]_vars => [Promise!Next]_(Promise!vars)
<1> SUFFICES ASSUME TypeInv, PoolInv, StopInv, [Next]_vars
             PROVE  Promise!Next \/ UNCHANGED Promise!vars
  OBVIOUS
<1> USE DEF poolVars, histVars
<1>0. DOMAIN task = Tasks /\ taskQueue \in Seq(Tasks)
  BY DEF TypeInv, TypeOK
<1>1. ASSUME Phase' = Phase, Line' = Line, UNCHANGED <<peak, stopped, lateStarts>>
      PROVE  UNCHANGED Promise!vars
  BY <1>1 DEF Phase, Line, Promise!vars
<1>2. ASSUME UNCHANGED <<task, held, taskQueue, peak, stopped, lateStarts>>
      PROVE  UNCHANGED Promise!vars
  BY <1>1, <1>2 DEF Phase, Line
<1>3. ASSUME NEW t \in Tasks, SubmitBegin(t) PROVE Promise!Next
  <2>1. CASE stopped
    <3>1. task' = [task EXCEPT ![t] = "refused"] /\ task[t] = "new"
          /\ UNCHANGED <<held, taskQueue, peak, stopped, lateStarts>>
      BY <1>3, <2>1 DEF SubmitBegin
    <3>2. Phase' = [Phase EXCEPT ![t] = "refused"] /\ Phase[t] = "new"
      BY <3>1, PhaseMoves DEF PhaseOf
    <3>3. Promise!Refuse(t)
      BY <2>1, <3>1, <3>2 DEF Promise!Refuse, Phase
    <3> QED
      BY <3>3 DEF Promise!Next
  <2>2. CASE ~ stopped
    <3>1. task' = [task EXCEPT ![t] = "sending"] /\ task[t] = "new"
          /\ UNCHANGED <<held, taskQueue, peak, stopped, lateStarts>>
      BY <1>3, <2>2 DEF SubmitBegin
    <3>2. Phase' = [Phase EXCEPT ![t] = "offered"] /\ Phase[t] = "new"
      BY <3>1, PhaseMoves DEF PhaseOf
    <3>3. Promise!Offer(t)
      BY <2>2, <3>1, <3>2 DEF Promise!Offer, Phase
    <3> QED
      BY <3>3 DEF Promise!Next
  <2> QED
    BY <2>1, <2>2
<1>4. ASSUME NEW t \in Tasks, SubmitSend(t) PROVE Promise!Next
  <2>1. /\ task' = [task EXCEPT ![t] = "queued"] /\ task[t] = "sending"
        /\ taskQueue' = Append(taskQueue, t)
        /\ UNCHANGED <<held, peak, stopped, lateStarts>>
    BY <1>4 DEF SubmitSend
  <2>2. Phase' = [Phase EXCEPT ![t] = "waiting"] /\ Phase[t] = "offered"
    BY <2>1, PhaseMoves DEF PhaseOf
  <2>3. Line' = Append(Line, t)
    <3>1. CASE held = NoTask
      BY <2>1, <3>1 DEF Line
    <3>2. CASE held # NoTask
      <4>1. held \in Tasks /\ <<held>> \in Seq(Tasks) /\ <<t>> \in Seq(Tasks)
        BY <3>2, LineOfHeld
      <4>2. Append(taskQueue, t) = taskQueue \o <<t>>
        BY <1>0, <4>1, AppendIsConcat
      <4>3. Append(<<held>> \o taskQueue, t) = (<<held>> \o taskQueue) \o <<t>>
        BY <3>2, LineOfHeld, AppendIsConcat
      <4>4. (<<held>> \o taskQueue) \o <<t>> = <<held>> \o (taskQueue \o <<t>>)
        BY <1>0, <4>1, ConcatAssociative
      <4> QED
        BY <2>1, <3>2, <4>2, <4>3, <4>4 DEF Line
    <3> QED
      BY <3>1, <3>2
  <2>4. Promise!Accept(t)
    BY <2>1, <2>2, <2>3 DEF Promise!Accept, Phase, Line
  <2> QED
    BY <2>4 DEF Promise!Next
<1>5. ASSUME NEW t \in Tasks, SubmitCancelled(t) PROVE Promise!Next
  <2>1. /\ task' = [task EXCEPT ![t] = "refused"] /\ task[t] = "sending" /\ stopped
        /\ UNCHANGED <<held, taskQueue, peak, stopped, lateStarts>>
    BY <1>5 DEF SubmitCancelled, StopInv
  <2>2. Phase' = [Phase EXCEPT ![t] = "refused"] /\ Phase[t] = "offered"
    BY <2>1, PhaseMoves DEF PhaseOf
  <2>3. Promise!Refuse(t)
    BY <2>1, <2>2 DEF Promise!Refuse, Phase
  <2> QED
    BY <2>3 DEF Promise!Next
<1>6. CASE Receive
  <2>1. /\ task' = [task EXCEPT ![Head(taskQueue)] = "held"] /\ held = NoTask
        /\ held' = Head(taskQueue) /\ taskQueue' = Tail(taskQueue) /\ taskQueue # <<>>
        /\ UNCHANGED <<peak, stopped, lateStarts>>
    BY <1>6 DEF Receive, TypeInv, TypeOK
  <2>2. Head(taskQueue) \in Tasks /\ task[Head(taskQueue)] = "queued" /\ held' # NoTask
    BY <2>1, QueueTail, TasksAssumption
  <2>3. Phase' = [Phase EXCEPT ![Head(taskQueue)] = "waiting"] /\ Phase[Head(taskQueue)] = "waiting"
    BY <2>1, <2>2, PhaseMoves DEF PhaseOf
  <2>4. Phase' = Phase
    BY <2>3 DEF Phase
  <2>5. <<Head(taskQueue)>> \o Tail(taskQueue) = taskQueue
    BY <1>0, <2>1, HeadTailProperties
  <2>6. Line' = Line
    BY <2>1, <2>2, <2>5 DEF Line
  <2> QED
    BY <1>1, <2>1, <2>4, <2>6
<1>7. ASSUME NEW at, NEW next, at \notin {"select", "exited"}, UnlessStopped(at, next)
      PROVE  Promise!Next \/ UNCHANGED Promise!vars
  <2>1. CASE ~ stopped
    BY <1>2, <1>7, <2>1 DEF UnlessStopped
  <2>2. CASE stopped
    <3>1. /\ held # NoTask /\ held' = NoTask /\ task' = [task EXCEPT ![held] = "dropped"]
          /\ UNCHANGED <<taskQueue, peak, stopped, lateStarts>>
      BY <1>7, <2>2, TasksAssumption DEF UnlessStopped, TypeInv, TypeOK
    <3>2. /\ held \in Tasks /\ task[held] = "held" /\ Line[1] = held /\ Line \in Seq(Tasks)
          /\ Len(Line) = Len(taskQueue) + 1 /\ Len(taskQueue) \in Nat
      BY <3>1, LineOfHeld
    <3>3. 1 \in DOMAIN Line
      BY <3>2, LenProperties
    <3>4. Phase' = [Phase EXCEPT ![held] = "dropped"] /\ Phase[held] = "waiting"
      BY <3>1, <3>2, PhaseMoves DEF PhaseOf
    <3>5. Line' = Promise!RemoveAt(Line, 1)
      BY <3>1, LineDrops DEF Line
    <3>6. \E i \in DOMAIN Line : Line[i] = held /\ Line' = Promise!RemoveAt(Line, i)
      BY <3>2, <3>3, <3>5
    <3>7. Promise!Drop(held)
      BY <2>2, <3>1, <3>4, <3>6 DEF Promise!Drop, Phase, Line
    <3> QED
      BY <3>2, <3>7 DEF Promise!Next
  <2> QED
    BY <2>1, <2>2
<1>8. CASE StartWorker
  <2>1. /\ held # NoTask /\ held' = NoTask /\ task' = [task EXCEPT ![held] = "spawned"]
        /\ lateStarts' = IF stopped THEN lateStarts + 1 ELSE lateStarts
        /\ UNCHANGED <<taskQueue, peak, stopped>> /\ dispatcher = "start"
    BY <1>8, TasksAssumption DEF StartWorker, TypeInv, TypeOK, CountIf
  <2>2. Phase' = [Phase EXCEPT ![held] = "active"]
    BY <2>1, LineOfHeld, PhaseMoves DEF PhaseOf
  <2>3. Line # <<>> /\ Head(Line) = held /\ Line' = Tail(Line)
    <3>1. Line' = taskQueue
      BY <2>1 DEF Line
    <3> QED
      BY <2>1, <3>1, LineOfHeld
  <2>4. lateStarts = 0
    BY <2>1 DEF PoolInv, TypeInv, TypeOK
  <2>5. Promise!Cardinality(Promise!Active) < peak
    <3>1. Promise!Active = Workers
      <4>1. \A t \in Tasks : task[t] \in {"spawned", "running", "returned"} <=> PhaseOf(task[t]) = "active"
        BY DEF PhaseOf, TypeInv, TypeOK
      <4> QED
        BY <4>1 DEF Promise!Active, Workers
    <3>2. activeCount < peak /\ activeCount = Cardinality(Workers)
      BY <2>1 DEF PoolInv, TypeInv, TypeOK
    <3>3. \A S : Promise!Cardinality(S) = Cardinality(S)
      BY DEF Promise!Cardinality, Cardinality
    <3> QED
      BY <3>1, <3>2, <3>3
  <2>6. Promise!Start
    BY <2>1, <2>2, <2>3, <2>4, <2>5 DEF Promise!Start, Phase, Line
  <2> QED
    BY <2>6 DEF Promise!Next
<1>9. ASSUME NEW t \in Tasks, RunTask(t) \/ TaskReturns(t) PROVE UNCHANGED Promise!vars
  <2>1. PICK s \in {"running", "returned"} : task' = [task EXCEPT ![t] = s]
    BY <1>9 DEF RunTask, TaskReturns
  <2>2. Phase' = [Phase EXCEPT ![t] = "active"] /\ Phase[t] = "active"
    BY <1>9, <2>1, PhaseMoves DEF PhaseOf, RunTask, TaskReturns
  <2>3. Phase' = Phase
    BY <2>2 DEF Phase
  <2> QED
    BY <1>1, <1>9, <2>3 DEF RunTask, TaskReturns, Line
<1>10. ASSUME NEW t \in Tasks, WorkerExits(t) PROVE Promise!Next
  <2>1. /\ task' = [task EXCEPT ![t] = "done"] /\ task[t] = "returned"
        /\ UNCHANGED <<held, taskQueue, peak, stopped, lateStarts>>
    BY <1>10 DEF WorkerExits
  <2>2. Phase' = [Phase EXCEPT ![t] = "done"] /\ Phase[t] = "active"
    BY <2>1, PhaseMoves DEF PhaseOf
  <2>3. Promise!Finish(t)
    BY <2>1, <2>2 DEF Promise!Finish, Phase
  <2> QED
    BY <2>3 DEF Promise!Next
<1>11. ASSUME NEW r \in Resizers, ResizeStore(r) PROVE Promise!Next \/ UNCHANGED Promise!vars
  <2>1. PICK n \in Sizes : peak' = IF Limit(n) > peak THEN Limit(n) ELSE peak
    BY <1>11 DEF ResizeStore
  <2>2. UNCHANGED <<task, held, taskQueue, stopped, lateStarts>>
    BY <1>11 DEF ResizeStore
  <2>3. CASE Limit(n) > peak
    <3>1. peak' \in Nat /\ peak' > peak
      BY <2>1, <2>3, LimitPositive
    <3>2. Promise!Raise
      BY <2>2, <3>1 DEF Promise!Raise
    <3> QED
      BY <3>2 DEF Promise!Next
  <2>4. CASE ~ (Limit(n) > peak)
    BY <1>2, <2>1, <2>2, <2>4
  <2> QED
    BY <2>3, <2>4
<1>12. CASE StopCAS
  <2>1. /\ ~ stopped /\ stopped' = TRUE
        /\ UNCHANGED <<task, held, taskQueue, peak, lateStarts>>
    BY <1>12 DEF StopCAS, StopInv
  <2>2. Promise!Close
    BY <2>1 DEF Promise!Close
  <2> QED
    BY <2>2 DEF Promise!Next
<1>13. CASE StopDrain
  <2>1. CASE taskQueue = <<>>
    BY <1>2, <1>13, <2>1 DEF StopDrain
  <2>2. CASE taskQueue # <<>>
    <3> DEFINE t == Head(taskQueue)
    <3>1. /\ taskQueue' = Tail(taskQueue) /\ task' = [task EXCEPT ![t] = "dropped"]
          /\ stopped /\ UNCHANGED <<held, peak, stopped, lateStarts>>
      BY <1>13, <2>2 DEF StopDrain, StopInv
    <3>2. t \in Tasks /\ task[t] = "queued"
      BY <2>2, QueueTail
    <3>3. Phase' = [Phase EXCEPT ![t] = "dropped"] /\ Phase[t] = "waiting"
      BY <3>1, <3>2, PhaseMoves DEF PhaseOf
    <3>4. \E i \in DOMAIN Line : Line[i] = t /\ Line' = Promise!RemoveAt(Line, i)
      <4>1. Line' = IF held = NoTask THEN Tail(taskQueue) ELSE <<held>> \o Tail(taskQueue)
        BY <3>1 DEF Line
      <4> QED
        BY <2>2, <4>1, LineDrops
    <3> HIDE DEF t
    <3>5. Promise!Drop(t)
      BY <3>1, <3>3, <3>4 DEF Promise!Drop, Phase, Line
    <3> QED
      BY <3>2, <3>5 DEF Promise!Next
  <2> QED
    BY <2>1, <2>2
<1>14. CASE \/ SelectDone \/ TestLimit \/ Park \/ StopCancel \/ StopBroadcast
            \/ WaitIdle \/ UNCHANGED vars
  BY <1>2, <1>14 DEF SelectDone, TestLimit, Park, StopCancel, StopBroadcast, WaitIdle,
                     WaitIdleCall, ReadActive, ReadQueue, vars
<1>15. ASSUME NEW r \in Resizers, ResizeBroadcast(r) PROVE UNCHANGED Promise!vars
  BY <1>2, <1>15 DEF ResizeBroadcast
<1> QED
  BY <1>3, <1>4, <1>5, <1>6, <1>7, <1>8, <1>9, <1>10, <1>11, <1>12, <1>13, <1>14, <1>15
  DEF Next, Dispatch, Stop, Submit, Worker, Resize, CheckReceived, CheckWoken, CheckStart

(* The pool, with its goroutines, lock and condition variable, does nothing  *)
(* that TaskPool does not allow: tasks start in the order they are accepted, *)
(* within the limit, and are dropped only once the pool is stopped.          *)
THEOREM PoolKeepsPromise == Spec => KeepsPromise
<1>1. Init => StopInv
  BY DEF Init, StopInv
<1> QED
  BY <1>1, TypeInit, TypeNext, PoolInit, PoolNext, StopNext, PromiseInit, PromiseNext, PTL
  DEF Spec, KeepsPromise, Promise!Spec
===============================================================================
