------------------------------ MODULE WorkerPool ------------------------------
(*****************************************************************************)
(* workerpool.Pool: a bounded queue of tasks, one dispatcher goroutine that  *)
(* starts a worker goroutine per task while fewer than maxWorkers are        *)
(* active, and the calls Submit, Resize, WaitIdle and Stop that any          *)
(* goroutine may make at any moment.                                         *)
(*                                                                           *)
(* Grain of atomicity.  A step is one atomic load or store, one channel      *)
(* operation, or one critical section of workerMu up to the next such access *)
(* of data written without the lock.  workerMu is held between two steps     *)
(* only by the dispatcher (MuHeld); a worker's critical section is one step. *)
(* Cond.Wait first joins the notify list and then unlocks: a Signal or       *)
(* Broadcast made before the dispatcher has joined it is lost.               *)
(*****************************************************************************)
EXTENDS Integers, Sequences, FiniteSets

CONSTANTS Tasks,     \* the calls of Submit, each with its task
          NoTask,    \* the dispatcher holds no task
          Parent,    \* Parent[t]: the task whose body calls Submit(t), or NoTask
          Resizers,  \* the calls of Resize
          Sizes,     \* the arguments New and Resize are called with
          Waits,     \* whether somebody calls WaitIdle
          QueueCap,  \* the capacity of taskQueue (10000 in the code)
          Half       \* int32 ranges over -Half .. Half - 1 (2^31 in the code)

ASSUME TasksAssumption    == IsFiniteSet(Tasks) /\ NoTask \notin Tasks
ASSUME ParentAssumption   == Parent \in [Tasks -> Tasks \cup {NoTask}]
ASSUME SizesAssumption    == /\ Half \in Nat \ {0, 1}
                             /\ \A n \in Sizes : n \in Int /\ n < Half
ASSUME QueueCapAssumption == QueueCap \in Nat \ {0}

VARIABLES maxWorkers, activeCount, taskQueue, stopped,
          ctxDone,     \* cancel() was called
          dispatcher,  \* where the dispatcher goroutine is
          held,        \* the task it has received and not yet started
          task,        \* task[t]: where the Submit call, then the task, is
          resizer,     \* resizer[r]: where the Resize call is
          stopper,     \* where the Stop call that wins the CAS is
          waiter,      \* where a WaitIdle call is
          (* history *)
          peak,        \* the largest maxWorkers so far
          awaited,     \* the tasks accepted when WaitIdle was called
          lateStarts,  \* workers started after stopped was set
          overshoot    \* workers started at or above maxWorkers since it was set

poolVars == <<maxWorkers, activeCount, taskQueue, stopped, ctxDone>>
histVars == <<peak, awaited, lateStarts, overshoot>>
vars == <<poolVars, dispatcher, held, task, resizer, stopper, waiter, histVars>>

-------------------------------------------------------------------------------
Int32(n) == ((n + Half) % (2 * Half)) - Half

(* What New and Resize store for the argument n.                             *)
Limit(n) == Int32(IF n <= 0 THEN 1 ELSE n)

MuHeld == dispatcher \in {"retest", "full", "recheck", "start"}

(* The tasks whose Submit has sent them, those a worker goroutine runs, and  *)
(* those whose body has ended.                                               *)
Accepted == {t \in Tasks : task[t] \notin {"new", "sending", "refused"}}
Workers  == {t \in Tasks : task[t] \in {"spawned", "running", "returned"}}
Finished == {t \in Tasks : task[t] \in {"returned", "done"}}

(* workerCond.Signal and Broadcast: the dispatcher is the only waiter.       *)
Notified == IF dispatcher = "parked" THEN "woken" ELSE dispatcher

CountIf(b, n) == IF b THEN n + 1 ELSE n

Init == /\ maxWorkers \in {Limit(n) : n \in Sizes}
        /\ activeCount = 0
        /\ taskQueue = <<>>
        /\ stopped = FALSE
        /\ ctxDone = FALSE
        /\ dispatcher = "select"
        /\ held = NoTask
        /\ task = [t \in Tasks |-> "new"]
        /\ resizer = [r \in Resizers |-> "store"]
        /\ stopper = "cas"
        /\ waiter = "off"
        /\ peak = maxWorkers
        /\ awaited = {}
        /\ lateStarts = 0
        /\ overshoot = 0

-------------------------------------------------------------------------------
(* Submit *)

SubmitBegin(t) ==
  /\ task[t] = "new"
  /\ Parent[t] # NoTask => task[Parent[t]] = "running"
  /\ task' = [task EXCEPT ![t] = IF stopped THEN "refused" ELSE "sending"]
  /\ UNCHANGED <<poolVars, dispatcher, held, resizer, stopper, waiter, histVars>>

SubmitSend(t) ==
  /\ task[t] = "sending"
  /\ Len(taskQueue) < QueueCap
  /\ task' = [task EXCEPT ![t] = "queued"]
  /\ taskQueue' = Append(taskQueue, t)
  /\ UNCHANGED <<maxWorkers, activeCount, stopped, ctxDone, dispatcher, held,
                 resizer, stopper, waiter, histVars>>

SubmitCancelled(t) ==
  /\ task[t] = "sending"
  /\ ctxDone
  /\ task' = [task EXCEPT ![t] = "refused"]
  /\ UNCHANGED <<poolVars, dispatcher, held, resizer, stopper, waiter, histVars>>

-------------------------------------------------------------------------------
(* The dispatcher *)

SelectDone ==
  /\ dispatcher = "select"
  /\ ctxDone
  /\ dispatcher' = "exited"
  /\ UNCHANGED <<poolVars, held, task, resizer, stopper, waiter, histVars>>

(* A mutant: the newest task first. *)
ReceiveNewest ==
  /\ dispatcher = "select"
  /\ taskQueue # <<>>
  /\ dispatcher' = "received"
  /\ held' = taskQueue[Len(taskQueue)]
  /\ taskQueue' = SubSeq(taskQueue, 1, Len(taskQueue) - 1)
  /\ task' = [task EXCEPT ![taskQueue[Len(taskQueue)]] = "held"]
  /\ UNCHANGED <<maxWorkers, activeCount, stopped, ctxDone, resizer, stopper,
                 waiter, histVars>>

Receive ==
  /\ dispatcher = "select"
  /\ taskQueue # <<>>
  /\ dispatcher' = "received"
  /\ held' = Head(taskQueue)
  /\ taskQueue' = Tail(taskQueue)
  /\ task' = [task EXCEPT ![Head(taskQueue)] = "held"]
  /\ UNCHANGED <<maxWorkers, activeCount, stopped, ctxDone, resizer, stopper,
                 waiter, histVars>>

(* Each of the three loads of stopped: the dispatcher goes on to next, or    *)
(* returns (releasing workerMu if it holds it) and the task is lost.         *)
UnlessStopped(at, next) ==
  /\ dispatcher = at
  /\ IF stopped
     THEN /\ dispatcher' = "exited"
          /\ held' = NoTask
          /\ task' = [task EXCEPT ![held] = "dropped"]
     ELSE /\ dispatcher' = next
          /\ UNCHANGED <<held, task>>
  /\ UNCHANGED <<poolVars, resizer, stopper, waiter, histVars>>

CheckReceived == UnlessStopped("received", "lock")

(* A mutant: Wait in an if, not in a for. *)
CheckWokenOnce == UnlessStopped("woken", "recheck")

CheckWoken    == UnlessStopped("woken", "retest")
CheckStart    == UnlessStopped("recheck", "start")

(* Lock, or the next turn of the loop: the condition of the for.             *)
TestLimit ==
  /\ dispatcher \in {"lock", "retest"}
  /\ dispatcher' = IF activeCount >= maxWorkers THEN "full" ELSE "recheck"
  /\ UNCHANGED <<poolVars, held, task, resizer, stopper, waiter, histVars>>

(* Cond.Wait: join the notify list and unlock.                               *)
Park ==
  /\ dispatcher = "full"
  /\ dispatcher' = "parked"
  /\ UNCHANGED <<poolVars, held, task, resizer, stopper, waiter, histVars>>

(* A mutant: the worker is not counted. *)
StartWorkerUncounted ==
  /\ dispatcher = "start"
  /\ dispatcher' = "select"
  /\ task' = [task EXCEPT ![held] = "spawned"]
  /\ held' = NoTask
  /\ UNCHANGED <<poolVars, resizer, stopper, waiter, histVars>>

StartWorker ==
  /\ dispatcher = "start"
  /\ dispatcher' = "select"
  /\ activeCount' = activeCount + 1
  /\ task' = [task EXCEPT ![held] = "spawned"]
  /\ held' = NoTask
  /\ lateStarts' = CountIf(stopped, lateStarts)
  /\ overshoot' = CountIf(activeCount >= maxWorkers, overshoot)
  /\ UNCHANGED <<maxWorkers, taskQueue, stopped, ctxDone, resizer, stopper,
                 waiter, peak, awaited>>

-------------------------------------------------------------------------------
(* A worker *)

RunTask(t) ==
  /\ task[t] = "spawned"
  /\ task' = [task EXCEPT ![t] = "running"]
  /\ UNCHANGED <<poolVars, dispatcher, held, resizer, stopper, waiter, histVars>>

(* The body returns or panics, once every Submit it makes has returned.      *)
TaskReturns(t) ==
  /\ task[t] = "running"
  /\ \A u \in Tasks : Parent[u] = t => task[u] \notin {"new", "sending"}
  /\ task' = [task EXCEPT ![t] = "returned"]
  /\ UNCHANGED <<poolVars, dispatcher, held, resizer, stopper, waiter, histVars>>

(* A mutant: no Signal. *)
WorkerExitsSilently(t) ==
  /\ task[t] = "returned"
  /\ ~MuHeld
  /\ task' = [task EXCEPT ![t] = "done"]
  /\ activeCount' = activeCount - 1
  /\ UNCHANGED <<maxWorkers, taskQueue, stopped, ctxDone, dispatcher, held, resizer,
                 stopper, waiter, histVars>>

WorkerExits(t) ==
  /\ task[t] = "returned"
  /\ ~MuHeld
  /\ task' = [task EXCEPT ![t] = "done"]
  /\ activeCount' = activeCount - 1
  /\ dispatcher' = Notified
  /\ UNCHANGED <<maxWorkers, taskQueue, stopped, ctxDone, held, resizer, stopper,
                 waiter, histVars>>

-------------------------------------------------------------------------------
(* Resize, which takes no lock *)

ResizeStore(r) ==
  /\ resizer[r] = "store"
  /\ \E n \in Sizes :
       /\ maxWorkers' = Limit(n)
       /\ peak' = IF Limit(n) > peak THEN Limit(n) ELSE peak
  /\ resizer' = [resizer EXCEPT ![r] = "broadcast"]
  /\ overshoot' = 0
  /\ UNCHANGED <<activeCount, taskQueue, stopped, ctxDone, dispatcher, held, task,
                 stopper, waiter, awaited, lateStarts>>

(* A mutant: the limit is only stored. *)
ResizeSilently(r) ==
  /\ resizer[r] = "broadcast"
  /\ resizer' = [resizer EXCEPT ![r] = "returned"]
  /\ UNCHANGED <<poolVars, dispatcher, held, task, stopper, waiter, histVars>>

ResizeBroadcast(r) ==
  /\ resizer[r] = "broadcast"
  /\ resizer' = [resizer EXCEPT ![r] = "returned"]
  /\ dispatcher' = Notified
  /\ UNCHANGED <<poolVars, held, task, stopper, waiter, histVars>>

-------------------------------------------------------------------------------
(* Stop.  A second call loses the CAS, returns at once and changes nothing.  *)

StopCAS ==
  /\ stopper = "cas"
  /\ stopped' = TRUE
  /\ stopper' = "cancel"
  /\ UNCHANGED <<maxWorkers, activeCount, taskQueue, ctxDone, dispatcher, held,
                 task, resizer, waiter, histVars>>

StopCancel ==
  /\ stopper = "cancel"
  /\ ctxDone' = TRUE
  /\ stopper' = "broadcast"
  /\ UNCHANGED <<maxWorkers, activeCount, taskQueue, stopped, dispatcher, held,
                 task, resizer, waiter, histVars>>

StopBroadcast ==
  /\ stopper = "broadcast"
  /\ dispatcher' = Notified
  /\ stopper' = "drain"
  /\ UNCHANGED <<poolVars, held, task, resizer, waiter, histVars>>

StopDrain ==
  /\ stopper = "drain"
  /\ IF taskQueue = <<>>
     THEN /\ stopper' = "returned"
          /\ UNCHANGED <<taskQueue, task>>
     ELSE /\ taskQueue' = Tail(taskQueue)
          /\ task' = [task EXCEPT ![Head(taskQueue)] = "dropped"]
          /\ UNCHANGED stopper
  /\ UNCHANGED <<maxWorkers, activeCount, stopped, ctxDone, dispatcher, held,
                 resizer, waiter, histVars>>

-------------------------------------------------------------------------------
(* WaitIdle polls IsIdle, which reads activeCount and then the queue length. *)

WaitIdleCall ==
  /\ Waits
  /\ waiter = "off"
  /\ waiter' = "readActive"
  /\ awaited' = Accepted
  /\ UNCHANGED <<poolVars, dispatcher, held, task, resizer, stopper, peak,
                 lateStarts, overshoot>>

ReadActive ==
  /\ waiter = "readActive"
  /\ activeCount = 0
  /\ waiter' = "readQueue"
  /\ UNCHANGED <<poolVars, dispatcher, held, task, resizer, stopper, histVars>>

ReadQueue ==
  /\ waiter = "readQueue"
  /\ waiter' = IF taskQueue = <<>> THEN "idle" ELSE "readActive"
  /\ UNCHANGED <<poolVars, dispatcher, held, task, resizer, stopper, histVars>>

-------------------------------------------------------------------------------
Dispatch == \/ SelectDone \/ Receive \/ CheckReceived \/ TestLimit \/ Park
            \/ CheckWoken \/ CheckStart \/ StartWorker

Submit(t)  == SubmitBegin(t) \/ SubmitSend(t) \/ SubmitCancelled(t)
Worker(t)  == RunTask(t) \/ TaskReturns(t) \/ WorkerExits(t)
Resize(r)  == ResizeStore(r) \/ ResizeBroadcast(r)
Stop       == StopCAS \/ StopCancel \/ StopBroadcast \/ StopDrain
WaitIdle   == WaitIdleCall \/ ReadActive \/ ReadQueue

Next == \/ Dispatch \/ Stop \/ WaitIdle
        \/ \E t \in Tasks : Submit(t) \/ Worker(t)
        \/ \E r \in Resizers : Resize(r)

Spec == Init /\ [][Next]_vars

(* Goroutines are scheduled fairly and every call that has begun goes on.    *)
(* Nobody is obliged to call Submit, Resize, Stop or WaitIdle, except a task *)
(* that is to submit another one.                                            *)
GoroutinesRun ==
  /\ WF_vars(Dispatch)
  /\ WF_vars(StopCancel \/ StopBroadcast \/ StopDrain)
  /\ WF_vars(ReadActive \/ ReadQueue)
  /\ \A r \in Resizers : WF_vars(ResizeBroadcast(r))
  /\ \A t \in Tasks : /\ WF_vars(SubmitSend(t) \/ SubmitCancelled(t))
                      /\ WF_vars(Parent[t] # NoTask /\ SubmitBegin(t))
                      /\ WF_vars(RunTask(t))
                      /\ WF_vars(WorkerExits(t))

FairSpec == Spec /\ GoroutinesRun

(* In addition the bodies of the tasks end.                                  *)
TerminatingSpec == FairSpec /\ \A t \in Tasks : WF_vars(TaskReturns(t))
-------------------------------------------------------------------------------
(* Type correctness; activeCount counts the worker goroutines exactly, and   *)
(* the dispatcher holds the one task that is neither queued nor started.     *)
TypeOK ==
  /\ maxWorkers \in Int /\ peak \in Int
  /\ activeCount = Cardinality(Workers)
  /\ taskQueue \in Seq(Tasks)
  /\ Len(taskQueue) <= QueueCap
  /\ stopped \in BOOLEAN /\ ctxDone \in BOOLEAN
  /\ dispatcher \in {"select", "received", "lock", "retest", "full", "parked",
                     "woken", "recheck", "start", "exited"}
  /\ IF dispatcher \in {"select", "exited"} THEN held = NoTask
     ELSE held \in Tasks /\ task[held] = "held"
  /\ task \in [Tasks -> {"new", "sending", "refused", "queued", "held", "spawned",
                         "running", "returned", "done", "dropped"}]
  /\ resizer \in [Resizers -> {"store", "broadcast", "returned"}]
  /\ stopper \in {"cas", "cancel", "broadcast", "drain", "returned"}
  /\ waiter \in {"off", "readActive", "readQueue", "idle"}
  /\ awaited \subseteq Tasks
  /\ lateStarts \in Nat /\ overshoot \in Nat

(* There are never more worker goroutines than the largest limit the pool    *)
(* has had, although the limit may change between the dispatcher's test and  *)
(* its increment of activeCount.                                             *)
ConcurrencyBound == Cardinality(Workers) <= peak

(* A Resize that lowers the limit takes hold at once, but for the one task   *)
(* the dispatcher had already found room for.                                *)
ShrinkOvershootsByOne == overshoot <= 1

(* Stop lets at most one more task start: the one whose dispatcher had       *)
(* loaded stopped for the last time before the CAS.                          *)
AtMostOneLateStart == lateStarts <= 1

(* The dispatcher never waits on workerCond with no worker left to signal    *)
(* it: Resize and Stop broadcast without the lock, so their wakeup may be    *)
(* lost, and only a worker's own Signal is sure to arrive.                   *)
NeverParkedIdle == dispatcher = "parked" => activeCount > 0

(* When WaitIdle returns, no task accepted before the call is still queued,  *)
(* even though the pool's two counters were read at different moments.       *)
WaitIdleDrains == waiter = "idle" => \A t \in awaited : task[t] # "queued"

(* Every worker waits in a Submit of its own task, the queue is full, and    *)
(* the dispatcher, which holds one more task, waits for a worker to end.     *)
Stuck ==
  /\ dispatcher = "parked" /\ Len(taskQueue) = QueueCap
  /\ Workers # {}
  /\ \A t \in Workers : \E u \in Tasks : Parent[u] = t /\ task[u] = "sending"

(* The tasks of Submit calls that have begun, until their worker has ended.  *)
Busy == {t \in Tasks : task[t] \in {"sending", "queued", "held"}} \cup Workers

(* Every Submit returns and every task it has had accepted is done, unless   *)
(* the pool is stopped, or stuck for ever with workers that submit to it: a  *)
(* wakeup that is lost delays a task, but never for good.                    *)
WorkEnds == <>[](Busy = {} \/ stopped) \/ <>[]Stuck

(* Stop releases whoever is blocked, in a pool that is stuck as well: the    *)
(* dispatcher, the workers and the Submit calls end.                         *)
StopReleases ==
  <>[](stopped => /\ dispatcher = "exited" /\ Workers = {}
                  /\ \A t \in Tasks : task[t] # "sending")

(* So does a Resize that raises the limit of a stuck pool before it calls    *)
(* Broadcast: the task held is started, unless the limit falls again.        *)
ResizeReleases ==
  /\ Stuck /\ activeCount < maxWorkers
  /\ \E r \in Resizers : resizer[r] = "broadcast"
  ~> stopped \/ activeCount >= maxWorkers \/ dispatcher = "select"

(* The pool comes to the end of its work, or to its own, or is stuck until   *)
(* it is resized or stopped.                                                 *)
PoolGoesOn == WorkEnds /\ StopReleases /\ ResizeReleases

-------------------------------------------------------------------------------
(* The pool implements the abstract pool of TaskPool.                        *)
PhaseOf(s) == CASE s = "sending" -> "offered"
                [] s \in {"queued", "held"} -> "waiting"
                [] s \in {"spawned", "running", "returned"} -> "active"
                [] OTHER -> s

Promise == INSTANCE TaskPool WITH
  phase   <- [t \in Tasks |-> PhaseOf(task[t])],
  line    <- IF held = NoTask THEN taskQueue ELSE <<held>> \o taskQueue,
  ceiling <- peak,
  closed  <- stopped,
  late    <- lateStarts

(* Tasks are started in the order they were accepted, within the limit, and  *)
(* dropped only after Stop: every step of the pool is a step of TaskPool.    *)
KeepsPromise == Promise!Spec

-------------------------------------------------------------------------------
(* Claims of the source that interleavings refute.                           *)

(* WaitIdle waits for the tasks submitted before it was called.              *)
WaitIdleCompletes == waiter = "idle" /\ ~stopped => awaited \subseteq Finished

(* Resize adjusts the number of workers: with room below the limit, the      *)
(* dispatcher is not left waiting unless a broadcast is on its way.          *)
ResizeWakesDispatcher ==
  dispatcher = "parked" /\ activeCount < maxWorkers =>
    \E r \in Resizers : resizer[r] = "broadcast"

(* Stop empties the queue.                                                   *)
StopEmptiesQueue == stopper = "returned" => taskQueue = <<>>
===============================================================================
