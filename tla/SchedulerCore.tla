--------------------------- MODULE SchedulerCore ---------------------------
(***************************************************************************)
(* The part of sylar::Scheduler and sylar::Fiber that every scheduler      *)
(* shares: the task queue, the run() loop of each scheduling thread, the   *)
(* fibers it switches to, and start() and stop() of the owning thread.     *)
(* tickle() and idle() are virtual in the code; here a worker waits at a   *)
(* "tickle_..." or "idle" label for the step the extending module gives.   *)
(*                                                                         *)
(* A step is the code between two accesses to shared state; a critical     *)
(* section of m_mutex is one step.  Task bodies are nondeterministic.      *)
(***************************************************************************)
EXTENDS Integers, FiniteSets, SequencesExt

CONSTANTS
  Workers,      \* threads that execute run()
  RootThread,   \* m_rootThread: the use_caller thread, or AnyThread (-1)
  AnyThread,    \* the thread id -1: not bound to a thread
  Pins,         \* thread arguments that schedule() is called with
  Fibers, NoFiber,
  Tasks, NoTask,
  MaxYields,    \* bound: how often one task yields
  MaxStops,     \* bound: how often stop() is called
  CountMod      \* 2^width of size_t

ASSUME ThreadsAssumption ==
  /\ AnyThread \notin Workers
  /\ RootThread \in Workers \cup {AnyThread}
  /\ Pins \subseteq Workers \cup {AnyThread}
  /\ IsFiniteSet(Workers) /\ Workers # {}
ASSUME NamesAssumption == NoFiber \notin Fibers /\ NoTask \notin Tasks
ASSUME BoundsAssumption ==
  MaxYields \in Nat /\ MaxStops \in Nat /\ CountMod \in Nat \ {0}

VARIABLES
  m_fibers,             \* task queue: sequence of FiberAndThread
  m_activeThreadCount, m_idleThreadCount,
  m_state, m_cb,        \* of each fiber
  pc, ft, cb_fiber, idle_state, reg, \* locals of run() in each worker
  armed,                \* fibers somebody holds in order to schedule them later
  fresh, done,          \* tasks not scheduled yet; tasks that ended
  yields,               \* number of yields of each task
  m_autostop, main, tickles, stops,  \* the thread that owns the scheduler
  failed                \* message of the assertion that failed, or "none"

fiberVars  == <<m_state, m_cb>>
workerVars == <<pc, ft, cb_fiber, idle_state, reg>>
countVars  == <<m_activeThreadCount, m_idleThreadCount>>
taskVars   == <<armed, fresh, done, yields>>
mainVars   == <<m_autostop, main, tickles, stops>>
coreVars   == <<m_fibers, countVars, fiberVars, workerVars, taskVars,
                mainVars, failed>>

States == {"INIT", "HOLD", "EXEC", "TERM", "READY", "EXCEPT"}
Ended  == {"TERM", "EXCEPT"}
Pool   == Workers \ {RootThread}

FiberAndThread == [fiber  : Fibers \cup {NoFiber},
                   cb     : Tasks \cup {NoTask},
                   thread : Workers \cup {AnyThread}]
Nothing           == [fiber |-> NoFiber, cb |-> NoTask, thread |-> AnyThread]
FiberEntry(f)     == [fiber |-> f, cb |-> NoTask, thread |-> AnyThread]
TaskEntry(t, pin) == [fiber |-> NoFiber, cb |-> t, thread |-> pin]

\* The labels of run(), and of the task body a worker is switched to.
Labels == {"off", "scan", "tickle_scan", "dispatch", "incw", "swapin", "task",
           "tickle_task", "tickle_park", "parking", "dec", "decw", "after",
           "tickle_after", "iincw", "idle", "idec", "idecw", "exited"}

Goto(w, from, to) == pc[w] = from /\ pc' = [pc EXCEPT ![w] = to]
Check(holds, message) == failed' = IF holds THEN failed ELSE message

\* The fiber worker w is about to run, runs, or has just left.
Cur(w) == IF ft[w].fiber # NoFiber THEN ft[w].fiber ELSE cb_fiber[w]

Queued(f) == \E i \in DOMAIN m_fibers : m_fibers[i].fiber = f

\* A fiber object nothing refers to.  A suspended fiber keeps itself alive:
\* MainFunc holds a shared_ptr to it on its own stack.
Free(f) == /\ m_state[f] \in Ended \cup {"INIT"}
           /\ ~Queued(f)
           /\ f \notin armed
           /\ \A w \in Workers : cb_fiber[w] # f /\ ft[w].fiber # f

CoreInit ==
  /\ m_fibers = <<>>
  /\ m_activeThreadCount = 0 /\ m_idleThreadCount = 0
  /\ m_state = [f \in Fibers |-> "INIT"]
  /\ m_cb = [f \in Fibers |-> NoTask]
  /\ pc = [w \in Workers |-> "off"]
  /\ ft = [w \in Workers |-> Nothing]
  /\ cb_fiber = [w \in Workers |-> NoFiber]
  /\ idle_state = [w \in Workers |-> "INIT"]
  /\ reg = [w \in Workers |-> 0]
  /\ armed = {} /\ fresh = Tasks /\ done = {}
  /\ yields = [t \in Tasks |-> 0]
  /\ m_autostop = FALSE /\ main = "created" /\ tickles = 0 /\ stops = 0
  /\ failed = "none"

-----------------------------------------------------------------------------
(* schedule(): the critical section; need_tickle is the queue being empty. *)

Push(entry) == m_fibers' = Append(m_fibers, entry)
NeedTickle  == m_fibers = <<>>

ScheduleTask == \E t \in fresh, pin \in Pins :
  /\ Push(TaskEntry(t, pin))
  /\ fresh' = fresh \ {t}
  /\ UNCHANGED <<armed, done, yields>>

ScheduleArmed == \E f \in armed :
  /\ Push(FiberEntry(f))
  /\ armed' = armed \ {f}
  /\ UNCHANGED <<fresh, done, yields>>

-----------------------------------------------------------------------------
(* run()                                                                   *)

TakesRunning(w, e) == e.thread \in {AnyThread, w} \* mutant: EXEC not tested
Eligible(w, e) == /\ e.thread \in {AnyThread, w}
                  /\ e.fiber # NoFiber => m_state[e.fiber] # "EXEC"
ForeignBefore(w, n) ==
  \E j \in 1..(n - 1) : m_fibers[j].thread \notin {AnyThread, w}
AfterScan(w, n) == IF ForeignBefore(w, n) THEN "tickle_scan" ELSE "dispatch"

\* The scan of the queue under m_mutex: the first entry w may run is taken.
ScanTakes(w) ==
  \E i \in DOMAIN m_fibers :
    /\ Eligible(w, m_fibers[i])
    /\ \A j \in 1..(i - 1) : ~Eligible(w, m_fibers[j])
    /\ ft' = [ft EXCEPT ![w] = m_fibers[i]]
    /\ m_fibers' = RemoveAt(m_fibers, i)
    /\ Goto(w, "scan", AfterScan(w, i))
\* Mutant: the scan ends at an entry bound to another thread.
ScanGivesUp(w) ==
  /\ \A i \in DOMAIN m_fibers : ~Eligible(w, m_fibers[i]) \/ ForeignBefore(w, i)
  /\ Goto(w, "scan", AfterScan(w, Len(m_fibers) + 1))
  /\ UNCHANGED <<ft, m_fibers>>
ScanFindsNothing(w) ==
  /\ \A i \in DOMAIN m_fibers : ~Eligible(w, m_fibers[i])
  /\ Goto(w, "scan", AfterScan(w, Len(m_fibers) + 1))
  /\ UNCHANGED <<ft, m_fibers>>
Scan(w) ==
  /\ pc[w] = "scan"
  /\ ScanTakes(w) \/ ScanFindsNothing(w)
  /\ UNCHANGED <<fiberVars, cb_fiber, idle_state, reg, countVars, taskVars,
                 mainVars, failed>>

\* ++ and -- of a plain size_t: a load into a register and a later store, with
\* no lock held.
LoadActive(w) == reg' = [reg EXCEPT ![w] = m_activeThreadCount]
LoadIdle(w)   == reg' = [reg EXCEPT ![w] = m_idleThreadCount]
\* Mutant: a signed counter.
StoreSigned(w, delta) ==
  /\ m_activeThreadCount' = reg[w] + delta
  /\ reg' = [reg EXCEPT ![w] = 0]
  /\ UNCHANGED m_idleThreadCount
StoreActive(w, delta) ==
  /\ m_activeThreadCount' = (reg[w] + delta) % CountMod
  /\ reg' = [reg EXCEPT ![w] = 0]
  /\ UNCHANGED m_idleThreadCount
StoreIdle(w, delta) ==
  /\ m_idleThreadCount' = (reg[w] + delta) % CountMod
  /\ reg' = [reg EXCEPT ![w] = 0]
  /\ UNCHANGED m_activeThreadCount

\* A queued fiber is run whatever its state: the test in the code,
\* "not TERM or not EXCEPT", is always true.
DispatchFiber(w) ==
  /\ Goto(w, "dispatch", "incw")
  /\ ft[w].fiber # NoFiber
  /\ LoadActive(w)
  /\ UNCHANGED <<m_fibers, fiberVars, ft, cb_fiber, idle_state, countVars,
                 taskVars, mainVars, failed>>

\* A queued function is bound to the worker's cb_fiber: an old one is reset,
\* else a new one is made.
DispatchCb(w) ==
  /\ Goto(w, "dispatch", "incw")
  /\ ft[w].fiber = NoFiber /\ ft[w].cb # NoTask
  /\ \E f \in Fibers :
       /\ IF cb_fiber[w] # NoFiber THEN f = cb_fiber[w] ELSE Free(f)
       /\ Check(m_state[f] \in Ended \cup {"INIT"}, "reset")
       /\ m_cb' = [m_cb EXCEPT ![f] = ft[w].cb]
       /\ m_state' = [m_state EXCEPT ![f] = "INIT"]
       /\ cb_fiber' = [cb_fiber EXCEPT ![w] = f]
  /\ ft' = [ft EXCEPT ![w] = Nothing]
  /\ LoadActive(w)
  /\ UNCHANGED <<m_fibers, idle_state, countVars, taskVars, mainVars>>

DispatchIdle(w) ==
  /\ Goto(w, "dispatch", "iincw")
  /\ ft[w] = Nothing /\ idle_state[w] # "TERM"
  /\ LoadIdle(w)
  /\ UNCHANGED <<m_fibers, fiberVars, ft, cb_fiber, idle_state, countVars,
                 taskVars, mainVars, failed>>

\* cb_fiber.reset(), or the end of its scope.
KeepsFiber(w) == UNCHANGED cb_fiber \* mutant: the reset is missing
LetsGo(w) == cb_fiber' = [cb_fiber EXCEPT ![w] = NoFiber]

Exit(w) ==
  /\ Goto(w, "dispatch", "exited")
  /\ ft[w] = Nothing /\ idle_state[w] = "TERM"
  /\ LetsGo(w)
  /\ UNCHANGED <<m_fibers, fiberVars, ft, idle_state, reg, countVars, taskVars,
                 mainVars, failed>>

CountTask(w) ==
  /\ Goto(w, "incw", "swapin")
  /\ StoreActive(w, 1)
  /\ UNCHANGED <<m_fibers, fiberVars, ft, cb_fiber, idle_state, taskVars,
                 mainVars, failed>>

\* Fiber::swapIn().  A context that has ended is entered again behind the last
\* swapOut() of MainFunc.
SwapInFails(state) == CASE state = "EXEC" -> "swapIn"
                        [] state \in Ended -> "never reach"
                        [] OTHER -> failed
SwapIn(w) ==
  /\ Goto(w, "swapin", "task")
  /\ failed' = SwapInFails(m_state[Cur(w)])
  /\ m_state' = [m_state EXCEPT ![Cur(w)] = "EXEC"]
  /\ UNCHANGED <<m_fibers, m_cb, ft, cb_fiber, idle_state, reg, countVars,
                 taskVars, mainVars>>

\* Back in run() after the fiber swapped out.
SwappedBack(w) ==
  /\ Goto(w, "dec", "decw")
  /\ LoadActive(w)
  /\ UNCHANGED <<m_fibers, fiberVars, ft, cb_fiber, idle_state, countVars,
                 taskVars, mainVars, failed>>
UncountTask(w) ==
  /\ Goto(w, "decw", "after")
  /\ StoreActive(w, -1)
  /\ UNCHANGED <<m_fibers, fiberVars, ft, cb_fiber, idle_state, taskVars,
                 mainVars, failed>>

\* A fiber taken from the queue is only let go of: its state stays what the
\* fiber left in it.
AfterFiber(w) ==
  /\ Goto(w, "after", "scan")
  /\ ft[w].fiber # NoFiber
  /\ ft' = [ft EXCEPT ![w] = Nothing]
  /\ UNCHANGED <<m_fibers, fiberVars, cb_fiber, idle_state, reg, countVars,
                 taskVars, mainVars, failed>>
\* A function's fiber is queued again, kept for the next function, or let go.
AfterCb(w) == pc[w] = "after" /\ ft[w].fiber = NoFiber
CbReady(w) ==
  /\ AfterCb(w) /\ m_state[cb_fiber[w]] = "READY"
  /\ Push(FiberEntry(cb_fiber[w]))
  /\ Goto(w, "after", IF NeedTickle THEN "tickle_after" ELSE "scan")
  /\ LetsGo(w)
  /\ UNCHANGED <<fiberVars, ft, idle_state, reg, countVars, taskVars, mainVars,
                 failed>>
CbEnded(w) ==
  /\ AfterCb(w) /\ m_state[cb_fiber[w]] \in Ended
  /\ Goto(w, "after", "scan")
  /\ m_state' = [m_state EXCEPT ![cb_fiber[w]] = "INIT"]
  /\ m_cb' = [m_cb EXCEPT ![cb_fiber[w]] = NoTask]
  /\ UNCHANGED <<m_fibers, ft, cb_fiber, idle_state, reg, countVars, taskVars,
                 mainVars, failed>>
CbHeld(w) ==
  /\ AfterCb(w) /\ m_state[cb_fiber[w]] \notin Ended \cup {"READY"}
  /\ Goto(w, "after", "scan")
  /\ m_state' = [m_state EXCEPT ![cb_fiber[w]] = "HOLD"]
  /\ LetsGo(w)
  /\ UNCHANGED <<m_fibers, m_cb, ft, idle_state, reg, countVars, taskVars,
                 mainVars, failed>>

\* The idle fiber belongs to its worker alone: it is switched to with the store
\* of the count, and judged with the store that undoes it.
IdleSwapIn(w) ==
  /\ Goto(w, "iincw", "idle")
  /\ StoreIdle(w, 1)
  /\ Check(idle_state[w] # "EXEC", "swapIn")
  /\ idle_state' = [idle_state EXCEPT ![w] = "EXEC"]
  /\ UNCHANGED <<m_fibers, fiberVars, ft, cb_fiber, taskVars, mainVars>>
IdleSwappedBack(w) ==
  /\ Goto(w, "idec", "idecw")
  /\ LoadIdle(w)
  /\ UNCHANGED <<m_fibers, fiberVars, ft, cb_fiber, idle_state, countVars,
                 taskVars, mainVars, failed>>
AfterIdle(w) ==
  /\ Goto(w, "idecw", "scan")
  /\ StoreIdle(w, -1)
  /\ idle_state' = [idle_state EXCEPT
                      ![w] = IF @ \in Ended THEN @ ELSE "HOLD"]
  /\ UNCHANGED <<m_fibers, fiberVars, ft, cb_fiber, taskVars, mainVars, failed>>

\* idle() returns: its fiber ends.
IdleNeverEnds(w) == \* mutant: idle() only yields
  /\ Goto(w, "idle", "idec")
  /\ UNCHANGED <<m_fibers, fiberVars, ft, cb_fiber, idle_state, reg, countVars,
                 taskVars, mainVars, failed>>
IdleReturns(w) ==
  /\ Goto(w, "idle", "idec")
  /\ idle_state' = [idle_state EXCEPT ![w] = "TERM"]
  /\ UNCHANGED <<m_fibers, fiberVars, ft, cb_fiber, reg, countVars, taskVars,
                 mainVars, failed>>

TickleLabel == [tickle_scan |-> "dispatch", tickle_task |-> "task",
                tickle_park |-> "parking", tickle_after |-> "scan"]
\* tickle() returns in worker w.
Tickled(w) ==
  /\ \E l \in DOMAIN TickleLabel : Goto(w, l, TickleLabel[l])
  /\ UNCHANGED <<m_fibers, fiberVars, ft, cb_fiber, idle_state, reg, countVars,
                 taskVars, mainVars, failed>>

RunStep(w) == \/ Scan(w)
              \/ DispatchFiber(w) \/ DispatchCb(w) \/ DispatchIdle(w) \/ Exit(w)
              \/ CountTask(w) \/ SwapIn(w) \/ SwappedBack(w) \/ UncountTask(w)
              \/ AfterFiber(w) \/ CbReady(w) \/ CbEnded(w) \/ CbHeld(w)
              \/ IdleSwapIn(w) \/ IdleSwappedBack(w) \/ AfterIdle(w)

-----------------------------------------------------------------------------
(* What the body of a task may do, in the fiber that worker w runs.        *)

TaskOf(w) == m_cb[Cur(w)]
MayYield(w) == yields[TaskOf(w)] < MaxYields
Yielding(w) == yields' = [yields EXCEPT ![TaskOf(w)] = @ + 1]

\* It schedules a new task, or a fiber it was given to wake up.
TaskCallsSchedule(w) ==
  /\ Goto(w, "task", IF NeedTickle THEN "tickle_task" ELSE "task")
  /\ UNCHANGED <<fiberVars, ft, cb_fiber, idle_state, reg, countVars, mainVars,
                 failed>>
TaskSchedules(w) == TaskCallsSchedule(w) /\ ScheduleTask
TaskWakes(w)     == TaskCallsSchedule(w) /\ ScheduleArmed

\* It hands its own fiber to whoever will schedule it, then yields to hold.
TaskArms(w) ==
  /\ Goto(w, "task", "parking")
  /\ MayYield(w) /\ Yielding(w)
  /\ armed' = armed \cup {Cur(w)}
  /\ UNCHANGED <<m_fibers, fiberVars, ft, cb_fiber, idle_state, reg, countVars,
                 fresh, done, mainVars, failed>>

\* It schedules its own fiber while it runs, then yields to hold.
TaskRequeues(w) ==
  /\ Goto(w, "task", IF NeedTickle THEN "tickle_park" ELSE "parking")
  /\ MayYield(w) /\ Yielding(w)
  /\ Push(FiberEntry(Cur(w)))
  /\ UNCHANGED <<fiberVars, ft, cb_fiber, idle_state, reg, countVars, armed,
                 fresh, done, mainVars, failed>>

\* The state stays EXEC until run() sets HOLD.
YieldToHold(w) ==
  /\ Goto(w, "parking", "dec")
  /\ Check(m_state[Cur(w)] = "EXEC", "YieldToHold")
  /\ UNCHANGED <<m_fibers, fiberVars, ft, cb_fiber, idle_state, reg, countVars,
                 taskVars, mainVars>>

YieldToReady(w) ==
  /\ Goto(w, "task", "dec")
  /\ MayYield(w) /\ Yielding(w)
  /\ m_state' = [m_state EXCEPT ![Cur(w)] = "READY"]
  /\ UNCHANGED <<m_fibers, m_cb, ft, cb_fiber, idle_state, reg, countVars,
                 armed, fresh, done, mainVars, failed>>

\* MainFunc() after m_cb() returned, or threw.
MainFunc(w) ==
  /\ Goto(w, "task", "dec")
  /\ done' = done \cup {TaskOf(w)}
  /\ \/ /\ m_state' = [m_state EXCEPT ![Cur(w)] = "TERM"]
        /\ m_cb' = [m_cb EXCEPT ![Cur(w)] = NoTask]
     \/ /\ m_state' = [m_state EXCEPT ![Cur(w)] = "EXCEPT"]
        /\ UNCHANGED m_cb
  /\ UNCHANGED <<m_fibers, ft, cb_fiber, idle_state, reg, countVars, armed,
                 fresh, yields, mainVars, failed>>

-----------------------------------------------------------------------------
(* The thread that owns the scheduler.                                     *)

OwnerLabel == [created_tickle |-> "created", started_tickle |-> "started"]

\* It schedules a task or a waiting fiber from outside.
OwnerCallsSchedule ==
  /\ \/ /\ main = "created"
        /\ main' = IF NeedTickle THEN "created_tickle" ELSE main
     \/ /\ main = "started"
        /\ main' = IF NeedTickle THEN "started_tickle" ELSE main
  /\ UNCHANGED <<fiberVars, workerVars, countVars, m_autostop, tickles, stops,
                 failed>>
OwnerSchedules == OwnerCallsSchedule /\ ScheduleTask
OwnerWakes     == OwnerCallsSchedule /\ ScheduleArmed
OwnerTickled ==
  /\ main \in DOMAIN OwnerLabel /\ main' = OwnerLabel[main]
  /\ UNCHANGED <<m_fibers, fiberVars, workerVars, countVars, taskVars,
                 m_autostop, tickles, stops, failed>>

\* start() holds m_mutex until every thread exists, so they start together.
Start ==
  /\ main = "created" /\ main' = "started"
  /\ pc' = [w \in Workers |-> IF w \in Pool THEN "scan" ELSE pc[w]]
  /\ UNCHANGED <<m_fibers, fiberVars, ft, cb_fiber, idle_state, reg, countVars,
                 taskVars, m_autostop, tickles, stops, failed>>

\* m_stopping is true from construction on.
StoppingBase == m_autostop' /\ m_fibers = <<>> /\ m_activeThreadCount = 0

\* stop() up to the calls of tickle(); canStop is the virtual stopping().
\* The root fiber is INIT or TERM whenever its owner is here.
Stop(canStop) ==
  /\ main = "started" \/ main = "stopped"
  /\ stops < MaxStops /\ stops' = stops + 1
  /\ m_autostop' = TRUE
  /\ IF RootThread \in Workers /\ Pool = {} /\ canStop
       THEN main' = "stopped" /\ UNCHANGED tickles
       ELSE /\ main' = "stop_tickle"
            /\ tickles' = Cardinality(Workers)
  /\ UNCHANGED <<m_fibers, fiberVars, workerVars, countVars, taskVars, failed>>
StopTickled ==
  /\ main = "stop_tickle" /\ tickles > 0
  /\ tickles' = tickles - 1
  /\ UNCHANGED <<m_fibers, fiberVars, workerVars, countVars, taskVars,
                 m_autostop, main, stops, failed>>
\* m_rootFiber->swapIn(): run() on the caller's thread.
StopRuns ==
  /\ main = "stop_tickle" /\ tickles = 0
  /\ IF RootThread \in Workers
       THEN /\ main' = "caller"
            /\ Check(pc[RootThread] = "off", "root never reach")
            /\ pc' = [pc EXCEPT ![RootThread] = "scan"]
       ELSE main' = "join" /\ UNCHANGED <<pc, failed>>
  /\ UNCHANGED <<m_fibers, fiberVars, ft, cb_fiber, idle_state, reg, countVars,
                 taskVars, m_autostop, tickles, stops>>
CallerReturns ==
  /\ main = "caller" /\ pc[RootThread] = "exited"
  /\ main' = "join"
  /\ UNCHANGED <<m_fibers, fiberVars, workerVars, countVars, taskVars,
                 m_autostop, tickles, stops, failed>>
Join ==
  /\ main = "join" /\ \A w \in Pool : pc[w] = "exited"
  /\ main' = "stopped"
  /\ UNCHANGED <<m_fibers, fiberVars, workerVars, countVars, taskVars,
                 m_autostop, tickles, stops, failed>>

\* Nothing more happens: stop() has returned, or an assertion ended the process.
Halted == (main = "stopped" \/ failed # "none") /\ UNCHANGED coreVars
-----------------------------------------------------------------------------
(* What holds of every scheduler built on this module.                     *)

\* Types of all variables.
TypeOK ==
  /\ m_fibers \in Seq(FiberAndThread)
  /\ m_activeThreadCount \in 0..(CountMod - 1)
  /\ m_idleThreadCount \in 0..(CountMod - 1)
  /\ m_state \in [Fibers -> States]
  /\ m_cb \in [Fibers -> Tasks \cup {NoTask}]
  /\ pc \in [Workers -> Labels]
  /\ ft \in [Workers -> FiberAndThread]
  /\ cb_fiber \in [Workers -> Fibers \cup {NoFiber}]
  /\ idle_state \in [Workers -> States]
  /\ reg \in [Workers -> 0..(CountMod - 1)]
  /\ armed \subseteq Fibers /\ fresh \subseteq Tasks /\ done \subseteq Tasks
  /\ yields \in [Tasks -> 0..MaxYields]
  /\ m_autostop \in BOOLEAN
  /\ main \in {"created", "created_tickle", "started", "started_tickle",
               "stop_tickle", "caller", "join", "stopped"}
  /\ tickles \in Nat /\ stops \in 0..MaxStops
  /\ failed \in {"none", "reset", "swapIn", "never reach", "YieldToHold",
                 "root never reach", "triggerEvent"}

\* From the pop of its entry to the end of its turn in run().
RunLabels == {"incw", "swapin", "task", "tickle_task", "tickle_park",
              "parking", "dec", "decw", "after"}
Holds(w, f) == \/ ft[w].fiber = f
               \/ /\ ft[w].fiber = NoFiber /\ cb_fiber[w] = f
                  /\ pc[w] \in RunLabels

\* No two threads ever have the same fiber in their hands, from taking it off
\* the queue until run() is done with its stack, although a fiber can be
\* queued again while it still runs: the state EXEC alone keeps it in the queue.
ExclusiveStack ==
  \A f \in Fibers, v, w \in Workers : Holds(v, f) /\ Holds(w, f) => v = w

\* Why it holds: a fiber object has one owner.  The fibers in the hands of run()
\* (ft and cb_fiber of all workers) are distinct, and the queue and the set of
\* armed fibers hold each fiber once.  A fiber can be on both sides only from the
\* moment its body hands it out until its turn ends, and then it is EXEC.
Waiting(f) == Queued(f) \/ f \in armed
TaskLabels == {"task", "tickle_task", "tickle_park", "parking"}
BackLabels == {"dec", "decw", "after"}
HandedOut  == {"tickle_park", "parking"} \cup BackLabels

QueuedOnce ==
  /\ \A i, j \in DOMAIN m_fibers :
       m_fibers[i].fiber = m_fibers[j].fiber /\ m_fibers[i].fiber # NoFiber
         => i = j
  /\ \A i \in DOMAIN m_fibers : m_fibers[i].fiber \notin armed
HandsDistinct ==
  /\ \A v, w \in Workers : ft[v].fiber = ft[w].fiber =>
                             v = w \/ ft[v].fiber = NoFiber
  /\ \A v, w \in Workers : cb_fiber[v] = cb_fiber[w] =>
                             v = w \/ cb_fiber[v] = NoFiber
  /\ \A v, w \in Workers : ft[v].fiber = cb_fiber[w] => cb_fiber[w] = NoFiber
WaitingIsExec == \A w \in Workers :
  /\ ft[w].fiber # NoFiber /\ Waiting(ft[w].fiber) =>
       pc[w] \in HandedOut /\ m_state[ft[w].fiber] = "EXEC"
  /\ cb_fiber[w] # NoFiber /\ Waiting(cb_fiber[w]) =>
       /\ pc[w] \in HandedOut /\ ft[w].fiber = NoFiber
       /\ m_state[cb_fiber[w]] = "EXEC"
WaitingIsAlive == \A f \in Fibers : Waiting(f) =>
  m_state[f] \in {"EXEC", "HOLD", "READY"}
FtStates == \A w \in Workers : ft[w].fiber # NoFiber =>
  /\ pc[w] \in RunLabels \cup {"tickle_scan", "dispatch"}
  /\ pc[w] \in TaskLabels => m_state[ft[w].fiber] = "EXEC"
  /\ pc[w] \notin TaskLabels \cup BackLabels =>
       m_state[ft[w].fiber] \in {"HOLD", "READY"}
CbStates == \A w \in Workers :
  IF ft[w].fiber = NoFiber /\ pc[w] \in RunLabels
    THEN /\ cb_fiber[w] # NoFiber
         /\ pc[w] \in TaskLabels => m_state[cb_fiber[w]] = "EXEC"
         /\ pc[w] \in {"incw", "swapin"} => m_state[cb_fiber[w]] = "INIT"
         /\ pc[w] \in BackLabels => m_state[cb_fiber[w]] # "INIT"
    ELSE cb_fiber[w] # NoFiber => m_state[cb_fiber[w]] = "INIT"
IdleStates == \A w \in Workers : idle_state[w] = "EXEC" =>
  pc[w] \in {"idle", "idec", "idecw"}
BodiesBound ==
  /\ \A f \in Fibers : m_state[f] \in {"EXEC", "HOLD", "READY"} =>
       m_cb[f] # NoTask
  /\ \A w \in Workers : pc[w] \in {"incw", "swapin"} => m_cb[Cur(w)] # NoTask
OutsideRun ==
  /\ \A w \in Workers :
       main \in {"created", "created_tickle"} => pc[w] = "off"
  /\ RootThread \in Workers /\ main # "caller" =>
       pc[RootThread] \in {"off", "exited"}

Ownership == /\ QueuedOnce /\ HandsDistinct /\ WaitingIsExec /\ WaitingIsAlive
             /\ FtStates /\ CbStates /\ BodiesBound /\ IdleStates
             /\ OutsideRun

\* None of the assertions of Fiber and Scheduler fails, the one behind the last
\* swapOut() of MainFunc ("never reach") included.
NoAssertionFails == failed = "none"

\* When stop() returns, what is left in the queue is bound to one thread, or is
\* a fiber that stayed EXEC and that every scan skips: a worker leaves run()
\* only after a scan that found nothing for it.  With use_caller: without, the
\* pool may have left before the owner schedules the last task.
StopDrains == main = "stopped" => \A i \in DOMAIN m_fibers :
  \/ m_fibers[i].thread # AnyThread
  \/ m_fibers[i].fiber # NoFiber /\ m_state[m_fibers[i].fiber] = "EXEC"
=============================================================================
