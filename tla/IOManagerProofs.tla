--------------------------- MODULE IOManagerProofs ---------------------------
(***************************************************************************)
(* Theorems about sylar::IOManager, for any descriptors, threads and tasks. *)
(* It keeps the invariant of the core although idle() and cancelEvent()    *)
(* push fibers and functions to the queue behind the back of schedule():   *)
(* a registered fiber is armed, and is registered once.  A manager with one *)
(* worker leaves nothing behind; one whose descriptors are used one way and *)
(* do not hang up fails no assertion.                                      *)
(***************************************************************************)
EXTENDS IOManager, SchedulerCoreProofs

USE ThreadsAssumption, NamesAssumption, BoundsAssumption, FdsAssumption
USE DEF Goto, Labels, RunLabels, TaskLabels, BackLabels, HandedOut, States,
        Ended, LetsGo, fiberVars, countVars, taskVars, mainVars, workerVars
USE DEF Events, IdleGoto, fdVars, timerVars, kernelVars, localVars

-----------------------------------------------------------------------------
(* The inductive invariant.                                                *)

IpcLabels == {"none", "queue", "pending", "wait", "expire", "push",
              "tickle_push", "handle", "trigger", "tickle_trigger", "uncount"}
Triggers  == {"trigger", "tickle_trigger", "uncount"}
Reported  == [fd : Fds \cup {Pipe}, mask : SUBSET {"IN", "OUT", "HUP"}]

\* What the locals of idle() and cancelEvent() hold, and the fd they work on.
LocalTypes ==
  /\ ipc \in [Workers -> IpcLabels]
  /\ got \in [Workers -> SUBSET Reported]
  /\ cbs \in [Workers -> Seq(Tasks)]
  /\ cur \in [Workers -> [fd : Fds \cup {Pipe}, todo : SUBSET Events]]
  /\ \A w \in Workers : ipc[w] \in Triggers => cur[w].fd \in Fds

\* Types of what the threads and the kernel share.
TimerTypes  == /\ m_timers \subseteq Tasks /\ IsFiniteSet(m_timers)
               /\ due \subseteq m_timers
KernelTypes ==
  /\ epoll \in [Fds -> SUBSET Events] /\ cond \in [Fds -> SUBSET Conditions]
  /\ rlist \subseteq Fds \cup {Pipe}
Flags       == m_tickled \in BOOLEAN /\ pipe \in BOOLEAN

\* A fiber registered for an event waits for it, and for no other.
Registrations ==
  /\ events \in [Fds -> SUBSET Events]
  /\ ctx \in [Fds -> [Events -> FiberAndThread]]
  /\ \A d \in Fds, e \in Events :
       ctx[d][e].fiber \in armed \cup {NoFiber}
  /\ \A c, d \in Fds, e, f \in Events :
       ctx[c][e].fiber = ctx[d][f].fiber /\ ctx[d][f].fiber # NoFiber
         => c = d /\ e = f

\* m_pendingEventCount counts the registered events, and those triggered but
\* not counted off yet.
Registered == {p \in Fds \X Events : p[2] \in events[p[1]]}
Triggered  == {w \in Workers : ipc[w] \in {"tickle_trigger", "uncount"}}
PendingIsCount ==
  /\ m_pendingEventCount \in Nat
  /\ IsFiniteSet(Registered)
  /\ failed = "none" => m_pendingEventCount =
                          Cardinality(Registered) + Cardinality(Triggered)

IOInv == /\ CoreInv /\ LocalTypes /\ TimerTypes /\ KernelTypes /\ Flags
         /\ Registrations /\ PendingIsCount

-----------------------------------------------------------------------------
(* The steps of this module that change the state of the core.             *)

CoreStep == \/ \E w \in Workers : RunStep(w) \/ BodyStep(w)
            \/ OwnerStep
            \/ UNCHANGED coreVars

\* A step that moves labels quietly, queues no fiber that did not wait, and
\* fails no assertion of Fiber keeps the invariant of the core.
LEMMA QuietCore ==
  ASSUME CoreInv,
         UNCHANGED <<m_state, m_cb, ft, cb_fiber, idle_state, reg, countVars,
                     done, yields, mainVars>>,
         m_fibers' \in Seq(FiberAndThread), pc' \in [Workers -> Labels],
         armed' \subseteq armed, fresh' \subseteq fresh,
         failed' \in {failed, "triggerEvent"},
         QueuedOnce', \A f \in Fibers : Waiting(f)' => Waiting(f),
         \A v \in Workers :
           /\ QuietMove(v)
           /\ pc'[v] = pc[v] \/ pc[v] \in {"task", "idle"}
           /\ pc[v] = "idle" => pc'[v] \in {"idle", "idec"}
  PROVE  CoreInv'
  <1>1. TypeOK'
    BY DEF CoreInv, TypeOK
  <1>2. Fibers_'
    BY QuietSteps
  <1>3. IdleStates'
    BY DEF CoreInv, Ownership, IdleStates
  <1>4. OutsideRun'
    BY DEF CoreInv, Ownership, OutsideRun
  <1>5. FiberAssertions'
    BY DEF CoreInv, FiberAssertions
  <1>6. QED
    BY <1>1, <1>2, <1>3, <1>4, <1>5 DEF CoreInv, Ownership, Fibers_

\* A function may be queued for any thread.
LEMMA CbEntry ==
  ASSUME NEW t \in Tasks
  PROVE  /\ TaskEntry(t, AnyThread) \in FiberAndThread
         /\ TaskEntry(t, AnyThread).fiber = NoFiber
  BY DEF TaskEntry, FiberAndThread

\* Fewer armed fibers wait less.
LEMMA FewerWait ==
  ASSUME CoreInv, UNCHANGED m_fibers, armed' \subseteq armed
  PROVE  QueuedOnce' /\ \A f \in Fibers : Waiting(f)' => Waiting(f)
  BY DEF CoreInv, Ownership, QueuedOnce, Waiting, Queued

\* triggerEvent() moves a fiber from its context to the queue.
LEMMA TriggerCore ==
  ASSUME IOInv, NEW w \in Workers, triggerEvent(w)
  PROVE  CoreInv'
  <1> USE DEF IOInv
  <1> DEFINE d == cur[w].fd
             e == NextTodo(w)
             entry == ctx[d][e]
  <1>1. d \in Fds /\ e \in Events /\ ipc[w] = "trigger"
    BY DEF triggerEvent, LocalTypes, Triggers, NextTodo
  <1>2. entry \in FiberAndThread /\ entry.fiber \in armed \cup {NoFiber}
    BY <1>1 DEF Registrations
  <1>3. /\ m_fibers' = m_fibers \/ m_fibers' = Append(m_fibers, entry)
        /\ armed' = armed \ {entry.fiber}
        /\ failed' \in {failed, "triggerEvent"}
        /\ UNCHANGED <<fiberVars, workerVars, countVars, fresh, done, yields,
                       mainVars>>
    BY DEF triggerEvent, Push, Check
  <1> HIDE DEF d, e, entry
  <1>4. m_fibers \in Seq(FiberAndThread) /\ pc \in [Workers -> Labels]
    BY DEF CoreInv, TypeOK
  <1>5. m_fibers' \in Seq(FiberAndThread)
    BY <1>2, <1>3, <1>4, AppendFacts
  <1>6. QueuedOnce' /\ \A f \in Fibers : Waiting(f)' => Waiting(f)
    <2>1. CASE m_fibers' = m_fibers
      BY <2>1, <1>3, FewerWait
    <2>2. CASE m_fibers' = Append(m_fibers, entry)
      <3>1. TypeOK /\ QueuedOnce
        BY DEF CoreInv, Ownership
      <3>2. ~Queued(entry.fiber) \/ entry.fiber = NoFiber
        BY <1>2, <3>1 DEF QueuedOnce, Queued
      <3>3. \A f \in Fibers : Waiting(f)' => Waiting(f) \/ f = entry.fiber
        BY <1>2, <1>3, <2>2, <3>1, <3>2, PushFacts
      <3>4. QueuedOnce'
        BY <1>2, <1>3, <2>2, <3>1, <3>2, PushFacts
      <3>5. QED
        BY <1>2, <3>3, <3>4 DEF Waiting
    <2>3. QED
      BY <1>3, <2>1, <2>2
  <1>7. \A v \in Workers : QuietMove(v) /\ pc'[v] = pc[v]
    BY <1>3 DEF QuietMove
  <1>8. QED
    BY <1>3, <1>4, <1>5, <1>6, <1>7, QuietCore

\* The functions of expired timers are queued together.
LEMMA ExpiredCore ==
  ASSUME IOInv, NEW w \in Workers, SchedulesExpired(w)
  PROVE  CoreInv'
  <1> USE DEF IOInv
  <1> DEFINE s == [i \in DOMAIN cbs[w] |-> TaskEntry(cbs[w][i], AnyThread)]
  <1>1. /\ m_fibers' = m_fibers \o s
        /\ UNCHANGED <<fiberVars, workerVars, countVars, taskVars, mainVars,
                       failed>>
    BY DEF SchedulesExpired
  <1>2. cbs[w] \in Seq(Tasks)
    BY DEF LocalTypes
  <1>3. /\ s \in Seq(FiberAndThread)
        /\ \A i \in DOMAIN s : s[i].fiber = NoFiber
    BY <1>2, CbEntry
  <1> HIDE DEF s
  <1>4. m_fibers \in Seq(FiberAndThread) /\ pc \in [Workers -> Labels]
    BY DEF CoreInv, TypeOK
  <1>5. /\ m_fibers' \in Seq(FiberAndThread)
        /\ DOMAIN m_fibers \subseteq DOMAIN m_fibers'
        /\ \A i \in DOMAIN m_fibers : m_fibers'[i] = m_fibers[i]
        /\ \A i \in DOMAIN m_fibers' \ DOMAIN m_fibers :
             m_fibers'[i].fiber = NoFiber
    BY <1>1, <1>3, <1>4
  <1>6. QueuedOnce /\ armed \subseteq Fibers /\ armed' = armed
    BY <1>1 DEF CoreInv, Ownership, TypeOK
  <1>7. QueuedOnce'
    BY <1>5, <1>6 DEF QueuedOnce
  <1>8. \A f \in Fibers : Waiting(f)' => Waiting(f)
    BY <1>5, <1>6 DEF Waiting, Queued
  <1>9. \A v \in Workers : QuietMove(v) /\ pc'[v] = pc[v]
    BY <1>1 DEF QuietMove
  <1>10. QED
    BY <1>1, <1>4, <1>5, <1>6, <1>7, <1>8, <1>9, QuietCore

\* A function is registered, or a timer is added: its task is not fresh any
\* more.  A registered fiber is dropped by delEvent(): it never runs again.
LEMMA CallCore ==
  ASSUME IOInv, NEW w \in Workers,
         addEventCb(w) \/ addTimer(w) \/ delEvent(w) \/ IdleYields(w)
  PROVE  CoreInv'
  <1> USE DEF IOInv
  <1>1. m_fibers \in Seq(FiberAndThread) /\ pc \in [Workers -> Labels]
    BY DEF CoreInv, TypeOK
  <1>2. CASE addEventCb(w) \/ delEvent(w)
    <2>1. /\ UNCHANGED <<m_fibers, fiberVars, workerVars, countVars, done,
                         yields, mainVars, failed>>
          /\ armed' \subseteq armed /\ fresh' \subseteq fresh
      BY <1>2 DEF addEventCb, delEvent
    <2>2. \A v \in Workers : QuietMove(v) /\ pc'[v] = pc[v]
      BY <2>1 DEF QuietMove
    <2>3. QED
      BY <1>1, <2>1, <2>2, FewerWait, QuietCore
  <1>3. CASE addTimer(w)
    <2>1. /\ UNCHANGED <<m_fibers, fiberVars, ft, cb_fiber, idle_state, reg,
                         countVars, armed, done, yields, mainVars, failed>>
          /\ fresh' \subseteq fresh
      BY <1>3 DEF addTimer
    <2>2. PICK l \in {"task", "tickle_task"} :
            pc[w] = "task" /\ pc' = [pc EXCEPT ![w] = l]
      BY <1>3 DEF addTimer
    <2>3. /\ pc' \in [Workers -> Labels]
          /\ \A v \in Workers : /\ QuietMove(v)
                                /\ pc'[v] = pc[v] \/ pc[v] = "task"
      BY <1>1, <2>2 DEF QuietMove
    <2>4. QED
      BY <1>1, <2>1, <2>3, FewerWait, QuietCore
  <1>4. CASE IdleYields(w)
    <2>1. UNCHANGED <<m_fibers, fiberVars, ft, cb_fiber, idle_state, reg,
                      countVars, taskVars, mainVars, failed>>
      BY <1>4 DEF IdleYields
    <2>2. pc[w] = "idle" /\ pc' = [pc EXCEPT ![w] = "idec"]
      BY <1>4 DEF IdleYields
    <2>3. ft[w].fiber = NoFiber
      BY <2>2 DEF CoreInv, Ownership, FtStates
    <2>4. /\ pc' \in [Workers -> Labels]
          /\ \A v \in Workers :
               /\ QuietMove(v)
               /\ pc'[v] = pc[v] \/ (pc[v] = "idle" /\ pc'[v] = "idec")
      BY <1>1, <2>2, <2>3 DEF QuietMove
    <2>5. QED
      BY <1>1, <2>1, <2>4, FewerWait, QuietCore
  <1>5. QED
    BY <1>2, <1>3, <1>4

\* All other steps are steps of the core, or leave it alone.
LEMMA StepCore ==
  ASSUME IOInv, [Next]_vars
  PROVE  CoreInv'
  <1>1. ASSUME NEW w \in Workers, Worker(w)
        PROVE  CoreInv'
    <2>1. CASE \/ triggerEvent(w) \/ SchedulesExpired(w) \/ addEventCb(w)
               \/ addTimer(w) \/ delEvent(w) \/ IdleYields(w)
      BY <2>1, TriggerCore, ExpiredCore, CallCore
    <2>2. CASE RunStep(w) \/ WorkerTickled(w) \/ addEventFiber(w)
      BY <2>2, CoreInvStep DEF IOInv, WorkerTickled, addEventFiber, BodyStep
    <2>3. CASE TaskSchedules(w) \/ YieldToHold(w) \/ YieldToReady(w)
               \/ MainFunc(w)
      BY <2>3, CoreInvStep DEF IOInv, BodyStep
    <2>4. CASE cancelEvent(w) \/ cancelAll(w) \/ cancelTimer(w)
      BY <2>4, CoreInvStep
         DEF IOInv, cancelEvent, cancelAll, Cancels, cancelTimer
    <2>5. CASE CheckTimers(w) \/ CheckQueue(w) \/ epoll_wait(w)
               \/ listExpiredCb(w) \/ Handles(w) \/ Uncount(w) \/ IdleTickled(w)
      BY <2>5, CoreInvStep
         DEF IOInv, CheckTimers, CheckQueue, epoll_wait, listExpiredCb, Handles,
             Uncount, IdleTickled
    <2>6. CASE CheckPending(w)
      BY <2>6, CoreInvStep DEF IOInv, CheckPending, BodyStep
    <2>7. QED
      BY <1>1, <2>1, <2>2, <2>3, <2>4, <2>5, <2>6
         DEF Worker, TaskStep, IdleStep
  <1>2. ASSUME Owner
        PROVE  CoreInv'
    <2>1. Stop(stopping) => CallsStop
      BY DEF Stop, CallsStop
    <2>2. OwnerStep
      BY <1>2, <2>1 DEF Owner, StopProgress, OwnerStep
    <2>3. QED
      BY <2>2, CoreInvStep DEF IOInv
  <1>3. CASE Kernel
    BY <1>3, CoreInvStep DEF IOInv, Kernel, Becomes, Drained, Elapses
  <1>4. CASE Halted \/ UNCHANGED vars
    BY <1>4, CoreInvStep DEF IOInv, Halted, vars
  <1>5. QED
    BY <1>1, <1>2, <1>3, <1>4 DEF Next

-----------------------------------------------------------------------------
(* The locals, the timers and the kernel.                                  *)

CancelsSome(w) == \E d \in Fds : \E todo \in SUBSET events[d] :
                    Cancels(w, d, todo)

\* The steps that move the registrations, and those that move the locals.
LEMMA StepKinds ==
  ASSUME IOInv, [Next]_vars
  PROVE  /\ \/ UNCHANGED localVars
            \/ \E w \in Workers : CancelsSome(w) \/ IdleStep(w)
         /\ \/ UNCHANGED fdVars /\ armed' = armed
            \/ \E w \in Workers : \/ addEventFiber(w) \/ addEventCb(w)
                                  \/ delEvent(w) \/ triggerEvent(w) \/ Uncount(w)
  <1>1. ASSUME NEW w \in Workers, RunStep(w) \/ Tickled(w)
        PROVE  armed' = armed
    BY <1>1 DEF RunStep, Tickled, Scan, DispatchFiber, DispatchCb, DispatchIdle,
                Exit, CountTask, SwapIn, SwappedBack, UncountTask, AfterFiber,
                CbReady, CbEnded, CbHeld, IdleSwapIn, IdleSwappedBack, AfterIdle
  <1>2. ASSUME NEW w \in Workers, TaskSchedules(w) \/ YieldToHold(w)
                                  \/ YieldToReady(w) \/ MainFunc(w)
        PROVE  armed' = armed
    BY <1>2 DEF TaskSchedules, ScheduleTask, YieldToHold, YieldToReady, MainFunc
  <1>3. ASSUME Owner
        PROVE  UNCHANGED localVars /\ UNCHANGED fdVars /\ armed' = armed
    BY <1>3 DEF Owner, StopProgress, Start, OwnerSchedules, ScheduleTask,
                OwnerTickled, Stop, StopTickled, StopRuns, CallerReturns, Join,
                ioVars
  <1>4. ASSUME NEW w \in Workers, Worker(w)
        PROVE  /\ UNCHANGED localVars \/ CancelsSome(w) \/ IdleStep(w)
               /\ \/ UNCHANGED fdVars /\ armed' = armed
                  \/ addEventFiber(w) \/ addEventCb(w) \/ delEvent(w)
                  \/ triggerEvent(w) \/ Uncount(w)
    <2>1. CASE RunStep(w) /\ UNCHANGED ioVars
      BY <2>1, <1>1 DEF ioVars
    <2>2. CASE WorkerTickled(w)
      BY <2>2, <1>1 DEF WorkerTickled
    <2>3. CASE /\ TaskSchedules(w) \/ YieldToHold(w) \/ YieldToReady(w)
                  \/ MainFunc(w)
               /\ UNCHANGED ioVars
      BY <2>3, <1>2 DEF ioVars
    <2>4. CASE addEventFiber(w) \/ addEventCb(w) \/ delEvent(w)
      BY <2>4 DEF addEventFiber, addEventCb, delEvent
    <2>5. CASE cancelEvent(w) \/ cancelAll(w)
      <3>1. CancelsSome(w)
        BY <2>5 DEF cancelEvent, cancelAll, CancelsSome
      <3>2. UNCHANGED fdVars /\ armed' = armed
        BY <3>1 DEF CancelsSome, Cancels, coreVars
      <3>3. QED
        BY <3>1, <3>2
    <2>6. CASE addTimer(w) \/ cancelTimer(w)
      BY <2>6 DEF addTimer, cancelTimer, coreVars
    <2>7. CASE triggerEvent(w) \/ Uncount(w)
      BY <2>7 DEF IdleStep
    <2>8. CASE CheckTimers(w) \/ CheckQueue(w) \/ CheckPending(w)
               \/ epoll_wait(w) \/ listExpiredCb(w) \/ SchedulesExpired(w)
               \/ Handles(w) \/ IdleYields(w) \/ IdleTickled(w)
      BY <2>8 DEF CheckTimers, CheckQueue, CheckPending, IdleReads, IdleReturns,
                  epoll_wait, listExpiredCb, SchedulesExpired, Handles,
                  IdleYields, IdleTickled, IdleStep, coreVars
    <2>9. QED
      BY <1>4, <2>1, <2>2, <2>3, <2>4, <2>5, <2>6, <2>7, <2>8
         DEF Worker, TaskStep, IdleStep
  <1>5. ASSUME Kernel \/ (Halted /\ UNCHANGED ioVars) \/ UNCHANGED vars
        PROVE  UNCHANGED localVars /\ UNCHANGED fdVars /\ armed' = armed
    BY <1>5 DEF Kernel, Becomes, Drained, Elapses, Halted, vars, ioVars, coreVars
  <1>6. QED
    BY <1>3, <1>4, <1>5 DEF Next

\* What a poll reports, and what it is taken for.
LEMMA PollTypes ==
  ASSUME KernelTypes, NEW d \in Fds, NEW interest
  PROVE  Poll(d, interest) \subseteq {"IN", "OUT", "HUP"}
  BY DEF KernelTypes, Poll
LEMMA RealTypes ==
  ASSUME NEW mask \in SUBSET {"IN", "OUT", "HUP"}
  PROVE  RealEvents(mask) \subseteq Events
  BY DEF RealEvents, Asked

\* Where a worker in idle() or cancelEvent() goes on after tickle().
LEMMA IdleReturnsTo ==
  /\ DOMAIN TickleReturns = {"tickle_push", "tickle_trigger"}
  /\ TickleReturns["tickle_push"] = "handle"
  /\ TickleReturns["tickle_trigger"] = "uncount"
  BY DEF TickleReturns

\* The locals keep their types, and an event is triggered on a descriptor.
LEMMA LocalsKept ==
  ASSUME IOInv, [Next]_vars
  PROVE  LocalTypes'
  <1> USE DEF LocalTypes, IpcLabels, Triggers, IOInv
  <1>1. CASE UNCHANGED localVars
    BY <1>1
  <1>2. ASSUME NEW w \in Workers, CancelsSome(w)
        PROVE  LocalTypes'
    <2>1. PICK d \in Fds, todo \in SUBSET Events :
            /\ cur' = [cur EXCEPT ![w] = [fd |-> d, todo |-> todo]]
            /\ ipc' = [ipc EXCEPT ![w] = "trigger"]
            /\ UNCHANGED <<got, cbs>>
      BY <1>2 DEF CancelsSome, Cancels, Registrations
    <2>2. QED
      BY <2>1
  <1>3. ASSUME NEW w \in Workers, IdleStep(w)
        PROVE  LocalTypes'
    <2>1. CASE CheckTimers(w) \/ CheckQueue(w) \/ CheckPending(w)
               \/ IdleYields(w)
      BY <2>1 DEF CheckTimers, CheckQueue, CheckPending, IdleReads, IdleYields
    <2>2. CASE triggerEvent(w) \/ IdleTickled(w)
      <3>1. /\ UNCHANGED <<got, cbs, cur>>
            /\ \E l \in IpcLabels : ipc' = [ipc EXCEPT ![w] = l]
            /\ ipc[w] \in Triggers \/ ipc'[w] = "handle"
        BY <2>2, IdleReturnsTo DEF triggerEvent, IdleTickled
      <3>2. QED
        BY <3>1
    <2>3. CASE SchedulesExpired(w)
      BY <2>3 DEF SchedulesExpired
    <2>4. CASE epoll_wait(w)
      <3>1. got' \in [Workers -> SUBSET Reported]
        BY <2>4, PollTypes DEF epoll_wait, Reported
      <3>2. QED
        BY <2>4, <3>1 DEF epoll_wait
    <2>5. CASE listExpiredCb(w)
      <3>1. PICK s \in SetToSeqs(due) : cbs' = [cbs EXCEPT ![w] = s]
        BY <2>5 DEF listExpiredCb
      <3>2. s \in Seq(Tasks)
        <4>1. IsFiniteSet(due) /\ due \subseteq Tasks
          BY FS_Subset DEF TimerTypes
        <4>2. Cardinality(due) \in Nat
          BY <4>1, FS_CardinalityType
        <4>3. s \in [1..Cardinality(due) -> Tasks]
          BY <3>1, <4>1 DEF SetToSeqs
        <4>4. \A n \in Nat : [1..n -> Tasks] \subseteq Seq(Tasks)
          OBVIOUS
        <4>5. QED
          BY <4>2, <4>3, <4>4
      <3>3. QED
        BY <2>5, <3>1, <3>2 DEF listExpiredCb
    <2>6. CASE Handles(w)
      <3>1. PICK r \in got[w] :
              /\ got' = [got EXCEPT ![w] = @ \ {r}]
              /\ HandlesPipe(w, r) \/ HandlesStale(w, r) \/ HandlesEvent(w, r)
        BY <2>6 DEF Handles
      <3>2. r \in Reported
        OBVIOUS
      <3>3. RealEvents(r.mask) \subseteq Events
        BY <3>2, RealTypes DEF Reported
      <3>4. CASE HandlesEvent(w, r)
        BY <2>6, <3>1, <3>3, <3>4 DEF HandlesEvent, Handles
      <3>5. CASE HandlesPipe(w, r) \/ HandlesStale(w, r)
        BY <2>6, <3>1, <3>5 DEF HandlesPipe, HandlesStale, Handles
      <3>6. QED
        BY <3>1, <3>4, <3>5
    <2>7. CASE Uncount(w)
      BY <2>7 DEF Uncount, Idle
    <2>8. QED
      BY <1>3, <2>1, <2>2, <2>3, <2>4, <2>5, <2>6, <2>7 DEF IdleStep
  <1>4. QED
    BY <1>1, <1>2, <1>3, StepKinds

\* What the timers and the kernel are changed by.
LEMMA Sharers ==
  ASSUME IOInv, [Next]_vars
  PROVE  /\ \/ UNCHANGED <<m_timers, due>>
            \/ \E w \in Workers : \/ addTimer(w) \/ cancelTimer(w)
                                  \/ listExpiredCb(w)
            \/ \E t \in Tasks : Elapses(t)
         /\ \/ UNCHANGED <<epoll, cond, rlist>>
            \/ UNCHANGED cond /\ \E d \in Fds, s \in SUBSET Events : EpollCtl(d, s)
            \/ tickle /\ UNCHANGED cond
            \/ \E w \in Workers : epoll_wait(w)
            \/ \E d \in Fds, x \in Conditions : Becomes(d, x) \/ Drained(d, x)
  <1>0. \A d \in Fds : events[d] \subseteq Events
    BY DEF IOInv, Registrations
  <1>1. ASSUME NEW w \in Workers, Worker(w)
        PROVE  /\ \/ UNCHANGED <<m_timers, due>>
                  \/ addTimer(w) \/ cancelTimer(w) \/ listExpiredCb(w)
               /\ \/ UNCHANGED <<epoll, cond, rlist>>
                  \/ /\ UNCHANGED cond
                     /\ \E d \in Fds, s \in SUBSET Events : EpollCtl(d, s)
                  \/ tickle /\ UNCHANGED cond
                  \/ epoll_wait(w)
    <2>1. CASE UNCHANGED ioVars
      BY <2>1 DEF ioVars
    <2>2. CASE WorkerTickled(w) \/ IdleTickled(w)
      BY <2>2 DEF WorkerTickled, IdleTickled, tickle
    <2>3. CASE addEventFiber(w) \/ addEventCb(w) \/ delEvent(w)
      <3>1. PICK d \in Fds, s \in SUBSET Events : EpollCtl(d, s)
        BY <2>3, <1>0 DEF addEventFiber, addEventCb, delEvent, Registers
      <3>2. UNCHANGED cond /\ UNCHANGED <<m_timers, due>>
        BY <2>3, <3>1 DEF addEventFiber, addEventCb, delEvent, EpollCtl
      <3>3. QED
        BY <3>1, <3>2
    <2>4. CASE cancelEvent(w) \/ cancelAll(w)
      <3>1. PICK d \in Fds, s \in SUBSET Events : EpollCtl(d, s)
        BY <2>4, <1>0 DEF cancelEvent, cancelAll, Cancels
      <3>2. UNCHANGED cond /\ UNCHANGED <<m_timers, due>>
        BY <2>4, <3>1 DEF cancelEvent, cancelAll, Cancels, EpollCtl
      <3>3. QED
        BY <3>1, <3>2
    <2>5. CASE addTimer(w) \/ cancelTimer(w) \/ listExpiredCb(w)
      BY <2>5 DEF addTimer, cancelTimer, listExpiredCb
    <2>6. CASE CheckTimers(w) \/ CheckQueue(w) \/ CheckPending(w)
               \/ SchedulesExpired(w) \/ IdleYields(w) \/ triggerEvent(w)
               \/ Uncount(w)
      BY <2>6 DEF CheckTimers, CheckQueue, CheckPending, IdleReads,
                  SchedulesExpired, IdleYields, triggerEvent, Uncount
    <2>7. CASE Handles(w)
      <3>1. /\ UNCHANGED <<m_timers, due>>
            /\ \E r \in got[w] :
                 HandlesPipe(w, r) \/ HandlesStale(w, r) \/ HandlesEvent(w, r)
        BY <2>7 DEF Handles
      <3>2. \/ UNCHANGED <<epoll, cond, rlist>>
            \/ \E d \in Fds, s \in SUBSET Events : EpollCtl(d, s)
        BY <3>1, <1>0 DEF HandlesPipe, HandlesStale, HandlesEvent
      <3>3. QED
        BY <3>1, <3>2 DEF EpollCtl
    <2>8. CASE epoll_wait(w)
      BY <2>8 DEF epoll_wait
    <2>9. QED
      BY <1>1, <2>1, <2>2, <2>3, <2>4, <2>5, <2>6, <2>7, <2>8
         DEF Worker, TaskStep, IdleStep
  <1>2. ASSUME Owner
        PROVE  /\ UNCHANGED <<m_timers, due>>
               /\ \/ UNCHANGED <<epoll, cond, rlist>>
                  \/ tickle /\ UNCHANGED cond
    BY <1>2 DEF Owner, StopProgress, tickle, ioVars
  <1>3. ASSUME Kernel
        PROVE  \/ /\ UNCHANGED <<m_timers, due>>
                  /\ \E d \in Fds, x \in Conditions :
                       Becomes(d, x) \/ Drained(d, x)
               \/ /\ UNCHANGED <<epoll, cond, rlist>>
                  /\ \E t \in Tasks : Elapses(t)
    BY <1>3 DEF Kernel, Becomes, Drained, Elapses
  <1>4. CASE (Halted /\ UNCHANGED ioVars) \/ UNCHANGED vars
    BY <1>4 DEF vars, ioVars
  <1>5. QED
    BY <1>1, <1>2, <1>3, <1>4 DEF Next

\* There are finitely many timers, the due ones among them.
LEMMA TimersKept ==
  ASSUME IOInv, [Next]_vars
  PROVE  TimerTypes'
  <1> USE DEF IOInv, TimerTypes
  <1>1. CASE UNCHANGED <<m_timers, due>>
    BY <1>1
  <1>2. ASSUME NEW w \in Workers, addTimer(w)
        PROVE  TimerTypes'
    <2>1. PICK t \in Tasks : m_timers' = m_timers \cup {t} /\ due' = due
      BY <1>2 DEF addTimer, CoreInv, TypeOK
    <2>2. IsFiniteSet(m_timers')
      BY <2>1, FS_AddElement
    <2>3. QED
      BY <2>1, <2>2
  <1>3. ASSUME NEW w \in Workers, cancelTimer(w)
        PROVE  TimerTypes'
    <2>1. PICK t \in m_timers : m_timers' = m_timers \ {t} /\ due' = due \ {t}
      BY <1>3 DEF cancelTimer
    <2>2. IsFiniteSet(m_timers')
      BY <2>1, FS_RemoveElement
    <2>3. QED
      BY <2>1, <2>2
  <1>4. ASSUME NEW w \in Workers, listExpiredCb(w)
        PROVE  TimerTypes'
    <2>1. m_timers' = m_timers \ due /\ due' = {}
      BY <1>4 DEF listExpiredCb
    <2>2. IsFiniteSet(m_timers')
      BY <2>1, FS_Subset
    <2>3. QED
      BY <2>1, <2>2
  <1>5. ASSUME NEW t \in Tasks, Elapses(t)
        PROVE  TimerTypes'
    BY <1>5 DEF Elapses
  <1>6. QED
    BY <1>1, <1>2, <1>3, <1>4, <1>5, Sharers

\* The interest, the conditions and the ready list keep their types.
LEMMA KernelKept ==
  ASSUME IOInv, [Next]_vars
  PROVE  KernelTypes'
  <1> USE DEF IOInv, KernelTypes
  <1>1. CASE UNCHANGED <<epoll, cond, rlist>>
    BY <1>1
  <1>2. ASSUME NEW d \in Fds, NEW s \in SUBSET Events, EpollCtl(d, s)
        PROVE  KernelTypes'
    BY <1>2 DEF EpollCtl
  <1>3. CASE tickle /\ UNCHANGED cond
    BY <1>3 DEF tickle
  <1>4. ASSUME NEW w \in Workers, epoll_wait(w)
        PROVE  KernelTypes'
    BY <1>4 DEF epoll_wait
  <1>5. ASSUME NEW d \in Fds, NEW x \in Conditions, Becomes(d, x) \/ Drained(d, x)
        PROVE  KernelTypes'
    BY <1>5 DEF Becomes, Drained
  <1>6. QED
    BY <1>1, <1>2, <1>3, <1>4, <1>5, Sharers

\* The pipe and m_tickled are set and cleared.
LEMMA FlagsKept ==
  ASSUME IOInv, [Next]_vars
  PROVE  Flags'
  <1> USE DEF IOInv, Flags
  <1>1. ASSUME NEW w \in Workers, Worker(w)
        PROVE  m_tickled' \in BOOLEAN
    <2>1. CASE UNCHANGED m_tickled
      BY <2>1
    <2>2. CASE addTimer(w)
      <3>1. PICK front \in BOOLEAN : m_tickled' = (m_tickled \/ front)
        BY <2>2 DEF addTimer
      <3>2. QED
        BY <3>1, Zenon
    <2>3. CASE CheckTimers(w)
      BY <2>3 DEF CheckTimers
    <2>4. CASE \/ CheckQueue(w) \/ CheckPending(w) \/ epoll_wait(w)
               \/ listExpiredCb(w) \/ SchedulesExpired(w) \/ Handles(w)
               \/ IdleYields(w) \/ triggerEvent(w) \/ Uncount(w)
               \/ IdleTickled(w) \/ WorkerTickled(w)
      BY <2>1, <2>4 DEF CheckQueue, CheckPending, epoll_wait, listExpiredCb,
                        SchedulesExpired, Handles, IdleYields, triggerEvent,
                        Uncount, IdleTickled, WorkerTickled
    <2>5. CASE \/ addEventFiber(w) \/ addEventCb(w) \/ delEvent(w)
               \/ cancelEvent(w) \/ cancelAll(w) \/ cancelTimer(w)
               \/ UNCHANGED ioVars
      BY <2>1, <2>5 DEF addEventFiber, addEventCb, delEvent, cancelEvent,
                        cancelAll, Cancels, cancelTimer, ioVars
    <2>6. QED
      BY <1>1, <2>2, <2>3, <2>4, <2>5 DEF Worker, TaskStep, IdleStep
  <1>2. ASSUME Owner
        PROVE  m_tickled' \in BOOLEAN
    <2>1. CASE UNCHANGED m_tickled
      BY <2>1
    <2>2. CASE m_tickled' = (m_tickled /\ ~(RootThread \in Workers /\ Pool = {}))
      BY <2>2, Zenon
    <2>3. QED
      BY <1>2, <2>1, <2>2 DEF Owner, StopProgress, ioVars
  <1>3. CASE Kernel \/ (Halted /\ UNCHANGED ioVars) \/ UNCHANGED vars
    BY <1>3 DEF Kernel, Becomes, Drained, Elapses, vars, ioVars
  <1>4. m_tickled' \in BOOLEAN
    <2>1. CASE UNCHANGED vars \/ (Halted /\ UNCHANGED ioVars) \/ Kernel
      BY <1>3, <2>1
    <2>2. QED
      BY <1>1, <1>2, <2>1 DEF Next
  <1>5. pipe' \in {pipe, TRUE, FALSE}
    <2>1. ASSUME NEW w \in Workers, Worker(w)
          PROVE  pipe' \in {pipe, TRUE, FALSE}
      <3>1. CASE UNCHANGED ioVars
        BY <3>1 DEF ioVars
      <3>2. CASE WorkerTickled(w) \/ IdleTickled(w)
        BY <3>2 DEF WorkerTickled, IdleTickled, tickle
      <3>3. CASE \/ addEventFiber(w) \/ addEventCb(w) \/ delEvent(w)
                 \/ cancelEvent(w) \/ cancelAll(w) \/ cancelTimer(w)
                 \/ addTimer(w)
        BY <3>3 DEF addEventFiber, addEventCb, delEvent, cancelEvent, Registers,
                    cancelAll, Cancels, cancelTimer, addTimer, EpollCtl
      <3>4. CASE \/ CheckTimers(w) \/ CheckQueue(w) \/ CheckPending(w)
                 \/ epoll_wait(w) \/ listExpiredCb(w) \/ SchedulesExpired(w)
                 \/ IdleYields(w) \/ triggerEvent(w) \/ Uncount(w)
        BY <3>4 DEF CheckTimers, CheckQueue, CheckPending, IdleReads,
                    epoll_wait, listExpiredCb, SchedulesExpired, IdleYields,
                    triggerEvent, Uncount
      <3>5. CASE Handles(w)
        BY <3>5 DEF Handles, HandlesPipe, HandlesStale, HandlesEvent, EpollCtl
      <3>6. QED
        BY <2>1, <3>1, <3>2, <3>3, <3>4, <3>5 DEF Worker, TaskStep, IdleStep
    <2>2. CASE Owner
      BY <2>2 DEF Owner, StopProgress, ioVars, tickle
    <2>3. CASE Kernel \/ (Halted /\ UNCHANGED ioVars) \/ UNCHANGED vars
      BY <2>3 DEF Kernel, Becomes, Drained, Elapses, vars, ioVars
    <2>4. QED
      BY <2>1, <2>2, <2>3 DEF Next
  <1>6. QED
    BY <1>4, <1>5

-----------------------------------------------------------------------------
(* The registered events.                                                  *)

\* A body that registers its fiber has it to itself: nobody waits with it yet.
LEMMA CurIsUnarmed ==
  ASSUME CoreInv, NEW w \in Workers, pc[w] = "task"
  PROVE  Cur(w) \in Fibers \ armed
  <1>1. Cur(w) \in Fibers
    BY CurFacts
  <1>2. QED
    BY <1>1 DEF CoreInv, Ownership, WaitingIsExec, Waiting, Cur

\* A context that is filled or emptied leaves the others as they are.
LEMMA ContextsKept ==
  ASSUME Registrations, NEW d \in Fds, NEW e \in Events,
         NEW entry \in FiberAndThread, NEW s \in SUBSET Events,
         ctx' = [ctx EXCEPT ![d][e] = entry],
         events' = [events EXCEPT ![d] = s],
         \/ /\ entry.fiber = NoFiber
            /\ armed' \in {armed, armed \ {ctx[d][e].fiber}}
         \/ /\ entry.fiber \notin armed
            /\ armed' = armed \cup {entry.fiber}
  PROVE  Registrations'
  <1> USE DEF Registrations
  <1>1. events' \in [Fds -> SUBSET Events]
    OBVIOUS
  <1>2. ctx' \in [Fds -> [Events -> FiberAndThread]]
    OBVIOUS
  <1>3. \A c \in Fds, f \in Events :
          ctx'[c][f] = IF c = d /\ f = e THEN entry ELSE ctx[c][f]
    OBVIOUS
  <1>4. \A c \in Fds, f \in Events : ctx'[c][f].fiber \in armed' \cup {NoFiber}
    BY <1>3
  <1>5. \A b, c \in Fds, g, f \in Events :
          ctx'[b][g].fiber = ctx'[c][f].fiber /\ ctx'[c][f].fiber # NoFiber
            => b = c /\ g = f
    BY <1>3
  <1>6. QED
    BY <1>1, <1>2, <1>4, <1>5

\* Every armed fiber in a context has one context.
LEMMA RegistrationsKept ==
  ASSUME IOInv, [Next]_vars
  PROVE  Registrations'
  <1> USE DEF IOInv
  <1>0. \A d \in Fds : events[d] \subseteq Events
    BY DEF Registrations
  <1>1. CASE UNCHANGED fdVars /\ armed' = armed
    BY <1>1 DEF Registrations
  <1>2. ASSUME NEW w \in Workers, addEventFiber(w)
        PROVE  Registrations'
    <2>1. PICK d \in Fds, e \in Events :
            /\ ctx' = [ctx EXCEPT ![d][e] = FiberEntry(Cur(w))]
            /\ events' = [events EXCEPT ![d] = @ \cup {e}]
      BY <1>2 DEF addEventFiber, Registers
    <2>2. armed' = armed \cup {Cur(w)} /\ pc[w] = "task"
      BY <1>2 DEF addEventFiber, TaskArms
    <2>3. Cur(w) \in Fibers \ armed
      BY <2>2, CurIsUnarmed
    <2>4. /\ FiberEntry(Cur(w)) \in FiberAndThread
          /\ FiberEntry(Cur(w)).fiber = Cur(w)
      BY <2>3, EntryTypes DEF FiberEntry
    <2>5. events[d] \cup {e} \in SUBSET Events
      BY <1>0
    <2>6. QED
      BY <2>1, <2>2, <2>3, <2>4, <2>5, ContextsKept
  <1>3. ASSUME NEW w \in Workers, addEventCb(w)
        PROVE  Registrations'
    <2>1. PICK d \in Fds, e \in Events, t \in fresh :
            /\ ctx' = [ctx EXCEPT ![d][e] = TaskEntry(t, AnyThread)]
            /\ events' = [events EXCEPT ![d] = @ \cup {e}]
      BY <1>3 DEF addEventCb, Registers
    <2>2. t \in Tasks /\ armed' = armed
      BY <1>3 DEF addEventCb, CoreInv, TypeOK
    <2>3. events[d] \cup {e} \in SUBSET Events
      BY <1>0
    <2>4. QED
      BY <2>1, <2>2, <2>3, CbEntry, ContextsKept
  <1>4. Nothing \in FiberAndThread /\ Nothing.fiber = NoFiber
    BY EntryTypes DEF Nothing
  <1>5. ASSUME NEW w \in Workers, delEvent(w) \/ triggerEvent(w)
        PROVE  Registrations'
    <2>1. PICK d \in Fds, e \in Events :
            /\ ctx' = [ctx EXCEPT ![d][e] = Nothing]
            /\ events' = [events EXCEPT ![d] = @ \ {e}]
            /\ armed' = armed \ {ctx[d][e].fiber}
      <3>1. CASE delEvent(w)
        BY <3>1, <1>0 DEF delEvent
      <3>2. CASE triggerEvent(w)
        <4>1. cur[w].fd \in Fds /\ NextTodo(w) \in Events
          BY <3>2 DEF triggerEvent, LocalTypes, Triggers, NextTodo
        <4>2. QED
          BY <3>2, <4>1 DEF triggerEvent
      <3>3. QED
        BY <1>5, <3>1, <3>2
    <2>2. events[d] \ {e} \in SUBSET Events
      BY <1>0
    <2>3. QED
      BY <1>4, <2>1, <2>2, ContextsKept
  <1>6. ASSUME NEW w \in Workers, Uncount(w)
        PROVE  Registrations'
    BY <1>6 DEF Uncount, coreVars, Registrations
  <1>7. QED
    BY <1>1, <1>2, <1>3, <1>5, <1>6, StepKinds

\* Nothing moves any more once an assertion failed.
LEMMA FailedStays ==
  ASSUME [Next]_vars, failed # "none"
  PROVE  UNCHANGED vars
  BY DEF Next, Halted, vars

\* Who is between triggerEvent() and the decrement of the counter.
LEMMA WhoTriggers ==
  ASSUME IOInv, [Next]_vars
  PROVE  \/ Triggered' = Triggered
         \/ \E w \in Workers : triggerEvent(w) \/ Uncount(w)
  <1> USE DEF IOInv, LocalTypes, Triggered
  <1>1. CASE UNCHANGED localVars
    BY <1>1
  <1>2. ASSUME NEW w \in Workers, NEW a \in IpcLabels, NEW b \in IpcLabels,
               ipc[w] = a, ipc' = [ipc EXCEPT ![w] = b],
               a \in {"tickle_trigger", "uncount"} <=>
                 b \in {"tickle_trigger", "uncount"}
        PROVE  Triggered' = Triggered
    BY <1>2
  <1>3. ASSUME NEW w \in Workers, CancelsSome(w)
        PROVE  Triggered' = Triggered
    <2>1. ipc[w] = "none" /\ ipc' = [ipc EXCEPT ![w] = "trigger"]
      BY <1>3 DEF CancelsSome, Cancels, CallsFrom
    <2>2. QED
      BY <2>1, <1>2 DEF IpcLabels
  <1>4. ASSUME NEW w \in Workers, IdleStep(w), ~triggerEvent(w), ~Uncount(w)
        PROVE  Triggered' = Triggered
    <2>1. CASE Handles(w)
      <3>1. /\ ipc[w] = "handle"
            /\ ipc' = ipc \/ ipc' = [ipc EXCEPT ![w] = "trigger"]
        BY <2>1 DEF Handles, HandlesPipe, HandlesStale, HandlesEvent
      <3>2. QED
        BY <3>1, <1>2 DEF IpcLabels
    <2>2. CASE IdleTickled(w)
      BY <2>2, <1>2, IdleReturnsTo DEF IdleTickled, IpcLabels
    <2>3. CASE \/ CheckTimers(w) \/ CheckQueue(w) \/ CheckPending(w)
               \/ epoll_wait(w) \/ listExpiredCb(w) \/ SchedulesExpired(w)
               \/ IdleYields(w)
      <3>1. \E a, b \in IpcLabels \ {"tickle_trigger", "uncount"} :
              ipc[w] = a /\ ipc' = [ipc EXCEPT ![w] = b]
        BY <2>3 DEF CheckTimers, CheckQueue, CheckPending, epoll_wait,
                    listExpiredCb, SchedulesExpired, IdleYields, IpcLabels
      <3>2. QED
        BY <3>1, <1>2
    <2>4. QED
      BY <1>4, <2>1, <2>2, <2>3 DEF IdleStep
  <1>5. QED
    BY <1>1, <1>3, <1>4, StepKinds

\* One event more or less is registered.
LEMMA OneMore ==
  ASSUME Registrations, NEW d \in Fds, NEW e \in Events
  PROVE  /\ events' = [events EXCEPT ![d] = @ \cup {e}] =>
              Registered' = Registered \cup {<<d, e>>}
         /\ events' = [events EXCEPT ![d] = @ \ {e}] =>
              Registered' = Registered \ {<<d, e>>}
         /\ <<d, e>> \in Registered <=> e \in events[d]
  BY DEF Registrations, Registered

\* The counter of pending events is never off, whoever registers, deletes,
\* cancels or triggers, and so never wraps below zero.
LEMMA PendingKept ==
  ASSUME IOInv, [Next]_vars
  PROVE  PendingIsCount'
  <1> USE DEF PendingIsCount
  <1>1. CASE failed # "none"
    <2>1. UNCHANGED <<m_pendingEventCount, events, ipc, failed>>
      BY <1>1, FailedStays DEF vars, coreVars, ioVars
    <2>2. QED
      BY <2>1 DEF IOInv, Registered, Triggered
  <1>2. ASSUME failed = "none"
        PROVE  PendingIsCount'
    <2> DEFINE r == Cardinality(Registered)  t == Cardinality(Triggered)
    <2>1. /\ IsFiniteSet(Registered) /\ IsFiniteSet(Triggered)
          /\ r \in Nat /\ t \in Nat /\ m_pendingEventCount = r + t
      <3>1. Triggered \in SUBSET Workers
        BY DEF Triggered
      <3>2. QED
        BY <1>2, <3>1, FS_Subset, FS_CardinalityType DEF IOInv
    <2>2. CASE UNCHANGED fdVars /\ Triggered' = Triggered
      <3>1. Registered' = Registered
        BY <2>2 DEF Registered
      <3>2. QED
        BY <2>1, <2>2, <3>1
    <2>3. ASSUME NEW w \in Workers, addEventFiber(w) \/ addEventCb(w),
                 Triggered' = Triggered
          PROVE  PendingIsCount'
      <3>1. PICK d \in Fds, e \in Events :
              /\ e \notin events[d]
              /\ events' = [events EXCEPT ![d] = @ \cup {e}]
              /\ m_pendingEventCount' = m_pendingEventCount + 1
        BY <2>3 DEF addEventFiber, addEventCb, Registers
      <3>2. Registered' = Registered \cup {<<d, e>>} /\ <<d, e>> \notin Registered
        BY <3>1, OneMore DEF IOInv
      <3>3. IsFiniteSet(Registered') /\ Cardinality(Registered') = r + 1
        BY <2>1, <3>2, FS_AddElement
      <3>4. QED
        BY <2>1, <2>3, <3>1, <3>3
    <2>4. ASSUME NEW w \in Workers, delEvent(w), Triggered' = Triggered
          PROVE  PendingIsCount'
      <3>1. PICK d \in Fds, e \in Events :
              /\ e \in events[d]
              /\ events' = [events EXCEPT ![d] = @ \ {e}]
              /\ m_pendingEventCount' = m_pendingEventCount - 1
        <4>1. \A d \in Fds : events[d] \subseteq Events
          BY DEF IOInv, Registrations
        <4>2. QED
          BY <2>4, <4>1 DEF delEvent
      <3>2. Registered' = Registered \ {<<d, e>>} /\ <<d, e>> \in Registered
        BY <3>1, OneMore DEF IOInv
      <3>3. IsFiniteSet(Registered') /\ Cardinality(Registered') = r - 1
        BY <2>1, <3>2, FS_RemoveElement
      <3>4. Cardinality(Registered') \in Nat
        BY <3>3, FS_CardinalityType
      <3>5. QED
        BY <2>1, <2>4, <3>1, <3>3, <3>4
    <2>5. ASSUME NEW w \in Workers, triggerEvent(w)
          PROVE  PendingIsCount'
      <3> DEFINE d == cur[w].fd  e == NextTodo(w)
      <3>1. d \in Fds /\ e \in Events /\ ipc[w] = "trigger"
        BY <2>5 DEF triggerEvent, IOInv, LocalTypes, Triggers, NextTodo
      <3>2. /\ events' = [events EXCEPT ![d] = @ \ {e}]
            /\ e \notin events[d] => failed' = "triggerEvent"
            /\ m_pendingEventCount' = m_pendingEventCount
            /\ \E l \in {"tickle_trigger", "uncount"} :
                 ipc' = [ipc EXCEPT ![w] = l]
        BY <2>5 DEF triggerEvent, Check
      <3> HIDE DEF d, e
      <3>3. /\ Registered' = Registered \ {<<d, e>>}
            /\ <<d, e>> \in Registered <=> e \in events[d]
        BY <3>1, <3>2, OneMore DEF IOInv
      <3>4. /\ IsFiniteSet(Registered')
            /\ <<d, e>> \in Registered => Cardinality(Registered') = r - 1
        BY <2>1, <3>3, FS_RemoveElement
      <3>5. Triggered' = Triggered \cup {w} /\ w \notin Triggered
        BY <3>1, <3>2 DEF Triggered, IOInv, LocalTypes
      <3>6. Cardinality(Triggered') = t + 1
        BY <2>1, <3>5, FS_AddElement
      <3>7. QED
        BY <2>1, <3>2, <3>3, <3>4, <3>6
    <2>6. ASSUME NEW w \in Workers, Uncount(w)
          PROVE  PendingIsCount'
      <3>1. /\ UNCHANGED events /\ m_pendingEventCount' = m_pendingEventCount - 1
            /\ ipc[w] = "uncount"
            /\ \E l \in {"handle", "none", "trigger"} :
                 ipc' = [ipc EXCEPT ![w] = l]
        BY <2>6 DEF Uncount
      <3>2. Triggered' = Triggered \ {w} /\ w \in Triggered
        BY <3>1 DEF Triggered, IOInv, LocalTypes
      <3>3. Cardinality(Triggered') = t - 1 /\ IsFiniteSet(Triggered')
        BY <2>1, <3>2, FS_RemoveElement
      <3>4. Cardinality(Triggered') \in Nat
        BY <3>3, FS_CardinalityType
      <3>5. Registered' = Registered
        BY <3>1 DEF Registered
      <3>6. QED
        BY <2>1, <3>1, <3>3, <3>4, <3>5
    <2>7. QED
      BY <2>2, <2>3, <2>4, <2>5, <2>6, WhoTriggers, StepKinds
  <1>3. QED
    BY <1>1, <1>2

-----------------------------------------------------------------------------
(* The theorems.                                                           *)

\* The constructor establishes the invariant.
LEMMA IOInvInit ==
  ASSUME Init
  PROVE  IOInv
  <1> USE DEF Init
  <1>1. CoreInv
    BY CoreInvInit
  <1>2. LocalTypes
    BY DEF LocalTypes, IpcLabels, Triggers, Idle
  <1>3. TimerTypes /\ KernelTypes /\ Flags
    BY FS_EmptySet DEF TimerTypes, KernelTypes, Flags
  <1>4. Registrations
    BY EntryTypes DEF Registrations, Nothing
  <1>5. PendingIsCount
    <2>1. Registered = {} /\ Triggered = {}
      BY DEF Registered, Triggered
    <2>2. QED
      BY <2>1, FS_EmptySet DEF PendingIsCount
  <1>6. QED
    BY <1>1, <1>2, <1>3, <1>4, <1>5 DEF IOInv

\* Every step keeps it.
LEMMA IOInvHolds == Spec => []IOInv
  <1>1. IOInv /\ [Next]_vars => IOInv'
    BY StepCore, LocalsKept, TimersKept, KernelKept, FlagsKept,
       RegistrationsKept, PendingKept DEF IOInv
  <1>2. QED
    BY <1>1, IOInvInit, PTL DEF Spec

\* Every reachable state of the manager is well typed; above all, the unsigned
\* m_pendingEventCount never wraps below zero.
THEOREM IOTypes == Spec => []IOTypeOK
  <1>1. IOInv => IOTypeOK
    BY DEF IOInv, IOTypeOK, CoreInv, LocalTypes, TimerTypes, KernelTypes, Flags,
           Registrations, PendingIsCount
  <1>2. QED
    BY <1>1, IOInvHolds, PTL

\* idle() and cancelEvent() push a fiber to the queue while it may still be on
\* its way out of addEvent() and YieldToHold(): even so, no two threads get the
\* same fiber.
THEOREM IOStacksAreExclusive == Spec => []ExclusiveStack
  <1>1. IOInv => ExclusiveStack
    BY CoreExclusive DEF IOInv
  <1>2. QED
    BY <1>1, IOInvHolds, PTL

\* The fibers keep one owner each, the contexts of descriptors included.
THEOREM IOOneOwner == Spec => [](Ownership /\ Registrations)
  <1>1. IOInv => Ownership /\ Registrations
    BY DEF IOInv, CoreInv
  <1>2. QED
    BY <1>1, IOInvHolds, PTL

\* When the count of pending events is zero, no event is registered.
LEMMA NoneIsForgotten ==
  ASSUME IOInv, failed = "none", m_pendingEventCount = 0
  PROVE  \A d \in Fds : events[d] = {}
  <1>1. Triggered \in SUBSET Workers
    BY DEF Triggered
  <1>2. /\ Cardinality(Registered) \in Nat /\ Cardinality(Triggered) \in Nat
        /\ Cardinality(Registered) + Cardinality(Triggered) = 0
    BY <1>1, FS_Subset, FS_CardinalityType DEF IOInv, PendingIsCount
  <1>3. Registered = {}
    BY <1>2, FS_EmptySet DEF IOInv, PendingIsCount
  <1>4. \A d \in Fds : events[d] \subseteq Events
    BY DEF IOInv, Registrations
  <1>5. \A d \in Fds, e \in Events : e \in events[d] => <<d, e>> \in Registered
    BY DEF Registered
  <1>6. QED
    BY <1>3, <1>4, <1>5

\* stopping() reads m_pendingEventCount without a lock: when it reads zero, no
\* fiber and no function is registered on any descriptor.
THEOREM PendingIsCounted == Spec => []NoneForgotten
  <1>1. IOInv => NoneForgotten
    BY NoneIsForgotten DEF NoneForgotten
  <1>2. QED
    BY <1>1, IOInvHolds, PTL

-----------------------------------------------------------------------------
(* One worker: nothing is left when it leaves.                             *)

Quiet == m_fibers = <<>> /\ m_timers = {} /\ \A d \in Fds : events[d] = {}

\* What stopping() has read stays true until it has read the rest.
Asks(w) ==
  /\ ipc[w] # "none" => pc[w] \in {"task", "idle"}
  /\ ipc[w] \in {"queue", "pending"} => pc[w] = "idle" /\ m_timers = {}
  /\ ipc[w] = "pending" => m_autostop /\ m_fibers = <<>>
\* Once idle() has returned, nobody adds anything any more.
Leaves(w) ==
  /\ idle_state[w] = "TERM" =>
       /\ pc[w] \in {"idec", "idecw", "scan", "dispatch", "exited"}
       /\ ft[w] = Nothing /\ Quiet /\ m_autostop
  /\ pc[w] = "exited" => idle_state[w] = "TERM"
\* stop() returns behind the worker, or finds nothing to wait for.
Stopped(w) ==
  /\ m_autostop => main \in {"stop_tickle", "caller", "join", "stopped"}
  /\ main = "join" /\ RootThread = w => pc[w] = "exited"
  /\ main = "stopped" => pc[w] \in {"off", "exited"} /\ Quiet
\* The idle fiber runs with nothing taken from the queue.
IdleHands(w) == pc[w] \in {"iincw", "idle"} => ft[w] = Nothing
AloneInv(w) == Asks(w) /\ Leaves(w) /\ Stopped(w) /\ IdleHands(w)

\* As long as idle() does not return, only stopping() has to be followed.
LEMMA AwakeAlone ==
  ASSUME NEW w \in Workers, AloneInv(w), Asks(w)', IdleHands(w)',
         pc[w] \notin {"off", "exited"}, pc'[w] # "exited",
         idle_state[w] # "TERM", idle_state'[w] # "TERM",
         UNCHANGED mainVars
  PROVE  AloneInv(w)'
  BY DEF AloneInv, Leaves, Stopped

\* What run() does to the state of the idle fiber, and from which labels.
LEMMA RunLeavesIdle ==
  ASSUME IOInv, NEW w \in Workers, RunStep(w)
  PROVE  /\ pc[w] \notin {"off", "exited", "task", "idle"}
         /\ UNCHANGED mainVars
         /\ idle_state[w] # "TERM" =>
              pc'[w] # "exited" /\ idle_state'[w] # "TERM"
         /\ IdleHands(w) => IdleHands(w)'
  <1> USE DEF IOInv, CoreInv, TypeOK, IdleHands
  <1>1. CASE Scan(w)
    BY <1>1 DEF Scan, ScanTakes, ScanFindsNothing, AfterScan
  <1>2. CASE DispatchFiber(w) \/ DispatchCb(w) \/ DispatchIdle(w) \/ Exit(w)
    BY <1>2 DEF DispatchFiber, DispatchCb, DispatchIdle, Exit
  <1>3. CASE CountTask(w) \/ SwapIn(w) \/ SwappedBack(w) \/ UncountTask(w)
    BY <1>3 DEF CountTask, SwapIn, SwappedBack, UncountTask
  <1>4. CASE AfterFiber(w) \/ CbReady(w) \/ CbEnded(w) \/ CbHeld(w)
    BY <1>4 DEF AfterFiber, AfterCb, CbReady, CbEnded, CbHeld
  <1>5. CASE IdleSwapIn(w) \/ IdleSwappedBack(w) \/ AfterIdle(w)
    BY <1>5 DEF IdleSwapIn, IdleSwappedBack, AfterIdle
  <1>6. QED
    BY <1>1, <1>2, <1>3, <1>4, <1>5 DEF RunStep

\* A worker whose idle fiber has ended scans once more and leaves.
LEMMA LeavingRuns ==
  ASSUME IOInv, NEW w \in Workers, AloneInv(w), RunStep(w),
         idle_state[w] = "TERM"
  PROVE  /\ pc'[w] \in {"idec", "idecw", "scan", "dispatch", "exited"}
         /\ UNCHANGED <<m_fibers, ft, mainVars>> /\ idle_state'[w] = "TERM"
  <1>1. /\ pc[w] \in {"idec", "idecw", "scan", "dispatch", "exited"}
        /\ ft[w] = Nothing /\ m_fibers = <<>>
    BY DEF AloneInv, Leaves, Quiet
  <1>2. pc \in [Workers -> Labels] /\ idle_state \in [Workers -> States]
    BY DEF IOInv, CoreInv, TypeOK
  <1>3. Nothing.fiber = NoFiber /\ Nothing.cb = NoTask
    BY DEF Nothing
  <1>4. CASE Scan(w)
    <2>1. ~ScanTakes(w)
      BY <1>1 DEF ScanTakes
    <2>2. AfterScan(w, Len(m_fibers) + 1) = "dispatch"
      <3>1. Len(m_fibers) = 0
        BY <1>1
      <3>2. 1..(Len(m_fibers) + 1 - 1) = {}
        BY <3>1
      <3>3. QED
        BY <3>2 DEF AfterScan, ForeignBefore
    <2>3. QED
      BY <1>2, <1>4, <2>1, <2>2 DEF Scan, ScanFindsNothing
  <1>5. CASE DispatchFiber(w) \/ DispatchCb(w) \/ DispatchIdle(w) \/ Exit(w)
    BY <1>1, <1>2, <1>3, <1>5 DEF DispatchFiber, DispatchCb, DispatchIdle, Exit
  <1>6. CASE CountTask(w) \/ SwapIn(w) \/ SwappedBack(w) \/ UncountTask(w)
    BY <1>1, <1>6 DEF CountTask, SwapIn, SwappedBack, UncountTask
  <1>7. CASE AfterFiber(w) \/ CbReady(w) \/ CbEnded(w) \/ CbHeld(w)
    BY <1>1, <1>7 DEF AfterFiber, AfterCb, CbReady, CbEnded, CbHeld
  <1>8. CASE IdleSwapIn(w) \/ IdleSwappedBack(w) \/ AfterIdle(w)
    BY <1>1, <1>2, <1>8 DEF IdleSwapIn, IdleSwappedBack, AfterIdle
  <1>9. QED
    BY <1>4, <1>5, <1>6, <1>7, <1>8 DEF RunStep

\* run() adds nothing that stopping() has seen to be absent.
LEMMA RunAlone ==
  ASSUME IOInv, NEW w \in Workers, AloneInv(w), RunStep(w), UNCHANGED ioVars
  PROVE  AloneInv(w)'
  <1>1. /\ pc[w] \notin {"off", "exited", "task", "idle"}
        /\ UNCHANGED mainVars
        /\ idle_state[w] # "TERM" =>
             pc'[w] # "exited" /\ idle_state'[w] # "TERM"
        /\ IdleHands(w)'
    BY RunLeavesIdle DEF AloneInv
  <1>2. ipc[w] = "none" /\ UNCHANGED <<ipc, m_timers, events>>
    BY <1>1 DEF AloneInv, Asks, ioVars
  <1>3. Asks(w)'
    BY <1>2 DEF Asks
  <1>4. CASE idle_state[w] = "TERM"
    <2>1. /\ pc'[w] \in {"idec", "idecw", "scan", "dispatch", "exited"}
          /\ UNCHANGED <<m_fibers, ft, mainVars>> /\ idle_state'[w] = "TERM"
      BY <1>4, LeavingRuns
    <2>2. main # "stopped" /\ ~(main = "join" /\ RootThread = w)
      BY <1>1 DEF AloneInv, Stopped
    <2>3. QED
      BY <1>1, <1>2, <1>3, <1>4, <2>1, <2>2 DEF AloneInv, Leaves, Stopped, Quiet
  <1>5. QED
    BY <1>1, <1>3, <1>4, AwakeAlone

\* The body of a task runs, and calls the manager.
LEMMA TaskAlone ==
  ASSUME IOInv, NEW w \in Workers, AloneInv(w), TaskStep(w) \/ WorkerTickled(w)
  PROVE  AloneInv(w)'
  <1>0. /\ pc \in [Workers -> Labels] /\ ipc \in [Workers -> IpcLabels]
        /\ idle_state \in [Workers -> States]
    BY DEF IOInv, CoreInv, TypeOK, LocalTypes
  <1>1. SUFFICES /\ pc[w] \notin {"off", "exited", "idec", "idecw", "scan",
                                  "dispatch", "idle"}
                 /\ pc'[w] \notin {"exited", "iincw", "idle"}
                 /\ UNCHANGED <<idle_state, mainVars>>
                 /\ \/ ipc'[w] = "none"
                    \/ ipc'[w] = "trigger" /\ pc'[w] = "task"
    <2>1. idle_state[w] # "TERM"
      BY <1>1 DEF AloneInv, Leaves
    <2>2. Asks(w)' /\ IdleHands(w)'
      BY <1>1 DEF Asks, IdleHands
    <2>3. QED
      BY <1>1, <2>1, <2>2, AwakeAlone
  <1>2. CASE /\ TaskSchedules(w) \/ YieldToHold(w) \/ YieldToReady(w)
                \/ MainFunc(w)
             /\ ipc[w] = "none" /\ UNCHANGED ioVars
    BY <1>0, <1>2 DEF TaskSchedules, TaskCallsSchedule, YieldToHold,
                      YieldToReady, MainFunc, ioVars
  <1>3. CASE addEventFiber(w) \/ addEventCb(w) \/ delEvent(w)
    BY <1>0, <1>3 DEF addEventFiber, TaskArms, addEventCb, delEvent, CallsFrom
  <1>4. CASE addTimer(w) \/ cancelTimer(w)
    BY <1>0, <1>4 DEF addTimer, cancelTimer, CallsFrom, coreVars
  <1>5. CASE cancelEvent(w) \/ cancelAll(w)
    BY <1>0, <1>5 DEF cancelEvent, cancelAll, Cancels, CallsFrom, coreVars
  <1>6. CASE WorkerTickled(w)
    <2>1. PICK l \in DOMAIN TickleLabel : Goto(w, l, TickleLabel[l])
      BY <1>6 DEF WorkerTickled, Tickled
    <2>2. /\ l \notin {"task", "idle", "off", "exited", "idec", "idecw", "scan",
                       "dispatch"}
          /\ TickleLabel[l] \notin {"exited", "iincw", "idle"}
      BY DEF TickleLabel
    <2>3. pc[w] = l /\ pc'[w] = TickleLabel[l]
      BY <1>0, <2>1
    <2>4. ipc[w] = "none"
      BY <2>2, <2>3 DEF AloneInv, Asks
    <2>5. QED
      BY <1>6, <2>2, <2>3, <2>4 DEF WorkerTickled, Tickled
  <1>7. QED
    BY <1>2, <1>3, <1>4, <1>5, <1>6 DEF TaskStep

\* stopping() reads the timers, the queue and the events one after the other.
LEMMA IdleAlone ==
  ASSUME IOInv, failed = "none", NEW w \in Workers, AloneInv(w), IdleStep(w)
  PROVE  AloneInv(w)'
  <1>0. /\ pc \in [Workers -> Labels] /\ ipc \in [Workers -> IpcLabels]
        /\ idle_state \in [Workers -> States]
    BY DEF IOInv, CoreInv, TypeOK, LocalTypes
  <1>1. ipc[w] # "none" \/ pc[w] = "idle"
    BY DEF IdleStep, CheckTimers, IdleReads, InIdle, CheckQueue, CheckPending,
           epoll_wait, listExpiredCb, SchedulesExpired, Handles, IdleYields,
           triggerEvent, Uncount, IdleTickled, TickleReturns
  <1>2. pc[w] \in {"task", "idle"}
    BY <1>1 DEF AloneInv, Asks
  <1>3. idle_state[w] # "TERM"
    BY <1>2 DEF AloneInv, Leaves
  <1>4. ASSUME UNCHANGED <<idle_state, mainVars, ft>>, Asks(w)',
               pc'[w] \in {pc[w], "idec"}
        PROVE  AloneInv(w)'
    <2>1. IdleHands(w)'
      BY <1>2, <1>4 DEF AloneInv, IdleHands
    <2>2. QED
      BY <1>2, <1>3, <1>4, <2>1, AwakeAlone
  <1>5. CASE CheckTimers(w)
    <2>1. Asks(w)'
      BY <1>0, <1>5 DEF CheckTimers, IdleReads, InIdle, coreVars, Asks
    <2>2. QED
      BY <1>2, <1>4, <1>5, <2>1 DEF CheckTimers, coreVars
  <1>6. CASE CheckQueue(w)
    <2>1. Asks(w)'
      BY <1>0, <1>6
         DEF CheckQueue, IdleReads, InIdle, coreVars, AloneInv, Asks
    <2>2. QED
      BY <1>2, <1>4, <1>6, <2>1 DEF CheckQueue, coreVars
  <1>7. CASE CheckPending(w)
    <2>1. CASE m_pendingEventCount = 0
      <3>1. \A d \in Fds : events[d] = {}
        BY <2>1, NoneIsForgotten
      <3>2. /\ pc[w] = "idle" /\ pc'[w] = "idec" /\ ipc'[w] = "none"
            /\ ipc[w] = "pending"
            /\ UNCHANGED <<m_fibers, m_timers, events, mainVars, ft>>
        BY <1>0, <1>7, <2>1 DEF CheckPending, IdleReads, InIdle, IdleReturns
      <3>3. m_timers = {} /\ m_fibers = <<>> /\ m_autostop
        BY <3>2 DEF AloneInv, Asks
      <3>4. ft[w] = Nothing
        BY <3>2 DEF AloneInv, IdleHands
      <3>5. main # "stopped" /\ ~(main = "join" /\ RootThread = w)
        BY <3>2 DEF AloneInv, Stopped
      <3>6. Asks(w)' /\ Leaves(w)' /\ IdleHands(w)'
        BY <3>1, <3>2, <3>3, <3>4 DEF Asks, Leaves, Quiet, IdleHands
      <3>7. Stopped(w)'
        BY <3>2, <3>5 DEF AloneInv, Stopped
      <3>8. QED
        BY <3>6, <3>7 DEF AloneInv
    <2>2. CASE m_pendingEventCount # 0
      <3>1. Asks(w)'
        BY <1>0, <1>7, <2>2
           DEF CheckPending, IdleReads, InIdle, coreVars, Asks
      <3>2. QED
        BY <1>2, <1>4, <1>7, <2>2, <3>1 DEF CheckPending, coreVars
    <2>3. QED
      BY <2>1, <2>2
  <1>8. CASE epoll_wait(w) \/ listExpiredCb(w) \/ Handles(w)
    <2>1. Asks(w)'
      BY <1>0, <1>8 DEF epoll_wait, listExpiredCb, Handles, HandlesPipe,
         HandlesStale, HandlesEvent, InIdle, coreVars, Asks
    <2>2. QED
      BY <1>2, <1>4, <1>8, <2>1 DEF epoll_wait, listExpiredCb, Handles, coreVars
  <1>9. CASE SchedulesExpired(w) \/ triggerEvent(w) \/ Uncount(w) \/ IdleTickled(w)
    <2>1. /\ UNCHANGED <<pc, idle_state, mainVars, ft>>
          /\ ipc'[w] \notin {"queue", "pending"}
      BY <1>0, <1>9, IdleReturnsTo
         DEF SchedulesExpired, triggerEvent, Uncount, IdleTickled, coreVars
    <2>2. Asks(w)'
      BY <1>2, <2>1 DEF Asks
    <2>3. QED
      BY <1>2, <1>4, <2>1, <2>2
  <1>10. CASE IdleYields(w)
    <2>1. /\ UNCHANGED <<idle_state, mainVars, ft>>
          /\ ipc'[w] = "none" /\ pc'[w] = "idec"
      BY <1>0, <1>10 DEF IdleYields
    <2>2. Asks(w)'
      BY <2>1 DEF Asks
    <2>3. QED
      BY <1>4, <2>1, <2>2
  <1>11. QED
    BY <1>5, <1>6, <1>7, <1>8, <1>9, <1>10 DEF IdleStep

\* Whoever owns the manager schedules nothing once it called stop().
LEMMA OwnerAlone ==
  ASSUME IOInv, failed = "none", NEW w \in Workers, Workers = {w},
         AloneInv(w), Owner
  PROVE  AloneInv(w)'
  <1>0. /\ pc \in [Workers -> Labels]
        /\ main \in {"created", "created_tickle", "started", "started_tickle",
                     "stop_tickle", "caller", "join", "stopped"}
    BY DEF IOInv, CoreInv, TypeOK
  <1> USE DEF AloneInv, Asks, Leaves, Stopped, IdleHands, Quiet
  <1>1. CASE Start /\ UNCHANGED ioVars
    <2>1. pc[w] = "off" /\ main = "created"
      BY <1>1 DEF Start, IOInv, CoreInv, Ownership, OutsideRun
    <2>2. ipc[w] = "none" /\ idle_state[w] # "TERM" /\ ~m_autostop
      BY <2>1
    <2>3. /\ pc'[w] \in {"scan", "off"} /\ main' = "started"
          /\ UNCHANGED <<ipc, idle_state, m_autostop>>
      BY <1>1, <2>1 DEF Start, ioVars
    <2>4. QED
      BY <2>2, <2>3
  <1>2. CASE main # "created" /\ OwnerSchedules /\ UNCHANGED ioVars
    <2>1. /\ main = "started" /\ main' \in {"started", "started_tickle"}
          /\ UNCHANGED <<pc, ft, idle_state, m_autostop, ipc, m_timers>>
      BY <1>2 DEF OwnerSchedules, OwnerCallsSchedule, ioVars
    <2>2. ~m_autostop
      BY <2>1
    <2>3. QED
      BY <2>1, <2>2
  <1>3. CASE OwnerTickled /\ UNCHANGED <<fdVars, timerVars, localVars>>
    <2>1. /\ main \in {"created_tickle", "started_tickle"}
          /\ main' \in {"created", "started"}
          /\ UNCHANGED <<pc, ft, idle_state, m_autostop, ipc, m_timers, m_fibers,
                         events>>
      BY <1>3, OwnerLabels DEF OwnerTickled
    <2>2. QED
      BY <2>1
  <1>4. CASE Stop(stopping) /\ UNCHANGED <<fdVars, m_timers, due, localVars>>
    <2>1. /\ main \in {"started", "stopped"} /\ m_autostop' = TRUE
          /\ UNCHANGED <<pc, ft, idle_state, ipc, m_timers, m_fibers, events>>
      BY <1>4 DEF Stop
    <2>2. CASE main' = "stop_tickle"
      BY <2>1, <2>2
    <2>3. CASE RootThread \in Workers /\ stopping /\ main' = "stopped"
      <3>1. pc[w] \in {"off", "exited"}
        BY <2>1, <2>3 DEF IOInv, CoreInv, Ownership, OutsideRun
      <3>2. m_timers = {} /\ m_fibers = <<>> /\ m_pendingEventCount = 0
        BY <2>3 DEF stopping, StoppingBase
      <3>3. \A d \in Fds : events[d] = {}
        BY <3>2, NoneIsForgotten
      <3>4. QED
        BY <2>1, <2>3, <3>1, <3>2, <3>3
    <2>4. QED
      BY <1>4, <2>2, <2>3 DEF Stop
  <1>5. CASE StopTickled /\ UNCHANGED <<fdVars, timerVars, localVars>>
    BY <1>5 DEF StopTickled
  <1>6. CASE StopRuns /\ UNCHANGED ioVars
    <2>1. /\ main = "stop_tickle"
          /\ UNCHANGED <<ft, idle_state, ipc, m_timers, m_fibers, events,
                         m_autostop>>
      BY <1>6 DEF StopRuns, ioVars
    <2>2. CASE RootThread \in Workers
      <3>1. /\ pc[w] \in {"off", "exited"}
        BY <2>1, <2>2 DEF IOInv, CoreInv, Ownership, OutsideRun
      <3>2. pc'[w] = "scan" /\ main' = "caller"
        BY <1>0, <1>6, <2>2 DEF StopRuns
      <3>3. QED
        BY <2>1, <3>1, <3>2
    <2>3. CASE RootThread \notin Workers
      BY <1>6, <2>1, <2>3 DEF StopRuns
    <2>4. QED
      BY <2>2, <2>3
  <1>7. CASE CallerReturns /\ UNCHANGED ioVars
    BY <1>7 DEF CallerReturns, ioVars
  <1>8. CASE Join /\ UNCHANGED ioVars
    <2>1. /\ main = "join" /\ main' = "stopped"
          /\ UNCHANGED <<pc, ft, idle_state, ipc, m_timers, m_fibers, events,
                         m_autostop>>
      BY <1>8 DEF Join, ioVars
    <2>2. pc[w] = "exited"
      BY <1>8, <2>1 DEF Join, Pool
    <2>3. QED
      BY <2>1, <2>2
  <1>9. QED
    BY <1>1, <1>2, <1>3, <1>4, <1>5, <1>6, <1>7, <1>8 DEF Owner, StopProgress

\* Every step of a manager with one worker keeps the invariant.
LEMMA AloneStep ==
  ASSUME IOInv, NEW w \in Workers, Workers = {w}, AloneInv(w), [Next]_vars
  PROVE  AloneInv(w)'
  <1>1. CASE failed = "none" /\ Worker(w)
    BY <1>1, RunAlone, TaskAlone, IdleAlone DEF Worker
  <1>2. CASE failed = "none" /\ Owner
    BY <1>2, OwnerAlone
  <1>3. CASE Kernel
    BY <1>3 DEF Kernel, Becomes, Drained, Elapses, coreVars, AloneInv, Asks,
                Leaves, Stopped, IdleHands, Quiet
  <1>4. CASE (Halted /\ UNCHANGED ioVars) \/ UNCHANGED vars
    BY <1>4 DEF Halted, vars, ioVars, coreVars, AloneInv, Asks, Leaves, Stopped,
                IdleHands, Quiet
  <1>5. QED
    BY <1>1, <1>2, <1>3, <1>4 DEF Next

\* A manager with one worker leaves nothing behind: when stop() returns, by
\* whichever way, no task is queued, no timer set and no event registered,
\* although stopping() reads the three at different times.
THEOREM OneStrandsNothing ==
  ASSUME NEW w, Workers = {w}
  PROVE  Spec => []NothingStranded
  <1>0. w \in Workers
    OBVIOUS
  <1>1. Init => AloneInv(w)
    BY <1>0 DEF Init, CoreInit, AloneInv, Asks, Leaves, Stopped, IdleHands, Quiet
  <1>2. IOInv /\ AloneInv(w) /\ [Next]_vars => AloneInv(w)'
    BY <1>0, AloneStep
  <1>3. AloneInv(w) => NothingStranded
    BY DEF AloneInv, Stopped, Quiet, NothingStranded
  <1>4. QED
    BY <1>1, <1>2, <1>3, IOInvHolds, PTL DEF Spec

-----------------------------------------------------------------------------
(* Descriptors used for one event, and no hang-up: no assertion fails.     *)

\* Nobody waits for both events of a descriptor, and none hangs up.
OneEventEach == /\ "HUP" \notin Conditions
                /\ \A p, q \in Uses : p[1] = q[1] => p = q

UsedOn(d)  == {e \in Events : <<d, e>> \in Uses}
UsedOnly   == \A d \in Fds : /\ events[d] \subseteq UsedOn(d)
                             /\ epoll[d] \subseteq UsedOn(d)
ReportsUsed == \A w \in Workers : \A r \in got[w] :
  r.fd \in Fds => RealEvents(r.mask) \subseteq UsedOn(r.fd)

\* Who triggers events has the descriptor to himself, and they are registered.
TriggersOwn(w) ==
  /\ ipc[w] \in Triggers => cur[w].todo # {}
  /\ ipc[w] = "trigger" => cur[w].todo \subseteq events[cur[w].fd]
  /\ ipc[w] \in {"tickle_trigger", "uncount"} =>
       cur[w].todo \ {NextTodo(w)} \subseteq events[cur[w].fd]
  /\ ipc[w] \notin Triggers => cur[w].fd = Pipe
LocksApart == \A v, w \in Workers :
  cur[v].fd = cur[w].fd => v = w \/ cur[v].fd = Pipe
TriggersRegistered == LocksApart /\ \A w \in Workers : TriggersOwn(w)

FlawlessInv == RootFresh /\ UsedOnly /\ ReportsUsed /\ TriggersRegistered

\* Only events in use are registered and polled for.
LEMMA UsedKept ==
  ASSUME IOInv, UsedOnly, [Next]_vars
  PROVE  UsedOnly'
  <1>0. /\ events \in [Fds -> SUBSET Events] /\ epoll \in [Fds -> SUBSET Events]
    BY DEF IOInv, Registrations, KernelTypes
  <1>1. ASSUME \/ UNCHANGED events
               \/ \E d \in Fds, s \in SUBSET Events :
                    s \subseteq UsedOn(d) /\ events' = [events EXCEPT ![d] = s],
               \/ UNCHANGED epoll
               \/ \E d \in Fds, s \in SUBSET Events :
                    s \subseteq UsedOn(d) /\ epoll' = [epoll EXCEPT ![d] = s]
        PROVE  UsedOnly'
    BY <1>0, <1>1 DEF UsedOnly, UsedOn
  <1>2. ASSUME NEW w \in Workers, Worker(w)
        PROVE  UsedOnly'
    <2>1. CASE UNCHANGED ioVars
      BY <1>1, <2>1 DEF ioVars
    <2>2. CASE WorkerTickled(w) \/ IdleTickled(w)
      BY <1>1, <2>2 DEF WorkerTickled, IdleTickled, tickle
    <2>3. CASE addEventFiber(w) \/ addEventCb(w)
      <3>1. PICK d \in Fds, e \in Events :
              /\ <<d, e>> \in Uses /\ EpollCtl(d, events[d] \cup {e})
              /\ events' = [events EXCEPT ![d] = events[d] \cup {e}]
        BY <2>3 DEF addEventFiber, addEventCb, Registers
      <3>2. /\ events[d] \cup {e} \in SUBSET Events
            /\ events[d] \cup {e} \subseteq UsedOn(d)
        BY <1>0, <3>1 DEF UsedOnly, UsedOn
      <3>3. QED
        BY <1>1, <3>1, <3>2 DEF EpollCtl
    <2>4. CASE delEvent(w)
      <3>1. PICK d \in Fds, e \in Events :
              /\ EpollCtl(d, events[d] \ {e})
              /\ events' = [events EXCEPT ![d] = events[d] \ {e}]
        BY <1>0, <2>4 DEF delEvent
      <3>2. /\ events[d] \ {e} \in SUBSET Events
            /\ events[d] \ {e} \subseteq UsedOn(d)
        BY <1>0 DEF UsedOnly
      <3>3. QED
        BY <1>1, <3>1, <3>2 DEF EpollCtl
    <2>5. CASE cancelEvent(w) \/ cancelAll(w) \/ Handles(w)
      <3>1. UNCHANGED events
        BY <2>5 DEF cancelEvent, cancelAll, Cancels, Handles
      <3>2. \/ UNCHANGED epoll
            \/ \E d \in Fds : \E s : EpollCtl(d, events[d] \ s)
        <4>1. CASE cancelEvent(w) \/ cancelAll(w)
          BY <4>1 DEF cancelEvent, cancelAll, Cancels
        <4>2. CASE Handles(w)
          BY <4>2 DEF Handles, HandlesPipe, HandlesStale, HandlesEvent
        <4>3. QED
          BY <2>5, <4>1, <4>2
      <3>3. CASE UNCHANGED epoll
        BY <1>1, <3>1, <3>3
      <3>4. CASE \E d \in Fds : \E s : EpollCtl(d, events[d] \ s)
        <4>1. PICK d \in Fds : \E s : EpollCtl(d, events[d] \ s)
          BY <3>4
        <4>2. PICK s : EpollCtl(d, events[d] \ s)
          BY <4>1
        <4>3. /\ events[d] \ s \in SUBSET Events
              /\ events[d] \ s \subseteq UsedOn(d)
          BY <1>0 DEF UsedOnly
        <4>4. QED
          BY <1>1, <3>1, <4>2, <4>3 DEF EpollCtl
      <3>5. QED
        BY <3>2, <3>3, <3>4
    <2>6. CASE triggerEvent(w)
      <3>1. /\ cur[w].fd \in Fds /\ UNCHANGED epoll
            /\ events' = [events EXCEPT ![cur[w].fd] =
                            events[cur[w].fd] \ {NextTodo(w)}]
        BY <2>6 DEF triggerEvent, IOInv, LocalTypes, Triggers
      <3>2. /\ events[cur[w].fd] \ {NextTodo(w)} \in SUBSET Events
            /\ events[cur[w].fd] \ {NextTodo(w)} \subseteq UsedOn(cur[w].fd)
        BY <1>0, <3>1 DEF UsedOnly
      <3>3. QED
        BY <1>1, <3>1, <3>2
    <2>7. CASE addTimer(w) \/ cancelTimer(w) \/ listExpiredCb(w)
      BY <1>1, <2>7 DEF addTimer, cancelTimer, listExpiredCb
    <2>8. CASE CheckTimers(w) \/ CheckQueue(w) \/ CheckPending(w)
               \/ SchedulesExpired(w) \/ IdleYields(w) \/ Uncount(w)
               \/ epoll_wait(w)
      BY <1>1, <2>8 DEF CheckTimers, CheckQueue, CheckPending, IdleReads,
                  SchedulesExpired, IdleYields, Uncount, epoll_wait
    <2>9. QED
      BY <1>2, <2>1, <2>2, <2>3, <2>4, <2>5, <2>6, <2>7, <2>8
         DEF Worker, TaskStep, IdleStep
  <1>3. CASE Owner
    BY <1>1, <1>3 DEF Owner, StopProgress, tickle, ioVars
  <1>4. CASE Kernel \/ (Halted /\ UNCHANGED ioVars) \/ UNCHANGED vars
    BY <1>1, <1>4 DEF Kernel, Becomes, Drained, Elapses, vars, ioVars
  <1>5. QED
    BY <1>2, <1>3, <1>4 DEF Next

\* A condition that is reported is one of an event that was polled for.
LEMMA PollIsUsed ==
  ASSUME IOInv, UsedOnly, "HUP" \notin Conditions, NEW d \in Fds
  PROVE  RealEvents(Poll(d, epoll[d])) \subseteq UsedOn(d)
  <1>1. "HUP" \notin cond[d]
    BY DEF IOInv, KernelTypes
  <1>2. \A x \in Poll(d, epoll[d]) : x # "HUP" /\ Asked[x] \in epoll[d]
    BY <1>1 DEF Poll
  <1>3. "HUP" \notin Poll(d, epoll[d])
    BY <1>2
  <1>4. QED
    BY <1>2, <1>3 DEF RealEvents, UsedOnly

\* So what a worker has to handle are events in use.
LEMMA ReportsKept ==
  ASSUME IOInv, UsedOnly, ReportsUsed, "HUP" \notin Conditions, [Next]_vars
  PROVE  ReportsUsed'
  <1> USE DEF ReportsUsed
  <1>0. got \in [Workers -> SUBSET Reported]
    BY DEF IOInv, LocalTypes
  <1>1. CASE UNCHANGED localVars
    BY <1>1
  <1>2. ASSUME NEW w \in Workers, CancelsSome(w)
        PROVE  ReportsUsed'
    BY <1>2 DEF CancelsSome, Cancels
  <1>3. ASSUME NEW w \in Workers, epoll_wait(w)
        PROVE  ReportsUsed'
    <2>1. \A v \in Workers : v # w => got'[v] = got[v]
      BY <1>0, <1>3 DEF epoll_wait
    <2>2. \A r \in got'[w] : r.fd \in Fds => r.mask = Poll(r.fd, epoll[r.fd])
      BY <1>0, <1>3 DEF epoll_wait
    <2>3. QED
      BY <2>1, <2>2, PollIsUsed
  <1>4. ASSUME NEW w \in Workers, Handles(w)
        PROVE  ReportsUsed'
    BY <1>0, <1>4 DEF Handles
  <1>5. ASSUME NEW w \in Workers,
               \/ CheckTimers(w) \/ CheckQueue(w) \/ CheckPending(w)
               \/ listExpiredCb(w) \/ SchedulesExpired(w) \/ IdleYields(w)
               \/ triggerEvent(w) \/ Uncount(w) \/ IdleTickled(w)
        PROVE  ReportsUsed'
    BY <1>5 DEF CheckTimers, CheckQueue, CheckPending, IdleReads,
       listExpiredCb, SchedulesExpired, IdleYields, triggerEvent, Uncount,
       IdleTickled
  <1>6. QED
    BY <1>1, <1>2, <1>3, <1>4, <1>5, StepKinds DEF IdleStep

-----------------------------------------------------------------------------
(* The lock of a descriptor.                                               *)

\* Nobody else has a descriptor that is not locked.
LEMMA Unlocked ==
  ASSUME NEW d \in Fds, ~Locked(d)
  PROVE  \A v \in Workers : cur[v].fd # d
  BY DEF Locked

\* A worker that takes an unlocked descriptor, with registered events to trigger.
LEMMA TakesLock ==
  ASSUME IOInv, TriggersRegistered, NEW w \in Workers, NEW d \in Fds, ~Locked(d),
         NEW todo \in SUBSET Events, todo # {}, todo \subseteq events[d],
         cur' = [cur EXCEPT ![w] = [fd |-> d, todo |-> todo]],
         ipc' = [ipc EXCEPT ![w] = "trigger"], UNCHANGED events
  PROVE  TriggersRegistered'
  <1> USE DEF TriggersRegistered, LocksApart, TriggersOwn, NextTodo, Triggers
  <1>1. /\ cur \in [Workers -> [fd : Fds \cup {Pipe}, todo : SUBSET Events]]
        /\ ipc \in [Workers -> IpcLabels]
    BY DEF IOInv, LocalTypes
  <1>2. /\ cur'[w] = [fd |-> d, todo |-> todo] /\ ipc'[w] = "trigger"
        /\ \A v \in Workers : v # w => cur'[v] = cur[v] /\ ipc'[v] = ipc[v]
    BY <1>1
  <1>3. \A v \in Workers : v # w => cur[v].fd # d
    BY Unlocked
  <1>4. LocksApart'
    BY <1>2, <1>3
  <1>5. TriggersOwn(w)'
    <2>1. cur'[w].fd = d /\ cur'[w].todo = todo
      BY <1>2
    <2>2. QED
      BY <1>2, <2>1
  <1>6. \A v \in Workers : v # w => TriggersOwn(v)'
    BY <1>2
  <1>7. QED
    BY <1>4, <1>5, <1>6

\* Registering and deleting wait for the lock.
LEMMA RegistersUnlocked ==
  ASSUME IOInv, TriggersRegistered, NEW d \in Fds, ~Locked(d),
         NEW s \in SUBSET Events,
         events' = [events EXCEPT ![d] = s], UNCHANGED localVars
  PROVE  TriggersRegistered'
  <1> USE DEF TriggersRegistered, LocksApart, TriggersOwn, NextTodo, Triggers
  <1>1. /\ \A v \in Workers : ipc[v] \in Triggers => cur[v].fd \in Fds
        /\ events \in [Fds -> SUBSET Events]
    BY DEF IOInv, LocalTypes, Registrations
  <1>2. \A v \in Workers : cur[v].fd # d
    BY Unlocked
  <1>3. \A v \in Workers :
          ipc[v] \in Triggers => events'[cur[v].fd] = events[cur[v].fd]
    BY <1>1, <1>2
  <1>4. QED
    BY <1>3

\* A worker that moves between labels at which it triggers nothing.
LEMMA TriggersNothing ==
  ASSUME IOInv, TriggersRegistered, NEW w \in Workers, UNCHANGED <<cur, events>>,
         ipc[w] \notin Triggers,
         \E l \in IpcLabels \ Triggers : ipc' = [ipc EXCEPT ![w] = l]
  PROVE  TriggersRegistered'
  <1>1. ipc \in [Workers -> IpcLabels]
    BY DEF IOInv, LocalTypes
  <1>2. QED
    BY <1>1 DEF TriggersRegistered, LocksApart, TriggersOwn, NextTodo, Triggers

\* The event that comes next is one of those to trigger.
LEMMA NextIsOne ==
  ASSUME IOInv, NEW w \in Workers, cur[w].todo # {}
  PROVE  NextTodo(w) \in cur[w].todo
  BY DEF IOInv, LocalTypes, NextTodo

\* Events are triggered one by one, and only registered ones.
LEMMA TriggersKept ==
  ASSUME IOInv, OneEventEach, ReportsUsed, UsedOnly, TriggersRegistered,
         failed = "none", [Next]_vars
  PROVE  TriggersRegistered'
  <1> USE DEF TriggersRegistered
  <1>0. /\ cur \in [Workers -> [fd : Fds \cup {Pipe}, todo : SUBSET Events]]
        /\ ipc \in [Workers -> IpcLabels]
        /\ events \in [Fds -> SUBSET Events]
        /\ got \in [Workers -> SUBSET Reported]
        /\ \A v \in Workers : ipc[v] \in Triggers => cur[v].fd \in Fds
    BY DEF IOInv, LocalTypes, Registrations
  <1>1. CASE UNCHANGED <<localVars, events>>
    BY <1>1 DEF LocksApart, TriggersOwn, NextTodo
  <1>2. ASSUME NEW w \in Workers, addEventFiber(w) \/ addEventCb(w) \/ delEvent(w)
        PROVE  TriggersRegistered'
    <2>1. UNCHANGED localVars
      BY <1>2 DEF addEventFiber, addEventCb, delEvent
    <2>2. PICK d \in Fds, s \in SUBSET Events :
            ~Locked(d) /\ events' = [events EXCEPT ![d] = s]
      <3>1. CASE addEventFiber(w) \/ addEventCb(w)
        <4>1. PICK d \in Fds, e \in Events :
                /\ ~Locked(d)
                /\ events' = [events EXCEPT ![d] = events[d] \cup {e}]
          BY <3>1 DEF addEventFiber, addEventCb, Registers
        <4>2. events[d] \cup {e} \in SUBSET Events
          BY <1>0
        <4>3. QED
          BY <4>1, <4>2
      <3>2. CASE delEvent(w)
        <4>1. PICK d \in Fds, e \in Events :
                /\ ~Locked(d)
                /\ events' = [events EXCEPT ![d] = events[d] \ {e}]
          BY <1>0, <3>2 DEF delEvent
        <4>2. events[d] \ {e} \in SUBSET Events
          BY <1>0
        <4>3. QED
          BY <4>1, <4>2
      <3>3. QED
        BY <1>2, <3>1, <3>2
    <2>3. QED
      BY <2>1, <2>2, RegistersUnlocked
  <1>3. ASSUME NEW w \in Workers, cancelEvent(w) \/ cancelAll(w)
        PROVE  TriggersRegistered'
    <2>1. PICK d \in Fds, todo \in SUBSET Events :
            todo \subseteq events[d] /\ Cancels(w, d, todo)
      BY <1>0, <1>3 DEF cancelEvent, cancelAll
    <2>2. QED
      BY <2>1, TakesLock DEF Cancels
  <1>4. ASSUME NEW w \in Workers, Handles(w)
        PROVE  TriggersRegistered'
    <2>1. PICK r \in got[w] :
            HandlesPipe(w, r) \/ HandlesStale(w, r) \/ HandlesEvent(w, r)
      BY <1>4 DEF Handles
    <2>2. UNCHANGED events
      BY <1>4 DEF Handles
    <2>3. CASE HandlesPipe(w, r) \/ HandlesStale(w, r)
      BY <2>2, <2>3 DEF HandlesPipe, HandlesStale, LocksApart, TriggersOwn, NextTodo
    <2>4. CASE HandlesEvent(w, r)
      <3> DEFINE d == r.fd  todo == RealEvents(r.mask)
      <3>1. /\ d \in Fds /\ ~Locked(d) /\ events[d] \cap todo # {}
            /\ cur' = [cur EXCEPT ![w] = [fd |-> d, todo |-> todo]]
            /\ ipc' = [ipc EXCEPT ![w] = "trigger"]
        BY <2>4 DEF HandlesEvent, StillRegistered
      <3>2. todo \subseteq UsedOn(d) /\ events[d] \subseteq UsedOn(d)
        BY <3>1 DEF ReportsUsed, UsedOnly
      <3>3. \A e, f \in UsedOn(d) : e = f
        BY DEF UsedOn, OneEventEach
      <3>4. todo \subseteq events[d] /\ todo # {} /\ todo \in SUBSET Events
        BY <1>0, <3>1, <3>2, <3>3
      <3> HIDE DEF d, todo
      <3>5. QED
        BY <2>2, <3>1, <3>4, TakesLock
    <2>5. QED
      BY <2>1, <2>3, <2>4
  <1>5. ASSUME NEW w \in Workers, triggerEvent(w)
        PROVE  TriggersRegistered'
    <2> DEFINE d == cur[w].fd  e == NextTodo(w)
    <2>1. /\ ipc[w] = "trigger" /\ d \in Fds /\ cur' = cur
          /\ events' = [events EXCEPT ![d] = @ \ {e}]
          /\ \E l \in {"tickle_trigger", "uncount"} : ipc' = [ipc EXCEPT ![w] = l]
      BY <1>0, <1>5 DEF triggerEvent, Triggers
    <2>2. cur[w].todo # {} /\ cur[w].todo \subseteq events[d]
      BY <2>1 DEF TriggersOwn, Triggers
    <2>3. TriggersOwn(w)'
      BY <1>0, <2>1, <2>2 DEF TriggersOwn, Triggers, NextTodo
    <2>4. ASSUME NEW v \in Workers, v # w
          PROVE  TriggersOwn(v)'
      <3>1. ipc[v] \in Triggers => cur[v].fd \in Fds /\ cur[v].fd # d
        BY <1>0, <2>1, <2>4 DEF LocksApart
      <3>2. ipc[v] \in Triggers => events'[cur[v].fd] = events[cur[v].fd]
        BY <1>0, <2>1, <3>1
      <3>3. ipc'[v] = ipc[v] /\ cur'[v] = cur[v]
        BY <1>0, <2>1, <2>4
      <3>4. QED
        BY <3>2, <3>3 DEF TriggersOwn, NextTodo, Triggers
    <2>5. LocksApart'
      BY <2>1 DEF LocksApart
    <2>6. QED
      BY <2>3, <2>4, <2>5
  <1>6. ASSUME NEW w \in Workers, Uncount(w)
        PROVE  TriggersRegistered'
    <2> DEFINE left == cur[w].todo \ {NextTodo(w)}
    <2>1. /\ ipc[w] = "uncount" /\ UNCHANGED events
          /\ left \subseteq events[cur[w].fd]
      BY <1>6 DEF Uncount, TriggersOwn
    <2>2. CASE left = {}
      <3>1. /\ cur' = [cur EXCEPT ![w] = Idle]
            /\ \E l \in {"handle", "none"} : ipc' = [ipc EXCEPT ![w] = l]
        BY <1>6, <2>2 DEF Uncount
      <3>2. /\ cur'[w].fd = Pipe /\ ipc'[w] \in {"handle", "none"}
            /\ \A v \in Workers : v # w => cur'[v] = cur[v] /\ ipc'[v] = ipc[v]
        BY <1>0, <3>1 DEF Idle
      <3>3. LocksApart'
        BY <3>2 DEF LocksApart
      <3>4. \A v \in Workers : TriggersOwn(v)'
        BY <2>1, <3>2 DEF TriggersOwn, NextTodo, Triggers
      <3>5. QED
        BY <3>3, <3>4
    <2>3. CASE left # {}
      <3>1. /\ cur' = [cur EXCEPT ![w] = [@ EXCEPT !.todo = left]]
            /\ ipc' = [ipc EXCEPT ![w] = "trigger"]
        BY <1>6, <2>3 DEF Uncount
      <3>2. /\ cur'[w].fd = cur[w].fd /\ cur'[w].todo = left
            /\ ipc'[w] = "trigger"
            /\ \A v \in Workers : v # w => cur'[v] = cur[v] /\ ipc'[v] = ipc[v]
        BY <1>0, <3>1
      <3>3. LocksApart'
        BY <3>2 DEF LocksApart
      <3>4. \A v \in Workers : TriggersOwn(v)'
        <4> HIDE DEF left
        <4>1. QED
          BY <2>1, <2>3, <3>2 DEF TriggersOwn, NextTodo, Triggers
      <3>5. QED
        BY <3>3, <3>4
    <2>4. QED
      BY <2>2, <2>3
  <1>7. ASSUME NEW w \in Workers, IdleTickled(w)
        PROVE  TriggersRegistered'
    <2>1. UNCHANGED <<cur, events>>
      BY <1>7 DEF IdleTickled
    <2>2. CASE ipc[w] = "tickle_push" /\ ipc' = [ipc EXCEPT ![w] = "handle"]
      BY <2>1, <2>2, TriggersNothing DEF IpcLabels, Triggers
    <2>3. CASE ipc[w] = "tickle_trigger" /\ ipc' = [ipc EXCEPT ![w] = "uncount"]
      BY <1>0, <2>1, <2>3 DEF LocksApart, TriggersOwn, NextTodo, Triggers
    <2>4. QED
      BY <1>7, <2>2, <2>3, IdleReturnsTo DEF IdleTickled
  <1>8. ASSUME NEW w \in Workers,
               \/ CheckTimers(w) \/ CheckQueue(w) \/ CheckPending(w)
               \/ epoll_wait(w) \/ listExpiredCb(w) \/ SchedulesExpired(w)
               \/ IdleYields(w)
        PROVE  TriggersRegistered'
    <2>1. /\ UNCHANGED <<cur, events>>
          /\ ipc[w] \notin Triggers
          /\ \E l \in IpcLabels \ Triggers : ipc' = [ipc EXCEPT ![w] = l]
      BY <1>8 DEF CheckTimers, CheckQueue, CheckPending, IdleReads, epoll_wait,
         listExpiredCb, SchedulesExpired, IdleYields, IpcLabels, Triggers
    <2>2. QED
      BY <2>1, TriggersNothing
  <1>9. \/ UNCHANGED <<localVars, events>>
        \/ \E w \in Workers :
             \/ addEventFiber(w) \/ addEventCb(w) \/ delEvent(w)
             \/ cancelEvent(w) \/ cancelAll(w) \/ IdleStep(w)
    <2>1. ASSUME NEW w \in Workers, Worker(w)
          PROVE  \/ UNCHANGED <<localVars, events>>
                 \/ addEventFiber(w) \/ addEventCb(w) \/ delEvent(w)
                 \/ cancelEvent(w) \/ cancelAll(w) \/ IdleStep(w)
      <3>1. CASE UNCHANGED ioVars
        BY <3>1 DEF ioVars
      <3>2. CASE WorkerTickled(w) \/ addTimer(w) \/ cancelTimer(w)
        BY <3>2 DEF WorkerTickled, addTimer, cancelTimer
      <3>3. QED
        BY <2>1, <3>1, <3>2 DEF Worker, TaskStep
    <2>2. CASE Owner
      BY <2>2 DEF Owner, StopProgress, ioVars
    <2>3. CASE Kernel \/ (Halted /\ UNCHANGED ioVars) \/ UNCHANGED vars
      BY <2>3 DEF Kernel, Becomes, Drained, Elapses, vars, ioVars
    <2>4. QED
      BY <2>1, <2>2, <2>3 DEF Next
  <1>10. QED
    BY <1>1, <1>2, <1>3, <1>4, <1>5, <1>6, <1>7, <1>8, <1>9 DEF IdleStep

-----------------------------------------------------------------------------
(* No assertion fails.                                                     *)

\* The steps of this module alone fail none.
LEMMA CallsKeepRoot ==
  ASSUME IOInv, RootFresh, TriggersRegistered, NEW w \in Workers,
         \/ triggerEvent(w) \/ SchedulesExpired(w) \/ addEventCb(w)
         \/ addTimer(w) \/ delEvent(w) \/ IdleYields(w) \/ cancelEvent(w)
         \/ cancelAll(w) \/ cancelTimer(w) \/ CheckTimers(w) \/ CheckQueue(w)
         \/ epoll_wait(w) \/ listExpiredCb(w) \/ Handles(w) \/ Uncount(w)
         \/ IdleTickled(w) \/ UNCHANGED coreVars
  PROVE  RootFresh'
  <1>1. ASSUME UNCHANGED <<mainVars, failed>>,
               \/ UNCHANGED pc
               \/ pc[w] # "off" /\ \E l : pc' = [pc EXCEPT ![w] = l]
        PROVE  RootFresh'
    BY <1>1 DEF RootFresh, IOInv, CoreInv, TypeOK
  <1>2. CASE triggerEvent(w)
    <2>1. cur[w].todo # {} /\ cur[w].todo \subseteq events[cur[w].fd]
      BY <1>2 DEF TriggersRegistered, TriggersOwn, triggerEvent, Triggers
    <2>2. NextTodo(w) \in events[cur[w].fd]
      BY <2>1, NextIsOne
    <2>3. QED
      BY <1>1, <1>2, <2>2 DEF triggerEvent, Check
  <1>3. CASE addTimer(w) \/ IdleYields(w)
    BY <1>1, <1>3 DEF addTimer, CallsFrom, IdleYields
  <1>4. CASE SchedulesExpired(w) \/ addEventCb(w) \/ delEvent(w)
    BY <1>1, <1>4 DEF SchedulesExpired, addEventCb, delEvent
  <1>5. CASE \/ cancelEvent(w) \/ cancelAll(w) \/ cancelTimer(w)
             \/ CheckTimers(w) \/ CheckQueue(w) \/ epoll_wait(w)
             \/ listExpiredCb(w) \/ Handles(w) \/ Uncount(w)
             \/ IdleTickled(w) \/ UNCHANGED coreVars
    <2>1. UNCHANGED coreVars
      BY <1>5 DEF cancelEvent, cancelAll, Cancels, cancelTimer, CheckTimers,
         CheckQueue, epoll_wait, listExpiredCb, Handles, Uncount, IdleTickled
    <2>2. QED
      BY <1>1, <2>1 DEF coreVars
  <1>6. QED
    BY <1>2, <1>3, <1>4, <1>5

LEMMA RootKept ==
  ASSUME MaxStops <= 1, IOInv, IOInv', RootFresh, TriggersRegistered, [Next]_vars
  PROVE  RootFresh'
  <1>0. CoreInv /\ CoreInv'
    BY DEF IOInv
  <1>1. ASSUME NEW w \in Workers, Worker(w)
        PROVE  RootFresh'
    <2>1. CASE RunStep(w) \/ WorkerTickled(w) \/ addEventFiber(w)
      BY <1>0, <2>1, WorkerKeepsRoot DEF WorkerTickled, addEventFiber, BodyStep
    <2>2. CASE TaskSchedules(w) \/ YieldToHold(w) \/ YieldToReady(w)
               \/ MainFunc(w)
      BY <1>0, <2>2, WorkerKeepsRoot DEF BodyStep
    <2>3. CASE CheckPending(w)
      <3>1. IdleReturns(w) \/ UNCHANGED coreVars
        BY <2>3 DEF CheckPending
      <3>2. QED
        BY <1>0, <3>1, WorkerKeepsRoot, CallsKeepRoot DEF BodyStep
    <2>4. QED
      BY <1>1, <2>1, <2>2, <2>3, CallsKeepRoot DEF Worker, TaskStep, IdleStep
  <1>2. CASE Owner
    <2>1. Stop(stopping) => CallsStop
      BY DEF Stop, CallsStop
    <2>2. OwnerStep
      BY <1>2, <2>1 DEF Owner, StopProgress, OwnerStep
    <2>3. QED
      BY <1>0, <2>2, OwnerKeepsRoot
  <1>3. CASE Kernel \/ (Halted /\ UNCHANGED ioVars) \/ UNCHANGED vars
    <2>1. UNCHANGED coreVars
      BY <1>3 DEF Kernel, Becomes, Drained, Elapses, Halted, vars
    <2>2. QED
      BY <2>1, ThreadsAssumption, CallsKeepRoot
  <1>4. QED
    BY <1>1, <1>2, <1>3 DEF Next

\* Where each descriptor is used for reading or for writing only and none hangs
\* up, the assertion of triggerEvent() holds whoever triggers and cancels; with
\* one stop() no other one fails either.
THEOREM IONeverFails ==
  OneEventEach /\ MaxStops <= 1 /\ Spec => []NoAssertionFails
  <1>1. SUFFICES ASSUME OneEventEach, MaxStops <= 1
                 PROVE  Spec => []NoAssertionFails
    OBVIOUS
  <1>2. Init => FlawlessInv
    BY DEF Init, CoreInit, FlawlessInv, RootFresh, Early, UsedOnly, ReportsUsed,
           TriggersRegistered, LocksApart, TriggersOwn, Triggers, Idle
  <1>3. ASSUME IOInv, IOInv', FlawlessInv, [Next]_vars
        PROVE  FlawlessInv'
    <2>1. failed = "none" /\ "HUP" \notin Conditions
      BY <1>1, <1>3 DEF FlawlessInv, RootFresh, OneEventEach
    <2>2. RootFresh'
      BY <1>1, <1>3, RootKept DEF FlawlessInv
    <2>3. UsedOnly'
      BY <1>3, UsedKept DEF FlawlessInv
    <2>4. ReportsUsed'
      BY <1>3, <2>1, ReportsKept DEF FlawlessInv
    <2>5. TriggersRegistered'
      BY <1>1, <1>3, <2>1, TriggersKept DEF FlawlessInv
    <2>6. QED
      BY <2>2, <2>3, <2>4, <2>5 DEF FlawlessInv
  <1>4. IOInv /\ IOInv' /\ FlawlessInv /\ [Next]_vars => FlawlessInv'
    BY <1>3
  <1>5. FlawlessInv => NoAssertionFails
    BY DEF FlawlessInv, RootFresh, NoAssertionFails
  <1>6. QED
    BY <1>2, <1>4, <1>5, IOInvHolds, PTL DEF Spec
=============================================================================
