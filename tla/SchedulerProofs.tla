-------------------------- MODULE SchedulerProofs --------------------------
(***************************************************************************)
(* Theorems about sylar::Scheduler, from the invariant that every          *)
(* scheduler keeps.  With one call of stop() no assertion fails at all;    *)
(* what stop() leaves in the queue nobody could take; and as long as no    *)
(* task yields twice the scheduler implements TaskPool.                    *)
(***************************************************************************)
EXTENDS Scheduler, SchedulerCoreProofs

USE ThreadsAssumption, NamesAssumption, BoundsAssumption
USE DEF Goto, Labels, RunLabels, TaskLabels, BackLabels, HandedOut, States,
        Ended, LetsGo, fiberVars, countVars, taskVars, mainVars, workerVars

\* stop() is called with what stopping() answers.
LEMMA StopAnswers == Stop(StoppingBase) => CallsStop
  BY DEF Stop, CallsStop

\* Every step keeps the invariant of the core.
LEMMA InvStep ==
  ASSUME CoreInv, [Next]_coreVars
  PROVE  CoreInv'
  BY CoreInvStep, StopAnswers
     DEF Next, Worker, TaskStep, Owner, StopProgress, Halted, BodyStep, OwnerStep

\* So it holds always.
LEMMA InvHolds == Spec => []CoreInv
  BY CoreInvInit, InvStep, PTL DEF Spec, Init

\* Every reachable state of run(), of the fibers and of the owning thread is
\* well typed, however many threads, tasks and yields there are.
THEOREM Types == Spec => []TypeOK
  <1>1. CoreInv => TypeOK
    BY DEF CoreInv
  <1>2. QED
    BY <1>1, InvHolds, PTL

\* The fiber objects of run() and of the queue have one owner each.
THEOREM OneOwner == Spec => []Ownership
  <1>1. CoreInv => Ownership
    BY DEF CoreInv
  <1>2. QED
    BY <1>1, InvHolds, PTL

\* No two threads run on, or are about to switch to, the stack of one fiber,
\* although run() of another thread sees it in the queue while it still runs.
THEOREM StacksAreExclusive == Spec => []ExclusiveStack
  BY CoreExclusive, InvHolds, PTL

\* The assertions of reset(), swapIn() and YieldToHold(), and the one behind the
\* last swapOut() of MainFunc, hold for every fiber a worker handles: only the
\* root fiber of a second stop() can fail one.
THEOREM FibersNeverFail == Spec => []FiberAssertions
  <1>1. CoreInv => FiberAssertions
    BY DEF CoreInv
  <1>2. QED
    BY <1>1, InvHolds, PTL

-----------------------------------------------------------------------------
(* With one call of stop() no assertion fails at all.                      *)

\* With one call of stop() the root fiber is fresh when it is entered.
LEMMA RootStep ==
  ASSUME MaxStops <= 1, CoreInv, CoreInv', RootFresh, [Next]_coreVars
  PROVE  RootFresh'
  <1>1. CASE \E w \in Workers : Worker(w)
    <2>1. PICK w \in Workers : Worker(w)
      BY <1>1
    <2>2. RunStep(w) \/ BodyStep(w)
      BY <2>1 DEF Worker, TaskStep, BodyStep
    <2>3. QED
      BY <2>2, WorkerKeepsRoot
  <1>2. CASE Owner
    BY <1>2, StopAnswers, OwnerKeepsRoot DEF Owner, StopProgress, OwnerStep
  <1>3. CASE UNCHANGED coreVars
    BY <1>3 DEF coreVars, RootFresh
  <1>4. QED
    BY <1>1, <1>2, <1>3 DEF Next, Halted

\* Called once, stop() enters the root fiber once: no assertion of Fiber fails.
THEOREM StoppedOnce == MaxStops <= 1 /\ Spec => []NoAssertionFails
  <1>1. SUFFICES ASSUME MaxStops <= 1
                 PROVE  Spec => []NoAssertionFails
    OBVIOUS
  <1>2. Init => RootFresh
    BY DEF Init, CoreInit, RootFresh, Early
  <1>3. CoreInv /\ CoreInv' /\ RootFresh /\ [Next]_coreVars => RootFresh'
    BY <1>1, RootStep
  <1>4. RootFresh => NoAssertionFails
    BY DEF RootFresh, NoAssertionFails
  <1>5. QED
    BY <1>2, <1>3, <1>4, InvHolds, PTL DEF Spec

-----------------------------------------------------------------------------
(* With use_caller, stop() leaves no task behind that any thread may run.  *)

\* A worker that has found nothing to run for the last time.
LastScanDone(w) ==
  \/ pc[w] = "exited"
  \/ /\ pc[w] \in {"tickle_scan", "dispatch"}
     /\ ft[w] = Nothing /\ idle_state[w] = "TERM"
Drained == \A i \in DOMAIN m_fibers :
  \/ m_fibers[i].thread # AnyThread
  \/ m_fibers[i].fiber # NoFiber /\ m_state[m_fibers[i].fiber] = "EXEC"

\* Every entry of the queue holds a fiber or a function: run() asserts it.
EntriesFilled == \A i \in DOMAIN m_fibers :
  m_fibers[i].fiber # NoFiber \/ m_fibers[i].cb # NoTask
\* From the turn of the root fiber on only workers add to the queue, and each of
\* them scans it once more: the last scan of all leaves nothing behind.
LastScanDrains ==
  main \in {"caller", "join", "stopped"} /\ (\A w \in Workers : LastScanDone(w))
    => Drained
AllLeave ==
  /\ main = "join" => pc[RootThread] = "exited"
  /\ main = "stopped" =>
       /\ \A w \in Workers : pc[w] \in {"off", "exited"}
       /\ m_fibers = <<>> \/ \A w \in Workers : pc[w] = "exited"

DrainInv == EntriesFilled /\ LastScanDrains /\ AllLeave

\* Taking an entry off or putting a filled one on keeps the others filled.
LEMMA FilledPop ==
  ASSUME TypeOK, EntriesFilled, NEW i \in DOMAIN m_fibers,
         m_fibers' = RemoveAt(m_fibers, i)
  PROVE  EntriesFilled'
  <1>1. /\ m_fibers \in Seq(FiberAndThread)
        /\ m_fibers' \in Seq(FiberAndThread)
        /\ Len(m_fibers') = Len(m_fibers) - 1
        /\ \A j \in 1..(Len(m_fibers) - 1) :
             m_fibers'[j] = IF j < i THEN m_fibers[j] ELSE m_fibers[j + 1]
    BY RemoveAtFacts DEF TypeOK
  <1>2. SUFFICES ASSUME NEW j \in DOMAIN m_fibers'
                 PROVE  m_fibers'[j].fiber # NoFiber \/ m_fibers'[j].cb # NoTask
    BY DEF EntriesFilled
  <1>3. /\ j \in 1..(Len(m_fibers) - 1)
        /\ j \in DOMAIN m_fibers /\ j + 1 \in DOMAIN m_fibers
    BY <1>1
  <1>4. \/ m_fibers'[j] = m_fibers[j]
        \/ m_fibers'[j] = m_fibers[j + 1]
    BY <1>1, <1>3
  <1>5. QED
    BY <1>3, <1>4 DEF EntriesFilled

LEMMA FilledPush ==
  ASSUME TypeOK, EntriesFilled, NEW e \in FiberAndThread,
         e.fiber # NoFiber \/ e.cb # NoTask, m_fibers' = Append(m_fibers, e)
  PROVE  EntriesFilled'
  <1>1. /\ m_fibers \in Seq(FiberAndThread)
        /\ DOMAIN m_fibers' = DOMAIN m_fibers \cup {Len(m_fibers) + 1}
        /\ \A j \in DOMAIN m_fibers : m_fibers'[j] = m_fibers[j]
        /\ m_fibers'[Len(m_fibers) + 1] = e
    <2>1. m_fibers \in Seq(FiberAndThread)
      BY DEF TypeOK
    <2>2. QED
      BY <2>1, AppendFacts
  <1>2. QED
    BY <1>1 DEF EntriesFilled

\* schedule() is called with a function or a fiber.
LEMMA FilledCall ==
  ASSUME CoreInv, EntriesFilled, ScheduleTask \/ ScheduleArmed
  PROVE  EntriesFilled'
  <1>1. fresh \subseteq Tasks /\ armed \subseteq Fibers /\ TypeOK
    BY DEF CoreInv, TypeOK
  <1>2. CASE ScheduleTask
    <2>1. PICK t \in fresh, pin \in Pins : Push(TaskEntry(t, pin))
      BY <1>2 DEF ScheduleTask
    <2>2. /\ TaskEntry(t, pin) \in FiberAndThread
          /\ TaskEntry(t, pin).cb # NoTask
      BY <1>1, EntryTypes DEF TaskEntry
    <2>3. QED
      BY <1>1, <2>1, <2>2, FilledPush DEF Push
  <1>3. CASE ScheduleArmed
    <2>1. PICK f \in armed : Push(FiberEntry(f))
      BY <1>3 DEF ScheduleArmed
    <2>2. FiberEntry(f) \in FiberAndThread /\ FiberEntry(f).fiber # NoFiber
      BY <1>1, EntryTypes DEF FiberEntry
    <2>3. QED
      BY <1>1, <2>1, <2>2, FilledPush DEF Push
  <1>4. QED
    BY <1>2, <1>3

\* A worker that is still in its last rounds keeps the others' word.
LEMMA StillBusy ==
  ASSUME CoreInv, DrainInv, RootThread \in Workers,
         NEW w \in Workers, UNCHANGED main,
         NEW a \in Labels \ {"off", "exited"},
         NEW b \in Labels \ {"off", "exited"}, Goto(w, a, b),
         ~LastScanDone(w)', EntriesFilled'
  PROVE  DrainInv'
  <1>1. main # "stopped" /\ pc[w] # "exited"
    BY DEF DrainInv, AllLeave
  <1>2. main = "join" => w # RootThread
    BY <1>1 DEF DrainInv, AllLeave
  <1>3. pc[RootThread]' = pc[RootThread] \/ w = RootThread
    BY DEF CoreInv, TypeOK
  <1>4. QED
    BY <1>1, <1>2, <1>3 DEF DrainInv, LastScanDrains, AllLeave

\* Every step of a worker.
LEMMA DrainRun ==
  ASSUME CoreInv, CoreInv', DrainInv, RootThread \in Workers,
         NEW w \in Workers, Worker(w)
  PROVE  DrainInv'
  <1>0. TypeOK /\ EntriesFilled /\ pc \in [Workers -> Labels]
    BY DEF CoreInv, TypeOK, DrainInv
  <1>1. CASE Scan(w)
    <2>1. PICK n : Goto(w, "scan", AfterScan(w, n))
      <3>1. CASE ScanTakes(w)
        BY <3>1 DEF ScanTakes
      <3>2. CASE ScanFindsNothing(w)
        BY <3>2 DEF ScanFindsNothing
      <3>3. QED
        BY <1>1, <3>1, <3>2 DEF Scan
    <2>2. AfterScan(w, n) \in {"tickle_scan", "dispatch"}
      BY DEF AfterScan
    <2>3. main # "stopped" /\ (main = "join" => w # RootThread) /\ main' = main
      BY <1>1, <1>0, <2>1 DEF DrainInv, AllLeave, Scan
    <2>4. AllLeave'
      BY <2>1, <2>2, <2>3, <1>0 DEF DrainInv, AllLeave
    <2>5. EntriesFilled'
      BY <1>1, <1>0, FilledPop DEF Scan, ScanTakes, ScanFindsNothing,
                                   EntriesFilled
    <2>6. CASE ScanTakes(w)
      <3>1. PICK i \in DOMAIN m_fibers : ft' = [ft EXCEPT ![w] = m_fibers[i]]
        BY <2>6 DEF ScanTakes
      <3>2. m_fibers[i] # Nothing
        BY <1>0 DEF EntriesFilled, Nothing
      <3>3. ft'[w] # Nothing
        BY <1>0, <3>1, <3>2 DEF TypeOK
      <3>4. ~LastScanDone(w)'
        BY <3>3, <2>1, <2>2, <1>0 DEF LastScanDone
      <3>5. QED
        BY <3>4, <2>4, <2>5 DEF DrainInv, LastScanDrains
    <2>7. CASE ScanFindsNothing(w)
      <3>1. Drained
        <4>1. SUFFICES ASSUME NEW i \in DOMAIN m_fibers,
                              m_fibers[i].thread = AnyThread
                       PROVE  /\ m_fibers[i].fiber # NoFiber
                              /\ m_state[m_fibers[i].fiber] = "EXEC"
          BY DEF Drained
        <4>2. ~Eligible(w, m_fibers[i])
          BY <2>7 DEF ScanFindsNothing
        <4>3. QED
          BY <4>1, <4>2 DEF Eligible
      <3>2. UNCHANGED <<m_fibers, m_state>>
        BY <1>1, <2>7 DEF Scan, ScanFindsNothing
      <3>3. Drained'
        BY <3>1, <3>2 DEF Drained
      <3>4. QED
        BY <3>3, <2>4, <2>5 DEF DrainInv, LastScanDrains
    <2>8. QED
      BY <1>1, <2>6, <2>7 DEF Scan
  <1>2. CASE Exit(w) \/ (Tickled(w) /\ pc[w] = "tickle_scan")
    <2>1. /\ UNCHANGED <<m_fibers, m_state, ft, idle_state, main>>
          /\ pc[w] \in {"tickle_scan", "dispatch"}
          /\ pc'[w] \in {"dispatch", "exited"}
          /\ \A v \in Workers \ {w} : pc'[v] = pc[v]
      BY <1>2, <1>0, TickledMoves DEF Exit, Tickled
    <2>2. LastScanDone(w)' => LastScanDone(w)
      <3>1. CASE Exit(w)
        BY <2>1, <3>1 DEF LastScanDone, Exit
      <3>2. CASE Tickled(w) /\ pc[w] = "tickle_scan"
        <4>1. pc'[w] = "dispatch"
          BY <1>0, <3>2, TickledMoves
        <4>2. QED
          BY <2>1, <4>1 DEF LastScanDone
      <3>3. QED
        BY <1>2, <3>1, <3>2
    <2>3. \A v \in Workers : LastScanDone(v)' => LastScanDone(v)
      BY <2>1, <2>2 DEF LastScanDone
    <2>4. Drained => Drained'
      BY <2>1 DEF Drained
    <2>5. EntriesFilled'
      BY <2>1, <1>0 DEF EntriesFilled
    <2>6. AllLeave'
      BY <2>1 DEF DrainInv, AllLeave
    <2>7. QED
      BY <2>1, <2>3, <2>4, <2>5, <2>6 DEF DrainInv, LastScanDrains
  <1>3. CASE \/ DispatchFiber(w) \/ DispatchCb(w) \/ DispatchIdle(w)
             \/ CountTask(w) \/ SwapIn(w) \/ SwappedBack(w) \/ UncountTask(w)
             \/ AfterFiber(w) \/ CbEnded(w) \/ CbHeld(w)
             \/ IdleSwapIn(w) \/ IdleSwappedBack(w) \/ AfterIdle(w)
    <2>1. UNCHANGED <<m_fibers, main>>
      BY <1>3 DEF DispatchFiber, DispatchCb, DispatchIdle, CountTask, SwapIn,
                  SwappedBack, UncountTask, AfterFiber, CbEnded, CbHeld,
                  IdleSwapIn, IdleSwappedBack, AfterIdle
    <2>2. PICK a \in Labels \ {"off", "exited"},
               b \in Labels \ {"off", "exited", "tickle_scan", "dispatch"} :
            Goto(w, a, b)
      BY <1>3 DEF DispatchFiber, DispatchCb, DispatchIdle, CountTask, SwapIn,
                  SwappedBack, UncountTask, AfterFiber, AfterCb, CbEnded, CbHeld,
                  IdleSwapIn, IdleSwappedBack, AfterIdle
    <2>3. EntriesFilled' /\ ~LastScanDone(w)'
      BY <2>1, <2>2, <1>0 DEF EntriesFilled, LastScanDone
    <2>4. QED
      BY <2>1, <2>2, <2>3, StillBusy
  <1>4. CASE CbReady(w)
    <2>1. /\ main' = main /\ pc[w] = "after"
          /\ m_fibers' = Append(m_fibers, FiberEntry(cb_fiber[w]))
          /\ \/ Goto(w, "after", "tickle_after") \/ Goto(w, "after", "scan")
      BY <1>4 DEF CbReady, AfterCb, Push
    <2>2. cb_fiber[w] \in Fibers
      BY <1>4, <2>1, CurFacts DEF CbReady, AfterCb, Cur
    <2>3. /\ FiberEntry(cb_fiber[w]) \in FiberAndThread
          /\ FiberEntry(cb_fiber[w]).fiber # NoFiber
      BY <2>2, EntryTypes DEF FiberEntry
    <2>4. EntriesFilled'
      BY <2>1, <2>3, <1>0, FilledPush
    <2>5. ~LastScanDone(w)'
      BY <2>1, <1>0 DEF LastScanDone
    <2>6. QED
      BY <2>1, <2>4, <2>5, StillBusy
  <1>5. CASE TaskSchedules(w) \/ TaskWakes(w)
    <2>1. /\ main' = main /\ (ScheduleTask \/ ScheduleArmed)
          /\ Goto(w, "task", "tickle_task") \/ Goto(w, "task", "task")
      BY <1>5 DEF TaskSchedules, TaskWakes, TaskCallsSchedule
    <2>2. EntriesFilled'
      BY <2>1, <1>0, FilledCall
    <2>3. ~LastScanDone(w)'
      BY <2>1, <1>0 DEF LastScanDone
    <2>4. QED
      BY <2>1, <2>2, <2>3, StillBusy
  <1>6. CASE TaskRequeues(w)
    <2>1. /\ main' = main /\ pc[w] = "task"
          /\ m_fibers' = Append(m_fibers, FiberEntry(Cur(w)))
          /\ \/ Goto(w, "task", "tickle_park") \/ Goto(w, "task", "parking")
      BY <1>6 DEF TaskRequeues, Push
    <2>2. Cur(w) \in Fibers
      BY <2>1, CurFacts
    <2>3. /\ FiberEntry(Cur(w)) \in FiberAndThread
          /\ FiberEntry(Cur(w)).fiber # NoFiber
      BY <2>2, EntryTypes DEF FiberEntry
    <2>4. EntriesFilled'
      BY <2>1, <2>3, <1>0, FilledPush
    <2>5. ~LastScanDone(w)'
      BY <2>1, <1>0 DEF LastScanDone
    <2>6. QED
      BY <2>1, <2>4, <2>5, StillBusy
  <1>7. CASE \/ TaskArms(w) \/ YieldToHold(w) \/ YieldToReady(w) \/ MainFunc(w)
             \/ IdleReturns(w)
             \/ (Tickled(w) /\ pc[w] # "tickle_scan")
    <2>1. UNCHANGED <<m_fibers, main>>
      BY <1>7 DEF TaskArms, YieldToHold, YieldToReady, MainFunc, IdleReturns,
                  Tickled
    <2>2. PICK a \in Labels \ {"off", "exited"},
               b \in Labels \ {"off", "exited", "tickle_scan", "dispatch"} :
            Goto(w, a, b)
      BY <1>7, TickledMoves DEF TaskArms, YieldToHold, YieldToReady, MainFunc,
                                IdleReturns
    <2>3. EntriesFilled' /\ ~LastScanDone(w)'
      BY <2>1, <2>2, <1>0 DEF EntriesFilled, LastScanDone
    <2>4. QED
      BY <2>1, <2>2, <2>3, StillBusy
  <1>8. CASE Tickled(w)
    BY <1>2, <1>7, <1>8
  <1>9. QED
    BY <1>1, <1>2, <1>3, <1>4, <1>5, <1>6, <1>7, <1>8
       DEF Worker, RunStep, TaskStep

\* Every step of the owning thread.
LEMMA DrainOwner ==
  ASSUME CoreInv, CoreInv', DrainInv, RootThread \in Workers, Owner
  PROVE  DrainInv'
  <1>0. TypeOK /\ EntriesFilled /\ pc \in [Workers -> Labels]
    BY DEF CoreInv, TypeOK, DrainInv
  <1>1. CASE OwnerSchedules \/ OwnerWakes
    <2>1. /\ ScheduleTask \/ ScheduleArmed
          /\ main' \in Early
      BY <1>1 DEF OwnerSchedules, OwnerWakes, OwnerCallsSchedule, Early
    <2>2. QED
      BY <2>1, <1>0, FilledCall DEF DrainInv, LastScanDrains, AllLeave, Early
  <1>2. CASE OwnerTickled \/ Start \/ StopTickled
    <2>1. m_fibers' = m_fibers /\ main' \in Early \cup {"stop_tickle"}
      BY <1>2, OwnerLabels DEF OwnerTickled, Start, StopTickled, Early
    <2>2. QED
      BY <2>1, <1>0 DEF EntriesFilled, DrainInv, LastScanDrains, AllLeave, Early
  <1>3. CASE Stop(StoppingBase)
    <2>1. UNCHANGED <<m_fibers, pc>> /\ main \in {"started", "stopped"}
      BY <1>3 DEF Stop, workerVars
    <2>2. EntriesFilled'
      BY <2>1, <1>0 DEF EntriesFilled
    <2>3. CASE main' = "stop_tickle"
      BY <2>2, <2>3 DEF DrainInv, LastScanDrains, AllLeave
    <2>4. CASE main' = "stopped" /\ Pool = {} /\ StoppingBase
      <3>1. m_fibers' = <<>> /\ m_fibers = <<>>
        BY <2>1, <2>4 DEF StoppingBase
      <3>2. \A w \in Workers : pc'[w] \in {"off", "exited"}
        BY <2>1, <2>4 DEF Pool, CoreInv, Ownership, OutsideRun
      <3>3. Drained'
        BY <3>1 DEF Drained
      <3>4. QED
        BY <2>2, <2>4, <3>1, <3>2, <3>3 DEF DrainInv, LastScanDrains, AllLeave
    <2>5. QED
      BY <1>3, <2>3, <2>4 DEF Stop
  <1>4. CASE StopRuns
    <2>1. /\ m_fibers' = m_fibers /\ main' = "caller"
          /\ pc' = [pc EXCEPT ![RootThread] = "scan"]
      BY <1>4 DEF StopRuns
    <2>2. ~LastScanDone(RootThread)'
      BY <2>1, <1>0 DEF LastScanDone
    <2>3. QED
      BY <2>1, <2>2, <1>0 DEF EntriesFilled, DrainInv, LastScanDrains, AllLeave
  <1>5. CASE CallerReturns \/ Join
    <2>1. /\ UNCHANGED <<m_fibers, m_state, pc, ft, idle_state>>
          /\ main \in {"caller", "join"} /\ main' \in {"join", "stopped"}
          /\ pc[RootThread] = "exited"
          /\ main' = "stopped" => \A w \in Pool : pc[w] = "exited"
      BY <1>5 DEF CallerReturns, Join, workerVars, fiberVars, DrainInv, AllLeave
    <2>2. EntriesFilled' /\ (Drained => Drained')
      BY <2>1, <1>0 DEF EntriesFilled, Drained
    <2>3. \A w \in Workers : LastScanDone(w)' => LastScanDone(w)
      BY <2>1 DEF LastScanDone
    <2>4. AllLeave'
      BY <2>1 DEF AllLeave, Pool
    <2>5. QED
      BY <2>1, <2>2, <2>3, <2>4 DEF DrainInv, LastScanDrains
  <1>6. QED
    BY <1>1, <1>2, <1>3, <1>4, <1>5 DEF Owner, StopProgress

LEMMA DrainStep ==
  ASSUME CoreInv, CoreInv', DrainInv, RootThread \in Workers, [Next]_coreVars
  PROVE  DrainInv'
  <1>1. CASE UNCHANGED coreVars
    BY <1>1 DEF coreVars, DrainInv, EntriesFilled, LastScanDrains, LastScanDone,
                Drained, AllLeave
  <1>2. QED
    BY <1>1, DrainRun, DrainOwner DEF Next, Halted

\* With use_caller, when stop() returns, what is left in the queue is bound to
\* one thread or is a fiber that stayed EXEC.
THEOREM StopDrainsAlways == RootThread \in Workers /\ Spec => []StopDrains
  <1>1. SUFFICES ASSUME RootThread \in Workers
                 PROVE  Spec => []StopDrains
    OBVIOUS
  <1>2. Init => DrainInv
    BY DEF Init, CoreInit, DrainInv, EntriesFilled, LastScanDrains, AllLeave
  <1>3. CoreInv /\ CoreInv' /\ DrainInv /\ [Next]_coreVars => DrainInv'
    BY <1>1, DrainStep
  <1>4. DrainInv => StopDrains
    <2>1. SUFFICES ASSUME DrainInv, main = "stopped"
                   PROVE  Drained
      BY DEF StopDrains, Drained
    <2>2. CASE m_fibers = <<>>
      BY <2>2 DEF Drained
    <2>3. CASE \A w \in Workers : pc[w] = "exited"
      BY <2>1, <2>3 DEF DrainInv, LastScanDrains, LastScanDone
    <2>4. QED
      BY <2>1, <2>2, <2>3 DEF DrainInv, AllLeave
  <1>5. QED
    BY <1>2, <1>3, <1>4, InvHolds, PTL DEF Spec

-----------------------------------------------------------------------------
(* Every task is in one place, as a function that waits to be begun or as  *)
(* the body of one fiber; what it has yielded says how its fiber came into *)
(* a worker's hands.                                                       *)

AtRun == {"incw", "swapin"}
Turn  == TaskLabels \cup BackLabels
Runs(w, f) == pc[w] \in Turn /\ Cur(w) = f

Asked(t)  == \E i \in DOMAIN m_fibers : m_fibers[i].cb = t
Picked(t) == \E w \in Workers : ft[w].cb = t
Bodied(t) == \E f \in Fibers : m_cb[f] = t

FreshOnce == \A t \in fresh :
  t \notin done /\ ~Asked(t) /\ ~Picked(t) /\ ~Bodied(t)
AskedOnce == \A i \in DOMAIN m_fibers : LET t == m_fibers[i].cb IN
  t # NoTask =>
    /\ m_fibers[i].fiber = NoFiber
    /\ t \notin done /\ ~Picked(t) /\ ~Bodied(t)
    /\ \A j \in DOMAIN m_fibers : m_fibers[j].cb = t => i = j
PickedOnce == \A w \in Workers : LET t == ft[w].cb IN
  t # NoTask =>
    /\ ft[w].fiber = NoFiber /\ pc[w] \in {"tickle_scan", "dispatch"}
    /\ t \notin done /\ ~Bodied(t)
    /\ \A v \in Workers : ft[v].cb = t => v = w

\* A task that has not ended is the body of one fiber, and that has not ended.
BodiedOnce == \A f, g \in Fibers :
  m_cb[f] = m_cb[g] /\ m_cb[f] \notin done \cup {NoTask} => f = g
BodiesLive == \A f \in Fibers :
  /\ m_cb[f] # NoTask => (m_cb[f] \in done <=> m_state[f] \in Ended)
  /\ m_state[f] = "INIT" /\ m_cb[f] # NoTask =>
       \E w \in Workers : pc[w] \in AtRun /\ Cur(w) = f

\* A fiber that waits has yielded; one that yields in a turn it got from the
\* queue yields for the second time.  Only such a one stays EXEC.
Yielded(f, n) == m_cb[f] \notin done \cup {NoTask} => yields[m_cb[f]] >= n
YieldsCounted ==
  /\ \A f \in Fibers : Waiting(f) => Yielded(f, 1)
  /\ \A w \in Workers : ft[w].fiber # NoFiber =>
       /\ Yielded(ft[w].fiber, 1)
       /\ pc[w] \in HandedOut => Yielded(ft[w].fiber, 2)
  /\ \A w \in Workers :
       ft[w].fiber = NoFiber /\ pc[w] \in HandedOut => Yielded(cb_fiber[w], 1)
  /\ \A f \in Fibers : m_state[f] = "EXEC" =>
       Yielded(f, 2) \/ \E w \in Workers : Runs(w, f)

Tasks_ == FreshOnce /\ AskedOnce /\ PickedOnce /\ BodiedOnce
TaskInv == Tasks_ /\ BodiesLive /\ YieldsCounted

\* A worker's move that no part of TaskInv is sensitive to.
KeepsTurn(v) ==
  /\ pc[v] \in AtRun => pc'[v] \in AtRun /\ cb_fiber'[v] = cb_fiber[v]
  /\ pc[v] \in Turn => pc'[v] \in Turn /\ cb_fiber'[v] = cb_fiber[v]
  /\ pc'[v] \in HandedOut => pc[v] \in HandedOut
  /\ ft[v].cb # NoTask => pc'[v] \in {"tickle_scan", "dispatch"}

\* A step that moves labels only, and those as KeepsTurn says.
LEMMA QuietTasks ==
  ASSUME TaskInv, \A v \in Workers : KeepsTurn(v),
         UNCHANGED <<m_fibers, m_state, m_cb, ft, armed, fresh, done, yields>>
  PROVE  TaskInv'
  <1>1. /\ \A t : Asked(t)' = Asked(t) /\ Picked(t)' = Picked(t)
                  /\ Bodied(t)' = Bodied(t)
        /\ \A f : Waiting(f)' = Waiting(f)
        /\ \A f, n : Yielded(f, n)' = Yielded(f, n)
    BY DEF Asked, Picked, Bodied, Waiting, Queued, Yielded
  <1>2. FreshOnce'
    BY <1>1 DEF TaskInv, Tasks_, FreshOnce
  <1>3. AskedOnce'
    BY <1>1 DEF TaskInv, Tasks_, AskedOnce
  <1>4. PickedOnce'
    BY <1>1 DEF TaskInv, Tasks_, PickedOnce, KeepsTurn
  <1>5. BodiedOnce'
    BY DEF TaskInv, Tasks_, BodiedOnce
  <1>6. BodiesLive'
    BY DEF TaskInv, BodiesLive, KeepsTurn, Cur
  <1>7. \A w \in Workers : \A f : Runs(w, f) => Runs(w, f)'
    BY DEF Runs, KeepsTurn, Cur
  <1>8. \A w \in Workers : pc'[w] \in HandedOut => /\ pc[w] \in HandedOut
                                                   /\ cb_fiber'[w] = cb_fiber[w]
    BY DEF KeepsTurn, Turn
  <1>9. YieldsCounted'
    BY <1>1, <1>7, <1>8 DEF TaskInv, YieldsCounted
  <1>10. QED
    BY <1>2, <1>3, <1>4, <1>5, <1>6, <1>9 DEF TaskInv, Tasks_

\* The same for one worker that goes on, from a to b.
LEMMA QuietTask ==
  ASSUME CoreInv, TaskInv, NEW w \in Workers, NEW a, NEW b, Goto(w, a, b),
         KeepsTurn(w),
         UNCHANGED <<m_fibers, m_state, m_cb, ft, armed, fresh, done, yields>>,
         \A v \in Workers \ {w} : cb_fiber'[v] = cb_fiber[v]
  PROVE  TaskInv'
  <1>1. \A v \in Workers \ {w} : pc'[v] = pc[v]
    BY DEF CoreInv, TypeOK
  <1>2. \A v \in Workers \ {w} : KeepsTurn(v)
    BY <1>1 DEF KeepsTurn, TaskInv, Tasks_, PickedOnce
  <1>3. \A v \in Workers : KeepsTurn(v)
    BY <1>2
  <1>4. QED
    BY <1>3, QuietTasks

\* Types of what the queue and the workers hold.
LEMMA TaskTypes ==
  ASSUME CoreInv
  PROVE  /\ TypeOK /\ QueuedOnce /\ m_fibers \in Seq(FiberAndThread)
         /\ \A i \in DOMAIN m_fibers : /\ m_fibers[i] \in FiberAndThread
                                       /\ m_fibers[i].fiber \in Fibers \cup {NoFiber}
                                       /\ m_fibers[i].cb \in Tasks \cup {NoTask}
         /\ \A v \in Workers : /\ ft[v].fiber \in Fibers \cup {NoFiber}
                               /\ ft[v].cb \in Tasks \cup {NoTask}
                               /\ cb_fiber[v] \in Fibers \cup {NoFiber}
         /\ \A f \in Fibers : m_cb[f] \in Tasks \cup {NoTask}
         /\ done \subseteq Tasks /\ fresh \subseteq Tasks /\ armed \subseteq Fibers
         /\ yields \in [Tasks -> 0..MaxYields]
  <1>1. TypeOK /\ QueuedOnce
    BY DEF CoreInv, Ownership
  <1>2. \A i \in DOMAIN m_fibers : m_fibers[i] \in FiberAndThread
    BY <1>1, QueueTypes
  <1>3. \A v \in Workers : ft[v] \in FiberAndThread
    BY <1>1, HandTypes
  <1>4. \A e \in FiberAndThread :
          e.fiber \in Fibers \cup {NoFiber} /\ e.cb \in Tasks \cup {NoTask}
    BY DEF FiberAndThread
  <1>5. QED
    BY <1>1, <1>2, <1>3, <1>4 DEF TypeOK

\* The entries left in the queue are the others.
LEMMA Popped ==
  ASSUME TypeOK, NEW i \in DOMAIN m_fibers, m_fibers' = RemoveAt(m_fibers, i)
  PROVE  \E old \in [DOMAIN m_fibers' -> DOMAIN m_fibers] :
           \A j, k \in DOMAIN m_fibers' :
             /\ old[j] # i /\ m_fibers'[j] = m_fibers[old[j]]
             /\ old[j] = old[k] => j = k
  <1>1. m_fibers \in Seq(FiberAndThread)
    BY DEF TypeOK
  <1>2. /\ m_fibers' \in Seq(FiberAndThread)
        /\ Len(m_fibers') = Len(m_fibers) - 1
        /\ \A k \in 1..(Len(m_fibers) - 1) :
             m_fibers'[k] = IF k < i THEN m_fibers[k] ELSE m_fibers[k + 1]
    BY <1>1, RemoveAtFacts
  <1>3. /\ DOMAIN m_fibers' = 1..(Len(m_fibers) - 1)
        /\ DOMAIN m_fibers = 1..Len(m_fibers) /\ Len(m_fibers) \in Nat
    BY <1>1, <1>2
  <1> DEFINE old == [k \in DOMAIN m_fibers' |-> IF k < i THEN k ELSE k + 1]
  <1>4. old \in [DOMAIN m_fibers' -> DOMAIN m_fibers]
    BY <1>3
  <1>5. \A j, k \in DOMAIN m_fibers' :
          /\ old[j] # i /\ m_fibers'[j] = m_fibers[old[j]]
          /\ old[j] = old[k] => j = k
    BY <1>2, <1>3
  <1>6. QED
    BY <1>4, <1>5

\* Entry i goes from the queue into the hands of w.
LEMMA TakesTasks ==
  ASSUME CoreInv, TaskInv, NEW w \in Workers, ScanTakes(w),
         UNCHANGED <<m_state, m_cb, cb_fiber, armed, fresh, done, yields>>
  PROVE  TaskInv'
  <1>0. /\ TypeOK /\ QueuedOnce /\ FtStates /\ WaitingIsAlive
        /\ FreshOnce /\ AskedOnce /\ PickedOnce /\ BodiedOnce
        /\ pc \in [Workers -> Labels] /\ ft \in [Workers -> FiberAndThread]
    BY DEF CoreInv, Ownership, TypeOK, TaskInv, Tasks_
  <1>1. PICK i \in DOMAIN m_fibers :
          /\ Eligible(w, m_fibers[i])
          /\ ft' = [ft EXCEPT ![w] = m_fibers[i]]
          /\ m_fibers' = RemoveAt(m_fibers, i)
          /\ pc[w] = "scan" /\ pc' = [pc EXCEPT ![w] = AfterScan(w, i)]
    BY DEF ScanTakes
  <1>2. PICK e \in FiberAndThread : e = m_fibers[i]
    BY TaskTypes
  <1>3. /\ pc'[w] \in {"tickle_scan", "dispatch"} /\ ft'[w] = e
        /\ \A v \in Workers \ {w} : pc'[v] = pc[v] /\ ft'[v] = ft[v]
        /\ ft[w].fiber = NoFiber /\ ft[w].cb = NoTask
    BY <1>0, <1>1, <1>2 DEF AfterScan, FtStates, PickedOnce
  <1>4. PICK old \in [DOMAIN m_fibers' -> DOMAIN m_fibers] :
          \A j, k \in DOMAIN m_fibers' :
            /\ old[j] # i /\ m_fibers'[j] = m_fibers[old[j]]
            /\ old[j] = old[k] => j = k
    BY <1>0, <1>1, Popped
  <1>5. \A t : t # NoTask =>
          /\ Asked(t)' => Asked(t) /\ e.cb # t
          /\ Picked(t)' => Picked(t) \/ e.cb = t
    <2>1. ASSUME NEW t, t # NoTask, Asked(t)'
          PROVE  Asked(t) /\ e.cb # t
      <3>1. PICK k \in DOMAIN m_fibers : k # i /\ m_fibers[k].cb = t
        BY <1>4, <2>1 DEF Asked
      <3>2. QED
        BY <1>0, <1>2, <2>1, <3>1 DEF Asked, AskedOnce
    <2>2. QED
      BY <1>3, <2>1 DEF Picked
  <1>6. \A t : Bodied(t)' = Bodied(t)
    BY DEF Bodied
  <1>7. e.cb # NoTask => Asked(e.cb)
    BY <1>2 DEF Asked
  <1>8. FreshOnce'
    BY <1>0, <1>5, <1>6, <1>7, TaskTypes DEF FreshOnce
  <1>9. AskedOnce'
    <2>1. SUFFICES ASSUME NEW j \in DOMAIN m_fibers', NEW t,
                          t = m_fibers'[j].cb, t # NoTask
                   PROVE  /\ m_fibers'[j].fiber = NoFiber
                          /\ t \notin done /\ ~Picked(t)' /\ ~Bodied(t)'
                          /\ \A k \in DOMAIN m_fibers' :
                               m_fibers'[k].cb = t => j = k
      BY DEF AskedOnce
    <2>2. old[j] \in DOMAIN m_fibers /\ old[j] # i /\ m_fibers'[j] = m_fibers[old[j]]
      BY <1>4
    <2>3. /\ m_fibers[old[j]].fiber = NoFiber
          /\ t \notin done /\ ~Picked(t) /\ ~Bodied(t) /\ e.cb # t
      BY <1>0, <1>2, <2>1, <2>2 DEF AskedOnce
    <2>4. ~Picked(t)' /\ ~Bodied(t)'
      BY <1>5, <1>6, <2>1, <2>3
    <2>5. ASSUME NEW m \in DOMAIN m_fibers', m_fibers'[m].cb = t
          PROVE  j = m
      <3>1. old[m] \in DOMAIN m_fibers /\ m_fibers[old[m]].cb = t
        BY <1>4, <2>5
      <3>2. old[j] = old[m]
        BY <1>0, <2>1, <2>2, <3>1 DEF AskedOnce
      <3>3. QED
        BY <1>4, <3>2
    <2>6. QED
      BY <2>2, <2>3, <2>4, <2>5
  <1>10. PickedOnce'
    <2>1. e.cb # NoTask => /\ e.fiber = NoFiber /\ e.cb \notin done
                           /\ ~Picked(e.cb) /\ ~Bodied(e.cb)
      BY <1>0, <1>2 DEF AskedOnce
    <2>2. QED
      BY <1>0, <1>3, <1>6, <2>1 DEF PickedOnce, Picked
  <1>11. BodiedOnce'
    BY <1>0 DEF BodiedOnce
  <1>12. \A v \in Workers : v # w => pc'[v] = pc[v] /\ Cur(v)' = Cur(v)
    BY <1>3 DEF Cur
  <1>13. pc[w] \notin AtRun \cup Turn /\ pc'[w] \notin AtRun \cup Turn
    BY <1>1, <1>3 DEF AtRun, Turn
  <1>14. BodiesLive'
    BY <1>12, <1>13 DEF TaskInv, BodiesLive
  <1>15. YieldsCounted'
    <2>1. \A f \in Fibers : Waiting(f)' => Waiting(f)
      BY <1>0, <1>1, PopFacts
    <2>2. \A f, n : Yielded(f, n)' = Yielded(f, n)
      BY DEF Yielded
    <2>3. \A v \in Workers : \A f : Runs(v, f) => Runs(v, f)'
      BY <1>12, <1>13 DEF Runs
    <2>4. e.fiber # NoFiber => Waiting(e.fiber) /\ e.fiber \in Fibers
      BY <1>2, TaskTypes DEF Waiting, Queued
    <2>5. \A v \in Workers : ft'[v].fiber # NoFiber =>
            /\ Yielded(ft'[v].fiber, 1)
            /\ pc'[v] \in HandedOut => Yielded(ft'[v].fiber, 2)
      BY <1>3, <2>4 DEF TaskInv, YieldsCounted
    <2>6. QED
      BY <1>3, <2>1, <2>2, <2>3, <2>5 DEF TaskInv, YieldsCounted
  <1>16. QED
    BY <1>8, <1>9, <1>10, <1>11, <1>14, <1>15 DEF TaskInv, Tasks_

\* A fiber is queued: no task is asked for that was not before.
LEMMA FiberPushed ==
  ASSUME CoreInv, Tasks_, NEW g \in Fibers, Push(FiberEntry(g)),
         UNCHANGED <<m_cb, ft, fresh, done>>,
         \A v \in Workers : ft[v].cb # NoTask => pc'[v] = pc[v]
  PROVE  Tasks_'
  <1>1. /\ m_fibers \in Seq(FiberAndThread) /\ FiberEntry(g) \in FiberAndThread
        /\ FiberEntry(g).fiber = g /\ FiberEntry(g).cb = NoTask
    BY EntryTypes, TaskTypes DEF FiberEntry
  <1>2. /\ DOMAIN m_fibers' = DOMAIN m_fibers \cup {Len(m_fibers) + 1}
        /\ \A j \in DOMAIN m_fibers : m_fibers'[j] = m_fibers[j]
        /\ m_fibers'[Len(m_fibers) + 1] = FiberEntry(g)
    BY <1>1, AppendFacts DEF Push
  <1>3. \A j \in DOMAIN m_fibers' : m_fibers'[j].cb # NoTask =>
          j \in DOMAIN m_fibers /\ m_fibers'[j] = m_fibers[j]
    BY <1>1, <1>2
  <1>4. \A t : /\ t # NoTask => (Asked(t)' => Asked(t))
               /\ Picked(t)' = Picked(t) /\ Bodied(t)' = Bodied(t)
    BY <1>3 DEF Asked, Picked, Bodied
  <1>5. FreshOnce'
    BY <1>4, TaskTypes DEF Tasks_, FreshOnce
  <1>6. AskedOnce'
    BY <1>3, <1>4 DEF Tasks_, AskedOnce
  <1>7. PickedOnce'
    BY <1>4 DEF Tasks_, PickedOnce
  <1>8. BodiedOnce'
    BY DEF Tasks_, BodiedOnce
  <1>9. QED
    BY <1>5, <1>6, <1>7, <1>8 DEF Tasks_

\* Who waits after a push.
LEMMA WaitsAfterPush ==
  ASSUME CoreInv, NEW e \in FiberAndThread, Push(e), armed' \subseteq armed
  PROVE  \A f \in Fibers : Waiting(f)' => Waiting(f) \/ f = e.fiber
  <1>1. m_fibers \in Seq(FiberAndThread)
    BY TaskTypes
  <1>2. /\ DOMAIN m_fibers' = DOMAIN m_fibers \cup {Len(m_fibers) + 1}
        /\ \A j \in DOMAIN m_fibers : m_fibers'[j] = m_fibers[j]
        /\ m_fibers'[Len(m_fibers) + 1] = e
    BY <1>1, AppendFacts DEF Push
  <1>3. QED
    BY <1>2 DEF Waiting, Queued

\* schedule(), called by a task or by the owner.
LEMMA CallTasks ==
  ASSUME CoreInv, TaskInv, ScheduleTask \/ ScheduleArmed,
         \A v \in Workers : KeepsTurn(v),
         UNCHANGED <<m_state, m_cb, ft, cb_fiber>>,
         \A v \in Workers : ft[v].cb # NoTask => pc'[v] = pc[v]
  PROVE  TaskInv'
  <1>0. Tasks_ /\ FreshOnce /\ AskedOnce /\ PickedOnce /\ BodiedOnce
    BY DEF TaskInv, Tasks_
  <1>1. UNCHANGED <<done, yields>>
    BY DEF ScheduleTask, ScheduleArmed
  <1>2. Tasks_' /\ \A f \in Fibers : Waiting(f)' => Waiting(f)
    <2>1. CASE ScheduleArmed
      <3>1. PICK g \in armed : Push(FiberEntry(g)) /\ armed' = armed \ {g}
        BY <2>1 DEF ScheduleArmed
      <3>2. g \in Fibers /\ FiberEntry(g) \in FiberAndThread /\ FiberEntry(g).fiber = g
        BY TaskTypes, EntryTypes DEF FiberEntry
      <3>3. UNCHANGED <<fresh, done>>
        BY <2>1 DEF ScheduleArmed
      <3>4. Tasks_'
        BY <1>0, <3>1, <3>2, <3>3, FiberPushed
      <3>5. \A f \in Fibers : Waiting(f)' => Waiting(f) \/ f = g
        BY <3>1, <3>2, WaitsAfterPush
      <3>6. QED
        BY <3>1, <3>4, <3>5 DEF Waiting
    <2>2. CASE ScheduleTask
      <3>1. PICK t \in fresh, pin \in Pins :
              /\ Push(TaskEntry(t, pin)) /\ fresh' = fresh \ {t}
              /\ UNCHANGED <<armed, done>>
        BY <2>2 DEF ScheduleTask
      <3>2. /\ t \in Tasks /\ t # NoTask /\ TaskEntry(t, pin) \in FiberAndThread
            /\ TaskEntry(t, pin).fiber = NoFiber /\ TaskEntry(t, pin).cb = t
        BY TaskTypes, EntryTypes DEF TaskEntry
      <3>3. m_fibers \in Seq(FiberAndThread)
        BY TaskTypes
      <3>4. /\ DOMAIN m_fibers' = DOMAIN m_fibers \cup {Len(m_fibers) + 1}
            /\ \A j \in DOMAIN m_fibers : m_fibers'[j] = m_fibers[j]
            /\ m_fibers'[Len(m_fibers) + 1] = TaskEntry(t, pin)
        BY <3>1, <3>2, <3>3, AppendFacts DEF Push
      <3>5. \A u : /\ Asked(u)' => Asked(u) \/ u = t
                   /\ Picked(u)' = Picked(u) /\ Bodied(u)' = Bodied(u)
        BY <3>2, <3>4 DEF Asked, Picked, Bodied
      <3>6. t \notin done /\ ~Asked(t) /\ ~Picked(t) /\ ~Bodied(t)
        BY <1>0 DEF FreshOnce
      <3>7. FreshOnce'
        BY <1>0, <3>1, <3>5 DEF FreshOnce
      <3>8. AskedOnce'
        <4>1. ASSUME NEW i \in DOMAIN m_fibers', m_fibers'[i].cb # NoTask,
                     i \in DOMAIN m_fibers
              PROVE  m_fibers'[i] = m_fibers[i] /\ m_fibers'[i].cb # t
          BY <3>4, <3>6, <4>1 DEF Asked
        <4>2. SUFFICES ASSUME NEW i \in DOMAIN m_fibers', NEW u,
                              u = m_fibers'[i].cb, u # NoTask
                       PROVE  /\ m_fibers'[i].fiber = NoFiber
                              /\ u \notin done' /\ ~Picked(u)' /\ ~Bodied(u)'
                              /\ \A j \in DOMAIN m_fibers' :
                                   m_fibers'[j].cb = u => i = j
          BY DEF AskedOnce
        <4>3. CASE i \in DOMAIN m_fibers
          <5>1. u = m_fibers[i].cb /\ u # t
            BY <4>1, <4>2, <4>3
          <5>2. QED
            BY <1>0, <3>1, <3>2, <3>4, <3>5, <4>2, <4>3, <5>1 DEF AskedOnce
        <4>4. CASE i = Len(m_fibers) + 1
          <5>1. u = t
            BY <3>2, <3>4, <4>2, <4>4
          <5>2. \A j \in DOMAIN m_fibers : m_fibers[j].cb # t
            BY <3>6 DEF Asked
          <5>3. QED
            BY <3>1, <3>2, <3>4, <3>5, <3>6, <4>4, <5>1, <5>2
        <4>5. QED
          BY <3>4, <4>2, <4>3, <4>4
      <3>9. PickedOnce'
        BY <1>0, <3>1, <3>5 DEF PickedOnce
      <3>10. BodiedOnce'
        BY <1>0, <3>1 DEF BodiedOnce
      <3>11. \A f \in Fibers : Waiting(f)' => Waiting(f)
        BY <3>1, <3>2, WaitsAfterPush
      <3>12. QED
        BY <3>7, <3>8, <3>9, <3>10, <3>11 DEF Tasks_
    <2>3. QED
      BY <2>1, <2>2
  <1>3. BodiesLive'
    BY <1>1 DEF TaskInv, BodiesLive, KeepsTurn, Cur
  <1>4. YieldsCounted'
    <2>1. \A f, n : Yielded(f, n)' = Yielded(f, n)
      BY <1>1 DEF Yielded
    <2>2. \A w \in Workers : \A f : Runs(w, f) => Runs(w, f)'
      BY DEF Runs, KeepsTurn, Cur
    <2>3. \A w \in Workers : pc'[w] \in HandedOut => pc[w] \in HandedOut
      BY DEF KeepsTurn
    <2>4. QED
      BY <1>2, <2>1, <2>2, <2>3 DEF TaskInv, YieldsCounted
  <1>5. QED
    BY <1>2, <1>3, <1>4 DEF TaskInv

\* A worker in its turn, and those that have other fibers in their hands.
LEMMA TurnOf ==
  ASSUME CoreInv, NEW w \in Workers, NEW a, NEW b, Goto(w, a, b), a \in RunLabels
  PROVE  /\ Cur(w) \in Fibers /\ pc \in [Workers -> Labels]
         /\ pc[w] = a /\ pc'[w] = b /\ \A v \in Workers \ {w} : pc'[v] = pc[v]
         /\ \A v \in Workers \ {w} : /\ ft[v].fiber # Cur(w)
                                     /\ cb_fiber[v] # Cur(w) /\ Cur(v) # Cur(w)
         /\ \/ ft[w].fiber = Cur(w) /\ cb_fiber[w] # Cur(w)
            \/ ft[w].fiber = NoFiber /\ cb_fiber[w] = Cur(w)
  <1>1. pc \in [Workers -> Labels] /\ pc[w] = a
    BY DEF CoreInv, TypeOK
  <1>2. PICK f \in Fibers : f = Cur(w)
    BY <1>1, CurFacts
  <1>3. /\ \A v \in Workers \ {w} : ft[v].fiber # f /\ cb_fiber[v] # f
        /\ \/ ft[w].fiber = f /\ cb_fiber[w] # f
           \/ ft[w].fiber = NoFiber /\ cb_fiber[w] = f
    BY <1>2, HandOfCur
  <1>4. QED
    BY <1>1, <1>2, <1>3 DEF Cur

\* With the bodies, the functions and the queue as they were, tasks stay.
LEMMA SameTasks ==
  ASSUME CoreInv, Tasks_, UNCHANGED <<m_fibers, m_cb, ft, fresh, done>>,
         \A v \in Workers : ft[v].cb # NoTask => pc'[v] = pc[v]
  PROVE  Tasks_'
  <1>1. \A t : /\ Asked(t)' = Asked(t) /\ Picked(t)' = Picked(t)
               /\ Bodied(t)' = Bodied(t)
    BY DEF Asked, Picked, Bodied
  <1>2. FreshOnce'
    BY <1>1 DEF Tasks_, FreshOnce
  <1>3. AskedOnce'
    BY <1>1 DEF Tasks_, AskedOnce
  <1>4. PickedOnce'
    BY <1>1 DEF Tasks_, PickedOnce
  <1>5. BodiedOnce'
    BY DEF Tasks_, BodiedOnce
  <1>6. QED
    BY <1>2, <1>3, <1>4, <1>5 DEF Tasks_

\* A worker in run() is not at a label where it holds a function.
LEMMA HoldsNoFunction ==
  ASSUME TaskInv, NEW w \in Workers, pc[w] \notin {"tickle_scan", "dispatch"},
         ft[w].cb \in Tasks \cup {NoTask}
  PROVE  ft[w].cb = NoTask
  BY DEF TaskInv, Tasks_, PickedOnce

\* The turn of a fiber begins.
LEMMA SwapInTasks ==
  ASSUME CoreInv, TaskInv, NEW w \in Workers, SwapIn(w)
  PROVE  TaskInv'
  <1>0. /\ Goto(w, "swapin", "task")
        /\ m_state' = [m_state EXCEPT ![Cur(w)] = "EXEC"]
        /\ UNCHANGED <<m_fibers, m_cb, ft, cb_fiber, armed, fresh, done, yields>>
    BY DEF SwapIn
  <1>1. PICK f \in Fibers : f = Cur(w)
    BY <1>0, TurnOf
  <1>2. /\ pc[w] = "swapin" /\ pc'[w] = "task"
        /\ \A v \in Workers \ {w} : pc'[v] = pc[v] /\ Cur(v) # f
        /\ \A v \in Workers : Cur(v)' = Cur(v)
    BY <1>0, <1>1, TurnOf DEF Cur
  <1>3. \A g \in Fibers : m_state'[g] = IF g = f THEN "EXEC" ELSE m_state[g]
    BY <1>0, <1>1 DEF CoreInv, TypeOK
  <1>4. m_state[f] \notin Ended
    BY <1>1, <1>2 DEF CoreInv, Ownership, FtStates, CbStates, Cur
  <1>5. Tasks_'
    <2>1. \A v \in Workers : ft[v].cb # NoTask => pc'[v] = pc[v]
      BY <1>2 DEF TaskInv, Tasks_, PickedOnce
    <2>2. QED
      BY <1>0, <2>1, SameTasks DEF TaskInv
  <1>6. BodiesLive'
    BY <1>0, <1>1, <1>2, <1>3, <1>4 DEF TaskInv, BodiesLive, AtRun
  <1>7. YieldsCounted'
    <2>1. \A g : Waiting(g)' = Waiting(g)
      BY <1>0 DEF Waiting, Queued
    <2>2. \A g, n : Yielded(g, n)' = Yielded(g, n)
      BY <1>0 DEF Yielded
    <2>3. \A v \in Workers : \A g : Runs(v, g) => Runs(v, g)'
      BY <1>2 DEF Runs, Turn
    <2>4. Runs(w, f)'
      BY <1>1, <1>2 DEF Runs, Turn
    <2>5. \A v \in Workers : pc'[v] \in HandedOut => pc[v] \in HandedOut
      BY <1>2
    <2>6. QED
      BY <1>0, <1>3, <2>1, <2>2, <2>3, <2>4, <2>5 DEF TaskInv, YieldsCounted
  <1>8. QED
    BY <1>5, <1>6, <1>7 DEF TaskInv

\* run() is done with a fiber from the queue.
LEMMA AfterFiberTasks ==
  ASSUME CoreInv, TaskInv, NEW w \in Workers, AfterFiber(w)
  PROVE  TaskInv'
  <1>0. /\ Goto(w, "after", "scan") /\ ft' = [ft EXCEPT ![w] = Nothing]
        /\ UNCHANGED <<m_fibers, m_state, m_cb, cb_fiber, armed, fresh, done,
                       yields>>
        /\ ft[w].fiber # NoFiber
    BY DEF AfterFiber
  <1>1. PICK f \in Fibers : f = Cur(w)
    BY <1>0, TurnOf
  <1>2. /\ pc[w] = "after" /\ pc'[w] = "scan" /\ f = ft[w].fiber
        /\ \A v \in Workers \ {w} : pc'[v] = pc[v]
    BY <1>0, <1>1, TurnOf DEF Cur
  <1>3. /\ \A v \in Workers \ {w} : ft'[v] = ft[v] /\ Cur(v)' = Cur(v)
        /\ ft'[w].fiber = NoFiber /\ ft'[w].cb = NoTask
    BY <1>0 DEF Nothing, Cur, CoreInv, TypeOK
  <1>4. \A t : /\ Asked(t)' = Asked(t) /\ Bodied(t)' = Bodied(t)
               /\ t # NoTask => (Picked(t)' => Picked(t))
    BY <1>0, <1>3 DEF Asked, Bodied, Picked
  <1>5. FreshOnce'
    BY <1>0, <1>4, TaskTypes DEF TaskInv, Tasks_, FreshOnce
  <1>6. AskedOnce'
    BY <1>0, <1>4 DEF TaskInv, Tasks_, AskedOnce
  <1>7. PickedOnce'
    BY <1>0, <1>2, <1>3, <1>4 DEF TaskInv, Tasks_, PickedOnce
  <1>8. BodiedOnce'
    BY <1>0 DEF TaskInv, Tasks_, BodiedOnce
  <1>9. BodiesLive'
    BY <1>0, <1>2, <1>3 DEF TaskInv, BodiesLive, AtRun
  <1>10. YieldsCounted'
    <2>1. \A g : Waiting(g)' = Waiting(g)
      BY <1>0 DEF Waiting, Queued
    <2>2. \A g, n : Yielded(g, n)' = Yielded(g, n)
      BY <1>0 DEF Yielded
    <2>3. \A v \in Workers \ {w} : \A g : Runs(v, g) => Runs(v, g)'
      BY <1>2, <1>3 DEF Runs
    <2>4. Yielded(f, 2)
      BY <1>0, <1>2 DEF TaskInv, YieldsCounted
    <2>5. \A g : Runs(w, g) => g = f
      BY <1>1 DEF Runs
    <2>6. QED
      BY <1>0, <1>2, <1>3, <2>1, <2>2, <2>3, <2>4, <2>5 DEF TaskInv, YieldsCounted
  <1>11. QED
    BY <1>5, <1>6, <1>7, <1>8, <1>9, <1>10 DEF TaskInv, Tasks_

\* run() is done with the fiber of a function.
LEMMA AfterCbTasks ==
  ASSUME CoreInv, TaskInv, NEW w \in Workers,
         CbReady(w) \/ CbEnded(w) \/ CbHeld(w)
  PROVE  TaskInv'
  <1>0. /\ pc[w] = "after" /\ ft[w].fiber = NoFiber
        /\ \E b \in {"scan", "tickle_after"} : Goto(w, "after", b)
        /\ UNCHANGED <<ft, armed, fresh, done, yields>>
    BY DEF CbReady, CbEnded, CbHeld, AfterCb
  <1>1. PICK f \in Fibers : f = Cur(w)
    BY <1>0, TurnOf
  <1>2. /\ pc'[w] \in {"scan", "tickle_after"} /\ cb_fiber[w] = f
        /\ \A v \in Workers \ {w} : pc'[v] = pc[v] /\ Cur(v) # f
    BY <1>0, <1>1, TurnOf DEF Cur
  <1>3. /\ \A v \in Workers \ {w} : cb_fiber'[v] = cb_fiber[v] /\ Cur(v)' = Cur(v)
        /\ \A g \in Fibers \ {f} : m_state'[g] = m_state[g] /\ m_cb'[g] = m_cb[g]
        /\ m_state'[f] # "EXEC"
    BY <1>0, <1>1, <1>2 DEF CbReady, CbEnded, CbHeld, Cur, CoreInv, TypeOK
  <1>4. /\ m_cb'[f] = m_cb[f] \/ m_cb'[f] = NoTask
        /\ m_state'[f] = "INIT" => m_cb'[f] = NoTask
        /\ m_cb[f] # NoTask /\ m_cb'[f] # NoTask =>
             (m_state'[f] \in Ended <=> m_state[f] \in Ended)
    <2>1. m_state[f] # "INIT"
      BY <1>0, <1>2 DEF CoreInv, Ownership, CbStates
    <2>2. CASE CbReady(w)
      BY <1>2, <2>1, <2>2 DEF CbReady, AfterCb
    <2>3. CASE CbEnded(w)
      BY <1>2, <2>3 DEF CbEnded, AfterCb, CoreInv, TypeOK
    <2>4. CASE CbHeld(w)
      BY <1>2, <2>1, <2>4 DEF CbHeld, AfterCb, CoreInv, TypeOK
    <2>5. QED
      BY <2>2, <2>3, <2>4
  <1>5. \A v \in Workers : ft[v].cb # NoTask => pc'[v] = pc[v]
    BY <1>0, <1>2 DEF TaskInv, Tasks_, PickedOnce
  <1>6. Tasks_'
    <2>1. CASE CbReady(w)
      <3>1. Push(FiberEntry(f)) /\ m_cb' = m_cb
        BY <1>2, <2>1 DEF CbReady
      <3>2. QED
        BY <1>0, <1>5, <3>1, FiberPushed DEF TaskInv
    <2>2. CASE CbHeld(w)
      <3>1. UNCHANGED <<m_fibers, m_cb>>
        BY <2>2 DEF CbHeld
      <3>2. QED
        BY <1>0, <1>5, <3>1, SameTasks DEF TaskInv
    <2>3. CASE CbEnded(w)
      <3>1. UNCHANGED <<m_fibers>>
        BY <2>3 DEF CbEnded
      <3>2. \A t : /\ Asked(t)' = Asked(t) /\ Picked(t)' = Picked(t)
                   /\ t # NoTask => (Bodied(t)' => Bodied(t))
        BY <1>0, <1>3, <1>4, <3>1 DEF Asked, Picked, Bodied
      <3>3. FreshOnce'
        BY <1>0, <3>2, TaskTypes DEF TaskInv, Tasks_, FreshOnce
      <3>4. AskedOnce'
        BY <1>0, <3>1, <3>2 DEF TaskInv, Tasks_, AskedOnce
      <3>5. PickedOnce'
        BY <1>0, <1>5, <3>2 DEF TaskInv, Tasks_, PickedOnce
      <3>6. BodiedOnce'
        BY <1>0, <1>3, <1>4 DEF TaskInv, Tasks_, BodiedOnce
      <3>7. QED
        BY <3>3, <3>4, <3>5, <3>6 DEF Tasks_
    <2>4. QED
      BY <2>1, <2>2, <2>3
  <1>7. BodiesLive'
    BY <1>0, <1>2, <1>3, <1>4 DEF TaskInv, BodiesLive, AtRun
  <1>8. YieldsCounted'
    <2>1. \A g \in Fibers : \A n : Yielded(g, n) => Yielded(g, n)'
      BY <1>0, <1>3, <1>4 DEF Yielded
    <2>2. Yielded(f, 1)
      BY <1>0, <1>2 DEF TaskInv, YieldsCounted
    <2>3. \A g \in Fibers : Waiting(g)' => Waiting(g) \/ g = f
      <3>1. CASE CbReady(w)
        <4>1. Push(FiberEntry(f))
          BY <1>2, <3>1 DEF CbReady
        <4>2. FiberEntry(f) \in FiberAndThread /\ FiberEntry(f).fiber = f
          BY EntryTypes DEF FiberEntry
        <4>3. QED
          BY <1>0, <4>1, <4>2, WaitsAfterPush
      <3>2. CASE m_fibers' = m_fibers
        BY <1>0, <3>2 DEF Waiting, Queued
      <3>3. QED
        BY <3>1, <3>2 DEF CbEnded, CbHeld
    <2>4. \A g \in Fibers : Waiting(g)' => Yielded(g, 1)'
      BY <2>1, <2>2, <2>3 DEF TaskInv, YieldsCounted
    <2>5. \A v \in Workers \ {w} : \A g : Runs(v, g) => Runs(v, g)'
      BY <1>2, <1>3 DEF Runs
    <2>6. \A g \in Fibers : m_state'[g] = "EXEC" =>
            Yielded(g, 2)' \/ \E v \in Workers : Runs(v, g)'
      <3>1. SUFFICES ASSUME NEW g \in Fibers, m_state'[g] = "EXEC"
                     PROVE  Yielded(g, 2)' \/ \E v \in Workers : Runs(v, g)'
        OBVIOUS
      <3>2. g # f /\ m_state[g] = "EXEC"
        BY <1>3, <3>1
      <3>3. ~Runs(w, g)
        BY <1>1, <3>2 DEF Runs
      <3>4. QED
        BY <2>1, <2>5, <3>2, <3>3 DEF TaskInv, YieldsCounted
    <2>7. \A v \in Workers : \A g \in Fibers : ft'[v].fiber = g =>
            /\ Yielded(g, 1)'
            /\ pc'[v] \in HandedOut => Yielded(g, 2)'
      <3>1. SUFFICES ASSUME NEW v \in Workers, NEW g \in Fibers, ft[v].fiber = g
                     PROVE  /\ Yielded(g, 1)'
                            /\ pc'[v] \in HandedOut => Yielded(g, 2)'
        BY <1>0
      <3>2. v # w /\ pc'[v] = pc[v]
        BY <1>0, <1>2, <3>1
      <3>3. Yielded(g, 1) /\ (pc[v] \in HandedOut => Yielded(g, 2))
        BY <3>1 DEF TaskInv, YieldsCounted
      <3>4. QED
        BY <2>1, <3>2, <3>3
    <2>8. \A v \in Workers : ft'[v].fiber = NoFiber /\ pc'[v] \in HandedOut =>
            \E g \in Fibers : g = cb_fiber'[v] /\ Yielded(g, 1)'
      <3>1. SUFFICES ASSUME NEW v \in Workers, ft'[v].fiber = NoFiber,
                            pc'[v] \in HandedOut
                     PROVE  \E g \in Fibers : g = cb_fiber'[v] /\ Yielded(g, 1)'
        OBVIOUS
      <3>2. v # w /\ pc[v] \in HandedOut /\ ft[v].fiber = NoFiber
        BY <1>0, <1>2, <3>1
      <3>3. cb_fiber'[v] = cb_fiber[v] /\ cb_fiber[v] \in Fibers
        BY <1>3, <3>2, CurFacts DEF Cur
      <3>4. PICK g \in Fibers : g = cb_fiber[v] /\ g = cb_fiber'[v]
        BY <3>3
      <3>5. Yielded(g, 1)
        BY <3>2, <3>4 DEF TaskInv, YieldsCounted
      <3>6. QED
        BY <2>1, <3>4, <3>5
    <2>9. QED
      BY <1>0, <2>4, <2>6, <2>7, <2>8, TaskTypes DEF YieldsCounted, Yielded
  <1>9. QED
    BY <1>6, <1>7, <1>8 DEF TaskInv

\* The body hands out its fiber or gives it back READY, and counts the yield.
LEMMA YieldTasks ==
  ASSUME CoreInv, TaskInv, NEW w \in Workers,
         TaskArms(w) \/ TaskRequeues(w) \/ YieldToReady(w)
  PROVE  TaskInv'
  <1>0. /\ \E b \in {"parking", "tickle_park", "dec"} : Goto(w, "task", b)
        /\ Yielding(w) /\ UNCHANGED <<m_cb, ft, cb_fiber, fresh, done>>
    BY DEF TaskArms, TaskRequeues, YieldToReady
  <1>1. PICK f \in Fibers : f = Cur(w)
    BY <1>0, TurnOf
  <1>2. /\ pc[w] = "task" /\ pc'[w] \in {"parking", "tickle_park", "dec"}
        /\ \A v \in Workers \ {w} : pc'[v] = pc[v] /\ ft[v].fiber # f
        /\ \A v \in Workers : Cur(v)' = Cur(v)
        /\ \/ ft[w].fiber = f
           \/ ft[w].fiber = NoFiber /\ cb_fiber[w] = f
    BY <1>0, <1>1, TurnOf DEF Cur
  <1>3. PICK t \in Tasks : t = m_cb[f] /\ yields' = [yields EXCEPT ![t] = @ + 1]
    BY <1>0, <1>1, <1>2, CurFacts DEF Yielding, TaskOf
  <1>4. /\ m_state[f] = "EXEC" /\ m_state'[f] \in {"EXEC", "READY"}
        /\ \A g \in Fibers \ {f} : m_state'[g] = m_state[g]
    <2>1. m_state[f] = "EXEC"
      BY <1>1, <1>2, CurFacts
    <2>2. QED
      BY <1>1, <2>1 DEF TaskArms, TaskRequeues, YieldToReady, CoreInv, TypeOK
  <1>5. \A v \in Workers : ft[v].cb # NoTask => pc'[v] = pc[v]
    BY <1>2 DEF TaskInv, Tasks_, PickedOnce
  <1>6. /\ Tasks_'
        /\ \A g \in Fibers : Waiting(g)' => Waiting(g) \/ g = f
    <2>1. CASE TaskRequeues(w)
      <3>1. Push(FiberEntry(f)) /\ armed' = armed
        BY <1>1, <2>1 DEF TaskRequeues
      <3>2. FiberEntry(f) \in FiberAndThread /\ FiberEntry(f).fiber = f
        BY EntryTypes DEF FiberEntry
      <3>3. \A g \in Fibers : Waiting(g)' => Waiting(g) \/ g = f
        BY <3>1, <3>2, WaitsAfterPush
      <3>4. Tasks_'
        BY <1>0, <1>5, <3>1, FiberPushed DEF TaskInv
      <3>5. QED
        BY <3>3, <3>4
    <2>2. CASE TaskArms(w) \/ YieldToReady(w)
      <3>1. m_fibers' = m_fibers /\ (armed' = armed \/ armed' = armed \cup {f})
        BY <1>1, <2>2 DEF TaskArms, YieldToReady
      <3>2. QED
        BY <1>0, <1>5, <3>1, SameTasks DEF TaskInv, Waiting, Queued
    <2>3. QED
      BY <2>1, <2>2
  <1>7. BodiesLive'
    BY <1>0, <1>1, <1>2, <1>4 DEF TaskInv, BodiesLive, AtRun
  <1>8. YieldsCounted'
    <2>1. \A u \in Tasks : /\ yields[u] \in Nat /\ yields'[u] \in Nat
                           /\ yields'[u] >= yields[u]
                           /\ u = t => yields'[u] = yields[u] + 1
      BY <1>3, TaskTypes
    <2>2. \A g \in Fibers : \A n \in {1, 2} : Yielded(g, n) => Yielded(g, n)'
      BY <1>0, <2>1, TaskTypes DEF Yielded
    <2>3. Yielded(f, 1)' /\ (Yielded(f, 1) => Yielded(f, 2)')
      BY <1>0, <1>3, <2>1 DEF Yielded
    <2>4. \A g \in Fibers : Waiting(g)' => Yielded(g, 1)'
      BY <1>6, <2>2, <2>3 DEF TaskInv, YieldsCounted
    <2>5. \A v \in Workers : \A g : Runs(v, g) => Runs(v, g)'
      BY <1>2 DEF Runs, Turn
    <2>6. \A g \in Fibers : m_state'[g] = "EXEC" =>
            Yielded(g, 2)' \/ \E v \in Workers : Runs(v, g)'
      BY <1>4, <2>2, <2>5 DEF TaskInv, YieldsCounted
    <2>7. \A v \in Workers : \A g \in Fibers : ft'[v].fiber = g =>
            /\ Yielded(g, 1)'
            /\ pc'[v] \in HandedOut => Yielded(g, 2)'
      <3>1. SUFFICES ASSUME NEW v \in Workers, NEW g \in Fibers, ft[v].fiber = g
                     PROVE  /\ Yielded(g, 1)'
                            /\ pc'[v] \in HandedOut => Yielded(g, 2)'
        BY <1>0
      <3>2. Yielded(g, 1) /\ (pc[v] \in HandedOut => Yielded(g, 2))
        BY <3>1 DEF TaskInv, YieldsCounted
      <3>3. CASE g = f
        BY <2>3, <3>2, <3>3
      <3>4. CASE g # f
        <4>1. pc'[v] = pc[v]
          BY <1>2, <3>1, <3>4
        <4>2. QED
          BY <2>2, <3>2, <4>1
      <3>5. QED
        BY <3>3, <3>4
    <2>8. \A v \in Workers : ft'[v].fiber = NoFiber /\ pc'[v] \in HandedOut =>
            \E g \in Fibers : g = cb_fiber'[v] /\ Yielded(g, 1)'
      <3>1. SUFFICES ASSUME NEW v \in Workers, ft[v].fiber = NoFiber,
                            pc'[v] \in HandedOut
                     PROVE  \E g \in Fibers : g = cb_fiber[v] /\ Yielded(g, 1)'
        BY <1>0
      <3>2. CASE v = w
        BY <1>2, <2>3, <3>1, <3>2
      <3>3. CASE v # w
        <4>1. pc[v] \in HandedOut
          BY <1>2, <3>1, <3>3
        <4>2. PICK g \in Fibers : g = cb_fiber[v]
          BY <3>1, <4>1, CurFacts DEF Cur
        <4>3. Yielded(g, 1)
          BY <3>1, <4>1, <4>2 DEF TaskInv, YieldsCounted
        <4>4. QED
          BY <2>2, <4>2, <4>3
      <3>4. QED
        BY <3>2, <3>3
    <2>9. QED
      BY <1>0, <2>4, <2>6, <2>7, <2>8, TaskTypes DEF YieldsCounted, Yielded
  <1>9. QED
    BY <1>6, <1>7, <1>8 DEF TaskInv

\* A task ends.
LEMMA MainFuncTasks ==
  ASSUME CoreInv, TaskInv, NEW w \in Workers, MainFunc(w)
  PROVE  TaskInv'
  <1>0. /\ Goto(w, "task", "dec")
        /\ UNCHANGED <<m_fibers, ft, cb_fiber, armed, fresh, yields>>
    BY DEF MainFunc
  <1>1. PICK f \in Fibers : f = Cur(w)
    BY <1>0, TurnOf
  <1>2. /\ pc[w] = "task" /\ pc'[w] = "dec"
        /\ \A v \in Workers \ {w} : pc'[v] = pc[v] /\ ft[v].fiber # f
                                                   /\ cb_fiber[v] # f
        /\ \A v \in Workers : Cur(v)' = Cur(v)
    BY <1>0, <1>1, TurnOf DEF Cur
  <1>3. PICK t \in Tasks : t = m_cb[f] /\ done' = done \cup {t}
    BY <1>1, <1>2, CurFacts DEF MainFunc, TaskOf
  <1>4. /\ m_state[f] = "EXEC" /\ t \notin done
        /\ m_state'[f] \in Ended /\ (m_cb'[f] = t \/ m_cb'[f] = NoTask)
        /\ \A g \in Fibers \ {f} : m_state'[g] = m_state[g] /\ m_cb'[g] = m_cb[g]
    <2>1. m_state[f] = "EXEC"
      BY <1>1, <1>2, CurFacts
    <2>2. t \notin done
      BY <1>3, <2>1 DEF TaskInv, BodiesLive
    <2>3. QED
      BY <1>1, <1>3, <2>1, <2>2 DEF MainFunc, CoreInv, TypeOK
  <1>5. \A g \in Fibers : m_cb[g] = t => g = f
    BY <1>3, <1>4 DEF TaskInv, Tasks_, BodiedOnce
  <1>6. Bodied(t) /\ ~Asked(t) /\ ~Picked(t) /\ t \notin fresh
    <2>1. Bodied(t)
      BY <1>3 DEF Bodied
    <2>2. QED
      BY <2>1 DEF TaskInv, Tasks_, FreshOnce, AskedOnce, PickedOnce, Asked, Picked
  <1>7. \A u : /\ Asked(u)' = Asked(u) /\ Picked(u)' = Picked(u)
               /\ u # NoTask => (Bodied(u)' => Bodied(u))
    BY <1>0, <1>3, <1>4, <1>6 DEF Asked, Picked, Bodied
  <1>8. FreshOnce'
    BY <1>0, <1>3, <1>6, <1>7, TaskTypes DEF TaskInv, Tasks_, FreshOnce
  <1>9. AskedOnce'
    BY <1>0, <1>3, <1>6, <1>7 DEF TaskInv, Tasks_, AskedOnce, Asked
  <1>10. PickedOnce'
    BY <1>0, <1>2, <1>3, <1>6, <1>7 DEF TaskInv, Tasks_, PickedOnce, Picked
  <1>11. BodiedOnce'
    BY <1>3, <1>4 DEF TaskInv, Tasks_, BodiedOnce
  <1>12. BodiesLive'
    BY <1>0, <1>1, <1>2, <1>3, <1>4, <1>5 DEF TaskInv, BodiesLive, AtRun
  <1>13. YieldsCounted'
    <2>1. \A g \in Fibers : \A n : Yielded(g, n) => Yielded(g, n)'
      BY <1>0, <1>3, <1>4 DEF Yielded
    <2>2. \A n : Yielded(f, n)'
      BY <1>3, <1>4 DEF Yielded
    <2>3. \A g : Waiting(g)' = Waiting(g)
      BY <1>0 DEF Waiting, Queued
    <2>4. \A g \in Fibers : Waiting(g)' => Yielded(g, 1)'
      BY <2>1, <2>3 DEF TaskInv, YieldsCounted
    <2>5. \A v \in Workers : \A g : Runs(v, g) => Runs(v, g)'
      BY <1>2 DEF Runs, Turn
    <2>6. \A g \in Fibers : m_state'[g] = "EXEC" =>
            Yielded(g, 2)' \/ \E v \in Workers : Runs(v, g)'
      BY <1>4, <2>1, <2>5 DEF TaskInv, YieldsCounted
    <2>7. \A v \in Workers : \A g \in Fibers : ft'[v].fiber = g =>
            /\ Yielded(g, 1)'
            /\ pc'[v] \in HandedOut => Yielded(g, 2)'
      <3>1. SUFFICES ASSUME NEW v \in Workers, NEW g \in Fibers, ft[v].fiber = g,
                            g # f
                     PROVE  /\ Yielded(g, 1)'
                            /\ pc'[v] \in HandedOut => Yielded(g, 2)'
        BY <1>0, <2>2
      <3>2. Yielded(g, 1) /\ (pc[v] \in HandedOut => Yielded(g, 2))
        BY <3>1 DEF TaskInv, YieldsCounted
      <3>3. v = w => g = f
        BY <1>1, <3>1 DEF Cur
      <3>4. pc'[v] = pc[v]
        BY <1>2, <3>1, <3>3
      <3>5. QED
        BY <2>1, <3>2, <3>4
    <2>8. \A v \in Workers : ft'[v].fiber = NoFiber /\ pc'[v] \in HandedOut =>
            \E g \in Fibers : g = cb_fiber'[v] /\ Yielded(g, 1)'
      <3>1. SUFFICES ASSUME NEW v \in Workers, ft[v].fiber = NoFiber,
                            pc'[v] \in HandedOut
                     PROVE  \E g \in Fibers : g = cb_fiber[v] /\ Yielded(g, 1)'
        BY <1>0
      <3>2. CASE v = w
        BY <1>1, <2>2, <3>1, <3>2 DEF Cur
      <3>3. CASE v # w
        <4>1. pc[v] \in HandedOut
          BY <1>2, <3>1, <3>3
        <4>2. PICK g \in Fibers : g = cb_fiber[v]
          BY <3>1, <4>1, CurFacts DEF Cur
        <4>3. Yielded(g, 1)
          BY <3>1, <4>1, <4>2 DEF TaskInv, YieldsCounted
        <4>4. QED
          BY <2>1, <4>2, <4>3
      <3>4. QED
        BY <3>2, <3>3
    <2>9. QED
      BY <1>0, <2>4, <2>6, <2>7, <2>8, TaskTypes DEF YieldsCounted, Yielded
  <1>14. QED
    BY <1>8, <1>9, <1>10, <1>11, <1>12, <1>13 DEF TaskInv, Tasks_

\* A function gets its fiber; what that carried before has ended.
LEMMA DispatchCbFacts ==
  ASSUME CoreInv, TaskInv, NEW w \in Workers, DispatchCb(w)
  PROVE  \E f \in Fibers, t \in Tasks :
           /\ t = ft[w].cb
           /\ pc[w] = "dispatch" /\ pc'[w] = "incw" /\ ft[w].fiber = NoFiber
           /\ ft'[w].fiber = NoFiber /\ ft'[w].cb = NoTask
           /\ \A v \in Workers \ {w} : /\ pc'[v] = pc[v] /\ ft'[v] = ft[v]
                                       /\ cb_fiber'[v] = cb_fiber[v]
                                       /\ cb_fiber[v] # f
           /\ \A v \in Workers : ft[v].fiber # f /\ ft'[v].fiber = ft[v].fiber
           /\ cb_fiber'[w] = f
           /\ m_state'[f] = "INIT" /\ m_cb'[f] = t
           /\ \A g \in Fibers \ {f} : m_state'[g] = m_state[g] /\ m_cb'[g] = m_cb[g]
           /\ ~Waiting(f) /\ m_cb[f] \in done \cup {NoTask}
           /\ UNCHANGED <<m_fibers, armed, fresh, done, yields>>
  <1> USE DEF CoreInv, Ownership
  <1>1. PICK f \in Fibers :
          /\ IF cb_fiber[w] # NoFiber THEN f = cb_fiber[w] ELSE Free(f)
          /\ m_cb' = [m_cb EXCEPT ![f] = ft[w].cb]
          /\ m_state' = [m_state EXCEPT ![f] = "INIT"]
          /\ cb_fiber' = [cb_fiber EXCEPT ![w] = f]
    BY DEF DispatchCb
  <1>2. /\ pc[w] = "dispatch" /\ pc'[w] = "incw"
        /\ \A v \in Workers \ {w} : pc'[v] = pc[v] /\ ft'[v] = ft[v]
        /\ UNCHANGED <<m_fibers, armed, fresh, done, yields>>
        /\ ft[w].fiber = NoFiber /\ ft[w].cb # NoTask
        /\ ft'[w].fiber = NoFiber /\ ft'[w].cb = NoTask
    BY DEF DispatchCb, TypeOK, Nothing
  <1>3. PICK t \in Tasks : t = ft[w].cb
    BY <1>2, TaskTypes
  <1>4. /\ \A v \in Workers : cb_fiber'[v] = IF v = w THEN f ELSE cb_fiber[v]
        /\ \A g \in Fibers :
             /\ m_state'[g] = IF g = f THEN "INIT" ELSE m_state[g]
             /\ m_cb'[g] = IF g = f THEN t ELSE m_cb[g]
    BY <1>1, <1>3 DEF TypeOK
  <1>5. /\ m_state[f] \in Ended \cup {"INIT"}
        /\ ~Waiting(f)
        /\ \A v \in Workers : ft[v].fiber # f
        /\ \A v \in Workers \ {w} : cb_fiber[v] # f
    <2>1. CASE cb_fiber[w] # NoFiber
      <3>1. f = cb_fiber[w]
        BY <1>1, <2>1
      <3>2. m_state[f] = "INIT"
        BY <1>2, <2>1, <3>1 DEF CbStates
      <3>3. ~Waiting(f)
        BY <1>2, <2>1, <3>1 DEF WaitingIsExec
      <3>4. QED
        BY <2>1, <3>1, <3>2, <3>3 DEF HandsDistinct
    <2>2. CASE cb_fiber[w] = NoFiber
      BY <1>1, <2>2 DEF Free, Waiting
    <2>3. QED
      BY <2>1, <2>2
  <1>6. \A v \in Workers \ {w} : Cur(v) # f
    BY <1>5 DEF Cur
  <1>7. m_cb[f] \in done \cup {NoTask}
    BY <1>2, <1>5, <1>6 DEF TaskInv, BodiesLive, AtRun
  <1>8. \A v \in Workers : ft'[v].fiber = ft[v].fiber
    BY <1>2
  <1>9. QED
    BY <1>2, <1>3, <1>4, <1>5, <1>7, <1>8

\* Its task goes from the hands of the worker into the fiber.
LEMMA DispatchCbTasks ==
  ASSUME CoreInv, TaskInv, NEW w \in Workers, DispatchCb(w)
  PROVE  TaskInv'
  <1>1. PICK f \in Fibers, t \in Tasks :
           /\ t = ft[w].cb
           /\ pc[w] = "dispatch" /\ pc'[w] = "incw" /\ ft[w].fiber = NoFiber
           /\ ft'[w].fiber = NoFiber /\ ft'[w].cb = NoTask
           /\ \A v \in Workers \ {w} : /\ pc'[v] = pc[v] /\ ft'[v] = ft[v]
                                       /\ cb_fiber'[v] = cb_fiber[v]
                                       /\ cb_fiber[v] # f
           /\ \A v \in Workers : ft[v].fiber # f /\ ft'[v].fiber = ft[v].fiber
           /\ cb_fiber'[w] = f
           /\ m_state'[f] = "INIT" /\ m_cb'[f] = t
           /\ \A g \in Fibers \ {f} : m_state'[g] = m_state[g] /\ m_cb'[g] = m_cb[g]
           /\ ~Waiting(f) /\ m_cb[f] \in done \cup {NoTask}
           /\ UNCHANGED <<m_fibers, armed, fresh, done, yields>>
    BY DispatchCbFacts
  <1>2. t # NoTask /\ Picked(t) /\ t \notin done /\ ~Bodied(t)
        /\ \A v \in Workers : ft[v].cb = t => v = w
    BY <1>1 DEF TaskInv, Tasks_, PickedOnce, Picked
  <1>3. /\ t \notin fresh
        /\ \A j \in DOMAIN m_fibers : m_fibers[j].cb # t
    BY <1>2 DEF TaskInv, Tasks_, FreshOnce, AskedOnce
  <1>4. \A u : u # NoTask =>
          /\ Asked(u)' = Asked(u)
          /\ Picked(u)' => Picked(u)
          /\ Bodied(u)' => Bodied(u) \/ u = t
    BY <1>1 DEF Asked, Picked, Bodied
  <1>5. FreshOnce'
    BY <1>1, <1>3, <1>4, TaskTypes DEF TaskInv, Tasks_, FreshOnce
  <1>6. AskedOnce'
    BY <1>1, <1>3, <1>4 DEF TaskInv, Tasks_, AskedOnce
  <1>7. PickedOnce'
    BY <1>1, <1>2, <1>4 DEF TaskInv, Tasks_, PickedOnce
  <1>8. BodiedOnce'
    BY <1>1, <1>2 DEF TaskInv, Tasks_, BodiedOnce, Bodied
  <1>9. \A v \in Workers \ {w} : Cur(v)' = Cur(v) /\ Cur(v) # f
    BY <1>1 DEF Cur
  <1>10. Cur(w)' = f
    BY <1>1 DEF Cur
  <1>11. BodiesLive'
    BY <1>1, <1>2, <1>9, <1>10 DEF TaskInv, BodiesLive, AtRun
  <1>12. YieldsCounted'
    <2>1. \A g : Waiting(g)' = Waiting(g)
      BY <1>1 DEF Waiting, Queued
    <2>2. \A g \in Fibers \ {f} : \A n : Yielded(g, n)' = Yielded(g, n)
      BY <1>1 DEF Yielded
    <2>3. \A v \in Workers \ {w} : \A g : Runs(v, g)' = Runs(v, g)
      BY <1>1, <1>9 DEF Runs
    <2>4. \A g : ~Runs(w, g)
      BY <1>1 DEF Runs, Turn
    <2>5. \A v \in Workers : pc'[v] \in HandedOut => v # w /\ pc[v] \in HandedOut
      BY <1>1
    <2>6. \A g \in Fibers : m_state'[g] = "EXEC" =>
            Yielded(g, 2)' \/ \E v \in Workers : Runs(v, g)'
      BY <1>1, <2>2, <2>3, <2>4 DEF TaskInv, YieldsCounted
    <2>7. \A g \in Fibers : Waiting(g)' => Yielded(g, 1)'
      BY <1>1, <2>1, <2>2 DEF TaskInv, YieldsCounted
    <2>8. \A v \in Workers : \A g \in Fibers : ft'[v].fiber = g =>
            /\ Yielded(g, 1)'
            /\ pc'[v] \in HandedOut => Yielded(g, 2)'
      <3>1. SUFFICES ASSUME NEW v \in Workers, NEW g \in Fibers, ft[v].fiber = g
                     PROVE  /\ Yielded(g, 1)'
                            /\ pc'[v] \in HandedOut => Yielded(g, 2)'
        BY <1>1
      <3>2. g # f
        BY <1>1, <3>1
      <3>3. Yielded(g, 1) /\ (pc[v] \in HandedOut => Yielded(g, 2))
        BY <3>1 DEF TaskInv, YieldsCounted
      <3>4. QED
        BY <2>2, <2>5, <3>2, <3>3
    <2>9. \A v \in Workers : ft'[v].fiber = NoFiber /\ pc'[v] \in HandedOut =>
            \E g \in Fibers : g = cb_fiber'[v] /\ Yielded(g, 1)'
      <3>1. SUFFICES ASSUME NEW v \in Workers, ft'[v].fiber = NoFiber,
                            pc'[v] \in HandedOut
                     PROVE  \E g \in Fibers : g = cb_fiber'[v] /\ Yielded(g, 1)'
        OBVIOUS
      <3>2. v # w /\ pc[v] \in HandedOut /\ ft[v].fiber = NoFiber
        BY <1>1, <2>5, <3>1
      <3>3. /\ cb_fiber'[v] = cb_fiber[v] /\ cb_fiber[v] \in Fibers
            /\ cb_fiber[v] # f
        BY <1>1, <3>2, CurFacts DEF Cur
      <3>4. PICK g \in Fibers : g = cb_fiber[v] /\ g = cb_fiber'[v] /\ g # f
        BY <3>3
      <3>5. Yielded(g, 1)
        BY <3>2, <3>4 DEF TaskInv, YieldsCounted
      <3>6. QED
        BY <2>2, <3>4, <3>5
    <2>10. QED
      BY <1>1, <2>6, <2>7, <2>8, <2>9, TaskTypes DEF YieldsCounted, Yielded
  <1>13. QED
    BY <1>5, <1>6, <1>7, <1>8, <1>11, <1>12 DEF TaskInv, Tasks_

-----------------------------------------------------------------------------
(* Every step keeps the tasks where they are counted.                      *)

\* A step of run().
LEMMA RunTasks ==
  ASSUME CoreInv, TaskInv, NEW w \in Workers, RunStep(w)
  PROVE  TaskInv'
  <1>0. pc \in [Workers -> Labels] /\ ft \in [Workers -> FiberAndThread]
    BY DEF CoreInv, TypeOK
  <1>1. CASE Scan(w) /\ ScanTakes(w)
    BY <1>1, TakesTasks DEF Scan
  <1>2. CASE Scan(w) /\ ScanFindsNothing(w)
    <2>1. KeepsTurn(w)
      BY <1>0, <1>2, HoldsNoFunction, TaskTypes
         DEF Scan, ScanFindsNothing, AfterScan, KeepsTurn, AtRun, Turn
    <2>2. QED
      BY <1>2, <2>1, QuietTask DEF Scan, ScanFindsNothing
  <1>3. CASE DispatchFiber(w)
    <2>1. ft[w].cb = NoTask
      BY <1>3 DEF DispatchFiber, TaskInv, Tasks_, PickedOnce
    <2>2. KeepsTurn(w)
      BY <1>0, <1>3, <2>1 DEF DispatchFiber, KeepsTurn, AtRun, Turn
    <2>3. QED
      BY <1>3, <2>2, QuietTask DEF DispatchFiber
  <1>4. CASE DispatchCb(w)
    BY <1>4, DispatchCbTasks
  <1>5. CASE DispatchIdle(w)
    <2>1. KeepsTurn(w)
      BY <1>0, <1>5 DEF DispatchIdle, KeepsTurn, AtRun, Turn, Nothing
    <2>2. QED
      BY <1>5, <2>1, QuietTask DEF DispatchIdle
  <1>6. CASE Exit(w)
    <2>1. KeepsTurn(w)
      BY <1>0, <1>6 DEF Exit, KeepsTurn, AtRun, Turn, Nothing
    <2>2. \A v \in Workers \ {w} : cb_fiber'[v] = cb_fiber[v]
      BY <1>6 DEF Exit, CoreInv, TypeOK
    <2>3. QED
      BY <1>6, <2>1, <2>2, QuietTask DEF Exit
  <1>7. CASE CountTask(w)
    <2>1. KeepsTurn(w)
      BY <1>0, <1>7, HoldsNoFunction, TaskTypes DEF CountTask, KeepsTurn, AtRun, Turn
    <2>2. QED
      BY <1>7, <2>1, QuietTask DEF CountTask
  <1>8. CASE SwapIn(w)
    BY <1>8, SwapInTasks
  <1>9. CASE SwappedBack(w)
    <2>1. KeepsTurn(w)
      BY <1>0, <1>9, HoldsNoFunction, TaskTypes DEF SwappedBack, KeepsTurn, AtRun, Turn
    <2>2. QED
      BY <1>9, <2>1, QuietTask DEF SwappedBack
  <1>10. CASE UncountTask(w)
    <2>1. KeepsTurn(w)
      BY <1>0, <1>10, HoldsNoFunction, TaskTypes DEF UncountTask, KeepsTurn, AtRun, Turn
    <2>2. QED
      BY <1>10, <2>1, QuietTask DEF UncountTask
  <1>11. CASE AfterFiber(w)
    BY <1>11, AfterFiberTasks
  <1>12. CASE CbReady(w) \/ CbEnded(w) \/ CbHeld(w)
    BY <1>12, AfterCbTasks
  <1>13. CASE IdleSwapIn(w) \/ IdleSwappedBack(w) \/ AfterIdle(w)
    <2>1. \/ Goto(w, "iincw", "idle") \/ Goto(w, "idec", "idecw")
          \/ Goto(w, "idecw", "scan")
      BY <1>13 DEF IdleSwapIn, IdleSwappedBack, AfterIdle
    <2>2. /\ pc[w] \in {"iincw", "idec", "idecw"}
          /\ pc'[w] \in {"idle", "idecw", "scan"}
      BY <1>0, <2>1
    <2>3. KeepsTurn(w)
      BY <2>2, HoldsNoFunction, TaskTypes DEF KeepsTurn, AtRun, Turn
    <2>4. QED
      BY <1>13, <2>3, QuietTask DEF IdleSwapIn, IdleSwappedBack, AfterIdle
  <1>14. QED
    BY <1>1, <1>2, <1>3, <1>4, <1>5, <1>6, <1>7, <1>8, <1>9, <1>10, <1>11,
       <1>12, <1>13 DEF RunStep, Scan

\* A step of a body, of tickle() and of the idle fiber.
LEMMA BodyTasks ==
  ASSUME CoreInv, TaskInv, NEW w \in Workers, BodyStep(w)
  PROVE  TaskInv'
  <1>0. pc \in [Workers -> Labels] /\ ft \in [Workers -> FiberAndThread]
    BY DEF CoreInv, TypeOK
  <1>1. CASE TaskSchedules(w) \/ TaskWakes(w)
    <2>1. /\ pc[w] = "task" /\ pc'[w] \in {"task", "tickle_task"}
          /\ UNCHANGED <<m_state, m_cb, ft, cb_fiber>>
          /\ \A v \in Workers \ {w} : pc'[v] = pc[v]
      BY <1>0, <1>1 DEF TaskSchedules, TaskWakes, TaskCallsSchedule
    <2>2. \A v \in Workers : ft[v].cb # NoTask => pc'[v] = pc[v]
      BY <2>1 DEF TaskInv, Tasks_, PickedOnce
    <2>3. \A v \in Workers : KeepsTurn(v)
      BY <2>1, <2>2 DEF KeepsTurn, AtRun, Turn, TaskInv, Tasks_, PickedOnce
    <2>4. ScheduleTask \/ ScheduleArmed
      BY <1>1 DEF TaskSchedules, TaskWakes
    <2>5. QED
      BY <2>1, <2>2, <2>3, <2>4, CallTasks
  <1>2. CASE TaskArms(w) \/ TaskRequeues(w) \/ YieldToReady(w)
    BY <1>2, YieldTasks
  <1>3. CASE YieldToHold(w)
    <2>1. KeepsTurn(w)
      BY <1>0, <1>3, HoldsNoFunction, TaskTypes DEF YieldToHold, KeepsTurn, AtRun, Turn
    <2>2. QED
      BY <1>3, <2>1, QuietTask DEF YieldToHold
  <1>4. CASE MainFunc(w)
    BY <1>4, MainFuncTasks
  <1>5. CASE Tickled(w)
    <2>1. UNCHANGED <<m_fibers, m_state, m_cb, ft, cb_fiber, armed, fresh, done,
                      yields>>
      BY <1>5 DEF Tickled
    <2>2. \/ Goto(w, "tickle_scan", "dispatch") \/ Goto(w, "tickle_task", "task")
          \/ Goto(w, "tickle_park", "parking") \/ Goto(w, "tickle_after", "scan")
      BY <1>5, TickledMoves
    <2>3. KeepsTurn(w)
      BY <1>0, <2>1, <2>2, HoldsNoFunction, TaskTypes DEF KeepsTurn, AtRun, Turn
    <2>4. QED
      BY <2>1, <2>2, <2>3, QuietTask
  <1>6. CASE IdleReturns(w)
    <2>1. KeepsTurn(w)
      BY <1>0, <1>6, HoldsNoFunction, TaskTypes DEF IdleReturns, KeepsTurn, AtRun, Turn
    <2>2. QED
      BY <1>6, <2>1, QuietTask DEF IdleReturns
  <1>7. QED
    BY <1>1, <1>2, <1>3, <1>4, <1>5, <1>6 DEF BodyStep

\* A step of the owning thread.
LEMMA OwnerTasks ==
  ASSUME CoreInv, TaskInv, OwnerStep
  PROVE  TaskInv'
  <1>0. pc \in [Workers -> Labels]
    BY DEF CoreInv, TypeOK
  <1>1. CASE OwnerSchedules \/ OwnerWakes
    <2>1. UNCHANGED <<m_state, m_cb, ft, cb_fiber, pc>>
      BY <1>1 DEF OwnerSchedules, OwnerWakes, OwnerCallsSchedule
    <2>2. \A v \in Workers : KeepsTurn(v)
      BY <2>1 DEF KeepsTurn, TaskInv, Tasks_, PickedOnce
    <2>3. ScheduleTask \/ ScheduleArmed
      BY <1>1 DEF OwnerSchedules, OwnerWakes
    <2>4. QED
      BY <2>1, <2>2, <2>3, CallTasks
  <1>2. CASE OwnerTickled \/ CallsStop \/ StopTickled \/ CallerReturns \/ Join
    <2>1. UNCHANGED <<m_fibers, m_state, m_cb, ft, cb_fiber, pc, armed, fresh,
                      done, yields>>
      BY <1>2 DEF OwnerTickled, CallsStop, Stop, StopTickled, CallerReturns, Join
    <2>2. \A v \in Workers : KeepsTurn(v)
      BY <2>1 DEF KeepsTurn, TaskInv, Tasks_, PickedOnce
    <2>3. QED
      BY <2>1, <2>2, QuietTasks
  <1>3. CASE Start \/ StopRuns
    <2>1. UNCHANGED <<m_fibers, m_state, m_cb, ft, cb_fiber, armed, fresh, done,
                      yields>>
      BY <1>3 DEF Start, StopRuns
    <2>2. \A v \in Workers : \/ pc'[v] = pc[v]
                             \/ pc[v] \in {"off", "exited"} /\ pc'[v] = "scan"
      BY <1>0, <1>3 DEF Start, StopRuns, CoreInv, Ownership, OutsideRun
    <2>3. \A v \in Workers : KeepsTurn(v)
      BY <2>1, <2>2 DEF KeepsTurn, AtRun, Turn, TaskInv, Tasks_, PickedOnce
    <2>4. QED
      BY <2>1, <2>3, QuietTasks
  <1>4. QED
    BY <1>1, <1>2, <1>3 DEF OwnerStep

\* The part about tasks holds in the beginning.
LEMMA TasksInit ==
  ASSUME CoreInit
  PROVE  TaskInv
  <1> USE DEF CoreInit
  <1>1. /\ \A w \in Workers : /\ ft[w].fiber = NoFiber /\ ft[w].cb = NoTask
                              /\ pc[w] = "off"
        /\ \A f \in Fibers : m_state[f] = "INIT" /\ m_cb[f] = NoTask
        /\ DOMAIN m_fibers = {} /\ armed = {} /\ fresh = Tasks /\ done = {}
    BY DEF Nothing
  <1>2. Tasks_
    BY <1>1 DEF Tasks_, FreshOnce, AskedOnce, PickedOnce, BodiedOnce, Asked,
                Picked, Bodied
  <1>3. BodiesLive /\ YieldsCounted
    BY <1>1 DEF BodiesLive, YieldsCounted, Waiting, Queued
  <1>4. QED
    BY <1>2, <1>3 DEF TaskInv

\* Every step of the scheduler keeps it.
LEMMA TasksStep ==
  ASSUME CoreInv, TaskInv, [Next]_coreVars
  PROVE  TaskInv'
  <1>1. CASE \E w \in Workers : RunStep(w) \/ BodyStep(w)
    BY <1>1, RunTasks, BodyTasks
  <1>2. CASE OwnerStep
    BY <1>2, OwnerTasks
  <1>3. CASE UNCHANGED coreVars
    <2>1. UNCHANGED <<m_fibers, m_state, m_cb, ft, cb_fiber, pc, armed, fresh,
                      done, yields>>
      BY <1>3 DEF coreVars
    <2>2. \A v \in Workers : KeepsTurn(v)
      BY <2>1 DEF KeepsTurn, TaskInv, Tasks_, PickedOnce
    <2>3. QED
      BY <2>1, <2>2, QuietTasks
  <1>4. QED
    BY <1>1, <1>2, <1>3, StopAnswers
       DEF Next, Worker, TaskStep, Owner, StopProgress, Halted, BodyStep, OwnerStep

\* So it holds always, beside the invariant of the core.
LEMMA TasksHold == Spec => [](CoreInv /\ TaskInv)
  <1>1. Init => CoreInv /\ TaskInv
    BY CoreInvInit, TasksInit DEF Init
  <1>2. CoreInv /\ TaskInv /\ [Next]_coreVars => (CoreInv /\ TaskInv)'
    BY InvStep, TasksStep
  <1>3. QED
    BY <1>1, <1>2, PTL DEF Spec

-----------------------------------------------------------------------------
(* The scheduler implements TaskPool as long as no task yields twice.  A   *)
(* task that has begun is read off the one fiber whose body it is.         *)

Live(f) == m_cb[f] \notin done \cup {NoTask}
Takes(w, f) == \/ pc[w] \in {"tickle_scan", "dispatch"} /\ ft[w].fiber = f
               \/ pc[w] \in AtRun /\ Cur(w) = f
Due(f)  == \/ Queued(f) /\ m_state[f] # "EXEC"
           \/ \E w \in Workers : Takes(w, f)
Woke(f) == Queued(f) /\ m_state[f] = "EXEC"
Ask(t)  == Asked(t) \/ Picked(t)

\* Where the task that is the body of a fiber is in the pool, and where one is
\* that has not begun or has ended.
BegunAt(f) == LET t == m_cb[f] IN
  /\ t \in Tasks /\ t \notin fresh
  /\ t \in queued <=> Due(f)
  /\ t \in woken <=> Woke(f)
  /\ \A w \in Workers : running[w] = t <=> Runs(w, f)
  /\ t \in suspended <=> ~Due(f) /\ \A w \in Workers : ~Runs(w, f)
OutsideAt(t) ==
  /\ t \in queued <=> Ask(t)
  /\ t \notin woken /\ \A w \in Workers : running[w] # t
  /\ t \in suspended <=> ~Ask(t) /\ t \notin fresh \cup done
PoolTypes ==
  /\ queued \subseteq Tasks /\ woken \subseteq Tasks /\ suspended \subseteq Tasks
  /\ running \in [Workers -> Tasks \cup {NoTask}]
  /\ done \subseteq Tasks /\ fresh \subseteq Tasks
Reads ==
  /\ \A f \in Fibers : Live(f) => BegunAt(f)
  /\ \A t \in Tasks : (\A f \in Fibers : Live(f) => m_cb[f] # t) => OutsideAt(t)
  /\ \A f, g \in Fibers : Live(f) /\ m_cb[f] = m_cb[g] => f = g
  /\ PoolTypes

\* The state of the pool is what is read off the fibers.
LEMMA PoolReads == CoreInv /\ TaskInv => Reads
  <1> SUFFICES ASSUME CoreInv, TaskInv
               PROVE  Reads
    OBVIOUS
  <1>1. \A t \in Tasks :
          /\ t \in queued <=>
               Ask(t) \/ \E f \in Fibers : m_cb[f] = t /\ t \notin done /\ Due(f)
          /\ t \in woken <=>
               \E f \in Fibers : m_cb[f] = t /\ t \notin done /\ Woke(f)
          /\ t \in suspended <=> /\ t \notin fresh \cup queued \cup done
                                 /\ \A w \in Workers : running[w] # t
    <2>1. SUFFICES ASSUME NEW t \in Tasks
                   PROVE  t \in queued <=>
               Ask(t) \/ \E f \in Fibers : m_cb[f] = t /\ t \notin done /\ Due(f)
      BY DEF woken, Woke, suspended, Body
    <2>2. Taken(t) <=> Picked(t) \/ \E f \in Fibers : /\ m_cb[f] = t /\ t \notin done
                                                      /\ \E w \in Workers : Takes(w, f)
      BY DEF Taken, Picked, Body, Takes, AtRun
    <2>3. QED
      BY <2>2 DEF queued, Ask, Asked, Due, Body
  <1>2. \A w \in Workers :
          running[w] = IF pc[w] \in Turn /\ TaskOf(w) \notin done
                         THEN TaskOf(w) ELSE NoTask
    BY DEF running, SwappedIn, Turn
  <1>3. \A w \in Workers : pc[w] \in Turn =>
          /\ Cur(w) \in Fibers
          /\ TaskOf(w) \in Tasks \cup {NoTask} /\ TaskOf(w) = m_cb[Cur(w)]
    BY CurFacts, TaskTypes DEF Turn, TaskOf
  <1>4. \A t \in Tasks : \A w \in Workers :
          running[w] = t <=> \E f \in Fibers : /\ m_cb[f] = t /\ t \notin done
                                               /\ Runs(w, f)
    BY <1>2, <1>3 DEF Runs
  <1>5. \A f, g \in Fibers : Live(f) /\ m_cb[f] = m_cb[g] => f = g
    BY DEF TaskInv, Tasks_, BodiedOnce, Live
  <1>6. ASSUME NEW f \in Fibers, Live(f)
        PROVE  BegunAt(f)
    <2>1. PICK t \in Tasks : t = m_cb[f] /\ t \notin done
      BY <1>6, TaskTypes DEF Live
    <2>2. Bodied(t)
      BY <2>1 DEF Bodied
    <2>3. t \notin fresh /\ ~Ask(t)
      BY <2>2 DEF TaskInv, Tasks_, FreshOnce, AskedOnce, PickedOnce, Ask, Asked,
                  Picked
    <2>4. \A g \in Fibers : m_cb[g] = t <=> g = f
      BY <1>5, <1>6, <2>1
    <2>5. /\ t \in queued <=> Due(f)
          /\ t \in woken <=> Woke(f)
          /\ \A w \in Workers : running[w] = t <=> Runs(w, f)
      BY <1>1, <1>4, <2>1, <2>3, <2>4
    <2>6. QED
      BY <1>1, <2>1, <2>3, <2>5 DEF BegunAt
  <1>7. ASSUME NEW t \in Tasks, \A f \in Fibers : Live(f) => m_cb[f] # t
        PROVE  OutsideAt(t)
    <2>1. \A f \in Fibers : m_cb[f] = t => t \in done
      BY <1>7 DEF Live
    <2>2. QED
      BY <1>1, <1>4, <2>1 DEF OutsideAt
  <1>8. /\ queued \subseteq Tasks /\ woken \subseteq Tasks /\ suspended \subseteq Tasks
        /\ running \in [Workers -> Tasks \cup {NoTask}]
    <2>1. running = [w \in Workers |-> running[w]]
      BY DEF running
    <2>2. \A w \in Workers : running[w] \in Tasks \cup {NoTask}
      BY <1>2, <1>3
    <2>3. QED
      BY <2>1, <2>2 DEF queued, woken, suspended
  <1>9. QED
    BY <1>5, <1>6, <1>7, <1>8, TaskTypes DEF Reads, PoolTypes

\* The same behind a step.
LEMMA PoolReadsNext == (CoreInv /\ TaskInv)' => Reads'
  BY PoolReads, PTL

\* The step is not seen of task u, or of what is read off fiber f.
Stays(u) == /\ u \in queued' <=> u \in queued
            /\ u \in woken' <=> u \in woken
            /\ u \in suspended' <=> u \in suspended
            /\ \A w \in Workers : running'[w] = u <=> running[w] = u
FiberStays(f) ==
  /\ Live(f)' <=> Live(f)
  /\ Live(f) => /\ m_cb'[f] = m_cb[f]
                /\ Due(f)' <=> Due(f)
                /\ Woke(f)' <=> Woke(f)
                /\ \A w \in Workers : Runs(w, f)' <=> Runs(w, f)

\* A task stays where it is when its fiber does, or when it has none and is
\* asked for as before.
LEMMA TaskStays ==
  ASSUME Reads, Reads', NEW u \in Tasks,
         u \in fresh' <=> u \in fresh, u \in done' <=> u \in done,
         Ask(u)' <=> Ask(u),
         \A f \in Fibers :
           \/ FiberStays(f)
           \/ (Live(f) => m_cb[f] # u) /\ (Live(f)' => m_cb'[f] # u)
  PROVE  Stays(u)
  <1>1. CASE \E f \in Fibers : Live(f) /\ m_cb[f] = u
    <2>1. PICK f \in Fibers : Live(f) /\ m_cb[f] = u
      BY <1>1
    <2>2. FiberStays(f) /\ Live(f)' /\ m_cb'[f] = u
      BY <2>1 DEF FiberStays
    <2>3. BegunAt(f) /\ BegunAt(f)'
      BY <2>1, <2>2 DEF Reads
    <2>4. QED
      BY <2>1, <2>2, <2>3 DEF BegunAt, FiberStays, Stays
  <1>2. CASE \A f \in Fibers : Live(f) => m_cb[f] # u
    <2>1. \A f \in Fibers : Live(f)' => m_cb'[f] # u
      BY <1>2 DEF FiberStays
    <2>2. OutsideAt(u) /\ OutsideAt(u)'
      BY <1>2, <2>1 DEF Reads
    <2>3. QED
      BY <2>2 DEF OutsideAt, Stays
  <1>3. QED
    BY <1>1, <1>2

\* Nothing that the pool is read off changes.
LEMMA PoolStays ==
  ASSUME Reads, Reads', done' = done, \A u \in Tasks : Stays(u)
  PROVE  UNCHANGED pool!poolVars
  <1>1. PoolTypes /\ PoolTypes'
    BY DEF Reads
  <1>2. queued' = queued
    BY <1>1 DEF PoolTypes, Stays
  <1>3. woken' = woken
    BY <1>1 DEF PoolTypes, Stays
  <1>4. suspended' = suspended
    BY <1>1 DEF PoolTypes, Stays
  <1>5. running' = running
    <2>1. \A w \in Workers : running'[w] = running[w]
      BY <1>1 DEF PoolTypes, Stays
    <2>2. QED
      BY <1>1, <2>1 DEF PoolTypes
  <1>6. QED
    BY <1>2, <1>3, <1>4, <1>5 DEF pool!poolVars

\* One task moves in the pool.
LEMMA OneMoves ==
  ASSUME Reads, Reads', NEW t \in Tasks, \A u \in Tasks \ {t} : Stays(u)
  PROVE  /\ queued' = IF t \in queued' THEN queued \cup {t} ELSE queued \ {t}
         /\ woken' = IF t \in woken' THEN woken \cup {t} ELSE woken \ {t}
         /\ suspended' = IF t \in suspended' THEN suspended \cup {t}
                                             ELSE suspended \ {t}
         /\ (\A w \in Workers : running'[w] = t <=> running[w] = t) =>
               running' = running
         /\ \A w \in Workers :
              /\ (\A v \in Workers : /\ running[v] = t <=> v = w
                                     /\ running'[v] # t) =>
                   running' = [running EXCEPT ![w] = NoTask]
              /\ (\A v \in Workers : /\ running'[v] = t <=> v = w
                                     /\ running[v] # t) =>
                   running' = [running EXCEPT ![w] = t]
  <1>1. PoolTypes /\ PoolTypes'
    BY DEF Reads
  <1>2. queued' = IF t \in queued' THEN queued \cup {t} ELSE queued \ {t}
    BY <1>1 DEF PoolTypes, Stays
  <1>3. woken' = IF t \in woken' THEN woken \cup {t} ELSE woken \ {t}
    BY <1>1 DEF PoolTypes, Stays
  <1>4. suspended' = IF t \in suspended' THEN suspended \cup {t}
                                         ELSE suspended \ {t}
    BY <1>1 DEF PoolTypes, Stays
  <1>5. \A v \in Workers : /\ running[v] \in Tasks \cup {NoTask}
                           /\ running'[v] \in Tasks \cup {NoTask}
                           /\ \A u \in Tasks \ {t} : running'[v] = u <=> running[v] = u
    BY <1>1 DEF PoolTypes, Stays
  <1>6. ASSUME \A v \in Workers : running'[v] = t <=> running[v] = t
        PROVE  running' = running
    <2>1. \A v \in Workers : running'[v] = running[v]
      BY <1>5, <1>6
    <2>2. QED
      BY <1>1, <2>1 DEF PoolTypes
  <1>7. ASSUME NEW w \in Workers,
               \A v \in Workers : (running[v] = t <=> v = w) /\ running'[v] # t
        PROVE  running' = [running EXCEPT ![w] = NoTask]
    <2>1. \A v \in Workers : running'[v] = IF v = w THEN NoTask ELSE running[v]
      BY <1>5, <1>7
    <2>2. QED
      BY <1>1, <2>1 DEF PoolTypes
  <1>8. ASSUME NEW w \in Workers,
               \A v \in Workers : (running'[v] = t <=> v = w) /\ running[v] # t
        PROVE  running' = [running EXCEPT ![w] = t]
    <2>1. \A v \in Workers : running'[v] = IF v = w THEN t ELSE running[v]
      BY <1>5, <1>8
    <2>2. QED
      BY <1>1, <2>1 DEF PoolTypes
  <1>9. QED
    BY <1>2, <1>3, <1>4, <1>6, <1>7, <1>8

\* The invariants of the fibers and of the tasks.
Both == CoreInv /\ TaskInv

\* Only worker w moves.
OthersStay(w) == \A v \in Workers \ {w} :
  pc'[v] = pc[v] /\ ft'[v] = ft[v] /\ cb_fiber'[v] = cb_fiber[v]
KeepsHands(w) ==
  /\ ft'[w].cb = ft[w].cb
  /\ \A f \in Fibers : Live(f) => /\ Takes(w, f)' <=> Takes(w, f)
                                  /\ Runs(w, f)' <=> Runs(w, f)

\* The hands of the others.
LEMMA OthersHands ==
  ASSUME NEW w \in Workers, OthersStay(w)
  PROVE  \A v \in Workers \ {w} : \A f : /\ Takes(v, f)' <=> Takes(v, f)
                                         /\ Runs(v, f)' <=> Runs(v, f)
  BY DEF OthersStay, Takes, Runs, Cur

\* A fiber is where it was if w is to it what it was.
LEMMA HandsStay ==
  ASSUME NEW w \in Workers, NEW f \in Fibers, OthersStay(w),
         Live(f)' <=> Live(f), Queued(f)' <=> Queued(f),
         m_cb'[f] = m_cb[f],
         Live(f) /\ Queued(f) => m_state'[f] = m_state[f],
         Live(f) => (Takes(w, f)' <=> Takes(w, f)) /\ (Runs(w, f)' <=> Runs(w, f))
  PROVE  FiberStays(f)
  <1>1. \A v \in Workers \ {w} : /\ Takes(v, f)' <=> Takes(v, f)
                                 /\ Runs(v, f)' <=> Runs(v, f)
    BY OthersHands
  <1>2. Live(f) => \A v \in Workers : /\ Takes(v, f)' <=> Takes(v, f)
                                      /\ Runs(v, f)' <=> Runs(v, f)
    BY <1>1
  <1>3. QED
    BY <1>2 DEF FiberStays, Due, Woke

\* A worker goes on, and keeps what it has taken and what it runs.
LEMMA QuietPool ==
  ASSUME Both, Both', NEW w \in Workers, OthersStay(w), KeepsHands(w),
         UNCHANGED <<m_fibers, m_cb, fresh, done>>,
         \A f \in Fibers : Live(f) /\ Queued(f) => m_state'[f] = m_state[f]
  PROVE  UNCHANGED pool!poolVars
  <1>1. Reads /\ Reads'
    BY PoolReads, PoolReadsNext DEF Both
  <1>2. \A v \in Workers : ft'[v].cb = ft[v].cb
    BY DEF OthersStay, KeepsHands
  <1>3. \A u : Ask(u)' <=> Ask(u)
    BY <1>2 DEF Ask, Asked, Picked
  <1>4. \A f : (Live(f)' <=> Live(f)) /\ (Queued(f)' <=> Queued(f))
    BY DEF Live, Queued
  <1>5. \A f \in Fibers : FiberStays(f)
    BY <1>4, HandsStay DEF KeepsHands
  <1>6. \A u \in Tasks : Stays(u)
    BY <1>1, <1>3, <1>5, TaskStays
  <1>7. QED
    BY <1>1, <1>6, PoolStays

\* A move of the label alone that the pool does not see.
SameSide(w) ==
  \/ pc[w] \in Turn /\ pc'[w] \in Turn
  \/ pc[w] \in AtRun /\ pc'[w] \in AtRun
  \/ pc[w] \notin Turn \cup AtRun /\ pc'[w] \notin Turn \cup AtRun

LEMMA QuietMovePool ==
  ASSUME Both, Both', NEW w \in Workers, NEW a, NEW b, Goto(w, a, b), SameSide(w),
         UNCHANGED <<m_fibers, m_cb, m_state, ft, cb_fiber, fresh, done>>
  PROVE  UNCHANGED pool!poolVars
  <1>1. OthersStay(w)
    BY DEF Both, CoreInv, TypeOK, OthersStay
  <1>2. ft[w].fiber # NoFiber =>
          /\ pc[w] \in RunLabels \cup {"tickle_scan", "dispatch"}
          /\ pc'[w] \in RunLabels \cup {"tickle_scan", "dispatch"}
    BY DEF Both, CoreInv, Ownership, FtStates
  <1>3. KeepsHands(w)
    BY <1>2 DEF KeepsHands, Takes, Runs, SameSide, Turn, AtRun, Cur
  <1>4. QED
    BY <1>1, <1>3, QuietPool

\* What is not seen of run() in the pool: all but the switch to a fiber, and
\* the end of the turn of a function's fiber.
LEMMA ScanPool ==
  ASSUME Both, Both', NEW w \in Workers, ScanTakes(w),
         UNCHANGED <<m_state, m_cb, cb_fiber, fresh, done>>
  PROVE  UNCHANGED pool!poolVars
  <1>0. /\ CoreInv /\ TypeOK /\ QueuedOnce /\ FtStates /\ PickedOnce
        /\ pc \in [Workers -> Labels] /\ ft \in [Workers -> FiberAndThread]
    BY DEF Both, CoreInv, Ownership, TypeOK, TaskInv, Tasks_
  <1>1. PICK i \in DOMAIN m_fibers :
          /\ Eligible(w, m_fibers[i])
          /\ ft' = [ft EXCEPT ![w] = m_fibers[i]]
          /\ m_fibers' = RemoveAt(m_fibers, i)
          /\ pc[w] = "scan" /\ pc' = [pc EXCEPT ![w] = AfterScan(w, i)]
    BY DEF ScanTakes
  <1>2. PICK e \in FiberAndThread : e = m_fibers[i]
    BY <1>0, TaskTypes
  <1>3. /\ pc'[w] \in {"tickle_scan", "dispatch"} /\ ft'[w] = e
        /\ OthersStay(w)
        /\ ft[w].fiber = NoFiber /\ ft[w].cb = NoTask
    BY <1>0, <1>1, <1>2 DEF AfterScan, FtStates, PickedOnce, OthersStay
  <1>4. m_fibers \in Seq(FiberAndThread)
    BY <1>0, TaskTypes
  <1>5. /\ m_fibers' \in Seq(FiberAndThread)
        /\ Len(m_fibers') = Len(m_fibers) - 1
        /\ \A k \in 1..(Len(m_fibers) - 1) :
             m_fibers'[k] = IF k < i THEN m_fibers[k] ELSE m_fibers[k + 1]
    BY <1>1, <1>4, RemoveAtFacts
  <1>6. /\ DOMAIN m_fibers' = 1..(Len(m_fibers) - 1)
        /\ DOMAIN m_fibers = 1..Len(m_fibers) /\ Len(m_fibers) \in Nat
    BY <1>4, <1>5
  <1>7. /\ \A k \in DOMAIN m_fibers' : \E j \in DOMAIN m_fibers :
             m_fibers'[k] = m_fibers[j]
        /\ \A j \in DOMAIN m_fibers \ {i} : \E k \in DOMAIN m_fibers' :
             m_fibers'[k] = m_fibers[j]
    <2>1. ASSUME NEW k \in DOMAIN m_fibers'
          PROVE  \E j \in DOMAIN m_fibers : m_fibers'[k] = m_fibers[j]
      <3>1. k \in DOMAIN m_fibers /\ k + 1 \in DOMAIN m_fibers
        BY <1>6
      <3>2. QED
        BY <1>5, <1>6, <3>1
    <2>2. ASSUME NEW j \in DOMAIN m_fibers \ {i}
          PROVE  \E k \in DOMAIN m_fibers' : m_fibers'[k] = m_fibers[j]
      <3>1. CASE j < i
        <4>1. j \in DOMAIN m_fibers' /\ m_fibers'[j] = m_fibers[j]
          BY <1>5, <1>6, <3>1
        <4>2. QED
          BY <4>1
      <3>2. CASE j > i
        <4>1. j - 1 \in DOMAIN m_fibers' /\ m_fibers'[j - 1] = m_fibers[j]
          BY <1>5, <1>6, <3>2
        <4>2. QED
          BY <4>1
      <3>3. QED
        BY <1>6, <3>1, <3>2
    <2>3. QED
      BY <2>1, <2>2
  <1>8. \A t \in Tasks : Asked(t) <=> Asked(t)' \/ e.cb = t
    BY <1>2, <1>7 DEF Asked
  <1>9. \A t \in Tasks : Picked(t)' <=> Picked(t) \/ e.cb = t
    BY <1>3 DEF Picked, OthersStay
  <1>10. e.cb # NoTask => ~Picked(e.cb)
    BY <1>2 DEF Both, TaskInv, Tasks_, AskedOnce
  <1>11. \A t \in Tasks : Ask(t)' <=> Ask(t)
    BY <1>8, <1>9 DEF Ask
  <1>12. \A f \in Fibers : Queued(f) <=> Queued(f)' \/ e.fiber = f
    BY <1>2, <1>7 DEF Queued
  <1>13. e.fiber # NoFiber => m_state[e.fiber] # "EXEC" /\ ~Queued(e.fiber)'
    <2>1. e.fiber # NoFiber => m_state[e.fiber] # "EXEC"
      BY <1>1, <1>2 DEF Eligible
    <2>2. e.fiber # NoFiber => ~Queued(e.fiber)'
      BY <1>0, <1>1, <1>2, <1>3, <2>1, PopFacts
         DEF Both, CoreInv, Ownership, WaitingIsExec, Waiting
    <2>3. QED
      BY <2>1, <2>2
  <1>14. \A f \in Fibers : /\ ~Takes(w, f) /\ (Takes(w, f)' <=> e.fiber = f)
                           /\ ~Runs(w, f) /\ ~Runs(w, f)'
    BY <1>1, <1>3 DEF Takes, Runs, AtRun, Turn
  <1>15. \A f \in Fibers : FiberStays(f)
    <2>1. SUFFICES ASSUME NEW f \in Fibers
                   PROVE  FiberStays(f)
      OBVIOUS
    <2>2. \A v \in Workers \ {w} : /\ Takes(v, f)' <=> Takes(v, f)
                                   /\ Runs(v, f)' <=> Runs(v, f)
      BY <1>3, OthersHands
    <2>3. (Live(f)' <=> Live(f)) /\ \A v \in Workers : Runs(v, f)' <=> Runs(v, f)
      BY <1>14, <2>2 DEF Live
    <2>4. (Due(f)' <=> Due(f)) /\ (Woke(f)' <=> Woke(f))
      <3>1. CASE e.fiber = f
        BY <1>12, <1>13, <1>14, <2>2, <3>1 DEF Due, Woke
      <3>2. CASE e.fiber # f
        BY <1>12, <1>14, <2>2, <3>2 DEF Due, Woke
      <3>3. QED
        BY <3>1, <3>2
    <2>5. QED
      BY <2>3, <2>4 DEF FiberStays
  <1>16. Reads /\ Reads'
    BY PoolReads, PoolReadsNext DEF Both
  <1>17. \A u \in Tasks : Stays(u)
    BY <1>11, <1>15, <1>16, TaskStays
  <1>18. QED
    BY <1>16, <1>17, PoolStays

\* A queued task stays queued when it gets its fiber.
LEMMA DispatchCbPool ==
  ASSUME Both, Both', NEW w \in Workers, DispatchCb(w)
  PROVE  UNCHANGED pool!poolVars
  <1>0. CoreInv /\ TaskInv /\ Reads /\ Reads'
    BY PoolReads, PoolReadsNext DEF Both
  <1>1. PICK f \in Fibers, t \in Tasks :
           /\ t = ft[w].cb
           /\ pc[w] = "dispatch" /\ pc'[w] = "incw" /\ ft[w].fiber = NoFiber
           /\ ft'[w].fiber = NoFiber /\ ft'[w].cb = NoTask
           /\ \A v \in Workers \ {w} : /\ pc'[v] = pc[v] /\ ft'[v] = ft[v]
                                       /\ cb_fiber'[v] = cb_fiber[v]
                                       /\ cb_fiber[v] # f
           /\ \A v \in Workers : ft[v].fiber # f /\ ft'[v].fiber = ft[v].fiber
           /\ cb_fiber'[w] = f
           /\ m_state'[f] = "INIT" /\ m_cb'[f] = t
           /\ \A g \in Fibers \ {f} : m_state'[g] = m_state[g] /\ m_cb'[g] = m_cb[g]
           /\ ~Waiting(f) /\ m_cb[f] \in done \cup {NoTask}
           /\ UNCHANGED <<m_fibers, armed, fresh, done, yields>>
    BY <1>0, DispatchCbFacts
  <1>2. /\ Picked(t) /\ t \notin done /\ ~Bodied(t)
        /\ \A v \in Workers : ft[v].cb = t => v = w
    BY <1>0, <1>1 DEF TaskInv, Tasks_, PickedOnce, Picked
  <1>3. OthersStay(w)
    BY <1>1 DEF OthersStay
  <1>4. /\ ~Live(f) /\ Live(f)'
        /\ \A g \in Fibers \ {f} : /\ Live(g)' <=> Live(g)
                                   /\ Live(g) => m_cb[g] # t
    BY <1>1, <1>2 DEF Live, Bodied
  <1>5. \A u \in Tasks \ {t} : Ask(u)' <=> Ask(u)
    BY <1>1 DEF Ask, Asked, Picked
  <1>6. \A g \in Fibers \ {f} : FiberStays(g)
    <2>1. SUFFICES ASSUME NEW g \in Fibers \ {f}
                   PROVE  FiberStays(g)
      OBVIOUS
    <2>2. ~Takes(w, g) /\ ~Takes(w, g)' /\ ~Runs(w, g) /\ ~Runs(w, g)'
      BY <1>1 DEF Takes, Runs, AtRun, Turn, Cur
    <2>3. Queued(g)' <=> Queued(g)
      BY <1>1 DEF Queued
    <2>4. QED
      BY <1>1, <1>3, <1>4, <2>2, <2>3, HandsStay
  <1>7. /\ Due(f)' /\ ~Woke(f)' /\ \A v \in Workers : ~Runs(v, f)'
    <2>1. Takes(w, f)' /\ ~Runs(w, f)'
      BY <1>1 DEF Takes, Runs, AtRun, Turn, Cur
    <2>2. \A v \in Workers \ {w} : ~Runs(v, f)'
      BY <1>1 DEF Runs, Cur
    <2>3. ~Queued(f)'
      BY <1>1 DEF Waiting, Queued
    <2>4. QED
      BY <2>1, <2>2, <2>3 DEF Due, Woke
  <1>8. Stays(t)
    <2>1. OutsideAt(t) /\ BegunAt(f)'
      BY <1>0, <1>4 DEF Reads
    <2>2. Ask(t)
      BY <1>2 DEF Ask
    <2>3. QED
      BY <1>1, <1>7, <2>1, <2>2 DEF OutsideAt, BegunAt, Stays
  <1>9. \A u \in Tasks \ {t} : Stays(u)
    <2>1. SUFFICES ASSUME NEW u \in Tasks \ {t}
                   PROVE  Stays(u)
      OBVIOUS
    <2>2. \A g \in Fibers :
            \/ FiberStays(g)
            \/ (Live(g) => m_cb[g] # u) /\ (Live(g)' => m_cb'[g] # u)
      BY <1>1, <1>4, <1>6
    <2>3. QED
      BY <1>0, <1>1, <1>5, <2>2, TaskStays
  <1>10. QED
    BY <1>0, <1>1, <1>8, <1>9, PoolStays

\* A fiber that came from the queue ends its turn: with one yield it has ended.
LEMMA AfterFiberPool ==
  ASSUME Both, Both', NEW w \in Workers, AfterFiber(w), YieldsOnce'
  PROVE  UNCHANGED pool!poolVars
  <1>0. CoreInv /\ TaskInv
    BY DEF Both
  <1>1. /\ Goto(w, "after", "scan") /\ ft' = [ft EXCEPT ![w] = Nothing]
        /\ UNCHANGED <<m_fibers, m_state, m_cb, cb_fiber, fresh, done, yields>>
        /\ ft[w].fiber # NoFiber
    BY DEF AfterFiber
  <1>2. PICK f \in Fibers : f = Cur(w)
    BY <1>0, <1>1, TurnOf
  <1>3. /\ pc[w] = "after" /\ pc'[w] = "scan" /\ f = ft[w].fiber
        /\ OthersStay(w) /\ ft'[w].cb = NoTask
    <2>1. /\ pc[w] = "after" /\ pc'[w] = "scan"
          /\ \A v \in Workers \ {w} : pc'[v] = pc[v]
      BY <1>0, <1>1, TurnOf
    <2>2. f = ft[w].fiber
      BY <1>1, <1>2 DEF Cur
    <2>3. ft'[w].cb = NoTask /\ \A v \in Workers \ {w} : ft'[v] = ft[v]
      BY <1>0, <1>1 DEF CoreInv, TypeOK, Nothing
    <2>4. QED
      BY <1>1, <2>1, <2>2, <2>3 DEF OthersStay
  <1>4. ~Live(f)
    <2>1. Yielded(f, 2)
      BY <1>0, <1>3 DEF TaskInv, YieldsCounted
    <2>2. \A t \in Tasks : yields[t] \in Nat /\ yields[t] <= 1
      BY <1>0, <1>1, TaskTypes DEF YieldsOnce
    <2>3. m_cb[f] \in Tasks \cup {NoTask}
      BY <1>0, TaskTypes
    <2>4. QED
      BY <2>1, <2>2, <2>3 DEF Yielded, Live
  <1>5. ft[w].cb = NoTask
    BY <1>0, <1>3 DEF TaskInv, Tasks_, PickedOnce
  <1>6. KeepsHands(w)
    BY <1>2, <1>3, <1>4, <1>5 DEF KeepsHands, Takes, Runs, AtRun, Turn
  <1>7. QED
    BY <1>1, <1>3, <1>6, QuietPool

\* A function's fiber has ended: so has its task.
LEMMA CbEndedPool ==
  ASSUME Both, Both', NEW w \in Workers, CbEnded(w)
  PROVE  UNCHANGED pool!poolVars
  <1>0. CoreInv /\ TaskInv /\ Reads /\ Reads'
    BY PoolReads, PoolReadsNext DEF Both
  <1>1. /\ Goto(w, "after", "scan") /\ ft[w].fiber = NoFiber
        /\ m_state[cb_fiber[w]] \in Ended
        /\ m_state' = [m_state EXCEPT ![cb_fiber[w]] = "INIT"]
        /\ m_cb' = [m_cb EXCEPT ![cb_fiber[w]] = NoTask]
        /\ UNCHANGED <<m_fibers, ft, cb_fiber, fresh, done>>
    BY DEF CbEnded, AfterCb
  <1>2. PICK f \in Fibers : f = cb_fiber[w] /\ f = Cur(w)
    BY <1>0, <1>1, TurnOf DEF Cur
  <1>3. /\ \A g \in Fibers \ {f} : m_state'[g] = m_state[g] /\ m_cb'[g] = m_cb[g]
        /\ m_cb'[f] = NoTask
    BY <1>0, <1>1, <1>2 DEF CoreInv, TypeOK
  <1>4. ~Live(f) /\ ~Live(f)'
    BY <1>0, <1>1, <1>2, <1>3 DEF TaskInv, BodiesLive, Live
  <1>5. pc[w] = "after" /\ pc'[w] = "scan" /\ OthersStay(w)
    BY <1>0, <1>1 DEF CoreInv, TypeOK, OthersStay
  <1>6. \A g \in Fibers \ {f} : /\ ~Runs(w, g) /\ ~Runs(w, g)'
                                /\ ~Takes(w, g) /\ ~Takes(w, g)'
    BY <1>1, <1>2, <1>5 DEF Runs, Takes, Turn, AtRun
  <1>7. \A g \in Fibers : FiberStays(g)
    <2>1. SUFFICES ASSUME NEW g \in Fibers \ {f}
                   PROVE  FiberStays(g)
      BY <1>4 DEF FiberStays
    <2>2. m_cb'[g] = m_cb[g] /\ (Live(g)' <=> Live(g)) /\ (Queued(g)' <=> Queued(g))
      BY <1>1, <1>3 DEF Queued, Live
    <2>3. QED
      BY <1>3, <1>5, <1>6, <2>2, HandsStay
  <1>8. \A u : Ask(u)' <=> Ask(u)
    BY <1>1 DEF Ask, Asked, Picked
  <1>9. \A u \in Tasks : Stays(u)
    BY <1>0, <1>1, <1>7, <1>8, TaskStays
  <1>10. QED
    BY <1>0, <1>1, <1>9, PoolStays

\* YieldToReady() changes the state of a fiber that is in no queue.
LEMMA YieldToReadyPool ==
  ASSUME Both, Both', NEW w \in Workers, YieldToReady(w)
  PROVE  UNCHANGED pool!poolVars
  <1>0. CoreInv /\ TaskInv
    BY DEF Both
  <1>1. /\ Goto(w, "task", "dec")
        /\ m_state' = [m_state EXCEPT ![Cur(w)] = "READY"]
        /\ UNCHANGED <<m_fibers, m_cb, ft, cb_fiber, fresh, done>>
    BY DEF YieldToReady
  <1>2. PICK f \in Fibers : f = Cur(w)
    BY <1>0, <1>1, TurnOf
  <1>3. /\ pc[w] = "task" /\ pc'[w] = "dec" /\ OthersStay(w)
    BY <1>0, <1>1 DEF CoreInv, TypeOK, OthersStay
  <1>4. ~Queued(f)
    BY <1>0, <1>2, <1>3, TaskTypes DEF CoreInv, Ownership, WaitingIsExec, Waiting, Cur
  <1>5. \A g \in Fibers : Queued(g) => m_state'[g] = m_state[g]
    BY <1>0, <1>1, <1>2, <1>4 DEF CoreInv, TypeOK
  <1>6. KeepsHands(w)
    BY <1>0, <1>1, <1>3 DEF KeepsHands, Takes, Runs, Turn, AtRun, Cur
  <1>7. QED
    BY <1>1, <1>3, <1>5, <1>6, QuietPool

\* A worker takes up a task: swapIn() is Resume.
LEMMA SwapInResumes ==
  ASSUME Both, Both', NEW w \in Workers, SwapIn(w)
  PROVE  \E t \in Tasks : pool!Resume(w, t)
  <1>0. CoreInv /\ TaskInv /\ Reads /\ Reads'
    BY PoolReads, PoolReadsNext DEF Both
  <1>1. /\ Goto(w, "swapin", "task")
        /\ m_state' = [m_state EXCEPT ![Cur(w)] = "EXEC"]
        /\ UNCHANGED <<m_fibers, m_cb, ft, cb_fiber, fresh, done>>
    BY DEF SwapIn
  <1>2. PICK f \in Fibers : f = Cur(w)
    BY <1>0, <1>1, TurnOf
  <1>3. /\ pc[w] = "swapin" /\ pc'[w] = "task" /\ OthersStay(w)
        /\ \A v \in Workers \ {w} : ft[v].fiber # f /\ Cur(v) # f
    BY <1>0, <1>1, <1>2, TurnOf DEF OthersStay
  <1>4. /\ \A g \in Fibers \ {f} : m_state'[g] = m_state[g]
        /\ m_state'[f] = "EXEC"
    BY <1>0, <1>1, <1>2 DEF CoreInv, TypeOK
  <1>5. ~Queued(f)
    BY <1>0, <1>2, <1>3, TaskTypes DEF CoreInv, Ownership, WaitingIsExec, Waiting, Cur
  <1>6. Live(f)
    <2>1. m_cb[f] # NoTask
      BY <1>0, <1>2, <1>3 DEF CoreInv, Ownership, BodiesBound
    <2>2. m_state[f] \notin Ended
      BY <1>0, <1>2, <1>3 DEF CoreInv, Ownership, FtStates, CbStates, Cur
    <2>3. QED
      BY <1>0, <2>1, <2>2 DEF TaskInv, BodiesLive, Live
  <1>7. \A u : Ask(u)' <=> Ask(u)
    BY <1>1 DEF Ask, Asked, Picked
  <1>8. \A g : (Queued(g)' <=> Queued(g)) /\ (Live(g)' <=> Live(g))
    BY <1>1 DEF Queued, Live
  <1>9. \A g \in Fibers : /\ Takes(w, g) <=> g = f
                          /\ ~Takes(w, g)' /\ ~Runs(w, g)
                          /\ Runs(w, g)' <=> g = f
    BY <1>1, <1>2, <1>3 DEF Takes, Runs, AtRun, Turn, Cur
  <1>10. \A g \in Fibers \ {f} : FiberStays(g)
    BY <1>1, <1>3, <1>4, <1>8, <1>9, HandsStay
  <1>11. PICK t \in Tasks : t = m_cb[f] /\ t = m_cb'[f]
    BY <1>0, <1>1, <1>6 DEF Reads, BegunAt
  <1>12. \A u \in Tasks \ {t} : Stays(u)
    BY <1>0, <1>1, <1>7, <1>10, <1>11, TaskStays
  <1>13. /\ t \in queued /\ t \notin queued'
         /\ t \notin woken /\ t \notin woken'
         /\ t \notin suspended /\ t \notin suspended'
         /\ \A v \in Workers : running[v] # t /\ (running'[v] = t <=> v = w)
    <2>1. \A v \in Workers \ {w} : /\ ~Takes(v, f) /\ ~Runs(v, f)
                                   /\ ~Takes(v, f)' /\ ~Runs(v, f)'
      BY <1>3, OthersHands DEF Takes, Runs
    <2>2. /\ Due(f) /\ ~Due(f)' /\ ~Woke(f) /\ ~Woke(f)'
          /\ \A v \in Workers : ~Runs(v, f) /\ (Runs(v, f)' <=> v = w)
      BY <1>5, <1>8, <1>9, <2>1 DEF Due, Woke
    <2>3. BegunAt(f) /\ BegunAt(f)'
      BY <1>0, <1>6, <1>8 DEF Reads
    <2>4. QED
      BY <1>11, <2>2, <2>3 DEF BegunAt
  <1>14. running[w] = NoTask
    BY <1>3 DEF running, SwappedIn
  <1>15. /\ queued' = queued \ {t} /\ woken' = woken /\ suspended' = suspended
         /\ running' = [running EXCEPT ![w] = t]
    BY <1>0, <1>12, <1>13, OneMoves
  <1>16. QED
    BY <1>1, <1>13, <1>14, <1>15 DEF pool!Resume

\* What an entry put at the end of the queue makes of it.
LEMMA PushSeen ==
  ASSUME CoreInv, NEW e \in FiberAndThread, Push(e)
  PROVE  /\ \A f : Queued(f)' <=> Queued(f) \/ f = e.fiber
         /\ \A t : Asked(t)' <=> Asked(t) \/ t = e.cb
  <1>1. m_fibers \in Seq(FiberAndThread)
    BY TaskTypes
  <1>2. /\ DOMAIN m_fibers' = DOMAIN m_fibers \cup {Len(m_fibers) + 1}
        /\ \A j \in DOMAIN m_fibers : m_fibers'[j] = m_fibers[j]
        /\ m_fibers'[Len(m_fibers) + 1] = e
    BY <1>1, AppendFacts DEF Push
  <1>3. QED
    BY <1>2 DEF Queued, Asked

\* A fiber that waits is alive.
LEMMA WaitingIsLive ==
  ASSUME CoreInv, TaskInv, NEW f \in Fibers,
         m_state[f] \in {"EXEC", "HOLD", "READY"}
  PROVE  Live(f)
  BY DEF CoreInv, Ownership, BodiesBound, TaskInv, BodiesLive, Live

\* The body ends: MainFunc is Finish.
LEMMA MainFuncFinishes ==
  ASSUME Both, Both', NEW w \in Workers, MainFunc(w)
  PROVE  pool!Finish(w)
  <1>0. CoreInv /\ TaskInv /\ Reads /\ Reads'
    BY PoolReads, PoolReadsNext DEF Both
  <1>1. /\ Goto(w, "task", "dec") /\ done' = done \cup {TaskOf(w)}
        /\ UNCHANGED <<m_fibers, ft, cb_fiber, fresh>>
    BY DEF MainFunc
  <1>2. PICK f \in Fibers : f = Cur(w)
    BY <1>0, <1>1, TurnOf
  <1>3. /\ pc[w] = "task" /\ pc'[w] = "dec" /\ OthersStay(w)
        /\ \A v \in Workers \ {w} : ft[v].fiber # f /\ Cur(v) # f
    BY <1>0, <1>1, <1>2, TurnOf DEF OthersStay
  <1>4. PICK t \in Tasks : t = m_cb[f] /\ done' = done \cup {t}
    BY <1>0, <1>1, <1>2, <1>3, CurFacts DEF TaskOf
  <1>5. /\ m_state[f] = "EXEC" /\ Live(f)
        /\ m_cb'[f] \in {t, NoTask}
        /\ \A g \in Fibers \ {f} : m_state'[g] = m_state[g] /\ m_cb'[g] = m_cb[g]
    <2>1. m_state[f] = "EXEC"
      BY <1>0, <1>2, <1>3, CurFacts
    <2>2. Live(f)
      BY <1>0, <2>1, WaitingIsLive
    <2>3. QED
      BY <1>0, <1>2, <1>4, <2>1, <2>2 DEF MainFunc, CoreInv, TypeOK
  <1>6. ~Live(f)' /\ \A g \in Fibers \ {f} : /\ Live(g)' <=> Live(g)
                                             /\ Live(g) => m_cb[g] # t
    BY <1>0, <1>4, <1>5 DEF Live, Reads
  <1>7. ~Queued(f)
    BY <1>0, <1>2, <1>3, TaskTypes DEF CoreInv, Ownership, WaitingIsExec, Waiting, Cur
  <1>8. \A u : Ask(u)' <=> Ask(u)
    BY <1>1 DEF Ask, Asked, Picked
  <1>9. \A g \in Fibers \ {f} : FiberStays(g)
    <2>1. SUFFICES ASSUME NEW g \in Fibers \ {f}
                   PROVE  FiberStays(g)
      OBVIOUS
    <2>2. ~Takes(w, g) /\ ~Takes(w, g)' /\ ~Runs(w, g) /\ ~Runs(w, g)'
      BY <1>1, <1>2, <1>3 DEF Takes, Runs, AtRun, Turn, Cur
    <2>3. Queued(g)' <=> Queued(g)
      BY <1>1 DEF Queued
    <2>4. QED
      BY <1>3, <1>5, <1>6, <2>2, <2>3, HandsStay
  <1>10. BegunAt(f) /\ OutsideAt(t)'
    <2>1. \A g \in Fibers : Live(g)' => m_cb'[g] # t
      BY <1>5, <1>6
    <2>2. QED
      BY <1>0, <1>5, <2>1 DEF Reads
  <1>11. /\ t \notin queued /\ t \notin queued'
         /\ t \notin woken /\ t \notin woken'
         /\ t \notin suspended /\ t \notin suspended'
         /\ \A v \in Workers : (running[v] = t <=> v = w) /\ running'[v] # t
    <2>1. /\ ~Due(f) /\ ~Woke(f)
          /\ \A v \in Workers : Runs(v, f) <=> v = w
      BY <1>2, <1>3, <1>7 DEF Due, Woke, Takes, Runs, Turn, AtRun
    <2>2. t \notin queued /\ t \notin woken /\ t \notin suspended
          /\ \A v \in Workers : running[v] = t <=> v = w
      BY <1>4, <1>10, <2>1 DEF BegunAt
    <2>3. ~Ask(t)
      <3>1. Bodied(t)
        BY <1>4 DEF Bodied
      <3>2. QED
        BY <1>0, <3>1 DEF TaskInv, Tasks_, AskedOnce, PickedOnce, Ask, Asked, Picked
    <2>4. QED
      BY <1>4, <1>8, <1>10, <2>2, <2>3 DEF OutsideAt
  <1>12. \A u \in Tasks \ {t} : Stays(u)
    <2>1. SUFFICES ASSUME NEW u \in Tasks \ {t}
                   PROVE  Stays(u)
      OBVIOUS
    <2>2. \A g \in Fibers :
            \/ FiberStays(g)
            \/ (Live(g) => m_cb[g] # u) /\ (Live(g)' => m_cb'[g] # u)
      BY <1>4, <1>6, <1>9
    <2>3. QED
      BY <1>0, <1>1, <1>4, <1>8, <2>2, TaskStays
  <1>13. /\ queued' = queued /\ woken' = woken /\ suspended' = suspended
         /\ running' = [running EXCEPT ![w] = NoTask] /\ running[w] = t
    <2>1. /\ queued' = queued \ {t} /\ woken' = woken \ {t}
          /\ suspended' = suspended \ {t}
      BY <1>0, <1>11, <1>12, OneMoves
    <2>2. running' = [running EXCEPT ![w] = NoTask]
      BY <1>0, <1>11, <1>12, OneMoves
    <2>3. QED
      BY <1>11, <2>1, <2>2
  <1>14. QED
    BY <1>4, <1>11, <1>13 DEF pool!Finish, pool!LeavesWorker

\* A task is asked for: schedule(cb) is Submit.
LEMMA SchedulesSubmits ==
  ASSUME Both, Both', ScheduleTask, UNCHANGED <<m_state, m_cb, ft, cb_fiber>>,
         \A v \in Workers : \/ pc'[v] = pc[v]
                            \/ pc[v] \in TaskLabels /\ pc'[v] \in TaskLabels
  PROVE  \E t \in Tasks : pool!Submit(t)
  <1>0. CoreInv /\ TaskInv /\ Reads /\ Reads'
    BY PoolReads, PoolReadsNext DEF Both
  <1>1. PICK t \in fresh, pin \in Pins :
          /\ Push(TaskEntry(t, pin)) /\ fresh' = fresh \ {t}
          /\ UNCHANGED <<armed, done, yields>>
    BY DEF ScheduleTask
  <1>2. /\ t \in Tasks /\ TaskEntry(t, pin) \in FiberAndThread
        /\ TaskEntry(t, pin).fiber = NoFiber /\ TaskEntry(t, pin).cb = t
    BY <1>0, TaskTypes, EntryTypes DEF TaskEntry
  <1>3. /\ \A f \in Fibers : Queued(f)' <=> Queued(f)
        /\ \A u : Asked(u)' <=> Asked(u) \/ u = t
    BY <1>0, <1>1, <1>2, PushSeen
  <1>4. \A u : Ask(u)' <=> Ask(u) \/ u = t
    BY <1>3 DEF Ask, Picked
  <1>5. \A f \in Fibers : FiberStays(f) /\ (Live(f)' <=> Live(f)) /\ m_cb'[f] = m_cb[f]
    <2>1. \A w \in Workers : \A f : /\ Takes(w, f)' <=> Takes(w, f)
                                    /\ Runs(w, f)' <=> Runs(w, f)
      BY DEF Takes, Runs, AtRun, Turn, Cur
    <2>2. QED
      BY <1>1, <1>3, <2>1 DEF Live, Due, Woke, FiberStays
  <1>6. /\ \A f \in Fibers : m_cb[f] # t
        /\ ~Ask(t) /\ t \notin done
    BY <1>0, <1>1 DEF TaskInv, Tasks_, FreshOnce, Bodied, Ask
  <1>7. OutsideAt(t) /\ OutsideAt(t)'
    BY <1>0, <1>2, <1>5, <1>6 DEF Reads
  <1>8. /\ t \notin queued /\ t \in queued'
        /\ t \notin woken /\ t \notin woken'
        /\ t \notin suspended /\ t \notin suspended'
        /\ \A v \in Workers : running[v] # t /\ running'[v] # t
    BY <1>1, <1>4, <1>6, <1>7 DEF OutsideAt
  <1>9. \A u \in Tasks \ {t} : Stays(u)
    BY <1>0, <1>1, <1>4, <1>5, TaskStays
  <1>10. /\ queued' = queued \cup {t} /\ woken' = woken /\ suspended' = suspended
         /\ running' = running
    <2>1. /\ queued' = queued \cup {t} /\ woken' = woken \ {t}
          /\ suspended' = suspended \ {t}
      BY <1>0, <1>2, <1>8, <1>9, OneMoves
    <2>2. running' = running
      <3>1. \A v \in Workers : running'[v] = t <=> running[v] = t
        BY <1>8
      <3>2. QED
        BY <1>0, <1>2, <1>9, <3>1, OneMoves
    <2>3. QED
      BY <1>8, <2>1, <2>2
  <1>11. t \notin pool!Known
    BY <1>6, <1>8 DEF pool!Known, pool!Running
  <1>12. QED
    BY <1>1, <1>2, <1>10, <1>11 DEF pool!Submit

\* The turn of a function's fiber ends, and its task goes on later: the fiber
\* that gave itself back READY is Yield, the other Hold.
LEMMA CbLeaves ==
  ASSUME Both, Both', NEW w \in Workers, CbReady(w) \/ CbHeld(w)
  PROVE  pool!Yield(w) \/ pool!Hold(w)
  <1>0. CoreInv /\ TaskInv /\ Reads /\ Reads'
    BY PoolReads, PoolReadsNext DEF Both
  <1>1. /\ pc[w] = "after" /\ ft[w].fiber = NoFiber
        /\ \E b \in {"scan", "tickle_after"} : Goto(w, "after", b)
        /\ UNCHANGED <<m_cb, ft, fresh, done>>
        /\ cb_fiber' = [cb_fiber EXCEPT ![w] = NoFiber]
    BY DEF CbReady, CbHeld, AfterCb
  <1>2. PICK f \in Fibers : f = Cur(w)
    BY <1>0, <1>1, TurnOf
  <1>3. /\ pc'[w] \in {"scan", "tickle_after"} /\ cb_fiber[w] = f
        /\ \A v \in Workers \ {w} : pc'[v] = pc[v] /\ ft[v].fiber # f /\ Cur(v) # f
    BY <1>0, <1>1, <1>2, TurnOf DEF Cur
  <1>4. OthersStay(w)
    BY <1>0, <1>1, <1>3 DEF CoreInv, TypeOK, OthersStay
  <1>5. Queued(f) => m_state[f] = "EXEC"
    BY <1>0, <1>3 DEF CoreInv, Ownership, WaitingIsExec, Waiting
  <1>6. /\ m_state[f] \in {"EXEC", "HOLD", "READY"} /\ Live(f)
    <2>1. m_state[f] \in {"EXEC", "HOLD", "READY"}
      <3>1. m_state[f] # "INIT"
        BY <1>0, <1>1, <1>3 DEF CoreInv, Ownership, CbStates
      <3>2. m_state[f] \in States \ Ended
        BY <1>0, <1>3 DEF CbReady, CbHeld, CoreInv, TypeOK
      <3>3. QED
        BY <3>1, <3>2
    <2>2. QED
      BY <1>0, <2>1, WaitingIsLive
  <1>7. \/ /\ CbReady(w) /\ m_state[f] = "READY" /\ m_state'[f] = "READY"
           /\ Queued(f)'
        \/ /\ CbHeld(w) /\ m_state[f] # "READY" /\ m_state'[f] = "HOLD"
           /\ Queued(f)' <=> Queued(f)
    <2>1. CASE CbReady(w)
      <3>1. FiberEntry(f) \in FiberAndThread /\ FiberEntry(f).fiber = f
        BY EntryTypes DEF FiberEntry
      <3>2. Push(FiberEntry(f)) /\ m_state[f] = "READY" /\ m_state' = m_state
        BY <1>3, <2>1 DEF CbReady
      <3>3. QED
        BY <1>0, <2>1, <3>1, <3>2, PushSeen
    <2>2. CASE CbHeld(w)
      BY <1>0, <1>3, <2>2 DEF CbHeld, Queued, CoreInv, TypeOK
    <2>3. QED
      BY <2>1, <2>2
  <1>8. /\ \A g \in Fibers \ {f} : m_state'[g] = m_state[g] /\ (Queued(g)' <=> Queued(g))
        /\ \A u \in Tasks : Asked(u)' <=> Asked(u)
    <2>1. CASE CbReady(w)
      <3>1. /\ FiberEntry(f) \in FiberAndThread /\ FiberEntry(f).fiber = f
            /\ FiberEntry(f).cb = NoTask
        BY EntryTypes DEF FiberEntry
      <3>2. Push(FiberEntry(f)) /\ m_state' = m_state
        BY <1>3, <2>1 DEF CbReady
      <3>3. QED
        BY <1>0, <3>1, <3>2, PushSeen
    <2>2. CASE CbHeld(w)
      BY <1>0, <1>3, <2>2 DEF CbHeld, Queued, Asked, CoreInv, TypeOK
    <2>3. QED
      BY <2>1, <2>2
  <1>9. \A u \in Tasks : Ask(u)' <=> Ask(u)
    BY <1>1, <1>8 DEF Ask, Picked
  <1>10. \A g \in Fibers : /\ ~Takes(w, g) /\ ~Takes(w, g)'
                           /\ ~Runs(w, g)' /\ (Runs(w, g) <=> g = f)
    BY <1>1, <1>2, <1>3 DEF Takes, Runs, AtRun, Turn
  <1>11. \A g \in Fibers \ {f} : FiberStays(g)
    <2>1. \A g \in Fibers : Live(g)' <=> Live(g)
      BY <1>1 DEF Live
    <2>2. QED
      BY <1>1, <1>4, <1>8, <1>10, <2>1, HandsStay
  <1>12. PICK t \in Tasks : t = m_cb[f] /\ t = m_cb'[f]
    BY <1>0, <1>1, <1>6 DEF Reads, BegunAt
  <1>13. \A u \in Tasks \ {t} : Stays(u)
    BY <1>0, <1>1, <1>9, <1>11, <1>12, TaskStays
  <1>14. \A v \in Workers : /\ ~Takes(v, f) /\ ~Takes(v, f)'
                            /\ (Runs(v, f) <=> v = w) /\ ~Runs(v, f)'
    <2>1. \A v \in Workers \ {w} : ~Takes(v, f) /\ ~Runs(v, f)
      BY <1>3 DEF Takes, Runs
    <2>2. QED
      BY <1>4, <1>10, <2>1, OthersHands
  <1>15. BegunAt(f) /\ BegunAt(f)'
    BY <1>0, <1>1, <1>6 DEF Reads, Live
  <1>16. /\ \A v \in Workers : (running[v] = t <=> v = w) /\ running'[v] # t
         /\ t \notin suspended /\ t \notin queued /\ t \notin woken'
         /\ t \in woken <=> Queued(f)
         /\ t \in queued' <=> Queued(f)'
         /\ t \in suspended' <=> ~Queued(f)'
    <2>1. /\ ~Due(f) /\ (Due(f)' <=> Queued(f)')
          /\ ~Woke(f)' /\ (Woke(f) <=> Queued(f))
      BY <1>5, <1>7, <1>14 DEF Due, Woke
    <2>2. QED
      BY <1>12, <1>14, <1>15, <2>1 DEF BegunAt
  <1>17. /\ running' = [running EXCEPT ![w] = NoTask] /\ running[w] = t
    BY <1>0, <1>13, <1>16, OneMoves
  <1>18. /\ queued' = IF t \in queued' THEN queued \cup {t} ELSE queued \ {t}
         /\ woken' = IF t \in woken' THEN woken \cup {t} ELSE woken \ {t}
         /\ suspended' = IF t \in suspended' THEN suspended \cup {t}
                                             ELSE suspended \ {t}
    BY <1>0, <1>13, OneMoves
  <1>19. CASE CbReady(w) /\ m_state[f] = "READY" /\ Queued(f)'
    <2>1. /\ queued' = queued \cup {t} /\ woken' = woken /\ suspended' = suspended
          /\ t \notin woken
      BY <1>5, <1>16, <1>18, <1>19
    <2>2. QED
      BY <1>1, <1>12, <1>17, <2>1 DEF pool!Yield, pool!LeavesWorker
  <1>20. CASE Queued(f)' <=> Queued(f)
    <2>1. CASE t \in woken
      <3>1. queued' = queued \cup {t} /\ woken' = woken \ {t} /\ suspended' = suspended
        BY <1>16, <1>18, <1>20, <2>1
      <3>2. QED
        BY <1>1, <1>12, <1>17, <2>1, <3>1 DEF pool!Hold, pool!LeavesWorker
    <2>2. CASE t \notin woken
      <3>1. queued' = queued /\ woken' = woken /\ suspended' = suspended \cup {t}
        BY <1>16, <1>18, <1>20, <2>2
      <3>2. QED
        BY <1>1, <1>12, <1>17, <2>2, <3>1 DEF pool!Hold, pool!LeavesWorker
    <2>3. QED
      BY <2>1, <2>2
  <1>21. QED
    BY <1>7, <1>19, <1>20

\* A fiber is put into the queue: schedule(fiber) is Wake, of a task that sleeps
\* or, while its state is EXEC, of one that runs.
LEMMA PushWakes ==
  ASSUME Both, Both', NEW f \in Fibers, Push(FiberEntry(f)), ~Queued(f),
         UNCHANGED <<m_state, m_cb, ft, cb_fiber, fresh, done>>,
         \A v \in Workers : \/ pc'[v] = pc[v]
                            \/ pc[v] \in TaskLabels /\ pc'[v] \in TaskLabels,
         m_state[f] \in {"EXEC", "HOLD", "READY"},
         m_state[f] = "EXEC" => \E v \in Workers : Runs(v, f),
         m_state[f] # "EXEC" => \A v \in Workers : ~Runs(v, f) /\ ~Takes(v, f)
  PROVE  \E t \in Tasks : pool!Wake(t)
  <1>0. CoreInv /\ TaskInv /\ Reads /\ Reads'
    BY PoolReads, PoolReadsNext DEF Both
  <1>1. /\ FiberEntry(f) \in FiberAndThread /\ FiberEntry(f).fiber = f
        /\ FiberEntry(f).cb = NoTask
    BY EntryTypes DEF FiberEntry
  <1>2. /\ \A g : Queued(g)' <=> Queued(g) \/ g = f
        /\ \A u \in Tasks : Asked(u)' <=> Asked(u)
    BY <1>0, <1>1, PushSeen
  <1>3. \A u \in Tasks : Ask(u)' <=> Ask(u)
    BY <1>2 DEF Ask, Picked
  <1>4. \A w \in Workers : \A g : /\ Takes(w, g)' <=> Takes(w, g)
                                  /\ Runs(w, g)' <=> Runs(w, g)
    BY DEF Takes, Runs, AtRun, Turn, Cur
  <1>5. \A g \in Fibers \ {f} : FiberStays(g)
    BY <1>2, <1>4 DEF FiberStays, Live, Due, Woke
  <1>6. Live(f)
    BY <1>0, WaitingIsLive
  <1>7. PICK t \in Tasks : t = m_cb[f] /\ t = m_cb'[f]
    BY <1>0, <1>6 DEF Reads, BegunAt
  <1>8. \A u \in Tasks \ {t} : Stays(u)
    BY <1>0, <1>3, <1>5, <1>7, TaskStays
  <1>9. BegunAt(f) /\ BegunAt(f)'
    BY <1>0, <1>6 DEF Reads, Live
  <1>10. running' = running
    <2>1. \A v \in Workers : running'[v] = t <=> running[v] = t
      BY <1>4, <1>7, <1>9 DEF BegunAt
    <2>2. QED
      BY <1>0, <1>8, <2>1, OneMoves
  <1>11. /\ queued' = IF t \in queued' THEN queued \cup {t} ELSE queued \ {t}
         /\ woken' = IF t \in woken' THEN woken \cup {t} ELSE woken \ {t}
         /\ suspended' = IF t \in suspended' THEN suspended \cup {t}
                                             ELSE suspended \ {t}
    BY <1>0, <1>8, OneMoves
  <1>12. CASE m_state[f] = "EXEC"
    <2>1. /\ Due(f)' <=> Due(f)
          /\ ~Woke(f) /\ Woke(f)'
      BY <1>2, <1>4, <1>12 DEF Due, Woke
    <2>2. PICK v \in Workers : Runs(v, f) /\ Runs(v, f)'
      BY <1>4, <1>12
    <2>3. /\ t \in queued' <=> t \in queued
          /\ t \notin suspended /\ t \notin suspended'
          /\ t \notin woken /\ t \in woken' /\ running[v] = t
      BY <1>7, <1>9, <2>1, <2>2 DEF BegunAt
    <2>4. queued' = queued /\ suspended' = suspended /\ woken' = woken \cup {t}
      BY <1>11, <2>3
    <2>5. t \in pool!Running \ woken
      BY <2>3 DEF pool!Running
    <2>6. QED
      BY <1>10, <2>4, <2>5 DEF pool!Wake
  <1>13. CASE m_state[f] # "EXEC"
    <2>1. /\ ~Due(f) /\ Due(f)' /\ ~Woke(f) /\ ~Woke(f)'
          /\ \A v \in Workers : ~Runs(v, f)
      BY <1>2, <1>4, <1>13 DEF Due, Woke
    <2>2. /\ t \notin queued /\ t \in queued' /\ t \notin woken /\ t \notin woken'
          /\ t \in suspended /\ t \notin suspended'
      BY <1>7, <1>9, <2>1 DEF BegunAt
    <2>3. /\ queued' = queued \cup {t} /\ woken' = woken
          /\ suspended' = suspended \ {t}
      BY <1>11, <2>2
    <2>4. QED
      BY <1>10, <2>2, <2>3 DEF pool!Wake
  <1>14. QED
    BY <1>12, <1>13

\* Somebody schedules a fiber he holds; that one has yielded once.
LEMMA ArmedWakes ==
  ASSUME Both, Both', ScheduleArmed, YieldsOnce',
         UNCHANGED <<m_state, m_cb, ft, cb_fiber>>,
         \A v \in Workers : \/ pc'[v] = pc[v]
                            \/ pc[v] \in TaskLabels /\ pc'[v] \in TaskLabels
  PROVE  \E t \in Tasks : pool!Wake(t)
  <1>0. CoreInv /\ TaskInv
    BY DEF Both
  <1>1. PICK f \in armed : /\ Push(FiberEntry(f))
                           /\ UNCHANGED <<fresh, done, yields>>
    BY DEF ScheduleArmed
  <1>2. f \in Fibers /\ Waiting(f)
    BY <1>0, TaskTypes DEF Waiting
  <1>3. ~Queued(f)
    BY <1>0, TaskTypes DEF QueuedOnce, Queued
  <1>4. m_state[f] \in {"EXEC", "HOLD", "READY"}
    BY <1>0, <1>2 DEF CoreInv, Ownership, WaitingIsAlive
  <1>5. ASSUME m_state[f] = "EXEC"
        PROVE  \E v \in Workers : Runs(v, f)
    <2>1. Live(f)
      BY <1>0, <1>2, <1>4, WaitingIsLive
    <2>2. m_cb[f] \in Tasks
      BY <1>0, <1>2, <2>1, TaskTypes DEF Live
    <2>3. yields[m_cb[f]] \in Nat /\ yields[m_cb[f]] <= 1
      BY <1>0, <1>1, <2>2, TaskTypes DEF YieldsOnce
    <2>4. ~Yielded(f, 2)
      BY <2>1, <2>3 DEF Yielded, Live
    <2>5. QED
      BY <1>0, <1>2, <1>5, <2>4 DEF TaskInv, YieldsCounted
  <1>6. ASSUME m_state[f] # "EXEC"
        PROVE  \A v \in Workers : ~Runs(v, f) /\ ~Takes(v, f)
    <2>1. \A v \in Workers : ft[v].fiber # f /\ cb_fiber[v] # f
      BY <1>0, <1>2, <1>6 DEF CoreInv, Ownership, WaitingIsExec
    <2>2. QED
      BY <2>1 DEF Runs, Takes, Cur
  <1>7. QED
    BY <1>1, <1>2, <1>3, <1>4, <1>5, <1>6, PushWakes

\* A running task schedules its own fiber.
LEMMA RequeueWakes ==
  ASSUME Both, Both', NEW w \in Workers, TaskRequeues(w)
  PROVE  \E t \in Tasks : pool!Wake(t)
  <1>0. CoreInv /\ TaskInv
    BY DEF Both
  <1>1. /\ \E b \in {"tickle_park", "parking"} : Goto(w, "task", b)
        /\ Push(FiberEntry(Cur(w)))
        /\ UNCHANGED <<m_state, m_cb, ft, cb_fiber, fresh, done>>
    BY DEF TaskRequeues
  <1>2. PICK f \in Fibers : f = Cur(w)
    BY <1>0, <1>1, TurnOf
  <1>3. /\ pc[w] = "task"
        /\ \A v \in Workers : \/ pc'[v] = pc[v]
                              \/ pc[v] \in TaskLabels /\ pc'[v] \in TaskLabels
    BY <1>0, <1>1 DEF CoreInv, TypeOK
  <1>4. ~Queued(f)
    BY <1>0, <1>2, <1>3, TaskTypes DEF CoreInv, Ownership, WaitingIsExec, Waiting, Cur
  <1>5. m_state[f] = "EXEC"
    BY <1>0, <1>2, <1>3, CurFacts
  <1>6. Runs(w, f)
    BY <1>2, <1>3 DEF Runs, Turn
  <1>7. QED
    BY <1>1, <1>2, <1>3, <1>4, <1>5, <1>6, PushWakes

-----------------------------------------------------------------------------
(* Every step of the scheduler is one of the pool, or is not seen there.   *)

PoolStep == (\E t \in Tasks : pool!Submit(t) \/ pool!Wake(t))
            \/ (\E w \in Workers : \/ pool!Hold(w) \/ pool!Yield(w) \/ pool!Finish(w)
                                   \/ \E t \in Tasks : pool!Resume(w, t))
Seen == PoolStep \/ UNCHANGED pool!poolVars

\* A step of run(), of a body, and of the owning thread.
LEMMA RunPool ==
  ASSUME Both, Both', YieldsOnce', NEW w \in Workers, RunStep(w)
  PROVE  Seen
  <1>0. pc \in [Workers -> Labels] /\ ft \in [Workers -> FiberAndThread]
    BY DEF Both, CoreInv, TypeOK
  <1>1. CASE Scan(w) /\ ScanTakes(w)
    BY <1>1, ScanPool DEF Scan, Seen
  <1>2. CASE Scan(w) /\ ScanFindsNothing(w)
    <2>1. SameSide(w)
      BY <1>0, <1>2 DEF Scan, ScanFindsNothing, AfterScan, SameSide, AtRun, Turn
    <2>2. QED
      BY <1>2, <2>1, QuietMovePool DEF Scan, ScanFindsNothing, Seen
  <1>3. CASE DispatchFiber(w)
    <2>1. /\ pc[w] = "dispatch" /\ pc'[w] = "incw" /\ ft[w].fiber # NoFiber
          /\ OthersStay(w)
      BY <1>0, <1>3 DEF DispatchFiber, OthersStay
    <2>2. KeepsHands(w)
      BY <1>3, <2>1 DEF DispatchFiber, KeepsHands, Takes, Runs, AtRun, Turn, Cur
    <2>3. QED
      BY <1>3, <2>1, <2>2, QuietPool DEF DispatchFiber, Seen
  <1>4. CASE DispatchCb(w)
    BY <1>4, DispatchCbPool DEF Seen
  <1>5. CASE DispatchIdle(w)
    <2>1. SameSide(w)
      BY <1>0, <1>5 DEF DispatchIdle, SameSide, AtRun, Turn
    <2>2. QED
      BY <1>5, <2>1, QuietMovePool DEF DispatchIdle, Seen
  <1>6. CASE Exit(w)
    <2>1. pc[w] = "dispatch" /\ pc'[w] = "exited" /\ ft[w].fiber = NoFiber
      BY <1>0, <1>6 DEF Exit, Nothing
    <2>2. OthersStay(w)
      BY <1>6 DEF Exit, OthersStay, Both, CoreInv, TypeOK
    <2>3. KeepsHands(w)
      BY <1>6, <2>1 DEF Exit, KeepsHands, Takes, Runs, AtRun, Turn
    <2>4. QED
      BY <1>6, <2>2, <2>3, QuietPool DEF Exit, Seen
  <1>7. CASE CountTask(w)
    <2>1. SameSide(w)
      BY <1>0, <1>7 DEF CountTask, SameSide, AtRun, Turn
    <2>2. QED
      BY <1>7, <2>1, QuietMovePool DEF CountTask, Seen
  <1>8. CASE SwapIn(w)
    BY <1>8, SwapInResumes DEF Seen, PoolStep
  <1>9. CASE SwappedBack(w)
    <2>1. SameSide(w)
      BY <1>0, <1>9 DEF SwappedBack, SameSide, AtRun, Turn
    <2>2. QED
      BY <1>9, <2>1, QuietMovePool DEF SwappedBack, Seen
  <1>10. CASE UncountTask(w)
    <2>1. SameSide(w)
      BY <1>0, <1>10 DEF UncountTask, SameSide, AtRun, Turn
    <2>2. QED
      BY <1>10, <2>1, QuietMovePool DEF UncountTask, Seen
  <1>11. CASE AfterFiber(w)
    BY <1>11, AfterFiberPool DEF Seen
  <1>12. CASE CbReady(w) \/ CbHeld(w)
    BY <1>12, CbLeaves DEF Seen, PoolStep
  <1>13. CASE CbEnded(w)
    BY <1>13, CbEndedPool DEF Seen
  <1>14. CASE IdleSwapIn(w) \/ IdleSwappedBack(w) \/ AfterIdle(w)
    <2>1. \/ Goto(w, "iincw", "idle") \/ Goto(w, "idec", "idecw")
          \/ Goto(w, "idecw", "scan")
      BY <1>14 DEF IdleSwapIn, IdleSwappedBack, AfterIdle
    <2>2. /\ pc[w] \in {"iincw", "idec", "idecw"}
          /\ pc'[w] \in {"idle", "idecw", "scan"}
      BY <1>0, <2>1
    <2>3. SameSide(w)
      BY <2>2 DEF SameSide, AtRun, Turn
    <2>4. QED
      BY <1>14, <2>3, QuietMovePool DEF IdleSwapIn, IdleSwappedBack, AfterIdle, Seen
  <1>15. QED
    BY <1>1, <1>2, <1>3, <1>4, <1>5, <1>6, <1>7, <1>8, <1>9, <1>10, <1>11,
       <1>12, <1>13, <1>14 DEF RunStep, Scan

LEMMA BodyPool ==
  ASSUME Both, Both', YieldsOnce', NEW w \in Workers, BodyStep(w)
  PROVE  Seen
  <1>0. pc \in [Workers -> Labels]
    BY DEF Both, CoreInv, TypeOK
  <1>1. CASE TaskSchedules(w) \/ TaskWakes(w)
    <2>1. UNCHANGED <<m_state, m_cb, ft, cb_fiber>>
      BY <1>1 DEF TaskSchedules, TaskWakes, TaskCallsSchedule
    <2>2. \A v \in Workers : \/ pc'[v] = pc[v]
                             \/ pc[v] \in TaskLabels /\ pc'[v] \in TaskLabels
      BY <1>0, <1>1 DEF TaskSchedules, TaskWakes, TaskCallsSchedule
    <2>3. CASE ScheduleTask
      BY <2>1, <2>2, <2>3, SchedulesSubmits DEF Seen, PoolStep
    <2>4. CASE ScheduleArmed
      BY <2>1, <2>2, <2>4, ArmedWakes DEF Seen, PoolStep
    <2>5. QED
      BY <1>1, <2>3, <2>4 DEF TaskSchedules, TaskWakes
  <1>2. CASE TaskArms(w)
    <2>1. SameSide(w)
      BY <1>0, <1>2 DEF TaskArms, SameSide, AtRun, Turn
    <2>2. QED
      BY <1>2, <2>1, QuietMovePool DEF TaskArms, Seen
  <1>3. CASE TaskRequeues(w)
    BY <1>3, RequeueWakes DEF Seen, PoolStep
  <1>4. CASE YieldToHold(w)
    <2>1. SameSide(w)
      BY <1>0, <1>4 DEF YieldToHold, SameSide, AtRun, Turn
    <2>2. QED
      BY <1>4, <2>1, QuietMovePool DEF YieldToHold, Seen
  <1>5. CASE YieldToReady(w)
    BY <1>5, YieldToReadyPool DEF Seen
  <1>6. CASE MainFunc(w)
    BY <1>6, MainFuncFinishes DEF Seen, PoolStep
  <1>7. CASE Tickled(w)
    <2>1. UNCHANGED <<m_fibers, m_cb, m_state, ft, cb_fiber, fresh, done>>
      BY <1>7 DEF Tickled
    <2>2. \/ Goto(w, "tickle_scan", "dispatch") \/ Goto(w, "tickle_task", "task")
          \/ Goto(w, "tickle_park", "parking") \/ Goto(w, "tickle_after", "scan")
      BY <1>7, TickledMoves
    <2>3. SameSide(w)
      BY <1>0, <2>2 DEF SameSide, AtRun, Turn
    <2>4. QED
      BY <2>1, <2>2, <2>3, QuietMovePool DEF Seen
  <1>8. CASE IdleReturns(w)
    <2>1. SameSide(w)
      BY <1>0, <1>8 DEF IdleReturns, SameSide, AtRun, Turn
    <2>2. QED
      BY <1>8, <2>1, QuietMovePool DEF IdleReturns, Seen
  <1>9. QED
    BY <1>1, <1>2, <1>3, <1>4, <1>5, <1>6, <1>7, <1>8 DEF BodyStep

\* Nothing is read off the labels outside of a turn.
LEMMA OutsidePool ==
  ASSUME Both, Both',
         UNCHANGED <<m_fibers, m_cb, m_state, ft, cb_fiber, fresh, done>>,
         \A v \in Workers : \/ pc'[v] = pc[v]
                            \/ pc[v] \in {"off", "exited"} /\ pc'[v] = "scan"
  PROVE  UNCHANGED pool!poolVars
  <1>1. Reads /\ Reads'
    BY PoolReads, PoolReadsNext DEF Both
  <1>2. \A u : Ask(u)' <=> Ask(u)
    BY DEF Ask, Asked, Picked
  <1>3. \A v \in Workers : \A f : /\ Takes(v, f)' <=> Takes(v, f)
                                  /\ Runs(v, f)' <=> Runs(v, f)
    BY DEF Takes, Runs, AtRun, Turn, Cur
  <1>4. \A f \in Fibers : FiberStays(f)
    BY <1>3 DEF FiberStays, Live, Due, Woke, Queued
  <1>5. \A u \in Tasks : Stays(u)
    BY <1>1, <1>2, <1>4, TaskStays
  <1>6. QED
    BY <1>1, <1>5, PoolStays

LEMMA OwnerPool ==
  ASSUME Both, Both', YieldsOnce', OwnerStep
  PROVE  Seen
  <1>0. pc \in [Workers -> Labels]
    BY DEF Both, CoreInv, TypeOK
  <1>1. CASE OwnerSchedules \/ OwnerWakes
    <2>1. UNCHANGED <<m_state, m_cb, ft, cb_fiber, pc>>
      BY <1>1 DEF OwnerSchedules, OwnerWakes, OwnerCallsSchedule
    <2>2. CASE ScheduleTask
      BY <2>1, <2>2, SchedulesSubmits DEF Seen, PoolStep
    <2>3. CASE ScheduleArmed
      BY <2>1, <2>3, ArmedWakes DEF Seen, PoolStep
    <2>4. QED
      BY <1>1, <2>2, <2>3 DEF OwnerSchedules, OwnerWakes
  <1>2. CASE OwnerTickled \/ CallsStop \/ StopTickled \/ CallerReturns \/ Join
    <2>1. UNCHANGED <<m_fibers, m_cb, m_state, ft, cb_fiber, pc, fresh, done>>
      BY <1>2 DEF OwnerTickled, CallsStop, Stop, StopTickled, CallerReturns, Join
    <2>2. QED
      BY <2>1, OutsidePool DEF Seen
  <1>3. CASE Start \/ StopRuns
    <2>1. UNCHANGED <<m_fibers, m_cb, m_state, ft, cb_fiber, fresh, done>>
      BY <1>3 DEF Start, StopRuns
    <2>2. \A v \in Workers : \/ pc'[v] = pc[v]
                             \/ pc[v] \in {"off", "exited"} /\ pc'[v] = "scan"
      BY <1>0, <1>3 DEF Start, StopRuns, Both, CoreInv, Ownership, OutsideRun
    <2>3. QED
      BY <2>1, <2>2, OutsidePool DEF Seen
  <1>4. QED
    BY <1>1, <1>2, <1>3 DEF OwnerStep

\* All steps together.
LEMMA PoolSees ==
  ASSUME Both, [Next]_coreVars
  PROVE  [YieldsOnce' => pool!Next]_(pool!poolVars)
  <1>1. Both'
    BY InvStep, TasksStep DEF Both
  <1>2. SUFFICES ASSUME YieldsOnce'
                 PROVE  Seen
    BY DEF Seen, PoolStep, pool!Next
  <1>3. CASE \E w \in Workers : RunStep(w) \/ BodyStep(w)
    BY <1>1, <1>2, <1>3, RunPool, BodyPool
  <1>4. CASE OwnerStep
    BY <1>1, <1>2, <1>4, OwnerPool
  <1>5. CASE UNCHANGED coreVars
    <2>1. UNCHANGED <<m_fibers, m_cb, m_state, ft, cb_fiber, pc, fresh, done>>
      BY <1>5 DEF coreVars
    <2>2. QED
      BY <1>1, <2>1, OutsidePool DEF Seen
  <1>6. QED
    BY <1>3, <1>4, <1>5, StopAnswers
       DEF Next, Worker, TaskStep, Owner, StopProgress, Halted, BodyStep, OwnerStep

\* At first no task is known to the pool.
LEMMA PoolInit ==
  ASSUME CoreInit
  PROVE  pool!Init
  <1>1. /\ \A w \in Workers : /\ ft[w].cb = NoTask /\ ft[w].fiber = NoFiber
                              /\ pc[w] = "off"
        /\ \A f \in Fibers : m_cb[f] = NoTask
        /\ DOMAIN m_fibers = {} /\ fresh = Tasks /\ done = {}
    BY DEF CoreInit, Nothing
  <1>2. running = [w \in Workers |-> NoTask]
    BY <1>1 DEF running, SwappedIn
  <1>3. queued = {} /\ woken = {}
    BY <1>1 DEF queued, woken, Body, Taken
  <1>4. suspended = {} /\ done = {}
    BY <1>1 DEF suspended
  <1>5. QED
    BY <1>2, <1>3, <1>4 DEF pool!Init

\* As long as no task yields twice, the scheduler keeps the promises of TaskPool:
\* a task given to schedule() is begun once, runs on one worker at a time, and a
\* wake-up is not lost, not even one that comes while the task still runs on its
\* way to YieldToHold().
THEOREM KeepsThePromise == Spec => TaskPoolSpec
  <1>1. Init => pool!Init
    BY PoolInit DEF Init
  <1>2. CoreInv /\ TaskInv /\ [Next]_coreVars =>
          [YieldsOnce' => pool!Next]_(pool!poolVars)
    BY PoolSees DEF Both
  <1>3. QED
    BY <1>1, <1>2, TasksHold, PTL DEF Spec, TaskPoolSpec
=============================================================================
