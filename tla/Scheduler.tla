----------------------------- MODULE Scheduler -----------------------------
(***************************************************************************)
(* sylar::Scheduler itself: tickle() does nothing, and idle() returns at   *)
(* once, so a worker that twice finds nothing to run leaves run().         *)
(***************************************************************************)
EXTENDS SchedulerCore

TaskStep(w) == \/ TaskSchedules(w) \/ TaskWakes(w)
               \/ TaskArms(w) \/ TaskRequeues(w)
               \/ YieldToHold(w) \/ YieldToReady(w) \/ MainFunc(w)
Worker(w) == RunStep(w) \/ TaskStep(w) \/ Tickled(w) \/ IdleReturns(w)

StopProgress == StopTickled \/ StopRuns \/ CallerReturns \/ Join
Owner == \/ OwnerSchedules \/ OwnerWakes \/ OwnerTickled \/ Start
         \/ Stop(StoppingBase)
         \/ StopProgress

Next == \/ failed = "none" /\ ((\E w \in Workers : Worker(w)) \/ Owner)
        \/ Halted

Init == CoreInit
Spec == Init /\ [][Next]_coreVars

\* The operating system runs every thread; task bodies come to an end.
FairSpec == /\ Spec
            /\ \A w \in Workers : WF_coreVars(failed = "none" /\ Worker(w))
            /\ WF_coreVars(failed = "none" /\ StopProgress)

-----------------------------------------------------------------------------
\* A call of stop() returns: every worker comes to a scan that finds nothing,
\* and the calling thread outlives its own turn in run().
StopReturns == main \in {"stop_tickle", "caller", "join"} ~> main = "stopped"

\* The abstract task pool read off the queue, the fibers and the workers.
SwappedIn == {"task", "tickle_task", "tickle_park", "parking", "dec",
              "decw", "after"}
Body(t) == {f \in Fibers : m_cb[f] = t /\ t \notin done}
running == [w \in Workers |->
              IF pc[w] \in SwappedIn /\ TaskOf(w) \notin done
                THEN TaskOf(w) ELSE NoTask]
woken   == {t \in Tasks : \E f \in Body(t) : Queued(f) /\ m_state[f] = "EXEC"}
Taken(t) == \E w \in Workers :
  \/ ft[w].cb = t
  \/ pc[w] \in {"tickle_scan", "dispatch"} /\ ft[w].fiber \in Body(t)
  \/ pc[w] \in {"incw", "swapin"} /\ Cur(w) \in Body(t)
queued  == {t \in Tasks :
              \/ \E i \in DOMAIN m_fibers : m_fibers[i].cb = t
              \/ \E f \in Body(t) : Queued(f) /\ m_state[f] # "EXEC"
              \/ Taken(t)}
suspended == Tasks \ (fresh \cup queued \cup done \cup
                      {running[w] : w \in Workers})
pool == INSTANCE TaskPool WITH
          queued <- queued, running <- running, suspended <- suspended,
          woken <- woken, done <- done

\* As long as no task yields twice, the scheduler keeps the promises of TaskPool.
YieldsOnce == \A t \in Tasks : yields[t] <= 1
TaskPoolSpec == pool!Init /\ [][YieldsOnce' => pool!Next]_(pool!poolVars)

-----------------------------------------------------------------------------
\* fiber.h says that YieldToReady and YieldToHold leave the fiber READY and HOLD
\* in the background.  So a fiber in nobody's hands is never EXEC, and a READY
\* one is in the queue.
BackgroundStates == \A f \in Fibers :
  (\A w \in Workers : ~Holds(w, f)) =>
    /\ m_state[f] # "EXEC"
    /\ m_state[f] = "READY" => Queued(f)
=============================================================================
