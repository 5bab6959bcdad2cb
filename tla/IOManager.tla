----------------------------- MODULE IOManager -----------------------------
(***************************************************************************)
(* sylar::IOManager: the scheduler whose idle fibers wait in epoll_wait,   *)
(* resume the fibers and functions registered on file descriptors, and     *)
(* queue the callbacks of expired timers.  Of TimeManager this module      *)
(* keeps what stopping() and tickle() depend on (module Timer has the      *)
(* rest): which timers exist, which are due, and m_tickled.                *)
(***************************************************************************)
EXTENDS SchedulerCore

CONSTANTS
  Fds,        \* descriptors that events are registered on
  Pipe,       \* the read end m_tickleFds[0]
  Uses,       \* the pairs <<fd, event>> the program registers
  Conditions, \* what the kernel may report: "IN", "OUT", "HUP"
  TimerTasks  \* tasks the program gives to addTimer()

ASSUME FdsAssumption ==
  /\ Pipe \notin Fds
  /\ Uses \subseteq Fds \X {"READ", "WRITE"}
  /\ Conditions \subseteq {"IN", "OUT", "HUP"}
  /\ TimerTasks \subseteq Tasks

VARIABLES
  ipc,                  \* where a worker is in idle() or in cancelEvent()
  events, ctx,          \* FdContext: registered events, fiber or function each
  m_pendingEventCount,
  m_timers, due, m_tickled,
  epoll, cond, rlist, pipe, \* the kernel: interest, state, ready list, pipe
  got, cbs, cur         \* locals: events reported, callbacks, events to trigger

fdVars     == <<events, ctx, m_pendingEventCount>>
timerVars  == <<m_timers, due, m_tickled>>
kernelVars == <<epoll, cond, rlist, pipe>>
localVars  == <<ipc, got, cbs, cur>>
ioVars     == <<fdVars, timerVars, kernelVars, localVars>>
vars       == <<coreVars, ioVars>>

Events == {"READ", "WRITE"}
Asked  == [IN |-> "READ", OUT |-> "WRITE"]
Idle   == [fd |-> Pipe, todo |-> {}]

Init ==
  /\ CoreInit
  /\ ipc = [w \in Workers |-> "none"]
  /\ events = [d \in Fds |-> {}]
  /\ ctx = [d \in Fds |-> [e \in Events |-> Nothing]]
  /\ m_pendingEventCount = 0
  /\ m_timers = {} /\ due = {} /\ m_tickled = FALSE
  /\ epoll = [d \in Fds |-> {}] /\ cond = [d \in Fds |-> {}]
  /\ rlist = {} /\ pipe = FALSE
  /\ got = [w \in Workers |-> {}]
  /\ cbs = [w \in Workers |-> <<>>]
  /\ cur = [w \in Workers |-> Idle]

-----------------------------------------------------------------------------
(* The kernel: edge-triggered epoll (EPOLLET) and the tickle pipe.         *)

\* What a poll of d reports for the interest set; HUP is always reported.
Poll(d, interest) ==
  IF interest = {} THEN {}
  ELSE {c \in cond[d] : c = "HUP" \/ Asked[c] \in interest}

\* EPOLL_CTL_ADD, MOD or DEL: the descriptor is polled once, then.
EpollCtl(d, interest) ==
  /\ epoll' = [epoll EXCEPT ![d] = interest]
  /\ rlist' = IF Poll(d, interest) = {} THEN rlist \ {d} ELSE rlist \cup {d}
  /\ UNCHANGED <<cond, pipe>>

\* The descriptor becomes ready, or gets more data: an edge.
Becomes(d, c) ==
  /\ cond' = [cond EXCEPT ![d] = @ \cup {c}]
  /\ rlist' = IF epoll[d] # {} /\ (c = "HUP" \/ Asked[c] \in epoll[d])
                THEN rlist \cup {d} ELSE rlist
  /\ UNCHANGED <<coreVars, fdVars, timerVars, epoll, pipe, localVars>>
\* Somebody reads or writes until EAGAIN.
Drained(d, c) ==
  /\ c \in cond[d] \ {"HUP"}
  /\ cond' = [cond EXCEPT ![d] = @ \ {c}]
  /\ UNCHANGED <<coreVars, fdVars, timerVars, epoll, rlist, pipe, localVars>>
Elapses(t) ==
  /\ t \in m_timers \ due
  /\ due' = due \cup {t}
  /\ UNCHANGED <<coreVars, fdVars, m_timers, m_tickled, kernelVars, localVars>>

-----------------------------------------------------------------------------
(* tickle()                                                                *)

tickle ==
  /\ IF m_idleThreadCount > 0
       THEN pipe' = TRUE /\ rlist' = rlist \cup {Pipe}
       ELSE UNCHANGED <<pipe, rlist>>
  /\ UNCHANGED <<epoll, cond>>

WorkerTickled(w) ==
  /\ Tickled(w) /\ tickle
  /\ UNCHANGED <<fdVars, timerVars, localVars>>
IdleGoto(w, from, to) == ipc[w] = from /\ ipc' = [ipc EXCEPT ![w] = to]
TickleReturns == [tickle_push |-> "handle", tickle_trigger |-> "uncount"]
IdleTickled(w) ==
  /\ \E l \in DOMAIN TickleReturns : IdleGoto(w, l, TickleReturns[l])
  /\ tickle
  /\ UNCHANGED <<coreVars, fdVars, timerVars, got, cbs, cur>>

-----------------------------------------------------------------------------
(* Registering events and timers.  FdContext::mutex is held by a worker    *)
(* whose cur.fd is the descriptor.                                         *)

Locked(d) == \E w \in Workers : cur[w].fd = d
CallsFrom(w) == pc[w] = "task" /\ ipc[w] = "none"

\* Mutant: the pending event is not counted.
RegistersUncounted(d, e, entry) ==
  /\ <<d, e>> \in Uses /\ ~Locked(d) /\ e \notin events[d]
  /\ EpollCtl(d, events[d] \cup {e})
  /\ UNCHANGED m_pendingEventCount
  /\ events' = [events EXCEPT ![d] = @ \cup {e}]
  /\ ctx' = [ctx EXCEPT ![d][e] = entry]
Registers(d, e, entry) ==
  /\ <<d, e>> \in Uses /\ ~Locked(d) /\ e \notin events[d]
  /\ EpollCtl(d, events[d] \cup {e})
  /\ m_pendingEventCount' = m_pendingEventCount + 1
  /\ events' = [events EXCEPT ![d] = @ \cup {e}]
  /\ ctx' = [ctx EXCEPT ![d][e] = entry]

\* addEvent() with the running fiber, which then yields to hold.
addEventFiber(w) ==
  /\ CallsFrom(w) /\ TaskArms(w)
  /\ \E d \in Fds, e \in Events : Registers(d, e, FiberEntry(Cur(w)))
  /\ UNCHANGED <<timerVars, localVars>>
\* addEvent() with a function.
addEventCb(w) ==
  /\ CallsFrom(w)
  /\ \E d \in Fds, e \in Events, t \in fresh :
       /\ Registers(d, e, TaskEntry(t, AnyThread))
       /\ fresh' = fresh \ {t}
  /\ UNCHANGED <<m_fibers, fiberVars, workerVars, countVars, armed, done,
                 yields, mainVars, failed, timerVars, localVars>>

\* delEvent(): the fiber or function is dropped, and never scheduled.
delEvent(w) ==
  /\ CallsFrom(w)
  /\ \E d \in Fds : \E e \in events[d] :
       /\ ~Locked(d)
       /\ EpollCtl(d, events[d] \ {e})
       /\ m_pendingEventCount' = m_pendingEventCount - 1
       /\ events' = [events EXCEPT ![d] = @ \ {e}]
       /\ armed' = armed \ {ctx[d][e].fiber}
       /\ ctx' = [ctx EXCEPT ![d][e] = Nothing]
  /\ UNCHANGED <<m_fibers, fiberVars, workerVars, countVars, fresh, done,
                 yields, mainVars, failed, timerVars, localVars>>

\* cancelEvent() and cancelAll() up to triggerEvent().
Cancels(w, d, todo) ==
  /\ CallsFrom(w) /\ ~Locked(d) /\ todo # {}
  /\ EpollCtl(d, events[d] \ todo)
  /\ cur' = [cur EXCEPT ![w] = [fd |-> d, todo |-> todo]]
  /\ ipc' = [ipc EXCEPT ![w] = "trigger"]
  /\ UNCHANGED <<coreVars, fdVars, timerVars, got, cbs>>
cancelEvent(w) == \E d \in Fds : \E e \in events[d] : Cancels(w, d, {e})
cancelAll(w)   == \E d \in Fds : Cancels(w, d, events[d])

\* addTimer() with a function; a timer inserted at the front of the set tickles
\* unless one did since a worker last read the front.
addTimer(w) ==
  /\ CallsFrom(w)
  /\ \E t \in fresh \cap TimerTasks, front \in BOOLEAN :
       /\ m_timers = {} => front
       /\ m_timers' = m_timers \cup {t} /\ fresh' = fresh \ {t}
       /\ m_tickled' = (m_tickled \/ front)
       /\ Goto(w, "task", IF front /\ ~m_tickled THEN "tickle_task" ELSE "task")
  /\ UNCHANGED <<m_fibers, fiberVars, ft, cb_fiber, idle_state, reg, countVars,
                 armed, done, yields, mainVars, failed, fdVars, due,
                 kernelVars, localVars>>
cancelTimer(w) ==
  /\ CallsFrom(w)
  /\ \E t \in m_timers : m_timers' = m_timers \ {t} /\ due' = due \ {t}
  /\ UNCHANGED <<coreVars, fdVars, m_tickled, kernelVars, localVars>>

-----------------------------------------------------------------------------
(* triggerEvent(), for each event of cur[w], with the FdContext locked.    *)

NextTodo(w) == IF "READ" \in cur[w].todo THEN "READ" ELSE "WRITE"

triggerEvent(w) ==
  LET d == cur[w].fd  e == NextTodo(w)  entry == ctx[d][e] IN
  /\ IdleGoto(w, "trigger", IF NeedTickle THEN "tickle_trigger" ELSE "uncount")
  /\ Check(e \in events[d], "triggerEvent")
  /\ events' = [events EXCEPT ![d] = @ \ {e}]
  /\ ctx' = [ctx EXCEPT ![d][e] = Nothing]
  /\ IF entry = Nothing THEN UNCHANGED m_fibers ELSE Push(entry)
  /\ armed' = armed \ {entry.fiber}
  /\ UNCHANGED <<fiberVars, workerVars, countVars, fresh, done, yields,
                 mainVars, m_pendingEventCount, timerVars, kernelVars, got,
                 cbs, cur>>
Uncount(w) ==
  LET left == cur[w].todo \ {NextTodo(w)}
      back == IF pc[w] = "idle" THEN "handle" ELSE "none"
  IN
  /\ IdleGoto(w, "uncount", IF left = {} THEN back ELSE "trigger")
  /\ m_pendingEventCount' = m_pendingEventCount - 1
  /\ cur' = [cur EXCEPT ![w] =
               IF left = {} THEN Idle ELSE [@ EXCEPT !.todo = left]]
  /\ UNCHANGED <<coreVars, events, ctx, timerVars, kernelVars, got, cbs>>

-----------------------------------------------------------------------------
(* idle().  stopping() reads the timers, the queue and the events one      *)
(* after the other.                                                        *)

InIdle(w) == pc[w] = "idle"
IdleReads(w) == InIdle(w) /\ UNCHANGED <<fdVars, kernelVars, got, cbs, cur>>

\* Mutant: timers do not keep the manager alive.
IgnoresTimers(w) ==
  /\ IdleReads(w)
  /\ IdleGoto(w, "none", "queue")
  /\ m_tickled' = FALSE
  /\ UNCHANGED <<coreVars, m_timers, due>>
CheckTimers(w) ==
  /\ IdleReads(w)
  /\ IdleGoto(w, "none", IF m_timers = {} THEN "queue" ELSE "wait")
  /\ m_tickled' = FALSE
  /\ UNCHANGED <<coreVars, m_timers, due>>
CheckQueue(w) ==
  /\ IdleReads(w)
  /\ IdleGoto(w, "queue", IF m_autostop /\ m_fibers = <<>>
                             /\ m_activeThreadCount = 0
                            THEN "pending" ELSE "wait")
  /\ UNCHANGED <<coreVars, timerVars>>
CheckPending(w) ==
  /\ IdleReads(w)
  /\ IF m_pendingEventCount = 0
       THEN IdleReturns(w) /\ IdleGoto(w, "pending", "none")
       ELSE IdleGoto(w, "pending", "wait") /\ UNCHANGED coreVars
  /\ UNCHANGED timerVars

\* Mutant: it waits until there is something to report.
WaitsForever(w) ==
  /\ InIdle(w) /\ IdleGoto(w, "wait", "expire") /\ rlist \cup due # {}
  /\ got' = [got EXCEPT ![w] =
       {r \in [fd : rlist \cap Fds, mask : SUBSET Conditions] :
          r.mask = Poll(r.fd, epoll[r.fd]) /\ r.mask # {}}
       \cup {r \in {[fd |-> Pipe, mask |-> {"IN"}]} : Pipe \in rlist /\ pipe}]
  /\ rlist' = {}
  /\ UNCHANGED <<coreVars, fdVars, timerVars, epoll, cond, pipe, cbs, cur>>
\* The time-out is at most 3 s, so the call returns even with nothing to report.
epoll_wait(w) ==
  /\ InIdle(w) /\ IdleGoto(w, "wait", "expire")
  /\ got' = [got EXCEPT ![w] =
       {r \in [fd : rlist \cap Fds, mask : SUBSET Conditions] :
          r.mask = Poll(r.fd, epoll[r.fd]) /\ r.mask # {}}
       \cup {r \in {[fd |-> Pipe, mask |-> {"IN"}]} : Pipe \in rlist /\ pipe}]
  /\ rlist' = {}
  /\ UNCHANGED <<coreVars, fdVars, timerVars, epoll, cond, pipe, cbs, cur>>

listExpiredCb(w) ==
  /\ InIdle(w) /\ IdleGoto(w, "expire", IF due = {} THEN "handle" ELSE "push")
  /\ \E s \in SetToSeqs(due) : cbs' = [cbs EXCEPT ![w] = s]
  /\ m_timers' = m_timers \ due /\ due' = {}
  /\ UNCHANGED <<coreVars, fdVars, m_tickled, kernelVars, got, cur>>
\* schedule(cbs.begin(), cbs.end()): one critical section, one tickle().
SchedulesExpired(w) ==
  /\ IdleGoto(w, "push", IF NeedTickle THEN "tickle_push" ELSE "handle")
  /\ m_fibers' = m_fibers \o
       [i \in DOMAIN cbs[w] |-> TaskEntry(cbs[w][i], AnyThread)]
  /\ cbs' = [cbs EXCEPT ![w] = <<>>]
  /\ UNCHANGED <<fiberVars, workerVars, countVars, taskVars, mainVars, failed,
                 fdVars, timerVars, kernelVars, got, cur>>

\* One reported event: what is no longer registered at all is passed over.
RealEvents(mask) == IF "HUP" \in mask THEN Events ELSE {Asked[c] : c \in mask}
HandlesPipe(w, r) ==
  /\ r.fd = Pipe /\ pipe' = FALSE
  /\ UNCHANGED <<ipc, cur, epoll, cond, rlist>>
TriggersAnyway(d, mask) == TRUE \* mutant: registration is not tested
StillRegistered(d, mask) == events[d] \cap RealEvents(mask) # {}
HandlesStale(w, r) ==
  /\ r.fd \in Fds /\ ~Locked(r.fd) /\ ~StillRegistered(r.fd, r.mask)
  /\ UNCHANGED <<ipc, cur, kernelVars>>
HandlesEvent(w, r) ==
  /\ r.fd \in Fds /\ ~Locked(r.fd) /\ StillRegistered(r.fd, r.mask)
  /\ EpollCtl(r.fd, events[r.fd] \ RealEvents(r.mask))
  /\ cur' = [cur EXCEPT ![w] = [fd |-> r.fd, todo |-> RealEvents(r.mask)]]
  /\ ipc' = [ipc EXCEPT ![w] = "trigger"]
Handles(w) ==
  /\ InIdle(w) /\ ipc[w] = "handle"
  /\ \E r \in got[w] :
       /\ got' = [got EXCEPT ![w] = @ \ {r}]
       /\ HandlesPipe(w, r) \/ HandlesStale(w, r) \/ HandlesEvent(w, r)
  /\ UNCHANGED <<coreVars, fdVars, timerVars, cbs>>

\* The idle fiber swaps out; run() looks at the queue again.
\* Mutant: it may swap out before all that was reported is handled.
IdleYieldsEarly(w) ==
  /\ IdleGoto(w, "handle", "none") /\ Goto(w, "idle", "idec")
  /\ got' = [got EXCEPT ![w] = {}]
  /\ UNCHANGED <<m_fibers, fiberVars, ft, cb_fiber, idle_state, reg, countVars,
                 taskVars, mainVars, failed, fdVars, timerVars, kernelVars,
                 cbs, cur>>
IdleYields(w) ==
  /\ got[w] = {} /\ IdleGoto(w, "handle", "none") /\ Goto(w, "idle", "idec")
  /\ UNCHANGED <<m_fibers, fiberVars, ft, cb_fiber, idle_state, reg, countVars,
                 taskVars, mainVars, failed, fdVars, timerVars, kernelVars,
                 got, cbs, cur>>

IdleStep(w) ==
  \/ CheckTimers(w) \/ CheckQueue(w) \/ CheckPending(w) \/ epoll_wait(w)
  \/ listExpiredCb(w) \/ SchedulesExpired(w) \/ Handles(w) \/ IdleYields(w)
  \/ triggerEvent(w) \/ Uncount(w) \/ IdleTickled(w)

-----------------------------------------------------------------------------
TaskStep(w) ==
  \/ /\ TaskSchedules(w) \/ YieldToHold(w) \/ YieldToReady(w) \/ MainFunc(w)
     /\ ipc[w] = "none" /\ UNCHANGED ioVars
  \/ addEventFiber(w) \/ addEventCb(w) \/ delEvent(w)
  \/ cancelEvent(w) \/ cancelAll(w) \/ addTimer(w) \/ cancelTimer(w)
Worker(w) == \/ RunStep(w) /\ UNCHANGED ioVars
             \/ TaskStep(w) \/ WorkerTickled(w) \/ IdleStep(w)

stopping == m_timers = {} /\ StoppingBase /\ m_pendingEventCount = 0
StopProgress ==
  \/ StopTickled /\ tickle /\ UNCHANGED <<fdVars, timerVars, localVars>>
  \/ (StopRuns \/ CallerReturns \/ Join) /\ UNCHANGED ioVars
\* The constructor calls start(): nothing is scheduled before.
Owner ==
  \/ Start /\ UNCHANGED ioVars
  \/ main # "created" /\ OwnerSchedules /\ UNCHANGED ioVars
  \/ OwnerTickled /\ tickle /\ UNCHANGED <<fdVars, timerVars, localVars>>
  \/ /\ Stop(stopping)
     /\ m_tickled' = (m_tickled /\ ~(RootThread \in Workers /\ Pool = {}))
     /\ UNCHANGED <<fdVars, m_timers, due, kernelVars, localVars>>
  \/ StopProgress

Kernel == \/ \E d \in Fds, c \in Conditions : Becomes(d, c) \/ Drained(d, c)
          \/ \E t \in Tasks : Elapses(t)

Next == \/ /\ failed = "none"
           /\ (\E w \in Workers : Worker(w)) \/ Owner \/ Kernel
        \/ Halted /\ UNCHANGED ioVars

Spec == Init /\ [][Next]_vars

\* Every thread runs, task bodies end, and every timer runs out.
FairSpec ==
  /\ Spec
  /\ \A w \in Workers : WF_vars(failed = "none" /\ Worker(w))
  /\ WF_vars(failed = "none" /\ StopProgress)
  /\ \A t \in TimerTasks : WF_vars(failed = "none" /\ Elapses(t))

-----------------------------------------------------------------------------
\* Types of the variables this module adds.
IOTypeOK ==
  /\ TypeOK
  /\ events \in [Fds -> SUBSET Events] /\ epoll \in [Fds -> SUBSET Events]
  /\ ctx \in [Fds -> [Events -> FiberAndThread]]
  /\ m_pendingEventCount \in Nat
  /\ m_timers \subseteq Tasks /\ due \subseteq m_timers
  /\ m_tickled \in BOOLEAN /\ pipe \in BOOLEAN
  /\ cond \in [Fds -> SUBSET Conditions] /\ rlist \subseteq Fds \cup {Pipe}
  /\ cur \in [Workers -> [fd : Fds \cup {Pipe}, todo : SUBSET Events]]

\* When stop() returns, nothing is left that a worker should still have run:
\* no task in the queue, no timer, no registered event.  Each worker decides
\* from three reads at three moments, while others still pop, trigger and add.
NothingStranded == main = "stopped" =>
  /\ m_fibers = <<>> /\ m_timers = {}
  /\ \A d \in Fds : events[d] = {}

\* m_pendingEventCount, which stopping() reads without a lock, is changed next
\* to the events and not with them: still it is never zero while some fiber or
\* function is registered.
NoneForgotten == failed = "none" /\ m_pendingEventCount = 0 =>
  \A d \in Fds : events[d] = {}

\* A registered event whose descriptor is ready does not stay so: it is
\* triggered, or cancelled, or the condition goes away.  With EPOLLET nothing
\* reports it a second time.
ReadyEventsFire == \A d \in Fds, c \in DOMAIN Asked :
  (Asked[c] \in events[d] /\ c \in cond[d])
    ~> ~(Asked[c] \in events[d] /\ c \in cond[d])

\* A task in the queue that any thread may run is taken by a worker in the end,
\* although tickle() is dropped while the worker is on its way into epoll_wait and
\* not counted as idle yet: the call times out.
WaitsInQueue(t) == \E k \in DOMAIN m_fibers :
  m_fibers[k].cb = t /\ m_fibers[k].thread = AnyThread
TasksAreTaken == \A t \in Tasks : WaitsInQueue(t) ~> ~WaitsInQueue(t)

\* stop() returns once no event is registered any more.
StopReturns ==
  (main \in {"stop_tickle", "caller", "join"}
    /\ [](m_pendingEventCount = 0)) ~> main = "stopped"

-----------------------------------------------------------------------------
\* iomanager.cpp:38 asserts that only registered events are triggered.
OnlyRegisteredTriggered == failed # "triggerEvent"
=============================================================================
