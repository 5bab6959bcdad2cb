-------------------------------- MODULE Hook --------------------------------
(***************************************************************************)
(* The hooked system calls (hook.cpp) and the descriptor contexts they     *)
(* keep (fd_manager.cpp): a fiber that would block registers an event and  *)
(* a timer with the IOManager and yields; a time-out cancels the event, a  *)
(* close() by another fiber cancels all events of the descriptor.          *)
(*                                                                         *)
(* Calls into IOManager and TimeManager are atomic here, with the effect   *)
(* that modules IOManager and Timer give them; there is always a worker.   *)
(***************************************************************************)
EXTENDS Integers, FiniteSets

CONSTANTS
  Fibers, NoFiber,
  Fds,       \* descriptors; a number is not used twice
  Uses,      \* the events <<fd, event>> that each fiber may wait for
  MaxCalls   \* bound: how many blocking calls each fiber makes

Events == {"READ", "WRITE"}
Slots  == Fds \X Events
AllUses == UNION {Uses[f] : f \in Fibers}
NoSlot == <<"none", "none">>

\* addEvent() asserts that no two fibers wait for the same event.
ASSUME UsesAssumption ==
  /\ NoFiber \notin Fibers /\ MaxCalls \in [Fibers -> Nat]
  /\ Uses \in [Fibers -> SUBSET Slots]
  /\ \A f, g \in Fibers : f # g => Uses[f] \cap Uses[g] = {}

VARIABLES
  state, nonblock, ready,    \* the kernel: of each descriptor
  m_datas, m_userNonblock, m_timeout, \* FdManager: contexts and their fields
  waiter,                    \* IOManager: the fiber registered for each event
  queued,                    \* Scheduler: how often each fiber is in the queue
  timer, callbacks,          \* pending timer of each fiber; expired ones
  pc, slot, op, timed,       \* of each fiber: where it is, in which call
  call, cancelled, turn,     \* number of the call; tinfo->cancelled; turn
  overdue, unblocked         \* history: last call whose timer ran out; sockets
                             \* that ioctl() made blocking

kernelVars  == <<state, nonblock, ready>>
ctxVars     == <<m_datas, m_userNonblock, m_timeout>>
managerVars == <<waiter, queued, timer, callbacks>>
callVars    == <<slot, op, timed, call>>
historyVars == <<overdue, unblocked>>
vars == <<kernelVars, ctxVars, managerVars, pc, callVars, cancelled, turn,
          historyVars>>

Init ==
  /\ state = [d \in Fds |-> "free"] /\ nonblock = [d \in Fds |-> FALSE]
  /\ ready = {}
  /\ m_datas = {} /\ m_userNonblock = {} /\ m_timeout = {}
  /\ waiter = [s \in Slots |-> NoFiber]
  /\ queued = [f \in Fibers |-> 0]
  /\ timer = [f \in Fibers |-> "none"] /\ callbacks = {}
  /\ pc = [f \in Fibers |-> "run"]
  /\ slot = [f \in Fibers |-> NoSlot] /\ op = [f \in Fibers |-> "none"]
  /\ timed = [f \in Fibers |-> FALSE] /\ call = [f \in Fibers |-> 0]
  /\ cancelled = [f \in Fibers |-> FALSE]
  /\ turn = [f \in Fibers |-> "first"]
  /\ overdue = [f \in Fibers |-> 0] /\ unblocked = {}

Goto(f, from, to) == pc[f] = from /\ pc' = [pc EXCEPT ![f] = to]
Fd(f) == slot[f][1]

-----------------------------------------------------------------------------
(* What IOManager and Scheduler do for the calls.                          *)

Schedule(f) == queued' = [queued EXCEPT ![f] = @ + 1]
\* All waiters of the events in todo are scheduled.
TriggerOnly(todo) == \* mutant
  /\ UNCHANGED waiter
  /\ queued' = [f \in Fibers |-> queued[f] +
                  Cardinality({s \in todo : waiter[s] = f})]
Trigger(todo) ==
  /\ queued' = [f \in Fibers |-> queued[f] +
                  Cardinality({s \in todo : waiter[s] = f})]
  /\ waiter' = [s \in Slots |-> IF s \in todo THEN NoFiber ELSE waiter[s]]

\* A descriptor becomes ready, and stops to be.
Becomes(s) ==
  /\ state[s[1]] = "open" /\ s \notin ready
  /\ ready' = ready \cup {s}
  /\ UNCHANGED <<state, nonblock, ctxVars, managerVars, pc, callVars,
                 cancelled, turn, historyVars>>
Drained(s) ==
  /\ s \in ready /\ ready' = ready \ {s}
  /\ UNCHANGED <<state, nonblock, ctxVars, managerVars, pc, callVars,
                 cancelled, turn, historyVars>>

\* idle() handles the event; the kernel drops it when the descriptor is closed.
Fires(s) ==
  /\ s \in ready /\ state[s[1]] = "open" /\ waiter[s] # NoFiber
  /\ Trigger({s})
  /\ UNCHANGED <<kernelVars, ctxVars, timer, callbacks, pc, callVars,
                 cancelled, turn, historyVars>>

\* YieldToHold(): the fiber swaps out and run() sets HOLD, but only on the turn
\* the fiber began as a function; from a later turn it stays EXEC for good.
YieldToHold(f) ==
  /\ Goto(f, "parking", "parked")
  /\ UNCHANGED <<kernelVars, ctxVars, managerVars, callVars, cancelled, turn,
                 historyVars>>
Resumes(f) ==
  /\ queued[f] > 0 /\ turn[f] = "first"
  /\ Goto(f, "parked", IF op[f] = "sleep" THEN "run" ELSE "woken")
  /\ queued' = [queued EXCEPT ![f] = @ - 1]
  /\ turn' = [turn EXCEPT ![f] = "later"]
  /\ UNCHANGED <<kernelVars, ctxVars, waiter, timer, callbacks, callVars,
                 cancelled, historyVars>>

-----------------------------------------------------------------------------
(* Timers.  The callback of a call holds its tinfo by a weak pointer.      *)

Callback(f) == [fiber |-> f, kind |-> timer[f], call |-> call[f],
                slot |-> slot[f], cancels |-> FALSE]
Expires(f) ==
  /\ timer[f] # "none" /\ timer' = [timer EXCEPT ![f] = "none"]
  /\ callbacks' = callbacks \cup {Callback(f)}
  /\ overdue' = [overdue EXCEPT ![f] = call[f]]
  /\ UNCHANGED <<kernelVars, ctxVars, waiter, queued, pc, callVars, cancelled,
                 turn, unblocked>>

WakesSleeper(c) ==
  /\ c.kind = "sleep" /\ callbacks' = callbacks \ {c}
  /\ Schedule(c.fiber)
  /\ UNCHANGED <<kernelVars, ctxVars, waiter, timer, pc, callVars, cancelled,
                 turn, historyVars>>

\* The callback ends at once if its call is over or was cancelled already.
InCall(f) == pc[f] \notin {"run", "del", "close_f"}
ForgetsTheCall(c) == InCall(c.fiber) /\ ~cancelled[c.fiber] \* mutant
StillWaitsFor(c) ==
  /\ call[c.fiber] = c.call /\ InCall(c.fiber) /\ ~cancelled[c.fiber]
TimesOut(c) ==
  /\ c.kind = "io" /\ ~c.cancels
  /\ IF StillWaitsFor(c)
       THEN /\ callbacks' = (callbacks \ {c}) \cup {[c EXCEPT !.cancels = TRUE]}
            /\ cancelled' = [cancelled EXCEPT ![c.fiber] = TRUE]
       ELSE callbacks' = callbacks \ {c} /\ UNCHANGED cancelled
  /\ UNCHANGED <<kernelVars, ctxVars, waiter, queued, timer, pc, callVars, turn,
                 historyVars>>
DeletesEvent(c) == \* mutant
  /\ c.cancels /\ callbacks' = callbacks \ {c}
  /\ waiter' = [waiter EXCEPT ![c.slot] = NoFiber]
  /\ UNCHANGED <<kernelVars, ctxVars, queued, timer, pc, callVars, cancelled,
                 turn, historyVars>>
\* cancelEvent(): of whatever fiber is registered now; it does nothing when the
\* descriptor has been closed, because epoll_ctl() fails.
CancelsEvent(c) ==
  /\ c.cancels /\ callbacks' = callbacks \ {c}
  /\ IF state[c.slot[1]] = "open" THEN Trigger({c.slot})
                                  ELSE UNCHANGED <<waiter, queued>>
  /\ UNCHANGED <<kernelVars, ctxVars, timer, pc, callVars, cancelled, turn,
                 historyVars>>

-----------------------------------------------------------------------------
(* do_io() and connect_with_timeout().                                     *)

Managed(d) == d \in m_datas /\ d \notin m_userNonblock

\* A new call; without a context, or when the user asked for non-blocking
\* calls, the system call is made once and its result returned.
KeepsInfo(f, what, s, may_wait) == \* mutant
  /\ call[f] < MaxCalls[f]
  /\ call' = [call EXCEPT ![f] = @ + 1]
  /\ slot' = [slot EXCEPT ![f] = s] /\ op' = [op EXCEPT ![f] = what]
  /\ timed' = [timed EXCEPT ![f] = may_wait]
  /\ UNCHANGED cancelled
Begins(f, what, s, may_wait) ==
  /\ call[f] < MaxCalls[f]
  /\ call' = [call EXCEPT ![f] = @ + 1]
  /\ slot' = [slot EXCEPT ![f] = s] /\ op' = [op EXCEPT ![f] = what]
  /\ timed' = [timed EXCEPT ![f] = may_wait]
  /\ cancelled' = [cancelled EXCEPT ![f] = FALSE]
do_io(f) == \E s \in Uses[f] :
  /\ state[s[1]] # "free"
  /\ Begins(f, "io", s, s \in m_timeout)
  /\ Goto(f, "run", IF Managed(s[1]) THEN "try" ELSE "direct")
  /\ UNCHANGED <<kernelVars, ctxVars, managerVars, turn, historyVars>>
\* Without a context connect() fails at once, and nothing changes.
connect(f) == \E s \in Uses[f] :
  /\ s[2] = "WRITE" /\ state[s[1]] # "free" /\ s[1] \in m_datas
  /\ Begins(f, "connect", s, TRUE)
  /\ Goto(f, "run", IF Managed(s[1]) THEN "try" ELSE "direct")
  /\ UNCHANGED <<kernelVars, ctxVars, managerVars, turn, historyVars>>

Opens(d) ==
  /\ state[d] = "free" /\ state' = [state EXCEPT ![d] = "open"]
  /\ nonblock' = [nonblock EXCEPT ![d] = TRUE]
  /\ m_datas' = m_datas \cup {d}
  /\ UNCHANGED <<m_userNonblock, m_timeout>>

\* The system call returns: it failed, it succeeded, or it would have to wait.
Fails(f) == state[Fd(f)] = "closed"
            /\ UNCHANGED <<state, nonblock, ctxVars>>
Succeeds(f) ==
  /\ state[Fd(f)] = "open" /\ slot[f] \in ready
  /\ \/ UNCHANGED <<state, nonblock, ctxVars>>
     \/ slot[f][2] = "READ" /\ \E d \in Fds : Opens(d) \* accept()
WouldBlock(f) == state[Fd(f)] = "open" /\ slot[f] \notin ready

Returns(f) ==
  /\ \E l \in {"try", "direct", "blocked"} : Goto(f, l, "run")
  /\ Succeeds(f) \/ (pc[f] # "blocked" /\ Fails(f))
  /\ UNCHANGED <<ready, managerVars, callVars, cancelled, turn, historyVars>>
ReturnsAgain(f) ==
  /\ Goto(f, "direct", "run") /\ WouldBlock(f) /\ nonblock[Fd(f)]
  /\ UNCHANGED <<kernelVars, ctxVars, managerVars, callVars, cancelled, turn,
                 historyVars>>
\* The worker thread itself is stopped, and close() does not wake it.
Blocks(f) ==
  /\ \E l \in {"try", "direct"} : Goto(f, l, "blocked")
  /\ WouldBlock(f) /\ ~nonblock[Fd(f)]
  /\ UNCHANGED <<kernelVars, ctxVars, managerVars, callVars, cancelled, turn,
                 historyVars>>

\* EAGAIN or EINPROGRESS: addConditionTimer(), then addEvent().
AddsTimer(f) ==
  /\ Goto(f, "try", "event") /\ WouldBlock(f) /\ nonblock[Fd(f)]
  /\ timer' = [timer EXCEPT ![f] = IF timed[f] THEN "io" ELSE "none"]
  /\ UNCHANGED <<kernelVars, ctxVars, waiter, queued, callbacks, callVars,
                 cancelled, turn, historyVars>>
AddsEvent(f) ==
  /\ Goto(f, "event", "parking") /\ state[Fd(f)] = "open"
  /\ waiter' = [waiter EXCEPT ![slot[f]] = f]
  /\ UNCHANGED <<kernelVars, ctxVars, queued, timer, callbacks, callVars,
                 cancelled, turn, historyVars>>
AddEventFails(f) ==
  /\ Goto(f, "event", "run") /\ state[Fd(f)] = "closed"
  /\ timer' = [timer EXCEPT ![f] = "none"]
  /\ UNCHANGED <<kernelVars, ctxVars, waiter, queued, callbacks, callVars,
                 cancelled, turn, historyVars>>

\* Back from YieldToHold(): timer->cancel(), then the look at tinfo.
CancelsTimer(f) ==
  /\ Goto(f, "woken", "check")
  /\ timer' = [timer EXCEPT ![f] = "none"]
  /\ UNCHANGED <<kernelVars, ctxVars, waiter, queued, callbacks, callVars,
                 cancelled, turn, historyVars>>
ChecksTimeout(f) ==
  /\ Goto(f, "check", IF cancelled[f] \/ op[f] = "connect" THEN "run" ELSE "try")
  /\ UNCHANGED <<kernelVars, ctxVars, managerVars, callVars, cancelled, turn,
                 historyVars>>

Calls(f) ==
  \/ do_io(f) \/ connect(f) \/ Returns(f) \/ ReturnsAgain(f) \/ Blocks(f)
  \/ AddsTimer(f) \/ AddsEvent(f) \/ AddEventFails(f) \/ YieldToHold(f)
  \/ Resumes(f) \/ CancelsTimer(f) \/ ChecksTimeout(f)

-----------------------------------------------------------------------------
(* sleep(), usleep(), nanosleep(), and the calls that do not wait.         *)

sleep(f) ==
  /\ Goto(f, "run", "parking")
  /\ Begins(f, "sleep", NoSlot, TRUE)
  /\ timer' = [timer EXCEPT ![f] = "sleep"]
  /\ UNCHANGED <<kernelVars, ctxVars, waiter, queued, callbacks, turn,
                 historyVars>>

\* socket(); the context makes the descriptor non-blocking.
socket(f) ==
  /\ pc[f] = "run" /\ \E d \in Fds : Opens(d)
  /\ UNCHANGED <<ready, managerVars, pc, callVars, cancelled, turn, historyVars>>

\* close(): cancelAll(), FdManager::del(), and the system call.
CancelsAll(f) == \E d \in m_datas :
  /\ Goto(f, "run", "del")
  /\ slot' = [slot EXCEPT ![f] = <<d, "READ">>]
  /\ Trigger({d} \X Events)
  /\ UNCHANGED <<kernelVars, ctxVars, timer, callbacks, op, timed, call,
                 cancelled, turn, historyVars>>
DeletesCtx(f) ==
  /\ Goto(f, "del", "close_f")
  /\ m_datas' = m_datas \ {Fd(f)}
  /\ UNCHANGED <<kernelVars, m_userNonblock, m_timeout, managerVars, callVars,
                 cancelled, turn, historyVars>>
Closes(f) ==
  /\ Goto(f, "close_f", "run")
  /\ state' = [state EXCEPT ![Fd(f)] = "closed"]
  /\ ready' = {s \in ready : s[1] # Fd(f)}
  /\ UNCHANGED <<nonblock, ctxVars, managerVars, callVars, cancelled, turn,
                 historyVars>>

Changes(set, d, on) == IF on THEN set \cup {d} ELSE set \ {d}
\* fcntl(F_SETFL): the user's wish is noted, the descriptor stays non-blocking.
RawFlags(f) == \* mutant
  \E d \in m_datas, on \in BOOLEAN :
    /\ pc[f] = "run"
    /\ m_userNonblock' = Changes(m_userNonblock, d, on)
    /\ nonblock' = [nonblock EXCEPT ![d] = on] /\ unblocked' = unblocked \ {d}
    /\ UNCHANGED <<state, ready, m_datas, m_timeout, managerVars, pc,
                   callVars, cancelled, turn, overdue>>
fcntl(f) == \E d \in m_datas, on \in BOOLEAN :
  /\ pc[f] = "run"
  /\ m_userNonblock' = Changes(m_userNonblock, d, on)
  /\ nonblock' = [nonblock EXCEPT ![d] = TRUE] /\ unblocked' = unblocked \ {d}
  /\ UNCHANGED <<state, ready, m_datas, m_timeout, managerVars, pc, callVars,
                 cancelled, turn, overdue>>
\* ioctl(FIONBIO) passes the user's wish on to the kernel as well.
ioctl(f) == \E d \in m_datas, on \in BOOLEAN :
  /\ pc[f] = "run"
  /\ m_userNonblock' = Changes(m_userNonblock, d, on)
  /\ nonblock' = [nonblock EXCEPT ![d] = on]
  /\ unblocked' = Changes(unblocked, d, ~on)
  /\ UNCHANGED <<state, ready, m_datas, m_timeout, managerVars, pc, callVars,
                 cancelled, turn, overdue>>
\* SO_RCVTIMEO and SO_SNDTIMEO.
setsockopt(f) == \E s \in AllUses :
  /\ pc[f] = "run"
  /\ s[1] \in m_datas /\ m_timeout' = m_timeout \cup {s}
  /\ UNCHANGED <<kernelVars, m_datas, m_userNonblock, managerVars, pc,
                 callVars, cancelled, turn, historyVars>>

OtherCalls(f) ==
  \/ sleep(f) \/ socket(f) \/ CancelsAll(f) \/ DeletesCtx(f) \/ Closes(f)
  \/ fcntl(f) \/ ioctl(f) \/ setsockopt(f)

-----------------------------------------------------------------------------
RunsCallback(c) == WakesSleeper(c) \/ TimesOut(c) \/ CancelsEvent(c)
Progress(f) == Expires(f) \/ \E c \in callbacks : c.fiber = f /\ RunsCallback(c)

Next == \/ \E f \in Fibers : Calls(f) \/ OtherCalls(f) \/ Progress(f)
        \/ \E s \in AllUses : Becomes(s) \/ Drained(s) \/ Fires(s)
Spec == Init /\ [][Next]_vars

\* Timers run out, and workers run what is queued.
FairSpec == Spec /\ \A f \in Fibers :
  /\ WF_vars(Expires(f))
  /\ WF_vars(\E c \in callbacks : c.fiber = f /\ RunsCallback(c))
  /\ WF_vars(YieldToHold(f)) /\ WF_vars(Resumes(f))

-----------------------------------------------------------------------------
\* Types of all variables.
HookTypeOK ==
  /\ state \in [Fds -> {"free", "open", "closed"}]
  /\ nonblock \in [Fds -> BOOLEAN] /\ ready \subseteq Slots
  /\ m_datas \subseteq Fds /\ m_userNonblock \subseteq Fds
  /\ m_timeout \subseteq Slots
  /\ waiter \in [Slots -> Fibers \cup {NoFiber}]
  /\ queued \in [Fibers -> 0..1]
  /\ timer \in [Fibers -> {"none", "io", "sleep"}]
  /\ \A f \in Fibers : overdue[f] <= call[f] /\ call[f] \in 0..MaxCalls[f]
  /\ slot \in [Fibers -> Slots \cup {NoSlot}]
  /\ \A c \in callbacks : c.kind \in {"io", "sleep"} /\ c.fiber \in Fibers

\* A fiber that yields to hold in a hooked call has exactly one thing that will
\* wake it, and a running fiber has none left over: not its event and a late
\* cancellation both, not nothing because a time-out and a close() met.
SleepersOf(f) == {c \in callbacks : c.kind = "sleep" /\ c.fiber = f}
Wakers(f) ==
  Cardinality({s \in Slots : waiter[s] = f}) + queued[f]
    + Cardinality(SleepersOf(f)) + IF timer[f] = "sleep" THEN 1 ELSE 0
OneWaker == \A f \in Fibers :
  Wakers(f) = IF pc[f] \in {"parking", "parked"} THEN 1 ELSE 0

\* A call is cancelled only by a timer of its own that has run out, although
\* callbacks of earlier calls of the fiber may still be queued.
TimeoutIsOwn == \A f \in Fibers : cancelled[f] => overdue[f] = call[f]

\* A hooked call stops its worker thread only on a socket that the program
\* itself switched to blocking with ioctl(FIONBIO).
BlocksOnlyUnblocked == [][\A f \in Fibers :
  pc[f] # "blocked" /\ pc'[f] = "blocked" => Fd(f) \in unblocked]_vars

OpenSlots == {s \in Slots : state[s[1]] = "open"}
\* The first wait of a task ends when its time-out passes, whatever other
\* fibers, events and callbacks do, if the timer still runs when the fiber has
\* swapped out and nobody closes the descriptor.
TimedWaitEnds == \A f \in Fibers :
  (pc[f] = "parked" /\ turn[f] = "first" /\ timer[f] = "io")
    ~> (pc[f] # "parked" \/ slot[f] \notin OpenSlots)
=============================================================================
