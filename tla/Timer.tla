------------------------------- MODULE Timer -------------------------------
(***************************************************************************)
(* sylar::TimeManager and sylar::Timer: a set of timers ordered by their   *)
(* time, shared by the threads that add, cancel, refresh and reset timers  *)
(* and by the workers that wait for the first one in IOManager::idle().    *)
(* A critical section of m_mutex is a step; reads of the clock outside it  *)
(* are steps of their own.  The wall clock may be set back.                *)
(***************************************************************************)
EXTENDS Integers, FiniteSets

CONSTANTS
  Timers,   \* the Timer objects the program ever makes
  Waiters,  \* workers that run idle()
  Delays,   \* values of ms
  Hour,     \* 60*60*1000: the clock is taken as set back beyond it
  MaxWait,  \* MAX_TIMEOUT of IOManager::idle()
  Start,    \* the clock at construction
  MaxClock, \* bound of the clock
  MaxJumps, \* bound: how often the clock is set back
  Callers   \* threads that add and change timers

ASSUME TimerAssumption ==
  /\ Delays \subseteq Nat /\ Hour \in Nat /\ MaxWait \in Nat
  /\ Start \in Nat /\ MaxClock \in Nat /\ Start <= MaxClock
  /\ MaxJumps \in Nat /\ Callers \in Nat /\ Waiters # {}

VARIABLES
  clock, peak, jumps,        \* GetCurrentMs(), its highest value, set-backs
  m_timers,                  \* the set, ordered by m_next
  m_next, m_ms, m_recurring, m_cb, \* of each timer; m_cb: it has a callback
  life,                      \* "unborn", "made" (not inserted yet), "known"
  m_tickled, m_previouseTime,
  tickling, notified,        \* calls of tickle() to come; the pipe is readable
  loop, deadline, now_ms,    \* of each waiter in idle()
  fires, cancelled           \* history: callbacks handed out; cancel() was true

timeVars    == <<clock, peak, jumps>>
objectVars  == <<m_next, m_ms, m_recurring, m_cb, life>>
managerVars == <<m_timers, m_tickled, m_previouseTime>>
wakeVars    == <<tickling, notified>>
waiterVars  == <<loop, deadline, now_ms>>
historyVars == <<fires, cancelled>>
vars == <<timeVars, objectVars, managerVars, wakeVars, waiterVars, historyVars>>

Init ==
  /\ clock = Start /\ peak = Start /\ jumps = 0
  /\ m_timers = {} /\ m_tickled = FALSE /\ m_previouseTime = Start
  /\ m_next = [t \in Timers |-> 0] /\ m_ms = [t \in Timers |-> 0]
  /\ m_recurring = [t \in Timers |-> FALSE] /\ m_cb = [t \in Timers |-> FALSE]
  /\ life = [t \in Timers |-> "unborn"]
  /\ tickling = 0 /\ notified = FALSE
  /\ loop = [w \in Waiters |-> "next"]
  /\ deadline = [w \in Waiters |-> 0] /\ now_ms = [w \in Waiters |-> 0]
  /\ fires = [t \in Timers |-> 0] /\ cancelled = {}

-----------------------------------------------------------------------------
(* The clock.                                                              *)

Tick == /\ clock < MaxClock /\ clock' = clock + 1
        /\ peak' = IF clock' > peak THEN clock' ELSE peak
        /\ UNCHANGED <<jumps, objectVars, managerVars, wakeVars, waiterVars,
                       historyVars>>
SetBack == /\ jumps < MaxJumps /\ jumps' = jumps + 1
           /\ \E earlier \in 0..(clock - 1) : clock' = earlier
           /\ UNCHANGED <<peak, objectVars, managerVars, wakeVars, waiterVars,
                          historyVars>>

-----------------------------------------------------------------------------
(* addTimer(), Timer::cancel(), refresh() and reset().                     *)

\* The insertion at the front of the set calls onTimerInsertedAtFront(), unless
\* one did since a waiter last read the front.  Equal times are ordered by the
\* address of the timer: either may come first.
AtFront(t, next) ==
  \E front \in BOOLEAN :
    /\ (\E u \in m_timers \ {t} : next[u] < next[t]) => ~front
    /\ (\A u \in m_timers \ {t} : next[u] > next[t]) => front
    /\ m_tickled' = (m_tickled \/ front)
    /\ tickling' = IF front /\ ~m_tickled THEN tickling + 1 ELSE tickling

\* The constructor reads the clock before the lock is taken.
NewTimer(t, ms, recurring) ==
  /\ life[t] = "unborn" /\ life' = [life EXCEPT ![t] = "made"]
  /\ clock + ms <= MaxClock
  /\ m_ms' = [m_ms EXCEPT ![t] = ms]
  /\ m_next' = [m_next EXCEPT ![t] = clock + ms]
  /\ m_recurring' = [m_recurring EXCEPT ![t] = recurring]
  /\ m_cb' = [m_cb EXCEPT ![t] = TRUE]
  /\ UNCHANGED <<timeVars, managerVars, wakeVars, waiterVars, historyVars>>
addTimer(t) ==
  /\ life[t] = "made" /\ life' = [life EXCEPT ![t] = "known"]
  /\ m_timers' = m_timers \cup {t}
  /\ AtFront(t, m_next)
  /\ UNCHANGED <<timeVars, m_next, m_ms, m_recurring, m_cb, m_previouseTime,
                 notified, waiterVars, historyVars>>

\* Mutant: the timer stays in the set.
cancelLeavesIt(t) ==
  /\ life[t] = "known" /\ m_cb[t]
  /\ m_cb' = [m_cb EXCEPT ![t] = FALSE]
  /\ cancelled' = cancelled \cup {t}
  /\ UNCHANGED <<timeVars, m_next, m_ms, m_recurring, life, managerVars,
                 wakeVars, waiterVars, fires>>
cancel(t) ==
  /\ life[t] = "known" /\ m_cb[t]
  /\ m_cb' = [m_cb EXCEPT ![t] = FALSE]
  /\ m_timers' = m_timers \ {t}
  /\ cancelled' = cancelled \cup {t}
  /\ UNCHANGED <<timeVars, m_next, m_ms, m_recurring, life, m_tickled,
                 m_previouseTime, wakeVars, waiterVars, fires>>

\* refresh() puts the timer back without looking at the front.
refresh(t) ==
  /\ life[t] = "known" /\ m_cb[t] /\ t \in m_timers
  /\ clock + m_ms[t] <= MaxClock
  /\ m_next' = [m_next EXCEPT ![t] = clock + m_ms[t]]
  /\ UNCHANGED <<timeVars, m_ms, m_recurring, m_cb, life, managerVars,
                 wakeVars, waiterVars, historyVars>>

\* The time a reset timer counts from: now, or when it was last started.
StartedNow(t, from_now) == \* mutant
  IF from_now THEN clock ELSE clock - m_ms[t]
StartOf(t, from_now) == IF from_now THEN clock ELSE m_next[t] - m_ms[t]

reset(t, ms, from_now) ==
  LET start == StartOf(t, from_now) IN
  /\ life[t] = "known" /\ m_cb[t] /\ t \in m_timers
  /\ ms # m_ms[t] \/ from_now
  /\ start + ms <= MaxClock
  /\ m_ms' = [m_ms EXCEPT ![t] = ms]
  /\ m_next' = [m_next EXCEPT ![t] = start + ms]
  /\ AtFront(t, m_next')
  /\ UNCHANGED <<timeVars, m_recurring, m_cb, life, m_timers, m_previouseTime,
                 notified, waiterVars, historyVars>>

\* onTimerInsertedAtFront() of IOManager writes to the pipe, after the unlock, if
\* a worker is in idle().  (Module IOManager has the count of idle workers that
\* tickle() looks at, and what happens when it is wrong.)
tickle ==
  /\ tickling > 0 /\ tickling' = tickling - 1
  /\ notified' = (notified \/ \E w \in Waiters : loop[w] # "away")
  /\ UNCHANGED <<timeVars, objectVars, managerVars, waiterVars, historyVars>>

Program == tickling < Callers /\ \E t \in Timers :
  \/ \E ms \in Delays, recurring \in BOOLEAN : NewTimer(t, ms, recurring)
  \/ addTimer(t) \/ cancel(t) \/ refresh(t)
  \/ \E ms \in Delays, from_now \in BOOLEAN : reset(t, ms, from_now)

-----------------------------------------------------------------------------
(* A waiter: getNextTimer(), epoll_wait, listExpiredCb().                  *)

LoopGoto(w, from, to) == loop[w] = from /\ loop' = [loop EXCEPT ![w] = to]
IsFirst(t) == t \in m_timers /\ \A u \in m_timers : m_next[t] <= m_next[u]
WaitUntil(time) == IF time <= clock THEN 0
                   ELSE IF time - clock > MaxWait THEN MaxWait
                   ELSE time - clock
Timeout(n) == \/ m_timers = {} /\ n = MaxWait
              \/ \E t \in m_timers : IsFirst(t) /\ n = WaitUntil(m_next[t])

KeepsTickled(w) == \* mutant: m_tickled is not reset
  /\ LoopGoto(w, "next", "wait")
  /\ \E n \in 0..MaxWait : Timeout(n) /\ deadline' = [deadline EXCEPT ![w] = clock + n]
  /\ UNCHANGED <<timeVars, objectVars, managerVars, wakeVars, now_ms,
                 historyVars>>
getNextTimer(w) ==
  /\ LoopGoto(w, "next", "wait")
  /\ m_tickled' = FALSE
  /\ \E n \in 0..MaxWait : Timeout(n) /\ deadline' = [deadline EXCEPT ![w] = clock + n]
  /\ UNCHANGED <<timeVars, objectVars, m_timers, m_previouseTime, wakeVars,
                 now_ms, historyVars>>
\* epoll_wait returns: after its time-out, for the pipe, or for a descriptor.
Wakes(w) ==
  /\ LoopGoto(w, "wait", "clock")
  /\ notified' = FALSE
  /\ deadline' = [deadline EXCEPT ![w] = 0]
  /\ UNCHANGED <<timeVars, objectVars, managerVars, tickling, now_ms,
                 historyVars>>
\* listExpiredCb() reads the clock, then takes the lock.
ReadsClock(w) ==
  /\ LoopGoto(w, "clock", "list")
  /\ now_ms' = [now_ms EXCEPT ![w] = clock]
  /\ UNCHANGED <<timeVars, objectVars, managerVars, wakeVars, deadline,
                 historyVars>>

detectClockRollover(now) == now < m_previouseTime - Hour
ExpiredEarly(now) == {t \in m_timers : m_next[t] <= now + 1} \* mutant
Expired(now) == IF detectClockRollover(now) THEN m_timers
                ELSE {t \in m_timers : m_next[t] <= now}

\* One-shot timers lose their callback, recurring ones are inserted again.
InsertedAgain(t, expired) == TRUE \* mutant: one-shot timers, too
Stays(t, expired) == t \in expired => m_recurring[t]

listExpiredCb(w) ==
  LET now == now_ms[w]  expired == Expired(now) IN
  /\ loop[w] = "list"
  /\ loop' \in {[loop EXCEPT ![w] = l] : l \in {"next", "away"}}
  /\ m_previouseTime' = IF m_timers = {} THEN m_previouseTime ELSE now
  /\ m_timers' = {t \in m_timers : Stays(t, expired)}
  /\ m_next' = [t \in Timers |-> IF t \in expired /\ m_recurring[t]
                                   THEN now + m_ms[t] ELSE m_next[t]]
  /\ m_cb' = [t \in Timers |-> m_cb[t] /\ Stays(t, expired)]
  /\ fires' = [t \in Timers |-> IF t \in expired /\ fires[t] < 2
                                  THEN fires[t] + 1 ELSE fires[t]]
  /\ now_ms' = [now_ms EXCEPT ![w] = 0]
  /\ UNCHANGED <<timeVars, m_ms, m_recurring, life, m_tickled, wakeVars,
                 deadline, cancelled>>
\* The idle fiber is not switched to before its worker has run what it found.
ComesBack(w) ==
  /\ LoopGoto(w, "away", "next")
  /\ UNCHANGED <<timeVars, objectVars, managerVars, wakeVars, deadline, now_ms,
                 historyVars>>

Waiter(w) == \/ getNextTimer(w) \/ Wakes(w) \/ ReadsClock(w)
             \/ listExpiredCb(w) \/ ComesBack(w)

Next == Tick \/ SetBack \/ Program \/ tickle \/ \E w \in Waiters : Waiter(w)
Spec == Init /\ [][Next]_vars

\* Time passes, and every worker comes back to idle().
FairSpec == Spec /\ WF_vars(Tick) /\ \A w \in Waiters : WF_vars(Waiter(w))

-----------------------------------------------------------------------------
\* Types of all variables.
TypeOK ==
  /\ clock \in Nat /\ peak \in Nat /\ jumps \in 0..MaxJumps
  /\ m_timers \subseteq Timers
  /\ m_next \in [Timers -> Nat] /\ m_ms \in [Timers -> Nat]
  /\ m_recurring \in [Timers -> BOOLEAN] /\ m_cb \in [Timers -> BOOLEAN]
  /\ life \in [Timers -> {"unborn", "made", "known"}]
  /\ m_tickled \in BOOLEAN /\ m_previouseTime \in Nat
  /\ tickling \in 0..Callers /\ notified \in BOOLEAN
  /\ loop \in [Waiters -> {"next", "wait", "clock", "list", "away"}]
  /\ deadline \in [Waiters -> Nat] /\ now_ms \in [Waiters -> Nat]
  /\ fires \in [Timers -> 0..2] /\ cancelled \subseteq Timers

\* Timer::cancel() erases what find() returns without looking at it, so a timer
\* that has a callback must be in the set, and one in the set has a callback
\* to hand out.
CallbackIffInSet == \A t \in Timers :
  life[t] = "known" => (m_cb[t] <=> t \in m_timers)

\* The callback of a one-shot timer is handed out at most once, and never when
\* cancel() has returned true, however cancel, reset and the waiters interleave.
OneShotOnce == \A t \in Timers :
  ~m_recurring[t] => fires[t] <= 1 /\ (t \in cancelled => fires[t] = 0)

\* The first timer is not overslept by all: while nobody is about to write to the
\* pipe and nothing is in it, some waiter is awake, or wakes up in time.  One
\* waiter may oversleep: m_tickled keeps a second notification back while the
\* one who took the first is away.
OnTime == jumps > 0 \/ m_timers = {} \/ tickling > 0 \/ notified
  \/ \E w \in Waiters : \/ loop[w] # "wait" \/ deadline[w] <= clock
                        \/ \A t \in m_timers : deadline[w] <= m_next[t]

\* A callback is handed out before its time only if the clock has fallen by
\* more than an hour from the highest value it had.
NotEarly == [][
  \A w \in Waiters, t \in Timers :
    loop[w] = "list" /\ loop'[w] # "list" /\ fires'[t] # fires[t]
      => m_next[t] <= now_ms[w] \/ now_ms[w] < peak - Hour]_vars

\* A one-shot timer does not stay in the set: it is cancelled or handed out,
\* even when it is put off, and when the clock is set back while it waits.
OneShotsExpire == \A t \in Timers :
  (t \in m_timers /\ ~m_recurring[t]) ~> t \notin m_timers

=============================================================================
