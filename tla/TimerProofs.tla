---------------------------- MODULE TimerProofs ----------------------------
(***************************************************************************)
(* Proofs about sylar::TimeManager, for any timers, any workers and delays *)
(* and any bounds of clock, set-backs and callers.                         *)
(*                                                                         *)
(* The invariant has a part for each question: where a timer is in its     *)
(* life (Lives), what was handed out (Handed), how the clock and the times *)
(* read from it compare (Clocks), and who has been or will be woken for    *)
(* the timer at the front (Told, and OnTime itself).                       *)
(***************************************************************************)
EXTENDS Timer, TLAPS

USE TimerAssumption
USE DEF timeVars, objectVars, managerVars, wakeVars, waiterVars, historyVars

Flags ==
  /\ m_recurring \in [Timers -> BOOLEAN] /\ m_cb \in [Timers -> BOOLEAN]
  /\ m_tickled \in BOOLEAN /\ notified \in BOOLEAN
Numbers ==
  /\ clock \in Nat /\ peak \in Nat /\ jumps \in 0..MaxJumps
  /\ m_timers \subseteq Timers /\ cancelled \subseteq Timers
  /\ m_next \in [Timers -> Nat] /\ m_ms \in [Timers -> Nat]
  /\ m_previouseTime \in Nat /\ tickling \in 0..Callers
  /\ deadline \in [Waiters -> Nat] /\ now_ms \in [Waiters -> Nat]
  /\ fires \in [Timers -> 0..2]
Places ==
  /\ life \in [Timers -> {"unborn", "made", "known"}]
  /\ loop \in [Waiters -> {"next", "wait", "clock", "list", "away"}]

Lives == \A t \in Timers :
  /\ t \in m_timers => life[t] = "known" /\ m_cb[t]
  /\ life[t] = "known" /\ m_cb[t] => t \in m_timers
  /\ life[t] = "made" => m_cb[t]

Handed == \A t \in Timers :
  /\ life[t] # "known" => fires[t] = 0 /\ t \notin cancelled
  /\ t \in cancelled => ~m_cb[t]
  /\ ~m_recurring[t] /\ (m_cb[t] \/ t \in cancelled) => fires[t] = 0
  /\ ~m_recurring[t] => fires[t] <= 1

\* Without set-backs no timer is later than its delay from now.
Clocks ==
  /\ \A t \in Timers : life[t] # "unborn" => m_ms[t] <= m_next[t]
  /\ clock <= peak /\ m_previouseTime <= peak
  /\ \A w \in Waiters : now_ms[w] <= peak
  /\ jumps = 0 => /\ \A t \in Timers : life[t] # "unborn" => m_next[t] <= clock + m_ms[t]
                  /\ \A w \in Waiters : now_ms[w] <= clock

\* Who set m_tickled will write to the pipe, or did: then somebody took it, and
\* has not read the front since, or nobody was waiting.
Told ==
  m_tickled => tickling > 0 \/ notified \/ \E w \in Waiters : loop[w] # "wait"

IInv == /\ Flags /\ Numbers /\ Places
        /\ Lives /\ Handed /\ Clocks /\ Told /\ OnTime

LEMMA InitInv == Init => IInv
  <1> SUFFICES ASSUME Init PROVE IInv
    OBVIOUS
  <1> USE DEF Init
  <1>1. Flags /\ Places
    BY DEF Flags, Places
  <1>2. Numbers
    BY DEF Numbers
  <1>3. Lives /\ Handed /\ Clocks
    BY DEF Lives, Handed, Clocks
  <1>4. Told /\ OnTime
    BY DEF Told, OnTime
  <1>5. QED
    BY <1>1, <1>2, <1>3, <1>4 DEF IInv

\* Time passes.
LEMMA TickKeeps ==
  ASSUME IInv, Tick
  PROVE  IInv'
  <1> USE DEF Tick
  <1>1. Flags' /\ Places' /\ Lives' /\ Handed' /\ Told'
    BY DEF IInv, Flags, Places, Lives, Handed, Told
  <1>2. Numbers'
    BY DEF IInv, Numbers
  <1>3. Clocks'
    BY DEF IInv, Numbers, Clocks
  <1>4. OnTime'
    BY DEF IInv, Numbers, OnTime
  <1>5. QED
    BY <1>1, <1>2, <1>3, <1>4 DEF IInv

\* The clock is set back.
LEMMA SetBackKeeps ==
  ASSUME IInv, SetBack
  PROVE  IInv'
  <1> USE DEF SetBack
  <1>1. Flags' /\ Places' /\ Lives' /\ Handed' /\ Told'
    BY DEF IInv, Flags, Places, Lives, Handed, Told
  <1>2. Numbers'
    BY DEF IInv, Numbers
  <1>3. Clocks'
    BY DEF IInv, Numbers, Clocks
  <1>4. OnTime'
    BY DEF IInv, Numbers, OnTime
  <1>5. QED
    BY <1>1, <1>2, <1>3, <1>4 DEF IInv

\* A timer is made, with the time it will end.
LEMMA NewTimerKeeps ==
  ASSUME IInv, NEW x \in Timers, NEW ms \in Delays, NEW again \in BOOLEAN,
     NewTimer(x, ms, again)
  PROVE  IInv'
  <1> USE DEF NewTimer
  <1>1. Told'
    BY DEF IInv, Told
  <1>2. Flags'
    BY DEF IInv, Flags
  <1>3. Numbers'
    BY DEF IInv, Numbers
  <1>4. Places'
    BY DEF IInv, Places
  <1>5. Lives'
    BY DEF IInv, Flags, Numbers, Places, Lives
  <1>6. Handed'
    BY DEF IInv, Flags, Numbers, Places, Handed
  <1>7. Clocks'
    BY DEF IInv, Numbers, Places, Clocks
  <1>8. OnTime'
    BY DEF IInv, Numbers, Lives, OnTime
  <1>9. QED
    BY <1>1, <1>2, <1>3, <1>4, <1>5, <1>6, <1>7, <1>8 DEF IInv

\* It is inserted: at the front it is told of, or was.
LEMMA addTimerKeeps ==
  ASSUME IInv, NEW x \in Timers, tickling < Callers, addTimer(x)
  PROVE  IInv'
  <1> USE DEF addTimer, AtFront
  <1>1. Flags'
    BY DEF IInv, Flags
  <1>2. Numbers'
    BY DEF IInv, Numbers
  <1>3. Places'
    BY DEF IInv, Places
  <1>4. Lives'
    BY DEF IInv, Flags, Numbers, Places, Lives
  <1>5. Handed'
    BY DEF IInv, Flags, Numbers, Places, Handed
  <1>6. Clocks'
    BY DEF IInv, Numbers, Places, Clocks
  <1>7. Told'
    BY DEF IInv, Flags, Numbers, Told
  <1>8. OnTime'
    BY DEF IInv, Numbers, Told, OnTime
  <1>9. QED
    BY <1>1, <1>2, <1>3, <1>4, <1>5, <1>6, <1>7, <1>8 DEF IInv

\* cancel() takes callback and timer away.
LEMMA cancelKeeps ==
  ASSUME IInv, NEW x \in Timers, cancel(x)
  PROVE  IInv'
  <1> USE DEF cancel
  <1>1. Places' /\ Clocks' /\ Told'
    BY DEF IInv, Places, Clocks, Told
  <1>2. Flags'
    BY DEF IInv, Flags
  <1>3. Numbers'
    BY DEF IInv, Numbers
  <1>4. Lives'
    BY DEF IInv, Flags, Numbers, Places, Lives
  <1>5. Handed'
    BY DEF IInv, Flags, Numbers, Places, Handed
  <1>6. OnTime'
    BY DEF IInv, Numbers, OnTime
  <1>7. QED
    BY <1>1, <1>2, <1>3, <1>4, <1>5, <1>6 DEF IInv

\* refresh() puts the timer off, unless the clock was set back.
LEMMA refreshKeeps ==
  ASSUME IInv, NEW x \in Timers, refresh(x)
  PROVE  IInv'
  <1> USE DEF refresh
  <1>1. Flags' /\ Places' /\ Lives' /\ Handed' /\ Told'
    BY DEF IInv, Flags, Places, Lives, Handed, Told
  <1>2. Numbers'
    BY DEF IInv, Numbers
  <1>3. Clocks'
    BY DEF IInv, Numbers, Places, Clocks
  <1>4. OnTime'
    BY DEF IInv, Numbers, Clocks, Lives, OnTime
  <1>5. QED
    BY <1>1, <1>2, <1>3, <1>4 DEF IInv

\* reset() may put the timer in front.
LEMMA resetKeeps ==
  ASSUME IInv, NEW x \in Timers, NEW ms \in Delays, NEW from_now \in BOOLEAN,
     tickling < Callers, reset(x, ms, from_now)
  PROVE  IInv'
  <1> USE DEF reset, StartOf, AtFront
  <1>1. Places' /\ Lives' /\ Handed'
    BY DEF IInv, Places, Lives, Handed
  <1>2. Flags'
    BY DEF IInv, Flags
  <1>3. Numbers'
    BY DEF IInv, Numbers, Clocks
  <1>4. Clocks'
    BY DEF IInv, Numbers, Places, Clocks
  <1>5. Told'
    BY DEF IInv, Flags, Numbers, Told
  <1>6. OnTime'
    BY DEF IInv, Numbers, Told, OnTime
  <1>7. QED
    BY <1>1, <1>2, <1>3, <1>4, <1>5, <1>6 DEF IInv

\* The pipe is written to, unless all workers are away.
LEMMA tickleKeeps ==
  ASSUME IInv, tickle
  PROVE  IInv'
  <1> USE DEF tickle
  <1>1. Places' /\ Lives' /\ Handed' /\ Clocks'
    BY DEF IInv, Places, Lives, Handed, Clocks
  <1>2. Flags'
    BY DEF IInv, Flags
  <1>3. Numbers'
    BY DEF IInv, Numbers
  <1>4. Told'
    BY DEF IInv, Numbers, Told
  <1>5. OnTime'
    BY DEF IInv, Numbers, OnTime
  <1>6. QED
    BY <1>1, <1>2, <1>3, <1>4, <1>5 DEF IInv

\* A worker computes its wait from the first timer.
LEMMA getNextTimerKeeps ==
  ASSUME IInv, NEW v \in Waiters, getNextTimer(v)
  PROVE  IInv'
  <1> USE DEF getNextTimer, LoopGoto
  <1>1. Lives' /\ Handed' /\ Clocks'
    BY DEF IInv, Lives, Handed, Clocks
  <1>2. Flags'
    BY DEF IInv, Flags
  <1>3. Numbers'
    BY DEF IInv, Numbers
  <1>4. Places'
    BY DEF IInv, Places
  <1>5. Told'
    BY DEF IInv, Told
  <1>6. OnTime'
    BY DEF IInv, Numbers, Places, OnTime, Timeout, IsFirst, WaitUntil
  <1>7. QED
    BY <1>1, <1>2, <1>3, <1>4, <1>5, <1>6 DEF IInv

\* A worker wakes up, and takes what is in the pipe.
LEMMA WakesKeeps ==
  ASSUME IInv, NEW v \in Waiters, Wakes(v)
  PROVE  IInv'
  <1> USE DEF Wakes, LoopGoto
  <1>1. Lives' /\ Handed' /\ Clocks'
    BY DEF IInv, Lives, Handed, Clocks
  <1>2. Flags'
    BY DEF IInv, Flags
  <1>3. Numbers'
    BY DEF IInv, Numbers
  <1>4. Places'
    BY DEF IInv, Places
  <1>5. Told'
    BY DEF IInv, Places, Told
  <1>6. OnTime'
    BY DEF IInv, Numbers, Places, OnTime
  <1>7. QED
    BY <1>1, <1>2, <1>3, <1>4, <1>5, <1>6 DEF IInv

\* It reads the clock.
LEMMA ReadsClockKeeps ==
  ASSUME IInv, NEW v \in Waiters, ReadsClock(v)
  PROVE  IInv'
  <1> USE DEF ReadsClock, LoopGoto
  <1>1. Flags' /\ Lives' /\ Handed'
    BY DEF IInv, Flags, Lives, Handed
  <1>2. Numbers'
    BY DEF IInv, Numbers
  <1>3. Places'
    BY DEF IInv, Places
  <1>4. Clocks'
    BY DEF IInv, Numbers, Clocks
  <1>5. Told'
    BY DEF IInv, Places, Told
  <1>6. OnTime'
    BY DEF IInv, Numbers, Places, OnTime
  <1>7. QED
    BY <1>1, <1>2, <1>3, <1>4, <1>5, <1>6 DEF IInv

\* It takes the expired timers out, and puts the recurring ones back.
LEMMA listExpiredCbKeeps ==
  ASSUME IInv, NEW v \in Waiters, listExpiredCb(v)
  PROVE  IInv'
  <1> USE DEF listExpiredCb, Stays
  <1>1. Flags'
    BY DEF IInv, Flags
  <1>2. Numbers'
    BY DEF IInv, Numbers
  <1>3. Places'
    BY DEF IInv, Places
  <1>4. Lives'
    BY DEF IInv, Flags, Numbers, Places, Lives, Expired
  <1>5. Handed'
    BY DEF IInv, Flags, Numbers, Places, Lives, Handed, Expired
  <1>6. Clocks'
    BY DEF IInv, Numbers, Places, Clocks
  <1>7. Told'
    BY DEF IInv, Places, Told
  <1>8. OnTime'
    BY DEF IInv, Places, OnTime
  <1>9. QED
    BY <1>1, <1>2, <1>3, <1>4, <1>5, <1>6, <1>7, <1>8 DEF IInv

\* It comes back to idle().
LEMMA ComesBackKeeps ==
  ASSUME IInv, NEW v \in Waiters, ComesBack(v)
  PROVE  IInv'
  <1> USE DEF ComesBack, LoopGoto
  <1>1. Flags' /\ Numbers' /\ Lives' /\ Handed' /\ Clocks'
    BY DEF IInv, Flags, Numbers, Lives, Handed, Clocks
  <1>2. Places'
    BY DEF IInv, Places
  <1>3. Told'
    BY DEF IInv, Places, Told
  <1>4. OnTime'
    BY DEF IInv, Places, OnTime
  <1>5. QED
    BY <1>1, <1>2, <1>3, <1>4 DEF IInv

LEMMA NextKeeps ==
  ASSUME IInv, [Next]_vars
  PROVE  IInv'
  <1>1. CASE Tick \/ SetBack \/ tickle
    BY <1>1, TickKeeps, SetBackKeeps, tickleKeeps
  <1>2. CASE Program
    BY <1>2, NewTimerKeeps, addTimerKeeps, cancelKeeps, refreshKeeps, resetKeeps
    DEF Program
  <1>3. ASSUME NEW w \in Waiters, Waiter(w)
        PROVE  IInv'
    BY <1>3, getNextTimerKeeps, WakesKeeps, ReadsClockKeeps, listExpiredCbKeeps,
       ComesBackKeeps DEF Waiter
  <1>4. CASE UNCHANGED vars
    BY <1>4 DEF IInv, Flags, Numbers, Places, Lives, Handed, Clocks, Told, OnTime,
       vars
  <1>5. QED
    BY <1>1, <1>2, <1>3, <1>4 DEF Next

LEMMA Invariance == Spec => []IInv
  <1>1. IInv /\ [Next]_vars => IInv'
    BY NextKeeps
  <1>2. QED
    BY InitInv, <1>1, PTL DEF Spec

-----------------------------------------------------------------------------
\* Every variable has its type; in particular reset() never subtracts a delay
\* from a smaller time (timer.cpp:64-72).
THEOREM TimerTypes == Spec => []TypeOK
  <1>1. IInv => TypeOK
    BY DEF IInv, Flags, Numbers, Places, TypeOK
  <1>2. QED
    BY <1>1, Invariance, PTL

\* cancel() never erases end() (timer.cpp:29-38).
THEOREM CancelErases == Spec => []CallbackIffInSet
  <1>1. IInv => CallbackIffInSet
    BY DEF IInv, Flags, Lives, CallbackIffInSet
  <1>2. QED
    BY <1>1, Invariance, PTL

\* The callback of a one-shot timer is handed out once, and not after cancel()
\* was true (timer.cpp:118-148).
THEOREM FiresOnce == Spec => []OneShotOnce
  <1>1. IInv => OneShotOnce
    BY DEF IInv, Handed, OneShotOnce
  <1>2. QED
    BY <1>1, Invariance, PTL

\* No notification is missing when all workers wait, though m_tickled holds
\* some back (timer.cpp:103-116, 155-165).
THEOREM SomebodyWakes == Spec => []OnTime
  <1>1. IInv => OnTime
    BY DEF IInv
  <1>2. QED
    BY <1>1, Invariance, PTL

\* A timer fires early only after the clock fell by more than an hour from its
\* highest value (timer.cpp:126-137, 167-175).
THEOREM FiresInTime == Spec => NotEarly
  <1> DEFINE InTime(w, t) ==
        loop[w] = "list" /\ loop'[w] # "list" /\ fires'[t] # fires[t]
          => m_next[t] <= now_ms[w] \/ now_ms[w] < peak - Hour
  <1>1. ASSUME IInv, Next, NEW w \in Waiters, NEW t \in Timers
        PROVE  InTime(w, t)
    <2>1. CASE listExpiredCb(w)
      <3>1. fires'[t] # fires[t] => t \in Expired(now_ms[w])
        BY <2>1 DEF listExpiredCb
      <3>2. t \in Expired(now_ms[w]) =>
              m_next[t] <= now_ms[w] \/ now_ms[w] < m_previouseTime - Hour
        BY DEF Expired, detectClockRollover
      <3>3. /\ m_previouseTime \in Nat /\ peak \in Nat /\ now_ms[w] \in Nat
            /\ m_previouseTime <= peak
        BY <1>1 DEF IInv, Numbers, Clocks
      <3>4. QED
        BY <3>1, <3>2, <3>3
    <2>2. ASSUME NEW v \in Waiters, v # w, listExpiredCb(v)
          PROVE  loop'[w] = loop[w]
      BY <1>1, <2>2 DEF IInv, Places, listExpiredCb
    <2>3. CASE UNCHANGED fires
      BY <2>3
    <2>4. (\E v \in Waiters : listExpiredCb(v)) \/ UNCHANGED fires
      BY <1>1 DEF Next, Program, Waiter, Tick, SetBack, tickle, NewTimer, addTimer,
         cancel, refresh, reset, getNextTimer, Wakes, ReadsClock, ComesBack
    <2>5. QED
      BY <2>1, <2>2, <2>3, <2>4
  <1>2. IInv /\ [Next]_vars =>
          [\A w \in Waiters, t \in Timers : InTime(w, t)]_vars
    BY <1>1
  <1>3. QED
    BY <1>2, Invariance, PTL DEF Spec, NotEarly
=============================================================================
