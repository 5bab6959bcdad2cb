------------------------ MODULE SchedulerCoreProofs ------------------------
(***************************************************************************)
(* Proofs about what every scheduler shares, for any finite set of threads *)
(* and any tasks, fibers, numbers of yields and width of the counters.     *)
(*                                                                         *)
(* The invariant follows each fiber object: who has it (a worker's ft or   *)
(* cb_fiber, the queue, somebody who will schedule it), and what state it  *)
(* may be in there.  The steps are sorted by what they do to that: those   *)
(* that only move a label (QuietSteps), and one lemma for each of those    *)
(* that hand a fiber on.                                                   *)
(***************************************************************************)
EXTENDS SchedulerCore, FiniteSetTheorems, TLAPS

\* Taking element i out of a sequence moves the later ones one place forward.
LEMMA RemoveAtFacts ==
  ASSUME NEW S, NEW s \in Seq(S), NEW i \in DOMAIN s
  PROVE  /\ RemoveAt(s, i) \in Seq(S)
         /\ Len(RemoveAt(s, i)) = Len(s) - 1
         /\ \A j \in 1..(Len(s) - 1) :
              RemoveAt(s, i)[j] = IF j < i THEN s[j] ELSE s[j + 1]
  <1>1. Len(s) \in Nat /\ i \in 1..Len(s)
    OBVIOUS
  <1> DEFINE a == SubSeq(s, 1, i - 1)
  <1> DEFINE b == SubSeq(s, i + 1, Len(s))
  <1>2. a \in Seq(S) /\ Len(a) = i - 1 /\ \A j \in 1..(i - 1) : a[j] = s[j]
    BY <1>1
  <1>3. /\ b \in Seq(S) /\ Len(b) = Len(s) - i
        /\ \A j \in 1..(Len(s) - i) : b[j] = s[i + j]
    BY <1>1
  <1>4. RemoveAt(s, i) = a \o b
    BY DEF RemoveAt
  <1> HIDE DEF a, b
  <1>5. QED
    BY <1>1, <1>2, <1>3, <1>4

\* Append keeps what is there and adds one element.
LEMMA AppendFacts ==
  ASSUME NEW S, NEW s \in Seq(S), NEW e \in S
  PROVE  /\ Append(s, e) \in Seq(S)
         /\ DOMAIN Append(s, e) = DOMAIN s \cup {Len(s) + 1}
         /\ \A j \in DOMAIN s : Append(s, e)[j] = s[j]
         /\ Append(s, e)[Len(s) + 1] = e
  OBVIOUS

-----------------------------------------------------------------------------
(* The inductive invariant.                                                *)

\* The assertions inside Fiber never fail for a task's fiber.
FiberAssertions == failed \in {"none", "root never reach", "triggerEvent"}

CoreInv == TypeOK /\ Ownership /\ FiberAssertions

USE ThreadsAssumption, NamesAssumption, BoundsAssumption
USE DEF Goto, Labels, RunLabels, TaskLabels, BackLabels, HandedOut, States,
        Ended, LetsGo, fiberVars, countVars, taskVars, mainVars, workerVars

\* The steps of a task's body and of the idle fiber, and those of the owner.
BodyStep(w) == \/ TaskSchedules(w) \/ TaskWakes(w) \/ TaskArms(w) \/ TaskRequeues(w)
               \/ YieldToHold(w) \/ YieldToReady(w) \/ MainFunc(w)
               \/ Tickled(w) \/ IdleReturns(w)
CallsStop == \E canStop \in BOOLEAN : Stop(canStop)
OwnerStep == \/ OwnerSchedules \/ OwnerWakes \/ OwnerTickled \/ Start
             \/ CallsStop \/ StopTickled \/ StopRuns \/ CallerReturns \/ Join

\* A move of the label of v that no part of Ownership is sensitive to.
QuietMove(v) ==
  \/ pc'[v] = pc[v]
  \/ /\ ft[v].fiber = NoFiber
     /\ pc[v] \notin RunLabels /\ pc'[v] \notin RunLabels
  \/ /\ ft[v].fiber # NoFiber
     /\ pc[v] \in {"tickle_scan", "dispatch"} /\ pc'[v] \in {"dispatch", "incw"}
  \/ pc[v] = "incw" /\ pc'[v] = "swapin"
  \/ pc[v] = "task" /\ pc'[v] = "tickle_task"
  \/ pc[v] = "tickle_task" /\ pc'[v] = "task"
  \/ pc[v] = "tickle_park" /\ pc'[v] = "parking"
  \/ pc[v] = "parking" /\ pc'[v] = "dec"
  \/ pc[v] = "dec" /\ pc'[v] = "decw"
  \/ pc[v] = "decw" /\ pc'[v] = "after"

\* The part of Ownership that speaks of fibers.
Fibers_ == /\ QueuedOnce /\ HandsDistinct /\ WaitingIsExec /\ WaitingIsAlive
           /\ FtStates /\ CbStates /\ BodiesBound

-----------------------------------------------------------------------------
(* Types.                                                                  *)

\* What a worker has in its hands.
LEMMA HandTypes ==
  ASSUME TypeOK, NEW w \in Workers
  PROVE  /\ ft[w] \in FiberAndThread
         /\ ft[w].fiber \in Fibers \cup {NoFiber}
         /\ ft[w].cb \in Tasks \cup {NoTask}
         /\ cb_fiber[w] \in Fibers \cup {NoFiber}
  <1>1. ft[w] \in FiberAndThread /\ cb_fiber[w] \in Fibers \cup {NoFiber}
    BY DEF TypeOK
  <1>2. QED
    BY <1>1 DEF FiberAndThread

\* The fiber and the task that a worker at a task label works for.
LEMMA CurFacts ==
  ASSUME CoreInv, NEW w \in Workers, pc[w] \in RunLabels
  PROVE  /\ Cur(w) \in Fibers
         /\ pc[w] \in TaskLabels => /\ TaskOf(w) \in Tasks
                                    /\ m_state[Cur(w)] = "EXEC"
  <1>1. Cur(w) \in Fibers
    BY HandTypes DEF CoreInv, Ownership, CbStates, Cur
  <1>2. ASSUME pc[w] \in TaskLabels
        PROVE  m_state[Cur(w)] = "EXEC"
    BY <1>2 DEF CoreInv, Ownership, CbStates, FtStates, Cur
  <1>3. ASSUME pc[w] \in TaskLabels
        PROVE  TaskOf(w) \in Tasks
    <2>1. m_cb[Cur(w)] # NoTask
      BY <1>1, <1>2, <1>3 DEF CoreInv, Ownership, BodiesBound
    <2>2. QED
      BY <1>1, <2>1 DEF TaskOf, CoreInv, TypeOK
  <1>4. QED
    BY <1>1, <1>2, <1>3

\* The entries that schedule() and run() build.
LEMMA EntryTypes ==
  /\ \A f \in Fibers : FiberEntry(f) \in FiberAndThread
  /\ \A t \in Tasks, p \in Pins : TaskEntry(t, p) \in FiberAndThread
  /\ Nothing \in FiberAndThread
  BY DEF FiberEntry, TaskEntry, Nothing, FiberAndThread

\* The counters wrap around inside their type.
LEMMA StoredCount ==
  ASSUME TypeOK, NEW w \in Workers, NEW delta \in Int
  PROVE  (reg[w] + delta) % CountMod \in 0..(CountMod - 1)
  <1>1. \A n \in Nat \ {0}, x \in Int : x % n \in 0..(n - 1)
    OBVIOUS
  <1>2. reg[w] + delta \in Int
    <2>1. reg[w] \in 0..(CountMod - 1)
      BY DEF TypeOK
    <2>2. QED
      BY <2>1
  <1>3. QED
    BY <1>1, <1>2

\* An entry of the queue.
LEMMA QueueTypes ==
  ASSUME TypeOK, NEW i \in DOMAIN m_fibers
  PROVE  /\ m_fibers[i] \in FiberAndThread
         /\ m_fibers[i].fiber \in Fibers \cup {NoFiber}
         /\ m_fibers[i].thread \in Workers \cup {AnyThread}
  <1>1. m_fibers \in Seq(FiberAndThread)
    BY DEF TypeOK
  <1>2. m_fibers[i] \in FiberAndThread
    BY <1>1
  <1>3. QED
    BY <1>2 DEF FiberAndThread

\* A step of run() keeps the types.
LEMMA RunTypes ==
  ASSUME CoreInv, NEW w \in Workers, RunStep(w)
  PROVE  TypeOK'
  <1>0. /\ \A delta \in {1, -1} :
             (reg[w] + delta) % CountMod \in 0..(CountMod - 1)
        /\ 0 \in 0..(CountMod - 1)
    BY StoredCount DEF CoreInv
  <1> USE DEF CoreInv, TypeOK
  <1>1. CASE Scan(w) /\ ScanTakes(w)
    <2>1. PICK i \in DOMAIN m_fibers :
            /\ ft' = [ft EXCEPT ![w] = m_fibers[i]]
            /\ m_fibers' = RemoveAt(m_fibers, i)
            /\ Goto(w, "scan", AfterScan(w, i))
      BY <1>1 DEF ScanTakes
    <2>2. m_fibers' \in Seq(FiberAndThread)
      BY <2>1, RemoveAtFacts
    <2>3. m_fibers[i] \in FiberAndThread
      BY QueueTypes
    <2>4. QED
      BY <1>1, <2>1, <2>2, <2>3 DEF Scan, AfterScan
  <1>2. CASE Scan(w) /\ ScanFindsNothing(w)
    BY <1>2 DEF Scan, ScanFindsNothing, AfterScan
  <1>3. CASE DispatchFiber(w)
    BY <1>3 DEF DispatchFiber, LoadActive
  <1>4. CASE DispatchCb(w)
    <2>1. ft[w].cb \in Tasks \cup {NoTask}
      BY HandTypes
    <2>2. PICK f \in Fibers :
            /\ Check(m_state[f] \in Ended \cup {"INIT"}, "reset")
            /\ m_cb' = [m_cb EXCEPT ![f] = ft[w].cb]
            /\ m_state' = [m_state EXCEPT ![f] = "INIT"]
            /\ cb_fiber' = [cb_fiber EXCEPT ![w] = f]
      BY <1>4 DEF DispatchCb
    <2>3. /\ m_state' \in [Fibers -> States]
          /\ m_cb' \in [Fibers -> Tasks \cup {NoTask}]
          /\ cb_fiber' \in [Workers -> Fibers \cup {NoFiber}]
      BY <2>1, <2>2
    <2>4. failed' \in {failed, "reset"}
      BY <2>2 DEF Check
    <2>5. /\ ft' \in [Workers -> FiberAndThread]
          /\ reg' \in [Workers -> 0..(CountMod - 1)]
          /\ pc' \in [Workers -> Labels]
      BY <1>4, EntryTypes DEF DispatchCb, LoadActive
    <2>6. QED
      BY <1>4, <2>3, <2>4, <2>5 DEF DispatchCb
  <1>5. CASE DispatchIdle(w)
    BY <1>5 DEF DispatchIdle, LoadIdle
  <1>6. CASE Exit(w)
    BY <1>6 DEF Exit
  <1>7. CASE CountTask(w)
    BY <1>0, <1>7 DEF CountTask, StoreActive
  <1>8. CASE SwapIn(w)
    BY <1>8 DEF SwapIn, SwapInFails
  <1>9. CASE SwappedBack(w)
    BY <1>9 DEF SwappedBack, LoadActive
  <1>10. CASE UncountTask(w)
    BY <1>0, <1>10 DEF UncountTask, StoreActive
  <1>11. CASE AfterFiber(w)
    BY EntryTypes, <1>11 DEF AfterFiber
  <1>12. CASE CbReady(w)
    <2>1. cb_fiber[w] \in Fibers
      BY <1>12, CurFacts DEF CbReady, AfterCb, Cur
    <2>2. m_fibers' \in Seq(FiberAndThread)
      BY <1>12, <2>1, EntryTypes, AppendFacts DEF CbReady, Push
    <2>3. QED
      BY <1>12, <2>2 DEF CbReady
  <1>13. CASE CbEnded(w)
    BY <1>13 DEF CbEnded, AfterCb
  <1>14. CASE CbHeld(w)
    BY <1>14 DEF CbHeld, AfterCb
  <1>15. CASE IdleSwapIn(w)
    BY <1>0, <1>15 DEF IdleSwapIn, StoreIdle, Check
  <1>16. CASE IdleSwappedBack(w)
    BY <1>16 DEF IdleSwappedBack, LoadIdle
  <1>17. CASE AfterIdle(w)
    BY <1>0, <1>17 DEF AfterIdle, StoreIdle
  <1>18. QED
    BY <1>1, <1>2, <1>3, <1>4, <1>5, <1>6, <1>7, <1>8, <1>9, <1>10, <1>11,
       <1>12, <1>13, <1>14, <1>15, <1>16, <1>17 DEF RunStep, Scan

\* So does the critical section of schedule().
LEMMA CalledTypes ==
  ASSUME CoreInv, ScheduleTask \/ ScheduleArmed
  PROVE  /\ m_fibers' \in Seq(FiberAndThread)
         /\ armed' \subseteq Fibers /\ fresh' \subseteq Tasks
         /\ UNCHANGED <<done, yields>>
  <1> USE DEF CoreInv, TypeOK
  <1>1. CASE ScheduleTask
    <2>1. PICK t \in fresh, pin \in Pins :
            /\ m_fibers' = Append(m_fibers, TaskEntry(t, pin))
            /\ fresh' = fresh \ {t}
            /\ UNCHANGED <<armed, done, yields>>
      BY <1>1 DEF ScheduleTask, Push
    <2>2. TaskEntry(t, pin) \in FiberAndThread
      BY EntryTypes
    <2>3. QED
      BY <2>1, <2>2, AppendFacts
  <1>2. CASE ScheduleArmed
    <2>1. PICK f \in armed : /\ m_fibers' = Append(m_fibers, FiberEntry(f))
                             /\ armed' = armed \ {f}
                             /\ UNCHANGED <<fresh, done, yields>>
      BY <1>2 DEF ScheduleArmed, Push
    <2>2. FiberEntry(f) \in FiberAndThread
      BY EntryTypes
    <2>3. QED
      BY <2>1, <2>2, AppendFacts
  <1>3. QED
    BY <1>1, <1>2

\* A task yields MaxYields times at most.
LEMMA YieldTypes ==
  ASSUME CoreInv, NEW w \in Workers, pc[w] = "task", MayYield(w), Yielding(w)
  PROVE  yields' \in [Tasks -> 0..MaxYields]
  <1>1. TaskOf(w) \in Tasks
    BY CurFacts
  <1>2. yields \in [Tasks -> 0..MaxYields] /\ yields[TaskOf(w)] < MaxYields
    BY DEF CoreInv, TypeOK, MayYield
  <1>3. yields[TaskOf(w)] + 1 \in 0..MaxYields
    BY <1>1, <1>2
  <1>4. QED
    BY <1>2, <1>3 DEF Yielding

\* What the return of tickle() does to the label.
LEMMA TickledMoves ==
  ASSUME NEW w \in Workers, Tickled(w)
  PROVE  \/ Goto(w, "tickle_scan", "dispatch")
         \/ Goto(w, "tickle_task", "task")
         \/ Goto(w, "tickle_park", "parking")
         \/ Goto(w, "tickle_after", "scan")
  <1>1. PICK l \in {"tickle_scan", "tickle_task", "tickle_park",
                    "tickle_after"} : Goto(w, l, TickleLabel[l])
    BY DEF Tickled, TickleLabel
  <1>2. /\ TickleLabel["tickle_scan"] = "dispatch"
        /\ TickleLabel["tickle_task"] = "task"
        /\ TickleLabel["tickle_park"] = "parking"
        /\ TickleLabel["tickle_after"] = "scan"
    BY DEF TickleLabel
  <1>3. QED
    BY <1>1, <1>2

\* A step of a task body keeps the types.
LEMMA BodyTypes ==
  ASSUME CoreInv, NEW w \in Workers, BodyStep(w)
  PROVE  TypeOK'
  <1> USE DEF CoreInv, TypeOK
  <1>1. CASE TaskSchedules(w) \/ TaskWakes(w)
    BY <1>1, CalledTypes DEF TaskSchedules, TaskWakes, TaskCallsSchedule
  <1>2. CASE TaskArms(w)
    BY <1>2, CurFacts, YieldTypes DEF TaskArms
  <1>3. CASE TaskRequeues(w)
    <2>1. m_fibers' \in Seq(FiberAndThread)
      BY <1>3, CurFacts, EntryTypes, AppendFacts DEF TaskRequeues, Push
    <2>2. yields' \in [Tasks -> 0..MaxYields]
      BY <1>3, YieldTypes DEF TaskRequeues
    <2>3. QED
      BY <1>3, <2>1, <2>2 DEF TaskRequeues
  <1>4. CASE YieldToHold(w)
    BY <1>4 DEF YieldToHold, Check
  <1>5. CASE YieldToReady(w)
    BY <1>5, YieldTypes DEF YieldToReady
  <1>6. CASE MainFunc(w)
    BY <1>6, CurFacts DEF MainFunc
  <1>7. CASE Tickled(w)
    <2>1. pc' \in [Workers -> Labels]
      BY <1>7, TickledMoves
    <2>2. QED
      BY <1>7, <2>1 DEF Tickled
  <1>8. CASE IdleReturns(w)
    BY <1>8 DEF IdleReturns
  <1>9. QED
    BY <1>1, <1>2, <1>3, <1>4, <1>5, <1>6, <1>7, <1>8 DEF BodyStep

\* Counting down and up inside the bounds.
LEMMA Arithmetic ==
  /\ \A n \in Nat : n > 0 => n - 1 \in Nat
  /\ \A n \in 0..MaxStops : n < MaxStops => n + 1 \in 0..MaxStops
  OBVIOUS

\* Where the owning thread goes on after tickle().
LEMMA OwnerLabels ==
  /\ DOMAIN OwnerLabel = {"created_tickle", "started_tickle"}
  /\ OwnerLabel["created_tickle"] = "created"
  /\ OwnerLabel["started_tickle"] = "started"
  BY DEF OwnerLabel

\* A step of the owning thread keeps the types.
LEMMA OwnerTypes ==
  ASSUME CoreInv, OwnerStep
  PROVE  TypeOK'
  <1> USE DEF CoreInv, TypeOK
  <1>1. CASE OwnerSchedules \/ OwnerWakes
    BY <1>1, CalledTypes DEF OwnerSchedules, OwnerWakes, OwnerCallsSchedule
  <1>2. CASE OwnerTickled
    <2>1. main' \in {"created", "started"}
      BY <1>2, OwnerLabels DEF OwnerTickled
    <2>2. QED
      BY <1>2, <2>1 DEF OwnerTickled
  <1>3. CASE Start
    BY <1>3 DEF Start
  <1>4. CASE CallsStop
    <2>1. tickles' \in {tickles, Cardinality(Workers)}
      BY <1>4 DEF CallsStop, Stop
    <2>2. Cardinality(Workers) \in Nat
      BY FS_CardinalityType
    <2>3. stops < MaxStops /\ stops' = stops + 1
      BY <1>4 DEF CallsStop, Stop
    <2>4. stops \in 0..MaxStops
      OBVIOUS
    <2>5. stops' \in 0..MaxStops
      BY <2>3, <2>4, Arithmetic
    <2>6. main' \in {"stopped", "stop_tickle"} /\ m_autostop' = TRUE
      BY <1>4 DEF CallsStop, Stop
    <2>7. UNCHANGED <<m_fibers, fiberVars, workerVars, countVars, taskVars,
                      failed>>
      BY <1>4 DEF CallsStop, Stop
    <2>8. QED
      BY <2>1, <2>2, <2>5, <2>6, <2>7
  <1>5. CASE StopTickled
    <2>1. tickles \in Nat /\ tickles > 0 /\ tickles' = tickles - 1
      BY <1>5 DEF StopTickled
    <2>2. tickles' \in Nat
      BY <2>1, Arithmetic
    <2>3. QED
      BY <1>5, <2>2 DEF StopTickled
  <1>6. CASE StopRuns
    BY <1>6 DEF StopRuns, Check
  <1>7. CASE CallerReturns \/ Join
    BY <1>7 DEF CallerReturns, Join
  <1>8. QED
    BY <1>1, <1>2, <1>3, <1>4, <1>5, <1>6, <1>7 DEF OwnerStep

-----------------------------------------------------------------------------
(* The queue.                                                              *)

\* A worker takes entry i off the queue.
LEMMA PopFacts ==
  ASSUME TypeOK, QueuedOnce, NEW i \in DOMAIN m_fibers,
         m_fibers' = RemoveAt(m_fibers, i), UNCHANGED armed
  PROVE  /\ QueuedOnce'
         /\ \A f \in Fibers : Waiting(f)' => Waiting(f) /\ m_fibers[i].fiber # f
  <1> DEFINE old(k) == IF k < i THEN k ELSE k + 1
  <1>1. m_fibers \in Seq(FiberAndThread)
    BY DEF TypeOK
  <1>2. /\ DOMAIN m_fibers = 1..Len(m_fibers) /\ Len(m_fibers) \in Nat
        /\ DOMAIN m_fibers' = 1..(Len(m_fibers) - 1)
        /\ \A k \in DOMAIN m_fibers' : m_fibers'[k] = m_fibers[old(k)]
    <2>1. /\ m_fibers' \in Seq(FiberAndThread)
          /\ Len(m_fibers') = Len(m_fibers) - 1
          /\ \A k \in 1..(Len(m_fibers) - 1) : m_fibers'[k] = m_fibers[old(k)]
      BY <1>1, RemoveAtFacts
    <2>2. DOMAIN m_fibers' = 1..(Len(m_fibers) - 1)
      BY <2>1
    <2>3. QED
      BY <1>1, <2>1, <2>2
  <1>3. \A k \in DOMAIN m_fibers' : old(k) \in DOMAIN m_fibers /\ old(k) # i
    BY <1>2
  <1>4. \A j, k \in DOMAIN m_fibers' : old(j) = old(k) => j = k
    BY <1>2
  <1> HIDE DEF old
  <1>5. QueuedOnce'
    BY <1>2, <1>3, <1>4 DEF QueuedOnce
  <1>6. ASSUME NEW f \in Fibers, Waiting(f)'
        PROVE  Waiting(f) /\ m_fibers[i].fiber # f
    <2>1. CASE f \in armed
      BY <2>1 DEF QueuedOnce, Waiting
    <2>2. CASE Queued(f)'
      <3>1. PICK k \in DOMAIN m_fibers' : m_fibers'[k].fiber = f
        BY <2>2 DEF Queued
      <3>2. m_fibers[old(k)].fiber = f
        BY <3>1, <1>2
      <3>3. m_fibers[i].fiber # f
        BY <3>2, <1>3 DEF QueuedOnce
      <3>4. QED
        BY <3>2, <3>3, <1>3 DEF Waiting, Queued
    <2>3. QED
      BY <1>6, <2>1, <2>2 DEF Waiting
  <1>7. QED
    BY <1>5, <1>6

\* An entry is queued that was not waiting elsewhere.
LEMMA PushFacts ==
  ASSUME TypeOK, QueuedOnce, NEW e \in FiberAndThread,
         m_fibers' = Append(m_fibers, e), armed' \subseteq armed,
         ~Queued(e.fiber) \/ e.fiber = NoFiber, e.fiber \notin armed'
  PROVE  /\ QueuedOnce'
         /\ \A f \in Fibers : Waiting(f)' => Waiting(f) \/ f = e.fiber
  <1> DEFINE n == Len(m_fibers) + 1
  <1>1. m_fibers \in Seq(FiberAndThread) /\ armed \subseteq Fibers
    BY DEF TypeOK
  <1>2. /\ DOMAIN m_fibers' = DOMAIN m_fibers \cup {n}
        /\ \A k \in DOMAIN m_fibers : m_fibers'[k] = m_fibers[k]
        /\ m_fibers'[n] = e
    BY <1>1, AppendFacts
  <1> HIDE DEF n
  <1>3. QueuedOnce'
    BY <1>1, <1>2 DEF QueuedOnce, Queued
  <1>4. \A f \in Fibers : Queued(f)' => Queued(f) \/ f = e.fiber
    BY <1>2 DEF Queued
  <1>5. QED
    BY <1>3, <1>4 DEF Waiting

-----------------------------------------------------------------------------
(* The steps that move fibers.                                             *)

\* Steps that change no fiber and nothing in a worker's hands, and make no
\* fiber wait that did not wait before.
LEMMA QuietSteps ==
  ASSUME CoreInv, UNCHANGED <<m_state, m_cb, ft, cb_fiber>>,
         QueuedOnce', \A f \in Fibers : Waiting(f)' => Waiting(f),
         \A v \in Workers : QuietMove(v)
  PROVE  Fibers_'
  <1> USE DEF CoreInv, Ownership
  <1>0. \A v \in Workers : /\ ft[v].fiber \in Fibers \cup {NoFiber}
                           /\ cb_fiber[v] \in Fibers \cup {NoFiber}
    BY HandTypes
  <1>1. HandsDistinct' /\ WaitingIsAlive'
    BY DEF HandsDistinct, WaitingIsAlive
  <1>2. WaitingIsExec'
    BY <1>0 DEF WaitingIsExec, QuietMove
  <1>3. FtStates'
    BY DEF FtStates, QuietMove
  <1>4. CbStates'
    BY DEF CbStates, QuietMove
  <1>5. BodiesBound'
    <2>1. SUFFICES ASSUME NEW w \in Workers, pc'[w] \in {"incw", "swapin"}
                   PROVE  m_cb[Cur(w)] # NoTask
      BY DEF BodiesBound, Cur
    <2>2. CASE pc[w] \in {"incw", "swapin"}
      BY <2>2 DEF BodiesBound
    <2>3. CASE ft[w].fiber # NoFiber /\ pc[w] \in {"tickle_scan", "dispatch"}
      <3>1. ft[w].fiber \in Fibers
        BY <2>3, <1>0
      <3>2. QED
        BY <2>3, <3>1 DEF BodiesBound, FtStates, Cur
    <2>4. QED
      BY <2>1, <2>2, <2>3 DEF QuietMove
  <1>6. QED
    BY <1>1, <1>2, <1>3, <1>4, <1>5 DEF Fibers_

\* The scan hands an entry to w: a waiting fiber that does not run.
LEMMA ScanTakesFibers ==
  ASSUME CoreInv, NEW w \in Workers, ScanTakes(w),
         UNCHANGED <<armed, m_state, m_cb, cb_fiber>>
  PROVE  Fibers_'
  <1> USE DEF CoreInv, Ownership
  <1>1. PICK i \in DOMAIN m_fibers :
          /\ Eligible(w, m_fibers[i])
          /\ ft' = [ft EXCEPT ![w] = m_fibers[i]]
          /\ m_fibers' = RemoveAt(m_fibers, i)
          /\ Goto(w, "scan", AfterScan(w, i))
    BY DEF ScanTakes
  <1>e. PICK e \in Fibers \cup {NoFiber} : e = m_fibers[i].fiber
    BY QueueTypes
  <1>2. e # NoFiber => Waiting(e) /\ m_state[e] \in {"HOLD", "READY"}
    BY <1>1, <1>e DEF Eligible, Waiting, Queued, WaitingIsAlive
  <1>3. QueuedOnce' /\ \A f \in Fibers : Waiting(f)' => Waiting(f) /\ e # f
    BY <1>1, <1>e, PopFacts
  <1>4. \A v \in Workers : ft'[v].fiber = IF v = w THEN e ELSE ft[v].fiber
    BY <1>1, <1>e DEF TypeOK
  <1>5. /\ pc[w] = "scan" /\ pc'[w] \in {"tickle_scan", "dispatch"}
        /\ \A v \in Workers \ {w} : pc'[v] = pc[v]
    BY <1>1 DEF TypeOK, AfterScan
  <1>6. ft[w].fiber = NoFiber
    BY <1>5 DEF FtStates
  <1>7. \A v \in Workers : /\ ft[v].fiber \in Fibers \cup {NoFiber}
                           /\ cb_fiber[v] \in Fibers \cup {NoFiber}
    BY HandTypes
  <1>8. e # NoFiber => \A v \in Workers : ft[v].fiber # e /\ cb_fiber[v] # e
    BY <1>2, <1>7 DEF WaitingIsExec
  <1>9. HandsDistinct'
    BY <1>4, <1>8, <1>6 DEF HandsDistinct
  <1>10. WaitingIsExec'
    <2>1. SUFFICES ASSUME NEW v \in Workers
                   PROVE  WaitingIsExec!(v)'
      BY DEF WaitingIsExec
    <2>2. CASE v = w
      <3>1. e # NoFiber => ~Waiting(e)'
        BY <1>3
      <3>2. cb_fiber[w] # NoFiber => ~Waiting(cb_fiber[w])'
        BY <1>3, <1>5, <1>7 DEF WaitingIsExec
      <3>3. QED
        BY <1>4, <2>2, <3>1, <3>2
    <2>3. CASE v # w
      BY <1>3, <1>4, <1>5, <1>7, <2>3 DEF WaitingIsExec
    <2>4. QED
      BY <2>2, <2>3
  <1>11. WaitingIsAlive'
    BY <1>3 DEF WaitingIsAlive
  <1>12. FtStates'
    BY <1>2, <1>4, <1>5 DEF FtStates
  <1>13. CbStates'
    BY <1>4, <1>5 DEF CbStates
  <1>14. BodiesBound'
    BY <1>4, <1>5 DEF BodiesBound, Cur
  <1>15. QED
    BY <1>3, <1>9, <1>10, <1>11, <1>12, <1>13, <1>14 DEF Fibers_

\* Only w has its current fiber in its hands, and has it once.
LEMMA HandOfCur ==
  ASSUME CoreInv, NEW w \in Workers, NEW f \in Fibers, f = Cur(w)
  PROVE  /\ \A v \in Workers \ {w} : ft[v].fiber # f /\ cb_fiber[v] # f
         /\ \/ ft[w].fiber = f /\ cb_fiber[w] # f
            \/ ft[w].fiber = NoFiber /\ cb_fiber[w] = f
  <1> USE DEF CoreInv, Ownership
  <1>1. \A v \in Workers : /\ ft[v].fiber \in Fibers \cup {NoFiber}
                           /\ cb_fiber[v] \in Fibers \cup {NoFiber}
    BY HandTypes
  <1>2. CASE ft[w].fiber # NoFiber
    <2>1. f = ft[w].fiber
      BY <1>2 DEF Cur
    <2>2. \A v \in Workers : cb_fiber[v] # f
      BY <1>2, <2>1 DEF HandsDistinct
    <2>3. \A v \in Workers \ {w} : ft[v].fiber # f
      BY <1>2, <2>1 DEF HandsDistinct
    <2>4. ft[w].fiber = f /\ cb_fiber[w] # f
      BY <2>1, <2>2
    <2>5. QED
      BY <2>2, <2>3, <2>4
  <1>3. CASE ft[w].fiber = NoFiber
    <2>1. f = cb_fiber[w] /\ f # NoFiber
      BY <1>3 DEF Cur
    <2>2. QED
      BY <1>1, <1>3, <2>1 DEF HandsDistinct
  <1>4. QED
    BY <1>2, <1>3

\* The turn of a fiber begins, or ends with a new state.
TurnBegins(w, s) == pc[w] = "swapin" /\ pc'[w] = "task" /\ s = "EXEC"
TurnEnds(w, s) == /\ pc[w] = "task" /\ pc'[w] = "dec"
                  /\ s \in {"READY", "TERM", "EXCEPT"}

LEMMA TurnFibers ==
  ASSUME CoreInv, NEW w \in Workers, NEW s \in States,
         TurnBegins(w, s) \/ TurnEnds(w, s),
         \A v \in Workers \ {w} : pc'[v] = pc[v],
         UNCHANGED <<m_fibers, armed, ft, cb_fiber>>,
         m_state' = [m_state EXCEPT ![Cur(w)] = s],
         \/ m_cb' = m_cb
         \/ s \in Ended /\ m_cb' = [m_cb EXCEPT ![Cur(w)] = NoTask]
  PROVE  Fibers_'
  <1> USE DEF CoreInv, Ownership
  <1>1. PICK f \in Fibers : f = Cur(w)
    BY CurFacts DEF TurnBegins, TurnEnds
  <1>2. \A v \in Workers : /\ ft[v].fiber \in Fibers \cup {NoFiber}
                           /\ cb_fiber[v] \in Fibers \cup {NoFiber}
    BY HandTypes
  <1>3. \A g \in Fibers : /\ m_state'[g] = IF g = f THEN s ELSE m_state[g]
                          /\ m_cb'[g] = m_cb[g] \/ (g = f /\ s \in Ended)
    BY <1>1 DEF TypeOK
  <1>4. /\ ~Waiting(f)
        /\ m_cb[f] # NoTask
    <2>1. CASE TurnBegins(w, s)
      BY <1>1, <1>2, <2>1 DEF TurnBegins, WaitingIsExec, Cur, BodiesBound
    <2>2. CASE TurnEnds(w, s)
      <3>1. ~Waiting(f)
        BY <1>1, <1>2, <2>2 DEF TurnEnds, WaitingIsExec, Cur
      <3>2. m_state[f] = "EXEC"
        BY <1>1, <2>2, CurFacts DEF TurnEnds
      <3>3. QED
        BY <3>1, <3>2 DEF BodiesBound
    <2>3. QED
      BY <2>1, <2>2
  <1>5. /\ \A v \in Workers \ {w} : ft[v].fiber # f /\ cb_fiber[v] # f
        /\ \/ ft[w].fiber = f /\ cb_fiber[w] # f
           \/ ft[w].fiber = NoFiber /\ cb_fiber[w] = f
    BY <1>1, HandOfCur
  <1>6. \A g \in Fibers : Waiting(g)' <=> Waiting(g)
    BY DEF Waiting, Queued
  <1>7. QueuedOnce' /\ HandsDistinct'
    BY DEF QueuedOnce, HandsDistinct
  <1>8. WaitingIsExec'
    BY <1>2, <1>3, <1>4, <1>5, <1>6 DEF WaitingIsExec
  <1>9. WaitingIsAlive'
    BY <1>3, <1>4, <1>6 DEF WaitingIsAlive
  <1>10. FtStates'
    BY <1>2, <1>3, <1>5 DEF FtStates, TurnBegins, TurnEnds
  <1>11. CbStates'
    BY <1>2, <1>3, <1>5 DEF CbStates, TurnBegins, TurnEnds
  <1>12. BodiesBound'
    <2>1. \A g \in Fibers : m_state'[g] \in {"EXEC", "HOLD", "READY"} =>
                              m_cb'[g] # NoTask
      BY <1>3, <1>4 DEF BodiesBound
    <2>2. ASSUME NEW v \in Workers, pc'[v] \in {"incw", "swapin"}
          PROVE  m_cb'[Cur(v)] # NoTask
      <3>1. v # w /\ pc[v] = pc'[v]
        BY <2>2 DEF TurnBegins, TurnEnds
      <3>2. Cur(v) \in Fibers \ {f}
        BY <1>2, <1>5, <2>2, <3>1, CurFacts DEF Cur
      <3>3. QED
        BY <1>3, <2>2, <3>1, <3>2 DEF BodiesBound
    <2>3. Cur(w)' = Cur(w) /\ \A v \in Workers : Cur(v)' = Cur(v)
      BY DEF Cur
    <2>4. QED
      BY <2>1, <2>2, <2>3 DEF BodiesBound
  <1>13. QED
    BY <1>7, <1>8, <1>9, <1>10, <1>11, <1>12 DEF Fibers_

\* A running task gives its own fiber away: somebody may now schedule it.
LEMMA HandOutFibers ==
  ASSUME CoreInv, NEW w \in Workers,
         pc[w] = "task", pc'[w] \in {"parking", "tickle_park"},
         \A v \in Workers \ {w} : pc'[v] = pc[v],
         UNCHANGED <<m_state, m_cb, ft, cb_fiber>>,
         QueuedOnce',
         \A f \in Fibers : Waiting(f)' => Waiting(f) \/ f = Cur(w)
  PROVE  Fibers_'
  <1> USE DEF CoreInv, Ownership
  <1>1. PICK f \in Fibers : f = Cur(w)
    BY CurFacts
  <1>2. \A v \in Workers : /\ ft[v].fiber \in Fibers \cup {NoFiber}
                           /\ cb_fiber[v] \in Fibers \cup {NoFiber}
    BY HandTypes
  <1>3. m_state[f] = "EXEC"
    BY <1>1, CurFacts
  <1>4. /\ \A v \in Workers \ {w} : ft[v].fiber # f /\ cb_fiber[v] # f
        /\ \/ ft[w].fiber = f /\ cb_fiber[w] # f
           \/ ft[w].fiber = NoFiber /\ cb_fiber[w] = f
    BY <1>1, HandOfCur
  <1>5. HandsDistinct'
    BY DEF HandsDistinct
  <1>6. WaitingIsExec'
    BY <1>1, <1>2, <1>3, <1>4 DEF WaitingIsExec
  <1>7. WaitingIsAlive'
    BY <1>1, <1>3 DEF WaitingIsAlive
  <1>8. FtStates'
    BY DEF FtStates
  <1>9. CbStates'
    BY DEF CbStates
  <1>10. BodiesBound'
    BY DEF BodiesBound, Cur
  <1>11. QED
    BY <1>5, <1>6, <1>7, <1>8, <1>9, <1>10 DEF Fibers_

\* schedule() moves a fiber from its waker to the queue, or queues a function.
LEMMA ScheduleFibers ==
  ASSUME CoreInv, ScheduleTask \/ ScheduleArmed
  PROVE  QueuedOnce' /\ \A f \in Fibers : Waiting(f)' => Waiting(f)
  <1> USE DEF CoreInv, Ownership
  <1>1. armed \subseteq Fibers
    BY DEF TypeOK
  <1>2. CASE ScheduleTask
    <2>1. PICK t \in fresh, pin \in Pins :
            m_fibers' = Append(m_fibers, TaskEntry(t, pin))
      BY <1>2 DEF ScheduleTask, Push
    <2>2. TaskEntry(t, pin) \in FiberAndThread
      BY EntryTypes DEF TypeOK
    <2>3. TaskEntry(t, pin).fiber = NoFiber
      BY DEF TaskEntry
    <2>4. armed' = armed
      BY <1>2 DEF ScheduleTask
    <2>5. QED
      BY <1>1, <2>1, <2>2, <2>3, <2>4, PushFacts
  <1>3. CASE ScheduleArmed
    <2>1. PICK f \in armed : /\ m_fibers' = Append(m_fibers, FiberEntry(f))
                             /\ armed' = armed \ {f}
      BY <1>3 DEF ScheduleArmed, Push
    <2>2. FiberEntry(f) \in FiberAndThread /\ FiberEntry(f).fiber = f
      BY <1>1, EntryTypes DEF FiberEntry
    <2>3. ~Queued(f)
      BY DEF QueuedOnce, Queued
    <2>4. \A g \in Fibers : Waiting(g)' => Waiting(g) \/ g = f
      BY <2>1, <2>2, <2>3, PushFacts
    <2>5. QED
      BY <1>1, <2>1, <2>2, <2>3, <2>4, PushFacts DEF Waiting
  <1>4. QED
    BY <1>2, <1>3

\* A function gets its fiber: the worker's own old one, or a free one.
LEMMA DispatchCbFibers ==
  ASSUME CoreInv, NEW w \in Workers, DispatchCb(w)
  PROVE  Fibers_' /\ failed' = failed
  <1> USE DEF CoreInv, Ownership
  <1>1. PICK f \in Fibers :
          /\ IF cb_fiber[w] # NoFiber THEN f = cb_fiber[w] ELSE Free(f)
          /\ Check(m_state[f] \in Ended \cup {"INIT"}, "reset")
          /\ m_cb' = [m_cb EXCEPT ![f] = ft[w].cb]
          /\ m_state' = [m_state EXCEPT ![f] = "INIT"]
          /\ cb_fiber' = [cb_fiber EXCEPT ![w] = f]
    BY DEF DispatchCb
  <1>2. /\ pc[w] = "dispatch" /\ pc'[w] = "incw"
        /\ \A v \in Workers \ {w} : pc'[v] = pc[v]
        /\ UNCHANGED <<m_fibers, armed>>
        /\ ft[w].fiber = NoFiber /\ ft[w].cb # NoTask
    BY DEF DispatchCb, TypeOK
  <1>3. \A v \in Workers : ft'[v].fiber = ft[v].fiber
    BY <1>2 DEF DispatchCb, Nothing, TypeOK
  <1>4. \A v \in Workers : /\ ft[v].fiber \in Fibers \cup {NoFiber}
                           /\ cb_fiber[v] \in Fibers \cup {NoFiber}
    BY HandTypes
  <1>5. /\ \A v \in Workers : cb_fiber'[v] = IF v = w THEN f ELSE cb_fiber[v]
        /\ \A g \in Fibers :
             /\ m_state'[g] = IF g = f THEN "INIT" ELSE m_state[g]
             /\ m_cb'[g] = IF g = f THEN ft[w].cb ELSE m_cb[g]
    BY <1>1 DEF TypeOK
  <1>6. /\ m_state[f] \in Ended \cup {"INIT"}
        /\ ~Waiting(f)
        /\ \A v \in Workers : ft[v].fiber # f
        /\ \A v \in Workers \ {w} : cb_fiber[v] # f
    <2>1. CASE cb_fiber[w] # NoFiber
      <3>1. f = cb_fiber[w]
        BY <1>1, <2>1
      <3>2. m_state[f] = "INIT"
        BY <1>2, <2>1, <3>1 DEF CbStates
      <3>3. ~Waiting(f)
        BY <1>2, <2>1, <3>1 DEF WaitingIsExec
      <3>4. QED
        BY <2>1, <3>1, <3>2, <3>3 DEF HandsDistinct
    <2>2. CASE cb_fiber[w] = NoFiber
      BY <1>1, <2>2 DEF Free, Waiting
    <2>3. QED
      BY <2>1, <2>2
  <1>7. \A g \in Fibers : Waiting(g)' <=> Waiting(g)
    BY <1>2 DEF Waiting, Queued
  <1>8. QueuedOnce'
    BY <1>2 DEF QueuedOnce
  <1>9. HandsDistinct'
    BY <1>3, <1>5, <1>6 DEF HandsDistinct
  <1>10. WaitingIsExec'
    BY <1>2, <1>3, <1>4, <1>5, <1>6, <1>7 DEF WaitingIsExec
  <1>11. WaitingIsAlive'
    BY <1>5, <1>6, <1>7 DEF WaitingIsAlive
  <1>12. FtStates'
    BY <1>2, <1>3, <1>4, <1>5, <1>6 DEF FtStates
  <1>13. CbStates'
    BY <1>2, <1>3, <1>4, <1>5, <1>6 DEF CbStates
  <1>14. BodiesBound'
    <2>1. \A g \in Fibers : m_state'[g] \in {"EXEC", "HOLD", "READY"} =>
                              m_cb'[g] # NoTask
      BY <1>5 DEF BodiesBound
    <2>2. ASSUME NEW v \in Workers, pc'[v] \in {"incw", "swapin"}
          PROVE  (m_cb[Cur(v)] # NoTask)'
      <3>1. CASE v = w
        BY <1>2, <1>3, <1>5, <3>1 DEF Cur
      <3>2. CASE v # w
        <4>1. pc[v] = pc'[v]
          BY <1>2, <3>2
        <4>2. Cur(v) \in Fibers \ {f}
          BY <1>6, <2>2, <3>2, <4>1, CurFacts DEF Cur
        <4>3. Cur(v)' = Cur(v)
          BY <1>3, <1>5, <3>2 DEF Cur
        <4>4. QED
          BY <1>5, <2>2, <4>1, <4>2, <4>3 DEF BodiesBound
      <3>3. QED
        BY <3>1, <3>2
    <2>3. QED
      BY <2>1, <2>2 DEF BodiesBound
  <1>15. failed' = failed
    BY <1>1, <1>6 DEF Check
  <1>16. QED
    BY <1>8, <1>9, <1>10, <1>11, <1>12, <1>13, <1>14, <1>15 DEF Fibers_

\* A worker that leaves run() lets go of its function fiber.
LEMMA ExitFibers ==
  ASSUME CoreInv, NEW w \in Workers, Exit(w)
  PROVE  Fibers_'
  <1> USE DEF CoreInv, Ownership
  <1>1. /\ pc[w] = "dispatch" /\ pc'[w] = "exited"
        /\ \A v \in Workers \ {w} : pc'[v] = pc[v]
        /\ UNCHANGED <<m_fibers, armed, m_state, m_cb, ft>>
        /\ ft[w].fiber = NoFiber
        /\ \A v \in Workers :
             cb_fiber'[v] = IF v = w THEN NoFiber ELSE cb_fiber[v]
    <2>1. ft[w] = Nothing /\ Nothing.fiber = NoFiber
      BY DEF Exit, Nothing
    <2>2. QED
      BY <2>1 DEF Exit, TypeOK
  <1>2. \A v \in Workers : /\ ft[v].fiber \in Fibers \cup {NoFiber}
                           /\ cb_fiber[v] \in Fibers \cup {NoFiber}
    BY HandTypes
  <1>3. \A g \in Fibers : Waiting(g)' <=> Waiting(g)
    BY <1>1 DEF Waiting, Queued
  <1>4. QueuedOnce' /\ HandsDistinct' /\ WaitingIsAlive'
    BY <1>1, <1>3 DEF QueuedOnce, HandsDistinct, WaitingIsAlive
  <1>5. WaitingIsExec'
    BY <1>1, <1>2, <1>3 DEF WaitingIsExec
  <1>6. FtStates' /\ CbStates'
    BY <1>1 DEF FtStates, CbStates
  <1>7. BodiesBound'
    BY <1>1 DEF BodiesBound, Cur
  <1>8. QED
    BY <1>4, <1>5, <1>6, <1>7 DEF Fibers_

\* A fiber from the queue is let go of when its turn is over.
LEMMA AfterFiberFibers ==
  ASSUME CoreInv, NEW w \in Workers, AfterFiber(w)
  PROVE  Fibers_'
  <1> USE DEF CoreInv, Ownership
  <1>1. /\ pc[w] = "after" /\ pc'[w] = "scan"
        /\ \A v \in Workers \ {w} : pc'[v] = pc[v]
        /\ UNCHANGED <<m_fibers, armed, m_state, m_cb, cb_fiber>>
        /\ ft[w].fiber # NoFiber
        /\ ft' = [ft EXCEPT ![w] = Nothing]
    BY DEF AfterFiber, TypeOK
  <1>2. \A v \in Workers :
          ft'[v].fiber = IF v = w THEN NoFiber ELSE ft[v].fiber
    BY <1>1 DEF Nothing, TypeOK
  <1>3. \A v \in Workers : /\ ft[v].fiber \in Fibers \cup {NoFiber}
                           /\ cb_fiber[v] \in Fibers \cup {NoFiber}
    BY HandTypes
  <1>4. \A g \in Fibers : Waiting(g)' <=> Waiting(g)
    BY <1>1 DEF Waiting, Queued
  <1>5. QueuedOnce' /\ HandsDistinct' /\ WaitingIsAlive'
    BY <1>1, <1>2, <1>3, <1>4 DEF QueuedOnce, HandsDistinct, WaitingIsAlive
  <1>6. WaitingIsExec'
    BY <1>1, <1>2, <1>3, <1>4 DEF WaitingIsExec
  <1>7. FtStates' /\ CbStates'
    BY <1>1, <1>2 DEF FtStates, CbStates
  <1>8. BodiesBound'
    BY <1>1, <1>2 DEF BodiesBound, Cur
  <1>9. QED
    BY <1>5, <1>6, <1>7, <1>8 DEF Fibers_

\* The fiber of a function that ended is reset and kept.
LEMMA CbEndedFibers ==
  ASSUME CoreInv, NEW w \in Workers, CbEnded(w)
  PROVE  Fibers_'
  <1> USE DEF CoreInv, Ownership
  <1>1. /\ pc[w] = "after" /\ pc'[w] = "scan"
        /\ \A v \in Workers \ {w} : pc'[v] = pc[v]
        /\ UNCHANGED <<m_fibers, armed, ft, cb_fiber>>
        /\ ft[w].fiber = NoFiber
    BY DEF CbEnded, AfterCb, TypeOK
  <1>2. PICK f \in Fibers : f = cb_fiber[w]
    BY <1>1, HandTypes DEF CbStates
  <1>3. \A g \in Fibers :
          /\ m_state'[g] = IF g = f THEN "INIT" ELSE m_state[g]
          /\ m_cb'[g] = IF g = f THEN NoTask ELSE m_cb[g]
    BY <1>2 DEF CbEnded, TypeOK
  <1>4. m_state[f] \in Ended /\ ~Waiting(f)
    BY <1>2 DEF CbEnded, WaitingIsExec
  <1>5. /\ \A v \in Workers : ft[v].fiber # f
        /\ \A v \in Workers \ {w} : cb_fiber[v] # f
    BY <1>2 DEF HandsDistinct
  <1>6. \A v \in Workers : /\ ft[v].fiber \in Fibers \cup {NoFiber}
                           /\ cb_fiber[v] \in Fibers \cup {NoFiber}
    BY HandTypes
  <1>7. \A g \in Fibers : Waiting(g)' <=> Waiting(g)
    BY <1>1 DEF Waiting, Queued
  <1>8. QueuedOnce' /\ HandsDistinct' /\ WaitingIsAlive'
    BY <1>1, <1>3, <1>4, <1>7 DEF QueuedOnce, HandsDistinct, WaitingIsAlive
  <1>9. WaitingIsExec'
    BY <1>1, <1>2, <1>3, <1>4, <1>6, <1>7 DEF WaitingIsExec
  <1>10. FtStates'
    BY <1>1, <1>3, <1>5, <1>6 DEF FtStates
  <1>11. CbStates'
    BY <1>1, <1>2, <1>3, <1>5, <1>6 DEF CbStates
  <1>12. BodiesBound'
    <2>1. \A g \in Fibers : m_state'[g] \in {"EXEC", "HOLD", "READY"} =>
                              m_cb'[g] # NoTask
      BY <1>3 DEF BodiesBound
    <2>2. ASSUME NEW v \in Workers, pc'[v] \in {"incw", "swapin"}
          PROVE  (m_cb[Cur(v)] # NoTask)'
      <3>1. v # w /\ pc[v] = pc'[v]
        BY <1>1, <2>2
      <3>2. Cur(v) \in Fibers \ {f} /\ Cur(v)' = Cur(v)
        BY <1>1, <1>5, <2>2, <3>1, CurFacts DEF Cur
      <3>3. QED
        BY <1>3, <2>2, <3>1, <3>2 DEF BodiesBound
    <2>3. QED
      BY <2>1, <2>2 DEF BodiesBound
  <1>13. QED
    BY <1>8, <1>9, <1>10, <1>11, <1>12 DEF Fibers_

\* The fiber of a function that yielded leaves the hands of its worker: to the
\* queue when it is ready, else to whoever will schedule it.
LEMMA CbYieldedFibers ==
  ASSUME CoreInv, NEW w \in Workers, CbReady(w) \/ CbHeld(w)
  PROVE  Fibers_'
  <1> USE DEF CoreInv, Ownership
  <1>1. /\ pc[w] = "after" /\ pc'[w] \in {"tickle_after", "scan"}
        /\ \A v \in Workers \ {w} : pc'[v] = pc[v]
        /\ UNCHANGED <<armed, m_cb, ft>>
        /\ ft[w].fiber = NoFiber
        /\ \A v \in Workers :
             cb_fiber'[v] = IF v = w THEN NoFiber ELSE cb_fiber[v]
    BY DEF CbReady, CbHeld, AfterCb, TypeOK
  <1>2. PICK f \in Fibers : f = cb_fiber[w]
    BY <1>1, HandTypes DEF CbStates
  <1>3. /\ \A g \in Fibers \ {f} : m_state'[g] = m_state[g]
        /\ m_state'[f] \in {"HOLD", "READY"}
    BY <1>2 DEF CbReady, CbHeld, TypeOK
  <1>4. m_cb[f] # NoTask
    <2>1. m_state[f] \in {"EXEC", "HOLD", "READY"}
      BY <1>1, <1>2 DEF CbReady, CbHeld, CbStates, TypeOK
    <2>2. QED
      BY <2>1 DEF BodiesBound
  <1>5. /\ \A v \in Workers : ft[v].fiber # f
        /\ \A v \in Workers \ {w} : cb_fiber[v] # f
    BY <1>2 DEF HandsDistinct
  <1>6. \A v \in Workers : /\ ft[v].fiber \in Fibers \cup {NoFiber}
                           /\ cb_fiber[v] \in Fibers \cup {NoFiber}
    BY HandTypes
  <1>7. QueuedOnce' /\ \A g \in Fibers : Waiting(g)' => Waiting(g) \/ g = f
    <2>1. CASE CbReady(w)
      <3>1. ~Waiting(f)
        BY <1>2, <2>1 DEF CbReady, WaitingIsExec
      <3>2. /\ FiberEntry(f) \in FiberAndThread /\ FiberEntry(f).fiber = f
            /\ m_fibers' = Append(m_fibers, FiberEntry(f))
        BY <1>2, <2>1, EntryTypes DEF CbReady, Push, FiberEntry
      <3>3. QED
        BY <1>1, <3>1, <3>2, PushFacts DEF Waiting
    <2>2. CASE CbHeld(w)
      BY <2>2 DEF CbHeld, QueuedOnce, Waiting, Queued
    <2>3. QED
      BY <2>1, <2>2
  <1>8. HandsDistinct'
    BY <1>1, <1>6 DEF HandsDistinct
  <1>9. WaitingIsExec'
    BY <1>1, <1>3, <1>5, <1>6, <1>7 DEF WaitingIsExec
  <1>10. WaitingIsAlive'
    BY <1>3, <1>7 DEF WaitingIsAlive
  <1>11. FtStates'
    BY <1>1, <1>3, <1>5, <1>6 DEF FtStates
  <1>12. CbStates'
    BY <1>1, <1>3, <1>5, <1>6 DEF CbStates
  <1>13. BodiesBound'
    BY <1>1, <1>3, <1>4 DEF BodiesBound, Cur
  <1>14. QED
    BY <1>7, <1>8, <1>9, <1>10, <1>11, <1>12, <1>13 DEF Fibers_

-----------------------------------------------------------------------------
(* Every step keeps the invariant.                                         *)

\* Nobody waits newly when the queue and the armed fibers stay.
LEMMA SameQueue ==
  ASSUME CoreInv, UNCHANGED <<m_fibers, armed>>
  PROVE  QueuedOnce' /\ \A f \in Fibers : Waiting(f)' => Waiting(f)
  BY DEF CoreInv, Ownership, QueuedOnce, Waiting, Queued

\* In the move from a to b the label of w is all of Ownership that changes.
LEMMA QuietGoto ==
  ASSUME CoreInv, NEW w \in Workers, NEW a, NEW b, Goto(w, a, b), QuietMove(w),
         UNCHANGED <<m_fibers, armed, m_state, m_cb, ft, cb_fiber>>
  PROVE  Fibers_'
  <1>1. \A v \in Workers : QuietMove(v)
    BY DEF QuietMove, CoreInv, TypeOK
  <1>2. QED
    BY <1>1, SameQueue, QuietSteps

\* A step of run() keeps every fiber with one owner.
LEMMA RunFibers ==
  ASSUME CoreInv, NEW w \in Workers, RunStep(w)
  PROVE  Fibers_'
  <1> USE DEF CoreInv, Ownership
  <1>1. CASE Scan(w) /\ ScanTakes(w)
    BY <1>1, ScanTakesFibers DEF Scan
  <1>2. CASE Scan(w) /\ ScanFindsNothing(w)
    <2>1. QuietMove(w)
      BY <1>2 DEF Scan, ScanFindsNothing, AfterScan, QuietMove, FtStates, TypeOK
    <2>2. QED
      BY <1>2, <2>1, QuietGoto DEF Scan, ScanFindsNothing
  <1>3. CASE DispatchFiber(w)
    <2>1. QuietMove(w)
      BY <1>3 DEF DispatchFiber, QuietMove, TypeOK
    <2>2. QED
      BY <1>3, <2>1, QuietGoto DEF DispatchFiber
  <1>4. CASE DispatchCb(w)
    BY <1>4, DispatchCbFibers
  <1>5. CASE DispatchIdle(w)
    <2>1. ft[w] = Nothing /\ Nothing.fiber = NoFiber
      BY <1>5 DEF DispatchIdle, Nothing
    <2>2. QuietMove(w)
      BY <1>5, <2>1 DEF DispatchIdle, QuietMove, TypeOK
    <2>3. QED
      BY <1>5, <2>2, QuietGoto DEF DispatchIdle
  <1>6. CASE Exit(w)
    BY <1>6, ExitFibers
  <1>7. CASE CountTask(w) \/ SwappedBack(w) \/ UncountTask(w)
    <2>1. QuietMove(w)
      BY <1>7 DEF CountTask, SwappedBack, UncountTask, QuietMove, TypeOK
    <2>2. QED
      BY <1>7, <2>1, QuietGoto DEF CountTask, SwappedBack, UncountTask
  <1>8. CASE SwapIn(w)
    <2>1. TurnBegins(w, "EXEC") /\ \A v \in Workers \ {w} : pc'[v] = pc[v]
      BY <1>8 DEF SwapIn, TurnBegins, TypeOK
    <2>2. QED
      BY <1>8, <2>1, TurnFibers DEF SwapIn
  <1>9. CASE AfterFiber(w)
    BY <1>9, AfterFiberFibers
  <1>10. CASE CbEnded(w)
    BY <1>10, CbEndedFibers
  <1>11. CASE CbReady(w) \/ CbHeld(w)
    BY <1>11, CbYieldedFibers
  <1>12. CASE IdleSwapIn(w) \/ IdleSwappedBack(w) \/ AfterIdle(w)
    <2>1. \/ Goto(w, "iincw", "idle") \/ Goto(w, "idec", "idecw")
          \/ Goto(w, "idecw", "scan")
      BY <1>12 DEF IdleSwapIn, IdleSwappedBack, AfterIdle
    <2>2. /\ pc[w] \in {"iincw", "idec", "idecw"}
          /\ pc'[w] \in {"idle", "idecw", "scan"}
      BY <2>1 DEF TypeOK
    <2>3. QuietMove(w)
      BY <2>2 DEF QuietMove, FtStates
    <2>4. QED
      BY <1>12, <2>3, QuietGoto DEF IdleSwapIn, IdleSwappedBack, AfterIdle
  <1>13. QED
    BY <1>1, <1>2, <1>3, <1>4, <1>5, <1>6, <1>7, <1>8, <1>9, <1>10, <1>11,
       <1>12 DEF RunStep, Scan

\* A step of a task body keeps every fiber with one owner.
LEMMA BodyFibers ==
  ASSUME CoreInv, NEW w \in Workers, BodyStep(w)
  PROVE  Fibers_'
  <1> USE DEF CoreInv, Ownership
  <1>1. CASE TaskSchedules(w) \/ TaskWakes(w)
    <2>1. \A v \in Workers : QuietMove(v)
      <3>1. /\ pc[w] = "task" /\ pc'[w] \in {"task", "tickle_task"}
            /\ \A v \in Workers \ {w} : pc'[v] = pc[v]
        BY <1>1 DEF TaskSchedules, TaskWakes, TaskCallsSchedule, TypeOK
      <3>2. QED
        BY <3>1 DEF QuietMove
    <2>2. QED
      BY <1>1, <2>1, ScheduleFibers, QuietSteps
         DEF TaskSchedules, TaskWakes, TaskCallsSchedule
  <1>2. CASE TaskArms(w)
    <2>1. PICK f \in Fibers : f = Cur(w)
      BY <1>2, CurFacts DEF TaskArms
    <2>2. ~Waiting(f)
      BY <1>2, <2>1, HandTypes DEF TaskArms, WaitingIsExec, Cur
    <2>3. m_fibers' = m_fibers /\ armed' = armed \cup {f}
      BY <1>2, <2>1 DEF TaskArms
    <2>4. QueuedOnce' /\ \A g \in Fibers : Waiting(g)' => Waiting(g) \/ g = f
      BY <2>2, <2>3 DEF QueuedOnce, Waiting, Queued
    <2>5. /\ pc[w] = "task" /\ pc'[w] = "parking"
          /\ \A v \in Workers \ {w} : pc'[v] = pc[v]
      BY <1>2 DEF TaskArms, TypeOK
    <2>6. QED
      BY <1>2, <2>1, <2>4, <2>5, HandOutFibers DEF TaskArms
  <1>3. CASE TaskRequeues(w)
    <2>1. PICK f \in Fibers : f = Cur(w)
      BY <1>3, CurFacts DEF TaskRequeues
    <2>2. ~Waiting(f)
      BY <1>3, <2>1, HandTypes DEF TaskRequeues, WaitingIsExec, Cur
    <2>3. /\ FiberEntry(f) \in FiberAndThread /\ FiberEntry(f).fiber = f
          /\ m_fibers' = Append(m_fibers, FiberEntry(f)) /\ armed' = armed
      BY <1>3, <2>1, EntryTypes DEF TaskRequeues, Push, FiberEntry
    <2>4. QueuedOnce' /\ \A g \in Fibers : Waiting(g)' => Waiting(g) \/ g = f
      BY <2>2, <2>3, PushFacts DEF Waiting
    <2>5. /\ pc[w] = "task" /\ pc'[w] \in {"parking", "tickle_park"}
          /\ \A v \in Workers \ {w} : pc'[v] = pc[v]
      BY <1>3 DEF TaskRequeues, TypeOK
    <2>6. QED
      BY <1>3, <2>1, <2>4, <2>5, HandOutFibers DEF TaskRequeues
  <1>4. CASE YieldToHold(w)
    <2>1. QuietMove(w)
      BY <1>4 DEF YieldToHold, QuietMove, TypeOK
    <2>2. QED
      BY <1>4, <2>1, QuietGoto DEF YieldToHold
  <1>5. CASE YieldToReady(w)
    <2>1. TurnEnds(w, "READY") /\ \A v \in Workers \ {w} : pc'[v] = pc[v]
      BY <1>5 DEF YieldToReady, TurnEnds, TypeOK
    <2>2. QED
      BY <1>5, <2>1, TurnFibers DEF YieldToReady
  <1>6. CASE MainFunc(w)
    <2>1. /\ pc[w] = "task" /\ pc'[w] = "dec"
          /\ \A v \in Workers \ {w} : pc'[v] = pc[v]
      BY <1>6 DEF MainFunc, TypeOK
    <2>2. PICK s \in Ended :
            /\ m_state' = [m_state EXCEPT ![Cur(w)] = s]
            /\ \/ m_cb' = m_cb
               \/ m_cb' = [m_cb EXCEPT ![Cur(w)] = NoTask]
      BY <1>6 DEF MainFunc
    <2>3. TurnEnds(w, s)
      BY <2>1 DEF TurnEnds
    <2>4. QED
      BY <1>6, <2>1, <2>2, <2>3, TurnFibers DEF MainFunc
  <1>7. CASE Tickled(w)
    <2>1. /\ \A v \in Workers \ {w} : pc'[v] = pc[v]
          /\ \/ pc[w] = "tickle_scan" /\ pc'[w] = "dispatch"
             \/ pc[w] = "tickle_task" /\ pc'[w] = "task"
             \/ pc[w] = "tickle_park" /\ pc'[w] = "parking"
             \/ pc[w] = "tickle_after" /\ pc'[w] = "scan"
      BY <1>7, TickledMoves DEF TypeOK
    <2>2. \A v \in Workers : QuietMove(v)
      BY <2>1 DEF QuietMove, FtStates
    <2>3. QED
      BY <1>7, <2>2, SameQueue, QuietSteps DEF Tickled
  <1>8. CASE IdleReturns(w)
    <2>1. QuietMove(w)
      BY <1>8 DEF IdleReturns, QuietMove, FtStates, TypeOK
    <2>2. QED
      BY <1>8, <2>1, QuietGoto DEF IdleReturns
  <1>9. QED
    BY <1>1, <1>2, <1>3, <1>4, <1>5, <1>6, <1>7, <1>8 DEF BodyStep

\* A step of the owning thread keeps every fiber with one owner.
LEMMA OwnerFibers ==
  ASSUME CoreInv, OwnerStep
  PROVE  Fibers_'
  <1> USE DEF CoreInv, Ownership
  <1>1. CASE OwnerSchedules \/ OwnerWakes
    <2>1. \A v \in Workers : QuietMove(v)
      BY <1>1 DEF OwnerSchedules, OwnerWakes, OwnerCallsSchedule, QuietMove
    <2>2. QED
      BY <1>1, <2>1, ScheduleFibers, QuietSteps
         DEF OwnerSchedules, OwnerWakes, OwnerCallsSchedule
  <1>2. CASE OwnerTickled \/ CallsStop \/ StopTickled
             \/ CallerReturns \/ Join
    <2>1. UNCHANGED <<m_fibers, armed, m_state, m_cb, ft, cb_fiber, pc>>
      BY <1>2 DEF OwnerTickled, CallsStop, Stop, StopTickled, CallerReturns, Join
    <2>2. \A v \in Workers : QuietMove(v)
      BY <2>1 DEF QuietMove
    <2>3. QED
      BY <2>1, <2>2, SameQueue, QuietSteps
  <1>3. CASE Start
    <2>1. \A v \in Workers : pc[v] = "off" /\ pc'[v] \in {"off", "scan"}
      BY <1>3 DEF Start, OutsideRun, TypeOK
    <2>2. \A v \in Workers : QuietMove(v)
      BY <2>1 DEF QuietMove, FtStates
    <2>3. QED
      BY <1>3, <2>2, SameQueue, QuietSteps DEF Start
  <1>4. CASE StopRuns
    <2>1. \A v \in Workers : \/ pc'[v] = pc[v]
                             \/ pc[v] \in {"off", "exited"} /\ pc'[v] = "scan"
      BY <1>4 DEF StopRuns, OutsideRun, TypeOK
    <2>2. \A v \in Workers : QuietMove(v)
      BY <2>1 DEF QuietMove, FtStates
    <2>3. QED
      BY <1>4, <2>2, SameQueue, QuietSteps DEF StopRuns
  <1>5. QED
    BY <1>1, <1>2, <1>3, <1>4 DEF OwnerStep

\* The rest of the invariant: the idle fibers, the outside of run(), and the
\* assertions of Fiber.
Sides == IdleStates /\ OutsideRun /\ FiberAssertions

\* A worker that is in run(), as all that step are, is not the root thread
\* outside of its turn.
LEMMA StaysOutside ==
  ASSUME CoreInv, NEW w \in Workers, UNCHANGED main,
         NEW a \in Labels \ {"off", "exited"}, NEW b \in Labels, Goto(w, a, b)
  PROVE  OutsideRun'
  BY DEF CoreInv, TypeOK, Ownership, OutsideRun

\* A step of run() keeps the rest.
LEMMA RunSides ==
  ASSUME CoreInv, NEW w \in Workers, RunStep(w)
  PROVE  Sides'
  <1> USE DEF CoreInv, Ownership
  <1>1. CASE Scan(w)
    <2>1. \E b \in Labels : Goto(w, "scan", b)
      BY <1>1 DEF Scan, ScanTakes, ScanFindsNothing, AfterScan
    <2>2. OutsideRun'
      BY <1>1, <2>1, StaysOutside DEF Scan
    <2>3. IdleStates' /\ FiberAssertions'
      BY <1>1, <2>1 DEF Scan, TypeOK, IdleStates, FiberAssertions
    <2>4. QED
      BY <2>2, <2>3 DEF Sides
  <1>2. CASE DispatchFiber(w) \/ DispatchCb(w) \/ DispatchIdle(w) \/ Exit(w)
    <2>1. \E b \in Labels : Goto(w, "dispatch", b)
      BY <1>2 DEF DispatchFiber, DispatchCb, DispatchIdle, Exit
    <2>2. UNCHANGED <<main, idle_state>>
      BY <1>2 DEF DispatchFiber, DispatchCb, DispatchIdle, Exit
    <2>3. failed' = failed
      BY <1>2, DispatchCbFibers DEF DispatchFiber, DispatchIdle, Exit
    <2>4. OutsideRun'
      BY <2>1, <2>2, StaysOutside
    <2>5. IdleStates' /\ FiberAssertions'
      BY <2>1, <2>2, <2>3 DEF TypeOK, IdleStates, FiberAssertions
    <2>6. QED
      BY <2>4, <2>5 DEF Sides
  <1>3. CASE SwapIn(w)
    <2>1. m_state[Cur(w)] \in {"INIT", "HOLD", "READY"}
      BY <1>3 DEF SwapIn, FtStates, CbStates, Cur
    <2>2. failed' = failed
      BY <1>3, <2>1 DEF SwapIn, SwapInFails
    <2>3. OutsideRun'
      BY <1>3, StaysOutside DEF SwapIn
    <2>4. IdleStates' /\ FiberAssertions'
      BY <1>3, <2>2 DEF SwapIn, TypeOK, IdleStates, FiberAssertions
    <2>5. QED
      BY <2>3, <2>4 DEF Sides
  <1>4. CASE \/ CountTask(w) \/ SwappedBack(w) \/ UncountTask(w)
             \/ AfterFiber(w) \/ CbReady(w) \/ CbEnded(w) \/ CbHeld(w)
    <2>1. /\ \E a \in RunLabels, b \in Labels : Goto(w, a, b)
          /\ UNCHANGED <<main, idle_state, failed>>
      BY <1>4 DEF CountTask, SwappedBack, UncountTask, AfterFiber, CbReady,
                  CbEnded, CbHeld
    <2>2. OutsideRun'
      BY <2>1, StaysOutside
    <2>3. IdleStates' /\ FiberAssertions'
      BY <2>1 DEF TypeOK, IdleStates, FiberAssertions
    <2>4. QED
      BY <2>2, <2>3 DEF Sides
  <1>5. CASE IdleSwapIn(w)
    <2>1. idle_state[w] # "EXEC"
      BY <1>5 DEF IdleSwapIn, IdleStates
    <2>2. failed' = failed
      BY <1>5, <2>1 DEF IdleSwapIn, Check
    <2>3. OutsideRun'
      BY <1>5, StaysOutside DEF IdleSwapIn
    <2>4. IdleStates' /\ FiberAssertions'
      BY <1>5, <2>2 DEF IdleSwapIn, TypeOK, IdleStates, FiberAssertions
    <2>5. QED
      BY <2>3, <2>4 DEF Sides
  <1>6. CASE IdleSwappedBack(w)
    <2>1. OutsideRun'
      BY <1>6, StaysOutside DEF IdleSwappedBack
    <2>2. IdleStates' /\ FiberAssertions'
      BY <1>6 DEF IdleSwappedBack, TypeOK, IdleStates, FiberAssertions
    <2>3. QED
      BY <2>1, <2>2 DEF Sides
  <1>7. CASE AfterIdle(w)
    <2>1. OutsideRun'
      BY <1>7, StaysOutside DEF AfterIdle
    <2>2. IdleStates' /\ FiberAssertions'
      BY <1>7 DEF AfterIdle, TypeOK, IdleStates, FiberAssertions
    <2>3. QED
      BY <2>1, <2>2 DEF Sides
  <1>8. QED
    BY <1>1, <1>2, <1>3, <1>4, <1>5, <1>6, <1>7 DEF RunStep

\* A step of a task body keeps the rest.
LEMMA BodySides ==
  ASSUME CoreInv, NEW w \in Workers, BodyStep(w)
  PROVE  Sides'
  <1> USE DEF CoreInv, Ownership
  <1>1. CASE YieldToHold(w)
    <2>1. failed' = failed
      BY <1>1, CurFacts DEF YieldToHold, Check
    <2>2. OutsideRun'
      BY <1>1, StaysOutside DEF YieldToHold
    <2>3. IdleStates' /\ FiberAssertions'
      BY <1>1, <2>1 DEF YieldToHold, TypeOK, IdleStates, FiberAssertions
    <2>4. QED
      BY <2>2, <2>3 DEF Sides
  <1>2. CASE \/ TaskSchedules(w) \/ TaskWakes(w) \/ TaskArms(w)
             \/ TaskRequeues(w) \/ YieldToReady(w) \/ MainFunc(w)
    <2>1. /\ \E b \in Labels : Goto(w, "task", b)
          /\ UNCHANGED <<main, idle_state, failed>>
      BY <1>2 DEF TaskSchedules, TaskWakes, TaskCallsSchedule, TaskArms,
                  TaskRequeues, YieldToReady, MainFunc
    <2>2. OutsideRun'
      BY <2>1, StaysOutside
    <2>3. IdleStates' /\ FiberAssertions'
      BY <2>1 DEF TypeOK, IdleStates, FiberAssertions
    <2>4. QED
      BY <2>2, <2>3 DEF Sides
  <1>3. CASE Tickled(w)
    <2>1. /\ \E a \in {"tickle_scan", "tickle_task", "tickle_park",
                       "tickle_after"}, b \in Labels : Goto(w, a, b)
          /\ UNCHANGED <<main, idle_state, failed>>
      BY <1>3, TickledMoves DEF Tickled
    <2>2. OutsideRun'
      BY <2>1, StaysOutside
    <2>3. IdleStates' /\ FiberAssertions'
      BY <2>1 DEF TypeOK, IdleStates, FiberAssertions
    <2>4. QED
      BY <2>2, <2>3 DEF Sides
  <1>4. CASE IdleReturns(w)
    <2>1. OutsideRun'
      BY <1>4, StaysOutside DEF IdleReturns
    <2>2. IdleStates' /\ FiberAssertions'
      BY <1>4 DEF IdleReturns, TypeOK, IdleStates, FiberAssertions
    <2>3. QED
      BY <2>1, <2>2 DEF Sides
  <1>5. QED
    BY <1>1, <1>2, <1>3, <1>4 DEF BodyStep

\* A step of the owning thread keeps the rest.
LEMMA OwnerSides ==
  ASSUME CoreInv, OwnerStep
  PROVE  Sides'
  <1> USE DEF CoreInv, Ownership
  <1>1. CASE \/ OwnerSchedules \/ OwnerWakes \/ OwnerTickled
    <2>1. /\ UNCHANGED <<pc, idle_state, failed>>
          /\ \/ main \in {"created", "created_tickle"}
                /\ main' \in {"created", "created_tickle"}
             \/ main \in {"started", "started_tickle"}
                /\ main' \in {"started", "started_tickle"}
      BY <1>1, OwnerLabels DEF OwnerSchedules, OwnerWakes, OwnerCallsSchedule,
                               OwnerTickled
    <2>2. QED
      BY <2>1 DEF Sides, IdleStates, OutsideRun, FiberAssertions
  <1>2. CASE Start
    <2>1. /\ main' = "started" /\ UNCHANGED <<idle_state, failed>>
          /\ \A v \in Workers : pc[v] = "off" /\ pc'[v] \in {"off", "scan"}
          /\ RootThread \in Workers => pc'[RootThread] = "off"
      BY <1>2 DEF Start, OutsideRun, Pool, TypeOK
    <2>2. QED
      BY <2>1 DEF Sides, IdleStates, OutsideRun, FiberAssertions
  <1>3. CASE CallsStop \/ StopTickled
    <2>1. /\ UNCHANGED <<pc, idle_state, failed>>
          /\ main \in {"started", "stopped", "stop_tickle"}
          /\ main' \in {"stopped", "stop_tickle"}
      BY <1>3 DEF CallsStop, Stop, StopTickled
    <2>2. QED
      BY <2>1 DEF Sides, IdleStates, OutsideRun, FiberAssertions
  <1>4. CASE StopRuns
    <2>1. /\ main = "stop_tickle" /\ main' \in {"caller", "join"}
          /\ main' = "join" => RootThread \notin Workers
          /\ UNCHANGED idle_state
          /\ failed' \in {failed, "root never reach"}
      BY <1>4 DEF StopRuns, Check
    <2>2. \A v \in Workers : pc'[v] = pc[v] \/ pc[v] \in {"off", "exited"}
      BY <1>4 DEF StopRuns, OutsideRun, TypeOK
    <2>3. QED
      BY <2>1, <2>2 DEF Sides, IdleStates, OutsideRun, FiberAssertions
  <1>5. CASE CallerReturns \/ Join
    <2>1. /\ UNCHANGED <<pc, idle_state, failed>>
          /\ main' \in {"join", "stopped"}
          /\ main = "join" \/ pc[RootThread] = "exited"
      BY <1>5 DEF CallerReturns, Join
    <2>2. QED
      BY <2>1 DEF Sides, IdleStates, OutsideRun, FiberAssertions
  <1>6. QED
    BY <1>1, <1>2, <1>3, <1>4, <1>5 DEF OwnerStep

-----------------------------------------------------------------------------
(* The invariant.                                                          *)

\* The invariant holds when the scheduler is constructed.
LEMMA CoreInvInit ==
  ASSUME CoreInit
  PROVE  CoreInv
  <1> USE DEF CoreInit
  <1>1. \A w \in Workers : ft[w].fiber = NoFiber
    BY DEF Nothing
  <1>2. TypeOK
    <2>1. 0 \in 0..(CountMod - 1) /\ 0 \in 0..MaxYields /\ 0 \in 0..MaxStops
      OBVIOUS
    <2>2. m_fibers \in Seq(FiberAndThread) /\ ft \in [Workers -> FiberAndThread]
      BY EntryTypes
    <2>3. QED
      BY <2>1, <2>2 DEF TypeOK
  <1>3. \A f \in Fibers : ~Waiting(f)
    BY DEF Waiting, Queued
  <1>4. QueuedOnce /\ HandsDistinct /\ WaitingIsExec /\ WaitingIsAlive
    BY <1>1, <1>3 DEF QueuedOnce, HandsDistinct, WaitingIsExec, WaitingIsAlive
  <1>5. FtStates /\ CbStates /\ BodiesBound
    BY <1>1 DEF FtStates, CbStates, BodiesBound
  <1>6. IdleStates /\ OutsideRun /\ FiberAssertions
    BY DEF IdleStates, OutsideRun, FiberAssertions
  <1>7. QED
    BY <1>2, <1>4, <1>5, <1>6 DEF CoreInv, Ownership

\* Every step of the core keeps it.
LEMMA CoreInvStep ==
  ASSUME CoreInv,
         \/ \E w \in Workers : RunStep(w) \/ BodyStep(w)
         \/ OwnerStep
         \/ UNCHANGED coreVars
  PROVE  CoreInv'
  <1>1. CASE \E w \in Workers : RunStep(w) \/ BodyStep(w)
    <2>1. PICK w \in Workers : RunStep(w) \/ BodyStep(w)
      BY <1>1
    <2>2. TypeOK' /\ Fibers_' /\ Sides'
      BY <2>1, RunTypes, RunFibers, RunSides, BodyTypes, BodyFibers, BodySides
    <2>3. QED
      BY <2>2 DEF CoreInv, Ownership, Fibers_, Sides
  <1>2. CASE OwnerStep
    <2>1. TypeOK' /\ Fibers_' /\ Sides'
      BY <1>2, OwnerTypes, OwnerFibers, OwnerSides
    <2>2. QED
      BY <2>1 DEF CoreInv, Ownership, Fibers_, Sides
  <1>3. CASE UNCHANGED coreVars
    <2>1. UNCHANGED <<m_fibers, m_activeThreadCount, m_idleThreadCount, m_state,
                      m_cb, pc, ft, cb_fiber, idle_state, reg, armed, fresh,
                      done, yields, m_autostop, main, tickles, stops, failed>>
      BY <1>3 DEF coreVars
    <2>2. TypeOK'
      BY <2>1 DEF CoreInv, TypeOK
    <2>3. Fibers_'
      BY <2>1 DEF CoreInv, Ownership, Fibers_, QueuedOnce, HandsDistinct,
                  WaitingIsExec, WaitingIsAlive, Waiting, Queued, FtStates,
                  CbStates, BodiesBound, Cur
    <2>4. Sides'
      BY <2>1 DEF CoreInv, Ownership, Sides, IdleStates, OutsideRun,
                  FiberAssertions
    <2>5. QED
      BY <2>2, <2>3, <2>4 DEF CoreInv, Ownership, Fibers_, Sides
  <1>4. QED
    BY <1>1, <1>2, <1>3

\* Distinct hands hold distinct fibers.
LEMMA CoreExclusive == CoreInv => ExclusiveStack
  <1>1. SUFFICES ASSUME CoreInv, NEW f \in Fibers,
                        NEW v \in Workers, NEW w \in Workers,
                        Holds(v, f), Holds(w, f)
                 PROVE  v = w
    BY DEF ExclusiveStack
  <1>2. /\ ft[v].fiber = f \/ cb_fiber[v] = f
        /\ ft[w].fiber = f \/ cb_fiber[w] = f
        /\ f # NoFiber
    BY <1>1 DEF Holds
  <1>3. QED
    BY <1>1, <1>2 DEF CoreInv, Ownership, HandsDistinct

-----------------------------------------------------------------------------
(* The root fiber, when stop() is called once.                             *)

\* stop() has not been called.
Early == {"created", "created_tickle", "started", "started_tickle"}

\* Until the turn of the root fiber begins it has not been entered.
RootFresh ==
  /\ failed = "none"
  /\ main \in Early <=> stops = 0
  /\ RootThread \in Workers /\ main \in Early \cup {"stop_tickle"} =>
       pc[RootThread] = "off"

\* A step of a worker does not concern the root fiber before it is entered.
LEMMA WorkerLeavesRoot ==
  ASSUME CoreInv, NEW w \in Workers, RunStep(w) \/ BodyStep(w), failed = "none"
  PROVE  /\ UNCHANGED <<main, stops>>
         /\ failed' \notin {"root never reach", "triggerEvent"}
         /\ \A v \in Workers : pc[v] = "off" => pc'[v] = "off"
  <1> USE DEF CoreInv
  <1>1. CASE \/ Scan(w) \/ CountTask(w) \/ SwapIn(w) \/ SwappedBack(w)
             \/ UncountTask(w)
    BY <1>1 DEF Scan, ScanTakes, ScanFindsNothing, CountTask, SwapIn,
                SwapInFails, SwappedBack, UncountTask, TypeOK
  <1>2. CASE DispatchFiber(w) \/ DispatchCb(w) \/ DispatchIdle(w) \/ Exit(w)
    BY <1>2, DispatchCbFibers DEF DispatchFiber, DispatchCb, DispatchIdle, Exit,
                                  TypeOK
  <1>3. CASE \/ AfterFiber(w) \/ CbReady(w) \/ CbEnded(w) \/ CbHeld(w)
    BY <1>3 DEF AfterFiber, CbReady, CbEnded, CbHeld, TypeOK
  <1>4. CASE IdleSwapIn(w) \/ IdleSwappedBack(w) \/ AfterIdle(w)
    BY <1>4 DEF IdleSwapIn, IdleSwappedBack, AfterIdle, Check, TypeOK
  <1>5. CASE \/ TaskSchedules(w) \/ TaskWakes(w) \/ TaskArms(w)
             \/ TaskRequeues(w)
    BY <1>5 DEF TaskSchedules, TaskWakes, TaskCallsSchedule, TaskArms,
                TaskRequeues, TypeOK
  <1>6. CASE YieldToHold(w) \/ YieldToReady(w) \/ MainFunc(w) \/ IdleReturns(w)
    BY <1>6 DEF YieldToHold, Check, YieldToReady, MainFunc, IdleReturns, TypeOK
  <1>7. CASE Tickled(w)
    BY <1>7, TickledMoves DEF Tickled, TypeOK
  <1>8. QED
    BY <1>1, <1>2, <1>3, <1>4, <1>5, <1>6, <1>7 DEF RunStep, BodyStep

\* So with one call of stop() it stays fresh until then, whatever workers do, ...
LEMMA WorkerKeepsRoot ==
  ASSUME CoreInv, CoreInv', RootFresh, NEW w \in Workers,
         RunStep(w) \/ BodyStep(w)
  PROVE  RootFresh'
  <1> USE DEF RootFresh, Early
  <1>1. /\ UNCHANGED <<main, stops>>
        /\ failed' \notin {"root never reach", "triggerEvent"}
        /\ RootThread \in Workers /\ pc[RootThread] = "off" =>
             pc'[RootThread] = "off"
    BY WorkerLeavesRoot
  <1>2. failed' = "none"
    BY <1>1 DEF CoreInv, FiberAssertions
  <1>3. QED
    BY <1>1, <1>2

\* ... and whatever its owner does.
LEMMA OwnerKeepsRoot ==
  ASSUME MaxStops <= 1, CoreInv, RootFresh, OwnerStep
  PROVE  RootFresh'
  <1> USE DEF RootFresh, Early
  <1>1. CASE OwnerSchedules \/ OwnerWakes \/ OwnerTickled
    BY <1>1, OwnerLabels DEF OwnerSchedules, OwnerWakes, OwnerCallsSchedule,
                             OwnerTickled, workerVars
  <1>2. CASE Start
    BY <1>2 DEF Start, Pool, CoreInv, TypeOK
  <1>3. CASE CallsStop
    <2>1. PICK canStop \in BOOLEAN : Stop(canStop)
      BY <1>3 DEF CallsStop
    <2>2. stops \in Nat /\ stops < MaxStops /\ stops' = stops + 1
      BY <2>1 DEF Stop, CoreInv, TypeOK
    <2>3. stops = 0 /\ stops' # 0
      BY <2>2
    <2>4. main \in Early
      BY <2>3
    <2>5. UNCHANGED <<pc, failed>> /\ main' \in {"stopped", "stop_tickle"}
      BY <2>1 DEF Stop
    <2>6. QED
      BY <2>3, <2>4, <2>5
  <1>4. CASE StopTickled \/ CallerReturns \/ Join
    BY <1>4 DEF StopTickled, CallerReturns, Join
  <1>5. CASE StopRuns
    BY <1>5 DEF StopRuns, Check
  <1>6. QED
    BY <1>1, <1>2, <1>3, <1>4, <1>5 DEF OwnerStep
=============================================================================
