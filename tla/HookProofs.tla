----------------------------- MODULE HookProofs -----------------------------
(***************************************************************************)
(* Proofs about the hooked system calls, for any fibers, descriptors and   *)
(* uses of them, and any number of calls.                                  *)
(*                                                                         *)
(* The invariant: where a fiber is tells which call it is in, on what, and *)
(* which timer it may have (Shape); what the callbacks of expired timers   *)
(* may still do (Answers); only waiting fibers are registered, each on its *)
(* own event (Registered); and of the four things that may wake a fiber a  *)
(* waiting one has exactly one, another none (OneLeft).                    *)
(***************************************************************************)
EXTENDS Hook, FiniteSetTheorems, TLAPS

USE UsesAssumption
USE DEF kernelVars, ctxVars, managerVars, callVars, historyVars

Waits == {"parking", "parked"}
Labels == {"run", "try", "direct", "blocked", "event", "parking", "parked",
           "woken", "check", "del", "close_f"}
InIO == {"try", "direct", "blocked", "event", "woken", "check"}

Fields ==
  /\ nonblock \in [Fds -> BOOLEAN] /\ cancelled \in [Fibers -> BOOLEAN]
Sets ==
  /\ state \in [Fds -> {"free", "open", "closed"}]
  /\ ready \subseteq Slots /\ m_timeout \subseteq Slots
  /\ m_datas \subseteq Fds /\ m_userNonblock \subseteq Fds
Waiting ==
  /\ waiter \in [Slots -> Fibers \cup {NoFiber}] /\ queued \in [Fibers -> 0..1]
  /\ timer \in [Fibers -> {"none", "io", "sleep"}]
Places ==
  /\ pc \in [Fibers -> Labels] /\ slot \in [Fibers -> Slots \cup {NoSlot}]
  /\ op \in [Fibers -> {"none", "io", "connect", "sleep"}]
Numbers ==
  /\ call \in [Fibers -> Nat] /\ overdue \in [Fibers -> Nat]
  /\ \A f \in Fibers : call[f] <= MaxCalls[f] /\ overdue[f] <= call[f]

Shape == \A f \in Fibers :
  /\ pc[f] \in InIO => slot[f] \in Uses[f] /\ op[f] # "sleep"
  /\ pc[f] \in Waits => IF op[f] = "sleep" THEN slot[f] = NoSlot ELSE slot[f] \in Uses[f]
  /\ timer[f] = "io" => pc[f] \in Waits \cup {"event", "woken"} /\ op[f] # "sleep"
  /\ timer[f] = "sleep" => pc[f] \in Waits /\ op[f] = "sleep"
  /\ pc[f] \in {"del", "close_f"} => slot[f] \in Slots

SleepCallback(f) == [fiber |-> f, kind |-> "sleep", call |-> call[f],
                     slot |-> NoSlot, cancels |-> FALSE]
Answer(c) ==
  /\ c \in [fiber : Fibers, kind : {"io", "sleep"}, call : Nat,
            slot : Slots \cup {NoSlot}, cancels : BOOLEAN]
  /\ c.call <= call[c.fiber]
  /\ c.kind = "io" => /\ c.slot \in Slots
                      /\ c.call = call[c.fiber] => overdue[c.fiber] = c.call
  /\ c.kind = "sleep" => /\ c = SleepCallback(c.fiber)
                         /\ pc[c.fiber] \in Waits /\ op[c.fiber] = "sleep"
Answers == \A c \in callbacks : Answer(c)

Registered == \A s \in Slots : waiter[s] # NoFiber =>
  LET f == waiter[s] IN
  f \in Fibers /\ slot[f] = s /\ pc[f] \in Waits /\ op[f] # "sleep"

HasEvent(f)   == slot[f] \in Slots /\ waiter[slot[f]] = f
HasSleeper(f) == SleepCallback(f) \in callbacks
OneLeft == \A f \in Fibers :
  /\ pc[f] \notin Waits => queued[f] = 0
  /\ pc[f] \in Waits => HasEvent(f) \/ queued[f] = 1 \/ HasSleeper(f) \/ timer[f] = "sleep"
  /\ queued[f] = 1 => ~HasEvent(f) /\ ~HasSleeper(f) /\ timer[f] # "sleep"
  /\ HasSleeper(f) => timer[f] # "sleep"

Open == \A d \in Fds : state[d] = "open" /\ ~nonblock[d] => d \in unblocked

IInv == /\ Fields /\ Sets /\ Waiting /\ Places /\ Numbers
        /\ Shape /\ Answers /\ Registered /\ OneLeft /\ TimeoutIsOwn /\ Open

-----------------------------------------------------------------------------
(* Uses, and what Trigger() does.                                          *)

LEMMA UsesFacts ==
  /\ \A f \in Fibers : \A s \in Uses[f] : s \in Slots /\ s[1] \in Fds
  /\ NoSlot \notin Slots
  /\ \A d \in Fds, e \in Events : <<d, e>> \in Slots
  <1>1. \A f \in Fibers : Uses[f] \subseteq Slots
    OBVIOUS
  <1>2. QED
    BY <1>1 DEF Slots, Events, NoSlot

\* An event has one waiter, so triggering a set of events schedules a fiber as
\* often as its event is in the set.
LEMMA TriggerFacts ==
  ASSUME IInv, NEW todo \in SUBSET Slots, Trigger(todo)
  PROVE  /\ \A f \in Fibers : queued'[f] =
              IF HasEvent(f) /\ slot[f] \in todo THEN queued[f] + 1 ELSE queued[f]
         /\ DOMAIN queued' = Fibers
         /\ queued' = [f \in Fibers |-> queued'[f]]
         /\ waiter' = [s \in Slots |-> IF s \in todo THEN NoFiber ELSE waiter[s]]
  <1>1. ASSUME NEW f \in Fibers, HasEvent(f), slot[f] \in todo
        PROVE  Cardinality({s \in todo : waiter[s] = f}) = 1
    <2>1. {s \in todo : waiter[s] = f} = {slot[f]}
      BY <1>1 DEF IInv, Registered, HasEvent
    <2>2. QED
      BY <2>1, FS_Singleton
  <1>2. ASSUME NEW f \in Fibers, ~(HasEvent(f) /\ slot[f] \in todo)
        PROVE  Cardinality({s \in todo : waiter[s] = f}) = 0
    <2>1. {s \in todo : waiter[s] = f} = {}
      BY <1>2 DEF IInv, Registered, HasEvent
    <2>2. QED
      BY <2>1, FS_EmptySet
  <1>3. \A f \in Fibers : queued[f] \in Nat
    BY DEF IInv, Waiting
  <1>4. QED
    BY <1>1, <1>2, <1>3 DEF Trigger

LEMMA InitInv == Init => IInv
  <1> SUFFICES ASSUME Init PROVE IInv
    OBVIOUS
  <1> USE DEF Init
  <1>1. Fields /\ Sets /\ Open
    BY DEF Fields, Sets, Open
  <1>2. Waiting
    BY DEF Waiting
  <1>3. Places
    BY DEF Places, Labels
  <1>4. Numbers
    BY DEF Numbers
  <1>5. Shape /\ Answers /\ Registered
    BY DEF Shape, Answers, Registered, Waits, InIO
  <1>6. OneLeft /\ TimeoutIsOwn
    BY UsesFacts DEF OneLeft, TimeoutIsOwn, Waits, HasEvent, HasSleeper
  <1>7. QED
    BY <1>1, <1>2, <1>3, <1>4, <1>5, <1>6 DEF IInv

-----------------------------------------------------------------------------
(* The kernel, and idle().                                                 *)

\* A descriptor becomes ready.
LEMMA BecomesKeeps ==
  ASSUME IInv, NEW s \in AllUses, Becomes(s)
  PROVE  IInv'
  <1> USE DEF Becomes
  <1>1. Fields' /\ Waiting' /\ Places' /\ Numbers' /\ Shape' /\ Answers' /\
        Registered' /\ OneLeft' /\ TimeoutIsOwn' /\ Open'
    BY DEF IInv, Fields, Waiting, Places, Numbers, Shape, Answers, Registered,
       OneLeft, TimeoutIsOwn, Open, Waits, Answer, SleepCallback, HasEvent,
       HasSleeper
  <1>2. Sets'
    BY UsesFacts DEF IInv, Sets, AllUses
  <1>3. QED
    BY <1>1, <1>2 DEF IInv

\* It stops to be.
LEMMA DrainedKeeps ==
  ASSUME IInv, NEW s \in AllUses, Drained(s)
  PROVE  IInv'
  <1> USE DEF Drained
  <1>1. Fields' /\ Waiting' /\ Places' /\ Numbers' /\ Shape' /\ Answers' /\
        Registered' /\ OneLeft' /\ TimeoutIsOwn' /\ Open'
    BY DEF IInv, Fields, Waiting, Places, Numbers, Shape, Answers, Registered,
       OneLeft, TimeoutIsOwn, Open, Waits, Answer, SleepCallback, HasEvent,
       HasSleeper
  <1>2. Sets'
    BY DEF IInv, Sets
  <1>3. QED
    BY <1>1, <1>2 DEF IInv

\* Its event is triggered: the waiter is queued and no longer registered.
LEMMA FiresKeeps ==
  ASSUME IInv, NEW s \in AllUses, Fires(s)
  PROVE  IInv'
  <1> USE DEF Fires
  <1>0. {s} \subseteq Slots /\ Trigger({s})
    BY UsesFacts DEF AllUses
  <1>1. Fields' /\ Sets' /\ Places' /\ Numbers' /\ Answers' /\ TimeoutIsOwn' /\
        Open'
    BY DEF IInv, Fields, Sets, Places, Numbers, Answers, TimeoutIsOwn, Open, Waits,
       Answer, SleepCallback
  <1>2. Waiting'
    BY <1>0, TriggerFacts DEF IInv, Waiting, OneLeft
  <1>3. Shape'
    BY DEF IInv, Places, Waiting, Shape, Labels, Waits, InIO
  <1>4. Registered'
    BY <1>0, TriggerFacts DEF IInv, Places, Waiting, Shape, Registered, Waits
  <1>5. OneLeft'
    BY <1>0, TriggerFacts DEF IInv, Places, Waiting, Shape, Answers, Registered,
       OneLeft, Waits, Answer, HasEvent, HasSleeper, SleepCallback
  <1>6. QED
    BY <1>1, <1>2, <1>3, <1>4, <1>5 DEF IInv

-----------------------------------------------------------------------------
(* Yielding, resuming and the timers.                                      *)

\* The fiber swaps out.
LEMMA YieldToHoldKeeps ==
  ASSUME IInv, NEW x \in Fibers, YieldToHold(x)
  PROVE  IInv'
  <1> USE DEF YieldToHold, Goto
  <1>1. Fields' /\ Sets' /\ Waiting' /\ Numbers' /\ TimeoutIsOwn' /\ Open'
    BY DEF IInv, Fields, Sets, Waiting, Numbers, TimeoutIsOwn, Open
  <1>2. Places'
    BY DEF IInv, Places, Labels, Waits
  <1>3. Shape'
    BY DEF IInv, Places, Waiting, Shape, Labels, Waits, InIO
  <1>4. Answers'
    BY DEF IInv, Places, Numbers, Answers, Waits, Answer, SleepCallback
  <1>5. Registered'
    BY DEF IInv, Places, Waiting, Shape, Registered, Waits
  <1>6. OneLeft'
    BY DEF IInv, Places, Waiting, Shape, Answers, Registered, OneLeft, Waits,
       Answer, HasEvent, HasSleeper, SleepCallback
  <1>7. QED
    BY <1>1, <1>2, <1>3, <1>4, <1>5, <1>6 DEF IInv

\* It is resumed: what woke it is used up.
LEMMA ResumesKeeps ==
  ASSUME IInv, NEW x \in Fibers, Resumes(x)
  PROVE  IInv'
  <1> USE DEF Resumes, Goto
  <1>1. Fields' /\ Sets' /\ Numbers' /\ TimeoutIsOwn' /\ Open'
    BY DEF IInv, Fields, Sets, Numbers, TimeoutIsOwn, Open
  <1>2. Waiting'
    BY DEF IInv, Waiting
  <1>3. Places'
    BY DEF IInv, Places, Labels, Waits
  <1>4. Shape'
    BY DEF IInv, Places, Waiting, Shape, Labels, Waits, InIO, OneLeft
  <1>5. Answers'
    BY DEF IInv, Places, Numbers, Answers, Waits, Answer, SleepCallback, OneLeft,
       HasSleeper, Waiting
  <1>6. Registered'
    BY DEF IInv, Places, Waiting, Shape, Registered, Waits, OneLeft, HasEvent
  <1>7. OneLeft'
    BY DEF IInv, Places, Waiting, Shape, Answers, Registered, OneLeft, Waits,
       Answer, HasEvent, HasSleeper, SleepCallback
  <1>8. QED
    BY <1>1, <1>2, <1>3, <1>4, <1>5, <1>6, <1>7 DEF IInv

\* Its timer runs out: of this call, or of this sleep.
LEMMA ExpiresKeeps ==
  ASSUME IInv, NEW x \in Fibers, Expires(x)
  PROVE  IInv'
  <1> USE DEF Expires, Callback
  <1>1. Fields' /\ Sets' /\ Places' /\ Registered' /\ Open'
    BY DEF IInv, Fields, Sets, Places, Registered, Open
  <1>2. Waiting'
    BY DEF IInv, Waiting
  <1>3. Numbers'
    BY DEF IInv, Numbers
  <1>4. Shape'
    BY DEF IInv, Places, Waiting, Shape, Labels, Waits, InIO
  <1>5. Answers'
    <2>1. ASSUME NEW c \in callbacks
          PROVE  Answer(c)'
      BY DEF IInv, Numbers, Waiting, Answers, Answer, SleepCallback
    <2>2. ASSUME NEW c, c = Callback(x)
          PROVE  Answer(c)'
      <3>1. timer[x] \in {"io", "sleep"} /\ call[x] \in Nat /\ overdue'[x] = call[x]
        BY DEF IInv, Waiting, Numbers
      <3>2. /\ timer[x] = "io" => slot[x] \in Slots
            /\ timer[x] = "sleep" => slot[x] = NoSlot /\ pc[x] \in Waits /\ op[x] = "sleep"
        BY UsesFacts DEF IInv, Shape, Waits, InIO
      <3>3. c = [fiber |-> x, kind |-> timer[x], call |-> call[x], slot |-> slot[x],
                 cancels |-> FALSE]
        BY <2>2
      <3>4. UNCHANGED <<call, pc, op>>
        OBVIOUS
      <3>5. CASE timer[x] = "io"
        BY <3>1, <3>2, <3>3, <3>4, <3>5 DEF Answer
      <3>6. CASE timer[x] = "sleep"
        <4>1. c = [fiber |-> x, kind |-> "sleep", call |-> call'[x],
              slot |-> NoSlot,
                   cancels |-> FALSE]
          BY <3>2, <3>3, <3>4, <3>6
        <4>2. c.kind # "io" /\ c.fiber = x /\ c.call = call'[x] /\
              c = SleepCallback(c.fiber)'
          BY <4>1 DEF SleepCallback
        <4>3. c \in [fiber : Fibers, kind : {"io", "sleep"}, call : Nat,
                     slot : Slots \cup {NoSlot}, cancels : BOOLEAN]
          BY <3>1, <3>4, <4>1
        <4>4. QED
          BY <3>1, <3>2, <3>4, <3>6, <4>2, <4>3 DEF Answer
      <3>7. QED
        BY <3>1, <3>5, <3>6
    <2>3. QED
      BY <2>1, <2>2 DEF Answers
  <1>6. OneLeft'
    <2>1. HasSleeper(x)' => timer[x] = "sleep" \/ HasSleeper(x)
      BY DEF HasSleeper, SleepCallback
    <2>2. \A f \in Fibers : f # x => (HasSleeper(f)' <=> HasSleeper(f))
      BY DEF HasSleeper, SleepCallback
    <2>3. HasSleeper(x) => HasSleeper(x)'
      BY DEF HasSleeper, SleepCallback
    <2>4. timer[x] = "sleep" => HasSleeper(x)'
      <3>1. timer[x] = "sleep" => slot[x] = NoSlot
        BY DEF IInv, Shape, Waits
      <3>2. QED
        BY <3>1 DEF HasSleeper, SleepCallback
    <2>5. QED
      BY <2>1, <2>2, <2>3, <2>4 DEF IInv, Waiting, OneLeft, HasEvent
  <1>7. TimeoutIsOwn'
    BY DEF IInv, Fields, Numbers, TimeoutIsOwn
  <1>8. QED
    BY <1>1, <1>2, <1>3, <1>4, <1>5, <1>6, <1>7 DEF IInv

\* The callback of a sleep queues the fiber.
LEMMA WakesSleeperKeeps ==
  ASSUME IInv, NEW c \in callbacks, WakesSleeper(c)
  PROVE  IInv'
  <1> USE DEF WakesSleeper, Schedule
  <1>1. Fields' /\ Sets' /\ Places' /\ Numbers' /\ Shape' /\ Registered' /\
        TimeoutIsOwn' /\ Open'
    BY DEF IInv, Fields, Sets, Places, Numbers, Shape, Registered, TimeoutIsOwn,
       Open
  <1>2. Waiting'
    BY DEF IInv, Waiting, Answers, Answer, OneLeft, HasSleeper, SleepCallback
  <1>3. Answers'
    BY DEF IInv, Places, Numbers, Answers, Waits, Answer, SleepCallback
  <1>4. OneLeft'
    BY DEF IInv, Places, Waiting, Shape, Answers, Registered, OneLeft, Waits,
       Answer, HasEvent, HasSleeper, SleepCallback
  <1>5. QED
    BY <1>1, <1>2, <1>3, <1>4 DEF IInv

\* The callback of a call marks it, if it is still the call of the callback.
LEMMA TimesOutKeeps ==
  ASSUME IInv, NEW c \in callbacks, TimesOut(c)
  PROVE  IInv'
  <1> USE DEF TimesOut, StillWaitsFor
  <1>1. Sets' /\ Waiting' /\ Places' /\ Numbers' /\ Shape' /\ Registered' /\ Open'
    BY DEF IInv, Sets, Waiting, Places, Numbers, Shape, Registered, Open
  <1>2. Fields'
    BY DEF IInv, Fields, Answers, Answer
  <1>3. Answers'
    <2>1. ASSUME NEW d \in callbacks
          PROVE  Answer(d)'
      BY DEF IInv, Answers, Answer, SleepCallback
    <2>2. ASSUME NEW d, d = [c EXCEPT !.cancels = TRUE]
          PROVE  Answer(d)'
      BY <2>2 DEF IInv, Answers, Answer, SleepCallback
    <2>3. QED
      BY <2>1, <2>2 DEF Answers
  <1>4. OneLeft'
    BY DEF IInv, Places, Waiting, Shape, Answers, Registered, OneLeft, Waits,
       Answer, HasEvent, HasSleeper, SleepCallback
  <1>5. TimeoutIsOwn'
    BY DEF IInv, Fields, Numbers, TimeoutIsOwn, Answers, Answer
  <1>6. QED
    BY <1>1, <1>2, <1>3, <1>4, <1>5 DEF IInv

\* It then triggers the event of the call, whoever waits for it.
LEMMA CancelsEventKeeps ==
  ASSUME IInv, NEW c \in callbacks, CancelsEvent(c)
  PROVE  IInv'
  <1> USE DEF CancelsEvent
  <1>0. {c.slot} \in SUBSET Slots
    BY DEF IInv, Answers, Answer, SleepCallback
  <1>a. Trigger({c.slot}) \/ UNCHANGED <<waiter, queued>>
    OBVIOUS
  <1>1. Fields' /\ Sets' /\ Places' /\ Numbers' /\ Shape' /\ TimeoutIsOwn' /\ Open'
    BY DEF IInv, Fields, Sets, Places, Numbers, Shape, TimeoutIsOwn, Open
  <1>2. Waiting'
    BY <1>0, <1>a, TriggerFacts DEF IInv, Waiting, OneLeft
  <1>3. Answers'
    BY DEF IInv, Places, Numbers, Answers, Waits, Answer, SleepCallback
  <1>4. Registered'
    BY <1>0, <1>a, TriggerFacts DEF IInv, Places, Waiting, Shape, Registered, Waits
  <1>5. OneLeft'
    BY <1>0, <1>a, TriggerFacts DEF IInv, Places, Waiting, Shape, Answers,
       Registered, OneLeft, Waits, Answer, HasEvent, HasSleeper, SleepCallback
  <1>6. QED
    BY <1>1, <1>2, <1>3, <1>4, <1>5 DEF IInv

-----------------------------------------------------------------------------
(* The steps of a blocking call.                                           *)

\* A call begins, with a number of its own.
LEMMA do_ioKeeps ==
  ASSUME IInv, NEW x \in Fibers, do_io(x)
  PROVE  IInv'
  <1> USE DEF do_io, Begins, Goto
  <1>1. Sets' /\ Waiting' /\ Open'
    BY DEF IInv, Sets, Waiting, Open
  <1>2. Fields'
    BY DEF IInv, Fields
  <1>3. Places'
    BY UsesFacts DEF IInv, Places, Labels, Waits
  <1>4. Numbers'
    BY DEF IInv, Numbers
  <1>5. Shape'
    BY DEF IInv, Places, Waiting, Shape, Labels, Waits, InIO
  <1>6. Answers'
    BY DEF IInv, Places, Numbers, Answers, Waits, Answer, SleepCallback
  <1>7. Registered'
    BY DEF IInv, Places, Waiting, Shape, Registered, Waits
  <1>8. OneLeft'
    BY DEF IInv, Places, Waiting, Shape, Answers, Registered, OneLeft, Waits,
       Answer, HasEvent, HasSleeper, SleepCallback
  <1>9. TimeoutIsOwn'
    BY DEF IInv, Fields, Numbers, TimeoutIsOwn
  <1>10. QED
    BY <1>1, <1>2, <1>3, <1>4, <1>5, <1>6, <1>7, <1>8, <1>9 DEF IInv

\* connect() begins.
LEMMA connectKeeps ==
  ASSUME IInv, NEW x \in Fibers, connect(x)
  PROVE  IInv'
  <1> USE DEF connect, Begins, Goto
  <1>1. Sets' /\ Waiting' /\ Open'
    BY DEF IInv, Sets, Waiting, Open
  <1>2. Fields'
    BY DEF IInv, Fields
  <1>3. Places'
    BY UsesFacts DEF IInv, Places, Labels, Waits
  <1>4. Numbers'
    BY DEF IInv, Numbers
  <1>5. Shape'
    BY DEF IInv, Places, Waiting, Shape, Labels, Waits, InIO
  <1>6. Answers'
    BY DEF IInv, Places, Numbers, Answers, Waits, Answer, SleepCallback
  <1>7. Registered'
    BY DEF IInv, Places, Waiting, Shape, Registered, Waits
  <1>8. OneLeft'
    BY DEF IInv, Places, Waiting, Shape, Answers, Registered, OneLeft, Waits,
       Answer, HasEvent, HasSleeper, SleepCallback
  <1>9. TimeoutIsOwn'
    BY DEF IInv, Fields, Numbers, TimeoutIsOwn
  <1>10. QED
    BY <1>1, <1>2, <1>3, <1>4, <1>5, <1>6, <1>7, <1>8, <1>9 DEF IInv

\* The call returns; accept() opens a descriptor.
LEMMA ReturnsKeeps ==
  ASSUME IInv, NEW x \in Fibers, Returns(x)
  PROVE  IInv'
  <1> USE DEF Returns, Succeeds, Fails, Opens, Goto
  <1>1. Waiting' /\ Numbers' /\ TimeoutIsOwn'
    BY DEF IInv, Waiting, Numbers, TimeoutIsOwn
  <1>2. Fields'
    BY DEF IInv, Fields
  <1>3. Sets'
    BY DEF IInv, Sets
  <1>4. Places'
    BY DEF IInv, Places, Labels, Waits
  <1>5. Shape'
    BY DEF IInv, Places, Waiting, Shape, Labels, Waits, InIO
  <1>6. Answers'
    BY DEF IInv, Places, Numbers, Answers, Waits, Answer, SleepCallback
  <1>7. Registered'
    BY DEF IInv, Places, Waiting, Shape, Registered, Waits
  <1>8. OneLeft'
    BY DEF IInv, Places, Waiting, Shape, Answers, Registered, OneLeft, Waits,
       Answer, HasEvent, HasSleeper, SleepCallback
  <1>9. Open'
    BY DEF IInv, Fields, Sets, Open
  <1>10. QED
    BY <1>1, <1>2, <1>3, <1>4, <1>5, <1>6, <1>7, <1>8, <1>9 DEF IInv

\* The call returns EAGAIN.
LEMMA ReturnsAgainKeeps ==
  ASSUME IInv, NEW x \in Fibers, ReturnsAgain(x)
  PROVE  IInv'
  <1> USE DEF ReturnsAgain, Goto
  <1>1. Fields' /\ Sets' /\ Waiting' /\ Numbers' /\ TimeoutIsOwn' /\ Open'
    BY DEF IInv, Fields, Sets, Waiting, Numbers, TimeoutIsOwn, Open
  <1>2. Places'
    BY DEF IInv, Places, Labels, Waits
  <1>3. Shape'
    BY DEF IInv, Places, Waiting, Shape, Labels, Waits, InIO
  <1>4. Answers'
    BY DEF IInv, Places, Numbers, Answers, Waits, Answer, SleepCallback
  <1>5. Registered'
    BY DEF IInv, Places, Waiting, Shape, Registered, Waits
  <1>6. OneLeft'
    BY DEF IInv, Places, Waiting, Shape, Answers, Registered, OneLeft, Waits,
       Answer, HasEvent, HasSleeper, SleepCallback
  <1>7. QED
    BY <1>1, <1>2, <1>3, <1>4, <1>5, <1>6 DEF IInv

\* The call stops the thread.
LEMMA BlocksKeeps ==
  ASSUME IInv, NEW x \in Fibers, Blocks(x)
  PROVE  IInv'
  <1> USE DEF Blocks, Goto
  <1>1. Fields' /\ Sets' /\ Waiting' /\ Numbers' /\ TimeoutIsOwn' /\ Open'
    BY DEF IInv, Fields, Sets, Waiting, Numbers, TimeoutIsOwn, Open
  <1>2. Places'
    BY DEF IInv, Places, Labels, Waits
  <1>3. Shape'
    BY DEF IInv, Places, Waiting, Shape, Labels, Waits, InIO
  <1>4. Answers'
    BY DEF IInv, Places, Numbers, Answers, Waits, Answer, SleepCallback
  <1>5. Registered'
    BY DEF IInv, Places, Waiting, Shape, Registered, Waits
  <1>6. OneLeft'
    BY DEF IInv, Places, Waiting, Shape, Answers, Registered, OneLeft, Waits,
       Answer, HasEvent, HasSleeper, SleepCallback
  <1>7. QED
    BY <1>1, <1>2, <1>3, <1>4, <1>5, <1>6 DEF IInv

\* The call arms a timer.
LEMMA AddsTimerKeeps ==
  ASSUME IInv, NEW x \in Fibers, AddsTimer(x)
  PROVE  IInv'
  <1> USE DEF AddsTimer, Goto
  <1>1. Fields' /\ Sets' /\ Numbers' /\ TimeoutIsOwn' /\ Open'
    BY DEF IInv, Fields, Sets, Numbers, TimeoutIsOwn, Open
  <1>2. Waiting'
    BY DEF IInv, Waiting
  <1>3. Places'
    BY DEF IInv, Places, Labels, Waits
  <1>4. Shape'
    BY DEF IInv, Places, Waiting, Shape, Labels, Waits, InIO
  <1>5. Answers'
    BY DEF IInv, Places, Numbers, Answers, Waits, Answer, SleepCallback
  <1>6. Registered'
    BY DEF IInv, Places, Waiting, Shape, Registered, Waits
  <1>7. OneLeft'
    BY DEF IInv, Places, Waiting, Shape, Answers, Registered, OneLeft, Waits,
       Answer, HasEvent, HasSleeper, SleepCallback
  <1>8. QED
    BY <1>1, <1>2, <1>3, <1>4, <1>5, <1>6, <1>7 DEF IInv

\* It registers its event: nobody else can be registered there.
LEMMA AddsEventKeeps ==
  ASSUME IInv, NEW x \in Fibers, AddsEvent(x)
  PROVE  IInv'
  <1> USE DEF AddsEvent, Goto
  <1>1. Fields' /\ Sets' /\ Numbers' /\ TimeoutIsOwn' /\ Open'
    BY DEF IInv, Fields, Sets, Numbers, TimeoutIsOwn, Open
  <1>2. Waiting'
    BY UsesFacts DEF IInv, Waiting, Shape, InIO
  <1>3. Places'
    BY DEF IInv, Places, Labels, Waits
  <1>4. Shape'
    BY DEF IInv, Places, Waiting, Shape, Labels, Waits, InIO
  <1>5. Answers'
    BY DEF IInv, Places, Numbers, Answers, Waits, Answer, SleepCallback
  <1>6. Registered'
    BY UsesFacts DEF IInv, Places, Waiting, Shape, Registered, Waits, InIO
  <1>7. OneLeft'
    BY UsesFacts DEF IInv, Places, Waiting, Shape, Answers, Registered, OneLeft,
       Waits, Answer, HasEvent, HasSleeper, SleepCallback, InIO
  <1>8. QED
    BY <1>1, <1>2, <1>3, <1>4, <1>5, <1>6, <1>7 DEF IInv

\* The descriptor is closed: the call fails.
LEMMA AddEventFailsKeeps ==
  ASSUME IInv, NEW x \in Fibers, AddEventFails(x)
  PROVE  IInv'
  <1> USE DEF AddEventFails, Goto
  <1>1. Fields' /\ Sets' /\ Numbers' /\ TimeoutIsOwn' /\ Open'
    BY DEF IInv, Fields, Sets, Numbers, TimeoutIsOwn, Open
  <1>2. Waiting'
    BY DEF IInv, Waiting
  <1>3. Places'
    BY DEF IInv, Places, Labels, Waits
  <1>4. Shape'
    BY DEF IInv, Places, Waiting, Shape, Labels, Waits, InIO
  <1>5. Answers'
    BY DEF IInv, Places, Numbers, Answers, Waits, Answer, SleepCallback
  <1>6. Registered'
    BY DEF IInv, Places, Waiting, Shape, Registered, Waits
  <1>7. OneLeft'
    BY DEF IInv, Places, Waiting, Shape, Answers, Registered, OneLeft, Waits,
       Answer, HasEvent, HasSleeper, SleepCallback
  <1>8. QED
    BY <1>1, <1>2, <1>3, <1>4, <1>5, <1>6, <1>7 DEF IInv

\* The timer is cancelled.
LEMMA CancelsTimerKeeps ==
  ASSUME IInv, NEW x \in Fibers, CancelsTimer(x)
  PROVE  IInv'
  <1> USE DEF CancelsTimer, Goto
  <1>1. Fields' /\ Sets' /\ Numbers' /\ TimeoutIsOwn' /\ Open'
    BY DEF IInv, Fields, Sets, Numbers, TimeoutIsOwn, Open
  <1>2. Waiting'
    BY DEF IInv, Waiting
  <1>3. Places'
    BY DEF IInv, Places, Labels, Waits
  <1>4. Shape'
    BY DEF IInv, Places, Waiting, Shape, Labels, Waits, InIO
  <1>5. Answers'
    BY DEF IInv, Places, Numbers, Answers, Waits, Answer, SleepCallback
  <1>6. Registered'
    BY DEF IInv, Places, Waiting, Shape, Registered, Waits
  <1>7. OneLeft'
    BY DEF IInv, Places, Waiting, Shape, Answers, Registered, OneLeft, Waits,
       Answer, HasEvent, HasSleeper, SleepCallback
  <1>8. QED
    BY <1>1, <1>2, <1>3, <1>4, <1>5, <1>6, <1>7 DEF IInv

\* The call goes on, or ends.
LEMMA ChecksTimeoutKeeps ==
  ASSUME IInv, NEW x \in Fibers, ChecksTimeout(x)
  PROVE  IInv'
  <1> USE DEF ChecksTimeout, Goto
  <1>1. Fields' /\ Sets' /\ Waiting' /\ Numbers' /\ TimeoutIsOwn' /\ Open'
    BY DEF IInv, Fields, Sets, Waiting, Numbers, TimeoutIsOwn, Open
  <1>2. Places'
    BY DEF IInv, Places, Labels, Waits
  <1>3. Shape'
    BY DEF IInv, Places, Waiting, Shape, Labels, Waits, InIO
  <1>4. Answers'
    BY DEF IInv, Places, Numbers, Answers, Waits, Answer, SleepCallback
  <1>5. Registered'
    BY DEF IInv, Places, Waiting, Shape, Registered, Waits
  <1>6. OneLeft'
    BY DEF IInv, Places, Waiting, Shape, Answers, Registered, OneLeft, Waits,
       Answer, HasEvent, HasSleeper, SleepCallback
  <1>7. QED
    BY <1>1, <1>2, <1>3, <1>4, <1>5, <1>6 DEF IInv

-----------------------------------------------------------------------------
(* The other calls.                                                        *)

\* A sleep begins: its timer is the one thing that wakes the fiber.
LEMMA sleepKeeps ==
  ASSUME IInv, NEW x \in Fibers, sleep(x)
  PROVE  IInv'
  <1> USE DEF sleep, Begins, Goto
  <1>1. Sets' /\ Open'
    BY DEF IInv, Sets, Open
  <1>2. Fields'
    BY DEF IInv, Fields
  <1>3. Waiting'
    BY DEF IInv, Waiting
  <1>4. Places'
    BY DEF IInv, Places, Labels, Waits
  <1>5. Numbers'
    BY DEF IInv, Numbers
  <1>6. Shape'
    BY DEF IInv, Places, Waiting, Shape, Labels, Waits, InIO
  <1>7. Answers'
    BY DEF IInv, Places, Numbers, Answers, Waits, Answer, SleepCallback
  <1>8. Registered'
    BY DEF IInv, Places, Waiting, Shape, Registered, Waits
  <1>9. OneLeft'
    BY DEF IInv, Places, Waiting, Shape, Answers, Registered, OneLeft, Waits,
       Answer, HasEvent, HasSleeper, SleepCallback
  <1>10. TimeoutIsOwn'
    BY DEF IInv, Fields, Numbers, TimeoutIsOwn
  <1>11. QED
    BY <1>1, <1>2, <1>3, <1>4, <1>5, <1>6, <1>7, <1>8, <1>9, <1>10 DEF IInv

\* A descriptor is opened, and non-blocking.
LEMMA socketKeeps ==
  ASSUME IInv, NEW x \in Fibers, socket(x)
  PROVE  IInv'
  <1> USE DEF socket, Opens
  <1>1. Waiting' /\ Places' /\ Numbers' /\ Shape' /\ Answers' /\ Registered' /\
        OneLeft' /\ TimeoutIsOwn'
    BY DEF IInv, Waiting, Places, Numbers, Shape, Answers, Registered, OneLeft,
       TimeoutIsOwn, Waits, Answer, SleepCallback, HasEvent, HasSleeper
  <1>2. Fields'
    BY DEF IInv, Fields
  <1>3. Sets'
    BY DEF IInv, Sets
  <1>4. Open'
    BY DEF IInv, Fields, Sets, Open
  <1>5. QED
    BY <1>1, <1>2, <1>3, <1>4 DEF IInv

\* close() triggers all events of the descriptor.
LEMMA CancelsAllKeeps ==
  ASSUME IInv, NEW x \in Fibers, CancelsAll(x)
  PROVE  IInv'
  <1> USE DEF CancelsAll, Goto
  <1>0. PICK d \in m_datas : slot' = [slot EXCEPT ![x] = <<d, "READ">>] /\
        Trigger({d} \X Events)
    OBVIOUS
  <1>a. {d} \X Events \in SUBSET Slots /\ <<d, "READ">> \in Slots
    BY UsesFacts DEF IInv, Sets, Slots, Events
  <1>1. Fields' /\ Sets' /\ Numbers' /\ TimeoutIsOwn' /\ Open'
    BY DEF IInv, Fields, Sets, Numbers, TimeoutIsOwn, Open
  <1>2. Waiting'
    BY <1>0, <1>a, TriggerFacts DEF IInv, Waiting, OneLeft
  <1>3. Places'
    BY <1>0, <1>a DEF IInv, Places, Labels, Waits
  <1>4. Shape'
    BY <1>0, <1>a DEF IInv, Places, Waiting, Shape, Labels, Waits, InIO
  <1>5. Answers'
    BY DEF IInv, Places, Numbers, Answers, Waits, Answer, SleepCallback
  <1>6. Registered'
    BY <1>0, <1>a, TriggerFacts DEF IInv, Places, Waiting, Shape, Registered, Waits
  <1>7. OneLeft'
    BY <1>0, <1>a, TriggerFacts DEF IInv, Places, Waiting, Shape, Answers,
       Registered, OneLeft, Waits, Answer, HasEvent, HasSleeper, SleepCallback
  <1>8. QED
    BY <1>1, <1>2, <1>3, <1>4, <1>5, <1>6, <1>7 DEF IInv

\* It forgets the context.
LEMMA DeletesCtxKeeps ==
  ASSUME IInv, NEW x \in Fibers, DeletesCtx(x)
  PROVE  IInv'
  <1> USE DEF DeletesCtx, Goto
  <1>1. Fields' /\ Waiting' /\ Numbers' /\ TimeoutIsOwn' /\ Open'
    BY DEF IInv, Fields, Waiting, Numbers, TimeoutIsOwn, Open
  <1>2. Sets'
    BY DEF IInv, Sets
  <1>3. Places'
    BY DEF IInv, Places, Labels, Waits
  <1>4. Shape'
    BY DEF IInv, Places, Waiting, Shape, Labels, Waits, InIO
  <1>5. Answers'
    BY DEF IInv, Places, Numbers, Answers, Waits, Answer, SleepCallback
  <1>6. Registered'
    BY DEF IInv, Places, Waiting, Shape, Registered, Waits
  <1>7. OneLeft'
    BY DEF IInv, Places, Waiting, Shape, Answers, Registered, OneLeft, Waits,
       Answer, HasEvent, HasSleeper, SleepCallback
  <1>8. QED
    BY <1>1, <1>2, <1>3, <1>4, <1>5, <1>6, <1>7 DEF IInv

\* It closes the descriptor.
LEMMA ClosesKeeps ==
  ASSUME IInv, NEW x \in Fibers, Closes(x)
  PROVE  IInv'
  <1> USE DEF Closes, Goto
  <1>1. Fields' /\ Waiting' /\ Numbers' /\ TimeoutIsOwn'
    BY DEF IInv, Fields, Waiting, Numbers, TimeoutIsOwn
  <1>2. Sets'
    BY DEF IInv, Sets
  <1>3. Places'
    BY DEF IInv, Places, Labels, Waits
  <1>4. Shape'
    BY DEF IInv, Places, Waiting, Shape, Labels, Waits, InIO
  <1>5. Answers'
    BY DEF IInv, Places, Numbers, Answers, Waits, Answer, SleepCallback
  <1>6. Registered'
    BY DEF IInv, Places, Waiting, Shape, Registered, Waits
  <1>7. OneLeft'
    BY DEF IInv, Places, Waiting, Shape, Answers, Registered, OneLeft, Waits,
       Answer, HasEvent, HasSleeper, SleepCallback
  <1>8. Open'
    BY DEF IInv, Fields, Sets, Open
  <1>9. QED
    BY <1>1, <1>2, <1>3, <1>4, <1>5, <1>6, <1>7, <1>8 DEF IInv

\* The wish for non-blocking calls is noted.
LEMMA fcntlKeeps ==
  ASSUME IInv, NEW x \in Fibers, fcntl(x)
  PROVE  IInv'
  <1> USE DEF fcntl, Changes
  <1>1. Waiting' /\ Places' /\ Numbers' /\ Shape' /\ Answers' /\ Registered' /\
        OneLeft' /\ TimeoutIsOwn'
    BY DEF IInv, Waiting, Places, Numbers, Shape, Answers, Registered, OneLeft,
       TimeoutIsOwn, Waits, Answer, SleepCallback, HasEvent, HasSleeper
  <1>2. Fields'
    BY DEF IInv, Fields
  <1>3. Sets'
    BY DEF IInv, Sets
  <1>4. Open'
    BY DEF IInv, Fields, Sets, Open
  <1>5. QED
    BY <1>1, <1>2, <1>3, <1>4 DEF IInv

\* It is passed on to the kernel.
LEMMA ioctlKeeps ==
  ASSUME IInv, NEW x \in Fibers, ioctl(x)
  PROVE  IInv'
  <1> USE DEF ioctl, Changes
  <1>1. Waiting' /\ Places' /\ Numbers' /\ Shape' /\ Answers' /\ Registered' /\
        OneLeft' /\ TimeoutIsOwn'
    BY DEF IInv, Waiting, Places, Numbers, Shape, Answers, Registered, OneLeft,
       TimeoutIsOwn, Waits, Answer, SleepCallback, HasEvent, HasSleeper
  <1>2. Fields'
    BY DEF IInv, Fields
  <1>3. Sets'
    BY DEF IInv, Sets
  <1>4. Open'
    BY DEF IInv, Fields, Sets, Open
  <1>5. QED
    BY <1>1, <1>2, <1>3, <1>4 DEF IInv

\* A time-out is set.
LEMMA setsockoptKeeps ==
  ASSUME IInv, NEW x \in Fibers, setsockopt(x)
  PROVE  IInv'
  <1> USE DEF setsockopt
  <1>1. Fields' /\ Waiting' /\ Places' /\ Numbers' /\ Shape' /\ Answers' /\
        Registered' /\ OneLeft' /\ TimeoutIsOwn' /\ Open'
    BY DEF IInv, Fields, Waiting, Places, Numbers, Shape, Answers, Registered,
       OneLeft, TimeoutIsOwn, Open, Waits, Answer, SleepCallback, HasEvent,
       HasSleeper
  <1>2. Sets'
    BY UsesFacts DEF IInv, Sets, AllUses
  <1>3. QED
    BY <1>1, <1>2 DEF IInv

LEMMA NextKeeps ==
  ASSUME IInv, [Next]_vars
  PROVE  IInv'
  <1>1. ASSUME NEW f \in Fibers, Calls(f)
        PROVE  IInv'
    BY <1>1, do_ioKeeps, connectKeeps, ReturnsKeeps, ReturnsAgainKeeps, BlocksKeeps,
       AddsTimerKeeps, AddsEventKeeps, AddEventFailsKeeps, YieldToHoldKeeps,
       ResumesKeeps, CancelsTimerKeeps, ChecksTimeoutKeeps DEF Calls
  <1>2. ASSUME NEW f \in Fibers, OtherCalls(f)
        PROVE  IInv'
    BY <1>2, sleepKeeps, socketKeeps, CancelsAllKeeps, DeletesCtxKeeps, ClosesKeeps,
       fcntlKeeps, ioctlKeeps, setsockoptKeeps DEF OtherCalls
  <1>3. ASSUME NEW f \in Fibers, Progress(f)
        PROVE  IInv'
    BY <1>3, ExpiresKeeps, WakesSleeperKeeps, TimesOutKeeps, CancelsEventKeeps
    DEF Progress, RunsCallback
  <1>4. ASSUME NEW s \in AllUses, Becomes(s) \/ Drained(s) \/ Fires(s)
        PROVE  IInv'
    BY <1>4, BecomesKeeps, DrainedKeeps, FiresKeeps
  <1>5. CASE UNCHANGED vars
    BY <1>5 DEF IInv, Fields, Sets, Waiting, Places, Numbers, Shape, Answers,
       Answer, Registered,
       OneLeft, TimeoutIsOwn, Open, HasEvent, HasSleeper, SleepCallback, vars
  <1>6. QED
    BY <1>1, <1>2, <1>3, <1>4, <1>5 DEF Next

LEMMA Invariance == Spec => []IInv
  <1>1. IInv /\ [Next]_vars => IInv'
    BY NextKeeps
  <1>2. QED
    BY InitInv, <1>1, PTL DEF Spec

-----------------------------------------------------------------------------
\* Every variable has its type: in particular a fiber is never twice in the
\* queue (hook.cpp:100-124).
THEOREM HookTypes == Spec => []HookTypeOK
  <1>1. IInv => HookTypeOK
    BY DEF IInv, Fields, Sets, Waiting, Places, Numbers, Answers, Answer, HookTypeOK
  <1>2. QED
    BY <1>1, Invariance, PTL

\* A waiting fiber is woken by exactly one of event, time-out and close(), a
\* running one by none (hook.cpp:100-124, 335-344).
THEOREM WokenOnce == Spec => []OneWaker
  <1>1. ASSUME IInv, NEW f \in Fibers
        PROVE  Wakers(f) = IF pc[f] \in {"parking", "parked"} THEN 1 ELSE 0
    <2> DEFINE regs == {s \in Slots : waiter[s] = f}
    <2>1. Cardinality(regs) = IF HasEvent(f) THEN 1 ELSE 0
      <3>1. CASE HasEvent(f)
        <4>1. regs = {slot[f]}
          BY <1>1, <3>1 DEF IInv, Registered, HasEvent
        <4>2. QED
          BY <3>1, <4>1, FS_Singleton
      <3>2. CASE ~HasEvent(f)
        <4>1. regs = {}
          BY <1>1, <3>2 DEF IInv, Registered, HasEvent
        <4>2. QED
          BY <3>2, <4>1, FS_EmptySet
      <3>3. QED
        BY <3>1, <3>2
    <2>2. Cardinality(SleepersOf(f)) = IF HasSleeper(f) THEN 1 ELSE 0
      <3>1. CASE HasSleeper(f)
        <4>1. SleepersOf(f) = {SleepCallback(f)}
          BY <1>1, <3>1 DEF IInv, Answers, Answer, HasSleeper, SleepersOf,
             SleepCallback
        <4>2. QED
          BY <3>1, <4>1, FS_Singleton
      <3>2. CASE ~HasSleeper(f)
        <4>1. SleepersOf(f) = {}
          BY <1>1, <3>2 DEF IInv, Answers, Answer, HasSleeper, SleepersOf
        <4>2. QED
          BY <3>2, <4>1, FS_EmptySet
      <3>3. QED
        BY <3>1, <3>2
    <2>3. queued[f] \in 0..1
      BY <1>1 DEF IInv, Waiting
    <2>4. HasEvent(f) => pc[f] \in Waits /\ op[f] # "sleep"
      BY <1>1 DEF IInv, Registered, HasEvent
    <2>5. HasSleeper(f) => pc[f] \in Waits /\ op[f] = "sleep"
      BY <1>1 DEF IInv, Answers, Answer, HasSleeper, SleepCallback
    <2>6. timer[f] = "sleep" => pc[f] \in Waits /\ op[f] = "sleep"
      BY <1>1 DEF IInv, Shape
    <2>7. /\ pc[f] \notin Waits => queued[f] = 0
          /\ pc[f] \in Waits => HasEvent(f) \/ queued[f] = 1 \/ HasSleeper(f) \/ timer[f] = "sleep"
          /\ queued[f] = 1 => ~HasEvent(f) /\ ~HasSleeper(f) /\ timer[f] # "sleep"
          /\ HasSleeper(f) => timer[f] # "sleep"
      BY <1>1 DEF IInv, OneLeft
    <2>8. Wakers(f) = (IF HasEvent(f) THEN 1 ELSE 0) + queued[f]
            + (IF HasSleeper(f) THEN 1 ELSE 0) + (IF timer[f] = "sleep" THEN 1 ELSE 0)
      BY <2>1, <2>2 DEF Wakers
    <2> HIDE DEF regs
    <2>9. QED
      BY <2>3, <2>4, <2>5, <2>6, <2>7, <2>8 DEF Waits
  <1>2. IInv => OneWaker
    BY <1>1 DEF OneWaker
  <1>3. QED
    BY <1>2, Invariance, PTL

\* A call is only ever cancelled by its own timer (hook.cpp:102-110).
THEOREM OwnTimeouts == Spec => []TimeoutIsOwn
  <1>1. IInv => TimeoutIsOwn
    BY DEF IInv
  <1>2. QED
    BY <1>1, Invariance, PTL

\* Only a socket that ioctl() made blocking stops a thread (hook.cpp:82-95,
\* 423-444).
THEOREM BlocksAsAsked == Spec => BlocksOnlyUnblocked
  <1> DEFINE Allowed(f) ==
        pc[f] # "blocked" /\ pc'[f] = "blocked" => Fd(f) \in unblocked
  <1>1. ASSUME IInv, Next, NEW f \in Fibers
        PROVE  Allowed(f)
    <2>1. CASE Blocks(f)
      <3>1. slot[f][1] \in Fds
        BY <1>1, <2>1, UsesFacts DEF IInv, Shape, InIO, Blocks, Goto
      <3>2. QED
        BY <1>1, <2>1, <3>1 DEF IInv, Open, Blocks, WouldBlock, Fd
    <2>2. ASSUME NEW g \in Fibers, g # f, Calls(g) \/ OtherCalls(g)
          PROVE  pc'[f] = pc[f]
      BY <1>1, <2>2 DEF IInv, Places, Calls, OtherCalls, Goto, do_io, connect,
         Returns,
         ReturnsAgain, Blocks, AddsTimer, AddsEvent, AddEventFails, YieldToHold,
         Resumes,
         CancelsTimer, ChecksTimeout, sleep, socket, CancelsAll, DeletesCtx, Closes,
         fcntl, ioctl, setsockopt
    <2>3. ASSUME Calls(f) \/ OtherCalls(f), ~Blocks(f)
          PROVE  pc'[f] # "blocked" \/ pc'[f] = pc[f]
      BY <1>1, <2>3 DEF IInv, Places, Calls, OtherCalls, Goto, do_io, connect,
         Returns,
         ReturnsAgain, AddsTimer, AddsEvent, AddEventFails, YieldToHold, Resumes,
         CancelsTimer, ChecksTimeout, sleep, socket, CancelsAll, DeletesCtx, Closes,
         fcntl, ioctl, setsockopt
    <2>4. ASSUME \/ \E g \in Fibers : Progress(g)
                 \/ \E s \in AllUses : Becomes(s) \/ Drained(s) \/ Fires(s)
          PROVE  UNCHANGED pc
      BY <2>4 DEF Progress, RunsCallback, Expires, WakesSleeper, TimesOut,
         CancelsEvent,
         Becomes, Drained, Fires
    <2>5. QED
      BY <1>1, <2>1, <2>2, <2>3, <2>4 DEF Next
  <1>2. IInv /\ [Next]_vars => [\A f \in Fibers : Allowed(f)]_vars
    BY <1>1
  <1>3. QED
    BY <1>2, Invariance, PTL DEF Spec, BlocksOnlyUnblocked
=============================================================================
