------------------------------- MODULE Thread -------------------------------
(***************************************************************************)
(* sylar::Thread (thread.cpp) with its Semaphore (mutex.cpp), as one owner *)
(* uses it: Scheduler::start() and stop() (scheduler.cpp), and threads     *)
(* that a program makes itself, which it may join, and drop at any time.   *)
(* What a pool thread does in Scheduler::run() is module Scheduler; here   *)
(* it needs m_mutex for its scans, and ends when it is stopped.            *)
(***************************************************************************)
EXTENDS Integers, Sequences

CONSTANTS
  m_threadCount, \* the Thread objects of the scheduler are 1..m_threadCount
  Own            \* Thread objects that the program makes itself
Pool == 1..m_threadCount
ASSUME ThreadAssumption ==
  m_threadCount \in Nat /\ Own \subseteq Int \ (0..m_threadCount)

Objects == Pool \cup Own
Unset   == 0     \* m_id before it is set; the id of the thread of i is i

VARIABLES
  owner,         \* what the owner does
  at, made,      \* its loop index; the object whose constructor it is in
  locked,        \* the owner holds Scheduler::m_mutex; a scan is one step
  m_threads, m_threadIds, m_autostop, \* of the scheduler
  alive,         \* Thread objects that exist
  m_id, m_semaphore, \* of each object
  m_thread,      \* objects whose m_thread is not 0
  run,           \* of each object: where its thread is in run()
  reclaimed      \* how often each thread was joined or detached

schedulerVars == <<m_threads, m_threadIds, m_autostop>>
threadVars    == <<alive, m_id, m_semaphore, m_thread, run, reclaimed>>
vars == <<owner, at, made, locked, schedulerVars, threadVars>>

Init ==
  /\ owner = "idle" /\ at = 1 /\ made = 0 /\ locked = FALSE
  /\ m_threads = {} /\ m_threadIds = << >> /\ m_autostop = FALSE
  /\ alive = {} /\ m_thread = {}
  /\ m_id = [i \in Objects |-> Unset] /\ m_semaphore = [i \in Objects |-> 0]
  /\ run = [i \in Objects |-> "none"] /\ reclaimed = [i \in Objects |-> 0]

-----------------------------------------------------------------------------
(* The constructor: create the thread and wait until it runs.              *)

Creates(i) ==
  /\ run[i] = "none" /\ owner' = "construct" /\ made' = i
  /\ run' = [run EXCEPT ![i] = "started"]
  /\ alive' = alive \cup {i} /\ m_thread' = m_thread \cup {i}
  /\ UNCHANGED <<at, locked, schedulerVars, m_id, m_semaphore, reclaimed>>
\* Mutant: the constructor does not wait.
Passes(i) == UNCHANGED m_semaphore
Waits(i) ==
  m_semaphore[i] > 0 /\ m_semaphore' = [m_semaphore EXCEPT ![i] = @ - 1]
\* pthread_create() fails: nobody catches the exception, the program ends.
CreateFails(i) ==
  /\ run[i] = "none" /\ owner' = "ended"
  /\ UNCHANGED <<at, made, locked, schedulerVars, threadVars>>

(* ~Thread() detaches a thread that was not joined.                        *)
Destroys(S) ==
  /\ alive' = alive \ S /\ m_thread' = m_thread \ S
  /\ reclaimed' = [i \in Objects |->
       reclaimed[i] + (IF i \in S \cap m_thread THEN 1 ELSE 0)]

\* Mutant: join() keeps m_thread.
JoinKeeps(i) ==
  /\ run[i] = "done" /\ UNCHANGED m_thread
  /\ reclaimed' = [reclaimed EXCEPT ![i] = @ + 1]
\* pthread_join() waits for the end of the thread; a second join() does nothing.
join(i) ==
  \/ /\ i \in m_thread /\ run[i] = "done" /\ m_thread' = m_thread \ {i}
     /\ reclaimed' = [reclaimed EXCEPT ![i] = @ + 1]
  \/ i \notin m_thread /\ UNCHANGED <<m_thread, reclaimed>>

-----------------------------------------------------------------------------
(* run(), the function of the thread.                                      *)

SetsId(i) ==
  /\ run[i] = "started" /\ run' = [run EXCEPT ![i] = "set"]
  /\ m_id' = [m_id EXCEPT ![i] = i]
  /\ UNCHANGED <<owner, at, made, locked, schedulerVars, alive, m_semaphore,
                 m_thread, reclaimed>>
\* Mutant: after the first scan of cb().
NotifiesAfterScan(i) ==
  /\ run[i] = "set" /\ ~locked /\ run' = [run EXCEPT ![i] = "running"]
  /\ m_semaphore' = [m_semaphore EXCEPT ![i] = @ + 1]
  /\ UNCHANGED <<owner, at, made, locked, schedulerVars, alive, m_id, m_thread,
                 reclaimed>>
Notifies(i) ==
  /\ run[i] = "set" /\ run' = [run EXCEPT ![i] = "running"]
  /\ m_semaphore' = [m_semaphore EXCEPT ![i] = @ + 1]
  /\ UNCHANGED <<owner, at, made, locked, schedulerVars, alive, m_id, m_thread,
                 reclaimed>>
\* cb() of the pool is Scheduler::run(): it scans under m_mutex and returns
\* after stop(); the one of another thread may return at any time.
Scans(i) ==
  /\ i \in Pool /\ run[i] = "running" /\ ~locked
  /\ run' = [run EXCEPT ![i] = "scanned"]
  /\ UNCHANGED <<owner, at, made, locked, schedulerVars, alive, m_id,
                 m_semaphore, m_thread, reclaimed>>
Ends(i) ==
  /\ IF i \in Pool THEN run[i] = "scanned" /\ m_autostop ELSE run[i] = "running"
  /\ run' = [run EXCEPT ![i] = "done"]
  /\ UNCHANGED <<owner, at, made, locked, schedulerVars, alive, m_id,
                 m_semaphore, m_thread, reclaimed>>

-----------------------------------------------------------------------------
(* Scheduler::start() holds m_mutex while it makes the threads.            *)

start ==
  /\ owner = "idle" /\ at = 1 /\ m_threads = {} /\ ~m_autostop
  /\ owner' = "start" /\ locked' = TRUE
  /\ UNCHANGED <<at, made, schedulerVars, threadVars>>
NewThread ==
  owner = "start" /\ at \in Pool /\ (Creates(at) \/ CreateFails(at))
Constructed ==
  /\ owner = "construct" /\ made \in Pool /\ Waits(made)
  /\ owner' = "start" /\ at' = at + 1
  /\ m_threads' = m_threads \cup {made}
  /\ m_threadIds' = Append(m_threadIds, m_id[made])
  /\ UNCHANGED <<made, locked, m_autostop, alive, m_id, m_thread, run, reclaimed>>
Started ==
  /\ owner = "start" /\ at \notin Pool
  /\ owner' = "idle" /\ locked' = FALSE
  /\ UNCHANGED <<at, made, schedulerVars, threadVars>>

(* stop() takes the threads out of the scheduler under the lock, joins one *)
(* after the other, and destroys them when all are joined.                 *)
stop ==
  /\ owner = "idle" /\ m_threads # {}
  /\ owner' = "stop" /\ m_autostop' = TRUE /\ at' = 1
  /\ UNCHANGED <<made, locked, m_threads, m_threadIds, threadVars>>
StopJoins ==
  /\ owner = "stop" /\ at \in Pool /\ join(at) /\ at' = at + 1
  /\ UNCHANGED <<owner, made, locked, schedulerVars, alive, m_id, m_semaphore, run>>
Stopped ==
  /\ owner = "stop" /\ at \notin Pool
  /\ owner' = "idle" /\ m_threads' = {} /\ Destroys(m_threads)
  /\ UNCHANGED <<at, made, locked, m_threadIds, m_autostop, m_id, m_semaphore, run>>

(* The program's own threads.                                              *)
NewOwn == owner = "idle" /\ \E i \in Own : Creates(i) \/ CreateFails(i)
ConstructedOwn ==
  /\ owner = "construct" /\ made \in Own /\ Waits(made) /\ owner' = "idle"
  /\ UNCHANGED <<at, made, locked, schedulerVars, alive, m_id, m_thread, run,
                 reclaimed>>
JoinsOwn == owner = "idle" /\ \E i \in Own \cap alive :
  /\ join(i)
  /\ UNCHANGED <<owner, at, made, locked, schedulerVars, alive, m_id, m_semaphore, run>>
DropsOwn == owner = "idle" /\ \E i \in Own \cap alive :
  /\ Destroys({i})
  /\ UNCHANGED <<owner, at, made, locked, schedulerVars, m_id, m_semaphore, run>>

-----------------------------------------------------------------------------
OwnerSteps ==
  NewThread \/ Constructed \/ Started \/ StopJoins \/ Stopped \/ ConstructedOwn
ThreadSteps(i) == SetsId(i) \/ Notifies(i) \/ Scans(i) \/ Ends(i)
\* The program is over when the owner ended; nothing happens after.
Next ==
  /\ owner # "ended"
  /\ \/ start \/ stop \/ NewOwn \/ JoinsOwn \/ DropsOwn \/ OwnerSteps
     \/ \E i \in Objects : ThreadSteps(i)
Spec == Init /\ [][Next]_vars
\* Every thread runs; cb() of the program's own threads may run for ever.
FairSpec == Spec /\ WF_vars(owner # "ended" /\ OwnerSteps)
  /\ (\A i \in Objects : WF_vars(owner # "ended" /\ (SetsId(i) \/ Notifies(i))))
  /\ (\A i \in Pool : WF_vars(owner # "ended" /\ ThreadSteps(i)))

-----------------------------------------------------------------------------
\* Types; a semaphore is above zero only while the owner is in the constructor
\* that waits for it; the lock is held inside start() alone.
ThreadTypeOK ==
  /\ owner \in {"idle", "start", "construct", "stop", "ended"}
  /\ m_threads \subseteq alive \cap Pool /\ alive \subseteq Objects
  /\ m_thread \subseteq alive
  /\ m_id \in [Objects -> {Unset} \cup Objects]
  /\ m_semaphore \in [Objects -> 0..1]
  /\ \A i \in Objects : m_semaphore[i] = 1 => owner = "construct" /\ made = i
  /\ run \in [Objects -> {"none", "started", "set", "running", "scanned", "done"}]
  /\ locked => owner \in {"start", "construct", "ended"}

\* start() collects the ids that the threads really have, in their order: the
\* constructor returns after the new thread has set m_id (scheduler.cpp:66).
IdsAreReal == \A k \in DOMAIN m_threadIds : m_threadIds[k] = k

\* A thread uses its Thread object only while it exists: until it notified the
\* constructor, and in the pool, where cb() may ask for it, until it ended
\* (thread.cpp:60-72, scheduler.cpp:104-110).
NoUseAfterFree == \A i \in Objects :
  (\/ run[i] \in {"started", "set"}
   \/ i \in Pool /\ run[i] \in {"running", "scanned"}) => i \in alive

\* Every thread is joined or detached once when its object is gone, and never
\* twice (thread.cpp:41-58).
ReclaimedOnce == \A i \in Objects :
  /\ reclaimed[i] <= 1
  /\ run[i] # "none" /\ i \notin alive => reclaimed[i] = 1
  /\ i \in m_thread => reclaimed[i] = 0

\* start() and stop() return, although the new threads need the lock that
\* start() holds while it waits for them (scheduler.cpp:56-68).
OwnerReturns ==
  owner \in {"start", "construct", "stop"} ~> owner \in {"idle", "ended"}
=============================================================================
