---------------------------- MODULE ThreadProofs ----------------------------
(***************************************************************************)
(* Proofs about sylar::Thread, for any number of pool threads and any set  *)
(* of threads of the program's own.                                        *)
(*                                                                         *)
(* The invariant says where the owner is while a thread has not notified   *)
(* it: in the constructor of just that object.  What start() collects and  *)
(* what stop() may destroy follows from that.                              *)
(***************************************************************************)
EXTENDS Thread, TLAPS

USE ThreadAssumption
USE DEF Objects, Pool, Unset

OwnerTypes ==
  /\ owner \in {"idle", "start", "construct", "stop", "ended"}
  /\ at \in Nat /\ at > 0 /\ made \in Int
  /\ m_threads \subseteq Pool /\ m_threadIds \in Seq(Int)
  /\ alive \subseteq Objects /\ m_thread \subseteq alive
ObjectTypes ==
  /\ m_id \in [Objects -> {Unset} \cup Objects]
  /\ m_semaphore \in [Objects -> 0..1]
  /\ run \in [Objects -> {"none", "started", "set", "running", "scanned", "done"}]
  /\ reclaimed \in [Objects -> 0..1]
Types == OwnerTypes /\ ObjectTypes

\* Until stop() the index of start() tells what it has made.
Progress ==
  /\ ~m_autostop => /\ at \in 1..(m_threadCount + 1)
                    /\ Len(m_threadIds) = at - 1 /\ m_threads = 1..(at - 1)
  /\ owner = "start" \/ (owner = "construct" /\ made \in Pool)
       => locked /\ ~m_autostop
  /\ owner = "construct" /\ made \in Own => ~locked
  /\ owner = "stop" => m_autostop
  /\ owner = "construct" => made \in alive
  /\ owner = "construct" /\ made \in Pool => made = at
  /\ locked => owner \in {"start", "construct", "ended"}

\* A thread that has not notified its constructor, or whose notification was
\* not taken, is the one that the owner waits for.
Handshake == \A i \in Objects :
  /\ run[i] \in {"started", "set"} =>
       i \in alive /\ owner = "construct" /\ made = i /\ m_semaphore[i] = 0
  /\ run[i] = "set" => m_id[i] = i
  /\ m_semaphore[i] = 1 => owner = "construct" /\ made = i /\ m_id[i] = i

\* Objects of the pool outlive their threads, and stop() destroys what it
\* has joined.
Pooled ==
  /\ m_threads \subseteq alive
  /\ \A i \in Pool : run[i] \in {"running", "scanned"} => i \in alive
  /\ owner = "stop" => \A i \in m_threads : i < at => i \notin m_thread

\* The handle of a thread is kept until its one join or detach, which is not
\* before its end if the object is one of the pool and still exists.
Handles == \A i \in Objects :
  /\ i \in m_thread <=> run[i] # "none" /\ reclaimed[i] = 0
  /\ run[i] = "none" => i \notin alive /\ reclaimed[i] = 0
  /\ i \in Pool /\ i \in alive /\ i \notin m_thread => run[i] = "done"

IInv == Types /\ Progress /\ Handshake /\ Pooled /\ Handles /\ IdsAreReal

LEMMA IdsAreNumbers == \A id \in {Unset} \cup Objects : id \in Int
  OBVIOUS

LEMMA InitInv == Init => IInv
  <1> SUFFICES ASSUME Init PROVE IInv
    OBVIOUS
  <1> USE DEF Init
  <1>1. Types
    <2>1. OwnerTypes
      BY DEF OwnerTypes
    <2>2. ObjectTypes
      BY DEF ObjectTypes
    <2>3. QED
      BY <2>1, <2>2 DEF Types, OwnerTypes, ObjectTypes
  <1>2. Progress
    BY DEF Progress
  <1>3. Handshake /\ Pooled /\ Handles
    BY DEF Handshake, Pooled, Handles
  <1>4. IdsAreReal
    BY DEF IdsAreReal
  <1>5. QED
    BY <1>1, <1>2, <1>3, <1>4 DEF IInv

\* The constructor begins: its object is the one the owner waits for.
LEMMA CreatesKeeps ==
  ASSUME IInv, NEW x \in Objects, Creates(x),
         x \in Pool => owner = "start" /\ x = at, x \in Own => owner = "idle"
  PROVE  IInv'
  <1> USE DEF Creates, schedulerVars, threadVars
  <1>1. Types'
    BY DEF IInv, Types, OwnerTypes, ObjectTypes, Handles
  <1>2. Progress'
    BY DEF IInv, Types, OwnerTypes, ObjectTypes, Progress, Pooled
  <1>3. Handshake'
    BY DEF IInv, Types, OwnerTypes, ObjectTypes, Progress, Handshake
  <1>4. Pooled'
    BY DEF IInv, Types, OwnerTypes, ObjectTypes, Progress, Handshake, Pooled,
       Handles
  <1>5. Handles'
    BY DEF IInv, Types, OwnerTypes, ObjectTypes, Progress, Handshake, Pooled,
       Handles
  <1>6. IdsAreReal'
    BY DEF IInv, Types, OwnerTypes, ObjectTypes, Progress, Handshake, IdsAreReal
  <1>7. QED
    BY <1>1, <1>2, <1>3, <1>4, <1>5, <1>6 DEF IInv

\* pthread_create() failed: the program ends.
LEMMA FailureKeeps ==
  ASSUME IInv, NEW x \in Objects, CreateFails(x), owner \in {"idle", "start"}
  PROVE  IInv'
  <1> USE DEF CreateFails, schedulerVars, threadVars
  <1>1. Types'
    BY DEF IInv, Types, OwnerTypes, ObjectTypes, Handles
  <1>2. Progress'
    BY DEF IInv, Types, OwnerTypes, ObjectTypes, Progress, Pooled
  <1>3. Handshake'
    BY DEF IInv, Types, OwnerTypes, ObjectTypes, Progress, Handshake
  <1>4. Pooled'
    BY DEF IInv, Types, OwnerTypes, ObjectTypes, Progress, Handshake, Pooled,
       Handles
  <1>5. Handles'
    BY DEF IInv, Types, OwnerTypes, ObjectTypes, Progress, Handshake, Pooled,
       Handles
  <1>6. IdsAreReal'
    BY DEF IInv, Types, OwnerTypes, ObjectTypes, Progress, Handshake, IdsAreReal
  <1>7. QED
    BY <1>1, <1>2, <1>3, <1>4, <1>5, <1>6 DEF IInv

\* The semaphore was notified, so m_id is set: start() collects it.
LEMMA ConstructedKeeps ==
  ASSUME IInv, Constructed
  PROVE  IInv'
  <1> USE DEF Constructed, Waits, schedulerVars, threadVars
  <1>1. Types'
    <2>1. m_semaphore[made] = 1 /\ m_id[made] \in Int
      <3>1. m_semaphore[made] \in 0..1 /\ m_id[made] \in {Unset} \cup Objects
        BY DEF IInv, Types, ObjectTypes
      <3>2. m_semaphore[made] = 1
        BY <3>1
      <3>3. m_id[made] \in Int
        BY <3>1, IdsAreNumbers
      <3>4. QED
        BY <3>2, <3>3
    <2>2. m_semaphore' \in [Objects -> 0..1]
      BY <2>1 DEF IInv, Types, ObjectTypes
    <2>3. m_threadIds' \in Seq(Int)
      BY <2>1 DEF IInv, Types, OwnerTypes
    <2>4. at' \in Nat /\ at' > 0 /\ m_threads' \subseteq Pool
      BY DEF IInv, Types, OwnerTypes
    <2>5. QED
      BY <2>2, <2>3, <2>4 DEF IInv, Types, OwnerTypes, ObjectTypes
  <1>2. Progress'
    BY DEF IInv, Types, OwnerTypes, ObjectTypes, Progress, Pooled
  <1>3. Handshake'
    BY DEF IInv, Types, OwnerTypes, ObjectTypes, Progress, Handshake
  <1>4. Pooled'
    BY DEF IInv, Types, OwnerTypes, ObjectTypes, Progress, Handshake, Pooled,
       Handles
  <1>5. Handles'
    BY DEF IInv, Types, OwnerTypes, ObjectTypes, Progress, Handshake, Pooled,
       Handles
  <1>6. IdsAreReal'
    BY DEF IInv, Types, OwnerTypes, ObjectTypes, Progress, Handshake, IdsAreReal
  <1>7. QED
    BY <1>1, <1>2, <1>3, <1>4, <1>5, <1>6 DEF IInv

\* The constructor of a thread of the program's own returns.
LEMMA ConstructedOwnKeeps ==
  ASSUME IInv, ConstructedOwn
  PROVE  IInv'
  <1> USE DEF ConstructedOwn, Waits, schedulerVars, threadVars
  <1>1. Types'
    BY DEF IInv, Types, OwnerTypes, ObjectTypes, Handles
  <1>2. Progress'
    BY DEF IInv, Types, OwnerTypes, ObjectTypes, Progress, Pooled
  <1>3. Handshake'
    BY DEF IInv, Types, OwnerTypes, ObjectTypes, Progress, Handshake
  <1>4. Pooled'
    BY DEF IInv, Types, OwnerTypes, ObjectTypes, Progress, Handshake, Pooled,
       Handles
  <1>5. Handles'
    BY DEF IInv, Types, OwnerTypes, ObjectTypes, Progress, Handshake, Pooled,
       Handles
  <1>6. IdsAreReal'
    BY DEF IInv, Types, OwnerTypes, ObjectTypes, Progress, Handshake, IdsAreReal
  <1>7. QED
    BY <1>1, <1>2, <1>3, <1>4, <1>5, <1>6 DEF IInv

\* start() takes the lock.
LEMMA StartKeeps ==
  ASSUME IInv, start
  PROVE  IInv'
  <1> USE DEF start, schedulerVars, threadVars
  <1>1. Types'
    BY DEF IInv, Types, OwnerTypes, ObjectTypes, Handles
  <1>2. Progress'
    BY DEF IInv, Types, OwnerTypes, ObjectTypes, Progress, Pooled
  <1>3. Handshake'
    BY DEF IInv, Types, OwnerTypes, ObjectTypes, Progress, Handshake
  <1>4. Pooled'
    BY DEF IInv, Types, OwnerTypes, ObjectTypes, Progress, Handshake, Pooled,
       Handles
  <1>5. Handles'
    BY DEF IInv, Types, OwnerTypes, ObjectTypes, Progress, Handshake, Pooled,
       Handles
  <1>6. IdsAreReal'
    BY DEF IInv, Types, OwnerTypes, ObjectTypes, Progress, Handshake, IdsAreReal
  <1>7. QED
    BY <1>1, <1>2, <1>3, <1>4, <1>5, <1>6 DEF IInv

\* start() has made all threads.
LEMMA StartedKeeps ==
  ASSUME IInv, Started
  PROVE  IInv'
  <1> USE DEF Started, schedulerVars, threadVars
  <1>1. Types'
    BY DEF IInv, Types, OwnerTypes, ObjectTypes, Handles
  <1>2. Progress'
    BY DEF IInv, Types, OwnerTypes, ObjectTypes, Progress, Pooled
  <1>3. Handshake'
    BY DEF IInv, Types, OwnerTypes, ObjectTypes, Progress, Handshake
  <1>4. Pooled'
    BY DEF IInv, Types, OwnerTypes, ObjectTypes, Progress, Handshake, Pooled,
       Handles
  <1>5. Handles'
    BY DEF IInv, Types, OwnerTypes, ObjectTypes, Progress, Handshake, Pooled,
       Handles
  <1>6. IdsAreReal'
    BY DEF IInv, Types, OwnerTypes, ObjectTypes, Progress, Handshake, IdsAreReal
  <1>7. QED
    BY <1>1, <1>2, <1>3, <1>4, <1>5, <1>6 DEF IInv

\* stop() begins; nothing is joined yet.
LEMMA StopKeeps ==
  ASSUME IInv, stop
  PROVE  IInv'
  <1> USE DEF stop, schedulerVars, threadVars
  <1>1. Types'
    BY DEF IInv, Types, OwnerTypes, ObjectTypes, Handles
  <1>2. Progress'
    BY DEF IInv, Types, OwnerTypes, ObjectTypes, Progress, Pooled
  <1>3. Handshake'
    BY DEF IInv, Types, OwnerTypes, ObjectTypes, Progress, Handshake
  <1>4. Pooled'
    BY DEF IInv, Types, OwnerTypes, ObjectTypes, Progress, Handshake, Pooled,
       Handles
  <1>5. Handles'
    BY DEF IInv, Types, OwnerTypes, ObjectTypes, Progress, Handshake, Pooled,
       Handles
  <1>6. IdsAreReal'
    BY DEF IInv, Types, OwnerTypes, ObjectTypes, Progress, Handshake, IdsAreReal
  <1>7. QED
    BY <1>1, <1>2, <1>3, <1>4, <1>5, <1>6 DEF IInv

\* A thread of the pool is joined after its end.
LEMMA StopJoinsKeeps ==
  ASSUME IInv, StopJoins
  PROVE  IInv'
  <1> USE DEF StopJoins, join, schedulerVars, threadVars
  <1>1. Types'
    <2>1. at' \in Nat /\ at' > 0
      BY DEF IInv, Types, OwnerTypes
    <2>2. m_thread' \subseteq m_thread
      BY DEF IInv, Types, OwnerTypes
    <2>3. /\ owner' \in {"idle", "start", "construct", "stop", "ended"}
          /\ made' \in Int /\ m_threads' \subseteq Pool /\ alive' \subseteq Objects
      BY DEF IInv, Types, OwnerTypes
    <2>4. m_threadIds' \in Seq(Int) /\ m_thread' \subseteq alive'
      BY <2>2 DEF IInv, Types, OwnerTypes
    <2>5. at \in m_thread => reclaimed[at] = 0
      BY DEF IInv, Handles, Types, OwnerTypes
    <2>6. reclaimed' \in [Objects -> 0..1]
      BY <2>5 DEF IInv, Types, OwnerTypes, ObjectTypes
    <2>7. QED
      BY <2>1, <2>3, <2>4, <2>6 DEF IInv, Types, OwnerTypes, ObjectTypes
  <1>2. Progress'
    BY DEF IInv, Types, OwnerTypes, ObjectTypes, Progress, Pooled
  <1>3. Handshake'
    BY DEF IInv, Types, OwnerTypes, ObjectTypes, Progress, Handshake
  <1>4. Pooled'
    BY DEF IInv, Types, OwnerTypes, ObjectTypes, Progress, Handshake, Pooled,
       Handles
  <1>5. Handles'
    <2>1. reclaimed \in [Objects -> 0..1] /\ at \in Objects
      BY DEF IInv, Types, ObjectTypes
    <2>2. \A i \in Objects : i # at =>
            (i \in m_thread' <=> i \in m_thread) /\ reclaimed'[i] = reclaimed[i]
      BY <2>1
    <2>3. CASE at \notin m_thread
      BY <2>3 DEF IInv, Handles
    <2>4. CASE at \in m_thread
      <3>1. reclaimed[at] = 0 /\ run[at] # "none"
        BY <2>1, <2>4 DEF IInv, Handles
      <3>2. at \notin m_thread' /\ reclaimed'[at] = 1 /\ run[at] = "done"
        BY <2>1, <2>4, <3>1
      <3>3. UNCHANGED <<run, alive>>
        OBVIOUS
      <3>4. QED
        BY <2>2, <3>1, <3>2, <3>3 DEF IInv, Handles
    <2>5. QED
      BY <2>3, <2>4
  <1>6. IdsAreReal'
    BY DEF IInv, Types, OwnerTypes, ObjectTypes, Progress, Handshake, IdsAreReal
  <1>7. QED
    BY <1>1, <1>2, <1>3, <1>4, <1>5, <1>6 DEF IInv

\* All of the pool are joined, so none of them runs when its object goes.
LEMMA StoppedKeeps ==
  ASSUME IInv, Stopped
  PROVE  IInv'
  <1> USE DEF Stopped, Destroys, schedulerVars
  <1>1. \A i \in m_threads : i \notin m_thread /\ run[i] = "done"
    BY DEF IInv, Types, OwnerTypes, Pooled, Handles
  <1>2. alive' = alive \ m_threads /\ m_thread' = m_thread
    BY <1>1
  <1>3. \A i \in Objects : reclaimed'[i] = reclaimed[i]
    BY <1>1 DEF IInv, Types, ObjectTypes
  <1>4. Types'
    BY <1>1, <1>2 DEF IInv, Types, OwnerTypes, ObjectTypes
  <1>5. Progress' /\ IdsAreReal'
    BY DEF IInv, Progress, IdsAreReal
  <1>6. Handshake'
    BY <1>2 DEF IInv, Handshake
  <1>7. Pooled'
    BY <1>1, <1>2 DEF IInv, Pooled
  <1>8. Handles'
    BY <1>2, <1>3 DEF IInv, Types, OwnerTypes, Handles
  <1>9. QED
    BY <1>4, <1>5, <1>6, <1>7, <1>8 DEF IInv

\* A thread of the program's own is joined.
LEMMA JoinsOwnKeeps ==
  ASSUME IInv, JoinsOwn
  PROVE  IInv'
  <1>1. PICK x \in Own \cap alive :
          /\ join(x) /\ owner = "idle"
          /\ UNCHANGED <<owner, at, made, locked, schedulerVars, alive, m_id,
                         m_semaphore, run>>
    BY DEF JoinsOwn
  <1>2. CASE x \in m_thread
    <2> USE DEF schedulerVars
    <2>1. /\ run[x] = "done" /\ m_thread' = m_thread \ {x}
          /\ reclaimed' = [reclaimed EXCEPT ![x] = @ + 1]
      BY <1>1, <1>2 DEF join
    <2>2. reclaimed[x] = 0 /\ reclaimed' = [reclaimed EXCEPT ![x] = 1]
      <3>1. reclaimed[x] = 0
        BY <1>2 DEF IInv, Types, OwnerTypes, Handles
      <3>2. QED
        BY <2>1, <3>1
    <2>3. Types'
      BY <1>1, <2>1, <2>2 DEF IInv, Types, OwnerTypes, ObjectTypes
    <2>4. Progress' /\ Handshake' /\ IdsAreReal'
      BY <1>1 DEF IInv, Progress, Handshake, IdsAreReal
    <2>5. Pooled'
      BY <1>1, <2>1 DEF IInv, Pooled
    <2>6. Handles'
      BY <1>1, <2>1, <2>2 DEF IInv, Types, OwnerTypes, ObjectTypes, Handles
    <2>7. QED
      BY <2>3, <2>4, <2>5, <2>6 DEF IInv
  <1>3. CASE x \notin m_thread
    BY <1>1, <1>3 DEF join, schedulerVars, IInv, Types, OwnerTypes, ObjectTypes,
       Progress, Handshake,
       Pooled, Handles, IdsAreReal
  <1>4. QED
    BY <1>2, <1>3

\* It is dropped, and detached unless it was joined.
LEMMA DropsOwnKeeps ==
  ASSUME IInv, DropsOwn
  PROVE  IInv'
  <1> USE DEF schedulerVars
  <1>1. PICK x \in Own \cap alive :
          /\ Destroys({x}) /\ owner = "idle"
          /\ UNCHANGED <<owner, at, made, locked, schedulerVars, m_id,
                         m_semaphore, run>>
    BY DEF DropsOwn
  <1>2. /\ alive' = alive \ {x} /\ m_thread' = m_thread \ {x}
        /\ reclaimed' = [i \in Objects |->
             reclaimed[i] + (IF i \in {x} \cap m_thread THEN 1 ELSE 0)]
    BY <1>1 DEF Destroys
  <1>3. \A i \in Objects :
          reclaimed'[i] = IF i = x /\ x \in m_thread THEN 1 ELSE reclaimed[i]
    BY <1>2 DEF IInv, Types, OwnerTypes, ObjectTypes, Handles
  <1>4. Types'
    <2>1. reclaimed' \in [Objects -> 0..1]
      <3>1. \A i \in Objects : reclaimed'[i] \in 0..1
        BY <1>3 DEF IInv, Types, ObjectTypes
      <3>2. QED
        BY <1>2, <3>1
    <2>2. OwnerTypes'
      BY <1>1, <1>2 DEF IInv, Types, OwnerTypes
    <2>3. QED
      BY <1>1, <2>1, <2>2 DEF IInv, Types, ObjectTypes
  <1>5. Progress' /\ Handshake' /\ IdsAreReal'
    BY <1>1, <1>2 DEF IInv, Types, OwnerTypes, ObjectTypes, Progress, Handshake,
       IdsAreReal
  <1>6. Pooled'
    BY <1>1, <1>2 DEF IInv, Types, OwnerTypes, ObjectTypes, Pooled
  <1>7. Handles'
    BY <1>1, <1>2, <1>3 DEF IInv, Types, OwnerTypes, ObjectTypes, Handles
  <1>8. QED
    BY <1>4, <1>5, <1>6, <1>7 DEF IInv

\* A thread sets its id.
LEMMA SetsIdKeeps ==
  ASSUME IInv, NEW x \in Objects, SetsId(x)
  PROVE  IInv'
  <1> USE DEF SetsId, schedulerVars, threadVars
  <1>1. Types'
    BY DEF IInv, Types, OwnerTypes, ObjectTypes, Handles
  <1>2. Progress'
    BY DEF IInv, Types, OwnerTypes, ObjectTypes, Progress, Pooled
  <1>3. Handshake'
    BY DEF IInv, Types, OwnerTypes, ObjectTypes, Progress, Handshake
  <1>4. Pooled'
    BY DEF IInv, Types, OwnerTypes, ObjectTypes, Progress, Handshake, Pooled,
       Handles
  <1>5. Handles'
    BY DEF IInv, Types, OwnerTypes, ObjectTypes, Progress, Handshake, Pooled,
       Handles
  <1>6. IdsAreReal'
    BY DEF IInv, Types, OwnerTypes, ObjectTypes, Progress, Handshake, IdsAreReal
  <1>7. QED
    BY <1>1, <1>2, <1>3, <1>4, <1>5, <1>6 DEF IInv

\* It notifies the constructor, with its id set.
LEMMA NotifiesKeeps ==
  ASSUME IInv, NEW x \in Objects, Notifies(x)
  PROVE  IInv'
  <1> USE DEF Notifies, schedulerVars, threadVars
  <1>1. Types'
    <2>1. m_semaphore[x] = 0
      BY DEF IInv, Handshake
    <2>2. QED
      BY <2>1 DEF IInv, Types, OwnerTypes, ObjectTypes
  <1>2. Progress'
    BY DEF IInv, Types, OwnerTypes, ObjectTypes, Progress, Pooled
  <1>3. Handshake'
    BY DEF IInv, Types, OwnerTypes, ObjectTypes, Progress, Handshake
  <1>4. Pooled'
    BY DEF IInv, Types, OwnerTypes, ObjectTypes, Progress, Handshake, Pooled,
       Handles
  <1>5. Handles'
    BY DEF IInv, Types, OwnerTypes, ObjectTypes, Progress, Handshake, Pooled,
       Handles
  <1>6. IdsAreReal'
    BY DEF IInv, Types, OwnerTypes, ObjectTypes, Progress, Handshake, IdsAreReal
  <1>7. QED
    BY <1>1, <1>2, <1>3, <1>4, <1>5, <1>6 DEF IInv

\* A pool thread scans.
LEMMA ScansKeeps ==
  ASSUME IInv, NEW x \in Objects, Scans(x)
  PROVE  IInv'
  <1> USE DEF Scans, schedulerVars, threadVars
  <1>1. Types'
    BY DEF IInv, Types, OwnerTypes, ObjectTypes, Handles
  <1>2. Progress'
    BY DEF IInv, Types, OwnerTypes, ObjectTypes, Progress, Pooled
  <1>3. Handshake'
    BY DEF IInv, Types, OwnerTypes, ObjectTypes, Progress, Handshake
  <1>4. Pooled'
    BY DEF IInv, Types, OwnerTypes, ObjectTypes, Progress, Handshake, Pooled,
       Handles
  <1>5. Handles'
    BY DEF IInv, Types, OwnerTypes, ObjectTypes, Progress, Handshake, Pooled,
       Handles
  <1>6. IdsAreReal'
    BY DEF IInv, Types, OwnerTypes, ObjectTypes, Progress, Handshake, IdsAreReal
  <1>7. QED
    BY <1>1, <1>2, <1>3, <1>4, <1>5, <1>6 DEF IInv

\* A thread ends.
LEMMA EndsKeeps ==
  ASSUME IInv, NEW x \in Objects, Ends(x)
  PROVE  IInv'
  <1> USE DEF Ends, schedulerVars, threadVars
  <1>1. Types'
    BY DEF IInv, Types, OwnerTypes, ObjectTypes, Handles
  <1>2. Progress'
    BY DEF IInv, Types, OwnerTypes, ObjectTypes, Progress, Pooled
  <1>3. Handshake'
    BY DEF IInv, Types, OwnerTypes, ObjectTypes, Progress, Handshake
  <1>4. Pooled'
    BY DEF IInv, Types, OwnerTypes, ObjectTypes, Progress, Handshake, Pooled,
       Handles
  <1>5. Handles'
    BY DEF IInv, Types, OwnerTypes, ObjectTypes, Progress, Handshake, Pooled,
       Handles
  <1>6. IdsAreReal'
    BY DEF IInv, Types, OwnerTypes, ObjectTypes, Progress, Handshake, IdsAreReal
  <1>7. QED
    BY <1>1, <1>2, <1>3, <1>4, <1>5, <1>6 DEF IInv

LEMMA NextKeeps ==
  ASSUME IInv, [Next]_vars
  PROVE  IInv'
  <1>1. CASE start \/ stop \/ JoinsOwn \/ DropsOwn
    BY <1>1, StartKeeps, StopKeeps, JoinsOwnKeeps, DropsOwnKeeps
  <1>2. CASE NewOwn
    BY <1>2, CreatesKeeps, FailureKeeps DEF NewOwn
  <1>3. CASE NewThread
    BY <1>3, CreatesKeeps, FailureKeeps DEF NewThread
  <1>4. CASE Constructed \/ Started \/ StopJoins \/ Stopped \/ ConstructedOwn
    BY <1>4, ConstructedKeeps, StartedKeeps, StopJoinsKeeps, StoppedKeeps,
       ConstructedOwnKeeps
  <1>5. ASSUME NEW i \in Objects, ThreadSteps(i)
        PROVE  IInv'
    BY <1>5, SetsIdKeeps, NotifiesKeeps, ScansKeeps, EndsKeeps DEF ThreadSteps
  <1>6. CASE UNCHANGED vars
    BY <1>6 DEF IInv, Types, OwnerTypes, ObjectTypes, Progress, Handshake, Pooled,
       Handles, IdsAreReal,
       vars, schedulerVars, threadVars
  <1>7. QED
    BY <1>1, <1>2, <1>3, <1>4, <1>5, <1>6 DEF Next, OwnerSteps

LEMMA Invariance == Spec => []IInv
  <1>1. IInv /\ [Next]_vars => IInv'
    BY NextKeeps
  <1>2. QED
    BY InitInv, <1>1, PTL DEF Spec

-----------------------------------------------------------------------------
\* The types, and that a semaphore is above zero only while the owner is in
\* the constructor that waits for it.
THEOREM ThreadTypes == Spec => []ThreadTypeOK
  <1>1. IInv => ThreadTypeOK
    BY DEF IInv, Types, OwnerTypes, ObjectTypes, Progress, Handshake, Pooled,
       ThreadTypeOK
  <1>2. QED
    BY <1>1, Invariance, PTL

\* start() collects the ids that the threads have set (scheduler.cpp:64-67).
THEOREM RealIds == Spec => []IdsAreReal
  <1>1. QED
    BY Invariance, PTL DEF IInv

\* No thread uses a destroyed Thread object (thread.cpp:60-72).
THEOREM ObjectsOutlive == Spec => []NoUseAfterFree
  <1>1. IInv => NoUseAfterFree
    BY DEF IInv, Handshake, Pooled, NoUseAfterFree
  <1>2. QED
    BY <1>1, Invariance, PTL

\* Every thread is joined or detached once, not twice (thread.cpp:41-58).
THEOREM OneReclaim == Spec => []ReclaimedOnce
  <1>1. IInv => ReclaimedOnce
    BY DEF IInv, Types, OwnerTypes, ObjectTypes, Handles, ReclaimedOnce
  <1>2. QED
    BY <1>1, Invariance, PTL
=============================================================================
