------------------------------- MODULE Config -------------------------------
(***************************************************************************)
(* sylar::Config, the registry of configuration variables, and             *)
(* sylar::ConfigVar: a value with listeners (config.h, config.cc).  The    *)
(* registry has a reader-writer lock and every variable has one of its     *)
(* own.  A listener may look up a variable or throw; it does not change    *)
(* the variable it listens to, whose lock its caller holds.                *)
(***************************************************************************)
EXTENDS Integers, Sequences, Functions

CONSTANTS
  Threads, NoThread,
  Names, Legal,  \* names of variables; those made of [a-z_.0-8]
  Types, Values,
  Static,        \* registered by a static initialiser, of type StaticType,
  StaticType,    \* with one listener, as log.cc does it
  Documents,     \* bound: YAML documents, the nodes in the order of a walk
  MaxCalls       \* bound: calls of all threads

Bad  == "bad"    \* a node that FromStr cannot convert
Late == "late"   \* history: a listener that a change to come passes by
Nodes == [name : Names, val : Values \cup {Bad}]

ASSUME ConfigAssumption ==
  /\ NoThread \notin Threads /\ MaxCalls \in Nat
  /\ Legal \subseteq Names /\ Static \in Legal /\ StaticType \in Types
  /\ Values # {} /\ Bad \notin Values /\ Late \notin Values
  /\ Documents \subseteq Seq(Nodes)

VARIABLES
  s_datas, writer, \* the registry, 0 for no variable; holder of its write lock
  obj,             \* the ConfigVar objects: type, m_val, m_cbs, m_mutex
  s_fun_id,        \* of each type, a static local of addListener()
  pc, after,       \* of each thread; where a nested Lookup() goes back to
  calls,
  loc,             \* the locals of each thread
  handed,          \* history: results of Lookup()
  disturbed        \* history: variables with overlapping or failed setValue()

vars == <<s_datas, writer, obj, s_fun_id, pc, after, calls, loc, handed, disturbed>>

\* m_cbs maps a key to what its listener was last told (history).
With(cbs, k, x) == [j \in DOMAIN cbs \cup {k} |-> IF j = k THEN x ELSE cbs[j]]
AnyVal  == CHOOSE x \in Values : TRUE
Object(ty, x) == [type |-> ty, val |-> x, cbs |-> << >>, lock |-> NoThread]
NoLocals == [name |-> Static, type |-> StaticType, doc |-> << >>, nodes |-> {},
             var |-> 0, val |-> AnyVal, todo |-> {}, key |-> 0]

Init ==
  /\ s_datas = [nm \in Names |-> IF nm = Static THEN 1 ELSE 0]
  /\ writer = NoThread
  /\ obj = <<[Object(StaticType, AnyVal) EXCEPT !.cbs = With(@, 1, AnyVal)]>>
  /\ s_fun_id = [ty \in Types |-> IF ty = StaticType THEN 1 ELSE 0]
  /\ pc = [t \in Threads |-> "idle"] /\ after = [t \in Threads |-> "idle"]
  /\ calls = 0 /\ loc = [t \in Threads |-> NoLocals]
  /\ handed = {<<Static, 1>>} /\ disturbed = {}

Calls == calls < MaxCalls /\ calls' = calls + 1
Goto(t, from, to) == pc[t] = from /\ pc' = [pc EXCEPT ![t] = to]
Returns(t) == pc' = [pc EXCEPT ![t] = "idle"] /\ loc' = [loc EXCEPT ![t] = NoLocals]

\* m_mutex of variable v.  pthread_rwlock_init() without attributes prefers
\* readers: they do not wait for a waiting writer.
Reading(t, v) == loc[t].var = v /\ "notify" \in {pc[t], after[t]}
WriterWaits(v) == \E t \in Threads : loc[t].var = v /\ pc[t] = "store"
\* Mutant: a reader waits for a waiting writer.
PrefersWriters(v) == obj[v].lock = NoThread /\ ~WriterWaits(v)
MayRead(v)  == obj[v].lock = NoThread
MayWrite(v) == obj[v].lock = NoThread /\ \A t \in Threads : ~Reading(t, v)

-----------------------------------------------------------------------------
(* Lookup(name, default): find, and create what is not there, under the    *)
(* write lock of the registry.  Called by a listener it returns to the     *)
(* loop over the listeners.                                                *)

\* Mutant: the lock is taken only to create the variable.
FindsUnlocked(t) == writer' = writer
Locks(t) == writer = NoThread /\ writer' = t
\* An illegal name that is not registered: std::invalid_argument.
Finds(t, from) == \E nm \in Names, ty \in Types :
  /\ pc[t] = from /\ Calls /\ Locks(t)
  /\ s_datas[nm] # 0 \/ nm \in Legal
  /\ pc' = [pc EXCEPT ![t] = IF s_datas[nm] = 0 THEN "create" ELSE "found"]
  /\ after' = [after EXCEPT ![t] = from]
  /\ loc' = [loc EXCEPT ![t].name = nm, ![t].type = ty]
  /\ UNCHANGED <<s_datas, obj, s_fun_id, handed, disturbed>>
Lookup(t) == Finds(t, "idle")
ListenerLooksUp(t) == Finds(t, "notify")

Unlocks(t) ==
  /\ pc' = [pc EXCEPT ![t] = after[t]] /\ after' = [after EXCEPT ![t] = "idle"]
  /\ writer' = IF writer = t THEN NoThread ELSE writer
\* It exists: nullptr for another type, and the error message reads its value.
ReturnsFound(t) == LET v == s_datas[loc[t].name] IN
  /\ pc[t] = "found" /\ Unlocks(t)
  /\ IF obj[v].type = loc[t].type THEN handed' = handed \cup {<<loc[t].name, v>>}
                                  ELSE MayRead(v) /\ UNCHANGED handed
  /\ UNCHANGED <<s_datas, obj, s_fun_id, calls, loc, disturbed>>
Creates(t) == LET v == Len(obj) + 1 IN
  /\ pc[t] = "create" /\ Unlocks(t)
  /\ \E x \in Values : obj' = Append(obj, Object(loc[t].type, x))
  /\ s_datas' = [s_datas EXCEPT ![loc[t].name] = v]
  /\ handed' = handed \cup {<<loc[t].name, v>>}
  /\ UNCHANGED <<s_fun_id, calls, loc, disturbed>>

-----------------------------------------------------------------------------
(* LoadFromYaml(), fromString() and setValue().                            *)

\* The nodes in the order of the walk; those below an illegal name are passed
\* over with it.
ListAllMember(doc) == {k \in DOMAIN doc : doc[k].name \in Legal}
LoadFromYaml(t) == \E doc \in Documents :
  /\ Calls /\ Goto(t, "idle", "load")
  /\ loc' = [loc EXCEPT ![t].doc = doc, ![t].nodes = ListAllMember(doc)]
  /\ UNCHANGED <<s_datas, writer, obj, s_fun_id, after, handed, disturbed>>
\* A node that names no variable is ignored, and one that FromStr cannot
\* convert: the exception ends in a log message.
LookupBase(t) == \E k \in loc[t].nodes :
  LET node == loc[t].doc[k]
      v == s_datas[node.name]
      ignored == v = 0 \/ node.val = Bad
  IN
  /\ \A j \in loc[t].nodes : k <= j
  /\ writer = NoThread
  /\ Goto(t, "load", IF ignored THEN "load" ELSE "set")
  /\ loc' = [loc EXCEPT ![t] =
       IF ignored THEN [loc[t] EXCEPT !.nodes = @ \ {k}]
       ELSE [loc[t] EXCEPT !.nodes = @ \ {k}, !.var = v, !.val = node.val]]
  /\ UNCHANGED <<s_datas, writer, obj, s_fun_id, after, calls, handed, disturbed>>
Loaded(t) ==
  /\ pc[t] = "load" /\ loc[t].nodes = {} /\ Returns(t)
  /\ UNCHANGED <<s_datas, writer, obj, s_fun_id, after, calls, handed, disturbed>>

Setting(v) == {t \in Threads : loc[t].var = v
                 /\ {pc[t], after[t]} \cap {"notify", "store"} # {}}
\* The next node, with the lock given back.
Leaves(t, from) ==
  /\ Goto(t, from, "load")
  /\ loc' = [loc EXCEPT ![t].var = 0, ![t].val = AnyVal, ![t].todo = {}]
\* setValue() returns at once when nothing changes.
Compares(t) == LET v == loc[t].var IN
  /\ pc[t] = "set" /\ MayRead(v)
  /\ IF obj[v].val = loc[t].val
       THEN Leaves(t, "set") /\ UNCHANGED disturbed
       ELSE /\ Goto(t, "set", "notify")
            /\ loc' = [loc EXCEPT ![t].todo = DOMAIN obj[v].cbs]
            /\ disturbed' = disturbed \cup {u \in {v} : Setting(u) # {}}
  /\ UNCHANGED <<s_datas, writer, obj, s_fun_id, after, calls, handed>>
\* The listeners are called in the order of their keys.
Notifies(t) == LET v == loc[t].var IN \E k \in loc[t].todo :
  /\ pc[t] = "notify" /\ \A j \in loc[t].todo : k <= j
  /\ loc' = [loc EXCEPT ![t].todo = @ \ {k}]
  /\ obj' = [obj EXCEPT ![v].cbs = With(@, k, loc[t].val)]
  /\ UNCHANGED <<s_datas, writer, s_fun_id, pc, after, calls, handed, disturbed>>
\* fromString() catches what a listener throws.
Throws(t) ==
  /\ loc[t].todo # {} /\ Leaves(t, "notify")
  /\ disturbed' = disturbed \cup {loc[t].var}
  /\ UNCHANGED <<s_datas, writer, obj, s_fun_id, after, calls, handed>>
\* Mutant: the read lock is released before all listeners were called.
ReleasesEarly(t) ==
  /\ Goto(t, "notify", "store")
  /\ UNCHANGED <<s_datas, writer, obj, s_fun_id, after, calls, loc, handed, disturbed>>
Releases(t) ==
  /\ loc[t].todo = {} /\ Goto(t, "notify", "store")
  /\ UNCHANGED <<s_datas, writer, obj, s_fun_id, after, calls, loc, handed, disturbed>>
Stores(t) ==
  /\ pc[t] = "store" /\ MayWrite(loc[t].var) /\ Leaves(t, "store")
  /\ obj' = [obj EXCEPT ![loc[t].var].val = loc[t].val]
  /\ UNCHANGED <<s_datas, writer, s_fun_id, after, calls, handed, disturbed>>

-----------------------------------------------------------------------------
(* addListener(): the write lock of the variable guards a counter that all *)
(* variables of the type share; ++, the index and the result read it.      *)

\* Mutant: the lock is taken only to enter the listener.
AddsUnlocked(v, t) == UNCHANGED obj
AddLocks(v, t) == MayWrite(v) /\ obj' = [obj EXCEPT ![v].lock = t]
addListener(t) == \E v \in DOMAIN obj :
  /\ (\E h \in handed : h[2] = v) /\ Calls /\ AddLocks(v, t)
  /\ Goto(t, "idle", "increment")
  /\ loc' = [loc EXCEPT ![t].var = v, ![t].key = s_fun_id[obj[v].type]]
  /\ UNCHANGED <<s_datas, writer, s_fun_id, after, handed, disturbed>>
Increments(t) ==
  /\ Goto(t, "increment", "insert")
  /\ s_fun_id' = [s_fun_id EXCEPT ![obj[loc[t].var].type] = loc[t].key + 1]
  /\ UNCHANGED <<s_datas, writer, obj, after, calls, loc, handed, disturbed>>
Inserts(t) == LET v == loc[t].var  k == s_fun_id[obj[v].type] IN
  /\ Goto(t, "insert", "return")
  /\ obj' = [obj EXCEPT ![v].cbs =
       With(@, k, IF WriterWaits(v) THEN Late ELSE obj[v].val)]
  /\ loc' = [loc EXCEPT ![t].key = k]
  /\ UNCHANGED <<s_datas, writer, s_fun_id, after, calls, handed, disturbed>>
ReturnsKey(t) ==
  /\ pc[t] = "return" /\ Returns(t)
  /\ obj' = [obj EXCEPT ![loc[t].var].lock = NoThread]
  /\ UNCHANGED <<s_datas, writer, s_fun_id, after, calls, handed, disturbed>>

\* delListener(key), clearListener().
\* Mutant: under the read lock.
DeletesReading(v) == MayRead(v)
DeleteLocks(v) == MayWrite(v)
Removes(t, v, keys) ==
  /\ pc[t] = "idle" /\ (\E h \in handed : h[2] = v) /\ Calls /\ DeleteLocks(v)
  /\ obj' = [obj EXCEPT ![v].cbs = Restrict(@, DOMAIN @ \ keys)]
  /\ UNCHANGED <<s_datas, writer, s_fun_id, pc, after, loc, handed, disturbed>>
delListener(t)   == \E v \in DOMAIN obj : \E k \in DOMAIN obj[v].cbs : Removes(t, v, {k})
clearListener(t) == \E v \in DOMAIN obj : Removes(t, v, DOMAIN obj[v].cbs)

-----------------------------------------------------------------------------
Continues(t) ==
  \/ ReturnsFound(t) \/ Creates(t) \/ LookupBase(t) \/ Loaded(t) \/ Compares(t)
  \/ Notifies(t) \/ Releases(t) \/ Stores(t)
  \/ Increments(t) \/ Inserts(t) \/ ReturnsKey(t)
Next == \E t \in Threads :
  \/ Lookup(t) \/ ListenerLooksUp(t) \/ LoadFromYaml(t) \/ Throws(t)
  \/ addListener(t) \/ delListener(t) \/ clearListener(t) \/ Continues(t)
Spec == Init /\ [][Next]_vars
\* A thread that is not blocked by a lock runs on.
FairSpec == Spec /\ \A t \in Threads : WF_vars(Continues(t))

-----------------------------------------------------------------------------
\* Types of the variables, and whose locks are held: the write lock of a
\* variable by a thread in addListener(), the one of the registry in Lookup().
ConfigTypeOK ==
  /\ \A nm \in Names : s_datas[nm] \in 0..Len(obj)
  /\ \A v \in DOMAIN obj :
       /\ obj[v].type \in Types /\ obj[v].val \in Values
       /\ DOMAIN obj[v].cbs \subseteq Nat /\ Range(obj[v].cbs) \subseteq Values \cup {Late}
       /\ \A t \in Threads : obj[v].lock = t <=>
            loc[t].var = v /\ pc[t] \in {"increment", "insert", "return"}
  /\ \A t \in Threads : writer = t <=> pc[t] \in {"found", "create"}

\* A name stands for one variable for ever: no two calls of Lookup(), and no
\* document loaded in between, ever see different ones (config.h:472-498).
OneVarPerName == \A h \in handed : s_datas[h[1]] = h[2]

\* While setValue() walks through m_cbs no listener is added or removed, and
\* the old value it passes by reference is not stored over (config.h:387-399).
ListenersStay == \A t \in Threads : "notify" \in {pc[t], after[t]} =>
  /\ loc[t].todo \subseteq DOMAIN obj[loc[t].var].cbs
  /\ obj[loc[t].var].val # loc[t].val

\* When nobody is setting a variable its listeners know its value, but for
\* those added between the calls and the store of a change (config.h:396-397),
\* and if changes never overlapped and no listener threw (config.h:366-372).
ListenersTold == \A v \in DOMAIN obj :
  Setting(v) = {} /\ v \notin disturbed =>
    \A k \in DOMAIN obj[v].cbs : obj[v].cbs[k] \in {obj[v].val, Late}

\* The key addListener() returns is its listener's own (config.h:410-416), if
\* there is one variable of the type: the counter is shared, the lock is not.
KeysAreOwn == \A t \in Threads : LET v == loc[t].var IN
  (pc[t] \in {"insert", "return"}
   /\ \A w \in DOMAIN obj : obj[w].type = obj[v].type => w = v)
  => /\ pc[t] = "insert" => s_fun_id[obj[v].type] \notin DOMAIN obj[v].cbs
     /\ pc[t] = "return" => s_fun_id[obj[v].type] = loc[t].key

\* Types, and who holds which lock, and that keys do not collide: addListener()
\* draws a key and inserts under one write lock (config.h:410-416).
ConfigOK == ConfigTypeOK /\ KeysAreOwn

\* Every call returns: a listener that looks up a variable, a Lookup() that
\* reads a variable of another type and a thread that stores a value never
\* wait for each other, though the first two take the locks in opposite order.
CallsReturn == \A t \in Threads : (pc[t] # "idle") ~> (pc[t] = "idle")
=============================================================================
