---------------------------- MODULE ConfigProofs ----------------------------
(***************************************************************************)
(* Proofs about sylar::Config, for any number of threads, names and calls. *)
(*                                                                         *)
(* The invariant says at which labels a thread holds which lock, and that  *)
(* a variable is never read and written at once.  Names, listeners and     *)
(* keys rest on it.                                                        *)
(***************************************************************************)
EXTENDS Config, TLAPS

USE ConfigAssumption

Nested == {"found", "create"}                 \* the lock of the registry
Adding == {"increment", "insert", "return"}   \* the write lock of a variable
Labels == {"idle", "load", "set", "notify", "store"} \cup Nested \cup Adding

Heard == Values \cup {Late}
Callbacks == UNION {[keys -> Heard] : keys \in SUBSET Nat}
Objects == [type : Types, val : Values, cbs : Callbacks, lock : Threads \cup {NoThread}]
Locals == [name : Names, type : Types, doc : Seq(Nodes), nodes : SUBSET Nat,
           var : Nat, val : Values, todo : SUBSET Nat, key : Nat]

SharedTypes ==
  /\ obj \in Seq(Objects) /\ s_fun_id \in [Types -> Nat]
  /\ s_datas \in [Names -> Nat] /\ \A nm \in Names : s_datas[nm] <= Len(obj)
  /\ writer \in Threads \cup {NoThread}
  /\ \A h \in handed : h[1] \in Names /\ h[2] \in DOMAIN obj
ThreadTypes ==
  /\ pc \in [Threads -> Labels] /\ after \in [Threads -> {"idle", "notify"}]
  /\ loc \in [Threads -> Locals]
  /\ \A t \in Threads : /\ loc[t].nodes \subseteq DOMAIN loc[t].doc
                        /\ loc[t].var <= Len(obj)

\* What a thread has in its hands at its label.
Places == \A t \in Threads :
  /\ after[t] = "notify" => pc[t] \in Nested
  /\ loc[t].var = 0 <=> \/ pc[t] \in {"idle", "load"}
                        \/ pc[t] \in Nested /\ after[t] = "idle"
  /\ writer = t <=> pc[t] \in Nested
  /\ pc[t] = "create" => s_datas[loc[t].name] = 0
  /\ pc[t] = "found" => s_datas[loc[t].name] # 0

\* The write lock of a variable excludes its readers.
Locked == \A v \in DOMAIN obj :
  /\ \A t \in Threads : obj[v].lock = t <=> loc[t].var = v /\ pc[t] \in Adding
  /\ obj[v].lock # NoThread => \A t \in Threads : ~Reading(t, v)

\* The counter is ahead of the keys of a variable that has it for itself, and
\* who adds a listener knows what it stands at.
Alone(v) == \A w \in DOMAIN obj : obj[w].type = obj[v].type => w = v
Counted == \A v \in DOMAIN obj : LET next == s_fun_id[obj[v].type] IN
  Alone(v) =>
    /\ \A k \in DOMAIN obj[v].cbs : k <= next
    /\ \A t \in Threads : loc[t].var = v =>
         /\ pc[t] = "increment" => loc[t].key = next
         /\ pc[t] = "insert" => next \notin DOMAIN obj[v].cbs
         /\ pc[t] = "return" => loc[t].key = next

\* Where the listeners are while one thread changes a variable.
Fine(v) ==
  /\ \A t, u \in Setting(v) : t = u
  /\ Setting(v) = {} => \A k \in DOMAIN obj[v].cbs : obj[v].cbs[k] \in {obj[v].val, Late}
  /\ \A t \in Setting(v) : \A k \in DOMAIN obj[v].cbs :
       obj[v].cbs[k] \in IF pc[t] = "store" THEN {loc[t].val, Late}
                         ELSE IF k \in loc[t].todo THEN {obj[v].val, Late}
                         ELSE {loc[t].val}
Told == \A v \in DOMAIN obj : v \notin disturbed => Fine(v)

ConfigTypes == SharedTypes /\ ThreadTypes
IInv == ConfigTypes /\ Places /\ Locked /\ OneVarPerName /\ ListenersStay
        /\ Counted /\ Told


-----------------------------------------------------------------------------
(* What updates do to listeners, to variables and to locals.               *)

\* A listener more, or one that is told another value.
LEMMA CallbackMore ==
  ASSUME NEW c \in Callbacks, NEW k \in Nat, NEW x \in Heard
  PROVE  /\ With(c, k, x) \in Callbacks
         /\ DOMAIN With(c, k, x) = DOMAIN c \cup {k}
         /\ With(c, k, x)[k] = x
         /\ \A j \in DOMAIN c : j # k => With(c, k, x)[j] = c[j]
  <1>1. PICK keys \in SUBSET Nat : c \in [keys -> Heard]
    BY DEF Callbacks
  <1>2. With(c, k, x) \in [keys \cup {k} -> Heard] /\ keys \cup {k} \in SUBSET Nat
    BY <1>1 DEF With
  <1>3. With(c, k, x) \in Callbacks
    BY <1>2 DEF Callbacks
  <1>4. QED
    BY <1>1, <1>3 DEF With

\* Some listeners fewer.
LEMMA CallbacksFewer ==
  ASSUME NEW c \in Callbacks, NEW S \in SUBSET DOMAIN c
  PROVE  /\ Restrict(c, S) \in Callbacks
         /\ DOMAIN Restrict(c, S) = S
         /\ \A j \in S : Restrict(c, S)[j] = c[j]
  <1>1. PICK keys \in SUBSET Nat : c \in [keys -> Heard]
    BY DEF Callbacks
  <1>2. Restrict(c, S) \in [S -> Heard] /\ S \in SUBSET Nat
    BY <1>1 DEF Restrict
  <1>3. QED
    BY <1>1, <1>2 DEF Restrict, Callbacks

\* One variable gets other listeners, another value or another lock holder.
LEMMA UpdatesCbs ==
  ASSUME obj \in Seq(Objects), NEW v \in DOMAIN obj, NEW c \in Callbacks,
         obj' = [obj EXCEPT ![v].cbs = c]
  PROVE  /\ obj' \in Seq(Objects) /\ Len(obj') = Len(obj) /\ DOMAIN obj' = DOMAIN obj
         /\ \A w \in DOMAIN obj :
              /\ obj'[w].type = obj[w].type /\ obj'[w].val = obj[w].val
              /\ obj'[w].lock = obj[w].lock
              /\ obj'[w].cbs = IF w = v THEN c ELSE obj[w].cbs
  <1> DEFINE o == [obj[v] EXCEPT !.cbs = c]
  <1>1. obj[v] \in Objects
    OBVIOUS
  <1>2. /\ o \in Objects /\ o.cbs = c
        /\ o.type = obj[v].type /\ o.val = obj[v].val
        /\ o.lock = obj[v].lock
    BY <1>1 DEF Objects
  <1>3. obj' = [obj EXCEPT ![v] = o]
    OBVIOUS
  <1> HIDE DEF o
  <1>4. obj' \in Seq(Objects) /\ Len(obj') = Len(obj) /\ DOMAIN obj' = DOMAIN obj
    BY <1>2, <1>3
  <1>5. \A w \in DOMAIN obj : obj'[w] = IF w = v THEN o ELSE obj[w]
    BY <1>3
  <1>6. QED
    BY <1>2, <1>4, <1>5
LEMMA UpdatesVal ==
  ASSUME obj \in Seq(Objects), NEW v \in DOMAIN obj, NEW x \in Values,
         obj' = [obj EXCEPT ![v].val = x]
  PROVE  /\ obj' \in Seq(Objects) /\ Len(obj') = Len(obj) /\ DOMAIN obj' = DOMAIN obj
         /\ \A w \in DOMAIN obj :
              /\ obj'[w].type = obj[w].type /\ obj'[w].cbs = obj[w].cbs
              /\ obj'[w].lock = obj[w].lock
              /\ obj'[w].val = IF w = v THEN x ELSE obj[w].val
  <1> DEFINE o == [obj[v] EXCEPT !.val = x]
  <1>1. obj[v] \in Objects
    OBVIOUS
  <1>2. /\ o \in Objects /\ o.val = x
        /\ o.type = obj[v].type /\ o.cbs = obj[v].cbs
        /\ o.lock = obj[v].lock
    BY <1>1 DEF Objects
  <1>3. obj' = [obj EXCEPT ![v] = o]
    OBVIOUS
  <1> HIDE DEF o
  <1>4. obj' \in Seq(Objects) /\ Len(obj') = Len(obj) /\ DOMAIN obj' = DOMAIN obj
    BY <1>2, <1>3
  <1>5. \A w \in DOMAIN obj : obj'[w] = IF w = v THEN o ELSE obj[w]
    BY <1>3
  <1>6. QED
    BY <1>2, <1>4, <1>5
LEMMA UpdatesLock ==
  ASSUME obj \in Seq(Objects), NEW v \in DOMAIN obj, NEW l \in Threads \cup {NoThread},
         obj' = [obj EXCEPT ![v].lock = l]
  PROVE  /\ obj' \in Seq(Objects) /\ Len(obj') = Len(obj) /\ DOMAIN obj' = DOMAIN obj
         /\ \A w \in DOMAIN obj :
              /\ obj'[w].type = obj[w].type /\ obj'[w].val = obj[w].val
              /\ obj'[w].cbs = obj[w].cbs
              /\ obj'[w].lock = IF w = v THEN l ELSE obj[w].lock
  <1> DEFINE o == [obj[v] EXCEPT !.lock = l]
  <1>1. obj[v] \in Objects
    OBVIOUS
  <1>2. /\ o \in Objects /\ o.lock = l
        /\ o.type = obj[v].type /\ o.val = obj[v].val
        /\ o.cbs = obj[v].cbs
    BY <1>1 DEF Objects
  <1>3. obj' = [obj EXCEPT ![v] = o]
    OBVIOUS
  <1> HIDE DEF o
  <1>4. obj' \in Seq(Objects) /\ Len(obj') = Len(obj) /\ DOMAIN obj' = DOMAIN obj
    BY <1>2, <1>3
  <1>5. \A w \in DOMAIN obj : obj'[w] = IF w = v THEN o ELSE obj[w]
    BY <1>3
  <1>6. QED
    BY <1>2, <1>4, <1>5

\* What every variable is.
LEMMA Objs ==
  ASSUME SharedTypes
  PROVE  /\ obj \in Seq(Objects) /\ Len(obj) \in Nat /\ DOMAIN obj = 1..Len(obj)
         /\ \A v \in DOMAIN obj :
              /\ obj[v] \in Objects /\ obj[v].type \in Types /\ obj[v].val \in Values
              /\ obj[v].cbs \in Callbacks /\ obj[v].lock \in Threads \cup {NoThread}
              /\ DOMAIN obj[v].cbs \subseteq Nat
              /\ \A k \in DOMAIN obj[v].cbs : obj[v].cbs[k] \in Heard
  <1>1. obj \in Seq(Objects)
    BY DEF SharedTypes
  <1>2. /\ Len(obj) \in Nat /\ DOMAIN obj = 1..Len(obj)
        /\ \A v \in DOMAIN obj : obj[v] \in Objects
    BY <1>1
  <1>3. ASSUME NEW o \in Objects
        PROVE  /\ o.type \in Types /\ o.val \in Values
               /\ o.cbs \in Callbacks /\ o.lock \in Threads \cup {NoThread}
    BY DEF Objects
  <1>4. ASSUME NEW c \in Callbacks
        PROVE  DOMAIN c \subseteq Nat /\ \A k \in DOMAIN c : c[k] \in Heard
    BY DEF Callbacks
  <1>5. QED
    BY <1>1, <1>2, <1>3, <1>4

\* A thread outside a call.
LEMMA NoLocalsType == NoLocals \in Locals
  BY DEF NoLocals, Locals, AnyVal

\* A step of thread t leaves the others where they are.
Others(t) == \A u \in Threads \ {t} :
  pc'[u] = pc[u] /\ after'[u] = after[u] /\ loc'[u] = loc[u]

\* A step of thread t goes to a label and changes its locals.
LEMMA Moves ==
  ASSUME ThreadTypes, NEW t \in Threads, NEW l \in Locals,
         NEW p \in Labels, NEW a \in {"idle", "notify"},
         loc' = [loc EXCEPT ![t] = l], pc' = [pc EXCEPT ![t] = p],
         after' = [after EXCEPT ![t] = a],
         l.nodes \subseteq DOMAIN l.doc, l.var <= Len(obj'),
         Len(obj) \in Nat, Len(obj') \in Nat, Len(obj) <= Len(obj')
  PROVE  /\ ThreadTypes' /\ Others(t)
         /\ loc'[t] = l /\ pc'[t] = p /\ after'[t] = a
  <1>1. /\ loc' \in [Threads -> Locals] /\ pc' \in [Threads -> Labels]
        /\ after' \in [Threads -> {"idle", "notify"}]
        /\ loc'[t] = l /\ pc'[t] = p /\ after'[t] = a
    BY DEF ThreadTypes
  <1>2. Others(t)
    BY DEF ThreadTypes, Others
  <1>3. \A u \in Threads : loc[u].var \in Nat
    BY DEF ThreadTypes, Locals
  <1>4. \A u \in Threads : loc'[u].nodes \subseteq DOMAIN loc'[u].doc /\ loc'[u].var <= Len(obj')
    BY <1>1, <1>2, <1>3 DEF ThreadTypes, Others
  <1>5. QED
    BY <1>1, <1>2, <1>4 DEF ThreadTypes

\* A variable that nobody touches stays as it is.
LEMMA FineStays ==
  ASSUME NEW v, Fine(v), Setting(v)' = Setting(v),
         obj'[v].val = obj[v].val, obj'[v].cbs = obj[v].cbs,
         \A t \in Setting(v) : /\ loc'[t].val = loc[t].val /\ loc'[t].todo = loc[t].todo
                               /\ pc'[t] = "store" <=> pc[t] = "store"
  PROVE  Fine(v)'
  BY DEF Fine

-----------------------------------------------------------------------------
(* Steps that change no variable.                                          *)

\* Such a step does not begin to read behind a writer's back.
Quiet(t) ==
  /\ Others(t) /\ UNCHANGED <<obj, s_fun_id>>
  /\ pc[t] \notin Adding /\ pc'[t] \notin Adding
  /\ "notify" \in {pc'[t], after'[t]} => LET v == loc'[t].var IN
       /\ Reading(t, v) \/ obj[v].lock = NoThread
       /\ loc'[t].todo \subseteq DOMAIN obj[v].cbs
       /\ obj[v].val # loc'[t].val

LEMMA QuietKeeps ==
  ASSUME Locked, ListenersStay, Counted, NEW t \in Threads, Quiet(t)
  PROVE  Locked' /\ ListenersStay' /\ Counted'
  <1>1. Locked'
    BY DEF Locked, Quiet, Others, Reading
  <1>2. ListenersStay'
    BY DEF ListenersStay, Quiet, Others
  <1>3. Counted'
    BY DEF Counted, Alone, Quiet, Others, Adding
  <1>4. QED
    BY <1>1, <1>2, <1>3

\* Lookup() finds a variable, or that there is none.
LEMMA FindsKeeps ==
  ASSUME IInv, NEW t \in Threads, NEW from \in {"idle", "notify"}, Finds(t, from)
  PROVE  IInv'
  <1> USE DEF IInv, ConfigTypes, Calls, Locks
  <1>1. PICK nm \in Names, ty \in Types :
          /\ pc[t] = from /\ writer = NoThread /\ writer' = t
          /\ pc' = [pc EXCEPT ![t] = IF s_datas[nm] = 0 THEN "create" ELSE "found"]
          /\ after' = [after EXCEPT ![t] = from]
          /\ loc' = [loc EXCEPT ![t].name = nm, ![t].type = ty]
          /\ UNCHANGED <<s_datas, obj, s_fun_id, handed, disturbed>>
    BY DEF Finds
  <1> DEFINE l == [loc[t] EXCEPT !.name = nm, !.type = ty]
             p == IF s_datas[nm] = 0 THEN "create" ELSE "found"
  <1>2. /\ l \in Locals /\ loc' = [loc EXCEPT ![t] = l]
        /\ l.var = loc[t].var /\ l.todo = loc[t].todo /\ l.val = loc[t].val
        /\ l.name = nm /\ l.nodes = loc[t].nodes /\ l.doc = loc[t].doc
    BY <1>1 DEF ThreadTypes, Locals
  <1>p. /\ p \in Nested /\ p \in Labels
        /\ p = "create" => s_datas[nm] = 0 
        /\ p = "found" => s_datas[nm] # 0
    BY DEF Nested, Labels
  <1> HIDE DEF l, p
  <1>3. /\ ThreadTypes' /\ Others(t)
        /\ loc'[t] = l /\ pc'[t] = p /\ after'[t] = from
    <2>1. l.nodes \subseteq DOMAIN l.doc /\ l.var <= Len(obj') /\ Len(obj) \in Nat
          /\ Len(obj') = Len(obj) /\ Len(obj) <= Len(obj')
      BY <1>1, <1>2, Objs DEF ThreadTypes
    <2>2. pc' = [pc EXCEPT ![t] = p] /\ after' = [after EXCEPT ![t] = from]
      BY <1>1 DEF p
    <2>3. QED
      BY <1>2, <1>p, <2>1, <2>2, Moves
  <1>4. SharedTypes'
    BY <1>1 DEF SharedTypes
  <1>5. Places'
    <2>1. \A u \in Threads \ {t} : writer # u
      BY <1>1
    <2>2. /\ after'[t] = "notify" => pc'[t] \in Nested
          /\ loc'[t].var = 0 <=> \/ pc'[t] \in {"idle", "load"}
                                 \/ pc'[t] \in Nested /\ after'[t] = "idle"
          /\ writer' = t <=> pc'[t] \in Nested
          /\ pc'[t] = "create" => s_datas'[loc'[t].name] = 0
          /\ pc'[t] = "found" => s_datas'[loc'[t].name] # 0
      BY <1>1, <1>2, <1>3, <1>p DEF Places, Nested
    <2>3. QED
      BY <1>1, <1>3, <2>1, <2>2 DEF Places, Others
  <1>6. Quiet(t)
    BY <1>1, <1>2, <1>3, <1>p DEF Quiet, Adding, Places, Nested, Reading, ListenersStay
  <1>7. Locked' /\ ListenersStay' /\ Counted'
    BY <1>6, QuietKeeps
  <1>8. OneVarPerName'
    BY <1>1 DEF OneVarPerName
  <1>9. Told'
    BY <1>1, <1>2, <1>3 DEF Told, Fine, Setting, Others
  <1>10. QED
    BY <1>3, <1>4, <1>5, <1>7, <1>8, <1>9

\* A document is walked.
LEMMA LoadFromYamlKeeps ==
  ASSUME IInv, NEW t \in Threads, LoadFromYaml(t)
  PROVE  IInv'
  <1> USE DEF IInv, ConfigTypes
  <1>1. PICK doc \in Documents :
          /\ pc[t] = "idle" /\ pc' = [pc EXCEPT ![t] = "load"]
          /\ loc' = [loc EXCEPT ![t].doc = doc, ![t].nodes = ListAllMember(doc)]
          /\ UNCHANGED <<s_datas, writer, obj, s_fun_id, after, handed, disturbed>>
    BY DEF LoadFromYaml, Goto
  <1> DEFINE l == [loc[t] EXCEPT !.doc = doc, !.nodes = ListAllMember(doc)]
             p == "load"
             a == after[t]
  <1>2. /\ l \in Locals /\ loc' = [loc EXCEPT ![t] = l]
        /\ l.var = loc[t].var /\ l.todo = loc[t].todo /\ l.val = loc[t].val
        /\ l.name = loc[t].name /\ l.nodes \subseteq DOMAIN l.doc
    <2>1. doc \in Seq(Nodes) /\ ListAllMember(doc) \subseteq DOMAIN doc /\ DOMAIN doc \subseteq Nat
      BY DEF ListAllMember
    <2> HIDE DEF ListAllMember
    <2>2. loc[t] \in Locals /\ loc' = [loc EXCEPT ![t] = l]
      BY <1>1 DEF ThreadTypes
    <2>3. QED
      BY <2>1, <2>2 DEF Locals
  <1>3. /\ pc' = [pc EXCEPT ![t] = p] /\ after' = [after EXCEPT ![t] = a]
        /\ p \in Labels /\ a \in {"idle", "notify"} /\ p = "load"
    BY <1>1 DEF Labels, ThreadTypes
  <1> HIDE DEF l, p, a
  <1>4. /\ ThreadTypes' /\ Others(t)
        /\ loc'[t] = l /\ pc'[t] = p /\ after'[t] = a
    <2>1. /\ l.nodes \subseteq DOMAIN l.doc /\ l.var <= Len(obj') /\ Len(obj) \in Nat
          /\ Len(obj') = Len(obj) /\ Len(obj) <= Len(obj')
      BY <1>1, <1>2, Objs DEF ThreadTypes
    <2>2. QED
      BY <1>2, <1>3, <2>1, Moves
  <1>5. SharedTypes'
    BY <1>1 DEF SharedTypes
  <1>6. Places'
    <2>1. /\ after'[t] = "notify" => pc'[t] \in Nested
          /\ loc'[t].var = 0 <=> \/ pc'[t] \in {"idle", "load"}
                                 \/ pc'[t] \in Nested /\ after'[t] = "idle"
          /\ writer' = t <=> pc'[t] \in Nested
          /\ pc'[t] = "create" => s_datas'[loc'[t].name] = 0
          /\ pc'[t] = "found" => s_datas'[loc'[t].name] # 0
      BY <1>1, <1>2, <1>3, <1>4 DEF Places, Nested
    <2>2. QED
      BY <1>1, <1>4, <2>1 DEF Places, Others
  <1>7. Quiet(t)
    BY <1>1, <1>2, <1>3, <1>4 DEF Quiet, Adding, Places, Nested, Reading, ListenersStay
  <1>8. Locked' /\ ListenersStay' /\ Counted'
    BY <1>7, QuietKeeps
  <1>9. OneVarPerName'
    BY <1>1 DEF OneVarPerName
  <1>10. Told'
    BY <1>1, <1>2, <1>3, <1>4 DEF Told, Fine, Setting, Others
  <1>11. QED
    BY <1>4, <1>5, <1>6, <1>8, <1>9, <1>10

\* All nodes were visited.
LEMMA LoadedKeeps ==
  ASSUME IInv, NEW t \in Threads, Loaded(t)
  PROVE  IInv'
  <1> USE DEF IInv, ConfigTypes
  <1>1. /\ pc[t] = "load" /\ pc' = [pc EXCEPT ![t] = "idle"]
        /\ loc' = [loc EXCEPT ![t] = NoLocals]
        /\ UNCHANGED <<s_datas, writer, obj, s_fun_id, after, handed, disturbed>>
    BY DEF Loaded, Returns
  <1> DEFINE l == NoLocals
             p == "idle"
             a == after[t]
  <1>2. /\ l \in Locals /\ loc' = [loc EXCEPT ![t] = l]
        /\ l.var = 0 /\ l.nodes = {}
    BY <1>1, NoLocalsType DEF NoLocals
  <1>3. /\ pc' = [pc EXCEPT ![t] = p] /\ after' = [after EXCEPT ![t] = a]
        /\ p \in Labels /\ a \in {"idle", "notify"} /\ p = "idle"
    BY <1>1 DEF Labels, ThreadTypes
  <1> HIDE DEF l, p, a
  <1>4. /\ ThreadTypes' /\ Others(t)
        /\ loc'[t] = l /\ pc'[t] = p /\ after'[t] = a
    <2>1. /\ l.nodes \subseteq DOMAIN l.doc /\ l.var <= Len(obj') /\ Len(obj) \in Nat
          /\ Len(obj') = Len(obj) /\ Len(obj) <= Len(obj')
      BY <1>1, <1>2, Objs DEF ThreadTypes
    <2>2. QED
      BY <1>2, <1>3, <2>1, Moves
  <1>5. SharedTypes'
    BY <1>1 DEF SharedTypes
  <1>6. Places'
    <2>1. /\ after'[t] = "notify" => pc'[t] \in Nested
          /\ loc'[t].var = 0 <=> \/ pc'[t] \in {"idle", "load"}
                                 \/ pc'[t] \in Nested /\ after'[t] = "idle"
          /\ writer' = t <=> pc'[t] \in Nested
          /\ pc'[t] = "create" => s_datas'[loc'[t].name] = 0
          /\ pc'[t] = "found" => s_datas'[loc'[t].name] # 0
      BY <1>1, <1>2, <1>3, <1>4 DEF Places, Nested
    <2>2. QED
      BY <1>1, <1>4, <2>1 DEF Places, Others
  <1>7. Quiet(t)
    BY <1>1, <1>2, <1>3, <1>4 DEF Quiet, Adding, Places, Nested, Reading, ListenersStay
  <1>8. Locked' /\ ListenersStay' /\ Counted'
    BY <1>7, QuietKeeps
  <1>9. OneVarPerName'
    BY <1>1 DEF OneVarPerName
  <1>10. Told'
    BY <1>1, <1>2, <1>3, <1>4 DEF Told, Fine, Setting, Others
  <1>11. QED
    BY <1>4, <1>5, <1>6, <1>8, <1>9, <1>10

\* A node is looked up.
LEMMA LookupBaseKeeps ==
  ASSUME IInv, NEW t \in Threads, LookupBase(t)
  PROVE  IInv'
  <1> USE DEF IInv, ConfigTypes
  <1>1. PICK k \in loc[t].nodes :
          LET node == loc[t].doc[k]
              v == s_datas[node.name]
              ignored == v = 0 \/ node.val = Bad
          IN  /\ pc[t] = "load"
              /\ pc' = [pc EXCEPT ![t] = IF ignored THEN "load" ELSE "set"]
              /\ loc' = [loc EXCEPT ![t] =
                   IF ignored THEN [loc[t] EXCEPT !.nodes = @ \ {k}]
                   ELSE [loc[t] EXCEPT !.nodes = @ \ {k}, !.var = v, !.val = node.val]]
              /\ UNCHANGED <<s_datas, writer, obj, s_fun_id, after, handed, disturbed>>
    BY DEF LookupBase, Goto
  <1> DEFINE node == loc[t].doc[k]
             v == s_datas[node.name]
             ignored == v = 0 \/ node.val = Bad
  <1> DEFINE l == IF ignored THEN [loc[t] EXCEPT !.nodes = @ \ {k}]
                  ELSE [loc[t] EXCEPT !.nodes = @ \ {k}, !.var = v, !.val = node.val]
             p == IF ignored THEN "load" ELSE "set"
             a == after[t]
  <1>2. /\ l \in Locals /\ loc' = [loc EXCEPT ![t] = l]
        /\ l.todo = loc[t].todo /\ l.name = loc[t].name
        /\ l.nodes \subseteq DOMAIN l.doc
        /\ l.var = IF ignored THEN loc[t].var ELSE v
        /\ v <= Len(obj) /\ v \in Nat
    <2>1. loc[t] \in Locals /\ loc[t].nodes \subseteq DOMAIN loc[t].doc
      BY DEF ThreadTypes
    <2>2. loc[t].doc \in Seq(Nodes) /\ node \in Nodes
      BY <2>1 DEF Locals
    <2>3. node.name \in Names /\ node.val \in Values \cup {Bad}
      BY <2>2 DEF Nodes
    <2>4. v \in Nat /\ v <= Len(obj)
      BY <2>3 DEF SharedTypes
    <2>5. loc' = [loc EXCEPT ![t] = l]
      BY <1>1, Zenon
    <2> HIDE DEF node, v
    <2>6. QED
      BY <2>1, <2>3, <2>4, <2>5 DEF Locals
  <1>3. /\ pc' = [pc EXCEPT ![t] = p] /\ after' = [after EXCEPT ![t] = a]
        /\ p \in Labels /\ a \in {"idle", "notify"} /\ p = IF ignored THEN "load" ELSE "set"
    BY <1>1 DEF Labels, ThreadTypes
  <1> HIDE DEF l, p, a
  <1>4. /\ ThreadTypes' /\ Others(t)
        /\ loc'[t] = l /\ pc'[t] = p /\ after'[t] = a
    <2>1. /\ l.nodes \subseteq DOMAIN l.doc /\ l.var <= Len(obj') /\ Len(obj) \in Nat
          /\ Len(obj') = Len(obj) /\ Len(obj) <= Len(obj')
      BY <1>1, <1>2, Objs DEF ThreadTypes
    <2>2. QED
      BY <1>2, <1>3, <2>1, Moves
  <1>5. SharedTypes'
    BY <1>1 DEF SharedTypes
  <1>6. Places'
    <2>1. /\ after'[t] = "notify" => pc'[t] \in Nested
          /\ loc'[t].var = 0 <=> \/ pc'[t] \in {"idle", "load"}
                                 \/ pc'[t] \in Nested /\ after'[t] = "idle"
          /\ writer' = t <=> pc'[t] \in Nested
          /\ pc'[t] = "create" => s_datas'[loc'[t].name] = 0
          /\ pc'[t] = "found" => s_datas'[loc'[t].name] # 0
      BY <1>1, <1>2, <1>3, <1>4 DEF Places, Nested
    <2>2. QED
      BY <1>1, <1>4, <2>1 DEF Places, Others
  <1>7. Quiet(t)
    BY <1>1, <1>2, <1>3, <1>4 DEF Quiet, Adding, Places, Nested, Reading, ListenersStay
  <1>8. Locked' /\ ListenersStay' /\ Counted'
    BY <1>7, QuietKeeps
  <1>9. OneVarPerName'
    BY <1>1 DEF OneVarPerName
  <1>10. Told'
    BY <1>1, <1>2, <1>3, <1>4 DEF Told, Fine, Setting, Others
  <1>11. QED
    BY <1>4, <1>5, <1>6, <1>8, <1>9, <1>10

\* A listener throws.
LEMMA ThrowsKeeps ==
  ASSUME IInv, NEW t \in Threads, Throws(t)
  PROVE  IInv'
  <1> USE DEF IInv, ConfigTypes
  <1>1. /\ pc[t] = "notify" /\ pc' = [pc EXCEPT ![t] = "load"]
        /\ loc' = [loc EXCEPT ![t].var = 0, ![t].val = AnyVal, ![t].todo = {}]
        /\ disturbed' = disturbed \cup {loc[t].var}
        /\ UNCHANGED <<s_datas, writer, obj, s_fun_id, after, handed>>
    BY DEF Throws, Leaves, Goto
  <1> DEFINE l == [loc[t] EXCEPT !.var = 0, !.val = AnyVal, !.todo = {}]
             p == "load"
             a == after[t]
  <1>2. /\ l \in Locals /\ loc' = [loc EXCEPT ![t] = l]
        /\ l.var = 0 /\ l.nodes = loc[t].nodes /\ l.doc = loc[t].doc
        /\ l.name = loc[t].name
    BY <1>1 DEF Locals, ThreadTypes, AnyVal
  <1>3. /\ pc' = [pc EXCEPT ![t] = p] /\ after' = [after EXCEPT ![t] = a]
        /\ p \in Labels /\ a \in {"idle", "notify"} /\ p = "load"
    BY <1>1 DEF Labels, ThreadTypes
  <1> HIDE DEF l, p, a
  <1>4. /\ ThreadTypes' /\ Others(t)
        /\ loc'[t] = l /\ pc'[t] = p /\ after'[t] = a
    <2>1. /\ l.nodes \subseteq DOMAIN l.doc /\ l.var <= Len(obj') /\ Len(obj) \in Nat
          /\ Len(obj') = Len(obj) /\ Len(obj) <= Len(obj')
      BY <1>1, <1>2, Objs DEF ThreadTypes
    <2>2. QED
      BY <1>2, <1>3, <2>1, Moves
  <1>5. SharedTypes'
    BY <1>1 DEF SharedTypes
  <1>6. Places'
    <2>1. /\ after'[t] = "notify" => pc'[t] \in Nested
          /\ loc'[t].var = 0 <=> \/ pc'[t] \in {"idle", "load"}
                                 \/ pc'[t] \in Nested /\ after'[t] = "idle"
          /\ writer' = t <=> pc'[t] \in Nested
          /\ pc'[t] = "create" => s_datas'[loc'[t].name] = 0
          /\ pc'[t] = "found" => s_datas'[loc'[t].name] # 0
      BY <1>1, <1>2, <1>3, <1>4 DEF Places, Nested
    <2>2. QED
      BY <1>1, <1>4, <2>1 DEF Places, Others
  <1>7. Quiet(t)
    BY <1>1, <1>2, <1>3, <1>4 DEF Quiet, Adding, Places, Nested, Reading, ListenersStay
  <1>8. Locked' /\ ListenersStay' /\ Counted'
    BY <1>7, QuietKeeps
  <1>9. OneVarPerName'
    BY <1>1 DEF OneVarPerName
  <1>10. Told'
    BY <1>1, <1>2, <1>3, <1>4 DEF Told, Fine, Setting, Others
  <1>11. QED
    BY <1>4, <1>5, <1>6, <1>8, <1>9, <1>10

\* All listeners were called.
LEMMA ReleasesKeeps ==
  ASSUME IInv, NEW t \in Threads, Releases(t)
  PROVE  IInv'
  <1> USE DEF IInv, ConfigTypes
  <1>1. /\ pc[t] = "notify" /\ pc' = [pc EXCEPT ![t] = "store"] /\ loc[t].todo = {}
        /\ UNCHANGED <<s_datas, writer, obj, s_fun_id, after, loc, handed, disturbed>>
    BY DEF Releases, Goto
  <1> DEFINE l == loc[t]
             p == "store"
             a == after[t]
  <1>2. /\ l \in Locals /\ loc' = [loc EXCEPT ![t] = l]
    BY <1>1 DEF ThreadTypes
  <1>3. /\ pc' = [pc EXCEPT ![t] = p] /\ after' = [after EXCEPT ![t] = a]
        /\ p \in Labels /\ a \in {"idle", "notify"} /\ p = "store"
    BY <1>1 DEF Labels, ThreadTypes
  <1> HIDE DEF l, p, a
  <1>4. /\ ThreadTypes' /\ Others(t)
        /\ loc'[t] = l /\ pc'[t] = p /\ after'[t] = a
    <2>1. /\ l.nodes \subseteq DOMAIN l.doc /\ l.var <= Len(obj') /\ Len(obj) \in Nat
          /\ Len(obj') = Len(obj) /\ Len(obj) <= Len(obj')
      BY <1>1, <1>2, Objs DEF ThreadTypes
    <2>2. QED
      BY <1>2, <1>3, <2>1, Moves
  <1>5. SharedTypes'
    BY <1>1 DEF SharedTypes
  <1>6. Places'
    <2>1. /\ after'[t] = "notify" => pc'[t] \in Nested
          /\ loc'[t].var = 0 <=> \/ pc'[t] \in {"idle", "load"}
                                 \/ pc'[t] \in Nested /\ after'[t] = "idle"
          /\ writer' = t <=> pc'[t] \in Nested
          /\ pc'[t] = "create" => s_datas'[loc'[t].name] = 0
          /\ pc'[t] = "found" => s_datas'[loc'[t].name] # 0
      BY <1>1, <1>2, <1>3, <1>4 DEF Places, Nested
    <2>2. QED
      BY <1>1, <1>4, <2>1 DEF Places, Others
  <1>7. Quiet(t)
    BY <1>1, <1>2, <1>3, <1>4 DEF Quiet, Adding, Places, Nested, Reading, ListenersStay
  <1>8. Locked' /\ ListenersStay' /\ Counted'
    BY <1>7, QuietKeeps
  <1>9. OneVarPerName'
    BY <1>1 DEF OneVarPerName
  <1>10. Told'
    BY <1>1, <1>2, <1>3, <1>4 DEF Told, Fine, Setting, Others
  <1>11. QED
    BY <1>4, <1>5, <1>6, <1>8, <1>9, <1>10

\* Nothing changes.
LEMMA ComparesEqual ==
  ASSUME IInv, NEW t \in Threads, Compares(t),
         obj[loc[t].var].val = loc[t].val
  PROVE  IInv'
  <1> USE DEF IInv, ConfigTypes
  <1>1. /\ pc[t] = "set" /\ pc' = [pc EXCEPT ![t] = "load"]
        /\ loc' = [loc EXCEPT ![t].var = 0, ![t].val = AnyVal, ![t].todo = {}]
        /\ UNCHANGED <<s_datas, writer, obj, s_fun_id, after, handed, disturbed>>
    BY DEF Compares, Leaves, Goto
  <1> DEFINE l == [loc[t] EXCEPT !.var = 0, !.val = AnyVal, !.todo = {}]
             p == "load"
             a == after[t]
  <1>2. /\ l \in Locals /\ loc' = [loc EXCEPT ![t] = l]
        /\ l.var = 0 /\ l.nodes = loc[t].nodes /\ l.doc = loc[t].doc
        /\ l.name = loc[t].name
    BY <1>1 DEF Locals, ThreadTypes, AnyVal
  <1>3. /\ pc' = [pc EXCEPT ![t] = p] /\ after' = [after EXCEPT ![t] = a]
        /\ p \in Labels /\ a \in {"idle", "notify"} /\ p = "load"
    BY <1>1 DEF Labels, ThreadTypes
  <1> HIDE DEF l, p, a
  <1>4. /\ ThreadTypes' /\ Others(t)
        /\ loc'[t] = l /\ pc'[t] = p /\ after'[t] = a
    <2>1. /\ l.nodes \subseteq DOMAIN l.doc /\ l.var <= Len(obj') /\ Len(obj) \in Nat
          /\ Len(obj') = Len(obj) /\ Len(obj) <= Len(obj')
      BY <1>1, <1>2, Objs DEF ThreadTypes
    <2>2. QED
      BY <1>2, <1>3, <2>1, Moves
  <1>5. SharedTypes'
    BY <1>1 DEF SharedTypes
  <1>6. Places'
    <2>1. /\ after'[t] = "notify" => pc'[t] \in Nested
          /\ loc'[t].var = 0 <=> \/ pc'[t] \in {"idle", "load"}
                                 \/ pc'[t] \in Nested /\ after'[t] = "idle"
          /\ writer' = t <=> pc'[t] \in Nested
          /\ pc'[t] = "create" => s_datas'[loc'[t].name] = 0
          /\ pc'[t] = "found" => s_datas'[loc'[t].name] # 0
      BY <1>1, <1>2, <1>3, <1>4 DEF Places, Nested
    <2>2. QED
      BY <1>1, <1>4, <2>1 DEF Places, Others
  <1>7. Quiet(t)
    BY <1>1, <1>2, <1>3, <1>4 DEF Quiet, Adding, Places, Nested, Reading, ListenersStay
  <1>8. Locked' /\ ListenersStay' /\ Counted'
    BY <1>7, QuietKeeps
  <1>9. OneVarPerName'
    BY <1>1 DEF OneVarPerName
  <1>10. Told'
    BY <1>1, <1>2, <1>3, <1>4 DEF Told, Fine, Setting, Others
  <1>11. QED
    BY <1>4, <1>5, <1>6, <1>8, <1>9, <1>10

\* The value is another one: its listeners are to be called.
LEMMA ComparesOther ==
  ASSUME IInv, NEW t \in Threads, Compares(t),
         obj[loc[t].var].val # loc[t].val
  PROVE  IInv'
  <1> USE DEF IInv, ConfigTypes
  <1>1. LET v == loc[t].var IN
        /\ pc[t] = "set" /\ pc' = [pc EXCEPT ![t] = "notify"]
        /\ obj[v].lock = NoThread
        /\ loc' = [loc EXCEPT ![t].todo = DOMAIN obj[v].cbs]
        /\ disturbed' = disturbed \cup {u \in {v} : Setting(u) # {}}
        /\ UNCHANGED <<s_datas, writer, obj, s_fun_id, after, handed>>
    BY DEF Compares, MayRead, Goto
  <1> DEFINE l == [loc[t] EXCEPT !.todo = DOMAIN obj[loc[t].var].cbs]
             p == "notify"
             a == after[t]
  <1>2. /\ l \in Locals /\ loc' = [loc EXCEPT ![t] = l]
        /\ l.var = loc[t].var /\ l.nodes = loc[t].nodes /\ l.doc = loc[t].doc
        /\ l.name = loc[t].name /\ l.val = loc[t].val
        /\ l.todo = DOMAIN obj[l.var].cbs
    <2>1. loc[t] \in Locals /\ loc[t].var \in Nat /\ loc[t].var # 0 /\ loc[t].var <= Len(obj)
      BY <1>1 DEF Locals, ThreadTypes, Places, Nested
    <2>2. DOMAIN obj[loc[t].var].cbs \subseteq Nat
      BY <2>1, Objs
    <2>3. QED
      BY <1>1, <2>1, <2>2 DEF Locals, ThreadTypes
  <1>3. /\ pc' = [pc EXCEPT ![t] = p] /\ after' = [after EXCEPT ![t] = a]
        /\ p \in Labels /\ a \in {"idle", "notify"} /\ p = "notify"
    BY <1>1 DEF Labels, ThreadTypes
  <1> HIDE DEF l, p, a
  <1>4. /\ ThreadTypes' /\ Others(t)
        /\ loc'[t] = l /\ pc'[t] = p /\ after'[t] = a
    <2>1. /\ l.nodes \subseteq DOMAIN l.doc /\ l.var <= Len(obj') /\ Len(obj) \in Nat
          /\ Len(obj') = Len(obj) /\ Len(obj) <= Len(obj')
      BY <1>1, <1>2, Objs DEF ThreadTypes
    <2>2. QED
      BY <1>2, <1>3, <2>1, Moves
  <1>5. SharedTypes'
    BY <1>1 DEF SharedTypes
  <1>6. Places'
    <2>1. /\ after'[t] = "notify" => pc'[t] \in Nested
          /\ loc'[t].var = 0 <=> \/ pc'[t] \in {"idle", "load"}
                                 \/ pc'[t] \in Nested /\ after'[t] = "idle"
          /\ writer' = t <=> pc'[t] \in Nested
          /\ pc'[t] = "create" => s_datas'[loc'[t].name] = 0
          /\ pc'[t] = "found" => s_datas'[loc'[t].name] # 0
      BY <1>1, <1>2, <1>3, <1>4 DEF Places, Nested
    <2>2. QED
      BY <1>1, <1>4, <2>1 DEF Places, Others
  <1>7. Quiet(t)
    BY <1>1, <1>2, <1>3, <1>4 DEF Quiet, Adding, Places, Nested, Reading, ListenersStay
  <1>8. Locked' /\ ListenersStay' /\ Counted'
    BY <1>7, QuietKeeps
  <1>9. OneVarPerName'
    BY <1>1 DEF OneVarPerName
  <1>10. Told'
    BY <1>1, <1>2, <1>3, <1>4 DEF Told, Fine, Setting, Others
  <1>11. QED
    BY <1>4, <1>5, <1>6, <1>8, <1>9, <1>10

LEMMA ComparesKeeps ==
  ASSUME IInv, NEW t \in Threads, Compares(t)
  PROVE  IInv'
  BY ComparesEqual, ComparesOther

\* Lookup() returns what it found, or nullptr.
LEMMA ReturnsFoundKeeps ==
  ASSUME IInv, NEW t \in Threads, ReturnsFound(t)
  PROVE  IInv'
  <1> USE DEF IInv, ConfigTypes
  <1>1. LET v == s_datas[loc[t].name] IN
        /\ pc[t] = "found" /\ pc' = [pc EXCEPT ![t] = after[t]]
        /\ after' = [after EXCEPT ![t] = "idle"]
        /\ writer' = NoThread
        /\ handed' \in {handed, handed \cup {<<loc[t].name, v>>}}
        /\ UNCHANGED <<s_datas, obj, s_fun_id, loc, disturbed>>
    BY DEF ReturnsFound, Unlocks, Places, Nested
  <1>0. /\ writer = t /\ s_datas[loc[t].name] \in DOMAIN obj /\ loc[t].name \in Names
        /\ after[t] \in {"idle", "notify"}
    <2>1. loc[t].name \in Names /\ after[t] \in {"idle", "notify"}
      BY DEF ThreadTypes, Locals
    <2>2. writer = t /\ s_datas[loc[t].name] # 0
      BY <1>1 DEF Places, Nested
    <2>3. QED
      BY <2>1, <2>2, Objs DEF SharedTypes
  <1> DEFINE l == loc[t]
             p == after[t]
             a == "idle"
  <1>2. /\ l \in Locals /\ loc' = [loc EXCEPT ![t] = l]
    BY <1>1 DEF ThreadTypes
  <1>3. /\ pc' = [pc EXCEPT ![t] = p] /\ after' = [after EXCEPT ![t] = a]
        /\ p \in Labels /\ a \in {"idle", "notify"} /\ p = after[t]
    BY <1>1 DEF Labels, ThreadTypes
  <1> HIDE DEF l, p, a
  <1>4. /\ ThreadTypes' /\ Others(t)
        /\ loc'[t] = l /\ pc'[t] = p /\ after'[t] = a
    <2>1. /\ l.nodes \subseteq DOMAIN l.doc /\ l.var <= Len(obj') /\ Len(obj) \in Nat
          /\ Len(obj') = Len(obj) /\ Len(obj) <= Len(obj')
      BY <1>1, <1>2, Objs DEF ThreadTypes
    <2>2. QED
      BY <1>2, <1>3, <2>1, Moves
  <1>5. SharedTypes'
    BY <1>0, <1>1 DEF SharedTypes
  <1>6. Places'
    <2>1. /\ after'[t] = "notify" => pc'[t] \in Nested
          /\ loc'[t].var = 0 <=> \/ pc'[t] \in {"idle", "load"}
                                 \/ pc'[t] \in Nested /\ after'[t] = "idle"
          /\ writer' = t <=> pc'[t] \in Nested
          /\ pc'[t] = "create" => s_datas'[loc'[t].name] = 0
          /\ pc'[t] = "found" => s_datas'[loc'[t].name] # 0
      <3>1. /\ pc'[t] = after[t] /\ after'[t] = "idle" /\ loc'[t].var = loc[t].var
            /\ writer' # t /\ pc'[t] \in {"idle", "notify"}
        BY <1>0, <1>1, <1>3, <1>4 DEF ThreadTypes
      <3>2. loc[t].var = 0 <=> after[t] = "idle"
        BY <1>0, <1>1 DEF Places, Nested
      <3>3. QED
        BY <3>1, <3>2 DEF Nested
    <2>2. QED
      BY <1>0, <1>1, <1>4, <2>1 DEF Places, Others
  <1>7. Quiet(t)
    BY <1>0, <1>1, <1>2, <1>3, <1>4 DEF Quiet, Adding, Places, Nested, Reading, ListenersStay
  <1>8. Locked' /\ ListenersStay' /\ Counted'
    BY <1>7, QuietKeeps
  <1>9. OneVarPerName'
    BY <1>1 DEF OneVarPerName
  <1>10. Told'
    BY <1>1, <1>2, <1>3, <1>4 DEF Told, Fine, Setting, Others
  <1>11. QED
    BY <1>4, <1>5, <1>6, <1>8, <1>9, <1>10

-----------------------------------------------------------------------------
(* Steps that change variables.                                            *)

\* A new variable is behind the others and in nobody's hands.
LEMMA CreatesKeeps ==
  ASSUME IInv, NEW t \in Threads, Creates(t)
  PROVE  IInv'
  <1> USE DEF IInv, ConfigTypes
  <1>0. PICK v : v = Len(obj) + 1
    OBVIOUS
  <1> DEFINE nm == loc[t].name
  <1>1. /\ pc[t] = "create" /\ pc' = [pc EXCEPT ![t] = after[t]]
        /\ after' = [after EXCEPT ![t] = "idle"]
        /\ writer' = IF writer = t THEN NoThread ELSE writer
        /\ s_datas' = [s_datas EXCEPT ![nm] = v]
        /\ handed' = handed \cup {<<nm, v>>}
        /\ UNCHANGED <<s_fun_id, loc, disturbed>>
    BY <1>0 DEF Creates, Unlocks
  <1>2. PICK x \in Values : obj' = Append(obj, Object(loc[t].type, x))
    BY DEF Creates
  <1> DEFINE o == Object(loc[t].type, x)
  <1>3. /\ nm \in Names /\ loc[t].type \in Types /\ after[t] \in {"idle", "notify"}
        /\ Len(obj) \in Nat /\ DOMAIN obj = 1..Len(obj)
    BY Objs DEF ThreadTypes, Locals
  <1>4. writer = t /\ s_datas[nm] = 0 /\ (loc[t].var = 0 <=> after[t] = "idle")
    BY <1>1, <1>3 DEF Places, Nested
  <1>5. o \in Objects /\ DOMAIN o.cbs = {} /\ o.lock = NoThread
    <2>1. << >> \in [{} -> Heard] /\ DOMAIN << >> = {}
      OBVIOUS
    <2>2. << >> \in Callbacks
      BY <2>1 DEF Callbacks
    <2>3. QED
      BY <1>3, <2>1, <2>2 DEF Objects, Object
  <1> HIDE DEF o
  <1>6. /\ obj' \in Seq(Objects) /\ Len(obj') = v /\ DOMAIN obj' = DOMAIN obj \cup {v}
        /\ \A w \in DOMAIN obj : obj'[w] = obj[w]
        /\ obj'[v] = o /\ v \notin DOMAIN obj /\ v \in Nat
    <2>1. obj' = Append(obj, o) /\ obj \in Seq(Objects)
      BY <1>2, Objs DEF o
    <2>2. QED
      BY <1>0, <1>3, <1>5, <2>1
  <1>7. /\ pc'[t] = after[t] /\ after'[t] = "idle"
        /\ \A u \in Threads \ {t} : pc'[u] = pc[u] /\ after'[u] = after[u]
        /\ pc' \in [Threads -> Labels] /\ after' \in [Threads -> {"idle", "notify"}]
    BY <1>1, <1>3 DEF ThreadTypes, Labels
  <1>8. \A u \in Threads : loc[u].var \in Nat /\ loc[u].var # v /\ loc[u].var <= Len(obj')
    BY <1>0, <1>3, <1>6 DEF ThreadTypes, Locals
  <1>9. ThreadTypes'
    BY <1>1, <1>7, <1>8 DEF ThreadTypes
  <1>10. SharedTypes'
    BY <1>0, <1>1, <1>3, <1>6 DEF SharedTypes
  <1>11. Places'
    <2>1. \A u \in Threads \ {t} : pc[u] \notin Nested
      BY <1>4 DEF Places
    <2>2. ASSUME NEW u \in Threads \ {t}
          PROVE  /\ after'[u] = "notify" => pc'[u] \in Nested
                 /\ loc'[u].var = 0 <=> \/ pc'[u] \in {"idle", "load"}
                                        \/ pc'[u] \in Nested /\ after'[u] = "idle"
                 /\ writer' = u <=> pc'[u] \in Nested
                 /\ pc'[u] # "create" /\ pc'[u] # "found"
      BY <1>1, <1>4, <1>7, <2>1 DEF Places, Nested
    <2>3. QED
      BY <1>1, <1>3, <1>4, <1>7, <2>2 DEF Places, Nested
  <1>12. Locked'
    BY <1>1, <1>3, <1>5, <1>6, <1>7, <1>8 DEF Locked, Reading, Adding
  <1>13. OneVarPerName'
    <2>1. \A h \in handed : h[1] # nm /\ h[1] \in Names
      BY <1>3, <1>4 DEF OneVarPerName, SharedTypes
    <2>2. QED
      BY <1>1, <1>3, <2>1 DEF OneVarPerName, SharedTypes
  <1>14. ListenersStay'
    <2>1. \A u \in Threads : "notify" \in {pc'[u], after'[u]} =>
            "notify" \in {pc[u], after[u]} /\ loc[u].var \in DOMAIN obj
      BY <1>1, <1>3, <1>7, <1>8 DEF Places, Nested, ThreadTypes
    <2>2. QED
      BY <1>1, <1>6, <2>1 DEF ListenersStay
  <1>15. Counted'
    <2>1. \A w \in DOMAIN obj : Alone(w)' => Alone(w)
      BY <1>6 DEF Alone
    <2>2. \A w \in DOMAIN obj : obj'[w] = obj[w] /\ s_fun_id' = s_fun_id
      BY <1>1, <1>6
    <2>3. pc'[t] \notin Adding
      BY <1>3, <1>7 DEF Adding
    <2>4. QED
      BY <1>1, <1>5, <1>6, <1>7, <1>8, <2>1, <2>2, <2>3 DEF Counted, Adding
  <1>16. Told'
    <2>1. \A w \in DOMAIN obj' : Setting(w)' = IF w = v THEN {} ELSE Setting(w)
      BY <1>1, <1>3, <1>7, <1>8 DEF Setting
    <2>2. \A w \in DOMAIN obj : \A u \in Setting(w) : pc'[u] = "store" <=> pc[u] = "store"
      BY <1>1, <1>3, <1>7 DEF Setting
    <2>3. ASSUME NEW w \in DOMAIN obj, w \notin disturbed'
          PROVE  Fine(w)'
      <3>1. Setting(w)' = Setting(w) /\ obj'[w] = obj[w] /\ w \notin disturbed
        BY <1>1, <1>6, <2>1, <2>3
      <3>2. Fine(w) /\ loc' = loc
        BY <1>1, <3>1 DEF Told
      <3>3. QED
        BY <2>2, <3>1, <3>2, FineStays
    <2>4. Fine(v)'
      <3>1. Setting(v)' = {} /\ DOMAIN obj'[v].cbs = {}
        BY <1>5, <1>6, <2>1
      <3>2. QED
        BY <3>1 DEF Fine
    <2>5. QED
      BY <1>6, <2>3, <2>4 DEF Told
  <1>17. QED
    BY <1>9, <1>10, <1>11, <1>12, <1>13, <1>14, <1>15, <1>16
\* A thread that sets a variable or adds a listener to it has it in its hands.
LEMMA InHand ==
  ASSUME IInv, NEW t \in Threads,
         pc[t] \in {"set", "notify", "store"} \cup Adding \/ "notify" \in {pc[t], after[t]}
  PROVE  loc[t].var \in DOMAIN obj
  <1>1. loc[t].var \in Nat /\ loc[t].var <= Len(obj)
    BY DEF IInv, ConfigTypes, ThreadTypes, Locals
  <1>2. loc[t].var # 0
    BY DEF IInv, Places, Adding, Nested
  <1>3. QED
    BY <1>1, <1>2, Objs DEF IInv, ConfigTypes

\* One listener is told the new value.
LEMMA NotifiesKeeps ==
  ASSUME IInv, NEW t \in Threads, Notifies(t)
  PROVE  IInv'
  <1> USE DEF IInv, ConfigTypes
  <1>0. PICK v : v = loc[t].var
    OBVIOUS
  <1>1. PICK k \in loc[t].todo :
          /\ pc[t] = "notify" /\ loc' = [loc EXCEPT ![t].todo = @ \ {k}]
          /\ obj' = [obj EXCEPT ![v].cbs = With(@, k, loc[t].val)]
          /\ UNCHANGED <<s_datas, writer, s_fun_id, pc, after, handed, disturbed>>
    BY <1>0 DEF Notifies
  <1>v. /\ v \in DOMAIN obj /\ k \in DOMAIN obj[v].cbs /\ k \in Nat
        /\ loc[t] \in Locals /\ loc[t].val \in Heard /\ loc[t].val \in Values
        /\ obj[v].cbs \in Callbacks /\ obj \in Seq(Objects)
        /\ DOMAIN obj[v].cbs \cup {k} = DOMAIN obj[v].cbs
    <2>1. v \in DOMAIN obj
      BY <1>0, <1>1, InHand
    <2>2. k \in DOMAIN obj[v].cbs
      BY <1>0, <1>1 DEF ListenersStay
    <2>3. loc[t] \in Locals /\ loc[t].val \in Values
      BY DEF ThreadTypes, Locals
    <2>4. QED
      BY <2>1, <2>2, <2>3, Objs DEF Heard
  <1>c. PICK c \in Callbacks :
          /\ c = With(obj[v].cbs, k, loc[t].val) /\ DOMAIN c = DOMAIN obj[v].cbs
          /\ c[k] = loc[t].val /\ \A j \in DOMAIN c : j # k => c[j] = obj[v].cbs[j]
    <2>1. PICK d \in Callbacks, x \in Heard : d = obj[v].cbs /\ x = loc[t].val
      BY <1>v
    <2>2. DOMAIN With(d, k, x) = DOMAIN d \cup {k} /\ With(d, k, x) \in Callbacks
      BY <1>v, CallbackMore
    <2>3. With(d, k, x)[k] = x /\ \A j \in DOMAIN d : j # k => With(d, k, x)[j] = d[j]
      BY <1>v, CallbackMore
    <2>4. QED
      BY <1>v, <2>1, <2>2, <2>3
  <1>u. /\ obj' \in Seq(Objects) /\ Len(obj') = Len(obj) /\ DOMAIN obj' = DOMAIN obj
        /\ \A w \in DOMAIN obj :
             /\ obj'[w].type = obj[w].type /\ obj'[w].val = obj[w].val
             /\ obj'[w].lock = obj[w].lock
             /\ obj'[w].cbs = IF w = v THEN c ELSE obj[w].cbs
    <2>1. obj' = [obj EXCEPT ![v].cbs = c]
      BY <1>1, <1>c
    <2>2. QED
      BY <1>v, <1>c, <2>1, UpdatesCbs
  <1> DEFINE l == [loc[t] EXCEPT !.todo = @ \ {k}]
             p == pc[t]
             a == after[t]
  <1>2. /\ l \in Locals /\ loc' = [loc EXCEPT ![t] = l]
        /\ l.var = loc[t].var /\ l.nodes = loc[t].nodes /\ l.doc = loc[t].doc
        /\ l.name = loc[t].name /\ l.val = loc[t].val /\ l.todo = loc[t].todo \ {k}
    BY <1>1, <1>v DEF Locals, ThreadTypes
  <1>3. /\ pc' = [pc EXCEPT ![t] = p] /\ after' = [after EXCEPT ![t] = a]
        /\ p \in Labels /\ a \in {"idle", "notify"} /\ p = pc[t] /\ a = after[t]
    BY <1>1 DEF Labels, ThreadTypes
  <1> HIDE DEF l, p, a
  <1>4. /\ ThreadTypes' /\ Others(t)
        /\ loc'[t] = l /\ pc'[t] = p /\ after'[t] = a
    <2>1. /\ l.nodes \subseteq DOMAIN l.doc /\ l.var <= Len(obj') /\ Len(obj) \in Nat
          /\ Len(obj') = Len(obj) /\ Len(obj) <= Len(obj')
      BY <1>0, <1>1, <1>2, <1>u, Objs DEF ThreadTypes
    <2>2. QED
      BY <1>2, <1>3, <2>1, Moves
  <1>5. SharedTypes'
    BY <1>1, <1>u DEF SharedTypes
  <1>6. Places'
    <2>1. /\ after'[t] = "notify" => pc'[t] \in Nested
          /\ loc'[t].var = 0 <=> \/ pc'[t] \in {"idle", "load"}
                                 \/ pc'[t] \in Nested /\ after'[t] = "idle"
          /\ writer' = t <=> pc'[t] \in Nested
          /\ pc'[t] = "create" => s_datas'[loc'[t].name] = 0
          /\ pc'[t] = "found" => s_datas'[loc'[t].name] # 0
      BY <1>0, <1>1, <1>2, <1>3, <1>4 DEF Places, Nested, Adding
    <2>2. QED
      BY <1>1, <1>4, <2>1 DEF Places, Others
  <1>w. \A u \in Threads : loc'[u].var = loc[u].var /\ loc'[u].val = loc[u].val
    BY <1>2, <1>4 DEF Others
  <1>7. Locked'
    BY <1>1, <1>u, <1>w DEF Locked, Reading
  <1>8. ListenersStay'
    <2>1. \A u \in Threads : loc'[u].todo \subseteq loc[u].todo
      BY <1>2, <1>4 DEF Others
    <2>2. \A u \in Threads : "notify" \in {pc[u], after[u]} => loc[u].var \in DOMAIN obj
      BY InHand
    <2>3. QED
      BY <1>1, <1>c, <1>u, <1>w, <2>1, <2>2 DEF ListenersStay
  <1>9. Counted'
    <2>1. \A u \in Threads : loc'[u].key = loc[u].key
      <3>1. l.key = loc[t].key
        BY <1>v DEF Locals, l
      <3>2. QED
        BY <3>1, <1>4 DEF Others
    <2>2. QED
      BY <1>1, <1>c, <1>u, <1>w, <2>1 DEF Counted, Alone
  <1>10. OneVarPerName'
    BY <1>1 DEF OneVarPerName
  <1>11. Told'
    <2>1. \A w : Setting(w)' = Setting(w)
      BY <1>1, <1>w DEF Setting
    <2>2. t \in Setting(v) /\ pc[t] # "store"
      BY <1>0, <1>1 DEF Setting
    <2>3. \A u \in Threads \ {t} : loc'[u] = loc[u]
      BY <1>4 DEF Others
    <2>4. \A w \in DOMAIN obj : w # v => t \notin Setting(w)
      BY <1>0 DEF Setting
    <2>5. \A w : Setting(w) \subseteq Threads
      BY DEF Setting
    <2>6. ASSUME NEW w \in DOMAIN obj, w \notin disturbed, w # v
          PROVE  Fine(w)'
      <3>1. Fine(w) /\ obj'[w].val = obj[w].val /\ obj'[w].cbs = obj[w].cbs
        BY <1>u, <2>6 DEF Told
      <3>2. QED
        BY <1>1, <2>1, <2>3, <2>4, <2>5, <2>6, <3>1, FineStays
    <2>7. ASSUME v \notin disturbed
          PROVE  Fine(v)'
      <3>1. Fine(v)
        BY <1>v, <2>7 DEF Told
      <3>2. \A u \in Setting(v) : u = t
        BY <2>2, <3>1 DEF Fine
      <3>3. ASSUME NEW j \in DOMAIN obj[v].cbs
            PROVE  c[j] \in IF j \in l.todo THEN {obj[v].val, Late} ELSE {l.val}
        BY <1>2, <1>c, <2>2, <3>1 DEF Fine
      <3>4. obj'[v].cbs = c /\ obj'[v].val = obj[v].val /\ loc'[t] = l /\ pc'[t] # "store"
        BY <1>1, <1>4, <1>u, <1>v, <2>2
      <3>5. QED
        BY <1>c, <2>1, <2>2, <3>2, <3>3, <3>4 DEF Fine
    <2>8. QED
      BY <1>1, <1>u, <2>6, <2>7 DEF Told
  <1>12. QED
    BY <1>4, <1>5, <1>6, <1>7, <1>8, <1>9, <1>10, <1>11

\* The new value is stored.
LEMMA StoresKeeps ==
  ASSUME IInv, NEW t \in Threads, Stores(t)
  PROVE  IInv'
  <1> USE DEF IInv, ConfigTypes
  <1>0. PICK v : v = loc[t].var
    OBVIOUS
  <1>1. /\ pc[t] = "store" /\ pc' = [pc EXCEPT ![t] = "load"]
        /\ obj[v].lock = NoThread /\ \A u \in Threads : ~Reading(u, v)
        /\ loc' = [loc EXCEPT ![t].var = 0, ![t].val = AnyVal, ![t].todo = {}]
        /\ obj' = [obj EXCEPT ![v].val = loc[t].val]
        /\ UNCHANGED <<s_datas, writer, s_fun_id, after, handed, disturbed>>
    BY <1>0 DEF Stores, MayWrite, Leaves, Goto
  <1>v. v \in DOMAIN obj /\ loc[t] \in Locals /\ loc[t].val \in Values /\ obj \in Seq(Objects)
    BY <1>0, <1>1, InHand, Objs DEF ThreadTypes, Locals
  <1>u. /\ obj' \in Seq(Objects) /\ Len(obj') = Len(obj) /\ DOMAIN obj' = DOMAIN obj
        /\ \A w \in DOMAIN obj :
             /\ obj'[w].type = obj[w].type /\ obj'[w].cbs = obj[w].cbs
             /\ obj'[w].lock = obj[w].lock
             /\ obj'[w].val = IF w = v THEN loc[t].val ELSE obj[w].val
    BY <1>1, <1>v, UpdatesVal
  <1> DEFINE l == [loc[t] EXCEPT !.var = 0, !.val = AnyVal, !.todo = {}]
             p == "load"
             a == after[t]
  <1>2. /\ l \in Locals /\ loc' = [loc EXCEPT ![t] = l]
        /\ l.var = 0 /\ l.nodes = loc[t].nodes /\ l.doc = loc[t].doc
        /\ l.name = loc[t].name
    BY <1>1, <1>v DEF Locals, ThreadTypes, AnyVal
  <1>3. /\ pc' = [pc EXCEPT ![t] = p] /\ after' = [after EXCEPT ![t] = a]
        /\ p \in Labels /\ a \in {"idle", "notify"} /\ p = "load" /\ a = after[t]
    BY <1>1 DEF Labels, ThreadTypes
  <1> HIDE DEF l, p, a
  <1>4. /\ ThreadTypes' /\ Others(t)
        /\ loc'[t] = l /\ pc'[t] = p /\ after'[t] = a
    <2>1. /\ l.nodes \subseteq DOMAIN l.doc /\ l.var <= Len(obj') /\ Len(obj) \in Nat
          /\ Len(obj') = Len(obj) /\ Len(obj) <= Len(obj')
      BY <1>0, <1>1, <1>2, <1>u, Objs DEF ThreadTypes
    <2>2. QED
      BY <1>2, <1>3, <2>1, Moves
  <1>5. SharedTypes'
    BY <1>1, <1>u DEF SharedTypes
  <1>6. Places'
    <2>1. /\ after'[t] = "notify" => pc'[t] \in Nested
          /\ loc'[t].var = 0 <=> \/ pc'[t] \in {"idle", "load"}
                                 \/ pc'[t] \in Nested /\ after'[t] = "idle"
          /\ writer' = t <=> pc'[t] \in Nested
          /\ pc'[t] = "create" => s_datas'[loc'[t].name] = 0
          /\ pc'[t] = "found" => s_datas'[loc'[t].name] # 0
      BY <1>0, <1>1, <1>2, <1>3, <1>4 DEF Places, Nested, Adding
    <2>2. QED
      BY <1>1, <1>4, <2>1 DEF Places, Others
  <1>w. after[t] = "idle" /\ v # 0 /\ 0 \notin DOMAIN obj
    BY <1>1, <1>v, Objs DEF Places, Nested, ThreadTypes
  <1>7. Locked'
    <2>1. \A u \in Threads : pc'[u] \in Adding <=> pc[u] \in Adding
      BY <1>1, <1>3, <1>4 DEF Adding, Others
    <2>2. \A u \in Threads : pc[u] \in Adding => loc'[u].var = loc[u].var
      BY <1>1, <1>4 DEF Adding, Others
    <2>3. \A u \in Threads : \A w \in DOMAIN obj : Reading(u, w)' => Reading(u, w)
      BY <1>2, <1>4, <1>w DEF Reading, Others
    <2>4. QED
      BY <1>u, <2>1, <2>2, <2>3 DEF Locked
  <1>8. ListenersStay'
    <2>1. \A u \in Threads : "notify" \in {pc'[u], after'[u]} =>
            u # t /\ loc'[u] = loc[u] /\ loc[u].var \in DOMAIN obj /\ loc[u].var # v
            /\ "notify" \in {pc[u], after[u]}
      BY <1>1, <1>3, <1>4, <1>w, InHand DEF Others, Reading
    <2>2. QED
      BY <1>u, <2>1 DEF ListenersStay
  <1>9. Counted'
    <2>1. \A w \in DOMAIN obj : Alone(w)' = Alone(w)
      BY <1>u DEF Alone
    <2>2. loc'[t].var \notin DOMAIN obj
      BY <1>2, <1>4, <1>w
    <2>3. \A u \in Threads \ {t} : loc'[u] = loc[u] /\ pc'[u] = pc[u]
      BY <1>4 DEF Others
    <2>4. QED
      <3>1. ASSUME NEW w \in DOMAIN obj, Alone(w)'
            PROVE  LET next == s_fun_id[obj[w].type] IN
                   /\ \A k \in DOMAIN obj[w].cbs : k <= next
                   /\ \A u \in Threads \ {t} : loc[u].var = w =>
                        /\ pc[u] = "increment" => loc[u].key = next
                        /\ pc[u] = "insert" => next \notin DOMAIN obj[w].cbs
                        /\ pc[u] = "return" => loc[u].key = next
        BY <2>1, <3>1 DEF Counted
      <3>2. ASSUME NEW w \in DOMAIN obj, Alone(w)'
            PROVE  LET next == s_fun_id[obj[w].type] IN
                   /\ \A k \in DOMAIN obj[w].cbs : k <= next
                   /\ \A u \in Threads : loc'[u].var = w =>
                        /\ pc'[u] = "increment" => loc'[u].key = next
                        /\ pc'[u] = "insert" => next \notin DOMAIN obj[w].cbs
                        /\ pc'[u] = "return" => loc'[u].key = next
        BY <2>2, <2>3, <3>1, <3>2
      <3>3. \A w \in DOMAIN obj : obj'[w].cbs = obj[w].cbs /\ obj'[w].type = obj[w].type
        BY <1>u
      <3>4. s_fun_id' = s_fun_id /\ DOMAIN obj' = DOMAIN obj
        BY <1>1, <1>u
      <3>5. QED
        BY <3>2, <3>3, <3>4 DEF Counted
  <1>10. OneVarPerName'
    BY <1>1 DEF OneVarPerName
  <1>11. Told'
    <2>1. \A u \in Threads \ {t} : /\ loc'[u] = loc[u] /\ pc'[u] = pc[u]
                                   /\ after'[u] = after[u]
      BY <1>4 DEF Others
    <2>2. loc'[t].var \notin DOMAIN obj
      BY <1>2, <1>4, <1>w
    <2>3. \A w \in DOMAIN obj : Setting(w)' = Setting(w) \ {t}
      BY <2>1, <2>2 DEF Setting
    <2>4. ASSUME NEW w \in DOMAIN obj, w \notin disturbed, w # v
          PROVE  Fine(w)'
      <3>1. t \notin Setting(w) /\ Setting(w) \subseteq Threads
        BY <1>0, <2>4 DEF Setting
      <3>2. Fine(w) /\ obj'[w].val = obj[w].val /\ obj'[w].cbs = obj[w].cbs
        BY <1>u, <2>4 DEF Told
      <3>3. Setting(w)' = Setting(w)
        BY <2>3, <3>1
      <3>4. QED
        BY <2>1, <3>1, <3>2, <3>3, FineStays
    <2>5. ASSUME v \notin disturbed
          PROVE  Fine(v)'
      <3>1. Fine(v) /\ t \in Setting(v)
        BY <1>0, <1>1, <1>v, <2>5 DEF Told, Setting
      <3>2. Setting(v)' = {}
        BY <1>v, <2>3, <3>1 DEF Fine
      <3>3. \A k \in DOMAIN obj[v].cbs : obj[v].cbs[k] \in {loc[t].val, Late}
        BY <1>1, <3>1 DEF Fine
      <3>4. QED
        BY <1>u, <1>v, <3>2, <3>3 DEF Fine
    <2>6. QED
      BY <1>1, <1>u, <2>4, <2>5 DEF Told
  <1>12. QED
    BY <1>4, <1>5, <1>6, <1>7, <1>8, <1>9, <1>10, <1>11
\* The write lock of a variable is taken for a new listener.
LEMMA addListenerKeeps ==
  ASSUME IInv, NEW t \in Threads, addListener(t)
  PROVE  IInv'
  <1> USE DEF IInv, ConfigTypes
  <1>1. PICK v \in DOMAIN obj :
          /\ obj[v].lock = NoThread /\ \A u \in Threads : ~Reading(u, v)
          /\ obj' = [obj EXCEPT ![v].lock = t]
          /\ pc[t] = "idle" /\ pc' = [pc EXCEPT ![t] = "increment"]
          /\ loc' = [loc EXCEPT ![t].var = v, ![t].key = s_fun_id[obj[v].type]]
          /\ UNCHANGED <<s_datas, writer, s_fun_id, after, handed, disturbed>>
    BY DEF addListener, AddLocks, MayWrite, Goto
  <1>0. v \in Nat /\ v # 0 /\ v <= Len(obj) /\ s_fun_id[obj[v].type] \in Nat
    BY Objs DEF SharedTypes
  <1>u. /\ obj' \in Seq(Objects) /\ Len(obj') = Len(obj) /\ DOMAIN obj' = DOMAIN obj
        /\ \A w \in DOMAIN obj :
             /\ obj'[w].type = obj[w].type /\ obj'[w].val = obj[w].val
             /\ obj'[w].cbs = obj[w].cbs
             /\ obj'[w].lock = IF w = v THEN t ELSE obj[w].lock
    BY <1>1, Objs, UpdatesLock
  <1> DEFINE l == [loc[t] EXCEPT !.var = v, !.key = s_fun_id[obj[v].type]]
             p == "increment"
             a == after[t]
  <1>2. /\ l \in Locals /\ loc' = [loc EXCEPT ![t] = l]
        /\ l.var = v /\ l.nodes = loc[t].nodes /\ l.doc = loc[t].doc
        /\ l.name = loc[t].name /\ l.key = s_fun_id[obj[v].type]
    BY <1>0, <1>1 DEF Locals, ThreadTypes
  <1>3. /\ pc' = [pc EXCEPT ![t] = p] /\ after' = [after EXCEPT ![t] = a]
        /\ p \in Labels /\ a \in {"idle", "notify"} /\ p = "increment" /\ a = "idle"
    BY <1>1 DEF Labels, ThreadTypes, Places, Nested, Adding
  <1> HIDE DEF l, p, a
  <1>4. /\ ThreadTypes' /\ Others(t)
        /\ loc'[t] = l /\ pc'[t] = p /\ after'[t] = a
    <2>1. /\ l.nodes \subseteq DOMAIN l.doc /\ l.var <= Len(obj') /\ Len(obj) \in Nat
          /\ Len(obj') = Len(obj) /\ Len(obj) <= Len(obj')
      BY <1>0, <1>1, <1>2, <1>u, Objs DEF ThreadTypes
    <2>2. QED
      BY <1>2, <1>3, <2>1, Moves
  <1>5. SharedTypes'
    BY <1>1, <1>u DEF SharedTypes
  <1>6. Places'
    <2>1. /\ after'[t] = "notify" => pc'[t] \in Nested
          /\ loc'[t].var = 0 <=> \/ pc'[t] \in {"idle", "load"}
                                 \/ pc'[t] \in Nested /\ after'[t] = "idle"
          /\ writer' = t <=> pc'[t] \in Nested
          /\ pc'[t] = "create" => s_datas'[loc'[t].name] = 0
          /\ pc'[t] = "found" => s_datas'[loc'[t].name] # 0
      BY <1>0, <1>1, <1>2, <1>3, <1>4 DEF Places, Nested, Adding
    <2>2. QED
      BY <1>1, <1>4, <2>1 DEF Places, Others
  <1>7. Locked'
    <2>1. \A u \in Threads \ {t} : /\ loc'[u] = loc[u] /\ pc'[u] = pc[u]
                                   /\ after'[u] = after[u]
      BY <1>4 DEF Others
    <2>2. /\ loc'[t].var = v /\ pc'[t] \in Adding /\ pc[t] \notin Adding
          /\ \A w : ~Reading(t, w)'
      BY <1>1, <1>2, <1>3, <1>4 DEF Adding, Reading
    <2>3. \A u \in Threads : \A w : Reading(u, w)' => Reading(u, w)
      BY <2>1, <2>2 DEF Reading
    <2>4. ASSUME NEW w \in DOMAIN obj, NEW u \in Threads
          PROVE  obj'[w].lock = u <=> loc'[u].var = w /\ pc'[u] \in Adding
      <3>1. obj[w].lock = u <=> loc[u].var = w /\ pc[u] \in Adding
        BY DEF Locked
      <3>2. obj'[w].lock = IF w = v THEN t ELSE obj[w].lock
        BY <1>u
      <3>3. CASE u = t
        BY <1>1, <2>2, <3>1, <3>2, <3>3
      <3>4. CASE u # t
        <4>1. u # NoThread /\ loc'[u] = loc[u] /\ pc'[u] = pc[u]
          BY <2>1, <3>4
        <4>2. obj[w].lock = u => w # v
          BY <1>1, <4>1
        <4>3. obj'[w].lock = u <=> obj[w].lock = u
          BY <3>2, <3>4, <4>2
        <4>4. QED
          BY <3>1, <4>1, <4>3
      <3>5. QED
        BY <3>3, <3>4
    <2>5. ASSUME NEW w \in DOMAIN obj, obj'[w].lock # NoThread, NEW u \in Threads
          PROVE  ~Reading(u, w)'
      BY <1>1, <1>u, <2>3, <2>5 DEF Locked
    <2>6. QED
      BY <1>u, <2>4, <2>5 DEF Locked
  <1>8. ListenersStay'
    <2>1. \A u \in Threads : "notify" \in {pc'[u], after'[u]} =>
            loc'[u] = loc[u] /\ loc[u].var \in DOMAIN obj /\ "notify" \in {pc[u], after[u]}
      BY <1>3, <1>4, InHand DEF Others
    <2>2. QED
      BY <1>u, <2>1 DEF ListenersStay
  <1>9. Counted'
    <2>1. \A w \in DOMAIN obj : Alone(w)' = Alone(w)
      BY <1>u DEF Alone
    <2>2. ASSUME NEW w \in DOMAIN obj, Alone(w), NEW u \in Threads, loc'[u].var = w
          PROVE  LET next == s_fun_id[obj[w].type] IN
                 /\ pc'[u] = "increment" => loc'[u].key = next
                 /\ pc'[u] = "insert" => next \notin DOMAIN obj[w].cbs
                 /\ pc'[u] = "return" => loc'[u].key = next
      BY <1>2, <1>3, <1>4, <2>2 DEF Counted, Others
    <2>3. QED
      <3>1. \A w \in DOMAIN obj : Alone(w) =>
              \A k \in DOMAIN obj[w].cbs : k <= s_fun_id[obj[w].type]
        BY DEF Counted
      <3>2. /\ s_fun_id' = s_fun_id /\ DOMAIN obj' = DOMAIN obj
            /\ \A w \in DOMAIN obj : obj'[w].type = obj[w].type /\ obj'[w].cbs = obj[w].cbs
        BY <1>1, <1>u
      <3>3. QED
        BY <2>1, <2>2, <3>1, <3>2 DEF Counted
  <1>10. OneVarPerName'
    BY <1>1 DEF OneVarPerName
  <1>11. Told'
    <2>1. \A u \in Threads \ {t} : /\ loc'[u] = loc[u] /\ pc'[u] = pc[u]
                                   /\ after'[u] = after[u]
      BY <1>4 DEF Others
    <2>2. \A w : t \notin Setting(w) /\ t \notin Setting(w)'
      BY <1>1, <1>3, <1>4 DEF Setting
    <2>3. \A w : Setting(w)' = Setting(w) /\ Setting(w) \subseteq Threads \ {t}
      BY <2>1, <2>2 DEF Setting
    <2>4. \A w \in DOMAIN obj : w \notin disturbed => Fine(w)'
      BY <1>u, <2>1, <2>3, FineStays DEF Told
    <2>5. QED
      BY <1>1, <1>u, <2>4 DEF Told
  <1>12. QED
    BY <1>4, <1>5, <1>6, <1>7, <1>8, <1>9, <1>10, <1>11

\* The counter of the type goes on by one.
LEMMA IncrementsKeeps ==
  ASSUME IInv, NEW t \in Threads, Increments(t)
  PROVE  IInv'
  <1> USE DEF IInv, ConfigTypes
  <1>0. PICK v : v = loc[t].var
    OBVIOUS
  <1>1. /\ pc[t] = "increment" /\ pc' = [pc EXCEPT ![t] = "insert"]
        /\ s_fun_id' = [s_fun_id EXCEPT ![obj[v].type] = loc[t].key + 1]
        /\ UNCHANGED <<s_datas, writer, obj, after, loc, handed, disturbed>>
    BY <1>0 DEF Increments, Goto
  <1>v. v \in DOMAIN obj /\ loc[t].key \in Nat /\ obj[v].type \in Types
    BY <1>0, <1>1, InHand, Objs DEF Adding, ThreadTypes, Locals
  <1>u. obj' = obj
    BY <1>1
  <1> DEFINE l == loc[t]
             p == "insert"
             a == after[t]
  <1>2. l \in Locals /\ loc' = [loc EXCEPT ![t] = l]
    BY <1>1 DEF ThreadTypes
  <1>3. /\ pc' = [pc EXCEPT ![t] = p] /\ after' = [after EXCEPT ![t] = a]
        /\ p \in Labels /\ a \in {"idle", "notify"} /\ p = "insert" /\ a = "idle"
        /\ l = loc[t]
    BY <1>1 DEF Labels, ThreadTypes, Places, Nested, Adding
  <1> HIDE DEF l, p, a
  <1>4. /\ ThreadTypes' /\ Others(t)
        /\ loc'[t] = l /\ pc'[t] = p /\ after'[t] = a
    <2>1. /\ l.nodes \subseteq DOMAIN l.doc /\ l.var <= Len(obj') /\ Len(obj) \in Nat
          /\ Len(obj') = Len(obj) /\ Len(obj) <= Len(obj')
      BY <1>0, <1>1, <1>2, <1>u, Objs DEF ThreadTypes
    <2>2. QED
      BY <1>2, <1>3, <2>1, Moves
  <1>5. SharedTypes'
    BY <1>1, <1>v DEF SharedTypes
  <1>6. Places'
    <2>1. /\ after'[t] = "notify" => pc'[t] \in Nested
          /\ loc'[t].var = 0 <=> \/ pc'[t] \in {"idle", "load"}
                                 \/ pc'[t] \in Nested /\ after'[t] = "idle"
          /\ writer' = t <=> pc'[t] \in Nested
          /\ pc'[t] = "create" => s_datas'[loc'[t].name] = 0
          /\ pc'[t] = "found" => s_datas'[loc'[t].name] # 0
      BY <1>0, <1>1, <1>2, <1>3, <1>4 DEF Places, Nested, Adding
    <2>2. QED
      BY <1>1, <1>4, <2>1 DEF Places, Others
  <1>7. Locked'
    BY <1>1, <1>3, <1>4 DEF Locked, Reading, Adding, Others
  <1>8. ListenersStay'
    BY <1>1, <1>3, <1>4 DEF ListenersStay, Others
  <1>9. Counted'
    <2>1. \A u \in Threads \ {t} : loc[u].var = v => pc'[u] \notin Adding
      BY <1>0, <1>1, <1>4, <1>v DEF Locked, Adding, Others
    <2>2. ASSUME Alone(v)
          PROVE  LET next == s_fun_id'[obj[v].type] IN
                 /\ next = s_fun_id[obj[v].type] + 1 /\ next \in Nat
                 /\ \A k \in DOMAIN obj[v].cbs : k \in Nat /\ k <= next /\ k # next
      <3>1. /\ loc[t].key = s_fun_id[obj[v].type] /\ s_fun_id[obj[v].type] \in Nat
            /\ \A k \in DOMAIN obj[v].cbs : k <= s_fun_id[obj[v].type]
        BY <1>0, <1>1, <1>v, <2>2 DEF Counted, SharedTypes
      <3>2. s_fun_id'[obj[v].type] = s_fun_id[obj[v].type] + 1
        BY <1>1, <1>v, <3>1 DEF SharedTypes
      <3>3. DOMAIN obj[v].cbs \subseteq Nat
        BY <1>v, Objs
      <3>4. QED
        BY <3>1, <3>2, <3>3
    <2>3. ASSUME NEW w \in DOMAIN obj, Alone(w), w # v
          PROVE  s_fun_id'[obj[w].type] = s_fun_id[obj[w].type]
      BY <1>1, <1>v, <2>3, Objs DEF Alone, SharedTypes
    <2>4. ASSUME NEW w \in DOMAIN obj, Alone(w), NEW u \in Threads, loc[u].var = w
          PROVE  LET next == s_fun_id'[obj[w].type] IN
                 /\ pc'[u] = "increment" => loc[u].key = next
                 /\ pc'[u] = "insert" => next \notin DOMAIN obj[w].cbs
                 /\ pc'[u] = "return" => loc[u].key = next
      <3>1. CASE w = v
        BY <1>0, <1>3, <1>4, <2>1, <2>2, <2>4, <3>1 DEF Adding
      <3>2. CASE w # v
        BY <1>0, <1>4, <2>3, <2>4, <3>2 DEF Counted, Others
      <3>3. QED
        BY <3>1, <3>2
    <2>5. \A w \in DOMAIN obj : Alone(w) =>
            \A k \in DOMAIN obj[w].cbs : k <= s_fun_id'[obj[w].type]
      BY <2>2, <2>3 DEF Counted
    <2>6. QED
      BY <1>1, <2>4, <2>5 DEF Counted, Alone
  <1>10. OneVarPerName'
    BY <1>1 DEF OneVarPerName
  <1>11. Told'
    <2>1. \A w : Setting(w)' = Setting(w)
      BY <1>1, <1>3, <1>4 DEF Setting, Others
    <2>2. \A w : \A u \in Setting(w) : u # t /\ pc'[u] = pc[u]
      BY <1>1, <1>3, <1>4 DEF Setting, Others
    <2>3. \A w \in DOMAIN obj : w \notin disturbed => Fine(w)'
      BY <1>1, <2>1, <2>2, FineStays DEF Told
    <2>4. QED
      BY <1>1, <2>3 DEF Told
  <1>12. QED
    BY <1>4, <1>5, <1>6, <1>7, <1>8, <1>9, <1>10, <1>11
\* The listener is entered under the key that the counter stands at.
LEMMA InsertsKeeps ==
  ASSUME IInv, NEW t \in Threads, Inserts(t)
  PROVE  IInv'
  <1> USE DEF IInv, ConfigTypes
  <1>0. PICK v, k : v = loc[t].var /\ k = s_fun_id[obj[v].type]
    OBVIOUS
  <1>1. /\ pc[t] = "insert" /\ pc' = [pc EXCEPT ![t] = "return"]
        /\ obj' = [obj EXCEPT ![v].cbs = With(@, k, IF WriterWaits(v) THEN Late ELSE obj[v].val)]
        /\ loc' = [loc EXCEPT ![t].key = k]
        /\ UNCHANGED <<s_datas, writer, s_fun_id, after, handed, disturbed>>
    BY <1>0 DEF Inserts, Goto
  <1>v. /\ v \in DOMAIN obj /\ k \in Nat /\ obj[v].type \in Types
        /\ obj[v].cbs \in Callbacks /\ obj[v].val \in Heard /\ Late \in Heard
        /\ obj \in Seq(Objects)
    <2>1. v \in DOMAIN obj
      BY <1>0, <1>1, InHand DEF Adding
    <2>2. QED
      BY <1>0, <2>1, Objs DEF Heard, SharedTypes
  <1>c. PICK c \in Callbacks :
          /\ obj' = [obj EXCEPT ![v].cbs = c] /\ DOMAIN c = DOMAIN obj[v].cbs \cup {k}
          /\ c[k] = IF WriterWaits(v) THEN Late ELSE obj[v].val
          /\ \A j \in DOMAIN obj[v].cbs : j # k => c[j] = obj[v].cbs[j]
    <2>1. PICK d \in Callbacks, x \in Heard :
            d = obj[v].cbs /\ x = IF WriterWaits(v) THEN Late ELSE obj[v].val
      BY <1>v
    <2>2. DOMAIN With(d, k, x) = DOMAIN d \cup {k} /\ With(d, k, x) \in Callbacks
      BY <1>v, CallbackMore
    <2>3. With(d, k, x)[k] = x /\ \A j \in DOMAIN d : j # k => With(d, k, x)[j] = d[j]
      BY <1>v, CallbackMore
    <2>4. obj' = [obj EXCEPT ![v].cbs = With(d, k, x)]
      BY <1>1, <2>1
    <2>5. QED
      BY <1>v, <2>1, <2>2, <2>3, <2>4
  <1>u. /\ obj' \in Seq(Objects) /\ Len(obj') = Len(obj) /\ DOMAIN obj' = DOMAIN obj
        /\ \A w \in DOMAIN obj :
             /\ obj'[w].type = obj[w].type /\ obj'[w].val = obj[w].val
             /\ obj'[w].lock = obj[w].lock
             /\ obj'[w].cbs = IF w = v THEN c ELSE obj[w].cbs
    BY <1>v, <1>c, UpdatesCbs
  <1> DEFINE l == [loc[t] EXCEPT !.key = k]
             p == "return"
             a == after[t]
  <1>2. /\ l \in Locals /\ loc' = [loc EXCEPT ![t] = l]
        /\ l.var = loc[t].var /\ l.nodes = loc[t].nodes /\ l.doc = loc[t].doc
        /\ l.name = loc[t].name /\ l.key = k
    BY <1>1, <1>v DEF Locals, ThreadTypes
  <1>3. /\ pc' = [pc EXCEPT ![t] = p] /\ after' = [after EXCEPT ![t] = a]
        /\ p \in Labels /\ a \in {"idle", "notify"} /\ p = "return" /\ a = "idle"
    BY <1>1 DEF Labels, ThreadTypes, Places, Nested, Adding
  <1> HIDE DEF l, p, a
  <1>4. /\ ThreadTypes' /\ Others(t)
        /\ loc'[t] = l /\ pc'[t] = p /\ after'[t] = a
    <2>1. /\ l.nodes \subseteq DOMAIN l.doc /\ l.var <= Len(obj') /\ Len(obj) \in Nat
          /\ Len(obj') = Len(obj) /\ Len(obj) <= Len(obj')
      BY <1>0, <1>1, <1>2, <1>u, Objs DEF ThreadTypes
    <2>2. QED
      BY <1>2, <1>3, <2>1, Moves
  <1>5. SharedTypes'
    BY <1>1, <1>u DEF SharedTypes
  <1>6. Places'
    <2>1. /\ after'[t] = "notify" => pc'[t] \in Nested
          /\ loc'[t].var = 0 <=> \/ pc'[t] \in {"idle", "load"}
                                 \/ pc'[t] \in Nested /\ after'[t] = "idle"
          /\ writer' = t <=> pc'[t] \in Nested
          /\ pc'[t] = "create" => s_datas'[loc'[t].name] = 0
          /\ pc'[t] = "found" => s_datas'[loc'[t].name] # 0
      BY <1>0, <1>1, <1>2, <1>3, <1>4 DEF Places, Nested, Adding
    <2>2. QED
      BY <1>1, <1>4, <2>1 DEF Places, Others
  <1>o. \A u \in Threads \ {t} : /\ loc'[u] = loc[u] /\ pc'[u] = pc[u]
                                 /\ after'[u] = after[u]
    BY <1>4 DEF Others
  <1>w. /\ \A u \in Threads : loc'[u].var = loc[u].var
        /\ \A u \in Threads : pc'[u] \in Adding <=> pc[u] \in Adding
        /\ \A u \in Threads, w \in DOMAIN obj : Reading(u, w)' = Reading(u, w)
    BY <1>1, <1>2, <1>3, <1>4, <1>o DEF Adding, Reading
  <1>e. /\ obj[v].lock = t /\ \A u \in Threads : ~Reading(u, v)
        /\ \A u \in Threads \ {t} : loc[u].var = v => pc[u] \notin Adding
    BY <1>0, <1>1, <1>v DEF Locked, Adding
  <1>7. Locked'
    BY <1>u, <1>w DEF Locked
  <1>8. ListenersStay'
    <2>1. \A u \in Threads : "notify" \in {pc'[u], after'[u]} =>
            /\ loc'[u] = loc[u] /\ loc[u].var \in DOMAIN obj /\ loc[u].var # v
            /\ "notify" \in {pc[u], after[u]}
      BY <1>1, <1>3, <1>4, <1>o, <1>e, InHand DEF Reading
    <2>2. QED
      BY <1>u, <2>1 DEF ListenersStay
  <1>9. Counted'
    <2>1. \A w \in DOMAIN obj : Alone(w)' = Alone(w)
      BY <1>u DEF Alone
    <2>2. ASSUME NEW w \in DOMAIN obj, Alone(w), NEW u \in Threads, loc[u].var = w
          PROVE  LET next == s_fun_id[obj[w].type] IN
                 /\ pc'[u] = "increment" => loc'[u].key = next
                 /\ pc'[u] = "insert" => next \notin DOMAIN obj'[w].cbs
                 /\ pc'[u] = "return" => loc'[u].key = next
      <3>1. CASE u = t
        BY <1>0, <1>2, <1>3, <1>4, <2>2, <3>1
      <3>2. CASE u # t /\ w # v
        BY <1>o, <1>u, <2>2, <3>2 DEF Counted
      <3>3. CASE u # t /\ w = v
        BY <1>e, <1>o, <2>2, <3>3 DEF Adding
      <3>4. QED
        BY <3>1, <3>2, <3>3
    <2>3. ASSUME NEW w \in DOMAIN obj, Alone(w), NEW j \in DOMAIN obj'[w].cbs
          PROVE  j <= s_fun_id[obj[w].type]
      BY <1>0, <1>c, <1>u, <1>v, <2>3 DEF Counted
    <2>4. QED
      BY <1>1, <1>u, <1>w, <2>1, <2>2, <2>3 DEF Counted
  <1>10. OneVarPerName'
    BY <1>1 DEF OneVarPerName
  <1>11. Told'
    <2>1. \A w : t \notin Setting(w) /\ t \notin Setting(w)'
      BY <1>1, <1>3, <1>4 DEF Setting
    <2>2. \A w : Setting(w)' = Setting(w) /\ Setting(w) \subseteq Threads \ {t}
      BY <1>o, <2>1 DEF Setting
    <2>3. ASSUME NEW w \in DOMAIN obj, w \notin disturbed, w # v
          PROVE  Fine(w)'
      <3>1. Fine(w) /\ obj'[w].val = obj[w].val /\ obj'[w].cbs = obj[w].cbs
        BY <1>u, <2>3 DEF Told
      <3>2. QED
        BY <1>o, <2>2, <3>1, FineStays
    <2>4. ASSUME v \notin disturbed
          PROVE  Fine(v)'
      <3>1. /\ Fine(v) /\ obj'[v].val = obj[v].val /\ obj'[v].cbs = c
            /\ Setting(v)' = Setting(v)
        BY <1>u, <1>v, <2>2, <2>4 DEF Told
      <3>2. \A u \in Setting(v) : pc'[u] = "store" /\ loc'[u] = loc[u] /\ pc[u] = "store"
        BY <1>e, <1>o, <2>2 DEF Setting, Reading
      <3>3. Setting(v) # {} => c[k] = Late
        BY <1>c, <3>2 DEF WriterWaits, Setting
      <3>4. c[k] \in {obj[v].val, Late}
        BY <1>c
      <3>5. Setting(v) = {} => \A j \in DOMAIN c : c[j] \in {obj[v].val, Late}
        BY <1>c, <3>1, <3>4 DEF Fine
      <3>6. \A u \in Setting(v) : \A j \in DOMAIN c : c[j] \in {loc[u].val, Late}
        BY <1>c, <3>1, <3>2, <3>3 DEF Fine
      <3>7. \A u, u2 \in Setting(v) : u = u2
        BY <3>1 DEF Fine
      <3>8. QED
        BY <3>1, <3>2, <3>5, <3>6, <3>7 DEF Fine
    <2>5. QED
      BY <1>1, <1>u, <2>3, <2>4 DEF Told
  <1>12. QED
    BY <1>4, <1>5, <1>6, <1>7, <1>8, <1>9, <1>10, <1>11

\* addListener() gives the lock back.
LEMMA ReturnsKeyKeeps ==
  ASSUME IInv, NEW t \in Threads, ReturnsKey(t)
  PROVE  IInv'
  <1> USE DEF IInv, ConfigTypes
  <1>0. PICK v : v = loc[t].var
    OBVIOUS
  <1>1. /\ pc[t] = "return" /\ pc' = [pc EXCEPT ![t] = "idle"]
        /\ loc' = [loc EXCEPT ![t] = NoLocals]
        /\ obj' = [obj EXCEPT ![v].lock = NoThread]
        /\ UNCHANGED <<s_datas, writer, s_fun_id, after, handed, disturbed>>
    BY <1>0 DEF ReturnsKey, Returns
  <1>v. v \in DOMAIN obj /\ obj \in Seq(Objects)
    BY <1>0, <1>1, InHand, Objs DEF Adding
  <1>u. /\ obj' \in Seq(Objects) /\ Len(obj') = Len(obj) /\ DOMAIN obj' = DOMAIN obj
        /\ \A w \in DOMAIN obj :
             /\ obj'[w].type = obj[w].type /\ obj'[w].val = obj[w].val
             /\ obj'[w].cbs = obj[w].cbs
             /\ obj'[w].lock = IF w = v THEN NoThread ELSE obj[w].lock
    BY <1>1, <1>v, UpdatesLock
  <1> DEFINE l == NoLocals
             p == "idle"
             a == after[t]
  <1>2. /\ l \in Locals /\ loc' = [loc EXCEPT ![t] = l]
        /\ l.var = 0 /\ l.nodes = {}
    BY <1>1, NoLocalsType DEF NoLocals
  <1>3. /\ pc' = [pc EXCEPT ![t] = p] /\ after' = [after EXCEPT ![t] = a]
        /\ p \in Labels /\ a \in {"idle", "notify"} /\ p = "idle" /\ a = "idle"
    BY <1>1 DEF Labels, ThreadTypes, Places, Nested, Adding
  <1> HIDE DEF l, p, a
  <1>4. /\ ThreadTypes' /\ Others(t)
        /\ loc'[t] = l /\ pc'[t] = p /\ after'[t] = a
    <2>1. /\ l.nodes \subseteq DOMAIN l.doc /\ l.var <= Len(obj') /\ Len(obj) \in Nat
          /\ Len(obj') = Len(obj) /\ Len(obj) <= Len(obj')
      BY <1>0, <1>1, <1>2, <1>u, Objs DEF ThreadTypes
    <2>2. QED
      BY <1>2, <1>3, <2>1, Moves
  <1>5. SharedTypes'
    BY <1>1, <1>u DEF SharedTypes
  <1>6. Places'
    <2>1. /\ after'[t] = "notify" => pc'[t] \in Nested
          /\ loc'[t].var = 0 <=> \/ pc'[t] \in {"idle", "load"}
                                 \/ pc'[t] \in Nested /\ after'[t] = "idle"
          /\ writer' = t <=> pc'[t] \in Nested
          /\ pc'[t] = "create" => s_datas'[loc'[t].name] = 0
          /\ pc'[t] = "found" => s_datas'[loc'[t].name] # 0
      BY <1>0, <1>1, <1>2, <1>3, <1>4 DEF Places, Nested, Adding
    <2>2. QED
      BY <1>1, <1>4, <2>1 DEF Places, Others
  <1>o. \A u \in Threads \ {t} : /\ loc'[u] = loc[u] /\ pc'[u] = pc[u]
                                 /\ after'[u] = after[u]
    BY <1>4 DEF Others
  <1>w. /\ loc'[t].var \notin DOMAIN obj /\ pc'[t] \notin Adding /\ pc[t] \in Adding
        /\ \A u \in Threads, w \in DOMAIN obj : Reading(u, w)' => Reading(u, w)
    <2>1. 0 \notin DOMAIN obj
      BY Objs
    <2>2. QED
      BY <1>1, <1>2, <1>3, <1>4, <1>o, <2>1 DEF Adding, Reading
  <1>7. Locked'
    <2>1. ASSUME NEW w \in DOMAIN obj, NEW u \in Threads
          PROVE  obj'[w].lock = u <=> loc'[u].var = w /\ pc'[u] \in Adding
      <3>1. /\ obj[w].lock = u <=> loc[u].var = w /\ pc[u] \in Adding
            /\ obj[w].lock = t <=> loc[t].var = w /\ pc[t] \in Adding
        BY DEF Locked
      <3>2. obj'[w].lock = IF w = v THEN NoThread ELSE obj[w].lock
        BY <1>u
      <3>3. CASE u = t
        BY <1>0, <1>w, <3>1, <3>2, <3>3
      <3>4. CASE u # t /\ w = v
        BY <1>0, <1>o, <1>w, <3>1, <3>2, <3>4
      <3>5. CASE u # t /\ w # v
        BY <1>o, <3>1, <3>2, <3>5
      <3>6. QED
        BY <3>3, <3>4, <3>5
    <2>2. ASSUME NEW w \in DOMAIN obj, obj'[w].lock # NoThread, NEW u \in Threads
          PROVE  ~Reading(u, w)'
      BY <1>u, <1>w, <2>2 DEF Locked
    <2>3. QED
      BY <1>u, <2>1, <2>2 DEF Locked
  <1>8. ListenersStay'
    <2>1. \A u \in Threads : "notify" \in {pc'[u], after'[u]} =>
            /\ loc'[u] = loc[u] /\ loc[u].var \in DOMAIN obj
            /\ "notify" \in {pc[u], after[u]}
      BY <1>1, <1>3, <1>4, <1>o, InHand
    <2>2. QED
      BY <1>u, <2>1 DEF ListenersStay
  <1>9. Counted'
    <2>1. \A w \in DOMAIN obj : Alone(w)' = Alone(w)
      BY <1>u DEF Alone
    <2>2. ASSUME NEW w \in DOMAIN obj, Alone(w), NEW u \in Threads, loc'[u].var = w
          PROVE  LET next == s_fun_id[obj[w].type] IN
                 /\ pc'[u] = "increment" => loc'[u].key = next
                 /\ pc'[u] = "insert" => next \notin DOMAIN obj[w].cbs
                 /\ pc'[u] = "return" => loc'[u].key = next
      BY <1>o, <1>w, <2>2 DEF Counted
    <2>3. \A w \in DOMAIN obj : Alone(w) =>
            \A k \in DOMAIN obj[w].cbs : k <= s_fun_id[obj[w].type]
      BY DEF Counted
    <2>4. /\ s_fun_id' = s_fun_id /\ DOMAIN obj' = DOMAIN obj
          /\ \A w \in DOMAIN obj : obj'[w].type = obj[w].type /\ obj'[w].cbs = obj[w].cbs
      BY <1>1, <1>u
    <2>5. QED
      BY <2>1, <2>2, <2>3, <2>4 DEF Counted
  <1>10. OneVarPerName'
    BY <1>1 DEF OneVarPerName
  <1>11. Told'
    <2>1. \A w : t \notin Setting(w) /\ t \notin Setting(w)'
      BY <1>1, <1>3, <1>4 DEF Setting
    <2>2. \A w : Setting(w)' = Setting(w) /\ Setting(w) \subseteq Threads \ {t}
      BY <1>o, <2>1 DEF Setting
    <2>3. \A w \in DOMAIN obj : w \notin disturbed => Fine(w)'
      BY <1>o, <1>u, <2>2, FineStays DEF Told
    <2>4. QED
      BY <1>1, <1>u, <2>3 DEF Told
  <1>12. QED
    BY <1>4, <1>5, <1>6, <1>7, <1>8, <1>9, <1>10, <1>11

\* Listeners are removed.
LEMMA RemovesKeeps ==
  ASSUME IInv, NEW t \in Threads, NEW v \in DOMAIN obj, NEW keys, Removes(t, v, keys)
  PROVE  IInv'
  <1> USE DEF IInv, ConfigTypes
  <1>1. /\ obj[v].lock = NoThread /\ \A u \in Threads : ~Reading(u, v)
        /\ obj' = [obj EXCEPT ![v].cbs = Restrict(@, DOMAIN @ \ keys)]
        /\ UNCHANGED <<s_datas, writer, s_fun_id, pc, after, loc, handed, disturbed>>
    BY DEF Removes, DeleteLocks, MayWrite
  <1>c. PICK c \in Callbacks :
          /\ obj' = [obj EXCEPT ![v].cbs = c] /\ DOMAIN c \subseteq DOMAIN obj[v].cbs
          /\ \A j \in DOMAIN c : c[j] = obj[v].cbs[j]
    <2>1. PICK d \in Callbacks : d = obj[v].cbs
      BY Objs
    <2>2. PICK S \in SUBSET DOMAIN d : S = DOMAIN d \ keys
      OBVIOUS
    <2>3. /\ Restrict(d, S) \in Callbacks /\ DOMAIN Restrict(d, S) = S
          /\ \A j \in S : Restrict(d, S)[j] = d[j]
      BY CallbacksFewer
    <2>4. obj' = [obj EXCEPT ![v].cbs = Restrict(d, S)]
      BY <1>1, <2>1, <2>2
    <2>5. QED
      BY <2>1, <2>2, <2>3, <2>4
  <1>u. /\ obj' \in Seq(Objects) /\ Len(obj') = Len(obj) /\ DOMAIN obj' = DOMAIN obj
        /\ \A w \in DOMAIN obj :
             /\ obj'[w].type = obj[w].type /\ obj'[w].val = obj[w].val
             /\ obj'[w].lock = obj[w].lock
             /\ obj'[w].cbs = IF w = v THEN c ELSE obj[w].cbs
    BY <1>c, Objs, UpdatesCbs
  <1>2. SharedTypes' /\ ThreadTypes'
    BY <1>1, <1>u DEF SharedTypes, ThreadTypes
  <1>3. Places'
    BY <1>1 DEF Places
  <1>4. Locked'
    BY <1>1, <1>u DEF Locked, Reading
  <1>5. ListenersStay'
    <2>1. \A u \in Threads : "notify" \in {pc[u], after[u]} =>
            loc[u].var \in DOMAIN obj /\ loc[u].var # v
      BY <1>1, InHand DEF Reading
    <2>2. QED
      BY <1>1, <1>u, <2>1 DEF ListenersStay
  <1>6. Counted'
    <2>1. \A w \in DOMAIN obj : Alone(w)' = Alone(w)
      BY <1>u DEF Alone
    <2>2. \A w \in DOMAIN obj : DOMAIN obj'[w].cbs \subseteq DOMAIN obj[w].cbs
      BY <1>c, <1>u
    <2>3. ASSUME NEW w \in DOMAIN obj, Alone(w)
          PROVE  LET next == s_fun_id[obj[w].type] IN
                 /\ \A k \in DOMAIN obj'[w].cbs : k <= next
                 /\ \A u \in Threads : loc[u].var = w =>
                      /\ pc[u] = "increment" => loc[u].key = next
                      /\ pc[u] = "insert" => next \notin DOMAIN obj'[w].cbs
                      /\ pc[u] = "return" => loc[u].key = next
      BY <2>2, <2>3 DEF Counted
    <2>4. /\ s_fun_id' = s_fun_id /\ DOMAIN obj' = DOMAIN obj /\ pc' = pc /\ loc' = loc
          /\ \A w \in DOMAIN obj : obj'[w].type = obj[w].type
      BY <1>1, <1>u
    <2>5. QED
      BY <2>1, <2>3, <2>4 DEF Counted
  <1>7. OneVarPerName'
    BY <1>1 DEF OneVarPerName
  <1>8. Told'
    <2>1. \A w : Setting(w)' = Setting(w)
      BY <1>1 DEF Setting
    <2>2. ASSUME NEW w \in DOMAIN obj, w \notin disturbed
          PROVE  Fine(w)'
      <3>1. Fine(w)
        BY <2>2 DEF Told
      <3>2. /\ obj'[w].val = obj[w].val /\ DOMAIN obj'[w].cbs \subseteq DOMAIN obj[w].cbs
            /\ \A k \in DOMAIN obj'[w].cbs : obj'[w].cbs[k] = obj[w].cbs[k]
        BY <1>c, <1>u
      <3>3. \A u \in Setting(w) : \A k \in DOMAIN obj'[w].cbs :
              obj'[w].cbs[k] \in IF pc[u] = "store" THEN {loc[u].val, Late}
                                ELSE IF k \in loc[u].todo THEN {obj[w].val, Late}
                                ELSE {loc[u].val}
        BY <3>1, <3>2 DEF Fine
      <3>4. Setting(w) = {} =>
              \A k \in DOMAIN obj'[w].cbs : obj'[w].cbs[k] \in {obj[w].val, Late}
        BY <3>1, <3>2 DEF Fine
      <3>5. pc' = pc /\ loc' = loc /\ \A u, u2 \in Setting(w) : u = u2
        BY <1>1, <3>1 DEF Fine
      <3>6. QED
        BY <2>1, <3>2, <3>3, <3>4, <3>5 DEF Fine
    <2>3. QED
      BY <1>1, <1>u, <2>2 DEF Told
  <1>9. QED
    BY <1>2, <1>3, <1>4, <1>5, <1>6, <1>7, <1>8

-----------------------------------------------------------------------------
(* The invariant, and what follows from it.                                *)

LEMMA IInvInit == Init => IInv
  <1> SUFFICES ASSUME Init PROVE IInv
    OBVIOUS
  <1> DEFINE o == Object(StaticType, AnyVal)
             c == With(<< >>, 1, AnyVal)
  <1>1. AnyVal \in Values /\ Static \in Names
    BY DEF AnyVal
  <1>2. c \in Callbacks /\ DOMAIN c = {1} /\ c[1] = AnyVal
    <2>1. c \in [{1} -> Heard] /\ {1} \in SUBSET Nat
      BY <1>1 DEF With, Heard
    <2>2. QED
      BY <2>1 DEF With, Callbacks
  <1> HIDE DEF c
  <1>3. obj = <<[o EXCEPT !.cbs = c]>>
    BY DEF Init, Object, c
  <1>4. /\ obj \in Seq(Objects) /\ Len(obj) = 1 /\ DOMAIN obj = {1}
        /\ obj[1].type = StaticType /\ obj[1].val = AnyVal
        /\ obj[1].lock = NoThread /\ obj[1].cbs = c
    <2>1. PICK q : q = [o EXCEPT !.cbs = c]
      OBVIOUS
    <2>2. /\ q \in Objects /\ q.type = StaticType /\ q.val = AnyVal
          /\ q.lock = NoThread /\ q.cbs = c
      BY <1>1, <1>2, <2>1 DEF Objects, Object
    <2>3. obj = <<q>>
      BY <1>3, <2>1
    <2>4. obj \in Seq(Objects) /\ Len(obj) = 1 /\ DOMAIN obj = {1} /\ obj[1] = q
      BY <2>2, <2>3
    <2>5. QED
      BY <2>2, <2>4
  <1>5. /\ pc = [t \in Threads |-> "idle"] /\ after = [t \in Threads |-> "idle"]
        /\ loc = [t \in Threads |-> NoLocals] /\ writer = NoThread
        /\ handed = {<<Static, 1>>}
        /\ s_datas = [nm \in Names |-> IF nm = Static THEN 1 ELSE 0]
        /\ s_fun_id = [ty \in Types |-> IF ty = StaticType THEN 1 ELSE 0]
    BY DEF Init
  <1>6. SharedTypes
    BY <1>1, <1>4, <1>5 DEF SharedTypes
  <1>7. ThreadTypes
    BY <1>4, <1>5, NoLocalsType DEF ThreadTypes, Labels, NoLocals
  <1>8. Places
    BY <1>5 DEF Places, NoLocals, Nested
  <1>9. Locked
    BY <1>4, <1>5 DEF Locked, NoLocals, Reading, Adding
  <1>10. OneVarPerName
    BY <1>1, <1>5 DEF OneVarPerName
  <1>11. ListenersStay
    BY <1>5 DEF ListenersStay
  <1>12. Counted
    BY <1>2, <1>4, <1>5 DEF Counted, NoLocals
  <1>13. Told
    <2>1. \A v : Setting(v) = {}
      BY <1>5 DEF Setting
    <2>2. QED
      BY <1>2, <1>4, <2>1 DEF Told, Fine
  <1>14. QED
    BY <1>6, <1>7, <1>8, <1>9, <1>10, <1>11, <1>12, <1>13 DEF IInv, ConfigTypes

LEMMA IInvStep == IInv /\ [Next]_vars => IInv'
  <1> SUFFICES ASSUME IInv, [Next]_vars PROVE IInv'
    OBVIOUS
  <1>1. ASSUME UNCHANGED vars
        PROVE  IInv'
    <2>1. /\ ConfigTypes' = ConfigTypes /\ Places' = Places /\ Locked' = Locked
          /\ OneVarPerName' = OneVarPerName /\ ListenersStay' = ListenersStay
      BY <1>1 DEF vars, ConfigTypes, SharedTypes, ThreadTypes, Places, Locked, Reading,
                  OneVarPerName, ListenersStay
    <2>2. Counted' = Counted
      BY <1>1 DEF vars, Counted, Alone
    <2>3. Told' = Told
      BY <1>1 DEF vars, Told, Fine, Setting
    <2>4. QED
      BY <2>1, <2>2, <2>3 DEF IInv
  <1>2. ASSUME Next
        PROVE  IInv'
    <2>1. PICK t \in Threads :
            \/ Lookup(t) \/ ListenerLooksUp(t) \/ LoadFromYaml(t) \/ Throws(t)
            \/ addListener(t) \/ delListener(t) \/ clearListener(t) \/ Continues(t)
      BY <1>2 DEF Next
    <2>2. CASE Lookup(t) \/ ListenerLooksUp(t)
      BY <2>2, FindsKeeps DEF Lookup, ListenerLooksUp
    <2>3. CASE LoadFromYaml(t) \/ Throws(t) \/ addListener(t)
      BY <2>3, LoadFromYamlKeeps, ThrowsKeeps, addListenerKeeps
    <2>4. CASE delListener(t) \/ clearListener(t)
      BY <2>4, RemovesKeeps DEF delListener, clearListener
    <2>5. CASE Continues(t)
      BY <2>5, ReturnsFoundKeeps, CreatesKeeps, LookupBaseKeeps, LoadedKeeps, ComparesKeeps,
         NotifiesKeeps, ReleasesKeeps, StoresKeeps, IncrementsKeeps, InsertsKeeps,
         ReturnsKeyKeeps DEF Continues
    <2>6. QED
      BY <2>1, <2>2, <2>3, <2>4, <2>5
  <1>3. QED
    BY <1>1, <1>2

LEMMA IInvAlways == Spec => []IInv
  BY IInvInit, IInvStep, PTL DEF Spec

\* A key is drawn and its listener entered under one write lock: the counter
\* of a type is ahead of all keys, and nobody else draws in between.
LEMMA KeysFollow == IInv => KeysAreOwn
  <1> SUFFICES ASSUME IInv, NEW t \in Threads, pc[t] \in {"insert", "return"},
                      Alone(loc[t].var)
      PROVE  LET v == loc[t].var IN
             /\ pc[t] = "insert" => s_fun_id[obj[v].type] \notin DOMAIN obj[v].cbs
             /\ pc[t] = "return" => s_fun_id[obj[v].type] = loc[t].key
    BY DEF KeysAreOwn, Alone
  <1>1. loc[t].var \in DOMAIN obj
    BY InHand DEF Adding
  <1>2. QED
    BY <1>1 DEF IInv, Counted

\* The types of the variables, who holds which lock, and that the key
\* addListener() returns is its listener's own (config.h:410-416, 472-498).
THEOREM ConfigIsOK == Spec => []ConfigOK
  <1>1. IInv => ConfigOK
    <2> SUFFICES ASSUME IInv PROVE ConfigOK
      OBVIOUS
    <2>1. \A nm \in Names : s_datas[nm] \in 0..Len(obj)
      BY Objs DEF IInv, ConfigTypes, SharedTypes
    <2>2. \A v \in DOMAIN obj :
            /\ obj[v].type \in Types /\ obj[v].val \in Values
            /\ DOMAIN obj[v].cbs \subseteq Nat /\ Range(obj[v].cbs) \subseteq Values \cup {Late}
      BY Objs DEF IInv, ConfigTypes, Range, Heard
    <2>3. \A v \in DOMAIN obj : \A t \in Threads : obj[v].lock = t <=>
            loc[t].var = v /\ pc[t] \in {"increment", "insert", "return"}
      BY DEF IInv, Locked, Adding
    <2>4. \A t \in Threads : writer = t <=> pc[t] \in {"found", "create"}
      BY DEF IInv, Places, Nested
    <2>5. QED
      BY <2>1, <2>2, <2>3, <2>4, KeysFollow DEF ConfigOK, ConfigTypeOK
  <1>2. QED
    BY IInvAlways, <1>1, PTL

\* A name stands for one variable for ever: what Lookup() did not find, it
\* creates before it gives the lock of the registry back (config.h:472-498).
THEOREM OneVarPerNameAlways == Spec => []OneVarPerName
  <1>1. IInv => OneVarPerName
    BY DEF IInv
  <1>2. QED
    BY IInvAlways, <1>1, PTL

\* No listener is added or removed, and no value stored, under the feet of a
\* setValue() that walks through the listeners (config.h:387-399).
THEOREM ListenersStayAlways == Spec => []ListenersStay
  <1>1. IInv => ListenersStay
    BY DEF IInv
  <1>2. QED
    BY IInvAlways, <1>1, PTL

\* The listeners of a variable that nobody is setting know its value, if
\* changes did not overlap and no listener threw (config.h:366-372, 387-399).
THEOREM ListenersToldAlways == Spec => []ListenersTold
  <1>1. IInv => ListenersTold
    BY DEF IInv, Told, Fine, ListenersTold
  <1>2. QED
    BY IInvAlways, <1>1, PTL
=============================================================================
