----------------------------- MODULE LogConfig -----------------------------
(***************************************************************************)
(* The configuration variable "logs" (config.h, config.cc) and the         *)
(* listener that applies its value to the loggers (log.cc).  A thread that *)
(* loads a document runs the listener under the read lock of the variable, *)
(* so several of them may be inside it at once, and stores the value       *)
(* afterwards under the write lock.  Each call on a logger is atomic: it   *)
(* takes the logger's own lock, or writes one word.                        *)
(***************************************************************************)
EXTENDS Integers, Sequences, FiniteSets, Functions

CONSTANTS
  Setters,     \* threads that load configuration
  Names, Root, \* names of loggers; the root logger
  Documents,   \* bound: the YAML documents that are loaded, sequences of nodes
  MostAppenders \* bound: appenders of a node

\* What a document may say.  A node without name, and an appender without type
\* or file, are skipped; a formatter may be left out ("") or have bad syntax.
NoName     == "no name"
Levels     == {"UNKNOW", "DEBUG", "INFO"}
Formatters == {"", "short", "long", "bad"}
Nodes == [name : Names \cup {NoName}, level : Levels, formatter : Formatters,
          appenders : Seq(Formatters \cup {"broken"})]
ASSUME DocumentsAssumption ==
  /\ Root \in Names /\ NoName \notin Names /\ Documents \subseteq Seq(Nodes)
  /\ MostAppenders \in Nat \ {0}
  /\ \A doc \in Documents : \A i \in DOMAIN doc : Len(doc[i].appenders) <= MostAppenders

VARIABLES
  m_val,                        \* the value: definitions by name
  level, formatter, m_appenders,\* of each logger
  pc, new, todo, gone, cur, left, \* of each setter
  crashed,
  dropped, overlapped           \* history: loggers deleted and not defined
                                \* again; two threads were in setValue() at once

loggerVars  == <<level, formatter, m_appenders>>
historyVars == <<dropped, overlapped>>
vars == <<m_val, loggerVars, pc, new, todo, gone, cur, left, crashed,
          historyVars>>

Given(f) == f \notin {"", "bad"}
Appender(own, inherited) ==
  [own |-> Given(own), format |-> IF Given(own) THEN own ELSE inherited]

\* Loggers are created with these values when they are first asked for; the
\* root logger prints to stdout.
Init ==
  /\ m_val = << >>
  /\ level = [n \in Names |-> "DEBUG"]
  /\ formatter = [n \in Names |-> "default"]
  /\ m_appenders = [n \in Names |-> IF n = Root THEN <<Appender("", "default")>>
                                             ELSE << >>]
  /\ pc = [s \in Setters |-> "idle"] /\ new = [s \in Setters |-> << >>]
  /\ todo = [s \in Setters |-> {}] /\ gone = [s \in Setters |-> {}]
  /\ cur = [s \in Setters |-> Root] /\ left = [s \in Setters |-> {}]
  /\ crashed = FALSE /\ dropped = {} /\ overlapped = FALSE

-----------------------------------------------------------------------------
\* Broken appenders are left out; the others keep their order, the one of the
\* positions they are filed under.
Define(node) == LET whole == {i \in DOMAIN node.appenders : node.appenders[i] # "broken"} IN
  [level |-> node.level, formatter |-> node.formatter,
   appenders |-> Restrict(node.appenders, whole)]
\* The first node of a name counts, because the definitions go into a set.
First(doc, n) == CHOOSE i \in DOMAIN doc :
  doc[i].name = n /\ \A j \in DOMAIN doc : doc[j].name = n => i <= j
LexicalCast(doc) ==
  [n \in {doc[i].name : i \in DOMAIN doc} \ {NoName} |-> Define(doc[First(doc, n)])]

\* LogDefine::operator== compares the appenders with themselves.
Same(d, e)   == d.level = e.level /\ d.formatter = e.formatter
Equal(v, w)  == DOMAIN v = DOMAIN w /\ \A n \in DOMAIN v : Same(v[n], w[n])

Reading(s) == pc[s] \notin {"idle", "store"}
Goto(s, from, to) == pc[s] = from /\ pc' = [pc EXCEPT ![s] = to]

\* LoadFromYaml() -> fromString() -> setValue(), which returns at once when
\* nothing has changed; the listener starts under the read lock.
setValue(s) == \E doc \in Documents : LET v == LexicalCast(doc) IN
  /\ ~Equal(v, m_val)
  /\ Goto(s, "idle", "next")
  /\ new' = [new EXCEPT ![s] = v]
  /\ todo' = [todo EXCEPT ![s] = DOMAIN v]
  /\ gone' = [gone EXCEPT ![s] = DOMAIN m_val \ DOMAIN v]
  /\ overlapped' = (overlapped \/ \E t \in Setters : pc[t] # "idle")
  /\ UNCHANGED <<m_val, loggerVars, cur, left, crashed, dropped>>

\* A definition that has not changed leaves `logger' a null pointer.
NextLogger(s) == \E n \in todo[s] :
  /\ Goto(s, "next", "formatter")
  /\ IF n \in DOMAIN m_val /\ Same(new[s][n], m_val[n])
       THEN crashed' = TRUE /\ UNCHANGED level
       ELSE level' = [level EXCEPT ![n] = new[s][n].level] /\ UNCHANGED crashed
  /\ cur' = [cur EXCEPT ![s] = n]
  /\ left' = [left EXCEPT ![s] = DOMAIN new[s][n].appenders]
  /\ todo' = [todo EXCEPT ![s] = @ \ {n}]
  /\ UNCHANGED <<m_val, formatter, m_appenders, new, gone, historyVars>>

\* Appenders without a formatter of their own follow their logger.
Follows(f, ap) == IF ap.own THEN ap ELSE [ap EXCEPT !.format = f]
StaysBehind(n, f) == \* mutant
  formatter' = [formatter EXCEPT ![n] = f] /\ UNCHANGED m_appenders
setFormatter(n, f) ==
  /\ formatter' = [formatter EXCEPT ![n] = f]
  /\ m_appenders' = [m_appenders EXCEPT ![n] =
                       [i \in DOMAIN @ |-> Follows(f, @[i])]]
SetsFormatter(s) ==
  /\ Goto(s, "formatter", "clear")
  /\ LET n == cur[s] f == new[s][n].formatter IN
       IF Given(f) THEN setFormatter(n, f) ELSE UNCHANGED <<formatter, m_appenders>>
  /\ UNCHANGED <<m_val, level, new, todo, gone, cur, left, crashed, historyVars>>

KeepsAppenders(n) == UNCHANGED m_appenders \* mutant
clearAppenders(n) == m_appenders' = [m_appenders EXCEPT ![n] = << >>]
Clears(s) ==
  /\ Goto(s, "clear", "add") /\ clearAppenders(cur[s])
  /\ UNCHANGED <<m_val, level, formatter, new, todo, gone, cur, left, crashed,
                 historyVars>>

addAppender(n, own) ==
  m_appenders' = [m_appenders EXCEPT ![n] = Append(@, Appender(own, formatter[n]))]
Adds(s) == \E k \in left[s] :
  /\ Goto(s, "add", "add") /\ \A j \in left[s] : k <= j
  /\ addAppender(cur[s], new[s][cur[s]].appenders[k])
  /\ left' = [left EXCEPT ![s] = @ \ {k}]
  /\ UNCHANGED <<m_val, level, formatter, new, todo, gone, cur, crashed,
                 historyVars>>
LoggerDone(s) ==
  /\ Goto(s, "add", "next") /\ left[s] = {}
  /\ UNCHANGED <<m_val, loggerVars, new, todo, gone, cur, left, crashed,
                 historyVars>>

\* Deleted loggers: level 0, then no appenders.
KeepsLevel(s) == \E n \in gone[s] : \* mutant
  /\ todo[s] = {} /\ Goto(s, "next", "remove")
  /\ cur' = [cur EXCEPT ![s] = n] /\ gone' = [gone EXCEPT ![s] = @ \ {n}]
  /\ UNCHANGED <<m_val, loggerVars, new, todo, left, crashed, historyVars>>
DeletesLogger(s) == \E n \in gone[s] :
  /\ todo[s] = {} /\ Goto(s, "next", "remove")
  /\ cur' = [cur EXCEPT ![s] = n] /\ gone' = [gone EXCEPT ![s] = @ \ {n}]
  /\ level' = [level EXCEPT ![n] = "UNKNOW"]
  /\ UNCHANGED <<m_val, formatter, m_appenders, new, todo, left, crashed,
                 historyVars>>
RemovesAppenders(s) ==
  /\ Goto(s, "remove", "next") /\ clearAppenders(cur[s])
  /\ UNCHANGED <<m_val, level, formatter, new, todo, gone, cur, left, crashed,
                 historyVars>>

\* The listener returns: the read lock is released, the write lock taken.
ListenerReturns(s) ==
  /\ todo[s] = {} /\ gone[s] = {} /\ Goto(s, "next", "store")
  /\ UNCHANGED <<m_val, loggerVars, new, todo, gone, cur, left, crashed,
                 historyVars>>
Stores(s) ==
  /\ Goto(s, "store", "idle") /\ \A t \in Setters : ~Reading(t)
  /\ m_val' = new[s]
  /\ dropped' = (dropped \cup DOMAIN m_val) \ DOMAIN new[s]
  /\ UNCHANGED <<loggerVars, new, todo, gone, cur, left, crashed, overlapped>>

Listener(s) ==
  \/ NextLogger(s) \/ SetsFormatter(s) \/ Clears(s) \/ Adds(s) \/ LoggerDone(s)
  \/ DeletesLogger(s) \/ RemovesAppenders(s) \/ ListenerReturns(s)
Next == ~crashed /\ \E s \in Setters : setValue(s) \/ Listener(s) \/ Stores(s)
Spec == Init /\ [][Next]_vars

-----------------------------------------------------------------------------
\* Types, and no logger ever has more appenders than its definitions give it
\* while threads load one after the other.
LogTypeOK ==
  /\ level \in [Names -> Levels]
  /\ formatter \in [Names -> Formatters \cup {"default"}]
  /\ DOMAIN m_val \subseteq Names /\ dropped \subseteq Names
  /\ \A n \in DOMAIN m_val : m_val[n].level \in Levels
  /\ \A n \in Names : overlapped \/ Len(m_appenders[n]) <= MostAppenders
  /\ \A s \in Setters : cur[s] \in Names /\ todo[s] \cup gone[s] \subseteq Names

\* The loggers are as the stored value says when nobody is in setValue():
\* level, formatter if one was given, the appenders in order; a logger that the
\* value does not name any more hands everything on to the root.  Threads that
\* load at the same time may leave a mixture, and are not part of the claim.
Rank(i, positions) == Cardinality({j \in positions : j <= i})
Agrees(n, d) == LET positions == DOMAIN d.appenders IN
  /\ level[n] = d.level /\ (Given(d.formatter) => formatter[n] = d.formatter)
  /\ Len(m_appenders[n]) = Cardinality(positions)
  /\ \A i \in positions :
       m_appenders[n][Rank(i, positions)] = Appender(d.appenders[i], formatter[n])
AsConfigured ==
  ~overlapped /\ ~crashed /\ (\A s \in Setters : pc[s] = "idle") =>
    /\ \A n \in DOMAIN m_val : Agrees(n, m_val[n])
    /\ \A n \in dropped : level[n] = "UNKNOW" /\ m_appenders[n] = << >>

\* Whatever threads do to a logger at the same time, each appender prints in
\* its own format or in the present one of its logger, never in a former one:
\* setFormatter() and addAppender() exclude each other.
AppenderFormats == \A n \in Names : \A i \in DOMAIN m_appenders[n] :
  ~m_appenders[n][i].own => m_appenders[n][i].format = formatter[n]
=============================================================================
