---------------------------- MODULE LogFormatter ----------------------------
(***************************************************************************)
(* sylar::LogFormatter::init(): the scanner that turns a pattern such as   *)
(* "%d{%H:%M} %m%n" into items.  The outer loop looks for '%', the inner   *)
(* loop reads a name and, in braces, a format; each iteration is a step.   *)
(* Positions count from 1; pos and ahead are the code's i and n.           *)
(***************************************************************************)
EXTENDS Integers, Sequences, SequencesExt

CONSTANTS
  Letters,   \* characters with isalpha()
  Others,    \* characters that are neither letters nor '%', '{', '}'
  Items,     \* the letters that s_format_items knows
  MaxLength  \* bound: length of a pattern

LBrace == "{"
RBrace == "}"
Chars == Letters \cup Others \cup {"%", LBrace, RBrace}
Patterns == UNION {[1..k -> Chars] : k \in 0..MaxLength}

ASSUME LettersAssumption ==
  /\ MaxLength \in Nat /\ Items \subseteq Letters
  /\ Letters \cap Others = {} /\ {"%", LBrace, RBrace} \cap (Letters \cup Others) = {}

VARIABLES
  m_pattern, m_items, m_error,
  at,                        \* "scan", "format", "push", "done"
  pos, nstr, vec,            \* position, text before it, what was read
  ahead, fmt_status, fmt_begin, str, fmt \* of the inner loop

outerVars == <<pos, nstr, vec>>
innerVars == <<ahead, fmt_status, fmt_begin, str, fmt>>
scanVars == <<m_pattern, m_items, m_error, at, outerVars, innerVars>>

ScanInit ==
  /\ m_pattern \in Patterns /\ m_items = << >> /\ m_error = FALSE
  /\ at = "scan" /\ pos = 1 /\ nstr = << >> /\ vec = << >>
  /\ ahead = 1 /\ fmt_status = 0 /\ fmt_begin = 1 /\ str = << >> /\ fmt = << >>

size   == Len(m_pattern)
NameSo == SubSeq(m_pattern, pos + 1, ahead - 1)
Text(s)      == [str |-> s, fmt |-> << >>, type |-> 0]
Format(s, f) == [str |-> s, fmt |-> f, type |-> 1]
pattern_error == "<<pattern_error>>"
Flushed == IF nstr = << >> THEN vec ELSE Append(vec, Text(nstr))

-----------------------------------------------------------------------------
(* The outer loop.  A '%' before another one is text; the second one is    *)
(* looked at again and begins a format of its own.                         *)

LiteralPercent == pos < size /\ m_pattern[pos] = "%" /\ m_pattern[pos + 1] = "%"
TakesText ==
  /\ at = "scan" /\ pos <= size
  /\ m_pattern[pos] # "%" \/ LiteralPercent
  /\ nstr' = Append(nstr, m_pattern[pos]) /\ pos' = pos + 1
  /\ UNCHANGED <<m_pattern, m_items, m_error, at, vec, innerVars>>
BeginsFormat ==
  /\ at = "scan" /\ pos <= size /\ m_pattern[pos] = "%" /\ ~LiteralPercent
  /\ at' = "format" /\ ahead' = pos + 1
  /\ fmt_status' = 0 /\ fmt_begin' = 1 /\ str' = << >> /\ fmt' = << >>
  /\ UNCHANGED <<m_pattern, m_items, m_error, outerVars>>

-----------------------------------------------------------------------------
(* The inner loop.                                                         *)

Reads == at = "format" /\ ahead <= size
         /\ UNCHANGED <<m_pattern, m_items, m_error, outerVars>>
NameEnds ==
  /\ Reads /\ fmt_status = 0 /\ m_pattern[ahead] \in Others \cup {"%"}
  /\ str' = NameSo /\ at' = "push"
  /\ UNCHANGED <<ahead, fmt_status, fmt_begin, fmt>>
BraceOpens ==
  /\ Reads /\ fmt_status = 0 /\ m_pattern[ahead] = LBrace
  /\ str' = NameSo /\ fmt_status' = 1 /\ fmt_begin' = ahead /\ ahead' = ahead + 1
  /\ UNCHANGED <<at, fmt>>
BraceCloses ==
  /\ Reads /\ fmt_status = 1 /\ m_pattern[ahead] = RBrace
  /\ fmt' = SubSeq(m_pattern, fmt_begin + 1, ahead - 1)
  /\ fmt_status' = 0 /\ ahead' = ahead + 1 /\ at' = "push"
  /\ UNCHANGED <<fmt_begin, str>>
\* A '}' without a '{' goes into the name.
Advances ==
  /\ Reads
  /\ m_pattern[ahead] \in IF fmt_status = 0 THEN Letters \cup {RBrace} ELSE Chars \ {RBrace}
  /\ ahead' = ahead + 1
  /\ str' = IF ahead' > size /\ str = << >> THEN SubSeq(m_pattern, pos + 1, size)
                                        ELSE str
  /\ UNCHANGED <<at, fmt_status, fmt_begin, fmt>>

\* Behind the inner loop.
Read == at = "push" \/ (at = "format" /\ ahead > size)
PushesAhead == \* mutant: the character behind the name is skipped
  /\ Read /\ fmt_status = 0
  /\ vec' = Append(Flushed, Format(str, fmt)) /\ nstr' = << >>
  /\ pos' = ahead + 1 /\ at' = "scan"
  /\ UNCHANGED <<m_pattern, m_items, m_error, innerVars>>
PushesFormat ==
  /\ Read /\ fmt_status = 0
  /\ vec' = Append(Flushed, Format(str, fmt)) /\ nstr' = << >>
  /\ pos' = ahead /\ at' = "scan"
  /\ UNCHANGED <<m_pattern, m_items, m_error, innerVars>>
\* The brace is never closed: the text before it comes behind the error, and
\* what follows the '%' is scanned as text.
OnlyPushesError == \* mutant
  /\ Read /\ fmt_status = 1
  /\ vec' = Append(vec, Text(pattern_error)) /\ pos' = pos + 1 /\ at' = "scan"
  /\ UNCHANGED <<m_pattern, m_items, m_error, nstr, innerVars>>
PushesError ==
  /\ Read /\ fmt_status = 1
  /\ m_error' = TRUE
  /\ vec' = Append(vec, Text(pattern_error)) /\ pos' = pos + 1 /\ at' = "scan"
  /\ UNCHANGED <<m_pattern, m_items, nstr, innerVars>>

-----------------------------------------------------------------------------
\* The rest of the text, and an item for each entry of vec.
Known(t) == \E c \in Items : t.str = <<c>>
ItemOf(t) == IF t.type = 0 THEN [kind |-> "string", of |-> t.str]
             ELSE IF Known(t) THEN [kind |-> t.str[1], of |-> t.fmt]
             ELSE [kind |-> "error_format", of |-> t.str]
MakesItems ==
  /\ at = "scan" /\ pos > size /\ at' = "done"
  /\ vec' = Flushed /\ nstr' = << >>
  /\ m_items' = [k \in DOMAIN vec' |-> ItemOf(vec'[k])]
  /\ m_error' = (m_error \/ \E k \in DOMAIN vec' : vec'[k].type = 1 /\ ~Known(vec'[k]))
  /\ UNCHANGED <<m_pattern, pos, innerVars>>

Scan == \/ TakesText \/ BeginsFormat
        \/ NameEnds \/ BraceOpens \/ BraceCloses \/ Advances
        \/ PushesFormat \/ PushesError \/ MakesItems
        \/ at = "done" /\ UNCHANGED scanVars
Scanning == ScanInit /\ [][Scan]_scanVars

-----------------------------------------------------------------------------
\* Types; positions stay in the pattern or one behind it, as substr() needs.
FormatterTypeOK ==
  /\ m_pattern \in Seq(Chars) /\ m_error \in BOOLEAN
  /\ at \in {"scan", "format", "push", "done"}
  /\ pos \in 1..(size + 1) /\ ahead \in 1..(size + 1) /\ fmt_begin \in 1..(size + 1)
  /\ fmt_status \in {0, 1} /\ nstr \in Seq(Chars)
  /\ at \in {"format", "push"} => pos < ahead

\* What was read spells out the pattern so far, every character once and in
\* order; names and formats are as long as they can be.  An unclosed brace
\* loses the order, so it is excepted.
Spelling(p, t, end) ==
  IF t.type = 0 THEN t.str
  ELSE LET name == <<"%">> \o t.str  brace == end + Len(name) + 1 IN
       IF brace <= Len(p) /\ p[brace] = LBrace
         THEN name \o <<LBrace>> \o t.fmt \o <<RBrace>> ELSE name
\* Where each entry of v ends in p.
Ends(p, v) ==
  LET end[k \in 0..Len(v)] ==
        IF k = 0 THEN 0 ELSE end[k - 1] + Len(Spelling(p, v[k], end[k - 1]))
  IN  end
SpelledEntry(p, v, k, begin, end) == LET t == v[k] IN
  /\ SubSeq(p, begin + 1, end) = Spelling(p, t, begin)
  /\ t.type = 0 /\ k < Len(v) => v[k + 1].type = 1
  /\ t.type = 1 => ~Contains(t.fmt, RBrace)
  /\ t.type = 1 /\ p[end] # RBrace /\ end < Len(p) => p[end + 1] \in Others \cup {"%"}
Unclosed == \E k \in DOMAIN vec : vec[k] = Text(pattern_error)
SpellsPattern ==
  LET end == Ends(m_pattern, vec) IN
  \/ Unclosed
  \/ /\ end[Len(vec)] + Len(nstr) = pos - 1
     /\ SubSeq(m_pattern, end[Len(vec)] + 1, pos - 1) = nstr
     /\ \A k \in DOMAIN vec : SpelledEntry(m_pattern, vec, k, end[k - 1], end[k])

\* Both at every step: the scanner stays in the pattern and reads it all.
PatternOK == FormatterTypeOK /\ SpellsPattern

\* The patterns that are rejected are those that an automaton rejects which
\* reads the pattern once, from left to right: a name that is not an item, no
\* name at all, or a brace that is never closed.
Start == [mode |-> "text", name |-> << >>, ok |-> TRUE]
NamesItem(q) == \E c \in Items : q.name = <<c>>
Step(q, c) ==
  CASE q.mode = "text" -> IF c = "%" THEN [q EXCEPT !.mode = "name", !.name = << >>]
                          ELSE q
    [] q.mode = "name" /\ c \in Letters \cup {RBrace} -> [q EXCEPT !.name = Append(@, c)]
    [] q.mode = "name" /\ c = LBrace -> [q EXCEPT !.mode = "braces"]
    [] q.mode = "name" /\ c = "%" ->
         [q EXCEPT !.name = << >>, !.ok = @ /\ (q.name = << >> \/ NamesItem(q))]
    [] q.mode = "name" /\ c \in Others ->
         [q EXCEPT !.mode = "text", !.ok = @ /\ NamesItem(q)]
    [] q.mode = "braces" -> IF c = RBrace THEN [q EXCEPT !.mode = "text",
                                                      !.ok = @ /\ NamesItem(q)]
                            ELSE q
\* The states of the automaton in front of each character of p and behind it.
Run(p) == LET run[k \in 0..Len(p)] == IF k = 0 THEN Start ELSE Step(run[k - 1], p[k])
          IN  run
Accepts(p) == LET q == Run(p)[Len(p)] IN
  /\ q.ok /\ q.mode # "braces" /\ (q.mode = "name" => NamesItem(q))
RejectsExactly == at = "done" => (m_error <=> ~Accepts(m_pattern))
=============================================================================
