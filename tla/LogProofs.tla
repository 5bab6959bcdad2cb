------------------------------- MODULE LogProofs -------------------------------
(***************************************************************************)
(* Proofs about logging: the scanner of patterns, for patterns of any      *)
(* length over any letters, and the listener of the variable "logs", for   *)
(* any number of threads and loggers and all documents.                    *)
(*                                                                         *)
(* The scanner's invariant says what its loops have in their hands: which  *)
(* part of the pattern each variable holds, and in which state the         *)
(* automaton is that reads the same characters.  The listener applies the  *)
(* definitions one by one; its invariant says, for each of them, how far a *)
(* thread is that loads a document alone.                                  *)
(***************************************************************************)
EXTENDS LogConfig, LogFormatter, FiniteSetTheorems, SequenceTheorems,
        WellFoundedInduction, TLAPS

-----------------------------------------------------------------------------
(* The scanner of patterns.                                                *)

\* What vec holds: texts and formats, and the text that reports an error.
Entries == [str : Seq(Chars), fmt : Seq(Chars), type : {0, 1}]
Strings == Entries \cup {Text(pattern_error)}

ReadTypes == vec \in Seq(Strings) /\ str \in Seq(Chars) /\ fmt \in Seq(Chars)

\* A name was read, up to a character that ends it; or a name up to the brace
\* at fmt_begin, and then a format up to the brace in front of ahead.
NameRead == str = NameSo /\ fmt = << >>
            /\ (ahead <= size => m_pattern[ahead] \in Others \cup {"%"})
NoneCloses(p, first, last) == \A k \in first..last : p[k] # RBrace
BraceAfter ==
  /\ pos < fmt_begin /\ fmt_begin < ahead /\ m_pattern[fmt_begin] = LBrace
NamedBefore == str = SubSeq(m_pattern, pos + 1, fmt_begin - 1)
FormatRead ==
  /\ BraceAfter /\ fmt_begin < ahead - 1 /\ NamedBefore
  /\ m_pattern[ahead - 1] = RBrace /\ NoneCloses(m_pattern, fmt_begin + 1, ahead - 2)
  /\ fmt = SubSeq(m_pattern, fmt_begin + 1, ahead - 2)

\* What the inner loop has in its hands.
Inside ==
  /\ at \in {"format", "push"} => pos <= size /\ m_pattern[pos] = "%"
  /\ at = "format" /\ fmt_status = 0 =>
       fmt = << >> /\ str = IF ahead <= size THEN << >> ELSE NameSo
  /\ at = "format" /\ fmt_status = 1 =>
       /\ BraceAfter /\ NoneCloses(m_pattern, fmt_begin + 1, ahead - 1)
       /\ ahead <= size => NamedBefore
  /\ at = "push" => fmt_status = 0 /\ (NameRead \/ FormatRead)
  /\ at = "done" => pos = size + 1 /\ nstr = << >>

\* v spells out p up to end, and what t adds to it.
SpelledTo(p, v, end) ==
  /\ v \in Seq(Entries) /\ Ends(p, v)[Len(v)] = end
  /\ \A k \in DOMAIN v : SpelledEntry(p, v, k, Ends(p, v)[k - 1], Ends(p, v)[k])
Fits(p, t, begin, end) ==
  /\ t \in Entries /\ SubSeq(p, begin + 1, end) = Spelling(p, t, begin)
  /\ t.type = 1 => ~Contains(t.fmt, RBrace)
  /\ t.type = 1 /\ p[end] # RBrace /\ end < Len(p) => p[end + 1] \in Others \cup {"%"}
\* Every entry is spelled out; text is followed by a format.
EndsInFormat == vec # << >> => vec[Len(vec)].type = 1
Spelled == LET end == pos - 1 - Len(nstr) IN
  /\ SpelledTo(m_pattern, vec, end) /\ nstr = SubSeq(m_pattern, end + 1, pos - 1)
  /\ at # "done" => EndsInFormat

\* The first m entries of v do not name anything but items.
KnownTo(v, m) == \A k \in 1..m : v[k].type = 1 => Known(v[k])
\* The characters that may follow a name.
Ending(name) == IF name = << >> THEN Others ELSE Others \cup {"%"}

\* What the automaton has read in front of pos: text, or a name that its next
\* step will judge, or the first of two '%'.
AfterText(q) == q.mode = "text" /\ (q.ok <=> KnownTo(vec, Len(vec)))
AfterName(q) ==
  /\ q.mode = "name" /\ nstr = << >> /\ vec # << >>
  /\ vec[Len(vec)].type = 1 /\ vec[Len(vec)].str = q.name
  /\ q.ok <=> KnownTo(vec, Len(vec) - 1)
  /\ pos <= size => m_pattern[pos] \in Ending(q.name)
AfterPercent(q) ==
  /\ q.mode = "name" /\ q.name = << >> /\ (q.ok <=> KnownTo(vec, Len(vec)))
  /\ pos <= size /\ m_pattern[pos] = "%"
ScanAgrees == LET q == Run(m_pattern)[pos - 1] IN
  AfterText(q) \/ AfterName(q) \/ AfterPercent(q)
\* In front of ahead: the name so far, or the name and an open brace.
FormatAgrees == LET q == Run(m_pattern)[ahead - 1] IN
  /\ q.ok <=> KnownTo(vec, Len(vec))
  /\ fmt_status = 0 =>
       /\ q.mode = "name" /\ q.name = NameSo
       /\ q.name = << >> /\ ahead <= size => m_pattern[ahead] # "%"
  /\ fmt_status = 1 => q.mode = "braces" /\ (ahead <= size => q.name = str)
\* In front of ahead: the name that will be pushed, or its closed brace.
PushAgrees == LET q == Run(m_pattern)[ahead - 1] IN
  \/ /\ q.mode = "name" /\ q.name = str /\ (q.ok <=> KnownTo(vec, Len(vec)))
     /\ ahead <= size => m_pattern[ahead] \in Ending(str)
  \/ /\ q.mode = "text"
     /\ q.ok <=> KnownTo(vec, Len(vec)) /\ Known(Format(str, fmt))
VerdictSoFar ==
  /\ m_error /\ at # "done" => ~Accepts(m_pattern)
  /\ ~m_error /\ at = "scan" => ScanAgrees
  /\ ~m_error /\ at = "format" => FormatAgrees
  /\ ~m_error /\ at = "push" => PushAgrees
  /\ RejectsExactly

-----------------------------------------------------------------------------
\* Every set of positions has a first.
LEMMA Least ==
  ASSUME NEW T \in SUBSET Nat, T # {}
  PROVE  \E x \in T : \A y \in T : x <= y
  <1> DEFINE R == {r \in Nat \X Nat : r[1] < r[2]}
  <1>1. IsWellFoundedOn(R, Nat)
    BY NatLessThanWellFounded DEF OpToRel
  <1> HIDE DEF R
  <1>2. \E x \in T : \A y \in T : ~(<<y, x>> \in R)
    BY <1>1, WFMin
  <1>3. \A x, y \in Nat : x < y => <<x, y>> \in R
    BY DEF R
  <1>4. PICK x \in T : \A y \in T : ~(<<y, x>> \in R)
    BY <1>2
  <1>5. x \in Nat /\ \A y \in T : y \in Nat /\ ~(y < x)
    BY <1>3, <1>4
  <1>6. \A y \in T : x <= y
    BY <1>5
  <1>7. QED
    BY <1>6

\* What is computed step by step exists, and stays in S if each step does.
Iterates(f, N, s0, F) == f[0] = s0 /\ \A k \in 1..N : f[k] = F[<<k, f[k - 1]>>]
LEMMA Iteration ==
  ASSUME NEW N \in Nat, NEW S, NEW s0 \in S, NEW F \in [(1..N) \X S -> S]
  PROVE  \E f \in [0..N -> S] : Iterates(f, N, s0, F)
  <1> DEFINE Upto(m) == \E f \in [0..m -> S] :
                          f[0] = s0 /\ \A k \in 1..m : f[k] = F[<<k, f[k - 1]>>]
             T == {m \in 0..N : ~Upto(m)}
  <1>1. Upto(0)
    <2>1. [k \in 0..0 |-> s0] \in [0..0 -> S]
      OBVIOUS
    <2>2. [k \in 0..0 |-> s0][0] = s0
      OBVIOUS
    <2>3. 1..0 = {}
      OBVIOUS
    <2>4. QED
      BY <2>1, <2>2, <2>3
  <1>2. ASSUME NEW m \in 0..N, m + 1 \in 0..N, Upto(m)
        PROVE  Upto(m + 1)
    <2>1. PICK f \in [0..m -> S] : f[0] = s0 /\ \A k \in 1..m : f[k] = F[<<k, f[k - 1]>>]
      BY <1>2
    <2> DEFINE g == [k \in 0..(m + 1) |-> IF k = m + 1 THEN F[<<k, f[m]>>] ELSE f[k]]
    <2>2. f[m] \in S /\ <<m + 1, f[m]>> \in (1..N) \X S
      BY <1>2
    <2>3. F[<<m + 1, f[m]>>] \in S
      BY <2>2
    <2>4. g \in [0..(m + 1) -> S]
      BY <2>3
    <2>5. g[0] = s0
      BY <2>1
    <2>6. ASSUME NEW k \in 1..(m + 1) PROVE g[k] = F[<<k, g[k - 1]>>]
      <3>1. CASE k = m + 1
        BY <3>1
      <3>2. CASE k # m + 1
        <4>1. k \in 1..m /\ k - 1 \in 0..m /\ k # m + 1 /\ k - 1 # m + 1
          BY <3>2
        <4>2. g[k] = f[k] /\ g[k - 1] = f[k - 1]
          BY <4>1
        <4>3. QED
          BY <4>1, <4>2, <2>1
      <3>3. QED
        BY <3>1, <3>2
    <2>7. QED
      BY <2>4, <2>5, <2>6
  <1>3. CASE T = {}
    <2>1. N \in 0..N
      OBVIOUS
    <2>2. Upto(N)
      BY <1>3, <2>1
    <2>3. QED
      BY <2>2 DEF Iterates
  <1>4. CASE T # {}
    <2> HIDE DEF Upto
    <2>1. PICK m \in T : \A y \in T : m <= y
      <3>1. T \in SUBSET Nat
        OBVIOUS
      <3>2. QED
        BY <3>1, <1>4, Least
    <2>2. m # 0
      BY <1>1
    <2>3. m - 1 \in 0..N /\ m - 1 + 1 = m /\ ~(m <= m - 1)
      BY <2>2
    <2>4. Upto(m - 1)
      BY <2>1, <2>3
    <2>5. Upto(m)
      BY <2>3, <2>4, <1>2
    <2>6. QED
      BY <2>5
  <1>5. QED
    BY <1>3, <1>4

LEMMA Iterated ==
  ASSUME NEW N \in Nat, NEW S, NEW f, f[0] \in S,
         \A k \in 1..N : f[k - 1] \in S => f[k] \in S
  PROVE  \A k \in 0..N : f[k] \in S
  <1> DEFINE T == {k \in 0..N : f[k] \notin S}
  <1>1. SUFFICES ASSUME T # {} PROVE FALSE
    OBVIOUS
  <1>2. PICK k \in T : \A y \in T : k <= y
    <2>1. T \in SUBSET Nat
      OBVIOUS
    <2>2. QED
      BY <2>1, <1>1, Least
  <1>3. k # 0
    OBVIOUS
  <1>4. k \in 1..N /\ k - 1 \in 0..N /\ ~(k <= k - 1)
    BY <1>3
  <1>5. f[k - 1] \in S
    BY <1>2, <1>4
  <1>6. QED
    BY <1>4, <1>5

-----------------------------------------------------------------------------
(* The automaton.                                                          *)

Modes == [mode : {"text", "name", "braces"}, name : Seq(Chars), ok : BOOLEAN]

LEMMA CharTypes ==
  /\ Letters \subseteq Chars /\ Others \subseteq Chars /\ {"%", LBrace, RBrace} \subseteq Chars
  /\ Items \subseteq Chars /\ Letters \cap Others = {}
  /\ {"%", LBrace, RBrace} \cap Letters = {} /\ {"%", LBrace, RBrace} \cap Others = {}
  /\ "%" # LBrace /\ "%" # RBrace /\ LBrace # RBrace
  BY LettersAssumption DEF Chars, LBrace, RBrace

\* The steps of the automaton, by what it has read.
LEMMA StepText ==
  ASSUME NEW q \in Modes, NEW c, q.mode = "text"
  PROVE  Step(q, c) = IF c = "%" THEN [q EXCEPT !.mode = "name", !.name = << >>]
                      ELSE q
  BY DEF Step
LEMMA StepName ==
  ASSUME NEW q \in Modes, NEW c \in Chars, q.mode = "name"
  PROVE  /\ c \in Letters \cup {RBrace} => Step(q, c) = [q EXCEPT !.name = Append(@, c)]
         /\ c = LBrace => Step(q, c) = [q EXCEPT !.mode = "braces"]
         /\ c = "%" => Step(q, c) = [q EXCEPT !.name = << >>,
                                              !.ok = @ /\ (q.name = << >> \/ NamesItem(q))]
         /\ c \in Others => Step(q, c) = [q EXCEPT !.mode = "text",
                                                   !.ok = @ /\ NamesItem(q)]
  BY CharTypes DEF Step
LEMMA StepBraces ==
  ASSUME NEW q \in Modes, NEW c, q.mode = "braces"
  PROVE  Step(q, c) = IF c = RBrace THEN [q EXCEPT !.mode = "text", !.ok = @ /\ NamesItem(q)]
                      ELSE q
  BY DEF Step

LEMMA StepType ==
  ASSUME NEW q \in Modes, NEW c \in Chars
  PROVE  Step(q, c) \in Modes
  <1>1. CASE q.mode = "text"
    <2>0. << >> \in Seq(Chars)
      OBVIOUS
    <2>1. [q EXCEPT !.mode = "name", !.name = << >>] \in Modes
      BY <2>0 DEF Modes
    <2>2. QED
      BY <1>1, <2>1, StepText
  <1>2. CASE q.mode = "name"
    <2>1. q.name \in Seq(Chars) /\ Append(q.name, c) \in Seq(Chars) /\ q.ok \in BOOLEAN
      BY DEF Modes
    <2>2. NamesItem(q) \in BOOLEAN
      BY DEF NamesItem
    <2>0. << >> \in Seq(Chars)
      OBVIOUS
    <2>3. CASE c \in Letters \cup {RBrace}
      <3>1. [q EXCEPT !.name = Append(@, c)] \in Modes
        BY <2>1 DEF Modes
      <3>2. QED
        BY <1>2, <2>3, <3>1, StepName
    <2>4. CASE c = LBrace
      <3>1. [q EXCEPT !.mode = "braces"] \in Modes
        BY <2>1 DEF Modes
      <3>2. QED
        BY <1>2, <2>4, <3>1, StepName
    <2>5. CASE c = "%"
      <3>1. [q EXCEPT !.name = << >>, !.ok = @ /\ (q.name = << >> \/ NamesItem(q))] \in Modes
        BY <2>0, <2>1, <2>2 DEF Modes
      <3>2. QED
        BY <1>2, <2>5, <3>1, StepName
    <2>6. CASE c \in Others
      <3>1. [q EXCEPT !.mode = "text", !.ok = @ /\ NamesItem(q)] \in Modes
        BY <2>1, <2>2 DEF Modes
      <3>2. QED
        BY <1>2, <2>6, <3>1, StepName
    <2>7. QED
      BY <2>3, <2>4, <2>5, <2>6 DEF Chars
  <1>3. CASE q.mode = "braces"
    <2>1. q.ok \in BOOLEAN /\ NamesItem(q) \in BOOLEAN
      BY DEF Modes, NamesItem
    <2>2. QED
      BY <1>3, <2>1, StepBraces DEF Modes
  <1>4. QED
    BY <1>1, <1>2, <1>3 DEF Modes

LEMMA StartType == Start \in Modes
  BY DEF Start, Modes

\* Run computes what its equation says.
LEMMA RunEquation ==
  ASSUME NEW p \in Seq(Chars)
  PROVE  Run(p) = [k \in 0..Len(p) |-> IF k = 0 THEN Start ELSE Step(Run(p)[k - 1], p[k])]
  <1> DEFINE Body(f) == [k \in 0..Len(p) |-> IF k = 0 THEN Start ELSE Step(f[k - 1], p[k])]
             F == [x \in (1..Len(p)) \X Modes |-> Step(x[2], p[x[1]])]
  <1>1. F \in [(1..Len(p)) \X Modes -> Modes]
    BY StepType
  <1>2. Len(p) \in Nat
    OBVIOUS
  <1> HIDE DEF F
  <1>3. PICK f \in [0..Len(p) -> Modes] : Iterates(f, Len(p), Start, F)
    BY <1>1, <1>2, StartType, Iteration
  <1>4. ASSUME NEW k \in 1..Len(p) PROVE f[k] = Step(f[k - 1], p[k])
    <2>1. f[k - 1] \in Modes
      OBVIOUS
    <2>2. QED
      BY <1>3, <2>1 DEF F, Iterates
  <1>5. f = Body(f)
    BY <1>3, <1>4 DEF Iterates
  <1>6. Run(p) = CHOOSE g : g = Body(g)
    BY DEF Run
  <1>7. QED
    <2> HIDE DEF Body
    <2>1. Run(p) = Body(Run(p))
      BY <1>5, <1>6
    <2>2. QED
      BY <2>1 DEF Body

LEMMA RunStart ==
  ASSUME NEW p \in Seq(Chars)
  PROVE  Run(p)[0] = Start
  <1>1. 0 \in 0..Len(p)
    OBVIOUS
  <1>2. QED
    BY <1>1, RunEquation

LEMMA RunStep ==
  ASSUME NEW p \in Seq(Chars), NEW k \in 1..Len(p)
  PROVE  Run(p)[k] = Step(Run(p)[k - 1], p[k])
  <1>1. k \in 0..Len(p) /\ k # 0
    OBVIOUS
  <1>2. QED
    BY <1>1, RunEquation

LEMMA RunType ==
  ASSUME NEW p \in Seq(Chars), NEW k \in 0..Len(p)
  PROVE  Run(p)[k] \in Modes
  <1>1. Run(p)[0] \in Modes
    BY RunStart, StartType
  <1>2. \A j \in 1..Len(p) : Run(p)[j - 1] \in Modes => Run(p)[j] \in Modes
    BY RunStep, StepType
  <1>3. Len(p) \in Nat
    OBVIOUS
  <1>4. \A j \in 0..Len(p) : Run(p)[j] \in Modes
    BY <1>1, <1>2, <1>3, Iterated
  <1>5. QED
    BY <1>4

-----------------------------------------------------------------------------
(* What was read, and where it ends.                                       *)

LEMMA SpellingType ==
  ASSUME NEW p, NEW t \in Entries, NEW e \in Nat
  PROVE  Spelling(p, t, e) \in Seq(Chars) /\ Len(Spelling(p, t, e)) \in Nat
  <1> DEFINE name == <<"%">> \o t.str
             long == name \o <<LBrace>> \o t.fmt \o <<RBrace>>
  <1>1. t.str \in Seq(Chars) /\ t.fmt \in Seq(Chars)
    BY DEF Entries
  <1>2. <<"%">> \in Seq(Chars) /\ <<LBrace>> \in Seq(Chars) /\ <<RBrace>> \in Seq(Chars)
    BY DEF Chars
  <1>3. name \in Seq(Chars)
    BY <1>1, <1>2, ConcatProperties
  <1>4. long \in Seq(Chars)
    <2>1. name \o <<LBrace>> \in Seq(Chars)
      BY <1>2, <1>3, ConcatProperties
    <2>2. name \o <<LBrace>> \o t.fmt \in Seq(Chars)
      BY <1>1, <2>1, ConcatProperties
    <2>3. QED
      BY <1>2, <2>2, ConcatProperties
  <1>5. Spelling(p, t, e) \in {t.str, name, long}
    BY DEF Spelling
  <1> HIDE DEF name, long
  <1>6. Spelling(p, t, e) \in Seq(Chars)
    BY <1>1, <1>3, <1>4, <1>5
  <1>7. QED
    BY <1>6, LenProperties

LEMMA EndsEquation ==
  ASSUME NEW p, NEW v \in Seq(Entries)
  PROVE  Ends(p, v) = [k \in 0..Len(v) |-> IF k = 0 THEN 0 ELSE
                         Ends(p, v)[k - 1] + Len(Spelling(p, v[k], Ends(p, v)[k - 1]))]
  <1> DEFINE Body(f) == [k \in 0..Len(v) |-> IF k = 0 THEN 0 ELSE
                           f[k - 1] + Len(Spelling(p, v[k], f[k - 1]))]
             F == [x \in (1..Len(v)) \X Nat |-> x[2] + Len(Spelling(p, v[x[1]], x[2]))]
  <1>1. F \in [(1..Len(v)) \X Nat -> Nat]
    <2>1. \A k \in 1..Len(v), e \in Nat : e + Len(Spelling(p, v[k], e)) \in Nat
      <3>1. \A k \in 1..Len(v) : v[k] \in Entries
        OBVIOUS
      <3>2. QED
        BY <3>1, SpellingType
    <2>2. QED
      BY <2>1
  <1>2. Len(v) \in Nat /\ 0 \in Nat
    OBVIOUS
  <1> HIDE DEF F
  <1>3. PICK f \in [0..Len(v) -> Nat] : Iterates(f, Len(v), 0, F)
    BY <1>1, <1>2, Iteration
  <1>4. ASSUME NEW k \in 1..Len(v)
        PROVE  f[k] = f[k - 1] + Len(Spelling(p, v[k], f[k - 1]))
    <2>1. f[k - 1] \in Nat
      OBVIOUS
    <2>2. QED
      BY <1>3, <2>1 DEF F, Iterates
  <1>5. f = Body(f)
    BY <1>3, <1>4 DEF Iterates
  <1>6. Ends(p, v) = CHOOSE g : g = Body(g)
    BY DEF Ends
  <1>7. QED
    <2> HIDE DEF Body
    <2>1. Ends(p, v) = Body(Ends(p, v))
      BY <1>5, <1>6
    <2>2. QED
      BY <2>1 DEF Body

LEMMA EndsStep ==
  ASSUME NEW p, NEW v \in Seq(Entries)
  PROVE  /\ Ends(p, v)[0] = 0
         /\ \A k \in 1..Len(v) : Ends(p, v)[k] =
              Ends(p, v)[k - 1] + Len(Spelling(p, v[k], Ends(p, v)[k - 1]))
  <1>1. 0 \in 0..Len(v) /\ \A k \in 1..Len(v) : k \in 0..Len(v) /\ k # 0
    OBVIOUS
  <1>2. QED
    BY <1>1, EndsEquation

LEMMA EndsType ==
  ASSUME NEW p, NEW v \in Seq(Entries)
  PROVE  \A k \in 0..Len(v) : Ends(p, v)[k] \in Nat
  <1>1. Len(v) \in Nat /\ Ends(p, v)[0] \in Nat
    BY EndsStep
  <1>2. ASSUME NEW k \in 1..Len(v), Ends(p, v)[k - 1] \in Nat
        PROVE  Ends(p, v)[k] \in Nat
    <2>1. v[k] \in Entries
      OBVIOUS
    <2>2. Len(Spelling(p, v[k], Ends(p, v)[k - 1])) \in Nat
      BY <1>2, <2>1, SpellingType
    <2>3. QED
      BY <1>2, <2>2, EndsStep
  <1>3. QED
    BY <1>1, <1>2, Iterated

\* An entry more does not move the ends of those before it.
LEMMA EndsAppend ==
  ASSUME NEW p, NEW v \in Seq(Entries), NEW t \in Entries
  PROVE  LET e == Ends(p, v)[Len(v)]  w == Append(v, t) IN
         /\ \A k \in 0..Len(v) : Ends(p, w)[k] = Ends(p, v)[k]
         /\ Ends(p, w)[Len(v) + 1] = e + Len(Spelling(p, t, e))
  <1> DEFINE w == Append(v, t)
             S == {k \in 0..Len(v) : Ends(p, w)[k] = Ends(p, v)[k]}
             f == [k \in 0..Len(v) |-> k]
  <1>1. /\ w \in Seq(Entries) /\ Len(w) = Len(v) + 1 /\ Len(v) \in Nat
        /\ w[Len(v) + 1] = t /\ \A k \in 1..Len(v) : w[k] = v[k]
    BY AppendProperties
  <1> HIDE DEF w
  <1>2. Ends(p, w)[0] = Ends(p, v)[0]
    BY <1>1, EndsStep
  <1>3. ASSUME NEW k \in 1..Len(v), Ends(p, w)[k - 1] = Ends(p, v)[k - 1]
        PROVE  Ends(p, w)[k] = Ends(p, v)[k]
    <2>1. k \in 1..Len(w) /\ w[k] = v[k]
      BY <1>1
    <2>2. QED
      BY <1>1, <1>3, <2>1, EndsStep
  <1>4. \A k \in 0..Len(v) : f[k] \in S
    <2>1. f[0] \in S
      BY <1>1, <1>2
    <2>2. ASSUME NEW k \in 1..Len(v), f[k - 1] \in S
          PROVE  f[k] \in S
      <3>1. k - 1 \in 0..Len(v) /\ k \in 0..Len(v)
        OBVIOUS
      <3>2. f[k - 1] = k - 1 /\ f[k] = k
        BY <3>1
      <3>3. Ends(p, w)[k - 1] = Ends(p, v)[k - 1]
        BY <2>2, <3>2
      <3>4. QED
        BY <1>3, <3>1, <3>2, <3>3
    <2> HIDE DEF S, f
    <2>3. QED
      BY <1>1, <2>1, <2>2, Iterated
  <1>5. \A k \in 0..Len(v) : Ends(p, w)[k] = Ends(p, v)[k]
    BY <1>4
  <1>6. Ends(p, w)[Len(v) + 1] = Ends(p, v)[Len(v)] + Len(Spelling(p, t, Ends(p, v)[Len(v)]))
    <2>1. Len(v) + 1 \in 1..Len(w) /\ Len(v) + 1 - 1 = Len(v) /\ Len(v) \in 0..Len(v)
      BY <1>1
    <2>2. Ends(p, w)[Len(v) + 1] =
            Ends(p, w)[Len(v)] + Len(Spelling(p, w[Len(v) + 1], Ends(p, w)[Len(v)]))
      BY <1>1, <2>1, EndsStep
    <2>3. QED
      BY <1>1, <1>5, <2>1, <2>2
  <1>7. QED
    BY <1>5, <1>6 DEF w

LEMMA SpelledAppend ==
  ASSUME NEW p \in Seq(Chars), NEW v, NEW t, NEW e \in Nat, NEW f \in e..Len(p),
         SpelledTo(p, v, e), Fits(p, t, e, f),
         v # << >> /\ v[Len(v)].type = 0 => t.type = 1
  PROVE  SpelledTo(p, Append(v, t), f)
  <1> DEFINE w == Append(v, t)
  <1>1. v \in Seq(Entries) /\ t \in Entries /\ Ends(p, v)[Len(v)] = e
    BY DEF SpelledTo, Fits
  <1>2. /\ w \in Seq(Entries) /\ Len(w) = Len(v) + 1 /\ Len(v) \in Nat
        /\ w[Len(v) + 1] = t /\ \A k \in 1..Len(v) : w[k] = v[k]
        /\ DOMAIN w = 1..Len(w) /\ DOMAIN v = 1..Len(v)
    BY <1>1, AppendProperties
  <1>3. Ends(p, w)[Len(v) + 1] = e + Len(Spelling(p, t, e))
    BY <1>1, EndsAppend
  <1>4. \A k \in 0..Len(v) : Ends(p, w)[k] = Ends(p, v)[k]
    BY <1>1, EndsAppend
  <1> HIDE DEF w
  <1>5. Len(Spelling(p, t, e)) = f - e
    <2>1. \A k \in (e + 1)..f : p[k] \in Chars
      OBVIOUS
    <2>2. Len(SubSeq(p, e + 1, f)) = IF e + 1 <= f THEN f - (e + 1) + 1 ELSE 0
      BY <2>1, SubSeqProperties
    <2>3. QED
      <3>1. SubSeq(p, e + 1, f) = Spelling(p, t, e)
        BY DEF Fits
      <3>2. QED
        BY <2>2, <3>1
  <1>6. Ends(p, w)[Len(w)] = f
    BY <1>2, <1>3, <1>5
  <1>7. ASSUME NEW k \in 1..Len(w)
        PROVE  SpelledEntry(p, w, k, Ends(p, w)[k - 1], Ends(p, w)[k])
    <2>1. CASE k = Len(w)
      <3>1. w[k] = t /\ ~(k < Len(w)) /\ k - 1 = Len(v) /\ Len(v) \in 0..Len(v)
        BY <1>2, <2>1
      <3>2. Ends(p, w)[k - 1] = e /\ Ends(p, w)[k] = f
        BY <1>1, <1>4, <1>6, <2>1, <3>1
      <3>3. QED
        BY <3>1, <3>2 DEF SpelledEntry, Fits
    <2>2. CASE k # Len(w)
      <3>1. k \in 1..Len(v) /\ k \in 0..Len(v) /\ k - 1 \in 0..Len(v) /\ w[k] = v[k]
        BY <1>2, <2>2
      <3>2. Ends(p, w)[k - 1] = Ends(p, v)[k - 1] /\ Ends(p, w)[k] = Ends(p, v)[k]
        BY <1>4, <3>1
      <3>3. SpelledEntry(p, v, k, Ends(p, v)[k - 1], Ends(p, v)[k])
        BY <1>2, <3>1 DEF SpelledTo
      <3>4. ASSUME w[k].type = 0 PROVE w[k + 1].type = 1
        <4>1. CASE k = Len(v)
          <5>1. v # << >> /\ v[Len(v)].type = 0 /\ w[k + 1] = t
            BY <1>1, <1>2, <3>1, <3>4, <4>1
          <5>2. QED
            BY <5>1
        <4>2. CASE k # Len(v)
          <5>1. k < Len(v) /\ k + 1 \in 1..Len(v)
            <6>1. Len(v) \in Nat /\ k \in 1..Len(v)
              BY <1>2, <3>1
            <6>2. QED
              BY <4>2, <6>1
          <5>2. w[k + 1] = v[k + 1]
            BY <1>2, <5>1
          <5>3. QED
            BY <3>1, <3>3, <3>4, <5>1, <5>2 DEF SpelledEntry
        <4>3. QED
          BY <4>1, <4>2
      <3>5. QED
        BY <3>1, <3>2, <3>3, <3>4 DEF SpelledEntry
    <2>3. QED
      BY <2>1, <2>2
  <1>8. QED
    BY <1>2, <1>6, <1>7 DEF SpelledTo, w

\* What the scanner reads of a pattern is spelled out by the entry it makes.
LEMMA SubSeqType ==
  ASSUME NEW p \in Seq(Chars), NEW a \in Int, NEW b \in Int, 0 <= a, b <= Len(p)
  PROVE  /\ SubSeq(p, a + 1, b) \in Seq(Chars)
         /\ Len(SubSeq(p, a + 1, b)) = IF a <= b THEN b - a ELSE 0
         /\ \A k \in 1..(b - a) : SubSeq(p, a + 1, b)[k] = p[a + k]
  <1>1. \A k \in (a + 1)..b : p[k] \in Chars
    OBVIOUS
  <1>2. /\ SubSeq(p, a + 1, b) \in Seq(Chars)
        /\ Len(SubSeq(p, a + 1, b)) = IF a + 1 <= b THEN b - (a + 1) + 1 ELSE 0
        /\ \A k \in 1..(b - (a + 1) + 1) : SubSeq(p, a + 1, b)[k] = p[(a + 1) + k - 1]
    BY <1>1, SubSeqProperties
  <1>3. QED
    BY <1>2

LEMMA TextFits ==
  ASSUME NEW p \in Seq(Chars), NEW e \in Nat, NEW f \in e..Len(p)
  PROVE  Fits(p, Text(SubSeq(p, e + 1, f)), e, f)
  <1>1. SubSeq(p, e + 1, f) \in Seq(Chars) /\ << >> \in Seq(Chars)
    BY SubSeqType
  <1>2. QED
    BY <1>1 DEF Fits, Text, Entries, Spelling

LEMMA SpellingOfFormat ==
  ASSUME NEW p \in Seq(Chars), NEW t \in Entries, NEW e \in Nat, NEW b \in Nat,
         t.type = 1, e + Len(<<"%">> \o t.str) + 1 = b
  PROVE  Spelling(p, t, e) = IF b <= Len(p) /\ p[b] = LBrace
           THEN <<"%">> \o t.str \o <<LBrace>> \o t.fmt \o <<RBrace>> ELSE <<"%">> \o t.str
  BY DEF Spelling

LEMMA NameFits ==
  ASSUME NEW p \in Seq(Chars), NEW k \in 1..Len(p), NEW m \in (k + 1)..(Len(p) + 1),
         p[k] = "%", m <= Len(p) => p[m] \in Others \cup {"%"}
  PROVE  Fits(p, Format(SubSeq(p, k + 1, m - 1), << >>), k - 1, m - 1)
  <1> DEFINE s == SubSeq(p, k + 1, m - 1)
             t == Format(s, << >>)
  <1>1. s \in Seq(Chars) /\ Len(s) = m - 1 - k /\ << >> \in Seq(Chars)
    BY SubSeqType
  <1>2. <<"%">> \o s = SubSeq(p, k, m - 1)
    BY SubSeqRecursiveFirst
  <1>3. Len(<<"%">> \o s) = m - k
    BY <1>1
  <1>4. t.str = s /\ t.fmt = << >> /\ t.type = 1 /\ t \in Entries
    BY <1>1 DEF Format, Entries
  <1> HIDE DEF s, t
  <1>5. (k - 1) + Len(<<"%">> \o s) + 1 = m
    BY <1>3
  <1>6. ~(m <= Len(p) /\ p[m] = LBrace)
    BY CharTypes
  <1>7. Spelling(p, t, k - 1) = <<"%">> \o s
    <2>1. k - 1 \in Nat /\ m \in Nat /\ (k - 1) + Len(<<"%">> \o t.str) + 1 = m
      BY <1>4, <1>5
    <2>2. Spelling(p, t, k - 1) = IF m <= Len(p) /\ p[m] = LBrace
            THEN <<"%">> \o t.str \o <<LBrace>> \o t.fmt \o <<RBrace>> ELSE <<"%">> \o t.str
      BY <1>4, <2>1, SpellingOfFormat
    <2>3. QED
      BY <1>4, <1>6, <2>2
  <1>8. ~Contains(t.fmt, RBrace)
    BY <1>4 DEF Contains
  <1>9. m - 1 < Len(p) => p[(m - 1) + 1] \in Others \cup {"%"}
    OBVIOUS
  <1>10. QED
    <2>1. (k - 1) + 1 = k
      OBVIOUS
    <2>2. Fits(p, t, k - 1, m - 1)
      BY <1>2, <1>4, <1>7, <1>8, <1>9, <2>1 DEF Fits
    <2>3. QED
      BY <2>2 DEF s, t

LEMMA FormatFits ==
  ASSUME NEW p \in Seq(Chars), NEW k \in Nat, NEW b \in Nat, NEW m \in Nat,
         1 <= k, k < b, b < m, m <= Len(p), p[k] = "%", p[b] = LBrace, p[m] = RBrace,
         NoneCloses(p, b + 1, m - 1)
  PROVE  Fits(p, Format(SubSeq(p, k + 1, b - 1), SubSeq(p, b + 1, m - 1)), k - 1, m)
  <1> DEFINE s == SubSeq(p, k + 1, b - 1)
             f == SubSeq(p, b + 1, m - 1)
             t == Format(s, f)
  <1>0. /\ k \in Nat /\ b \in Nat /\ m \in Nat /\ Len(p) \in Nat
        /\ 1 <= k /\ k < b /\ b < m /\ m <= Len(p)
    OBVIOUS
  <1>1. s \in Seq(Chars) /\ Len(s) = b - 1 - k
    BY <1>0, SubSeqType
  <1>2. f \in Seq(Chars) /\ Len(f) = m - 1 - b /\ \A j \in 1..(m - 1 - b) : f[j] = p[b + j]
    BY <1>0, SubSeqType
  <1>3. <<"%">> \o s = SubSeq(p, k, b - 1)
    BY <1>0, SubSeqRecursiveFirst
  <1>4. Len(<<"%">> \o s) = b - k
    BY <1>0, <1>1
  <1>5. t.str = s /\ t.fmt = f /\ t.type = 1 /\ t \in Entries
    BY <1>1, <1>2 DEF Format, Entries
  <1>6. SubSeq(p, k, b) = SubSeq(p, k, b - 1) \o <<LBrace>>
    BY <1>0, SubSeqRecursiveSecond
  <1>7. SubSeq(p, k, m - 1) = SubSeq(p, k, b) \o f
    BY <1>0, ConcatAdjacentSubSeq
  <1>8. SubSeq(p, k, m) = SubSeq(p, k, m - 1) \o <<RBrace>>
    BY <1>0, SubSeqRecursiveSecond
  <1> HIDE DEF s, f, t
  <1>9. (k - 1) + Len(<<"%">> \o s) + 1 = b
    BY <1>0, <1>4
  <1>10. Spelling(p, t, k - 1) = <<"%">> \o s \o <<LBrace>> \o f \o <<RBrace>>
    <2>1. k - 1 \in Nat /\ (k - 1) + Len(<<"%">> \o t.str) + 1 = b
      BY <1>0, <1>5, <1>9
    <2>2. Spelling(p, t, k - 1) = IF b <= Len(p) /\ p[b] = LBrace
            THEN <<"%">> \o t.str \o <<LBrace>> \o t.fmt \o <<RBrace>> ELSE <<"%">> \o t.str
      BY <1>0, <1>5, <2>1, SpellingOfFormat
    <2>3. b <= Len(p)
      BY <1>0
    <2>4. QED
      BY <1>5, <2>2, <2>3
  <1>11. Spelling(p, t, k - 1) = SubSeq(p, (k - 1) + 1, m)
    <2>1. (k - 1) + 1 = k
      BY <1>0
    <2>2. QED
      BY <1>3, <1>6, <1>7, <1>8, <1>10, <2>1
  <1>12. ~Contains(t.fmt, RBrace)
    <2>1. \A j \in 1..Len(f) : f[j] = p[b + j] /\ b + j \in (b + 1)..(m - 1)
      BY <1>0, <1>2
    <2>2. \A j \in 1..Len(f) : f[j] # RBrace
      BY <2>1 DEF NoneCloses
    <2>3. QED
      BY <1>5, <2>2 DEF Contains
  <1>13. QED
    BY <1>5, <1>11, <1>12 DEF Fits, s, f, t

-----------------------------------------------------------------------------
(* The scanner stays in the pattern.                                       *)

ScanTypes == FormatterTypeOK /\ ReadTypes /\ Inside

LEMMA EntryTypes ==
  ASSUME NEW s \in Seq(Chars), NEW f \in Seq(Chars)
  PROVE  /\ Text(s) \in Entries /\ Text(s).type = 0
         /\ Format(s, f) \in Entries /\ Format(s, f).type = 1
         /\ Format(s, f).str = s /\ Format(s, f).fmt = f
  <1>1. << >> \in Seq(Chars)
    OBVIOUS
  <1>2. QED
    BY <1>1 DEF Text, Format, Entries

LEMMA FlushedType ==
  ASSUME ScanTypes
  PROVE  Flushed \in Seq(Strings)
  <1>1. vec \in Seq(Strings) /\ nstr \in Seq(Chars)
    BY DEF ScanTypes, FormatterTypeOK, ReadTypes
  <1>2. Text(nstr) \in Strings
    BY <1>1, EntryTypes DEF Strings
  <1>3. Append(vec, Text(nstr)) \in Seq(Strings)
    BY <1>1, <1>2
  <1>4. QED
    BY <1>1, <1>3 DEF Flushed

LEMMA NameSoType ==
  ASSUME ScanTypes
  PROVE  NameSo \in Seq(Chars)
  <1>1. /\ m_pattern \in Seq(Chars) /\ size \in Nat
        /\ pos \in 1..(size + 1) /\ ahead \in 1..(size + 1)
    BY DEF ScanTypes, FormatterTypeOK, size
  <1>2. pos \in Int /\ ahead - 1 \in Int /\ 0 <= pos /\ ahead - 1 <= Len(m_pattern)
    BY <1>1 DEF size
  <1>3. QED
    BY <1>1, <1>2, SubSeqType DEF NameSo

LEMMA ScanInitTypes ==
  ASSUME ScanInit
  PROVE  ScanTypes
  <1>1. m_pattern \in Seq(Chars)
    <2>1. PICK k \in 0..MaxLength : m_pattern \in [1..k -> Chars]
      BY DEF ScanInit, Patterns
    <2>2. k \in Nat
      BY LettersAssumption
    <2>3. QED
      BY <2>1, <2>2
  <1>2. size \in Nat
    BY <1>1 DEF size
  <1>3. FormatterTypeOK
    <2>1. 1 \in 1..(size + 1) /\ << >> \in Seq(Chars)
      BY <1>2
    <2>2. /\ m_error = FALSE /\ at = "scan" /\ pos = 1 /\ nstr = << >>
          /\ ahead = 1 /\ fmt_status = 0 /\ fmt_begin = 1
      BY DEF ScanInit
    <2>3. QED
      BY <1>1, <2>1, <2>2 DEF FormatterTypeOK
  <1>4. ReadTypes
    BY DEF ScanInit, ReadTypes
  <1>5. Inside
    BY DEF ScanInit, Inside
  <1>6. QED
    BY <1>3, <1>4, <1>5 DEF ScanTypes

LEMMA ScanStepTypes ==
  ASSUME ScanTypes, [Scan]_scanVars
  PROVE  ScanTypes'
  <1>1. /\ m_pattern \in Seq(Chars) /\ size \in Nat /\ m_error \in BOOLEAN
        /\ pos \in 1..(size + 1) /\ ahead \in 1..(size + 1) /\ fmt_begin \in 1..(size + 1)
        /\ fmt_status \in {0, 1} /\ nstr \in Seq(Chars)
        /\ at \in {"scan", "format", "push", "done"}
        /\ at \in {"format", "push"} => pos < ahead
    BY DEF ScanTypes, FormatterTypeOK, size
  <1>2. vec \in Seq(Strings) /\ str \in Seq(Chars) /\ fmt \in Seq(Chars)
    BY DEF ScanTypes, ReadTypes
  <1>3. /\ at \in {"format", "push"} => pos <= size /\ m_pattern[pos] = "%"
        /\ at = "format" /\ fmt_status = 0 =>
             fmt = << >> /\ str = IF ahead <= size THEN << >> ELSE NameSo
        /\ at = "format" /\ fmt_status = 1 =>
             /\ BraceAfter /\ NoneCloses(m_pattern, fmt_begin + 1, ahead - 1)
             /\ ahead <= size => NamedBefore
        /\ at = "push" => fmt_status = 0 /\ (NameRead \/ FormatRead)
    BY DEF ScanTypes, Inside
  <1>4. << >> \in Seq(Chars) /\ NameSo \in Seq(Chars) /\ Flushed \in Seq(Strings)
    BY NameSoType, FlushedType
  <1>5. CASE TakesText
    <2>1. m_pattern[pos] \in Chars
      BY <1>1, <1>5 DEF TakesText, size
    <2>2. Append(nstr, m_pattern[pos]) \in Seq(Chars)
      BY <1>1, <2>1
    <2>3. FormatterTypeOK'
      BY <1>1, <1>5, <2>2 DEF TakesText, FormatterTypeOK, size, innerVars
    <2>4. ReadTypes'
      BY <1>2, <1>5 DEF TakesText, ReadTypes, innerVars
    <2>5. Inside'
      BY <1>5 DEF TakesText, Inside
    <2>6. QED
      BY <2>3, <2>4, <2>5 DEF ScanTypes
  <1>6. CASE BeginsFormat
    <2>1. FormatterTypeOK'
      BY <1>1, <1>6 DEF BeginsFormat, FormatterTypeOK, size, outerVars
    <2>2. ReadTypes'
      BY <1>2, <1>4, <1>6 DEF BeginsFormat, ReadTypes, outerVars
    <2>3. ~(ahead' <= size') => str' = NameSo'
      <3>1. pos + 1 > (pos + 1) - 1 /\ pos + 1 \in Int /\ (pos + 1) - 1 \in Int
        BY <1>1
      <3>2. SubSeq(m_pattern, pos + 1, (pos + 1) - 1) = << >>
        BY <3>1, SubSeqEmpty
      <3>3. QED
        BY <1>6, <3>2 DEF BeginsFormat, NameSo, outerVars
    <2>4. Inside'
      BY <1>6, <2>3 DEF BeginsFormat, Inside, size, outerVars
    <2>5. QED
      BY <2>1, <2>2, <2>4 DEF ScanTypes
  <1>7. CASE NameEnds
    <2>1. FormatterTypeOK'
      BY <1>1, <1>7 DEF NameEnds, Reads, FormatterTypeOK, size, outerVars
    <2>2. ReadTypes'
      BY <1>2, <1>4, <1>7 DEF NameEnds, Reads, ReadTypes, outerVars
    <2>3. NameRead'
      BY <1>3, <1>7 DEF NameEnds, Reads, NameRead, NameSo, size, outerVars
    <2>4. Inside'
      BY <1>3, <1>7, <2>3 DEF NameEnds, Reads, Inside, size, outerVars
    <2>5. QED
      BY <2>1, <2>2, <2>4 DEF ScanTypes
  <1>8. CASE BraceOpens
    <2>1. FormatterTypeOK'
      BY <1>1, <1>8 DEF BraceOpens, Reads, FormatterTypeOK, size, outerVars
    <2>2. ReadTypes'
      BY <1>2, <1>4, <1>8 DEF BraceOpens, Reads, ReadTypes, outerVars
    <2>3. BraceAfter'
      BY <1>1, <1>8 DEF BraceOpens, Reads, BraceAfter, outerVars
    <2>4. NoneCloses(m_pattern, fmt_begin + 1, ahead - 1)'
      BY <1>1, <1>8 DEF BraceOpens, Reads, NoneCloses
    <2>5. NamedBefore'
      BY <1>8 DEF BraceOpens, Reads, NamedBefore, NameSo, outerVars
    <2>6. Inside'
      BY <1>3, <1>8, <2>3, <2>4, <2>5 DEF BraceOpens, Reads, Inside, size, outerVars
    <2>7. QED
      BY <2>1, <2>2, <2>6 DEF ScanTypes
  <1>9. CASE BraceCloses
    <2>1. SubSeq(m_pattern, fmt_begin + 1, ahead - 1) \in Seq(Chars)
      <3>1. fmt_begin \in Int /\ ahead - 1 \in Int /\ 0 <= fmt_begin /\ ahead - 1 <= Len(m_pattern)
        BY <1>1, <1>9 DEF BraceCloses, Reads, size
      <3>2. QED
        BY <1>1, <3>1, SubSeqType
    <2>2. FormatterTypeOK'
      BY <1>1, <1>9 DEF BraceCloses, Reads, FormatterTypeOK, size, outerVars
    <2>3. ReadTypes'
      BY <1>2, <1>9, <2>1 DEF BraceCloses, Reads, ReadTypes, outerVars
    <2>4. FormatRead'
      <3>1. /\ BraceAfter /\ NoneCloses(m_pattern, fmt_begin + 1, ahead - 1) /\ NamedBefore
            /\ m_pattern[ahead] = RBrace
        BY <1>3, <1>9 DEF BraceCloses, Reads
      <3>2. ahead' - 1 = ahead /\ ahead' - 2 = ahead - 1 /\ ahead < ahead + 1
        BY <1>1, <1>9 DEF BraceCloses
      <3>3. UNCHANGED <<m_pattern, pos, fmt_begin, str>>
        BY <1>9 DEF BraceCloses, Reads, outerVars
      <3>4. fmt_begin < ahead /\ fmt_begin < ahead'
        BY <1>1, <1>9, <3>1 DEF BraceAfter, BraceCloses
      <3>5. BraceAfter' /\ NamedBefore'
        BY <3>1, <3>3, <3>4 DEF BraceAfter, NamedBefore
      <3>6. NoneCloses(m_pattern, fmt_begin + 1, ahead - 2)'
        BY <3>1, <3>2, <3>3 DEF NoneCloses
      <3>7. fmt' = SubSeq(m_pattern', fmt_begin' + 1, ahead' - 2)
        BY <1>9, <3>2, <3>3 DEF BraceCloses
      <3>8. m_pattern'[ahead' - 1] = RBrace
        BY <3>1, <3>2, <3>3
      <3>9. fmt_begin' < ahead' - 1
        BY <3>2, <3>3, <3>4
      <3>10. QED
        BY <3>5, <3>6, <3>7, <3>8, <3>9 DEF FormatRead
    <2>5. Inside'
      BY <1>3, <1>9, <2>4 DEF BraceCloses, Reads, Inside, size, outerVars
    <2>6. QED
      BY <2>2, <2>3, <2>5 DEF ScanTypes
  <1>10. CASE Advances
    <2>1. SubSeq(m_pattern, pos + 1, size) \in Seq(Chars)
      <3>1. pos \in Int /\ size \in Int /\ 0 <= pos /\ size <= Len(m_pattern)
        BY <1>1 DEF size
      <3>2. QED
        BY <1>1, <3>1, SubSeqType
    <2>2. FormatterTypeOK'
      BY <1>1, <1>10 DEF Advances, Reads, FormatterTypeOK, size, outerVars
    <2>3. ReadTypes'
      BY <1>2, <1>10, <2>1 DEF Advances, Reads, ReadTypes, outerVars
    <2>4. UNCHANGED <<m_pattern, pos, fmt_begin, fmt, fmt_status, at, size>>
          /\ ahead' = ahead + 1 /\ at = "format" /\ ahead <= size
      BY <1>10 DEF Advances, Reads, outerVars, size
    <2>5. CASE fmt_status = 0
      <3>1. str = << >> /\ fmt = << >>
        BY <1>3, <2>4, <2>5
      <3>2. ~(ahead' <= size') => ahead' - 1 = size
        BY <1>1, <2>4
      <3>3. ~(ahead' <= size') => str' = NameSo'
        BY <1>1, <1>10, <2>4, <3>1, <3>2 DEF Advances, NameSo
      <3>4. ahead' <= size' => str' = << >>
        BY <1>1, <1>10, <2>4, <3>1 DEF Advances
      <3>5. QED
        <4>1. Inside'
          BY <1>3, <2>4, <2>5, <3>1, <3>3, <3>4 DEF Inside
        <4>2. QED
          BY <2>2, <2>3, <4>1 DEF ScanTypes
    <2>6. CASE fmt_status = 1
      <3>1. /\ BraceAfter /\ NoneCloses(m_pattern, fmt_begin + 1, ahead - 1) /\ NamedBefore
            /\ m_pattern[ahead] # RBrace
        BY <1>3, <1>10, <2>4, <2>6 DEF Advances
      <3>2. BraceAfter'
        BY <1>1, <2>4, <3>1 DEF BraceAfter
      <3>3. NoneCloses(m_pattern, fmt_begin + 1, ahead - 1)'
        <4>1. ASSUME NEW k \in (fmt_begin + 1)..ahead PROVE m_pattern[k] # RBrace
          <5>1. k = ahead \/ k \in (fmt_begin + 1)..(ahead - 1)
            BY <1>1
          <5>2. QED
            BY <3>1, <5>1 DEF NoneCloses
        <4>2. ahead' - 1 = ahead
          BY <1>1, <2>4
        <4>3. QED
          BY <2>4, <4>1, <4>2 DEF NoneCloses
      <3>4. ahead' <= size' => NamedBefore'
        BY <1>1, <1>10, <2>4, <3>1 DEF Advances, NamedBefore
      <3>5. Inside'
        BY <1>3, <2>4, <2>6, <3>2, <3>3, <3>4 DEF Inside
      <3>6. QED
        BY <2>2, <2>3, <3>5 DEF ScanTypes
    <2>7. QED
      BY <1>1, <2>5, <2>6
  <1>11. CASE PushesFormat
    <2>1. Append(Flushed, Format(str, fmt)) \in Seq(Strings)
      BY <1>2, <1>4, EntryTypes DEF Strings
    <2>2. FormatterTypeOK'
      BY <1>1, <1>4, <1>11 DEF PushesFormat, FormatterTypeOK, size, innerVars
    <2>3. ReadTypes'
      BY <1>2, <1>11, <2>1 DEF PushesFormat, ReadTypes, innerVars
    <2>4. Inside'
      BY <1>11 DEF PushesFormat, Inside
    <2>5. QED
      BY <2>2, <2>3, <2>4 DEF ScanTypes
  <1>12. CASE PushesError
    <2>1. Append(vec, Text(pattern_error)) \in Seq(Strings)
      BY <1>2 DEF Strings
    <2>2. pos <= size
      BY <1>3, <1>12 DEF PushesError, Read
    <2>3. FormatterTypeOK'
      BY <1>1, <1>12, <2>2 DEF PushesError, FormatterTypeOK, size, innerVars
    <2>4. ReadTypes'
      BY <1>2, <1>12, <2>1 DEF PushesError, ReadTypes, innerVars
    <2>5. Inside'
      BY <1>12 DEF PushesError, Inside
    <2>6. QED
      BY <2>3, <2>4, <2>5 DEF ScanTypes
  <1>13. CASE MakesItems
    <2>1. m_error' \in BOOLEAN
      BY <1>13 DEF MakesItems
    <2>2. FormatterTypeOK'
      BY <1>1, <1>4, <1>13, <2>1 DEF MakesItems, FormatterTypeOK, size, innerVars
    <2>3. ReadTypes'
      BY <1>2, <1>4, <1>13 DEF MakesItems, ReadTypes, innerVars
    <2>4. pos' = size' + 1
      BY <1>1, <1>13 DEF MakesItems, size
    <2>5. Inside'
      BY <1>13, <2>4 DEF MakesItems, Inside
    <2>6. QED
      BY <2>2, <2>3, <2>5 DEF ScanTypes
  <1>14. CASE UNCHANGED scanVars
    BY <1>14 DEF ScanTypes, FormatterTypeOK, ReadTypes, Inside, scanVars, outerVars,
       innerVars, size, NameSo, NameRead, FormatRead, BraceAfter, NamedBefore, NoneCloses
  <1>15. QED
    BY <1>5, <1>6, <1>7, <1>8, <1>9, <1>10, <1>11, <1>12, <1>13, <1>14 DEF Scan

-----------------------------------------------------------------------------
(* What was read is spelled out.                                           *)

SpelledSoFar == Unclosed \/ Spelled

\* The scanner never takes an entry back.
LEMMA UnclosedStays ==
  ASSUME ScanTypes, Unclosed, [Scan]_scanVars
  PROVE  Unclosed'
  <1>1. vec \in Seq(Strings)
    BY DEF ScanTypes, ReadTypes
  <1>2. PICK k \in 1..Len(vec) : vec[k] = Text(pattern_error)
    BY <1>1 DEF Unclosed
  <1>3. /\ Flushed \in Seq(Strings) /\ Len(Flushed) \in {Len(vec), Len(vec) + 1}
        /\ Flushed[k] = vec[k]
    BY <1>1, FlushedType DEF Flushed
  <1>4. vec' = vec \/ vec' = Flushed \/ vec' = Append(vec, Text(pattern_error))
        \/ vec' = Append(Flushed, Format(str, fmt))
    BY DEF Scan, TakesText, BeginsFormat, NameEnds, BraceOpens, BraceCloses, Advances, Reads,
           PushesFormat, PushesError, MakesItems, scanVars, outerVars
  <1>5. k \in DOMAIN (vec') /\ vec'[k] = vec[k]
    BY <1>1, <1>3, <1>4
  <1>6. QED
    BY <1>2, <1>5 DEF Unclosed, Text

LEMMA SpelledFlush ==
  ASSUME ScanTypes, Spelled, at # "done"
  PROVE  SpelledTo(m_pattern, Flushed, pos - 1)
  <1> DEFINE e == pos - 1 - Len(nstr)
  <1>1. /\ m_pattern \in Seq(Chars) /\ pos \in 1..(Len(m_pattern) + 1)
        /\ nstr \in Seq(Chars)
    BY DEF ScanTypes, FormatterTypeOK, size
  <1>2. /\ SpelledTo(m_pattern, vec, e) /\ nstr = SubSeq(m_pattern, e + 1, pos - 1)
        /\ vec # << >> => vec[Len(vec)].type = 1
    BY DEF Spelled, EndsInFormat
  <1>3. e \in Nat /\ pos - 1 \in e..Len(m_pattern)
    <2>1. vec \in Seq(Entries) /\ Ends(m_pattern, vec)[Len(vec)] = e
      BY <1>2 DEF SpelledTo
    <2>2. e \in Nat
      BY <2>1, EndsType
    <2>3. QED
      BY <1>1, <2>2
  <1>4. CASE nstr = << >>
    BY <1>1, <1>2, <1>4 DEF Flushed
  <1>5. CASE nstr # << >>
    <2> HIDE DEF e
    <2>1. Fits(m_pattern, Text(nstr), e, pos - 1)
      BY <1>1, <1>2, <1>3, TextFits
    <2>2. ~(vec # << >> /\ vec[Len(vec)].type = 0)
      BY <1>2
    <2>3. SpelledTo(m_pattern, Append(vec, Text(nstr)), pos - 1)
      BY <1>1, <1>2, <1>3, <2>1, <2>2, SpelledAppend
    <2>4. QED
      BY <1>5, <2>3 DEF Flushed
  <1>6. QED
    BY <1>4, <1>5

\* Whatever is read in front of ahead fits behind the text in front of pos.
LEMMA ReadFits ==
  ASSUME ScanTypes, Read, fmt_status = 0
  PROVE  Fits(m_pattern, Format(str, fmt), pos - 1, ahead - 1)
  <1>1. /\ m_pattern \in Seq(Chars) /\ size \in Nat /\ size = Len(m_pattern)
        /\ pos \in 1..size /\ ahead \in 1..(size + 1) /\ fmt_begin \in 1..(size + 1)
        /\ pos < ahead /\ m_pattern[pos] = "%"
    BY DEF ScanTypes, FormatterTypeOK, Inside, Read, size
  <1>2. NameRead \/ FormatRead
    BY <1>1 DEF ScanTypes, Inside, Read, NameRead
  <1>3. CASE NameRead
    <2>1. /\ str = SubSeq(m_pattern, pos + 1, ahead - 1) /\ fmt = << >>
          /\ ahead <= Len(m_pattern) => m_pattern[ahead] \in Others \cup {"%"}
      BY <1>1, <1>3 DEF NameRead, NameSo
    <2>2. pos \in 1..Len(m_pattern) /\ ahead \in (pos + 1)..(Len(m_pattern) + 1)
      BY <1>1
    <2>3. QED
      BY <1>1, <2>1, <2>2, NameFits
  <1>4. CASE FormatRead
    <2> DEFINE m == ahead - 1
    <2>1. /\ pos < fmt_begin /\ fmt_begin < m /\ m_pattern[fmt_begin] = LBrace
          /\ str = SubSeq(m_pattern, pos + 1, fmt_begin - 1)
          /\ m_pattern[m] = RBrace /\ NoneCloses(m_pattern, fmt_begin + 1, ahead - 2)
          /\ fmt = SubSeq(m_pattern, fmt_begin + 1, ahead - 2)
      BY <1>4 DEF FormatRead, BraceAfter, NamedBefore
    <2>2. /\ m \in Nat /\ ahead - 2 = m - 1 /\ m <= Len(m_pattern) /\ pos \in Nat
          /\ fmt_begin \in Nat /\ 1 <= pos
      BY <1>1
    <2> HIDE DEF m
    <2>3. Fits(m_pattern, Format(str, fmt), pos - 1, m)
      BY <1>1, <2>1, <2>2, FormatFits
    <2>4. QED
      BY <2>3 DEF m
  <1>5. QED
    BY <1>2, <1>3, <1>4

LEMMA ScanInitSpelled ==
  ASSUME ScanInit, ScanTypes
  PROVE  SpelledSoFar
  <1>1. vec = << >> /\ nstr = << >> /\ pos = 1 /\ << >> \in Seq(Entries) /\ Len(<< >>) = 0
    BY DEF ScanInit
  <1>2. DOMAIN << >> = {}
    OBVIOUS
  <1>3. Ends(m_pattern, << >>)[0] = 0
    BY <1>1, EndsStep
  <1>4. SpelledTo(m_pattern, << >>, 0)
    BY <1>1, <1>2, <1>3 DEF SpelledTo
  <1>5. SubSeq(m_pattern, 0 + 1, 1 - 1) = << >>
    BY SubSeqEmpty
  <1>6. Spelled
    BY <1>1, <1>4, <1>5 DEF Spelled, EndsInFormat
  <1>7. QED
    BY <1>6 DEF SpelledSoFar

LEMMA ScanStepSpelled ==
  ASSUME ScanTypes, SpelledSoFar, [Scan]_scanVars
  PROVE  SpelledSoFar'
  <1> DEFINE e == pos - 1 - Len(nstr)
  <1>1. CASE Unclosed
    BY <1>1, UnclosedStays DEF SpelledSoFar
  <1>2. SUFFICES ASSUME Spelled PROVE SpelledSoFar'
    BY <1>1 DEF SpelledSoFar
  <1>3. /\ m_pattern \in Seq(Chars) /\ pos \in 1..(Len(m_pattern) + 1)
        /\ ahead \in 1..(Len(m_pattern) + 1) /\ nstr \in Seq(Chars)
        /\ at \in {"format", "push"} => pos < ahead
    BY DEF ScanTypes, FormatterTypeOK, size
  <1>4. /\ SpelledTo(m_pattern, vec, e) /\ nstr = SubSeq(m_pattern, e + 1, pos - 1)
        /\ at # "done" => EndsInFormat
    BY <1>2 DEF Spelled
  <1>5. e \in Nat /\ pos - 1 \in e..Len(m_pattern)
    <2>1. vec \in Seq(Entries) /\ Ends(m_pattern, vec)[Len(vec)] = e
      BY <1>4 DEF SpelledTo
    <2>2. e \in Nat
      BY <2>1, EndsType
    <2>3. QED
      BY <1>3, <2>2
  <1>6. ASSUME UNCHANGED <<m_pattern, pos, nstr, vec>>, at = "done" => at' = "done"
        PROVE  SpelledSoFar'
    BY <1>4, <1>6 DEF SpelledSoFar, Spelled, EndsInFormat
  <1>7. \A last \in Nat : SubSeq(m_pattern, last + 1, last) = << >>
    BY SubSeqEmpty
  <1>8. CASE TakesText
    <2>1. pos \in (e + 1)..Len(m_pattern) /\ e + 1 \in 1..Len(m_pattern)
      BY <1>3, <1>5, <1>8 DEF TakesText, size
    <2>2. m_pattern[pos] \in Chars
      BY <1>3, <2>1
    <2>3. SubSeq(m_pattern, e + 1, pos) = nstr \o <<m_pattern[pos]>>
      BY <1>3, <1>4, <2>1, SubSeqRecursiveSecond
    <2>4. nstr' = SubSeq(m_pattern, e + 1, pos) /\ Len(nstr') = Len(nstr) + 1
      <3>1. nstr' = Append(nstr, m_pattern[pos])
        BY <1>8 DEF TakesText
      <3>2. Append(nstr, m_pattern[pos]) = nstr \o <<m_pattern[pos]>>
        BY <1>3, <2>2, AppendIsConcat
      <3>3. Len(Append(nstr, m_pattern[pos])) = Len(nstr) + 1
        BY <1>3, <2>2
      <3>4. QED
        BY <2>3, <3>1, <3>2, <3>3
    <2>5. /\ UNCHANGED <<m_pattern, vec>> /\ pos' = pos + 1 /\ at = "scan"
      BY <1>8 DEF TakesText
    <2>6. pos' - 1 - Len(nstr') = e /\ pos' - 1 = pos
      BY <1>3, <2>4, <2>5
    <2> HIDE DEF e
    <2>7. Spelled'
      BY <1>4, <2>4, <2>5, <2>6 DEF Spelled, EndsInFormat
    <2>8. QED
      BY <2>7 DEF SpelledSoFar
  <1>9. CASE BeginsFormat \/ NameEnds \/ BraceOpens \/ BraceCloses \/ Advances
    <2>1. UNCHANGED <<m_pattern, pos, nstr, vec>> /\ at # "done"
      BY <1>9 DEF BeginsFormat, NameEnds, BraceOpens, BraceCloses, Advances, Reads, outerVars
    <2>2. QED
      BY <1>6, <2>1
  <1>10. CASE PushesFormat
    <2> DEFINE t == Format(str, fmt)
    <2>1. /\ Read /\ fmt_status = 0 /\ at # "done" /\ UNCHANGED m_pattern
          /\ vec' = Append(Flushed, t) /\ nstr' = << >> /\ pos' = ahead
      BY <1>10 DEF PushesFormat, Read
    <2>2. SpelledTo(m_pattern, Flushed, pos - 1)
      BY <1>2, <2>1, SpelledFlush
    <2>3. Fits(m_pattern, t, pos - 1, ahead - 1)
      BY <2>1, ReadFits
    <2>4. t.type = 1
      BY DEF Format
    <2>5. pos - 1 \in Nat /\ ahead - 1 \in (pos - 1)..Len(m_pattern)
      BY <1>3, <2>1 DEF Read
    <2> HIDE DEF t
    <2>6. SpelledTo(m_pattern, Append(Flushed, t), ahead - 1)
      BY <1>3, <2>2, <2>3, <2>4, <2>5, SpelledAppend
    <2>7. EndsInFormat'
      <3>1. Flushed \in Seq(Entries) /\ t \in Entries
        BY <2>2, <2>3 DEF SpelledTo, Fits
      <3>2. vec'[Len(vec')] = t
        BY <2>1, <3>1
      <3>3. QED
        BY <2>4, <3>2 DEF EndsInFormat
    <2>8. pos' - 1 - Len(nstr') = ahead - 1 /\ pos' - 1 = ahead - 1 /\ ahead - 1 \in Nat
      BY <1>3, <2>1
    <2>9. Spelled'
      BY <1>7, <2>1, <2>6, <2>7, <2>8 DEF Spelled
    <2>10. QED
      BY <2>9 DEF SpelledSoFar
  <1>11. CASE PushesError
    <2>1. vec \in Seq(Strings) /\ vec' = Append(vec, Text(pattern_error))
      BY <1>11 DEF PushesError, ScanTypes, ReadTypes
    <2>2. Len(vec) + 1 \in DOMAIN (vec') /\ vec'[Len(vec) + 1] = Text(pattern_error)
      BY <2>1
    <2>3. Unclosed'
      BY <2>2 DEF Unclosed, Text
    <2>4. QED
      BY <2>3 DEF SpelledSoFar
  <1>12. CASE MakesItems
    <2>1. /\ at # "done" /\ at' = "done" /\ UNCHANGED <<m_pattern, pos>>
          /\ vec' = Flushed /\ nstr' = << >>
      BY <1>12 DEF MakesItems
    <2>2. SpelledTo(m_pattern, Flushed, pos - 1)
      BY <1>2, <2>1, SpelledFlush
    <2>3. pos' - 1 - Len(nstr') = pos - 1 /\ pos' - 1 = pos - 1 /\ pos - 1 \in Nat
      BY <1>3, <2>1
    <2>4. Spelled'
      BY <1>7, <2>1, <2>2, <2>3 DEF Spelled
    <2>5. QED
      BY <2>4 DEF SpelledSoFar
  <1>13. CASE UNCHANGED scanVars
    BY <1>6, <1>13 DEF scanVars, outerVars
  <1>14. QED
    BY <1>8, <1>9, <1>10, <1>11, <1>12, <1>13 DEF Scan

\* The invariant says what the property says.
LEMMA SpelledIsSpelling ==
  ASSUME ScanTypes, SpelledSoFar
  PROVE  PatternOK
  <1>1. /\ FormatterTypeOK /\ m_pattern \in Seq(Chars) /\ nstr \in Seq(Chars)
        /\ pos \in 1..(Len(m_pattern) + 1)
    BY DEF ScanTypes, FormatterTypeOK, size
  <1>2. CASE Unclosed
    BY <1>1, <1>2 DEF PatternOK, SpellsPattern
  <1>3. CASE Spelled
    <2> DEFINE e == pos - 1 - Len(nstr)
    <2>1. SpelledTo(m_pattern, vec, e) /\ nstr = SubSeq(m_pattern, e + 1, pos - 1)
      BY <1>3 DEF Spelled
    <2>2. Ends(m_pattern, vec)[Len(vec)] = e
      BY <2>1 DEF SpelledTo
    <2>3. e + Len(nstr) = pos - 1
      BY <1>1
    <2> HIDE DEF e
    <2>4. SpellsPattern
      BY <2>1, <2>2, <2>3 DEF SpellsPattern, SpelledTo
    <2>5. QED
      BY <1>1, <2>4 DEF PatternOK
  <1>4. QED
    BY <1>2, <1>3 DEF SpelledSoFar

-----------------------------------------------------------------------------
(* What is rejected.                                                       *)

LEMMA KnownAppend ==
  ASSUME NEW v \in Seq(Strings), NEW t
  PROVE  /\ KnownTo(Append(v, t), Len(v)) <=> KnownTo(v, Len(v))
         /\ KnownTo(Append(v, t), Len(v) + 1) <=>
              KnownTo(v, Len(v)) /\ (t.type = 1 => Known(t))
  <1> DEFINE w == Append(v, t)
  <1>1. /\ Len(v) \in Nat /\ w[Len(v) + 1] = t
        /\ \A k \in 1..Len(v) : w[k] = v[k]
    OBVIOUS
  <1> HIDE DEF w
  <1>2. KnownTo(w, Len(v)) <=> KnownTo(v, Len(v))
    BY <1>1 DEF KnownTo
  <1>3. KnownTo(w, Len(v) + 1) <=> KnownTo(w, Len(v)) /\ (t.type = 1 => Known(t))
    <2>1. \A k : k \in 1..(Len(v) + 1) <=> k \in 1..Len(v) \/ k = Len(v) + 1
      BY <1>1
    <2>2. QED
      BY <1>1, <2>1 DEF KnownTo
  <1>4. QED
    BY <1>2, <1>3 DEF w

LEMMA KnownFlushed ==
  ASSUME ScanTypes
  PROVE  KnownTo(Flushed, Len(Flushed)) <=> KnownTo(vec, Len(vec))
  <1>1. vec \in Seq(Strings) /\ nstr \in Seq(Chars)
    BY DEF ScanTypes, FormatterTypeOK, ReadTypes
  <1>2. CASE nstr = << >>
    BY <1>2 DEF Flushed
  <1>3. CASE nstr # << >>
    <2>1. Flushed = Append(vec, Text(nstr)) /\ Len(Flushed) = Len(vec) + 1
      BY <1>1, <1>3 DEF Flushed
    <2>2. Text(nstr).type # 1
      BY DEF Text
    <2>3. QED
      BY <1>1, <2>1, <2>2, KnownAppend
  <1>4. QED
    BY <1>2, <1>3

\* The last entry is judged with the others.
LEMMA KnownLast ==
  ASSUME NEW v \in Seq(Strings), v # << >>, v[Len(v)].type = 1,
         NEW q, v[Len(v)].str = q.name
  PROVE  KnownTo(v, Len(v)) <=> KnownTo(v, Len(v) - 1) /\ NamesItem(q)
  <1>1. Len(v) \in Nat /\ Len(v) # 0
    OBVIOUS
  <1>2. \A k : k \in 1..Len(v) <=> k \in 1..(Len(v) - 1) \/ k = Len(v)
    BY <1>1
  <1>3. Known(v[Len(v)]) <=> NamesItem(q)
    BY DEF Known, NamesItem
  <1>4. QED
    BY <1>2, <1>3 DEF KnownTo

LEMMA RunAt ==
  ASSUME ScanTypes
  PROVE  /\ m_pattern \in Seq(Chars) /\ size = Len(m_pattern) /\ size \in Nat
         /\ \A k \in 1..(size + 1) : Run(m_pattern)[k - 1] \in Modes
         /\ \A k \in 1..size : /\ m_pattern[k] \in Chars
                               /\ Run(m_pattern)[k] = Step(Run(m_pattern)[k - 1], m_pattern[k])
  <1>1. m_pattern \in Seq(Chars) /\ size = Len(m_pattern) /\ size \in Nat
    BY DEF ScanTypes, FormatterTypeOK, size
  <1>2. \A k \in 1..(size + 1) : k - 1 \in 0..Len(m_pattern)
    BY <1>1
  <1>3. \A k \in 1..size : m_pattern[k] \in Chars
    BY <1>1
  <1>4. QED
    BY <1>1, <1>2, <1>3, RunType, RunStep

\* The automaton behind a '%', and behind any other character, that the outer
\* loop reads.
LEMMA ReadsPercent ==
  ASSUME ScanTypes, pos <= size, m_pattern[pos] = "%", ScanAgrees
  PROVE  LET q == Run(m_pattern)[pos] IN
         q.mode = "name" /\ q.name = << >> /\ (q.ok <=> KnownTo(vec, Len(vec)))
  <1> DEFINE q == Run(m_pattern)[pos - 1]
             r == Run(m_pattern)[pos]
  <1>1. pos \in 1..size /\ pos \in 1..(size + 1) /\ size \in Nat /\ vec \in Seq(Strings)
    BY RunAt DEF ScanTypes, FormatterTypeOK, ReadTypes
  <1>2. q \in Modes /\ r = Step(q, "%") /\ "%" \in Chars
    BY <1>1, RunAt, CharTypes
  <1>3. AfterText(q) \/ AfterName(q) \/ AfterPercent(q)
    BY DEF ScanAgrees
  <1> HIDE DEF q, r
  <1>4. CASE AfterText(q)
    <2>1. r = [q EXCEPT !.mode = "name", !.name = << >>]
      BY <1>2, <1>4, StepText DEF AfterText
    <2>2. r.mode = "name" /\ r.name = << >> /\ r.ok = q.ok
      BY <1>2, <2>1 DEF Modes
    <2>3. QED
      BY <1>4, <2>2 DEF AfterText, r
  <1>5. CASE q.mode = "name"
    <2>1. r = [q EXCEPT !.name = << >>, !.ok = @ /\ (q.name = << >> \/ NamesItem(q))]
      BY <1>2, <1>5, StepName
    <2>2. /\ r.mode = "name" /\ r.name = << >>
          /\ r.ok <=> q.ok /\ (q.name = << >> \/ NamesItem(q))
      BY <1>2, <1>5, <2>1 DEF Modes
    <2>3. q.ok /\ (q.name = << >> \/ NamesItem(q)) <=> KnownTo(vec, Len(vec))
      <3>1. CASE AfterName(q)
        <4>1. q.name # << >>
          BY <3>1, CharTypes DEF AfterName, Ending
        <4>2. KnownTo(vec, Len(vec)) <=> KnownTo(vec, Len(vec) - 1) /\ NamesItem(q)
          BY <1>1, <3>1, KnownLast DEF AfterName
        <4>3. QED
          BY <3>1, <4>1, <4>2 DEF AfterName
      <3>2. CASE AfterPercent(q)
        BY <3>2 DEF AfterPercent
      <3>3. QED
        BY <1>3, <1>5, <3>1, <3>2 DEF AfterText
    <2>4. QED
      BY <2>2, <2>3 DEF r
  <1>6. QED
    BY <1>3, <1>4, <1>5 DEF AfterName, AfterPercent

LEMMA ReadsText ==
  ASSUME ScanTypes, pos <= size, m_pattern[pos] # "%", ScanAgrees
  PROVE  AfterText(Run(m_pattern)[pos])
  <1> DEFINE q == Run(m_pattern)[pos - 1]
             r == Run(m_pattern)[pos]
  <1>1. pos \in 1..size /\ pos \in 1..(size + 1) /\ size \in Nat /\ vec \in Seq(Strings)
    BY RunAt DEF ScanTypes, FormatterTypeOK, ReadTypes
  <1>2. q \in Modes /\ r = Step(q, m_pattern[pos]) /\ m_pattern[pos] \in Chars
    BY <1>1, RunAt
  <1>3. AfterText(q) \/ AfterName(q)
    BY DEF ScanAgrees, AfterPercent
  <1> HIDE DEF q, r
  <1>4. CASE AfterText(q)
    <2>1. r = q
      BY <1>2, <1>4, StepText DEF AfterText
    <2>2. QED
      BY <1>4, <2>1 DEF r
  <1>5. CASE AfterName(q)
    <2>1. m_pattern[pos] \in Others /\ q.mode = "name"
      BY <1>5 DEF AfterName, Ending
    <2>2. r = [q EXCEPT !.mode = "text", !.ok = @ /\ NamesItem(q)]
      BY <1>2, <2>1, StepName
    <2>3. r.mode = "text" /\ (r.ok <=> q.ok /\ NamesItem(q))
      BY <1>2, <2>2 DEF Modes
    <2>4. KnownTo(vec, Len(vec)) <=> KnownTo(vec, Len(vec) - 1) /\ NamesItem(q)
      BY <1>1, <1>5, KnownLast DEF AfterName
    <2>5. QED
      BY <1>5, <2>3, <2>4 DEF AfterText, AfterName, r
  <1>6. QED
    BY <1>3, <1>4, <1>5

\* At the end of the pattern a name is read as it is in front of its end.
LEMMA EndsName ==
  ASSUME ScanTypes, at = "format", ahead > size, fmt_status = 0, FormatAgrees
  PROVE  PushAgrees
  <1>1. size \in Nat /\ ahead \in Nat
    BY RunAt DEF ScanTypes, FormatterTypeOK
  <1>2. ~(ahead <= size)
    BY <1>1
  <1>3. str = NameSo
    BY <1>2 DEF ScanTypes, Inside
  <1>4. QED
    BY <1>2, <1>3 DEF FormatAgrees, PushAgrees

LEMMA ScanInitVerdict ==
  ASSUME ScanInit, ScanTypes
  PROVE  VerdictSoFar
  <1>1. /\ m_pattern \in Seq(Chars) /\ m_error = FALSE /\ at = "scan" /\ pos = 1
        /\ vec = << >> /\ Len(vec) = 0
    BY RunAt DEF ScanInit
  <1>2. Run(m_pattern)[pos - 1] = Start
    BY <1>1, RunStart
  <1>3. KnownTo(vec, Len(vec))
    BY <1>1 DEF KnownTo
  <1>4. AfterText(Start)
    BY <1>3 DEF AfterText, Start
  <1>5. QED
    BY <1>1, <1>2, <1>4 DEF VerdictSoFar, ScanAgrees, RejectsExactly

LEMMA ScanStepVerdict ==
  ASSUME ScanTypes, ScanTypes', VerdictSoFar, [Scan]_scanVars
  PROVE  VerdictSoFar'
  <1>1. /\ m_pattern \in Seq(Chars) /\ size = Len(m_pattern) /\ size \in Nat
        /\ pos \in 1..(size + 1) /\ ahead \in 1..(size + 1)
        /\ fmt_status \in {0, 1} /\ m_error \in BOOLEAN
        /\ at \in {"format", "push"} => pos < ahead
        /\ at \in {"scan", "format", "push", "done"}
    BY RunAt DEF ScanTypes, FormatterTypeOK
  <1>2. vec \in Seq(Strings) /\ str \in Seq(Chars) /\ fmt \in Seq(Chars)
    BY DEF ScanTypes, ReadTypes
  <1>3. /\ m_error /\ at # "done" => ~Accepts(m_pattern)
        /\ ~m_error /\ at = "scan" => ScanAgrees
        /\ ~m_error /\ at = "format" => FormatAgrees
        /\ ~m_error /\ at = "push" => PushAgrees
        /\ RejectsExactly
    BY DEF VerdictSoFar
  <1>4. ASSUME m_error, at # "done", at' # "done", UNCHANGED <<m_pattern, m_error>>
        PROVE  VerdictSoFar'
    BY <1>3, <1>4 DEF VerdictSoFar, RejectsExactly
  <1>5. \A k \in 1..(size + 1) : Run(m_pattern)[k - 1] \in Modes
    BY RunAt
  <1>6. \A k \in 1..size : /\ m_pattern[k] \in Chars
                           /\ Run(m_pattern)[k] = Step(Run(m_pattern)[k - 1], m_pattern[k])
    BY RunAt
  <1>7. CASE TakesText
    <2>1. /\ at = "scan" /\ at' = "scan" /\ pos <= size /\ pos' = pos + 1
          /\ UNCHANGED <<m_pattern, m_error, vec>> /\ size' = size
          /\ m_pattern[pos] # "%" \/ LiteralPercent
      BY <1>7 DEF TakesText, size
    <2>2. CASE m_error
      BY <1>4, <2>1, <2>2
    <2>3. CASE ~m_error
      <3>1. ScanAgrees /\ pos' - 1 = pos
        BY <1>1, <1>3, <2>1, <2>3
      <3>2. CASE m_pattern[pos] # "%"
        <4>1. AfterText(Run(m_pattern)[pos])
          BY <2>1, <3>1, <3>2, ReadsText
        <4>2. ScanAgrees'
          BY <2>1, <3>1, <4>1 DEF ScanAgrees, AfterText
        <4>3. QED
          BY <2>1, <2>3, <4>2 DEF VerdictSoFar, RejectsExactly
      <3>3. CASE m_pattern[pos] = "%"
        <4>1. pos < size /\ m_pattern[pos + 1] = "%"
          BY <2>1, <3>3 DEF LiteralPercent
        <4>2. LET q == Run(m_pattern)[pos] IN
              q.mode = "name" /\ q.name = << >> /\ (q.ok <=> KnownTo(vec, Len(vec)))
          BY <2>1, <3>1, <3>3, ReadsPercent
        <4>3. pos' <= size' /\ m_pattern'[pos'] = "%"
          BY <1>1, <2>1, <4>1
        <4>4. ScanAgrees'
          BY <2>1, <3>1, <4>2, <4>3 DEF ScanAgrees, AfterPercent
        <4>5. QED
          BY <2>1, <2>3, <4>4 DEF VerdictSoFar, RejectsExactly
      <3>4. QED
        BY <3>2, <3>3
    <2>4. QED
      BY <2>2, <2>3
  <1>8. CASE BeginsFormat
    <2>1. /\ at = "scan" /\ at' = "format" /\ pos <= size /\ m_pattern[pos] = "%"
          /\ ~LiteralPercent /\ ahead' = pos + 1 /\ fmt_status' = 0
          /\ UNCHANGED <<m_pattern, m_error, vec, pos>> /\ size' = size
      BY <1>8 DEF BeginsFormat, outerVars, size
    <2>2. CASE m_error
      BY <1>4, <2>1, <2>2
    <2>3. CASE ~m_error
      <3>1. ScanAgrees /\ ahead' - 1 = pos
        BY <1>1, <1>3, <2>1, <2>3
      <3>2. LET q == Run(m_pattern)[pos] IN
            q.mode = "name" /\ q.name = << >> /\ (q.ok <=> KnownTo(vec, Len(vec)))
        BY <2>1, <3>1, ReadsPercent
      <3>3. NameSo' = << >>
        <4>1. pos + 1 \in Int /\ pos \in Int /\ pos < pos + 1
          BY <1>1
        <4>2. SubSeq(m_pattern, pos + 1, pos) = << >>
          BY <4>1, SubSeqEmpty
        <4>3. QED
          BY <2>1, <3>1, <4>2 DEF NameSo
      <3>4. ahead' <= size' => m_pattern'[ahead'] # "%"
        BY <1>1, <2>1 DEF LiteralPercent
      <3>5. FormatAgrees'
        BY <2>1, <3>1, <3>2, <3>3, <3>4 DEF FormatAgrees
      <3>6. QED
        BY <2>1, <2>3, <3>5 DEF VerdictSoFar, RejectsExactly
    <2>4. QED
      BY <2>2, <2>3
  <1>9. CASE NameEnds
    <2>1. /\ at = "format" /\ at' = "push" /\ ahead <= size /\ fmt_status = 0
          /\ m_pattern[ahead] \in Others \cup {"%"} /\ str' = NameSo
          /\ UNCHANGED <<m_pattern, m_error, vec, ahead>> /\ size' = size
      BY <1>9 DEF NameEnds, Reads, outerVars, size
    <2>2. CASE m_error
      BY <1>4, <2>1, <2>2
    <2>3. CASE ~m_error
      <3>1. FormatAgrees
        BY <1>3, <2>1, <2>3
      <3>2. m_pattern[ahead] \in Ending(NameSo)
        BY <2>1, <3>1 DEF FormatAgrees, Ending
      <3>3. PushAgrees'
        BY <2>1, <3>1, <3>2 DEF FormatAgrees, PushAgrees
      <3>4. QED
        BY <2>1, <2>3, <3>3 DEF VerdictSoFar, RejectsExactly
    <2>4. QED
      BY <2>2, <2>3
  <1>10. CASE BraceOpens
    <2> DEFINE q == Run(m_pattern)[ahead - 1]
               r == Run(m_pattern)[ahead]
    <2>1. /\ at = "format" /\ at' = "format" /\ ahead <= size /\ fmt_status = 0
          /\ m_pattern[ahead] = LBrace /\ str' = NameSo /\ fmt_status' = 1
          /\ ahead' = ahead + 1
          /\ UNCHANGED <<m_pattern, m_error, vec>>
      BY <1>10 DEF BraceOpens, Reads, outerVars
    <2>2. CASE m_error
      BY <1>4, <2>1, <2>2
    <2>3. CASE ~m_error
      <3>1. q.mode = "name" /\ q.name = NameSo /\ (q.ok <=> KnownTo(vec, Len(vec)))
        BY <1>3, <2>1, <2>3 DEF FormatAgrees
      <3>2. q \in Modes /\ r = Step(q, m_pattern[ahead]) /\ m_pattern[ahead] \in Chars
        BY <1>1, <1>5, <1>6, <2>1
      <3> HIDE DEF q, r
      <3>3. r = [q EXCEPT !.mode = "braces"]
        BY <2>1, <3>1, <3>2, StepName
      <3>4. r.mode = "braces" /\ r.name = q.name /\ r.ok = q.ok
        BY <3>2, <3>3 DEF Modes
      <3>5. ahead' - 1 = ahead
        BY <1>1, <2>1
      <3>6. r = Run(m_pattern')[ahead' - 1]
        BY <2>1, <3>5 DEF r
      <3>7. FormatAgrees'
        BY <2>1, <3>1, <3>4, <3>6 DEF FormatAgrees
      <3>8. QED
        BY <2>1, <2>3, <3>7 DEF VerdictSoFar, RejectsExactly
    <2>4. QED
      BY <2>2, <2>3
  <1>11. CASE BraceCloses
    <2> DEFINE q == Run(m_pattern)[ahead - 1]
               r == Run(m_pattern)[ahead]
    <2>1. /\ at = "format" /\ at' = "push" /\ ahead <= size /\ fmt_status = 1
          /\ m_pattern[ahead] = RBrace /\ ahead' = ahead + 1
          /\ UNCHANGED <<m_pattern, m_error, vec, str>>
      BY <1>11 DEF BraceCloses, Reads, outerVars
    <2>2. CASE m_error
      BY <1>4, <2>1, <2>2
    <2>3. CASE ~m_error
      <3>1. q.mode = "braces" /\ q.name = str /\ (q.ok <=> KnownTo(vec, Len(vec)))
        BY <1>3, <2>1, <2>3 DEF FormatAgrees
      <3>2. q \in Modes /\ r = Step(q, m_pattern[ahead])
        BY <1>1, <1>5, <1>6, <2>1
      <3> HIDE DEF q, r
      <3>3. r = [q EXCEPT !.mode = "text", !.ok = @ /\ NamesItem(q)]
        BY <2>1, <3>1, <3>2, StepBraces
      <3>4. r.mode = "text" /\ (r.ok <=> q.ok /\ NamesItem(q))
        BY <3>2, <3>3 DEF Modes
      <3>5. NamesItem(q) <=> Known(Format(str', fmt'))
        BY <2>1, <3>1 DEF NamesItem, Known, Format
      <3>6. ahead' - 1 = ahead
        BY <1>1, <2>1
      <3>7. r = Run(m_pattern')[ahead' - 1]
        BY <2>1, <3>6 DEF r
      <3>8. PushAgrees'
        BY <2>1, <3>1, <3>4, <3>5, <3>7 DEF PushAgrees
      <3>9. QED
        BY <2>1, <2>3, <3>8 DEF VerdictSoFar, RejectsExactly
    <2>4. QED
      BY <2>2, <2>3
  <1>12. CASE Advances
    <2> DEFINE q == Run(m_pattern)[ahead - 1]
               r == Run(m_pattern)[ahead]
    <2>1. /\ at = "format" /\ at' = "format" /\ ahead <= size /\ ahead' = ahead + 1
          /\ UNCHANGED <<m_pattern, m_error, vec, fmt_status, pos>> /\ size' = size
      BY <1>12 DEF Advances, Reads, outerVars, size
    <2>2. CASE m_error
      BY <1>4, <2>1, <2>2
    <2>3. CASE ~m_error
      <3>1. FormatAgrees /\ ahead' - 1 = ahead
        BY <1>1, <1>3, <2>1, <2>3
      <3>2. q \in Modes /\ r = Step(q, m_pattern[ahead]) /\ m_pattern[ahead] \in Chars
        BY <1>1, <1>5, <1>6, <2>1
      <3>3. r = Run(m_pattern')[ahead' - 1]
        BY <2>1, <3>1
      <3>4. CASE fmt_status = 0
        <4>1. m_pattern[ahead] \in Letters \cup {RBrace}
          BY <1>12, <3>4 DEF Advances
        <4>2. q.mode = "name" /\ q.name = NameSo /\ (q.ok <=> KnownTo(vec, Len(vec)))
          BY <3>1, <3>4 DEF FormatAgrees
        <4> HIDE DEF q, r
        <4>3. r = [q EXCEPT !.name = Append(@, m_pattern[ahead])]
          BY <3>2, <4>1, <4>2, StepName
        <4>4. /\ r.mode = "name" /\ r.ok = q.ok /\ q.name \in Seq(Chars)
              /\ r.name = Append(q.name, m_pattern[ahead])
          BY <3>2, <4>2, <4>3 DEF Modes
        <4>5. r.name # << >> /\ r.name = q.name \o <<m_pattern[ahead]>>
          <5>1. m_pattern[ahead] \in Chars /\ q.name \in Seq(Chars)
            BY <3>2, <4>4
          <5>2. Append(q.name, m_pattern[ahead]) # << >>
            BY <5>1, AppendProperties
          <5>3. Append(q.name, m_pattern[ahead]) = q.name \o <<m_pattern[ahead]>>
            BY <5>1, AppendIsConcat
          <5>4. QED
            BY <4>4, <5>2, <5>3
        <4>6. NameSo' = NameSo \o <<m_pattern[ahead]>>
          <5>1. pos + 1 \in 1..Len(m_pattern) /\ ahead \in (pos + 1)..Len(m_pattern)
            BY <1>1, <2>1
          <5>2. SubSeq(m_pattern, pos + 1, ahead) =
                  SubSeq(m_pattern, pos + 1, ahead - 1) \o <<m_pattern[ahead]>>
            BY <1>1, <5>1, SubSeqRecursiveSecond
          <5>3. QED
            BY <2>1, <3>1, <5>2 DEF NameSo
        <4>7. FormatAgrees'
          BY <2>1, <3>3, <3>4, <4>2, <4>4, <4>5, <4>6 DEF FormatAgrees
        <4>8. QED
          BY <2>1, <2>3, <4>7 DEF VerdictSoFar, RejectsExactly
      <3>5. CASE fmt_status = 1
        <4>1. m_pattern[ahead] # RBrace
          BY <1>12, <3>5 DEF Advances
        <4>2. q.mode = "braces" /\ q.name = str /\ (q.ok <=> KnownTo(vec, Len(vec)))
          BY <2>1, <3>1, <3>5 DEF FormatAgrees
        <4> HIDE DEF q, r
        <4>3. r = q
          BY <3>2, <4>1, <4>2, StepBraces
        <4>4. ahead' <= size' => str' = str
          BY <1>1, <1>12, <2>1 DEF Advances
        <4>5. FormatAgrees'
          BY <2>1, <3>3, <3>5, <4>2, <4>3, <4>4 DEF FormatAgrees
        <4>6. QED
          BY <2>1, <2>3, <4>5 DEF VerdictSoFar, RejectsExactly
      <3>6. QED
        BY <1>1, <3>4, <3>5
    <2>4. QED
      BY <2>2, <2>3
  <1>13. CASE PushesFormat
    <2> DEFINE t == Format(str, fmt)
               q == Run(m_pattern)[ahead - 1]
    <2>1. /\ Read /\ fmt_status = 0 /\ at # "done" /\ at' = "scan" /\ pos' = ahead
          /\ vec' = Append(Flushed, t) /\ nstr' = << >>
          /\ UNCHANGED <<m_pattern, m_error>> /\ size' = size
      BY <1>13 DEF PushesFormat, Read, size
    <2>2. CASE m_error
      BY <1>4, <2>1, <2>2
    <2>3. CASE ~m_error
      <3>1. PushAgrees
        BY <1>3, <2>1, <2>3, EndsName DEF Read
      <3>2. t.type = 1 /\ t.str = str
        BY DEF Format
      <3>3. Flushed \in Seq(Strings)
        BY FlushedType
      <3> HIDE DEF t
      <3>4. /\ vec' # << >> /\ Len(vec') = Len(Flushed) + 1 /\ vec'[Len(vec')] = t
            /\ Len(vec') - 1 = Len(Flushed)
        BY <2>1, <3>3
      <3>5. KnownTo(vec', Len(vec') - 1) <=> KnownTo(vec, Len(vec))
        BY <2>1, <3>3, <3>4, KnownAppend, KnownFlushed
      <3>6. KnownTo(vec', Len(vec')) <=> KnownTo(vec, Len(vec)) /\ Known(t)
        BY <2>1, <3>2, <3>3, <3>4, KnownAppend, KnownFlushed
      <3>7. q = Run(m_pattern')[pos' - 1]
        BY <2>1
      <3>8. PushAgrees => \/ /\ q.mode = "name" /\ q.name = str
                             /\ q.ok <=> KnownTo(vec, Len(vec))
                             /\ ahead <= size => m_pattern[ahead] \in Ending(str)
                          \/ q.mode = "text" /\ (q.ok <=> KnownTo(vec, Len(vec)) /\ Known(t))
        BY DEF PushAgrees, t
      <3> HIDE DEF q
      <3>9. CASE /\ q.mode = "name" /\ q.name = str
                 /\ q.ok <=> KnownTo(vec, Len(vec))
                 /\ ahead <= size => m_pattern[ahead] \in Ending(str)
        <4>1. /\ nstr' = << >> /\ vec' # << >> /\ vec'[Len(vec')].type = 1
              /\ vec'[Len(vec')].str = q.name
              /\ q.ok <=> KnownTo(vec', Len(vec') - 1)
          BY <2>1, <3>2, <3>4, <3>5, <3>9
        <4>2. pos' <= size' => m_pattern'[pos'] \in Ending(q.name)
          BY <2>1, <3>9
        <4>3. ScanAgrees'
          BY <3>7, <3>9, <4>1, <4>2 DEF ScanAgrees, AfterName
        <4>4. QED
          BY <2>1, <2>3, <4>3 DEF VerdictSoFar, RejectsExactly
      <3>10. CASE q.mode = "text" /\ (q.ok <=> KnownTo(vec, Len(vec)) /\ Known(t))
        <4>1. ScanAgrees'
          BY <3>6, <3>7, <3>10 DEF ScanAgrees, AfterText
        <4>2. QED
          BY <2>1, <2>3, <4>1 DEF VerdictSoFar, RejectsExactly
      <3>11. QED
        BY <3>1, <3>8, <3>9, <3>10
    <2>4. QED
      BY <1>1, <2>2, <2>3
  <1>14. CASE PushesError
    <2>1. /\ Read /\ fmt_status = 1 /\ at' = "scan" /\ m_error' /\ UNCHANGED m_pattern
      BY <1>14 DEF PushesError
    <2>2. at = "format" /\ ahead > size
      BY <2>1 DEF Read, ScanTypes, Inside
    <2>3. CASE m_error
      BY <1>3, <2>1, <2>2, <2>3 DEF VerdictSoFar, RejectsExactly
    <2>4. CASE ~m_error
      <3>1. ahead - 1 = size
        BY <1>1, <2>2
      <3>2. Run(m_pattern)[size].mode = "braces"
        BY <1>3, <2>1, <2>2, <2>4, <3>1 DEF FormatAgrees
      <3>3. ~Accepts(m_pattern)
        BY <1>1, <3>2 DEF Accepts
      <3>4. QED
        BY <2>1, <3>3 DEF VerdictSoFar, RejectsExactly
    <2>5. QED
      BY <1>1, <2>3, <2>4
  <1>15. CASE MakesItems
    <2> DEFINE q == Run(m_pattern)[size]
    <2>1. /\ at = "scan" /\ at' = "done" /\ pos > size /\ vec' = Flushed
          /\ m_error' = (m_error \/ \E k \in DOMAIN vec' : vec'[k].type = 1 /\ ~Known(vec'[k]))
          /\ UNCHANGED m_pattern
      BY <1>15 DEF MakesItems
    <2>2. CASE m_error
      BY <1>3, <2>1, <2>2 DEF VerdictSoFar, RejectsExactly
    <2>3. CASE ~m_error
      <3>1. ScanAgrees /\ pos - 1 = size /\ ~(pos <= size)
        BY <1>1, <1>3, <2>1, <2>3
      <3>2. DOMAIN Flushed = 1..Len(Flushed)
        BY FlushedType
      <3>3. m_error' <=> ~KnownTo(vec, Len(vec))
        BY <2>1, <2>3, <3>2, KnownFlushed DEF KnownTo
      <3>4. Accepts(m_pattern) <=>
              q.ok /\ q.mode # "braces" /\ (q.mode = "name" => NamesItem(q))
        BY <1>1 DEF Accepts
      <3>5. AfterText(q) \/ AfterName(q)
        BY <3>1 DEF ScanAgrees, AfterPercent
      <3> HIDE DEF q
      <3>6. CASE AfterText(q)
        BY <2>1, <3>3, <3>4, <3>6 DEF AfterText, VerdictSoFar, RejectsExactly
      <3>7. CASE AfterName(q)
        <4>1. KnownTo(vec, Len(vec)) <=> KnownTo(vec, Len(vec) - 1) /\ NamesItem(q)
          BY <1>2, <3>7, KnownLast DEF AfterName
        <4>2. Accepts(m_pattern) <=> KnownTo(vec, Len(vec))
          BY <3>4, <3>7, <4>1 DEF AfterName
        <4>3. QED
          BY <2>1, <3>3, <4>2 DEF VerdictSoFar, RejectsExactly
      <3>8. QED
        BY <3>5, <3>6, <3>7
    <2>4. QED
      BY <1>1, <2>2, <2>3
  <1>16. CASE UNCHANGED scanVars
    BY <1>3, <1>16 DEF VerdictSoFar, ScanAgrees, FormatAgrees, PushAgrees, RejectsExactly,
       AfterText, AfterName, AfterPercent, NameSo, size, scanVars, outerVars, innerVars
  <1>17. QED
    BY <1>7, <1>8, <1>9, <1>10, <1>11, <1>12, <1>13, <1>14, <1>15, <1>16 DEF Scan

-----------------------------------------------------------------------------
(* Theorems about the scanner.                                             *)

\* LogFormatter::init(), for patterns of any length: positions stay in the
\* pattern or one behind it, and what was read is what the pattern says.
THEOREM PatternTheorem == Scanning => []PatternOK
  <1> DEFINE I == ScanTypes /\ SpelledSoFar
  <1>1. ScanInit => I
    BY ScanInitTypes, ScanInitSpelled
  <1>2. I /\ [Scan]_scanVars => I'
    BY ScanStepTypes, ScanStepSpelled
  <1>3. I => PatternOK
    BY SpelledIsSpelling
  <1>4. QED
    <2> HIDE DEF I
    <2>1. QED
      BY <1>1, <1>2, <1>3, PTL DEF Scanning

\* When init() is done it has set m_error for exactly the patterns that an
\* automaton rejects which reads them once: an unknown or empty name, or a
\* brace that is never closed.
THEOREM VerdictTheorem == Scanning => []RejectsExactly
  <1> DEFINE I == ScanTypes /\ VerdictSoFar
  <1>1. ScanInit => I
    BY ScanInitTypes, ScanInitVerdict
  <1>2. I /\ [Scan]_scanVars => I'
    BY ScanStepTypes, ScanStepVerdict
  <1>3. I => RejectsExactly
    BY DEF VerdictSoFar
  <1>4. QED
    <2> HIDE DEF I
    <2>1. QED
      BY <1>1, <1>2, <1>3, PTL DEF Scanning

-----------------------------------------------------------------------------
(* The listener of the variable "logs".                                   *)

USE DocumentsAssumption

Formats   == Formatters \cup {"default"}
Appenders == [own : BOOLEAN, format : Formats]
Filed     == UNION {[P -> Formatters] : P \in SUBSET (1..MostAppenders)}
Defines   == [level : Levels, formatter : Formatters, appenders : Filed]
Configs   == UNION {[N -> Defines] : N \in SUBSET Names}
AtLogger  == {"formatter", "clear", "add"}
Labels    == {"idle", "next", "remove", "store"} \cup AtLogger

LoggerTypes ==
  /\ m_val \in Configs
  /\ level \in [Names -> Levels] /\ formatter \in [Names -> Formats]
  /\ m_appenders \in [Names -> Seq(Appenders)]
  /\ crashed \in BOOLEAN /\ overlapped \in BOOLEAN /\ dropped \in SUBSET Names
SetterTypes ==
  /\ pc \in [Setters -> Labels] /\ new \in [Setters -> Configs]
  /\ todo \in [Setters -> SUBSET Names] /\ gone \in [Setters -> SUBSET Names]
  /\ cur \in [Setters -> Names] /\ left \in [Setters -> SUBSET (1..MostAppenders)]

\* Appenders of the definition that setter s is at, and those it has added.
Positions(s) == DOMAIN new[s][cur[s]].appenders
Added(s)     == Positions(s) \ left[s]

\* What a setter has in its hands at its label.
Place(s) ==
  /\ todo[s] \subseteq DOMAIN new[s] /\ gone[s] \cap DOMAIN new[s] = {}
  /\ pc[s] \in AtLogger => /\ cur[s] \in DOMAIN new[s] \ todo[s]
                           /\ left[s] \subseteq Positions(s)
  /\ pc[s] \in {"formatter", "clear"} => left[s] = Positions(s)
  /\ pc[s] = "add" => \A i \in Added(s), j \in left[s] : i < j
  /\ pc[s] \in {"remove", "store"} => todo[s] = {}
  /\ pc[s] = "store" => gone[s] = {}
  /\ pc[s] = "remove" => cur[s] \notin DOMAIN new[s] \cup gone[s]
Places == \A s \in Setters : Place(s)

\* Nobody was ever in setValue() while somebody else was.
OneByOne == ~overlapped => \A s, t \in Setters : pc[s] # "idle" /\ pc[t] # "idle" => s = t

\* The logger that setter s is at.
Halfway(s) == LET n == cur[s]  d == new[s][n] IN
  /\ level[n] = d.level
  /\ pc[s] # "formatter" /\ Given(d.formatter) => formatter[n] = d.formatter
  /\ pc[s] = "add" =>
       /\ Len(m_appenders[n]) = Cardinality(Added(s))
       /\ \A i \in Added(s) : m_appenders[n][Rank(i, Positions(s))] =
                                Appender(d.appenders[i], formatter[n])
Silent(n) == level[n] = "UNKNOW" /\ m_appenders[n] = << >>
Applies(s) ==
  /\ gone[s] \subseteq DOMAIN m_val
  /\ pc[s] \in AtLogger => Halfway(s)
  /\ \A n \in DOMAIN new[s] \ todo[s] :
       (pc[s] \in AtLogger /\ n = cur[s]) \/ Agrees(n, new[s][n])
  /\ pc[s] = "remove" => level[cur[s]] = "UNKNOW"
  /\ \A n \in (DOMAIN m_val \cup dropped) \ (DOMAIN new[s] \cup gone[s]) :
       (pc[s] = "remove" /\ n = cur[s]) \/ Silent(n)
Applied == ~overlapped /\ ~crashed => \A s \in Setters : pc[s] # "idle" => Applies(s)

Bounded == overlapped \/ \A n \in Names : Len(m_appenders[n]) <= MostAppenders

LogTypes == LoggerTypes /\ SetterTypes /\ dropped \cap DOMAIN m_val = {}
IInv == LogTypes /\ Places /\ OneByOne /\ Bounded /\ Applied /\ AsConfigured
        /\ AppenderFormats

-----------------------------------------------------------------------------
(* Documents and what is made of them.                                     *)

\* A definition has the appenders of its node that are not broken.
LEMMA DefineType ==
  ASSUME NEW node \in Nodes, Len(node.appenders) <= MostAppenders
  PROVE  Define(node) \in Defines
  <1> DEFINE a == node.appenders
             whole == {i \in DOMAIN a : a[i] # "broken"}
  <1>1. /\ a \in Seq(Formatters \cup {"broken"})
        /\ node.level \in Levels /\ node.formatter \in Formatters
    BY DEF Nodes
  <1>2. whole \in SUBSET (1..MostAppenders) /\ \A i \in whole : a[i] \in Formatters
    BY <1>1
  <1>3. Restrict(a, whole) \in [whole -> Formatters]
    BY <1>2 DEF Restrict
  <1>4. Restrict(a, whole) \in Filed
    BY <1>2, <1>3 DEF Filed
  <1>5. QED
    BY <1>1, <1>4 DEF Define, Defines

\* A name that a document mentions has a first node.
LEMMA FirstType ==
  ASSUME NEW doc \in Seq(Nodes), NEW n, \E i \in DOMAIN doc : doc[i].name = n
  PROVE  First(doc, n) \in DOMAIN doc /\ doc[First(doc, n)].name = n
  <1> DEFINE T == {i \in DOMAIN doc : doc[i].name = n}
  <1>1. T \in SUBSET Nat /\ T # {}
    OBVIOUS
  <1>2. PICK x \in T : \A y \in T : x <= y
    BY <1>1, Least
  <1>3. QED
    BY <1>2 DEF First

LEMMA LexicalCastType ==
  ASSUME NEW doc \in Documents
  PROVE  LexicalCast(doc) \in Configs
  <1> DEFINE N == {doc[i].name : i \in DOMAIN doc} \ {NoName}
  <1>1. doc \in Seq(Nodes) /\ \A i \in DOMAIN doc : Len(doc[i].appenders) <= MostAppenders
    OBVIOUS
  <1>2. \A i \in DOMAIN doc : doc[i] \in Nodes /\ doc[i].name \in Names \cup {NoName}
    <2>1. \A i \in DOMAIN doc : doc[i] \in Nodes
      BY <1>1
    <2>2. \A node \in Nodes : node.name \in Names \cup {NoName}
      BY DEF Nodes
    <2>3. QED
      BY <2>1, <2>2
  <1>3. N \in SUBSET Names
    BY <1>2
  <1>4. ASSUME NEW n \in N
        PROVE  Define(doc[First(doc, n)]) \in Defines
    <2>1. First(doc, n) \in DOMAIN doc
      BY <1>1, FirstType
    <2>2. QED
      BY <1>1, <1>2, <2>1, DefineType
  <1>5. LexicalCast(doc) \in [N -> Defines]
    BY <1>4 DEF LexicalCast
  <1>6. QED
    BY <1>3, <1>5 DEF Configs

\* What a value says of a logger.
LEMMA ConfigsType ==
  ASSUME NEW v \in Configs
  PROVE  /\ DOMAIN v \subseteq Names
         /\ \A n \in DOMAIN v :
              /\ v[n] \in Defines /\ v[n].level \in Levels /\ v[n].formatter \in Formatters
              /\ DOMAIN v[n].appenders \in SUBSET (1..MostAppenders)
              /\ \A i \in DOMAIN v[n].appenders : v[n].appenders[i] \in Formatters
  <1>1. PICK N \in SUBSET Names : v \in [N -> Defines]
    BY DEF Configs
  <1>2. ASSUME NEW d \in Defines
        PROVE  /\ d.level \in Levels /\ d.formatter \in Formatters
               /\ DOMAIN d.appenders \in SUBSET (1..MostAppenders)
               /\ \A i \in DOMAIN d.appenders : d.appenders[i] \in Formatters
    BY DEF Defines, Filed
  <1>3. QED
    BY <1>1, <1>2

\* Positions are finite sets; the rank of a position counts those up to it.
LEMMA PositionsFinite ==
  ASSUME NEW P \in SUBSET (1..MostAppenders)
  PROVE  IsFiniteSet(P) /\ Cardinality(P) \in Nat /\ Cardinality(P) <= MostAppenders
  <1>1. IsFiniteSet(1..MostAppenders) /\ Cardinality(1..MostAppenders) = MostAppenders
    BY FS_Interval
  <1>2. QED
    BY <1>1, FS_Subset, FS_CardinalityType

LEMMA RankOfNext ==
  ASSUME NEW P \in SUBSET (1..MostAppenders), NEW A \in SUBSET P, NEW k \in P \ A,
         \A i \in A : i < k, \A j \in P \ A : k <= j
  PROVE  /\ Rank(k, P) = Cardinality(A) + 1
         /\ \A i \in A : Rank(i, P) \in 1..Cardinality(A)
  <1>1. IsFiniteSet(A) /\ Cardinality(A) \in Nat
    BY PositionsFinite
  <1>2. Cardinality(A \cup {k}) = Cardinality(A) + 1
    BY <1>1, FS_AddElement
  <1>0. P \subseteq Nat /\ A \subseteq P
    OBVIOUS
  <1>3. {j \in P : j <= k} = A \cup {k}
    <2>1. \A j \in P \ A : j <= k => j = k
      BY <1>0
    <2>2. \A j \in A : j <= k
      BY <1>0
    <2>3. QED
      BY <1>0, <2>1, <2>2
  <1>4. ASSUME NEW i \in A
        PROVE  Rank(i, P) \in 1..Cardinality(A)
    <2> DEFINE B == {j \in P : j <= i}
    <2>1. B \in SUBSET A /\ i \in B
      <3>1. \A j \in P \ A : ~(j <= i)
        BY <1>0
      <3>2. B \subseteq A
        BY <3>1
      <3>3. i \in P /\ i \in Nat /\ i <= i
        BY <1>0
      <3>4. QED
        BY <3>2, <3>3
    <2>2. IsFiniteSet(B) /\ Cardinality(B) \in Nat /\ Cardinality(B) <= Cardinality(A)
      BY <1>1, <2>1, FS_Subset, FS_CardinalityType
    <2>3. Cardinality(B) # 0
      BY <2>1, <2>2, FS_EmptySet
    <2>4. QED
      BY <1>1, <2>2, <2>3 DEF Rank
  <1>5. QED
    BY <1>2, <1>3, <1>4 DEF Rank

-----------------------------------------------------------------------------
(* Loggers.                                                                *)

\* A logger that a step does not touch.
LEMMA Untouched ==
  ASSUME NEW n, NEW d, level'[n] = level[n], formatter'[n] = formatter[n],
         m_appenders'[n] = m_appenders[n]
  PROVE  /\ Agrees(n, d) => Agrees(n, d)'
         /\ Silent(n) => Silent(n)'
  BY DEF Agrees, Silent

\* A new appender, and one that follows its logger.
LEMMA AppenderType ==
  ASSUME NEW own \in Formatters, NEW f \in Formats
  PROVE  Appender(own, f) \in Appenders
  BY DEF Appender, Appenders, Formats, Given
LEMMA FollowsType ==
  ASSUME NEW ap \in Appenders, NEW f \in Formats
  PROVE  /\ Follows(f, ap) \in Appenders /\ Follows(f, ap).own = ap.own
         /\ ~ap.own => Follows(f, ap).format = f
  BY DEF Follows, Appenders

\* What setFormatter() does to the appenders of a logger.
LEMMA setFormatterDoes ==
  ASSUME LoggerTypes, NEW n \in Names, NEW f \in Formats, setFormatter(n, f), AppenderFormats
  PROVE  /\ formatter' \in [Names -> Formats] /\ formatter'[n] = f
         /\ \A m \in Names \ {n} : formatter'[m] = formatter[m] /\ m_appenders'[m] = m_appenders[m]
         /\ m_appenders' \in [Names -> Seq(Appenders)]
         /\ Len(m_appenders'[n]) = Len(m_appenders[n])
         /\ AppenderFormats'
  <1> DEFINE q == m_appenders[n]
             r == [i \in DOMAIN q |-> Follows(f, q[i])]
  <1>1. q \in Seq(Appenders) /\ m_appenders' = [m_appenders EXCEPT ![n] = r]
    BY DEF LoggerTypes, setFormatter
  <1>2. /\ r \in Seq(Appenders) /\ Len(r) = Len(q) /\ DOMAIN r = DOMAIN q
        /\ \A i \in DOMAIN r : ~r[i].own => r[i].format = f
    <2>1. q \in Seq(Appenders) /\ DOMAIN q = 1..Len(q) /\ Len(q) \in Nat
      BY <1>1
    <2>2. \A i \in DOMAIN q : /\ Follows(f, q[i]) \in Appenders
                              /\ Follows(f, q[i]).own = q[i].own
                              /\ ~q[i].own => Follows(f, q[i]).format = f
      BY <2>1, FollowsType
    <2>3. r \in [1..Len(q) -> Appenders]
      BY <2>1, <2>2
    <2>4. r \in Seq(Appenders) /\ Len(r) = Len(q)
      BY <2>1, <2>3
    <2>5. QED
      BY <2>1, <2>2, <2>4
  <1> HIDE DEF r, q
  <1>3. /\ formatter' = [formatter EXCEPT ![n] = f] /\ formatter \in [Names -> Formats]
        /\ m_appenders \in [Names -> Seq(Appenders)]
    BY DEF setFormatter, LoggerTypes
  <1>4. Len(m_appenders[n]) = Len(r) /\ m_appenders'[n] = r
    BY <1>1, <1>2, <1>3 DEF q
  <1>5. AppenderFormats'
    BY <1>1, <1>2, <1>3 DEF AppenderFormats
  <1>6. QED
    BY <1>1, <1>2, <1>3, <1>4, <1>5

-----------------------------------------------------------------------------
(* Steps of the listener.                                                  *)

\* Names in values are names of loggers.
LEMMA NamesKnown ==
  ASSUME IInv, NEW s \in Setters
  PROVE  DOMAIN new[s] \cup DOMAIN m_val \cup dropped \subseteq Names
  BY ConfigsType DEF IInv, LogTypes, LoggerTypes, SetterTypes

\* The other setters stay where they are.
Bystanders(s) == \A t \in Setters \ {s} :
  /\ pc'[t] = pc[t] /\ todo'[t] = todo[t] /\ gone'[t] = gone[t]
  /\ cur'[t] = cur[t] /\ left'[t] = left[t] /\ new'[t] = new[t]

LEMMA PlacesKept ==
  ASSUME Places, NEW s \in Setters, Bystanders(s), Place(s)'
  PROVE  Places'
  BY DEF Places, Place, Bystanders, Positions, Added

\* A step inside setValue(), which leaves the variable and its new value alone.
LEMMA Goes ==
  ASSUME IInv, ~crashed, NEW s \in Setters, pc[s] # "idle", pc'[s] # "idle", Bystanders(s),
         UNCHANGED <<m_val, new, dropped, overlapped>>,
         ~overlapped /\ ~crashed' /\ Applies(s) => Applies(s)'
  PROVE  OneByOne' /\ Applied' /\ AsConfigured'
  <1>1. OneByOne'
    BY DEF IInv, OneByOne, Bystanders
  <1>2. Applied'
    <2> SUFFICES ASSUME ~overlapped', ~crashed', NEW t \in Setters, pc'[t] # "idle"
                 PROVE  Applies(t)'
      BY DEF Applied
    <2>1. t = s
      BY DEF IInv, OneByOne, Bystanders
    <2>2. Applies(s)
      BY DEF IInv, Applied
    <2>3. QED
      BY <2>1, <2>2
  <1>3. AsConfigured'
    BY DEF AsConfigured
  <1>4. QED
    BY <1>1, <1>2, <1>3

\* A logger is looked up, or there is none.
LEMMA NextLoggerKeeps ==
  ASSUME IInv, ~crashed, NEW s \in Setters, NextLogger(s)
  PROVE  IInv'
  <1>1. PICK n \in todo[s] :
          /\ pc[s] = "next" /\ pc' = [pc EXCEPT ![s] = "formatter"]
          /\ \/ crashed' = TRUE /\ level' = level
             \/ crashed' = crashed /\ level' = [level EXCEPT ![n] = new[s][n].level]
          /\ cur' = [cur EXCEPT ![s] = n]
          /\ left' = [left EXCEPT ![s] = DOMAIN new[s][n].appenders]
          /\ todo' = [todo EXCEPT ![s] = @ \ {n}]
          /\ UNCHANGED <<m_val, formatter, m_appenders, new, gone, dropped, overlapped>>
    BY DEF NextLogger, Goto, historyVars
  <1>2. /\ n \in DOMAIN new[s] /\ n \in Names /\ new[s][n].level \in Levels
        /\ DOMAIN new[s][n].appenders \in SUBSET (1..MostAppenders)
    <2>1. new[s] \in Configs /\ n \in DOMAIN new[s]
      BY <1>1 DEF IInv, LogTypes, SetterTypes, Places, Place
    <2>2. QED
      BY <2>1, ConfigsType
  <1>3. LogTypes'
    BY <1>1, <1>2 DEF IInv, LogTypes, LoggerTypes, SetterTypes, Labels, AtLogger
  <1>4. /\ Bystanders(s) /\ pc'[s] = "formatter" /\ cur'[s] = n /\ todo'[s] = todo[s] \ {n}
        /\ left'[s] = DOMAIN new[s][n].appenders /\ gone'[s] = gone[s] /\ new' = new
    BY <1>1 DEF IInv, LogTypes, SetterTypes, Bystanders
  <1>5. Places'
    <2>1. Place(s)'
      BY <1>2, <1>4 DEF IInv, Places, Place, AtLogger, Positions
    <2>2. QED
      BY <1>4, <2>1, PlacesKept DEF IInv
  <1>6. ASSUME ~overlapped, ~crashed', Applies(s)
        PROVE  Applies(s)'
    <2>1. level' = [level EXCEPT ![n] = new[s][n].level] /\ level \in [Names -> Levels]
      BY <1>1, <1>6 DEF IInv, LogTypes, LoggerTypes
    <2>2. \A m \in Names : m # n => level'[m] = level[m]
      BY <2>1
    <2>3. Halfway(s)'
      BY <1>2, <1>4, <2>1 DEF Halfway
    <2>4. \A m \in Names : \A d : m # n =>
            (Agrees(m, d) => Agrees(m, d)') /\ (Silent(m) => Silent(m)')
      BY <1>1, <2>2, Untouched
    <2>5. \A m \in DOMAIN new[s] \ todo'[s] : m = n \/ Agrees(m, new[s][m])'
      BY <1>1, <1>4, <1>6, <2>4, NamesKnown DEF Applies, AtLogger
    <2>6. \A m \in (DOMAIN m_val \cup dropped) \ (DOMAIN new[s] \cup gone[s]) : Silent(m)'
      BY <1>1, <1>2, <1>6, <2>4, NamesKnown DEF Applies
    <2>7. QED
      BY <1>1, <1>4, <1>6, <2>3, <2>5, <2>6 DEF Applies, AtLogger
  <1>7. OneByOne' /\ Applied' /\ AsConfigured'
    BY <1>1, <1>4, <1>6, Goes
  <1>8. Bounded' /\ AppenderFormats'
    BY <1>1 DEF IInv, Bounded, AppenderFormats
  <1>9. QED
    BY <1>3, <1>5, <1>7, <1>8 DEF IInv

\* The formatter of the logger is set, if one is given.
LEMMA SetsFormatterKeeps ==
  ASSUME IInv, ~crashed, NEW s \in Setters, SetsFormatter(s)
  PROVE  IInv'
  <1>0. PICK n, f : n = cur[s] /\ f = new[s][n].formatter
    OBVIOUS
  <1>1. /\ pc[s] = "formatter" /\ pc' = [pc EXCEPT ![s] = "clear"]
        /\ IF Given(f) THEN setFormatter(n, f) ELSE UNCHANGED <<formatter, m_appenders>>
        /\ UNCHANGED <<m_val, level, new, todo, gone, cur, left, crashed, dropped, overlapped>>
    BY <1>0 DEF SetsFormatter, Goto, historyVars
  <1>2. n \in DOMAIN new[s] \ todo[s] /\ n \in Names /\ f \in Formats
    <2>1. new[s] \in Configs /\ n \in DOMAIN new[s] \ todo[s]
      BY <1>0, <1>1 DEF IInv, LogTypes, SetterTypes, Places, Place, AtLogger
    <2>2. QED
      BY <1>0, <2>1, ConfigsType DEF Formats
  <1>3. /\ formatter' \in [Names -> Formats] /\ m_appenders' \in [Names -> Seq(Appenders)]
        /\ \A m \in Names \ {n} : formatter'[m] = formatter[m] /\ m_appenders'[m] = m_appenders[m]
        /\ Given(f) => formatter'[n] = f
        /\ \A m \in Names : Len(m_appenders'[m]) = Len(m_appenders[m])
        /\ AppenderFormats'
    <2>1. CASE Given(f)
      <3>1. setFormatter(n, f) /\ LoggerTypes /\ AppenderFormats
        BY <1>1, <2>1 DEF IInv, LogTypes
      <3>2. QED
        BY <1>2, <3>1, setFormatterDoes
    <2>2. CASE ~Given(f)
      BY <1>1, <2>2 DEF IInv, LogTypes, LoggerTypes, AppenderFormats
    <2>3. QED
      BY <2>1, <2>2
  <1>4. LogTypes'
    BY <1>1, <1>3 DEF IInv, LogTypes, LoggerTypes, SetterTypes, Labels, AtLogger
  <1>5. Bystanders(s) /\ pc'[s] = "clear"
    BY <1>1 DEF IInv, LogTypes, SetterTypes, Bystanders
  <1>6. Places'
    <2>1. Place(s)'
      BY <1>1, <1>5 DEF IInv, Places, Place, AtLogger, Positions
    <2>2. QED
      BY <1>5, <2>1, PlacesKept DEF IInv
  <1>7. ASSUME ~overlapped, ~crashed', Applies(s)
        PROVE  Applies(s)'
    <2>1. Halfway(s)'
      BY <1>0, <1>1, <1>3, <1>5, <1>7 DEF Applies, AtLogger, Halfway
    <2>2. \A m \in Names : \A d : m # n =>
            (Agrees(m, d) => Agrees(m, d)') /\ (Silent(m) => Silent(m)')
      BY <1>1, <1>3, Untouched
    <2>3. DOMAIN new[s] \cup DOMAIN m_val \cup dropped \subseteq Names
      BY ConfigsType DEF IInv, LogTypes, LoggerTypes, SetterTypes
    <2>4. \A m \in DOMAIN new[s] \ todo[s] : m = n \/ Agrees(m, new[s][m])'
      BY <1>0, <1>1, <1>7, <2>2, <2>3 DEF Applies
    <2>5. \A m \in (DOMAIN m_val \cup dropped) \ (DOMAIN new[s] \cup gone[s]) : Silent(m)'
      BY <1>1, <1>2, <1>7, <2>2, <2>3 DEF Applies
    <2>6. QED
      BY <1>0, <1>1, <1>5, <1>7, <2>1, <2>4, <2>5 DEF Applies, AtLogger
  <1>8. OneByOne' /\ Applied' /\ AsConfigured'
    BY <1>1, <1>5, <1>7, Goes
  <1>9. Bounded'
    BY <1>1, <1>3 DEF IInv, Bounded
  <1>10. QED
    BY <1>3, <1>4, <1>6, <1>8, <1>9 DEF IInv

\* The appenders of the logger are thrown away.
LEMMA ClearsKeeps ==
  ASSUME IInv, ~crashed, NEW s \in Setters, Clears(s)
  PROVE  IInv'
  <1>0. PICK n : n = cur[s]
    OBVIOUS
  <1>1. /\ pc[s] = "clear" /\ pc' = [pc EXCEPT ![s] = "add"]
        /\ m_appenders' = [m_appenders EXCEPT ![n] = << >>]
        /\ UNCHANGED <<m_val, level, formatter, new, todo, gone, cur, left, crashed, dropped,
                       overlapped>>
    BY <1>0 DEF Clears, clearAppenders, Goto, historyVars
  <1>2. /\ n \in DOMAIN new[s] \ todo[s] /\ n \in Names /\ left[s] = Positions(s)
        /\ m_appenders \in [Names -> Seq(Appenders)]
    BY <1>0, <1>1 DEF IInv, LogTypes, LoggerTypes, SetterTypes, Places, Place, AtLogger
  <1>3. /\ m_appenders' \in [Names -> Seq(Appenders)] /\ m_appenders'[n] = << >>
        /\ \A m \in Names : m # n => m_appenders'[m] = m_appenders[m]
        /\ \A m \in Names : m_appenders'[m] \in {m_appenders[m], << >>}
    BY <1>1, <1>2
  <1>4. LogTypes'
    BY <1>1, <1>3 DEF IInv, LogTypes, LoggerTypes, SetterTypes, Labels, AtLogger
  <1>5. Bystanders(s) /\ pc'[s] = "add"
    BY <1>1 DEF IInv, LogTypes, SetterTypes, Bystanders
  <1>6. Added(s) = {} /\ Positions(s)' = Positions(s) /\ Added(s)' = Added(s)
    BY <1>1, <1>2 DEF Added, Positions
  <1>7. Places'
    <2>1. Place(s)'
      BY <1>1, <1>2, <1>5, <1>6 DEF IInv, Places, Place, AtLogger
    <2>2. QED
      BY <1>5, <2>1, PlacesKept DEF IInv
  <1>8. ASSUME ~overlapped, ~crashed', Applies(s)
        PROVE  Applies(s)'
    <2>1. Halfway(s)'
      <3>1. Cardinality({}) = 0 /\ Len(<< >>) = 0
        BY FS_EmptySet
      <3>2. QED
        BY <1>0, <1>1, <1>3, <1>5, <1>6, <1>8, <3>1 DEF Applies, AtLogger, Halfway
    <2>2. \A m \in Names : \A d : m # n =>
            (Agrees(m, d) => Agrees(m, d)') /\ (Silent(m) => Silent(m)')
      BY <1>1, <1>3, Untouched
    <2>3. \A m \in DOMAIN new[s] \ todo[s] : m = n \/ Agrees(m, new[s][m])'
      BY <1>0, <1>1, <1>8, <2>2, NamesKnown DEF Applies
    <2>4. \A m \in (DOMAIN m_val \cup dropped) \ (DOMAIN new[s] \cup gone[s]) : Silent(m)'
      BY <1>1, <1>2, <1>8, <2>2, NamesKnown DEF Applies
    <2>5. QED
      BY <1>0, <1>1, <1>5, <1>8, <2>1, <2>3, <2>4, NamesKnown DEF Applies, AtLogger
  <1>9. OneByOne' /\ Applied' /\ AsConfigured'
    BY <1>1, <1>5, <1>8, Goes
  <1>10. Bounded'
    BY <1>1, <1>3 DEF IInv, Bounded
  <1>11. AppenderFormats'
    BY <1>1, <1>3 DEF IInv, AppenderFormats
  <1>12. QED
    BY <1>4, <1>7, <1>9, <1>10, <1>11 DEF IInv

\* The next appender is added behind those that are there.
LEMMA AddsKeeps ==
  ASSUME IInv, ~crashed, NEW s \in Setters, Adds(s)
  PROVE  IInv'
  <1>0. PICK n, q : n = cur[s] /\ q = m_appenders[n]
    OBVIOUS
  <1>1. PICK k \in left[s] :
          /\ pc[s] = "add" /\ pc' = [pc EXCEPT ![s] = "add"] /\ \A j \in left[s] : k <= j
          /\ addAppender(cur[s], new[s][cur[s]].appenders[k])
          /\ left' = [left EXCEPT ![s] = @ \ {k}]
          /\ UNCHANGED <<m_val, level, formatter, new, todo, gone, cur, crashed, dropped,
                         overlapped>>
    BY DEF Adds, Goto, historyVars
  <1> DEFINE own == new[s][n].appenders[k]
             P == DOMAIN new[s][n].appenders
             A == P \ left[s]
  <1>2. PICK ap : ap = Appender(own, formatter[n])
    OBVIOUS
  <1>3. /\ n \in DOMAIN new[s] \ todo[s] /\ n \in Names /\ left[s] \subseteq P
        /\ P \in SUBSET (1..MostAppenders) /\ own \in Formatters
        /\ \A i \in A, j \in left[s] : i < j
        /\ m_appenders \in [Names -> Seq(Appenders)] /\ q \in Seq(Appenders)
        /\ Positions(s) = P /\ Added(s) = A
    <2>1. /\ new[s] \in Configs /\ n \in DOMAIN new[s] \ todo[s]
          /\ m_appenders \in [Names -> Seq(Appenders)]
      BY <1>0, <1>1 DEF IInv, LogTypes, LoggerTypes, SetterTypes, Places, Place, AtLogger
    <2>2. Positions(s) = P /\ Added(s) = A
      BY <1>0 DEF Positions, Added
    <2>3. left[s] \subseteq P /\ \A i \in A, j \in left[s] : i < j
      BY <1>1, <2>2 DEF IInv, Places, Place, AtLogger
    <2>4. n \in Names /\ P \in SUBSET (1..MostAppenders)
      BY <2>1, ConfigsType
    <2>5. own \in Formatters
      BY <1>1, <2>1, <2>3, ConfigsType
    <2>6. QED
      BY <1>0, <2>1, <2>2, <2>3, <2>4, <2>5
  <1>4. /\ ap \in Appenders /\ (~ap.own => ap.format = formatter[n])
        /\ m_appenders' = [m_appenders EXCEPT ![n] = Append(q, ap)]
    <2>1. ap \in Appenders
      BY <1>2, <1>3, AppenderType DEF IInv, LogTypes, LoggerTypes
    <2>2. ~ap.own => ap.format = formatter[n]
      BY <1>2 DEF Appender
    <2>3. m_appenders' = [m_appenders EXCEPT ![n] = Append(q, ap)]
      BY <1>0, <1>1, <1>2 DEF addAppender
    <2>4. QED
      BY <2>1, <2>2, <2>3
  <1> HIDE DEF own, P, A
  <1>5. /\ m_appenders' \in [Names -> Seq(Appenders)] /\ m_appenders'[n] = Append(q, ap)
        /\ \A m \in Names : m # n => m_appenders'[m] = m_appenders[m]
        /\ Len(m_appenders'[n]) = Len(q) + 1 /\ Len(q) \in Nat
        /\ \A i \in 1..Len(q) : m_appenders'[n][i] = q[i]
        /\ m_appenders'[n][Len(q) + 1] = ap
        /\ DOMAIN m_appenders'[n] = 1..(Len(q) + 1) /\ DOMAIN q = 1..Len(q)
    <2>1. /\ m_appenders' \in [Names -> Seq(Appenders)] /\ m_appenders'[n] = Append(q, ap)
          /\ \A m \in Names : m # n => m_appenders'[m] = m_appenders[m]
      BY <1>3, <1>4
    <2>2. /\ Len(Append(q, ap)) = Len(q) + 1 /\ Len(q) \in Nat
          /\ \A i \in 1..Len(q) : Append(q, ap)[i] = q[i]
          /\ Append(q, ap)[Len(q) + 1] = ap
          /\ DOMAIN Append(q, ap) = 1..(Len(q) + 1) /\ DOMAIN q = 1..Len(q)
      BY <1>3, <1>4
    <2>3. QED
      BY <2>1, <2>2
  <1>6. LogTypes'
    BY <1>1, <1>5 DEF IInv, LogTypes, LoggerTypes, SetterTypes, Labels, AtLogger
  <1>7. Bystanders(s) /\ pc'[s] = "add" /\ left'[s] = left[s] \ {k}
    BY <1>1 DEF IInv, LogTypes, SetterTypes, Bystanders
  <1>8. Positions(s)' = P /\ Added(s)' = A \cup {k} /\ k \in P \ A /\ P \ A = left[s]
        /\ A \in SUBSET P
    BY <1>1, <1>3, <1>7 DEF Positions, Added, A
  <1>9. /\ Cardinality(A \cup {k}) = Cardinality(A) + 1 /\ Rank(k, P) = Cardinality(A) + 1
        /\ \A i \in A : Rank(i, P) \in 1..Cardinality(A)
    <2>1. P \in SUBSET (1..MostAppenders) /\ A \in SUBSET P /\ k \in P \ A
      BY <1>3, <1>8
    <2>2. (\A i \in A : i < k) /\ (\A j \in P \ A : k <= j)
      BY <1>1, <1>3, <1>8
    <2>3. Cardinality(A \cup {k}) = Cardinality(A) + 1
      <3>1. A \in SUBSET (1..MostAppenders) /\ k \notin A
        BY <2>1
      <3>2. QED
        BY <3>1, PositionsFinite, FS_AddElement
    <2>4. Rank(k, P) = Cardinality(A) + 1
      BY <2>1, <2>2, RankOfNext
    <2>5. \A i \in A : Rank(i, P) \in 1..Cardinality(A)
      BY <2>1, <2>2, RankOfNext
    <2>6. QED
      BY <2>3, <2>4, <2>5
  <1>10. Places'
    <2>1. \A i \in A \cup {k}, j \in left'[s] : i < j
      <3>1. SUFFICES ASSUME NEW i \in A \cup {k}, NEW j \in left[s] \ {k}
                     PROVE  i < j
        BY <1>7
      <3>2. i \in A => i < j
        BY <1>3
      <3>3. k <= j /\ k # j /\ k \in 1..MostAppenders /\ j \in 1..MostAppenders
        BY <1>1, <1>3
      <3>4. k < j
        BY <3>3, DocumentsAssumption
      <3>5. QED
        BY <3>2, <3>4
    <2>2. Place(s)'
      BY <1>1, <1>3, <1>7, <1>8, <2>1 DEF IInv, Places, Place, AtLogger
    <2>3. QED
      BY <1>7, <2>2, PlacesKept DEF IInv
  <1>11. ASSUME ~overlapped, ~crashed', Applies(s)
         PROVE  Applies(s)'
    <2>1. /\ level[n] = new[s][n].level /\ Len(q) = Cardinality(A)
          /\ Given(new[s][n].formatter) => formatter[n] = new[s][n].formatter
          /\ \A i \in A : q[Rank(i, P)] = Appender(new[s][n].appenders[i], formatter[n])
      BY <1>0, <1>1, <1>3, <1>11 DEF Applies, AtLogger, Halfway
    <2>2. \A i \in A \cup {k} :
            m_appenders'[n][Rank(i, P)] = Appender(new[s][n].appenders[i], formatter[n])
      <3>1. \A i \in A : m_appenders'[n][Rank(i, P)] = q[Rank(i, P)]
        BY <1>5, <1>9, <2>1
      <3>2. m_appenders'[n][Rank(k, P)] = Appender(new[s][n].appenders[k], formatter[n])
        BY <1>2, <1>5, <1>9, <2>1 DEF own
      <3>3. QED
        BY <2>1, <3>1, <3>2
    <2>3. Halfway(s)'
      BY <1>0, <1>1, <1>5, <1>8, <1>9, <2>1, <2>2 DEF Halfway
    <2>4. \A m \in Names : \A d : m # n =>
            (Agrees(m, d) => Agrees(m, d)') /\ (Silent(m) => Silent(m)')
      BY <1>1, <1>5, Untouched
    <2>5. \A m \in DOMAIN new[s] \ todo[s] : m = n \/ Agrees(m, new[s][m])'
      BY <1>0, <1>1, <1>11, <2>4, NamesKnown DEF Applies
    <2>6. \A m \in (DOMAIN m_val \cup dropped) \ (DOMAIN new[s] \cup gone[s]) : Silent(m)'
      BY <1>1, <1>3, <1>11, <2>4, NamesKnown DEF Applies
    <2>7. QED
      BY <1>0, <1>1, <1>7, <1>11, <2>3, <2>5, <2>6 DEF Applies, AtLogger
  <1>12. OneByOne' /\ Applied' /\ AsConfigured'
    BY <1>1, <1>7, <1>11, Goes
  <1>13. Bounded'
    <2>1. ASSUME ~overlapped
          PROVE  Len(q) + 1 <= MostAppenders
      <3>1. Len(q) = Cardinality(A)
        BY <1>0, <1>1, <1>3, <2>1 DEF IInv, Applied, Applies, AtLogger, Halfway
      <3>2. A \cup {k} \in SUBSET (1..MostAppenders)
        BY <1>3, <1>8
      <3>3. QED
        BY <1>9, <3>1, <3>2, PositionsFinite
    <2>2. QED
      BY <1>1, <1>5, <2>1 DEF IInv, Bounded
  <1>14. AppenderFormats'
    <2>1. \A m \in Names \ {n} : \A i \in DOMAIN m_appenders'[m] :
            ~m_appenders'[m][i].own => m_appenders'[m][i].format = formatter[m]
      BY <1>5 DEF IInv, AppenderFormats
    <2>2. \A i \in DOMAIN m_appenders'[n] :
            ~m_appenders'[n][i].own => m_appenders'[n][i].format = formatter[n]
      <3>1. \A i \in 1..Len(q) : ~q[i].own => q[i].format = formatter[n]
        BY <1>0, <1>3, <1>5 DEF IInv, AppenderFormats
      <3>2. \A i \in 1..(Len(q) + 1) : i \in 1..Len(q) \/ i = Len(q) + 1
        BY <1>5
      <3>3. QED
        BY <1>4, <1>5, <3>1, <3>2
    <2>3. QED
      BY <1>1, <2>1, <2>2 DEF AppenderFormats
  <1>15. QED
    BY <1>6, <1>10, <1>12, <1>13, <1>14 DEF IInv

\* All appenders of the definition were added.
LEMMA LoggerDoneKeeps ==
  ASSUME IInv, ~crashed, NEW s \in Setters, LoggerDone(s)
  PROVE  IInv'
  <1>0. PICK n : n = cur[s]
    OBVIOUS
  <1>1. /\ pc[s] = "add" /\ pc' = [pc EXCEPT ![s] = "next"] /\ left[s] = {}
        /\ UNCHANGED <<m_val, level, formatter, m_appenders, new, todo, gone, cur, left, crashed,
                       dropped, overlapped>>
    BY DEF LoggerDone, Goto, historyVars, loggerVars
  <1>2. LogTypes'
    BY <1>1 DEF IInv, LogTypes, LoggerTypes, SetterTypes, Labels, AtLogger
  <1>3. Bystanders(s) /\ pc'[s] = "next"
    BY <1>1 DEF IInv, LogTypes, SetterTypes, Bystanders
  <1>4. Places'
    <2>1. Place(s)'
      BY <1>1, <1>3 DEF IInv, Places, Place, AtLogger
    <2>2. QED
      BY <1>3, <2>1, PlacesKept DEF IInv
  <1>5. ASSUME ~overlapped, ~crashed', Applies(s)
        PROVE  Applies(s)'
    <2>1. Agrees(n, new[s][n])
      <3>1. Added(s) = Positions(s) /\ Positions(s) = DOMAIN new[s][n].appenders
        BY <1>0, <1>1 DEF Added, Positions
      <3>2. QED
        BY <1>0, <1>1, <1>5, <3>1 DEF Applies, AtLogger, Halfway, Agrees
    <2>2. \A m, d : (Agrees(m, d) => Agrees(m, d)') /\ (Silent(m) => Silent(m)')
      BY <1>1, Untouched
    <2>3. \A m \in DOMAIN new[s] \ todo[s] : Agrees(m, new[s][m])'
      BY <1>0, <1>1, <1>5, <2>1, <2>2, NamesKnown DEF Applies
    <2>4. \A m \in (DOMAIN m_val \cup dropped) \ (DOMAIN new[s] \cup gone[s]) : Silent(m)'
      BY <1>1, <1>5, <2>2, NamesKnown DEF Applies
    <2>5. QED
      BY <1>1, <1>3, <1>5, <2>3, <2>4, NamesKnown DEF Applies, AtLogger
  <1>6. OneByOne' /\ Applied' /\ AsConfigured'
    BY <1>1, <1>3, <1>5, Goes
  <1>7. Bounded' /\ AppenderFormats'
    BY <1>1 DEF IInv, Bounded, AppenderFormats
  <1>8. QED
    BY <1>2, <1>4, <1>6, <1>7 DEF IInv

\* A logger that the new value does not name falls silent.
LEMMA DeletesLoggerKeeps ==
  ASSUME IInv, ~crashed, NEW s \in Setters, DeletesLogger(s)
  PROVE  IInv'
  <1>1. PICK n \in gone[s] :
          /\ pc[s] = "next" /\ pc' = [pc EXCEPT ![s] = "remove"] /\ todo[s] = {}
          /\ cur' = [cur EXCEPT ![s] = n] /\ gone' = [gone EXCEPT ![s] = @ \ {n}]
          /\ level' = [level EXCEPT ![n] = "UNKNOW"]
          /\ UNCHANGED <<m_val, formatter, m_appenders, new, todo, left, crashed, dropped,
                         overlapped>>
    BY DEF DeletesLogger, Goto, historyVars
  <1>2. n \in Names /\ n \notin DOMAIN new[s] /\ level \in [Names -> Levels]
    BY <1>1 DEF IInv, LogTypes, LoggerTypes, SetterTypes, Places, Place
  <1>3. LogTypes'
    BY <1>1, <1>2 DEF IInv, LogTypes, LoggerTypes, SetterTypes, Labels, AtLogger, Levels
  <1>4. Bystanders(s) /\ pc'[s] = "remove" /\ cur'[s] = n /\ gone'[s] = gone[s] \ {n}
    BY <1>1 DEF IInv, LogTypes, SetterTypes, Bystanders
  <1>5. Places'
    <2>1. Place(s)'
      BY <1>1, <1>2, <1>4 DEF IInv, Places, Place, AtLogger
    <2>2. QED
      BY <1>4, <2>1, PlacesKept DEF IInv
  <1>6. ASSUME ~overlapped, ~crashed', Applies(s)
        PROVE  Applies(s)'
    <2>1. level'[n] = "UNKNOW" /\ \A m \in Names : m # n => level'[m] = level[m]
      BY <1>1, <1>2
    <2>2. \A m \in Names : \A d : m # n =>
            (Agrees(m, d) => Agrees(m, d)') /\ (Silent(m) => Silent(m)')
      BY <1>1, <2>1, Untouched
    <2>3. \A m \in DOMAIN new[s] \ todo[s] : Agrees(m, new[s][m])'
      BY <1>1, <1>2, <1>6, <2>2, NamesKnown DEF Applies, AtLogger
    <2>4. \A m \in (DOMAIN m_val \cup dropped) \ (DOMAIN new[s] \cup gone'[s]) :
            m = n \/ Silent(m)'
      BY <1>1, <1>4, <1>6, <2>2, NamesKnown DEF Applies
    <2>5. QED
      BY <1>1, <1>4, <1>6, <2>1, <2>3, <2>4, NamesKnown DEF Applies, AtLogger
  <1>7. OneByOne' /\ Applied' /\ AsConfigured'
    BY <1>1, <1>4, <1>6, Goes
  <1>8. Bounded' /\ AppenderFormats'
    BY <1>1 DEF IInv, Bounded, AppenderFormats
  <1>9. QED
    BY <1>3, <1>5, <1>7, <1>8 DEF IInv

LEMMA RemovesAppendersKeeps ==
  ASSUME IInv, ~crashed, NEW s \in Setters, RemovesAppenders(s)
  PROVE  IInv'
  <1>0. PICK n : n = cur[s]
    OBVIOUS
  <1>1. /\ pc[s] = "remove" /\ pc' = [pc EXCEPT ![s] = "next"]
        /\ m_appenders' = [m_appenders EXCEPT ![n] = << >>]
        /\ UNCHANGED <<m_val, level, formatter, new, todo, gone, cur, left, crashed, dropped,
                       overlapped>>
    BY <1>0 DEF RemovesAppenders, clearAppenders, Goto, historyVars
  <1>2. n \notin DOMAIN new[s] /\ n \in Names /\ m_appenders \in [Names -> Seq(Appenders)]
    BY <1>0, <1>1 DEF IInv, LogTypes, LoggerTypes, SetterTypes, Places, Place
  <1>3. /\ m_appenders' \in [Names -> Seq(Appenders)] /\ m_appenders'[n] = << >>
        /\ \A m \in Names : m # n => m_appenders'[m] = m_appenders[m]
        /\ \A m \in Names : m_appenders'[m] \in {m_appenders[m], << >>}
    BY <1>1, <1>2
  <1>4. LogTypes'
    BY <1>1, <1>3 DEF IInv, LogTypes, LoggerTypes, SetterTypes, Labels, AtLogger
  <1>5. Bystanders(s) /\ pc'[s] = "next"
    BY <1>1 DEF IInv, LogTypes, SetterTypes, Bystanders
  <1>6. Places'
    <2>1. Place(s)'
      BY <1>1, <1>5 DEF IInv, Places, Place, AtLogger
    <2>2. QED
      BY <1>5, <2>1, PlacesKept DEF IInv
  <1>7. ASSUME ~overlapped, ~crashed', Applies(s)
        PROVE  Applies(s)'
    <2>1. Silent(n)'
      BY <1>0, <1>1, <1>3, <1>7 DEF Applies, Silent
    <2>2. \A m \in Names : \A d : m # n =>
            (Agrees(m, d) => Agrees(m, d)') /\ (Silent(m) => Silent(m)')
      BY <1>1, <1>3, Untouched
    <2>3. \A m \in DOMAIN new[s] \ todo[s] : Agrees(m, new[s][m])'
      BY <1>1, <1>2, <1>7, <2>2, NamesKnown DEF Applies, AtLogger
    <2>4. \A m \in (DOMAIN m_val \cup dropped) \ (DOMAIN new[s] \cup gone[s]) : Silent(m)'
      BY <1>0, <1>1, <1>7, <2>1, <2>2, NamesKnown DEF Applies
    <2>5. QED
      BY <1>1, <1>5, <1>7, <2>3, <2>4, NamesKnown DEF Applies, AtLogger
  <1>8. OneByOne' /\ Applied' /\ AsConfigured'
    BY <1>1, <1>5, <1>7, Goes
  <1>9. Bounded' /\ AppenderFormats'
    BY <1>1, <1>3 DEF IInv, Bounded, AppenderFormats
  <1>10. QED
    BY <1>4, <1>6, <1>8, <1>9 DEF IInv

LEMMA ListenerReturnsKeeps ==
  ASSUME IInv, ~crashed, NEW s \in Setters, ListenerReturns(s)
  PROVE  IInv'
  <1>1. /\ pc[s] = "next" /\ pc' = [pc EXCEPT ![s] = "store"] /\ todo[s] = {} /\ gone[s] = {}
        /\ UNCHANGED <<m_val, level, formatter, m_appenders, new, todo, gone, cur, left, crashed,
                       dropped, overlapped>>
    BY DEF ListenerReturns, Goto, historyVars, loggerVars
  <1>2. LogTypes'
    BY <1>1 DEF IInv, LogTypes, LoggerTypes, SetterTypes, Labels, AtLogger
  <1>3. Bystanders(s) /\ pc'[s] = "store"
    BY <1>1 DEF IInv, LogTypes, SetterTypes, Bystanders
  <1>4. Places'
    <2>1. Place(s)'
      BY <1>1, <1>3 DEF IInv, Places, Place, AtLogger
    <2>2. QED
      BY <1>3, <2>1, PlacesKept DEF IInv
  <1>5. ASSUME ~overlapped, ~crashed', Applies(s)
        PROVE  Applies(s)'
    <2>1. \A m, d : (Agrees(m, d) => Agrees(m, d)') /\ (Silent(m) => Silent(m)')
      BY <1>1, Untouched
    <2>2. \A m \in DOMAIN new[s] \ todo[s] : Agrees(m, new[s][m])'
      BY <1>1, <1>5, <2>1 DEF Applies, AtLogger
    <2>3. \A m \in (DOMAIN m_val \cup dropped) \ (DOMAIN new[s] \cup gone[s]) : Silent(m)'
      BY <1>1, <1>5, <2>1 DEF Applies
    <2>4. QED
      BY <1>1, <1>3, <1>5, <2>2, <2>3 DEF Applies, AtLogger
  <1>6. OneByOne' /\ Applied' /\ AsConfigured'
    BY <1>1, <1>3, <1>5, Goes
  <1>7. Bounded' /\ AppenderFormats'
    BY <1>1 DEF IInv, Bounded, AppenderFormats
  <1>8. QED
    BY <1>2, <1>4, <1>6, <1>7 DEF IInv

-----------------------------------------------------------------------------
(* setValue() begins, and ends with the store.                             *)

LEMMA setValueKeeps ==
  ASSUME IInv, ~crashed, NEW s \in Setters, setValue(s)
  PROVE  IInv'
  <1>1. PICK doc \in Documents : LET v == LexicalCast(doc) IN
          /\ pc[s] = "idle" /\ pc' = [pc EXCEPT ![s] = "next"]
          /\ new' = [new EXCEPT ![s] = v] /\ todo' = [todo EXCEPT ![s] = DOMAIN v]
          /\ gone' = [gone EXCEPT ![s] = DOMAIN m_val \ DOMAIN v]
          /\ overlapped' = (overlapped \/ \E t \in Setters : pc[t] # "idle")
          /\ UNCHANGED <<m_val, level, formatter, m_appenders, cur, left, crashed, dropped>>
    BY DEF setValue, Goto, loggerVars
  <1>2. PICK v \in Configs : v = LexicalCast(doc)
    BY LexicalCastType
  <1>3. /\ DOMAIN v \subseteq Names /\ DOMAIN m_val \subseteq Names
        /\ overlapped' \in BOOLEAN /\ (~overlapped' => ~overlapped)
    BY <1>1, ConfigsType DEF IInv, LogTypes, LoggerTypes
  <1>4. LogTypes'
    BY <1>1, <1>2, <1>3 DEF IInv, LogTypes, LoggerTypes, SetterTypes, Labels
  <1>5. /\ pc'[s] = "next" /\ new'[s] = v /\ todo'[s] = DOMAIN v
        /\ gone'[s] = DOMAIN m_val \ DOMAIN v
        /\ Bystanders(s)
    BY <1>1, <1>2 DEF IInv, LogTypes, SetterTypes, Bystanders
  <1>6. Places'
    <2>1. Place(s)'
      BY <1>5 DEF Place, AtLogger
    <2>2. QED
      BY <1>5, <2>1, PlacesKept DEF IInv
  <1>7. ~overlapped' => \A t \in Setters : pc[t] = "idle"
    BY <1>1
  <1>8. OneByOne'
    BY <1>5, <1>7 DEF OneByOne, Bystanders
  <1>9. AsConfigured'
    BY <1>5 DEF AsConfigured
  <1>10. Applied'
    <2> SUFFICES ASSUME ~overlapped', ~crashed', NEW t \in Setters, pc'[t] # "idle"
                 PROVE  Applies(t)'
      BY DEF Applied
    <2>1. t = s
      BY <1>5, <1>7 DEF Bystanders
    <2>2. \A n \in dropped : Silent(n)
      BY <1>1, <1>3, <1>7 DEF IInv, AsConfigured, Silent
    <2>3. \A n, d : Silent(n) => Silent(n)'
      BY <1>1, Untouched
    <2>4. QED
      BY <1>1, <1>5, <2>1, <2>2, <2>3 DEF Applies, AtLogger
  <1>11. Bounded' /\ AppenderFormats'
    BY <1>1, <1>3 DEF IInv, Bounded, AppenderFormats
  <1>12. QED
    BY <1>4, <1>6, <1>8, <1>9, <1>10, <1>11 DEF IInv

LEMMA StoresKeeps ==
  ASSUME IInv, ~crashed, NEW s \in Setters, Stores(s)
  PROVE  IInv'
  <1>1. /\ pc[s] = "store" /\ pc' = [pc EXCEPT ![s] = "idle"] /\ m_val' = new[s]
        /\ dropped' = (dropped \cup DOMAIN m_val) \ DOMAIN new[s]
        /\ UNCHANGED <<level, formatter, m_appenders, new, todo, gone, cur, left, crashed,
                       overlapped>>
    BY DEF Stores, Goto, loggerVars
  <1>2. new[s] \in Configs /\ DOMAIN m_val \subseteq Names
    BY ConfigsType DEF IInv, LogTypes, LoggerTypes, SetterTypes
  <1>3. LogTypes'
    BY <1>1, <1>2 DEF IInv, LogTypes, LoggerTypes, SetterTypes, Labels
  <1>4. Bystanders(s) /\ pc'[s] = "idle"
    BY <1>1 DEF IInv, LogTypes, SetterTypes, Bystanders
  <1>5. Places'
    <2>1. Place(s)'
      BY <1>1, <1>4 DEF IInv, Places, Place, AtLogger
    <2>2. QED
      BY <1>4, <2>1, PlacesKept DEF IInv
  <1>6. ~overlapped => \A t \in Setters : pc'[t] = "idle"
    BY <1>1, <1>4 DEF IInv, OneByOne, Bystanders
  <1>7. OneByOne' /\ Applied'
    BY <1>1, <1>6 DEF OneByOne, Applied
  <1>8. AsConfigured'
    <2> SUFFICES ASSUME ~overlapped, ~crashed
                 PROVE  /\ \A n \in DOMAIN new[s] : Agrees(n, new[s][n])'
                        /\ \A n \in dropped' : Silent(n)'
      BY <1>1 DEF AsConfigured, Silent
    <2>1. Applies(s) /\ todo[s] = {} /\ gone[s] = {}
      BY <1>1 DEF IInv, Applied, Places, Place
    <2>2. \A n, d : (Agrees(n, d) => Agrees(n, d)') /\ (Silent(n) => Silent(n)')
      BY <1>1, Untouched
    <2>3. QED
      BY <1>1, <2>1, <2>2, NamesKnown DEF Applies, AtLogger
  <1>9. Bounded' /\ AppenderFormats'
    BY <1>1 DEF IInv, Bounded, AppenderFormats
  <1>10. QED
    BY <1>3, <1>5, <1>7, <1>8, <1>9 DEF IInv

-----------------------------------------------------------------------------
(* The invariant, and what follows from it.                                *)

LEMMA IInvInit == Init => IInv
  <1> SUFFICES ASSUME Init PROVE IInv
    OBVIOUS
  <1>1. << >> \in Configs /\ DOMAIN << >> = {}
    <2>1. << >> \in [{} -> Defines] /\ {} \in SUBSET Names
      OBVIOUS
    <2>2. QED
      BY <2>1 DEF Configs
  <1>2. PICK ap : ap = Appender("", "default")
    OBVIOUS
  <1>3. ap \in Appenders /\ ap.format = "default" /\ <<ap>> \in Seq(Appenders) /\ Len(<<ap>>) = 1
    BY <1>2 DEF Appender, Appenders, Formats, Given
  <1>4. /\ m_appenders = [n \in Names |-> IF n = Root THEN <<ap>> ELSE << >>]
        /\ formatter = [n \in Names |-> "default"] /\ level = [n \in Names |-> "DEBUG"]
        /\ pc = [s \in Setters |-> "idle"] /\ new = [s \in Setters |-> << >>]
        /\ m_val = << >> /\ dropped = {} /\ crashed = FALSE /\ overlapped = FALSE
        /\ todo = [s \in Setters |-> {}] /\ gone = [s \in Setters |-> {}]
        /\ cur = [s \in Setters |-> Root] /\ left = [s \in Setters |-> {}]
    BY <1>2 DEF Init
  <1>5. m_appenders \in [Names -> Seq(Appenders)]
    BY <1>3, <1>4
  <1>6. LogTypes
    BY <1>1, <1>4, <1>5 DEF LogTypes, LoggerTypes, SetterTypes, Levels, Formats, Labels
  <1>7. Places
    BY <1>4 DEF Places, Place, AtLogger
  <1>8. OneByOne /\ Applied /\ AsConfigured
    BY <1>1, <1>4 DEF OneByOne, Applied, AsConfigured
  <1>9. Bounded
    <2>1. \A n \in Names : m_appenders[n] \in {<<ap>>, << >>}
      BY <1>4
    <2>2. Len(<< >>) = 0 /\ 1 <= MostAppenders /\ 0 <= MostAppenders
      OBVIOUS
    <2>3. QED
      BY <1>3, <2>1, <2>2 DEF Bounded
  <1>10. AppenderFormats
    BY <1>3, <1>4 DEF AppenderFormats
  <1>11. QED
    BY <1>6, <1>7, <1>8, <1>9, <1>10 DEF IInv

LEMMA IInvStep == IInv /\ [Next]_vars => IInv'
  <1> SUFFICES ASSUME IInv, [Next]_vars PROVE IInv'
    OBVIOUS
  <1>1. ASSUME UNCHANGED vars
        PROVE  IInv'
    <2>1. UNCHANGED <<m_val, level, formatter, m_appenders, pc, new, todo, gone, cur, left, crashed,
                      dropped, overlapped>>
      BY <1>1 DEF vars, loggerVars, historyVars
    <2>2. \A n, d : (Agrees(n, d) => Agrees(n, d)') /\ (Silent(n) => Silent(n)')
      BY <2>1, Untouched
    <2>3. LogTypes' /\ Places' /\ OneByOne' /\ Bounded' /\ AppenderFormats'
      BY <2>1 DEF IInv, LogTypes, LoggerTypes, SetterTypes, Places, Place, Positions, Added,
                  OneByOne, Bounded, AppenderFormats
    <2>4. AsConfigured'
      BY <2>1, <2>2 DEF IInv, AsConfigured
    <2>5. \A s : Halfway(s) => Halfway(s)'
      BY <2>1 DEF Halfway, Positions, Added
    <2>6. Applied'
      BY <2>1, <2>2, <2>5 DEF IInv, Applied, Applies
    <2>7. QED
      BY <2>3, <2>4, <2>6 DEF IInv
  <1>2. ASSUME Next
        PROVE  IInv'
    <2>1. PICK s \in Setters : ~crashed /\ (setValue(s) \/ Listener(s) \/ Stores(s))
      BY <1>2 DEF Next
    <2>2. CASE Listener(s)
      BY <2>1, <2>2, NextLoggerKeeps, SetsFormatterKeeps, ClearsKeeps, AddsKeeps, LoggerDoneKeeps,
         DeletesLoggerKeeps, RemovesAppendersKeeps, ListenerReturnsKeeps DEF Listener
    <2>3. QED
      BY <2>1, <2>2, setValueKeeps, StoresKeeps
  <1>3. QED
    BY <1>1, <1>2

LEMMA IInvAlways == Spec => []IInv
  BY IInvInit, IInvStep, PTL DEF Spec

\* The types, and that loading one document after the other never leaves a
\* logger with more appenders than one of them gives it (log.cc:720-721).
THEOREM LogTypeOKAlways == Spec => []LogTypeOK
  <1>1. IInv => LogTypeOK
    BY ConfigsType DEF IInv, LogTypes, LoggerTypes, SetterTypes, Bounded, LogTypeOK, Formats
  <1>2. QED
    BY IInvAlways, <1>1, PTL

\* When nobody is in setValue() the loggers are as the stored value says, and
\* those it does not name any more are silent (log.cc:695-753, config.h:387-399).
THEOREM AsConfiguredAlways == Spec => []AsConfigured
  <1>1. IInv => AsConfigured
    BY DEF IInv
  <1>2. QED
    BY IInvAlways, <1>1, PTL

\* However setters interleave, an appender without a formatter of its own
\* prints in the present one of its logger (Logger::setFormatter(), addAppender()).
THEOREM AppenderFormatsAlways == Spec => []AppenderFormats
  <1>1. IInv => AppenderFormats
    BY DEF IInv
  <1>2. QED
    BY IInvAlways, <1>1, PTL
=============================================================================
