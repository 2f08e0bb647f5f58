----------------------------- MODULE Genconfig -----------------------------
(***************************************************************************)
(* The template processor of tools/genconfig (genconfig.c): main reads a   *)
(* template piece by piece into one buffer, do_replace_variable replaces   *)
(* the references and do_replace_cmakedef the directives.                  *)
(*                                                                         *)
(* A text is a sequence of cells, one per character; only the keyword of a *)
(* directive and a few words of the output are one cell each.  The buffer  *)
(* is indexed from 0, like the offsets in the code.                        *)
(***************************************************************************)
EXTENDS Integers, Sequences, FiniteSetsExt

CONSTANTS
  Patterns,  \* the notations, variable_pat
  Open,      \* Open[p]: the characters in front of the name
  Close,     \* Close[p]: the character behind the name
  Args,      \* the command line: the value of each name that has one
  Lines,     \* the lines of the template
  BufSize,   \* MAX_LINE_LENGTH
  MaxLines

NL == "newline"
Blanks == {"blank", NL}     \* [[:space:]]
NUL == "nul"
Garbage == "?"              \* an uninitialized byte
Crash == <<"crash">>        \* undefined: memcpy was called with a negative length,
                            \* or regexec reads behind the buffer

IsGraph(c) == c \notin Blanks \cup {NUL}  \* [[:graph:]]

ASSUME GenconfigAssumption ==
  /\ IsFiniteSet(Patterns)
  /\ BufSize \in Nat /\ BufSize > 1
  /\ \A p \in Patterns : Len(Open[p]) \in Nat \ {0}

(* Neither a line nor a value holds the mark of a crash, and a value is a  *)
(* C string, without NUL.                                                  *)
ASSUME TextAssumption ==
  /\ \A l \in Lines : l \in Seq(Range(l) \ {Crash[1]})
  /\ \A v \in DOMAIN Args : Args[v] \in Seq(Range(Args[v]) \ {NUL, Crash[1]})

VARIABLES
  input,         \* what is left of the line that fgets is reading
  buffer,        \* line_array
  output,        \* the string of the last fputs
  room, filled,  \* bytes allocated for new_line, and written to it
  def_room, def_filled,  \* the same for new_new_line
  lines

templateVars == <<input, buffer, output, room, filled, def_room, def_filled, lines>>

TemplateInit ==
  /\ input = << >> /\ output = << >>
  /\ buffer = [i \in 0 .. BufSize - 1 |-> IF i = 0 THEN NUL ELSE Garbage]
  /\ room = 1 /\ filled = 1 /\ def_room = 1 /\ def_filled = 1 /\ lines = 0

-----------------------------------------------------------------------------
(* The string at offset o of buffer b ends in front of its first NUL, or   *)
(* with the buffer.                                                        *)
End(b, o) ==
  CHOOSE e \in o .. BufSize :
    (e = BufSize \/ b[e] = NUL) /\ \A i \in o .. e - 1 : b[i] # NUL

Text(b, from, to) == [i \in 1 .. to - from |-> b[from + i - 1]]

(* The regular expression of notation p matches the text from s up to e,   *)
(* of which Spans takes those that end with the closing character: the     *)
(* name is one or more graphic characters, among them perhaps more of      *)
(* those that open and close references.                                   *)
Reads(b, p, s, e) ==
  /\ s + Len(Open[p]) + 1 < e
  /\ \A i \in 1 .. Len(Open[p]) : b[s + i - 1] = Open[p][i]
  /\ \A i \in s .. e - 1 : IsGraph(b[i])

Spans(b, o, p) ==
  LET begins == {s \in o .. End(b, o) - 1 : b[s] = Open[p][1]}
      ends == {e \in o + 1 .. End(b, o) : b[e - 1] = Close[p]}
  IN  {x \in begins \X ends : Reads(b, p, x[1], x[2])}

(* regexec takes the leftmost match and makes it as long as it can: up to  *)
(* the last character of the run of graphic characters that closes a name, *)
(* whichever reference it belongs to.                                      *)
Leftmost(S) == Min({x[1] : x \in S})
Longest(S, s) == Max({x[2] : x \in {y \in S : y[1] = s}})

(* dictionary_get *)
get_value(name) == IF name \in DOMAIN Args THEN <<Args[name]>> ELSE << >>

(* Where the next search begins: rm_eo, to which the offset of this search *)
(* has been added, is added to that offset.                                *)
NextSearch(o, e) == o + e

(* A copy of the string at from, of which the code uses len bytes even     *)
(* when the string is shorter                                              *)
strndup(b, from, len) ==
  [i \in 1 .. len |->
     IF from + i - 1 < BufSize /\ \A j \in from .. from + i - 2 : b[j] # NUL
       THEN b[from + i - 1] ELSE Garbage]

(* The match of the search from offset o.  s and e are absolute;           *)
(* init_match_data takes the text of the match from tmp_line + rm_so,      *)
(* which counts the offset o twice.  The name is taken from the right      *)
(* place.                                                                  *)
MatchAt(b, o, p) ==
  LET S == Spans(b, o, p)
      s == Leftmost(S)
      e == Longest(S, s)
  IN  [s |-> s, e |-> e, name |-> Text(b, s + Len(Open[p]), e - 1),
       full |-> strndup(b, o + s, e - s)]

(* A search that reads behind the buffer: whatever it finds, the model     *)
(* ends in Crash, since this match begins in front of every other and ends *)
(* behind it.                                                              *)
Astray == [s |-> 0, e |-> BufSize + 1, name |-> << >>, full |-> << >>]

(* The matches of a notation, from each offset on.  A search begins at     *)
(* least twice as far in the buffer as the one before it, so that the 16   *)
(* entries of matches are never filled: 1024 is 2^10.                      *)
Scan(b, p) ==
  LET scan[o \in 0 .. BufSize] ==
        IF End(b, o) = BufSize THEN {Astray}
        ELSE IF Spans(b, o, p) = {} THEN {}
        ELSE LET m == MatchAt(b, o, p)
             IN  {m} \cup (IF NextSearch(o, m.e) <= BufSize
                             THEN scan[NextSearch(o, m.e)] ELSE {Astray})
  IN  scan

MatchesOf(b, p) == Scan(b, p)[0]

(* A seeded fault: the matches are sorted the other way round. *)
SortDown(M) ==
  [i \in 1 .. Cardinality(M) |->
     CHOOSE m \in M :
       Cardinality({x \in M : x.e > m.e \/ (x.e = m.e /\ x.s >= m.s)}) = i]

(* qsort with cmp.  Matches of two notations that end at the same place    *)
(* may come in either order: the first then has a negative length of text  *)
(* behind it, and the model takes the longer one first.                    *)
SortByEnd(M) ==
  [i \in 1 .. Cardinality(M) |->
     CHOOSE m \in M :
       Cardinality({x \in M : x.e < m.e \/ (x.e = m.e /\ x.s <= m.s)}) = i]

Replacement(m) ==
  IF get_value(m.name) = << >> THEN m.full ELSE get_value(m.name)[1]

(* One turn of the loop over the matches q.  The text in front of a match  *)
(* is copied while new_line is empty; the text behind it up to the next    *)
(* match, and behind the last match with its NUL.                          *)
Emit(b, q, new, i) ==
  LET left == IF new = << >> \/ new[1] = NUL THEN Text(b, 0, q[i].s) ELSE << >>
      to == IF i = Len(q) THEN End(b, 0) + 1 ELSE q[i + 1].s
  IN  IF new = Crash \/ to < q[i].e THEN Crash
      ELSE new \o left \o Replacement(q[i]) \o Text(b, q[i].e, to)

Emitted(b, q) ==
  LET new[i \in 0 .. Len(q)] == IF i = 0 THEN << >> ELSE Emit(b, q, new[i - 1], i)
  IN  new

Sorted(b) == SortByEnd(UNION {MatchesOf(b, p) : p \in Patterns})

(* new_line with its NUL *)
do_replace_variable(b) ==
  LET q == Sorted(b)
  IN  IF q = << >> THEN Text(b, 0, End(b, 0) + 1) ELSE Emitted(b, q)[Len(q)]

ValueLen(m) == IF get_value(m.name) = << >> THEN 0 ELSE Len(get_value(m.name)[1])

(* sum_match_data: what the values have more than the matches *)
Grown(q) ==
  LET sum[i \in 0 .. Len(q)] ==
        IF i = 0 THEN 0
        ELSE sum[i - 1] + ValueLen(q[i]) - (q[i].e - q[i].s)
  IN  sum

Growth(b) == LET q == Sorted(b) IN Grown(q)[Len(q)]

(* A seeded fault: the NUL is forgotten when the line does not grow. *)
AllocatedTight(b) == End(b, 0) + Max({Growth(b) + 1, 0})

(* The bytes allocated for new_line, and the bytes written: when there was *)
(* a match, a second NUL follows the one copied with the text.             *)
Allocated(b) == End(b, 0) + 1 + Max({Growth(b), 0})
Written(b) ==
  Len(do_replace_variable(b)) +
    (IF Sorted(b) = << >> THEN 0 ELSE 1)

(* The string in front of the first NUL. *)
CString(s) == IF NUL \in Range(s) THEN SubSeq(s, 1, Min({i \in DOMAIN s : s[i] = NUL}) - 1)
              ELSE s

-----------------------------------------------------------------------------
(* do_replace_cmakedef: the keyword stands at k, the name from a to z, and *)
(* there are only blanks and one # in front of them.                       *)
Directives(s, keyword) ==
  {d \in [k : {i \in DOMAIN s : s[i] = keyword}, a : DOMAIN s, z : DOMAIN s] :
     /\ \E h \in 1 .. d.k - 1 :
          s[h] = "#" /\ \A i \in (1 .. d.k - 1) \ {h} : s[i] \in Blanks
     /\ d.k + 1 < d.a /\ \A i \in d.k + 1 .. d.a - 1 : s[i] \in Blanks
     /\ d.a <= d.z /\ \A i \in d.a .. d.z : IsGraph(s[i])
     /\ d.z < Len(s) => ~ IsGraph(s[d.z + 1])}

(* cmakedef_pat takes anything behind the name, cmakedef01_pat only blanks *)
IsCmakedef(s) == Directives(s, "cmakedefine") # {}
Cmakedefs01(s) ==
  {d \in Directives(s, "cmakedefine01") : \A i \in d.z + 1 .. Len(s) : s[i] \in Blanks}

(* The match, and the name in it *)
DirectiveOf(s) ==
  CHOOSE d \in IF IsCmakedef(s) THEN Directives(s, "cmakedefine") ELSE Cmakedefs01(s) : TRUE
NameIn(s) == SubSeq(s, DirectiveOf(s).a, DirectiveOf(s).z)
HasValue(s) == get_value(NameIn(s)) # << >>

Word(w) == <<w, "blank">>

do_replace_cmakedef(s) ==
  IF IsCmakedef(s)
    THEN IF HasValue(s)
           THEN SubSeq(s, 1, DirectiveOf(s).k - 1) \o <<"define">> \o
                  SubSeq(s, DirectiveOf(s).k + 1, Len(s))
           ELSE <<"comment", "blank", "#">> \o Word("undef") \o NameIn(s) \o
                  <<"blank", "end of comment", NL>>
  ELSE IF Cmakedefs01(s) # {}
    THEN <<"#">> \o Word("define") \o NameIn(s) \o
           <<"blank", IF HasValue(s) THEN "1" ELSE "0">> \o
           SubSeq(s, DirectiveOf(s).z + 1, Len(s))
  ELSE s

(* strlen: a keyword is a cell of 11 or 13 characters. *)
strlen(s) ==
  Len(s) + 10 * Cardinality({i \in DOMAIN s : s[i] = "cmakedefine"})
         + 12 * Cardinality({i \in DOMAIN s : s[i] = "cmakedefine01"})

(* The bytes allocated for new_new_line, and the bytes written.  For       *)
(* "define" that is the line without the 11 characters of the keyword, 6   *)
(* and the NUL.                                                            *)
DefAllocated(s) ==
  IF IsCmakedef(s) THEN IF HasValue(s) THEN strlen(s) - 5 ELSE strlen(NameIn(s)) + 14
  ELSE IF Cmakedefs01(s) # {} THEN strlen(s)
  ELSE strlen(s) + 1
DefWritten(s) ==
  IF IsCmakedef(s)
    THEN IF HasValue(s) THEN strlen(s) - 11 + 6 + 1 ELSE 10 + strlen(NameIn(s)) + 5
  ELSE IF Cmakedefs01(s) # {}
    THEN 8 + 2 + strlen(s) + 1 - strlen(SubSeq(s, 1, DirectiveOf(s).a - 1))
  ELSE strlen(s) + 1

-----------------------------------------------------------------------------
(* The template has another line. *)
NextLine ==
  /\ input = << >> /\ lines < MaxLines
  /\ \E l \in Lines : input' = l
  /\ lines' = lines + 1
  /\ UNCHANGED <<buffer, output, room, filled, def_room, def_filled>>

(* One turn of the loop of main: fgets fills the buffer with at most       *)
(* BufSize - 1 characters and leaves what is behind the NUL.               *)
Filled(l) ==
  LET n == Min({Len(l), BufSize - 1})
  IN  [i \in 0 .. BufSize - 1 |->
         IF i < n THEN l[i + 1] ELSE IF i = n THEN NUL ELSE buffer[i]]

main ==
  /\ input # << >>
  /\ LET b == Filled(input)
         new_line == CString(do_replace_variable(b))
     IN  /\ buffer' = b
         /\ output' = do_replace_cmakedef(new_line)
         /\ room' = Allocated(b) /\ filled' = Written(b)
         /\ def_room' = DefAllocated(new_line) /\ def_filled' = DefWritten(new_line)
         /\ input' = SubSeq(input, End(b, 0) + 1, Len(input))
  /\ UNCHANGED lines

TemplateNext == NextLine \/ main

TemplateSpec == TemplateInit /\ [][TemplateNext]_templateVars

-----------------------------------------------------------------------------
(* What should become of a piece: every reference becomes its value.  A    *)
(* variable without a value keeps its reference, as in the code; that is   *)
(* not what the README says (UndefinedVanish).                             *)

(* Whatever can be read as a reference *)
References(b) ==
  UNION {{[s |-> x[1], e |-> x[2], name |-> Text(b, x[1] + Len(Open[p]), x[2] - 1),
           full |-> Text(b, x[1], x[2])] : x \in Spans(b, 0, p)} : p \in Patterns}

(* What the cell at offset i becomes, and the cells in front of each       *)
(* offset; R are the references.                                           *)
Becomes(b, R, i) ==
  IF \E m \in R : m.s = i
    THEN LET m == CHOOSE m \in R : m.s = i
         IN  IF m.name \in DOMAIN Args THEN Args[m.name] ELSE m.full
  ELSE IF \E m \in R : m.s < i /\ i < m.e THEN << >>
  ELSE <<b[i]>>

Replaced(b) ==
  LET R == References(b)
      text[k \in 0 .. End(b, 0)] ==
        IF k = 0 THEN << >> ELSE text[k - 1] \o Becomes(b, R, k - 1)
  IN  text

Result(b) == Replaced(b)[End(b, 0)]

(* No piece of text can be read as a reference in two ways: there is at    *)
(* most one in each notation, and they do not overlap.  So no more than    *)
(* one } closes the name of a ${v}, and ${A}$ENV{B} is not simple.  And    *)
(* the piece does not begin with two adjacent references of which the      *)
(* first is empty.                                                         *)
Simple(b) ==
  /\ \A p \in Patterns : \A x, y \in Spans(b, 0, p) : x = y
  /\ \A p, r \in Patterns : p # r =>
       \A x \in Spans(b, 0, p), y \in Spans(b, 0, r) : x[2] <= y[1] \/ y[2] <= x[1]
  /\ ~ \E m, n \in References(b) :
         m.s = 0 /\ m.e = n.s /\ m.name \in DOMAIN Args /\ Args[m.name] = << >>

(* A simple piece comes out with every reference to a defined variable     *)
(* replaced by its value and nothing else changed but the directive, in    *)
(* whatever order the notations stand, wherever fgets cut the line, and    *)
(* whatever longer lines have left behind the NUL (do_replace_variable,    *)
(* do_replace_cmakedef).                                                   *)
SimplePiecesRight == Simple(buffer) => output = do_replace_cmakedef(Result(buffer))

(* new_line is not overrun when the result of a simple piece is shorter    *)
(* than the piece.  new_new_line has room for every line but those of a    *)
(* #cmakedefine, which take one byte more than is allocated in either      *)
(* branch (genconfig.c:175-187).                                           *)
LinesFit ==
  Simple(buffer) =>
    LET s == Result(buffer)
    IN  /\ Len(s) < End(buffer, 0) => filled <= room
        /\ def_filled <= def_room + (IF IsCmakedef(s) THEN 1 ELSE 0)

(* "Each variable reference will be replaced with the current value of the *)
(* variable, or the empty string if the variable is not defined"           *)
(* (README.md:136): a piece that begins with its only reference, to a      *)
(* variable without a value, comes out without it.                         *)
UndefinedVanish ==
  \A m \in References(buffer) :
    References(buffer) = {m} /\ m.s = 0 /\ m.name \notin DOMAIN Args
      => output = do_replace_cmakedef(Text(buffer, m.e, End(buffer, 0)))
=============================================================================
