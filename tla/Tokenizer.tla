------------------------------- MODULE Tokenizer -------------------------------
(***************************************************************************)
(* tokenizer.c: from the text of a program to lines of tokens, one call of *)
(* tokenizeSymbol a step.  A text is a TLA+ string, and a token is its     *)
(* symbol with the places of its first and last characters (the substr of  *)
(* the code, a slice of the text).  Symbols have the names they have in    *)
(* Assembler, but the four notations of a number are kept apart here.      *)
(*                                                                         *)
(* The text has no NUL, and no byte above 127.                             *)
(***************************************************************************)
EXTENDS Integers, FiniteSetsExt, SequencesExt

CONSTANT Texts   (* The texts of programs. *)

VARIABLES
  text,      (* The program.                                               *)
  ptr,       (* The iterator: the place of the next character.             *)
  line_nr,   (* lineNr of tokenizeProgram.                                 *)
  tokens,    (* The tokens of the line being read.                         *)
  start,     (* Where that line starts.                                    *)
  lines,     (* The lines that had tokens.                                 *)
  phase      (* "program" in the loop of tokenizeProgram, "line" in that   *)
             (* of tokenizeLine, "done".                                   *)

vars == <<text, ptr, line_nr, tokens, start, lines, phase>>

-----------------------------------------------------------------------------
\* str_iter_peek: the character at i, 0 after the last.
NUL == ""
At(i) == IF i <= Len(text) THEN SubSeq(text, i, i) ELSE NUL

\* Mutant: the iterator does not stop at the end.
NextUnbounded(i) == i + 1
\* str_iter_next stops one after the last character.
Next1(i) == IF i <= Len(text) THEN i + 1 ELSE i

\* The first place from i on whose character is not in S.
Skip(i, S) == CHOOSE j \in i .. Len(text) + 1 : /\ At(j) \notin S
                                                /\ \A k \in i .. j - 1 : At(k) \in S
\* The first place from i on whose character is in S, or the end.
Until(i, S) == CHOOSE j \in i .. Len(text) + 1 : /\ At(j) \in S \cup {NUL}
                                                 /\ \A k \in i .. j - 1 : At(k) \notin S

Digit     == {"0", "1", "2", "3", "4", "5", "6", "7", "8", "9"}
HexDigit  == Digit \cup {"a", "b", "c", "d", "e", "f", "A", "B", "C", "D", "E", "F"}
Lower     == {"a", "b", "c", "d", "e", "f", "g", "h", "i", "j", "k", "l", "m", "n", "o", "p",
              "q", "r", "s", "t", "u", "v", "w", "x", "y", "z"}
Upper     == {"A", "B", "C", "D", "E", "F", "G", "H", "I", "J", "K", "L", "M", "N", "O", "P",
              "Q", "R", "S", "T", "U", "V", "W", "X", "Y", "Z"}
AlphaNum  == Digit \cup Lower \cup Upper
LabelChar == AlphaNum \cup {"_"}

\* istokdelim
Delimiter == {" ", NUL, "\t", "\n"}

Punctuation == {"(", ")", "+", "-", "=", "[", "]", "{", "}", ","}

\* Names of registers that need no delimiter after them.
Registers == {"R0", "R1", "H", "L", "HL", "BP", "PC", "SP"}
Keywords == Registers \cup
  {"ACC", "ADC", "ADD", "ADDW", "AND", "CALL", "CMP", "DEC", "DI", "DIVW", "DT", "EI",
   "ENTER", "ET", "FLAGS", "HALT", "INC", "JC", "JEXT", "JNC", "JNS", "JNZ", "JMP", "JS",
   "JZ", "LEAVE", "LOAD", "MAX", "MIN", "MULW", "NEG", "NOOP", "NOT", "OR", "POP", "PUSH",
   "RESET", "RET", "ROL", "ROR", "SBC", "SHL", "SHR", "STORE", "SUB", "SUBW", "XCH", "XOR"}
\* The nodes of the trie, and those that have a branch.
Nodes  == UNION {{SubSeq(k, 1, n) : n \in 1 .. Len(k)} : k \in Keywords}
Inner  == {SubSeq(w, 1, Len(w) - 1) : w \in Nodes}

\* A string is the sequence of its characters, each of them a string of length one.
\* TLA+ says so of all strings; the provers have to be told.
IsString(s) ==
  /\ s \in STRING /\ Len(s) \in Nat
  /\ \A a, b \in 1 .. Len(s) : a <= b =>
       /\ Len(SubSeq(s, a, b)) = b - a + 1 /\ SubSeq(s, a, b) # ""
       /\ \A c, d \in 1 .. b - a + 1 : c <= d =>
            SubSeq(SubSeq(s, a, b), c, d) = SubSeq(s, a + c - 1, a + d - 1)

ASSUME TextsAssumption    == \A s \in Texts : IsString(s)
\* ... and has to be told how the keywords are spelled: in capitals, R0 and R1 with a digit.
ASSUME KeywordsAssumption ==
  \A k \in Keywords : /\ IsString(k) /\ Len(k) > 0
                       /\ SubSeq(k, 1, 1) \in Upper
                       /\ \A i \in 1 .. Len(k) : SubSeq(k, i, i) \in Upper \cup {"0", "1"}

-----------------------------------------------------------------------------
\* What tokenizeSymbol returns, and where it leaves the iterator.
Symbol(sym, next) == [sym |-> sym, next |-> next]

\* unknown: the letters and digits that follow are dropped too.
unknown(i) == Symbol("unknown", Skip(i, AlphaNum))

\* Mutant: a word is read up to the first keyword, ADD of ADDW.
KeywordShortest(i) ==
  LET Word(m) == SubSeq(text, i, i + m - 1)
      n == CHOOSE m \in 1 .. Len(text) + 1 - i :
             /\ \A j \in 1 .. m - 1 : Word(j) \notin Keywords
             /\ Word(m) \in Nodes
             /\ Word(m) \in Keywords \/ i + m > Len(text) \/ Word(m + 1) \notin Nodes
      e == i + n
  IN IF Word(n) \in Keywords /\ (Word(n) \in Registers \/ At(e) \in Delimiter)
     THEN Symbol(Word(n), e) ELSE unknown(e)

(***************************************************************************)
(* The nested switches on capital letters, a trie.  The word read is the   *)
(* longest path of it.  Only a register may be followed by anything.  At a *)
(* node with a branch, the character that takes none is read as well (the  *)
(* next of the innermost switch), whatever it is; H and L give it back.    *)
(***************************************************************************)
Keyword(i) ==
  LET Word(m) == SubSeq(text, i, i + m - 1)
      n == CHOOSE m \in 1 .. Len(text) + 1 - i :
             /\ Word(m) \in Nodes
             /\ i + m <= Len(text) => Word(m + 1) \notin Nodes
      w == Word(n)
      e == i + n
      accepted == \/ w \in Registers
                  \/ w = "HALT" /\ At(e) \notin AlphaNum
                  \/ w \in Keywords /\ At(e) \in Delimiter
  IN CASE accepted                  -> Symbol(w, e)
       [] ~accepted /\ w \in Inner  -> unknown(Next1(e))
       [] OTHER                     -> unknown(e)

Notation(c) == CASE c \in {"b", "B"} -> "binary"
                 [] c \in {"o", "O"} -> "octal"
                 [] c \in {"x", "X"} -> "hexadecimal"
                 [] OTHER            -> "integer"
Numbers == {"binary", "octal", "hexadecimal", "integer"}

\* A digit, the letter of a notation or none, digits of any notation.
Number(i) ==
  LET notation == Notation(At(i + 1))
      digits   == IF notation = "integer" THEN i + 1 ELSE i + 2
  IN Symbol(notation, Skip(digits, HexDigit))

\* Mutant: the colon is left for the next token.
LabelKeepsColon(i) ==
  LET e == Skip(i, LabelChar)
  IN CASE At(e) = ":" -> Symbol("def", e)
       [] At(e) = "[" -> Symbol("idx", e)
       [] OTHER       -> unknown(e)

\* Mutant: the bracket of an index is read with the label.
LabelTakesBracket(i) ==
  LET e == Skip(i, LabelChar)
  IN CASE At(e) = ":" -> Symbol("def", e + 1)
       [] At(e) = "[" -> Symbol("idx", e + 1)
       [] OTHER       -> unknown(e)

\* A label is defined before a colon, indexed before a bracket (which stays).
Label(i) ==
  LET e == Skip(i, LabelChar)
  IN CASE At(e) = ":" -> Symbol("def", e + 1)
       [] At(e) = "[" -> Symbol("idx", e)
       [] OTHER       -> unknown(e)

tokenizeSymbol(i) ==
  CASE At(i) \in Punctuation        -> Symbol(At(i), i + 1)
    [] At(i) = "\""                 -> Symbol("bytes", Next1(Until(i + 1, {"\""})))
    [] At(i) = ";"                  -> Symbol("comment", Until(i + 1, {"\n"}))
    [] At(i) = "."                  -> Symbol("ref", Skip(i + 1, LabelChar))
    [] At(i) \in Nodes              -> Keyword(i)
    [] At(i) \in Digit              -> Number(i)
    [] At(i) \in Lower \cup {"_"}   -> Label(i)
    [] OTHER                        -> unknown(i + 1)

-----------------------------------------------------------------------------
Init == /\ text \in Texts
        /\ ptr = 1 /\ line_nr = 1 /\ start = 1
        /\ tokens = <<>> /\ lines = <<>>
        /\ phase = "program"

\* Mutant: commas separate tokens like spaces.
SpacesAndCommas(i) == Skip(i, {" ", ","})
\* str_iter_skip_space
Spaces(i) == Skip(i, {" "})

\* Mutant: the newline of an empty line is not skipped.
BlankLineStuck == /\ phase = "program" /\ At(ptr) # NUL
                  /\ At(Spaces(ptr)) \in {"\n", NUL}
                  /\ ptr' = Spaces(ptr)
                  /\ line_nr' = line_nr + 1
                  /\ UNCHANGED <<text, tokens, start, lines, phase>>
\* Mutant: empty lines are not counted.
BlankLineUncounted == /\ phase = "program" /\ At(ptr) # NUL
                      /\ At(Spaces(ptr)) \in {"\n", NUL}
                      /\ ptr' = Next1(Spaces(ptr))
                      /\ UNCHANGED <<text, line_nr, tokens, start, lines, phase>>
\* tokenizeLine is called, at a line of spaces: no line comes of it.
BlankLine == /\ phase = "program" /\ At(ptr) # NUL
             /\ At(Spaces(ptr)) \in {"\n", NUL}
             /\ ptr' = Next1(Spaces(ptr))
             /\ line_nr' = line_nr + 1
             /\ UNCHANGED <<text, tokens, start, lines, phase>>

\* tokenizeLine is called, at any other line.
StartLine == /\ phase = "program" /\ At(ptr) # NUL
             /\ At(Spaces(ptr)) \notin {"\n", NUL}
             /\ start' = ptr /\ ptr' = Spaces(ptr)
             /\ phase' = "line"
             /\ UNCHANGED <<text, line_nr, tokens, lines>>

\* One turn of its loop: a token, and the spaces after it.
NextToken == /\ phase = "line" /\ At(ptr) \notin {"\n", NUL}
             /\ LET s == tokenizeSymbol(ptr)
                IN /\ tokens' = Append(tokens, [sym |-> s.sym, from |-> ptr, to |-> s.next - 1])
                   /\ ptr' = Spaces(s.next)
             /\ UNCHANGED <<text, line_nr, start, lines, phase>>

TheLine == [tokens |-> tokens, line_nr |-> line_nr, from |-> start, to |-> ptr - 1]

\* The line ends before a newline, which is skipped, or at the end of the text.
EndLine == /\ phase = "line" /\ At(ptr) \in {"\n", NUL}
           /\ lines' = Append(lines, TheLine)
           /\ tokens' = <<>>
           /\ ptr' = Next1(ptr)
           /\ line_nr' = line_nr + 1
           /\ phase' = "program"
           /\ UNCHANGED <<text, start>>

EndProgram == /\ phase = "program" /\ At(ptr) = NUL
              /\ phase' = "done"
              /\ UNCHANGED <<text, ptr, line_nr, tokens, start, lines>>

Done == phase = "done" /\ UNCHANGED vars

Next == BlankLine \/ StartLine \/ NextToken \/ EndLine \/ EndProgram \/ Done

Spec == Init /\ [][Next]_vars

-----------------------------------------------------------------------------
(***************************************************************************)
(* parse_immediate: strtol reads the text from the token's start, or from  *)
(* two characters after it, in the base of the notation.  It does not know *)
(* where the token ends.  Values are modulo 2^16, which is all that the    *)
(* assembler keeps; numbers beyond a long and vertical tabs are left out.  *)
(***************************************************************************)
White == {" ", "\t", "\n", "\r", "\f"}
DigitsTo(base) == {v \in 0 .. 15 : v < base}
DigitChar(v)   == {SubSeq("0123456789abcdef", v + 1, v + 1), SubSeq("0123456789ABCDEF", v + 1, v + 1)}
DigitValue(c)  == CHOOSE v \in 0 .. 15 : c \in DigitChar(v)

strtol(i, base) ==
  LET s == Skip(i, White)
      d == IF At(s) \in {"+", "-"} THEN s + 1 ELSE s
      f == IF base = 16 /\ At(d) = "0" /\ At(d + 1) \in {"x", "X"} /\ At(d + 2) \in HexDigit
           THEN d + 2 ELSE d
      n == Skip(f, UNION {DigitChar(v) : v \in DigitsTo(base)}) - f
      value[m \in 0 .. n] ==
        IF m = 0 THEN 0 ELSE (base * value[m - 1] + DigitValue(At(f + m - 1))) % 2 ^ 16
  IN IF At(s) = "-" THEN (-value[n]) % 2 ^ 16 ELSE value[n]

Base(notation) == CASE notation = "binary"      -> 2
                    [] notation = "octal"       -> 8
                    [] notation = "integer"     -> 10
                    [] notation = "hexadecimal" -> 16

\* Mutant: the letter of the notation is left to strtol.
parse_immediate_whole(token) == strtol(token.from, Base(token.sym))
parse_immediate(token) ==
  strtol(IF token.sym = "integer" THEN token.from ELSE token.from + 2, Base(token.sym))

-----------------------------------------------------------------------------
AllTokens == FlattenSeq([i \in DOMAIN lines |-> lines[i].tokens]) \o tokens
TextOf(t) == SubSeq(text, t.from, t.to)
Newlines(from, to) == Cardinality({i \in from .. to : At(i) = "\n"})

Symbols == Keywords \cup Punctuation \cup Numbers
             \cup {"bytes", "comment", "def", "idx", "ref", "unknown"}
Place   == 1 .. Len(text) + 1
Token   == [sym : Symbols, from : Place, to : Place]

\* The iterator stays in the text, and on a line of its own in each phase.
TypeOK == /\ text \in STRING /\ ptr \in Place /\ start \in Place
          /\ line_nr \in 1 .. Len(text) + 1
          /\ phase \in {"program", "line", "done"}
          /\ \A i \in DOMAIN AllTokens : AllTokens[i] \in Token
          /\ \A i \in DOMAIN lines : lines[i].line_nr \in 1 .. line_nr - 1
          /\ phase # "line" => tokens = <<>>

\* The tokens come in the order of the text and never overlap, and nothing that
\* has been read is left out of them but spaces and newlines: an error is
\* reported at the place where it is, and no character is silently lost.
TextIsTiled ==
  /\ \A i \in DOMAIN AllTokens : AllTokens[i].from <= AllTokens[i].to
  /\ \A i \in 1 .. Len(AllTokens) - 1 : AllTokens[i].to < AllTokens[i + 1].from
  /\ \A i \in 1 .. ptr - 1 : \/ At(i) \in {" ", "\n"}
                             \/ \E t \in ToSet(AllTokens) : i \in t.from .. t.to

\* A keyword before a delimiter is found, whatever others begin like it, and the
\* text of a keyword's token is that keyword.
KeywordsFound ==
  \A t \in ToSet(AllTokens) :
    /\ t.sym \in Keywords => TextOf(t) = t.sym
    /\ \A k \in Keywords : LET e == t.from + Len(k) - 1
                           IN e <= Len(text) /\ SubSeq(text, t.from, e) = k
                                /\ At(e + 1) \in Delimiter => t.sym = k

\* The lines are those an editor shows (the comment of tokenizeProgram), and are
\* numbered like them, but for the newlines that tokens contain: those of quoted
\* bytes, and the one after a word that a keyword begins with.
LinesAreEditorLines ==
  /\ \A i \in DOMAIN lines :
       LET before == {t \in ToSet(AllTokens) : t.to < lines[i].from}
       IN lines[i].line_nr = 1 + Newlines(1, lines[i].from - 1)
                               - MapThenSumSet(LAMBDA t : Newlines(t.from, t.to), before)
  /\ \A t \in ToSet(AllTokens) :
       Newlines(t.from, t.to) > 0 =>
         \/ t.sym = "bytes"
         \/ /\ t.sym = "unknown"
            /\ SubSeq(text, t.from, Until(t.from, {"\n"}) - 1) \in Inner \ Registers

\* What the assembler relies on: "lines contain at least one token"
\* (assembler.c:98), an indexed label has its bracket next, and a comment, where
\* an instruction may end, is the last token of its line.
SuitsAssembler ==
  \A i \in DOMAIN lines :
    LET ts == lines[i].tokens
    IN /\ ts # <<>>
       /\ \A j \in DOMAIN ts :
            /\ ts[j].sym = "idx" => j < Len(ts) /\ ts[j + 1].sym = "["
            /\ ts[j].sym = "comment" => j = Len(ts)

\* The immediates of grammar.ebnf: a notation and digits of its base.
IsImmediate(t) ==
  LET first == IF t.sym = "integer" THEN t.from ELSE t.from + 2
  IN /\ t.sym \in Numbers /\ first <= t.to
     /\ t.sym # "integer" => At(t.from) = "0"
     /\ \A i \in first .. t.to : \E v \in DigitsTo(Base(t.sym)) : At(i) \in DigitChar(v)

NumberWritten(t) ==
  LET first == IF t.sym = "integer" THEN t.from ELSE t.from + 2
  IN MapThenSumSet(LAMBDA i : DigitValue(At(i)) * Base(t.sym) ^ (t.to - i), first .. t.to) % 2 ^ 16

\* TLC's integers bound the numbers that are compared.
MaxDigits == 6

\* An immediate of the grammar has the value it writes, although strtol may read
\* past its token.  It does so for 0x0 before another x: 0x0x1F is read as 0x1F.
ImmediatesRead ==
  \A t \in ToSet(AllTokens) :
    IsImmediate(t) /\ t.to - t.from < MaxDigits =>
                      \/ parse_immediate(t) = NumberWritten(t)
                      \/ TextOf(t) \in {"0x0", "0X0"} /\ At(t.to + 1) \in {"x", "X"}

\* What is left to do.  Every call of tokenizeLine or tokenizeSymbol lessens it,
\* so that no text keeps the tokenizer for ever.
Work == 3 * (Len(text) + 1 - ptr) +
          (CASE phase = "line" /\ tokens # <<>> -> 3
             [] phase = "program"               -> 2
             [] phase = "line" /\ tokens = <<>> -> 1
             [] OTHER                           -> 0)
EveryStepAdvances == [][Work' < Work]_vars
=============================================================================
