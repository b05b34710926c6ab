--------------------------------- MODULE Errors ---------------------------------
(***************************************************************************)
(* errors.c: the lines that are shown above a message, and where the token *)
(* is marked below them.  The printer does not keep the text of a line: it *)
(* tokenizes the line again and puts the tokens apart by their columns.    *)
(* Colours and wording are left out.                                       *)
(***************************************************************************)
EXTENDS Tokenizer

\* The tokenizer at work on another text.
On(t) == INSTANCE Tokenizer WITH text <- t

\* tokenizeLine, from the start of a text.
tokenizeLine(t) ==
  LET from[i \in 1 .. Len(t) + 1] ==
        IF On(t)!At(i) \in {"\n", NUL} THEN <<>>
        ELSE LET s == On(t)!tokenizeSymbol(i)
             IN <<[sym |-> s.sym, from |-> i, to |-> s.next - 1]>> \o from[On(t)!Spaces(s.next)]
  IN from[On(t)!Spaces(1)]

\* "%.*s" of SPACES_256 and of INDICATE_TOKEN_256.
Least(a, b) == IF a < b THEN a ELSE b
Fill(n, c)  == FoldLeft(LAMBDA s, i : s \o c, "", [i \in 1 .. Least(n, 256) |-> i])

Shown(s, column) == [text |-> s, column |-> column]

\* Mutant: the length of the last token is not taken off.
ShowUncounted(t, shown, k) ==
  Shown(shown.text \o Fill(k.from - 1 - shown.column, " ") \o SubSeq(t, k.from, k.to), k.from - 1)
\* Each token is put as far from the end of the last one as it is in the line.
Show(t, shown, k) ==
  Shown(shown.text \o Fill(k.from - 1 - shown.column, " ") \o SubSeq(t, k.from, k.to), k.to)

printHighlightedLine(t) ==
  FoldLeft(LAMBDA shown, k : Show(t, shown, k), Shown("", 0), tokenizeLine(t)).text

\* The first of the lines with that number, or NULL.
findTokenLineWithLineNr(nr) == SelectInSeq(lines, LAMBDA l : l.line_nr = nr)

LineText(l) == SubSeq(text, l.from, l.to)

\* The n lines up to nr.  A line without tokens is shown empty.  The number of
\* the first is a size_t: below 0 it is beyond nr, and nothing is shown.
printNumberedHighlightedLines(nr, n) ==
  IF nr < n - 1 THEN <<>>
  ELSE [j \in 1 .. n |->
         LET i == findTokenLineWithLineNr(nr - n + j)
         IN <<nr - n + j, printHighlightedLine(IF i = 0 THEN "" ELSE LineText(lines[i]))>>]

\* Mutant: the column is that of the text, not of the line.
alignFromStart(l, t) == Fill(t.from - 1, " ") \o Fill(t.to - t.from + 1, "^")
\* The marks under the last line, from its column on: char_nr and substr.len.
alignErrorHelpMsg(l, t) == Fill(t.from - l.from, " ") \o Fill(t.to - t.from + 1, "^")

-----------------------------------------------------------------------------
\* Where newlines begin and end the lines that an editor shows.
EditorLine(nr) ==
  LET starts == {1} \cup {i + 1 : i \in {j \in 1 .. Len(text) : At(j) = "\n"}}
      first  == CHOOSE s \in starts : Cardinality({r \in starts : r <= s}) = nr
  IN IF nr \in 1 .. Cardinality(starts) THEN SubSeq(text, first, Until(first, {"\n"}) - 1) ELSE ""

\* Without the spaces at its end.
Trimmed(s) == SubSeq(s, 1, Max({0} \cup {i \in 1 .. Len(s) : SubSeq(s, i, i) # " "}))

Simple == \A t \in ToSet(AllTokens) : Newlines(t.from, t.to) = 0

\* An error is shown below its line as an editor shows it, and below the two lines
\* before, up to the spaces at their ends, but for an error on
\* the first line, where nothing is shown.  Tokens that contain a newline are left
\* out.
ErrorsShowTheLine ==
  phase = "done" /\ Simple =>
    \A i \in DOMAIN lines :
      LET nr == lines[i].line_nr
          shown == printNumberedHighlightedLines(nr, 3)
      IN nr > 1 => /\ Len(shown) = 3
                   /\ \A j \in 1 .. 3 : /\ shown[j][1] = nr - 3 + j
                                        /\ Trimmed(shown[j][2]) = Trimmed(EditorLine(nr - 3 + j))

\* The marks are under the token, in the line as it is shown.
TokenIsMarked ==
  phase = "done" /\ Simple =>
    \A i \in DOMAIN lines :
      LET shown == printHighlightedLine(LineText(lines[i]))
      IN \A t \in ToSet(lines[i].tokens) :
           LET marks == alignErrorHelpMsg(lines[i], t)
               first == Min({c \in 1 .. Len(marks) : SubSeq(marks, c, c) = "^"})
           IN Len(marks) <= Len(shown) /\ SubSeq(shown, first, Len(marks)) = TextOf(t)

\* A message is where the user looks for it: below the right lines, its marks under
\* the text it is about.
MessagesMatchText == ErrorsShowTheLine /\ TokenIsMarked
=============================================================================
