------------------------------ MODULE MCTokenizer ------------------------------
(***************************************************************************)
(* The texts Tokenizer and Errors are checked on: every short text of a    *)
(* few letters, and every sequence of three pieces of the language.        *)
(***************************************************************************)
EXTENDS Errors

CONSTANTS Letters, MaxLetters, Pieces, Ends

StringsOf(S, n) == {FoldSeq(LAMBDA c, s : c \o s, "", w) : w \in [1 .. n -> S]}

MCTexts == UNION {StringsOf(Letters, n) : n \in 0 .. MaxLetters}
             \cup StringsOf(Pieces, 3)
             \cup {k \o e \o "\nR0" : k \in Nodes, e \in Ends}

MCLetters == {"A", "D", "x", "1", " ", "\n", ":", ";", "\""}
MCPieces == {"ADDW", "DI", "HALT", "H", "JN", "ACC", "x", "x:", "x[", ".x", "0x", "0x1F",
             "0b10", "1A", "0o7", "-", ",", " ", "\n", "\t", "\r\n", "\"a;b\"", "\"", ";c"}
MCEnds == {"", " ", ",", "\n", "W", "x", "\t"}

\* A token is recognised for itself: written alone, it is the same token, so that
\* spaces may be put between tokens or left out.  An unknown token may be a
\* keyword alone (ACC before a comma is none), a label is an index by the bracket
\* after it.
TokensStandAlone ==
  \A t \in ToSet(AllTokens) :
    t.sym \notin {"unknown", "idx"} =>
      On(TextOf(t))!tokenizeSymbol(1) = Symbol(t.sym, Len(TextOf(t)) + 1)
=============================================================================
