----------------------------- MODULE TokenizerProofs -----------------------------
(***************************************************************************)
(* Proofs about Tokenizer, for all texts: that the tokens tile the text,   *)
(* that keywords are found, that lines suit the assembler and have the     *)
(* numbers an editor shows, and that every step goes on.  What is assumed  *)
(* is that strings are what TLA+ says they are (TextsAssumption,           *)
(* KeywordsAssumption).                                                    *)
(***************************************************************************)
EXTENDS Tokenizer, Loops, SequenceTheorems

-----------------------------------------------------------------------------
(***************************************************************************)
(* The iterator.                                                           *)
(***************************************************************************)
IsSource == text \in Texts
End      == Len(text) + 1

\* There is a character at every place but the end.
LEMMA Characters ==
  ASSUME IsSource
  PROVE  /\ Len(text) \in Nat /\ End \in Nat \ {0} /\ At(End) = NUL
         /\ Place = 1 .. End
         /\ \A i \in Place : At(i) = NUL <=> i = End
<1>1. IsString(text)
  BY TextsAssumption DEF IsSource
<1>2. Len(text) \in Nat
  BY <1>1 DEF IsString
<1>3. At(End) = NUL
  BY <1>2 DEF At, End
<1>4. ASSUME NEW i \in 1 .. Len(text) PROVE At(i) # NUL
  <2>1. \A a, b \in 1 .. Len(text) : a <= b => SubSeq(text, a, b) # ""
    BY <1>1 DEF IsString
  <2>2. i <= i /\ i <= Len(text)
    BY <1>2
  <2>3. SubSeq(text, i, i) # ""
    BY <2>1, <2>2
  <2>4. QED BY <2>2, <2>3 DEF At, NUL
<1>5. QED BY <1>2, <1>3, <1>4 DEF Place, End

\* The place of a character, and the next.
LEMMA PlaceOfCharacter ==
  ASSUME IsSource, NEW i \in 1 .. Len(text)
  PROVE  i \in Nat /\ i \in Place /\ i + 1 \in Place /\ End \in Nat /\ Place = 1 .. End
BY Characters DEF End

\* Places are numbers.
LEMMA PlaceIsNumber ==
  ASSUME IsSource, NEW p \in Place
  PROVE  p \in Nat /\ p \in Int /\ 1 <= p /\ p <= End /\ End \in Nat
BY Characters

\* The first place where a set of places is reached.
LEMMA FirstPlace ==
  ASSUME NEW i \in Nat, NEW n \in Nat, NEW T, \E j \in i .. n : j \in T
  PROVE  \E j \in i .. n : j \in T /\ \A k \in i .. j - 1 : k \notin T
<1> DEFINE R == {j \in i .. n : j \in T}
<1>1. R \subseteq Nat /\ R # {}
  OBVIOUS
<1>2. PICK j \in R : \A k \in R : j <= k
  <2> HIDE DEF R
  <2>1. QED BY <1>1, LeastNumber
<1>3. j \in i .. n /\ j \in T
  BY <1>2
<1>4. ASSUME NEW k \in i .. j - 1 PROVE k \notin T
  <2>1. k \in i .. n /\ ~(j <= k)
    BY <1>3
  <2>2. QED BY <1>2, <2>1
<1>5. QED BY <1>3, <1>4

\* Characters of a class are skipped, up to the first that is not of it.
LEMMA Skips ==
  ASSUME IsSource, NEW S, NUL \notin S, NEW i \in Place
  PROVE  /\ Skip(i, S) \in i .. End /\ Skip(i, S) \in Place
         /\ At(Skip(i, S)) \notin S
         /\ \A k \in i .. Skip(i, S) - 1 : At(k) \in S
<1> DEFINE T == {j \in i .. End : At(j) \notin S}
           P(j) == At(j) \notin S /\ \A k \in i .. j - 1 : At(k) \in S
<1>1. i \in Nat /\ i \in 1 .. End /\ End \in Nat /\ End \in T
  BY Characters
<1>2. PICK j \in i .. End : j \in T /\ \A k \in i .. j - 1 : k \notin T
  <2> HIDE DEF T
  <2>1. \E j \in i .. End : j \in T
    BY <1>1
  <2>2. QED BY <1>1, <2>1, FirstPlace
<1>3. P(j)
  <2>1. \A k \in i .. j - 1 : k \in i .. End
    BY <1>1
  <2>2. QED BY <1>2, <2>1
<1>4. Skip(i, S) = CHOOSE m \in i .. End : P(m)
  BY DEF Skip, End
<1>5. Skip(i, S) \in i .. End /\ P(Skip(i, S))
  <2> HIDE DEF P
  <2>1. QED BY <1>3, <1>4
<1>6. Skip(i, S) \in Place
  BY <1>1, <1>5, Characters
<1>7. QED BY <1>5, <1>6

\* What is not of a class is skipped, up to the first that is, or the end.
LEMMA Untils ==
  ASSUME IsSource, NEW S, NEW i \in Place
  PROVE  /\ Until(i, S) \in i .. End /\ Until(i, S) \in Place
         /\ At(Until(i, S)) \in S \cup {NUL}
         /\ \A k \in i .. Until(i, S) - 1 : At(k) \notin S
<1> DEFINE T == {j \in i .. End : At(j) \in S \cup {NUL}}
           P(j) == At(j) \in S \cup {NUL} /\ \A k \in i .. j - 1 : At(k) \notin S
<1>1. i \in Nat /\ i \in 1 .. End /\ End \in Nat /\ End \in T
  BY Characters
<1>2. PICK j \in i .. End : j \in T /\ \A k \in i .. j - 1 : k \notin T
  <2> HIDE DEF T
  <2>1. \E j \in i .. End : j \in T
    BY <1>1
  <2>2. QED BY <1>1, <2>1, FirstPlace
<1>3. P(j)
  <2>1. \A k \in i .. j - 1 : k \in i .. End
    BY <1>1
  <2>2. QED BY <1>2, <2>1
<1>4. Until(i, S) = CHOOSE m \in i .. End : P(m)
  BY DEF Until, End
<1>5. Until(i, S) \in i .. End /\ P(Until(i, S))
  <2> HIDE DEF P
  <2>1. QED BY <1>3, <1>4
<1>6. Until(i, S) \in Place
  BY <1>1, <1>5, Characters
<1>7. QED BY <1>5, <1>6

\* The iterator goes on by one, but not beyond the end.
LEMMA NextPlace ==
  ASSUME IsSource, NEW i \in Place
  PROVE  /\ Next1(i) \in Place /\ Next1(i) \in i .. i + 1
         /\ i # End => Next1(i) = i + 1
         /\ i = End => Next1(i) = End
BY Characters DEF Next1, End

\* Every run of spaces ends at a character that is none.
LEMMA SpacesSkipped ==
  ASSUME IsSource, NEW i \in Place
  PROVE  /\ Spaces(i) \in Place /\ Spaces(i) \in i .. End
         /\ At(Spaces(i)) # " "
         /\ \A k \in i .. Spaces(i) - 1 : At(k) = " "
         /\ At(i) # " " => Spaces(i) = i
<1>1. NUL \notin {" "}
  BY DEF NUL
<1>2. /\ Spaces(i) \in i .. End /\ Spaces(i) \in Place
      /\ At(Spaces(i)) \notin {" "}
      /\ \A k \in i .. Spaces(i) - 1 : At(k) \in {" "}
  BY <1>1, Skips DEF Spaces
<1>3. ASSUME At(i) # " ", Spaces(i) # i PROVE FALSE
  <2>1. i \in 1 .. End /\ End \in Nat
    BY Characters
  <2>2. PICK m \in i .. End : m = Spaces(i)
    BY <1>2
  <2>3. m # i
    BY <1>3, <2>2
  <2>4. i \in i .. m - 1
    BY <2>1, <2>3
  <2>5. QED BY <1>2, <1>3, <2>2, <2>4
<1>4. QED BY <1>2, <1>3

-----------------------------------------------------------------------------
(***************************************************************************)
(* One call of tokenizeSymbol, at a character that a token can begin with. *)
(***************************************************************************)
Begins(i) == i \in 1 .. Len(text) /\ At(i) \notin {"\n", NUL}

\* What is returned for the text from i on.
IsSymbol(i, s) ==
  /\ s.sym \in Symbols
  /\ s.next \in Place /\ s.next > i
  /\ s.sym = "idx" => At(s.next) = "["
  /\ s.sym = "comment" => At(s.next) \in {"\n", NUL}
  /\ s.sym \in Keywords => SubSeq(text, i, s.next - 1) = s.sym

\* A symbol that is no keyword, an index or a comment.
LEMMA PlainSymbol ==
  ASSUME IsSource, NEW i \in Place, NEW sym, NEW next \in Place, next > i,
         sym \in Punctuation \cup Numbers \cup {"bytes", "def", "ref", "unknown"}
  PROVE  IsSymbol(i, Symbol(sym, next))
<1>1. sym \in Symbols
  BY DEF Symbols
<1>2. sym \notin Keywords \cup {"idx", "comment"}
  BY DEF Punctuation, Numbers, Keywords, Registers
<1>3. QED BY <1>1, <1>2 DEF IsSymbol, Symbol

\* Errors are tokens too.
LEMMA Unknowns ==
  ASSUME IsSource, NEW i \in Place, NEW j \in Place, j > i
  PROVE  IsSymbol(i, unknown(j))
<1>1. NUL \notin AlphaNum
  BY DEF NUL, AlphaNum, Digit, Lower, Upper
<1>2. Skip(j, AlphaNum) \in Place /\ Skip(j, AlphaNum) \in j .. End
  BY <1>1, Skips
<1>3. Skip(j, AlphaNum) > i
  BY <1>2, Characters
<1>4. QED BY <1>2, <1>3, PlainSymbol DEF unknown

\* The word read at i, m characters long.
WordAt(i, m) == SubSeq(text, i, i + m - 1)
IsLongest(i, m) == /\ WordAt(i, m) \in Nodes
                   /\ i + m <= Len(text) => WordAt(i, m + 1) \notin Nodes
Longest(i) == CHOOSE m \in 1 .. Len(text) + 1 - i : IsLongest(i, m)

\* There is a longest path of the trie at a character that begins one.
LEMMA LongestExists ==
  ASSUME IsSource, NEW i \in 1 .. Len(text), At(i) \in Nodes
  PROVE  Longest(i) \in 1 .. Len(text) + 1 - i /\ IsLongest(i, Longest(i))
<1> DEFINE n == Len(text) + 1 - i
           T == {m \in 1 .. n : i + m <= Len(text) => WordAt(i, m + 1) \notin Nodes}
<1>1. Len(text) \in Nat /\ n \in Nat /\ 1 \in Nat /\ n \in T
  BY Characters
<1>2. PICK m \in 1 .. n : m \in T /\ \A k \in 1 .. m - 1 : k \notin T
  <2> HIDE DEF T, n
  <2>1. 1 <= n
    BY <1>1 DEF n
  <2>2. \E j \in 1 .. n : j \in T
    BY <1>1, <2>1
  <2>3. QED BY <1>1, <2>2, FirstPlace
<1>3. WordAt(i, m) \in Nodes
  <2>1. CASE m = 1
    <3>1. i + 1 - 1 = i
      BY <1>1
    <3>2. QED BY <1>1, <2>1, <3>1 DEF WordAt, At
  <2>2. CASE m # 1
    <3>1. m - 1 \in 1 .. m - 1 /\ m - 1 \in 1 .. n /\ (m - 1) + 1 = m
      BY <1>1, <2>2
    <3>2. QED BY <1>2, <3>1
  <2>3. QED BY <2>1, <2>2
<1>4. IsLongest(i, m)
  BY <1>2, <1>3 DEF IsLongest
<1>5. QED BY <1>4 DEF Longest

\* A word of capitals.
LEMMA KeywordRead ==
  ASSUME IsSource, NEW i \in 1 .. Len(text), At(i) \in Nodes
  PROVE  IsSymbol(i, Keyword(i))
<1> DEFINE n == Longest(i)
           w == WordAt(i, n)
           e == i + n
           accepted == \/ w \in Registers
                       \/ w = "HALT" /\ At(e) \notin AlphaNum
                       \/ w \in Keywords /\ At(e) \in Delimiter
<1>1. Keyword(i) = CASE accepted                  -> Symbol(w, e)
                     [] ~accepted /\ w \in Inner  -> unknown(Next1(e))
                     [] OTHER                     -> unknown(e)
  BY DEF Keyword, Longest, IsLongest, WordAt
<1>2. n \in 1 .. Len(text) + 1 - i
  BY LongestExists
<1>3. e \in Place /\ e > i /\ e - 1 = i + n - 1 /\ i \in Place
  BY <1>2, Characters DEF End
<1>4. CASE accepted
  <2>1. w \in Keywords
    BY <1>4 DEF Keywords
  <2>2. w \in Symbols /\ w \notin {"idx", "comment"}
    <3> HIDE DEF w
    <3>1. QED BY <2>1 DEF Symbols, Keywords, Registers
  <2>3. SubSeq(text, i, e - 1) = w
    BY <1>3 DEF WordAt
  <2>4. Keyword(i) = Symbol(w, e)
    <3> HIDE DEF accepted
    <3>1. QED BY <1>1, <1>4
  <2> HIDE DEF w, e
  <2>5. QED BY <1>3, <2>2, <2>3, <2>4 DEF IsSymbol, Symbol
<1>5. CASE ~accepted
  <2>1. Keyword(i) \in {unknown(Next1(e)), unknown(e)}
    <3> HIDE DEF accepted, w, e
    <3>1. QED BY <1>1, <1>5
  <2>2. Next1(e) \in Place /\ Next1(e) > i
    <3>1. i \in Int /\ e \in Int
      BY <1>2, <1>3, Characters
    <3> HIDE DEF e
    <3>2. Next1(e) \in Place /\ Next1(e) \in e .. e + 1
      BY <1>3, NextPlace
    <3>3. QED BY <1>3, <3>1, <3>2
  <2> HIDE DEF e
  <2>3. QED BY <1>3, <2>1, <2>2, Unknowns
<1>6. QED BY <1>4, <1>5

\* A number.
LEMMA NumberRead ==
  ASSUME IsSource, NEW i \in 1 .. Len(text)
  PROVE  IsSymbol(i, Number(i))
<1> DEFINE notation == Notation(At(i + 1))
           digits   == IF notation = "integer" THEN i + 1 ELSE i + 2
<1>1. notation \in Numbers
  BY DEF Notation, Numbers
<1>2. digits \in Place /\ digits > i /\ i \in Place
  <2>1. i + 1 \in Place /\ i \in Place /\ i \in Nat
    BY Characters DEF End
  <2>2. CASE notation = "integer"
    BY <2>1, <2>2
  <2>3. CASE notation # "integer"
    <3>1. At(i + 1) # NUL
      BY <2>3 DEF Notation, NUL
    <3>2. i + 1 # End /\ Place = 1 .. End /\ End \in Nat
      BY <2>1, <3>1, Characters
    <3>3. QED BY <2>1, <2>3, <3>2
  <2>4. QED BY <2>2, <2>3
<1>3. NUL \notin HexDigit
  BY DEF NUL, HexDigit, Digit
<1> HIDE DEF digits, notation
<1>4. Skip(digits, HexDigit) \in Place /\ Skip(digits, HexDigit) \in digits .. End
  BY <1>2, <1>3, Skips
<1>5. Skip(digits, HexDigit) > i
  BY <1>2, <1>4, Characters
<1>6. Number(i) = Symbol(notation, Skip(digits, HexDigit))
  BY DEF Number, notation, digits
<1>7. QED BY <1>1, <1>2, <1>4, <1>5, <1>6, PlainSymbol

\* A label where it is defined, or the label of an index.
LEMMA LabelRead ==
  ASSUME IsSource, NEW i \in 1 .. Len(text), At(i) \in LabelChar
  PROVE  IsSymbol(i, Label(i))
<1> DEFINE e == Skip(i, LabelChar)
<1>1. NUL \notin LabelChar
  BY DEF NUL, LabelChar, AlphaNum, Digit, Lower, Upper
<1>2. i \in Place /\ i \in Nat /\ End \in Nat /\ Place = 1 .. End
  BY PlaceOfCharacter
<1>3. e \in Place /\ e \in i .. End /\ At(e) \notin LabelChar
  BY <1>1, <1>2, Skips
<1>4. e \in Place /\ e \in i .. End /\ e # i
  BY <1>1, <1>3
<1>5. Label(i) = CASE At(e) = ":" -> Symbol("def", e + 1)
                   [] At(e) = "[" -> Symbol("idx", e)
                   [] OTHER       -> unknown(e)
  BY DEF Label
<1> HIDE DEF e
<1>6. e > i
  BY <1>2, <1>4
<1>7. CASE At(e) = ":"
  <2>1. e # End
    BY <1>3, <1>7, Characters DEF NUL
  <2>2. e + 1 \in Place /\ e + 1 > i
    BY <1>2, <1>4, <1>6, <2>1
  <2>3. Label(i) = Symbol("def", e + 1)
    BY <1>5, <1>7
  <2>4. QED BY <1>2, <2>2, <2>3, PlainSymbol
<1>8. CASE At(e) = "["
  <2>1. "idx" \in Symbols /\ "idx" \notin Keywords
    BY DEF Symbols, Keywords, Registers
  <2>2. Label(i) = Symbol("idx", e)
    BY <1>5, <1>8
  <2>3. QED BY <1>3, <1>6, <1>8, <2>1, <2>2 DEF IsSymbol, Symbol
<1>9. CASE At(e) \notin {":", "["}
  <2>1. Label(i) = unknown(e)
    BY <1>5, <1>9
  <2>2. QED BY <1>2, <1>4, <1>6, <2>1, Unknowns
<1>10. QED BY <1>7, <1>8, <1>9

\* What tokenizeSymbol returns is a symbol, of one character or more.
LEMMA SymbolRead ==
  ASSUME IsSource, NEW i, Begins(i)
  PROVE  IsSymbol(i, tokenizeSymbol(i))
<1>1. i \in 1 .. Len(text) /\ i \in Place /\ i \in Nat /\ i + 1 \in Place /\ i + 1 > i
  BY Characters DEF Begins, End
<1>2. ASSUME NEW j \in i + 1 .. End PROVE j \in Int /\ j > i
  BY <1>1, Characters
<1>3. IsSymbol(i, Symbol("bytes", Next1(Until(i + 1, {"\""}))))
  <2>1. Until(i + 1, {"\""}) \in Place /\ Until(i + 1, {"\""}) \in i + 1 .. End
    BY <1>1, Untils
  <2> DEFINE u == Until(i + 1, {"\""})
  <2> HIDE DEF u
  <2>2. u \in Place /\ u \in i + 1 .. End
    BY <2>1 DEF u
  <2>3. Next1(u) \in Place /\ Next1(u) \in u .. u + 1
    BY <2>2, NextPlace
  <2>4. Next1(u) > i
    BY <1>1, <2>2, <2>3, Characters
  <2>5. IsSymbol(i, Symbol("bytes", Next1(u)))
    BY <1>1, <2>3, <2>4, PlainSymbol
  <2>6. QED BY <2>5 DEF u
<1>4. IsSymbol(i, Symbol("comment", Until(i + 1, {"\n"})))
  <2>1. /\ Until(i + 1, {"\n"}) \in Place /\ Until(i + 1, {"\n"}) \in i + 1 .. End
        /\ At(Until(i + 1, {"\n"})) \in {"\n", NUL}
    BY <1>1, Untils
  <2>2. "comment" \in Symbols /\ "comment" \notin Keywords
    BY DEF Symbols, Keywords, Registers
  <2>3. Until(i + 1, {"\n"}) > i
    BY <1>2, <2>1
  <2>4. QED BY <2>1, <2>2, <2>3 DEF IsSymbol, Symbol
<1>5. IsSymbol(i, Symbol("ref", Skip(i + 1, LabelChar)))
  <2>1. NUL \notin LabelChar
    BY DEF NUL, LabelChar, AlphaNum, Digit, Lower, Upper
  <2>2. Skip(i + 1, LabelChar) \in Place /\ Skip(i + 1, LabelChar) \in i + 1 .. End
    BY <1>1, <2>1, Skips
  <2>3. QED BY <1>1, <1>2, <2>2, PlainSymbol
<1>6. ASSUME At(i) \in Punctuation PROVE IsSymbol(i, Symbol(At(i), i + 1))
  BY <1>1, <1>6, PlainSymbol
<1>7. IsSymbol(i, unknown(i + 1))
  BY <1>1, Unknowns
<1>8. At(i) \in Nodes => IsSymbol(i, Keyword(i))
  BY <1>1, KeywordRead
<1>9. IsSymbol(i, Number(i))
  BY <1>1, NumberRead
<1>10. At(i) \in Lower \cup {"_"} => IsSymbol(i, Label(i))
  <2>1. Lower \cup {"_"} \subseteq LabelChar
    BY DEF LabelChar, AlphaNum
  <2>2. QED BY <1>1, <2>1, LabelRead
<1>11. QED
  <2> HIDE DEF IsSymbol
  <2>1. QED BY <1>3, <1>4, <1>5, <1>6, <1>7, <1>8, <1>9, <1>10 DEF tokenizeSymbol

-----------------------------------------------------------------------------
(***************************************************************************)
(* Keywords before a delimiter.                                            *)
(***************************************************************************)
\* Parts of a text, or of a keyword.
LEMMA Parts ==
  ASSUME NEW s, IsString(s), NEW a \in 1 .. Len(s), NEW b \in 1 .. Len(s), a <= b
  PROVE  /\ Len(s) \in Nat /\ Len(SubSeq(s, a, b)) = b - a + 1
         /\ \A c, d \in 1 .. b - a + 1 : c <= d =>
              SubSeq(SubSeq(s, a, b), c, d) = SubSeq(s, a + c - 1, a + d - 1)
BY DEF IsString

\* Its length.
LEMMA Lengths == ASSUME NEW s, IsString(s) PROVE Len(s) \in Nat
BY DEF IsString

\* The nodes of the trie begin with capitals.
LEMMA NodesBegin ==
  ASSUME IsSource, NEW i \in 1 .. Len(text), At(i) \in Nodes
  PROVE  At(i) \in Upper
<1>1. PICK k \in Keywords : \E n \in 1 .. Len(k) : At(i) = SubSeq(k, 1, n)
  BY DEF Nodes
<1> PICK n \in 1 .. Len(k) : At(i) = SubSeq(k, 1, n)
  BY <1>1
<1>2. IsString(k) /\ IsString(text) /\ SubSeq(k, 1, 1) \in Upper
  BY KeywordsAssumption, TextsAssumption DEF IsSource
<1>3. SubSeq(SubSeq(k, 1, n), 1, 1) = SubSeq(k, 1, 1)
  <2>1. Len(k) \in Nat /\ 1 \in 1 .. Len(k) /\ 1 <= n
    BY <1>2, Lengths
  <2>2. n - 1 + 1 = n /\ 1 \in 1 .. n /\ 1 + 1 - 1 = 1 /\ 1 <= 1
    BY <2>1
  <2>3. \A c, d \in 1 .. n - 1 + 1 : c <= d =>
          SubSeq(SubSeq(k, 1, n), c, d) = SubSeq(k, 1 + c - 1, 1 + d - 1)
    BY <1>2, <2>1, Parts
  <2>4. QED BY <2>2, <2>3
<1>4. SubSeq(SubSeq(text, i, i), 1, 1) = SubSeq(text, i, i)
  <2>1. Len(text) \in Nat /\ i <= i
    BY <1>2, Lengths
  <2>2. i - i + 1 = 1 /\ 1 \in 1 .. 1 /\ i + 1 - 1 = i /\ 1 <= 1
    BY <2>1
  <2>3. \A c, d \in 1 .. i - i + 1 : c <= d =>
          SubSeq(SubSeq(text, i, i), c, d) = SubSeq(text, i + c - 1, i + d - 1)
    BY <1>2, <2>1, Parts
  <2>4. QED BY <2>2, <2>3
<1>5. At(i) = SubSeq(text, i, i)
  BY Characters DEF At
<1>6. QED BY <1>1, <1>2, <1>3, <1>4, <1>5

\* The word read is of capitals, R0 and R1 have a digit.
LEMMA WordOfCapitals ==
  ASSUME IsSource, NEW i \in 1 .. Len(text), NEW n \in 1 .. Len(text) + 1 - i,
         WordAt(i, n) \in Nodes, NEW k \in i .. i + n - 1
  PROVE  At(k) \in Upper \cup {"0", "1"}
<1>1. IsString(text) /\ Len(text) \in Nat
  <2>1. IsString(text)
    BY TextsAssumption DEF IsSource
  <2>2. QED BY <2>1, Lengths
<1>2. i + n - 1 \in 1 .. Len(text) /\ i <= i + n - 1 /\ (i + n - 1) - i + 1 = n
  BY <1>1
<1> DEFINE j == k - i + 1
<1>3. j \in 1 .. n /\ i + j - 1 = k /\ 1 + j - 1 = j /\ j <= j /\ k <= Len(text)
  BY <1>1
<1> HIDE DEF j
<1>4. PICK q \in Keywords : \E m \in 1 .. Len(q) : WordAt(i, n) = SubSeq(q, 1, m)
  BY DEF Nodes
<1>5. PICK m \in 1 .. Len(q) : WordAt(i, n) = SubSeq(q, 1, m)
  BY <1>4
<1>6. IsString(q) /\ Len(q) \in Nat /\ \A d \in 1 .. Len(q) : SubSeq(q, d, d) \in Upper \cup {"0", "1"}
  BY KeywordsAssumption, Lengths
<1>7. 1 \in 1 .. Len(q) /\ 1 <= m /\ m - 1 + 1 = m
  BY <1>6
<1>8. m = n
  <2>1. Len(SubSeq(q, 1, m)) = m - 1 + 1
    BY <1>6, <1>7, Parts
  <2>2. Len(SubSeq(text, i, i + n - 1)) = (i + n - 1) - i + 1
    BY <1>1, <1>2, Parts
  <2>3. Len(WordAt(i, n)) = n
    BY <1>2, <2>2 DEF WordAt
  <2>4. QED BY <1>5, <1>7, <2>1, <2>3
<1>9. SubSeq(SubSeq(text, i, i + n - 1), j, j) = SubSeq(text, k, k)
  <2>1. \A c, d \in 1 .. (i + n - 1) - i + 1 : c <= d =>
          SubSeq(SubSeq(text, i, i + n - 1), c, d) = SubSeq(text, i + c - 1, i + d - 1)
    BY <1>1, <1>2, Parts
  <2>2. QED BY <1>2, <1>3, <2>1
<1>10. SubSeq(SubSeq(q, 1, m), j, j) = SubSeq(q, j, j)
  <2>1. \A c, d \in 1 .. m - 1 + 1 : c <= d =>
          SubSeq(SubSeq(q, 1, m), c, d) = SubSeq(q, 1 + c - 1, 1 + d - 1)
    BY <1>6, <1>7, Parts
  <2>2. QED BY <1>3, <1>7, <1>8, <2>1
<1>11. At(k) = SubSeq(text, k, k)
  BY <1>3 DEF At
<1>12. SubSeq(q, j, j) \in Upper \cup {"0", "1"}
  <2>1. j \in 1 .. Len(q)
    BY <1>3, <1>6, <1>8
  <2>2. QED BY <1>6, <2>1
<1>13. QED BY <1>5, <1>9, <1>10, <1>11, <1>12 DEF WordAt

\* The keyword k is at i, and a delimiter after it.
KeywordAt(i, k) == LET e == i + Len(k) - 1
                   IN e <= Len(text) /\ SubSeq(text, i, e) = k /\ At(e + 1) \in Delimiter

\* Then it is what is read.
LEMMA KeywordIsRead ==
  ASSUME IsSource, NEW i \in 1 .. Len(text), NEW k \in Keywords, KeywordAt(i, k)
  PROVE  tokenizeSymbol(i).sym = k
<1> DEFINE l == Len(k)
           n == Longest(i)
<1>1. IsString(text) /\ IsString(k) /\ Len(text) \in Nat /\ l \in Nat \ {0}
  <2>1. IsString(text) /\ IsString(k) /\ l > 0
    BY KeywordsAssumption, TextsAssumption DEF IsSource
  <2>2. QED BY <2>1, Lengths
<1>2. /\ i + l - 1 \in 1 .. Len(text) /\ i <= i + l - 1 /\ (i + l - 1) - i + 1 = l
      /\ SubSeq(text, i, i + l - 1) = k /\ At(i + l) \in Delimiter
  <2>1. i + l - 1 + 1 = i + l /\ i <= i + l - 1 /\ (i + l - 1) - i + 1 = l
    BY <1>1
  <2>2. i + l - 1 <= Len(text) /\ SubSeq(text, i, i + l - 1) = k /\ At(i + l - 1 + 1) \in Delimiter
    BY DEF KeywordAt
  <2>3. QED BY <1>1, <2>1, <2>2
<1>3. \A c, d \in 1 .. l : c <= d => SubSeq(k, c, d) = SubSeq(text, i + c - 1, i + d - 1)
  <2>1. \A c, d \in 1 .. (i + l - 1) - i + 1 : c <= d =>
          SubSeq(SubSeq(text, i, i + l - 1), c, d) = SubSeq(text, i + c - 1, i + d - 1)
    <3> HIDE DEF l
    <3>1. QED BY <1>1, <1>2, Parts
  <2> HIDE DEF l
  <2>2. QED BY <1>2, <2>1
<1>4. ASSUME NEW j \in 1 .. l PROVE WordAt(i, j) \in Nodes
  <2>1. SubSeq(k, 1, j) \in Nodes
    BY DEF Nodes
  <2>2. 1 \in 1 .. l /\ 1 <= j /\ i + 1 - 1 = i
    BY <1>1
  <2>3. SubSeq(k, 1, j) = SubSeq(text, i, i + j - 1)
    <3> HIDE DEF l
    <3>1. QED BY <1>3, <2>2
  <2>4. QED BY <2>1, <2>3 DEF WordAt
<1>5. At(i) \in Nodes /\ At(i) \in Upper
  <2>1. 1 \in 1 .. l /\ i + 1 - 1 = i
    BY <1>1
  <2>2. WordAt(i, 1) = At(i)
    BY <1>1, <2>1 DEF WordAt, At
  <2> HIDE DEF l
  <2>3. WordAt(i, 1) \in Nodes
    BY <1>4, <2>1
  <2>4. QED BY <2>2, <2>3, NodesBegin
<1>6. tokenizeSymbol(i) = Keyword(i)
  <2>1. At(i) \notin Punctuation /\ At(i) \notin Digit /\ At(i) \notin Lower \cup {"_"}
          /\ At(i) # "\"" /\ At(i) # ";" /\ At(i) # "."
    BY <1>5 DEF Upper, Punctuation, Digit, Lower
  <2>2. QED BY <1>5, <2>1 DEF tokenizeSymbol
<1>7. n \in 1 .. Len(text) + 1 - i /\ IsLongest(i, n)
  BY <1>5, LongestExists
<1> HIDE DEF n, l
<1>8. n \in Nat /\ n >= 1 /\ i + n - 1 \in 1 .. Len(text) /\ i <= i + n - 1 /\ (i + n - 1) - i + 1 = n
  BY <1>1, <1>7
<1>9. n >= l
  <2>1. SUFFICES ASSUME n < l PROVE FALSE
    BY <1>1, <1>8
  <2>2. n + 1 \in 1 .. l /\ i + n <= Len(text)
    BY <1>1, <1>2, <1>8, <2>1
  <2>3. QED BY <1>4, <1>7, <2>2 DEF IsLongest
<1>10. n <= l
  <2>1. SUFFICES ASSUME n > l PROVE FALSE
    BY <1>1, <1>8
  <2>2. i + l \in i .. i + n - 1
    BY <1>1, <1>8, <2>1
  <2>3. At(i + l) \in Upper \cup {"0", "1"}
    BY <1>7, <2>2, WordOfCapitals DEF IsLongest
  <2>4. At(i + l) \notin Upper \cup {"0", "1"}
    BY <1>2 DEF Delimiter, Upper, NUL
  <2>5. QED BY <2>3, <2>4
<1>11. n = l
  BY <1>1, <1>8, <1>9, <1>10
<1>12. WordAt(i, n) = k
  BY <1>2, <1>11 DEF WordAt
<1>13. Keyword(i) = Symbol(k, i + l)
  <2>1. Keyword(i) = LET w == WordAt(i, n)
                         e == i + n
                         accepted == \/ w \in Registers
                                     \/ w = "HALT" /\ At(e) \notin AlphaNum
                                     \/ w \in Keywords /\ At(e) \in Delimiter
                     IN CASE accepted                  -> Symbol(w, e)
                          [] ~accepted /\ w \in Inner  -> unknown(Next1(e))
                          [] OTHER                     -> unknown(e)
    BY DEF Keyword, Longest, IsLongest, WordAt, n
  <2>2. QED BY <1>2, <1>11, <1>12, <2>1
<1>14. QED BY <1>6, <1>13 DEF Symbol
-----------------------------------------------------------------------------
(***************************************************************************)
(* The tokens of all lines, one after the other.                           *)
(***************************************************************************)
IsFlat(f, ss) == f = [i \in 1 .. Len(ss) |-> IF i = 1 THEN ss[i] ELSE f[i - 1] \o ss[i]]
Flat(ss) == CHOOSE f : IsFlat(f, ss)

\* The function by which FlattenSeq is defined exists.
LEMMA FlatExists ==
  ASSUME NEW S, NEW ss \in Seq(Seq(S))
  PROVE  /\ IsFlat(Flat(ss), ss)
         /\ \A i \in 1 .. Len(ss) : Flat(ss)[i] \in Seq(S)
<1> DEFINE n == Len(ss)
           Q == Seq(S)
           round == [i \in 1 .. n |-> [x \in Q |-> x \o ss[i]]]
<1>1. n \in Nat /\ <<>> \in Q /\ \A i \in 1 .. n : ss[i] \in Q
  <2>1. n \in Nat /\ <<>> \in Q
    BY LenProperties, EmptySeq
  <2>2. ASSUME NEW i \in 1 .. n PROVE ss[i] \in Q
    BY ElementOfSeq
  <2>3. QED BY <2>1, <2>2
<1>2. round \in Rounds(n, Q)
  <2>1. ASSUME NEW i \in 1 .. n, NEW x \in Q PROVE x \o ss[i] \in Q
    BY <1>1, ConcatProperties
  <2> HIDE DEF n, Q
  <2>2. QED BY <2>1 DEF Rounds
<1>3. PICK after : Runs(after, n, Q, <<>>, round)
  <2> HIDE DEF n, Q, round
  <2>1. QED BY <1>1, <1>2, LoopExists
<1>4. /\ after \in [0 .. n -> Q] /\ after[0] = <<>>
      /\ \A i \in 1 .. n : after[i] = round[i][after[i - 1]]
  BY <1>3 DEF Runs
<1>5. ASSUME NEW i \in 1 .. n
      PROVE  /\ after[i] = after[i - 1] \o ss[i] /\ after[i] \in Q
             /\ i # 1 => i - 1 \in 1 .. n
  <2>1. i - 1 \in 0 .. n /\ i \in 0 .. n /\ (i # 1 => i - 1 \in 1 .. n)
    BY <1>1
  <2>2. after[i - 1] \in Q /\ after[i] \in Q
    <3> HIDE DEF Q, n, round
    <3>1. QED BY <1>4, <2>1
  <2>3. after[i] = round[i][after[i - 1]]
    BY <1>4
  <2>4. round[i][after[i - 1]] = after[i - 1] \o ss[i]
    <3> HIDE DEF Q, n
    <3>1. QED BY <2>2
  <2>5. QED BY <2>1, <2>2, <2>3, <2>4
<1> DEFINE g == [i \in 1 .. n |-> after[i]]
<1>6. ASSUME NEW i \in 1 .. n PROVE g[i] = IF i = 1 THEN ss[i] ELSE g[i - 1] \o ss[i]
  <2>1. CASE i = 1
    <3>1. after[1] = <<>> \o ss[1]
      <4>1. 1 - 1 = 0 /\ 1 \in 1 .. n
        BY <2>1
      <4>2. after[0] = <<>>
        BY <1>4
      <4>3. after[1] = after[1 - 1] \o ss[1]
        BY <1>5, <4>1
      <4>4. QED BY <4>1, <4>2, <4>3
    <3>2. <<>> \o ss[1] = ss[1]
      <4>1. ss[1] \in Q
        BY <1>1, <2>1
      <4>2. QED BY <4>1, ConcatEmptySeq
    <3> HIDE DEF round, Q, n
    <3>3. QED BY <2>1, <3>1, <3>2
  <2>2. CASE i # 1
    <3>1. after[i] = after[i - 1] \o ss[i] /\ i - 1 \in 1 .. n
      BY <1>5, <2>2
    <3> HIDE DEF round, Q, n
    <3>2. QED BY <2>2, <3>1
  <2>3. QED BY <2>1, <2>2
<1>7. IsFlat(g, ss)
  <2> HIDE DEF g
  <2>1. g = [i \in 1 .. n |-> g[i]]
    BY DEF g
  <2>2. QED BY <1>6, <2>1 DEF IsFlat
<1>8. IsFlat(Flat(ss), ss)
  <2> HIDE DEF g, IsFlat
  <2>1. QED BY <1>7 DEF Flat
<1> DEFINE f == Flat(ss)
           T == {i \in 0 .. n : i # 0 => f[i] \in Q}
<1>9. \A i \in 0 .. n - 1 : i \in T => i + 1 \in T
  <2>1. SUFFICES ASSUME NEW i \in 0 .. n - 1, i \in T PROVE f[i + 1] \in Q /\ i + 1 \in 0 .. n
    OBVIOUS
  <2>2. i + 1 \in 1 .. n /\ (i + 1) - 1 = i /\ i + 1 \in 0 .. n
    BY <1>1
  <2>3. f[i + 1] = IF i + 1 = 1 THEN ss[i + 1] ELSE f[i] \o ss[i + 1]
    <3> HIDE DEF f
    <3>1. f = [j \in 1 .. Len(ss) |-> IF j = 1 THEN ss[j] ELSE f[j - 1] \o ss[j]]
      BY <1>8 DEF IsFlat, f
    <3>2. QED BY <2>2, <3>1
  <2>4. ss[i + 1] \in Q
    BY <1>1, <2>2
  <2>5. CASE i = 0
    <3> HIDE DEF f, Q, n
    <3>1. QED BY <2>2, <2>3, <2>4, <2>5
  <2>6. CASE i # 0
    <3>1. f[i] \in Q
      BY <2>1, <2>6
    <3>2. f[i] \o ss[i + 1] \in Q
      <4> HIDE DEF f
      <4>1. QED BY <2>4, <3>1, ConcatProperties
    <3>3. i + 1 # 1
      BY <1>1, <2>6
    <3> HIDE DEF f, Q, n
    <3>4. QED BY <2>2, <2>3, <3>2, <3>3
  <2>7. QED BY <2>5, <2>6
<1>10. \A i \in 0 .. n : i \in T
  <2>1. 0 \in T
    BY <1>1
  <2> HIDE DEF T, n
  <2>2. QED BY <1>1, <1>9, <2>1, UpTo
<1>11. QED BY <1>8, <1>10

\* A line more is its tokens more.
LEMMA Flattened ==
  ASSUME NEW S, NEW ss \in Seq(Seq(S)), NEW s \in Seq(S)
  PROVE  /\ FlattenSeq(<<>>) = <<>>
         /\ FlattenSeq(ss) \in Seq(S)
         /\ FlattenSeq(Append(ss, s)) = FlattenSeq(ss) \o s
<1>1. \A r : FlattenSeq(r) = IF Len(r) = 0 THEN r ELSE Flat(r)[Len(r)]
  BY DEF FlattenSeq, Flat, IsFlat
<1>2. FlattenSeq(<<>>) = <<>>
  BY <1>1, EmptySeq
<1> DEFINE n == Len(ss)
           tt == Append(ss, s)
           f == Flat(ss)
           g == Flat(tt)
<1>3. /\ n \in Nat /\ tt \in Seq(Seq(S)) /\ Len(tt) = n + 1
      /\ tt[n + 1] = s /\ \A i \in 1 .. n : tt[i] = ss[i]
  BY AppendProperties, LenProperties
<1> HIDE DEF tt
<1>4. IsFlat(f, ss) /\ IsFlat(g, tt) /\ \A i \in 1 .. n : f[i] \in Seq(S)
  BY <1>3, FlatExists
<1> HIDE DEF f, g
<1>5. \A i \in 1 .. n : f[i] = IF i = 1 THEN ss[i] ELSE f[i - 1] \o ss[i]
  <2>1. f = [j \in 1 .. Len(ss) |-> IF j = 1 THEN ss[j] ELSE f[j - 1] \o ss[j]]
    BY <1>4 DEF IsFlat
  <2>2. QED BY <2>1
<1>6. \A i \in 1 .. n + 1 : g[i] = IF i = 1 THEN tt[i] ELSE g[i - 1] \o tt[i]
  <2>1. g = [j \in 1 .. Len(tt) |-> IF j = 1 THEN tt[j] ELSE g[j - 1] \o tt[j]]
    BY <1>4 DEF IsFlat
  <2>2. QED BY <1>3, <2>1
<1> HIDE DEF n
<1> DEFINE T == {i \in 0 .. n : i # 0 => f[i] = g[i]}
<1>7. \A i \in 0 .. n - 1 : i \in T => i + 1 \in T
  <2>1. SUFFICES ASSUME NEW i \in 0 .. n - 1, i \in T PROVE f[i + 1] = g[i + 1] /\ i + 1 \in 0 .. n
    OBVIOUS
  <2>2. i + 1 \in 1 .. n /\ i + 1 \in 1 .. n + 1 /\ (i + 1) - 1 = i /\ i + 1 \in 0 .. n
    BY <1>3
  <2>3. tt[i + 1] = ss[i + 1]
    BY <1>3, <2>2
  <2>4. CASE i = 0
    BY <1>5, <1>6, <2>2, <2>3, <2>4
  <2>5. CASE i # 0
    <3>1. f[i] = g[i] /\ i + 1 # 1
      BY <2>1, <2>5, <1>3
    <3>2. f[i + 1] = f[i] \o ss[i + 1] /\ g[i + 1] = g[i] \o tt[i + 1]
      BY <1>5, <1>6, <2>2, <3>1
    <3>3. QED BY <2>2, <2>3, <3>1, <3>2
  <2>6. QED BY <2>4, <2>5
<1>8. \A i \in 0 .. n : i \in T
  <2>1. 0 \in T
    BY <1>3
  <2> HIDE DEF T
  <2>2. QED BY <1>3, <1>7, <2>1, UpTo
<1>9. CASE n = 0
  <2>1. ss = <<>> /\ FlattenSeq(ss) = <<>>
    BY <1>2, <1>9, EmptySeq DEF n
  <2>2. FlattenSeq(tt) = s
    <3>1. Len(tt) = 1 /\ tt[1] = s /\ g[1] = tt[1]
      <4>1. n + 1 = 1 /\ 1 \in 1 .. n + 1
        BY <1>9
      <4>2. QED BY <1>3, <1>6, <4>1
    <3>2. FlattenSeq(tt) = g[1]
      <4>1. FlattenSeq(tt) = IF Len(tt) = 0 THEN tt ELSE g[Len(tt)]
        BY <1>1 DEF g
      <4>2. QED BY <3>1, <4>1
    <3>3. QED BY <3>1, <3>2
  <2>3. <<>> \in Seq(S) /\ <<>> \o s = s
    BY ConcatEmptySeq, EmptySeq
  <2>4. QED BY <1>2, <2>1, <2>2, <2>3 DEF tt
<1>10. CASE n # 0
  <2>1. n \in 1 .. n /\ n + 1 \in 1 .. n + 1 /\ n + 1 # 1 /\ (n + 1) - 1 = n /\ n + 1 # 0
    BY <1>3, <1>10
  <2>2. FlattenSeq(ss) = f[n] /\ f[n] \in Seq(S)
    BY <1>1, <1>4, <1>10, <2>1 DEF f, n
  <2>3. FlattenSeq(tt) = g[n + 1]
    BY <1>1, <1>3, <2>1 DEF g
  <2>4. g[n + 1] = g[n] \o tt[n + 1]
    BY <1>6, <2>1
  <2>5. g[n] = f[n]
    BY <1>8, <1>10, <2>1
  <2>6. QED BY <1>2, <1>3, <2>2, <2>3, <2>4, <2>5 DEF tt
<1>11. QED BY <1>3, <1>9, <1>10

-----------------------------------------------------------------------------
(***************************************************************************)
(* The inductive invariant.                                                *)
(***************************************************************************)
Line == [tokens : Seq(Token), line_nr : Nat, from : Nat, to : Nat]

Typed == /\ IsSource /\ ptr \in Place /\ start \in Place /\ line_nr \in Nat \ {0}
         /\ tokens \in Seq(Token) /\ lines \in Seq(Line)
         /\ phase \in {"program", "line", "done"}

\* No line is counted without a character being read, and a line is not without
\* tokens when it ends.
Counted ==
  /\ \A i \in DOMAIN lines : lines[i].line_nr \in 1 .. line_nr - 1
  /\ phase = "program" => line_nr <= ptr /\ tokens = <<>>
  /\ phase = "line"    => /\ line_nr <= start /\ start <= ptr
                          /\ tokens = <<>>  => At(ptr) \notin {"\n", NUL}
                          /\ tokens # <<>>  => start < ptr
  /\ phase = "done"    => line_nr <= End /\ tokens = <<>>

\* The tokens lie before the iterator.
Behind == \A i \in DOMAIN AllTokens : AllTokens[i].to < ptr

\* What must come after an index or a comment, in a line that has ended and in the
\* one being read.
Suited(ts) == \A j \in DOMAIN ts : /\ ts[j].sym = "idx" => j < Len(ts) /\ ts[j + 1].sym = "["
                                   /\ ts[j].sym = "comment" => j = Len(ts)
SuitedSoFar ==
  \A j \in DOMAIN tokens :
    /\ tokens[j].sym = "idx" /\ j < Len(tokens) => tokens[j + 1].sym = "["
    /\ tokens[j].sym = "idx" /\ j = Len(tokens) => At(ptr) = "["
    /\ tokens[j].sym = "comment" => j = Len(tokens) /\ At(ptr) \in {"\n", NUL}
Suits == SuitsAssembler /\ SuitedSoFar

IInv == Typed /\ Counted /\ Behind /\ TextIsTiled /\ Suits /\ KeywordsFound

\* The text is not changed, and what is said of it neither.
LEMMA SameText ==
  ASSUME UNCHANGED text
  PROVE  /\ IsSource' = IsSource /\ Place' = Place /\ End' = End
         /\ Token' = Token /\ Line' = Line
         /\ \A i : At(i)' = At(i)
<1>1. IsSource' = IsSource /\ Place' = Place /\ End' = End
  BY DEF IsSource, Place, End
<1>2. Token' = Token
  BY <1>1 DEF Token, Symbols
<1>3. Line' = Line
  BY <1>2 DEF Line
<1>4. \A i : At(i)' = At(i)
  BY DEF At
<1>5. QED BY <1>1, <1>2, <1>3, <1>4

Lists == [i \in DOMAIN lines |-> lines[i].tokens]

\* The tokens of all lines are a sequence of tokens.
LEMMA AllTokensTyped ==
  ASSUME Typed
  PROVE  /\ Lists \in Seq(Seq(Token)) /\ FlattenSeq(Lists) \in Seq(Token)
         /\ AllTokens = FlattenSeq(Lists) \o tokens
         /\ AllTokens \in Seq(Token)
<1>1. lines \in Seq(Line) /\ tokens \in Seq(Token)
  BY DEF Typed
<1>2. \A i \in 1 .. Len(lines) : lines[i].tokens \in Seq(Token)
  <2>1. \A i \in 1 .. Len(lines) : lines[i] \in Line
    BY <1>1, ElementOfSeq
  <2>2. QED BY <2>1 DEF Line
<1>3. Len(lines) \in Nat /\ DOMAIN lines = 1 .. Len(lines)
  BY <1>1, LenProperties
<1>4. Lists \in Seq(Seq(Token))
  <2> DEFINE Q == Seq(Token)
             n == Len(lines)
  <2>1. Lists = [i \in 1 .. n |-> lines[i].tokens] /\ \A i \in 1 .. n : lines[i].tokens \in Q
    BY <1>2, <1>3 DEF Lists
  <2> HIDE DEF Q
  <2>2. Lists \in [1 .. n -> Q]
    BY <2>1
  <2>3. Lists \in Seq(Q)
    BY <1>3, <2>2, IsASeq
  <2>4. QED BY <2>3 DEF Q
<1>5. FlattenSeq(Lists) \in Seq(Token)
  BY <1>1, <1>4, Flattened
<1>6. AllTokens = FlattenSeq(Lists) \o tokens
  BY DEF AllTokens, Lists
<1>7. QED BY <1>1, <1>4, <1>5, <1>6, ConcatProperties

NewToken == [sym |-> tokenizeSymbol(ptr).sym, from |-> ptr, to |-> tokenizeSymbol(ptr).next - 1]

\* The token that is read.
LEMMA NewTokenTyped ==
  ASSUME Typed, NextToken
  PROVE  /\ ptr \in 1 .. Len(text) /\ Begins(ptr)
         /\ IsSymbol(ptr, tokenizeSymbol(ptr))
         /\ NewToken \in Token /\ NewToken.from = ptr
         /\ NewToken.to = tokenizeSymbol(ptr).next - 1
         /\ NewToken.sym = tokenizeSymbol(ptr).sym
         /\ NewToken.to \in ptr .. Len(text)
         /\ ptr' = Spaces(NewToken.to + 1) /\ NewToken.to + 1 \in Place
         /\ ptr' \in Place /\ ptr' > NewToken.to
         /\ \A k \in NewToken.to + 1 .. ptr' - 1 : At(k) = " "
         /\ At(NewToken.to + 1) # " " => ptr' = NewToken.to + 1
         /\ tokens' = Append(tokens, NewToken)
<1> DEFINE s == tokenizeSymbol(ptr)
<1>1. IsSource /\ ptr \in Place /\ At(ptr) \notin {"\n", NUL}
  BY DEF Typed, NextToken
<1>2. Len(text) \in Nat /\ Place = 1 .. End /\ End = Len(text) + 1 /\ ptr # End
  BY <1>1, Characters DEF End
<1>3. ptr \in 1 .. Len(text)
  BY <1>1, <1>2
<1>4. Begins(ptr)
  BY <1>1, <1>3 DEF Begins
<1>5. IsSymbol(ptr, s)
  BY <1>1, <1>4, SymbolRead
<1>6. s.sym \in Symbols /\ s.next \in Place /\ s.next > ptr
  BY <1>5 DEF IsSymbol
<1>7. tokens' = Append(tokens, NewToken) /\ ptr' = Spaces(s.next)
  BY DEF NextToken, NewToken
<1>8. NewToken.from = ptr /\ NewToken.to = s.next - 1 /\ NewToken.sym = s.sym
  BY DEF NewToken
<1> HIDE DEF s
<1>9. s.next - 1 \in ptr .. Len(text) /\ (s.next - 1) + 1 = s.next /\ s.next - 1 \in Place
  BY <1>2, <1>3, <1>6
<1>10. NewToken \in Token
  <2>1. NewToken = [sym |-> s.sym, from |-> ptr, to |-> s.next - 1]
    BY DEF NewToken, s
  <2>2. QED BY <1>1, <1>6, <1>9, <2>1 DEF Token
<1>11. /\ Spaces(s.next) \in Place /\ Spaces(s.next) \in s.next .. End
       /\ \A k \in s.next .. Spaces(s.next) - 1 : At(k) = " "
       /\ At(s.next) # " " => Spaces(s.next) = s.next
  BY <1>1, <1>6, SpacesSkipped
<1>12. ptr' \in Place /\ ptr' > s.next - 1
  <2>1. ptr' \in Place /\ ptr' \in s.next .. End
    BY <1>7, <1>11
  <2>2. QED BY <1>2, <1>6, <2>1
<1>13. QED BY <1>3, <1>4, <1>5, <1>7, <1>8, <1>9, <1>10, <1>11, <1>12, <1>6 DEF s

\* All that happens to the tokens is that one more is read.
LEMMA TokensKept ==
  ASSUME Typed, [Next]_vars
  PROVE  /\ UNCHANGED text
         /\ ~NextToken => AllTokens' = AllTokens
         /\ NextToken => AllTokens' = Append(AllTokens, NewToken)
<1>1. UNCHANGED text
  BY DEF Next, vars, BlankLine, StartLine, NextToken, EndLine, EndProgram, Done
<1>2. ASSUME UNCHANGED <<tokens, lines>> PROVE AllTokens' = AllTokens
  BY <1>2 DEF AllTokens
<1>3. ASSUME NextToken PROVE AllTokens' = Append(AllTokens, NewToken)
  <2>1. lines' = lines /\ tokens' = Append(tokens, NewToken) /\ NewToken \in Token
    BY <1>3, NewTokenTyped DEF NextToken
  <2>2. Lists' = Lists
    BY <2>1 DEF Lists
  <2>3. AllTokens' = FlattenSeq(Lists) \o Append(tokens, NewToken)
    BY <2>1, <2>2 DEF AllTokens, Lists
  <2>4. /\ FlattenSeq(Lists) \in Seq(Token) /\ tokens \in Seq(Token)
        /\ AllTokens = FlattenSeq(Lists) \o tokens
    BY AllTokensTyped DEF Typed
  <2>5. ASSUME NEW a \in Seq(Token), NEW b \in Seq(Token), NEW t \in Token
        PROVE  a \o Append(b, t) = Append(a \o b, t)
    <3>1. Append(b, t) = b \o <<t>> /\ <<t>> \in Seq(Token)
      BY AppendIsConcat
    <3>2. a \o b \in Seq(Token)
      BY ConcatProperties
    <3>3. Append(a \o b, t) = (a \o b) \o <<t>>
      BY <3>2, AppendIsConcat
    <3>4. QED BY <3>1, <3>3, ConcatAssociative
  <2>6. QED BY <2>1, <2>3, <2>4, <2>5
<1>4. ASSUME EndLine PROVE AllTokens' = AllTokens
  <2>1. lines' = Append(lines, TheLine) /\ tokens' = <<>> /\ TheLine.tokens = tokens
    BY <1>4 DEF EndLine, TheLine
  <2>2. /\ lines \in Seq(Line) /\ Lists \in Seq(Seq(Token)) /\ tokens \in Seq(Token)
        /\ FlattenSeq(Lists) \in Seq(Token) /\ AllTokens = FlattenSeq(Lists) \o tokens
    BY AllTokensTyped DEF Typed
  <2>3. Lists' = Append(Lists, tokens)
    <3> DEFINE n == Len(lines)
               R == {TheLine} \cup Line
    <3>1. lines \in Seq(R) /\ TheLine \in R
      BY <2>2, SeqMonotonic
    <3>2. /\ n \in Nat /\ Len(lines') = n + 1 /\ DOMAIN lines' = 1 .. n + 1 /\ DOMAIN lines = 1 .. n
          /\ lines'[n + 1] = TheLine /\ \A i \in 1 .. n : lines'[i] = lines[i]
      <4> HIDE DEF R
      <4>1. lines' \in Seq(R)
        BY <2>1, <3>1, AppendProperties
      <4>2. QED BY <2>1, <3>1, <4>1, AppendProperties, LenProperties
    <3>3. Len(Lists) = n /\ Lists = [i \in 1 .. n |-> lines[i].tokens]
      <4>1. Lists = [i \in 1 .. n |-> lines[i].tokens]
        BY <3>2 DEF Lists
      <4>2. DOMAIN Lists = 1 .. Len(Lists) /\ Len(Lists) \in Nat
        BY <2>2, LenProperties
      <4>3. 1 .. Len(Lists) = 1 .. n
        BY <4>1, <4>2
      <4>4. QED BY <3>2, <4>1, <4>2, <4>3
    <3>4. Lists' = [i \in 1 .. n + 1 |-> lines'[i].tokens]
      BY <3>2 DEF Lists
    <3> DEFINE m == Append(Lists, tokens)
    <3>5. /\ m \in Seq(Seq(Token)) /\ DOMAIN m = 1 .. n + 1
          /\ m[n + 1] = tokens /\ \A i \in 1 .. n : m[i] = Lists[i]
      <4>1. /\ m \in Seq(Seq(Token)) /\ Len(m) = n + 1
            /\ m[n + 1] = tokens /\ \A i \in 1 .. n : m[i] = Lists[i]
        BY <2>2, <3>3, AppendProperties
      <4>2. QED BY <4>1, LenProperties
    <3>6. m = [i \in 1 .. n + 1 |-> m[i]]
      <4> HIDE DEF m, n
      <4>1. m \in [1 .. Len(m) -> Seq(Token)] /\ DOMAIN m = 1 .. n + 1
        BY <3>5, LenProperties
      <4>2. QED BY <4>1
    <3> HIDE DEF m, n
    <3>7. \A i \in 1 .. n + 1 : m[i] = lines'[i].tokens
      <4>1. SUFFICES ASSUME NEW i \in 1 .. n + 1 PROVE m[i] = lines'[i].tokens
        OBVIOUS
      <4>2. CASE i = n + 1
        BY <2>1, <3>2, <3>5, <4>2
      <4>3. CASE i # n + 1
        <5>1. i \in 1 .. n
          BY <3>2, <4>3
        <5>2. QED BY <3>2, <3>3, <3>5, <5>1
      <4>4. QED BY <4>2, <4>3
    <3>8. Lists' = m
      BY <3>4, <3>6, <3>7
    <3>9. QED BY <3>8 DEF m
  <2>4. FlattenSeq(Append(Lists, tokens)) = FlattenSeq(Lists) \o tokens
    BY <2>2, Flattened
  <2>5. AllTokens' = (FlattenSeq(Lists) \o tokens) \o <<>>
    BY <2>1, <2>3, <2>4 DEF AllTokens, Lists
  <2>6. (FlattenSeq(Lists) \o tokens) \o <<>> = FlattenSeq(Lists) \o tokens
    <3>1. FlattenSeq(Lists) \o tokens \in Seq(Token)
      BY <2>2, ConcatProperties
    <3>2. QED BY <3>1, ConcatEmptySeq
  <2>7. QED BY <2>2, <2>5, <2>6
<1>5. \/ UNCHANGED <<tokens, lines>> \/ NextToken \/ EndLine
  BY DEF Next, vars, BlankLine, StartLine, EndProgram, Done
<1>6. QED BY <1>1, <1>2, <1>3, <1>4, <1>5

-----------------------------------------------------------------------------
\* It holds of every text before it is read.
LEMMA InitIInv == Init => IInv
<1> SUFFICES ASSUME Init PROVE IInv
  OBVIOUS
<1>1. /\ text \in Texts /\ ptr = 1 /\ line_nr = 1 /\ start = 1
      /\ tokens = <<>> /\ lines = <<>> /\ phase = "program"
  BY DEF Init
<1>2. IsSource /\ 1 \in Place /\ End \in Nat \ {0}
  <2>1. IsSource
    BY <1>1 DEF IsSource
  <2>2. QED BY <2>1, Characters
<1>3. Typed
  <2>1. \A S : <<>> \in Seq(S)
    BY EmptySeq
  <2>2. QED BY <1>1, <1>2, <2>1 DEF Typed
<1>4. AllTokens = <<>>
  <2>1. Lists = <<>>
    <3>1. Lists \in Seq(Seq(Token)) /\ DOMAIN Lists = {}
      BY <1>1, <1>3, AllTokensTyped DEF Lists
    <3>2. Len(Lists) = 0
      BY <3>1, LenProperties
    <3>3. QED BY <3>1, <3>2, EmptySeq
  <2>2. AllTokens = <<>> \o <<>>
    BY <1>1, <1>3, <2>1, AllTokensTyped, Flattened
  <2>3. <<>> \in Seq(Token)
    BY EmptySeq
  <2>4. QED BY <2>2, <2>3, ConcatEmptySeq
<1>5. DOMAIN AllTokens = {} /\ Len(AllTokens) = 0 /\ DOMAIN lines = {} /\ DOMAIN tokens = {}
  BY <1>1, <1>4
<1>6. Counted
  BY <1>1, <1>5 DEF Counted
<1>7. Behind
  BY <1>5 DEF Behind
<1>8. TextIsTiled
  BY <1>1, <1>5 DEF TextIsTiled
<1>9. Suits
  BY <1>5 DEF Suits, SuitsAssembler, SuitedSoFar
<1>10. KeywordsFound
  BY <1>5 DEF KeywordsFound, ToSet
<1>11. QED BY <1>3, <1>6, <1>7, <1>8, <1>9, <1>10 DEF IInv

\* What an iteration of the loops does to the iterator.
LEMMA LineBegins ==
  ASSUME Typed, At(ptr) # NUL
  PROVE  /\ Spaces(ptr) \in Place /\ Spaces(ptr) >= ptr /\ At(Spaces(ptr)) # " "
         /\ \A k \in ptr .. Spaces(ptr) - 1 : At(k) = " "
         /\ Next1(Spaces(ptr)) \in Place /\ Next1(Spaces(ptr)) > ptr
         /\ \A k \in Spaces(ptr) .. Next1(Spaces(ptr)) - 1 : k = Spaces(ptr)
<1>1. IsSource /\ ptr \in Place /\ End \in Nat /\ Place = 1 .. End /\ ptr # End
  BY Characters DEF Typed
<1> DEFINE s == Spaces(ptr)
<1>2. s \in Place /\ At(s) # " " /\ \A k \in ptr .. s - 1 : At(k) = " "
  BY <1>1, SpacesSkipped
<1>3. s \in ptr .. End
  BY <1>1, SpacesSkipped
<1>4. ptr \in Nat /\ ptr < End
  BY <1>1
<1>5. Next1(s) \in Place /\ Next1(s) \in s .. s + 1 /\ (s # End => Next1(s) = s + 1)
  BY <1>1, <1>2, NextPlace
<1> HIDE DEF s
<1>6. s \in Nat /\ s >= ptr
  BY <1>1, <1>3, <1>4
<1>7. Next1(s) > ptr
  BY <1>4, <1>5, <1>6
<1>8. \A k \in s .. Next1(s) - 1 : k = s
  BY <1>5, <1>6
<1>9. QED BY <1>2, <1>5, <1>6, <1>7, <1>8 DEF s

\* The end of a line.
LEMMA LineEnds ==
  ASSUME Typed
  PROVE  /\ Next1(ptr) \in Place /\ Next1(ptr) >= ptr
         /\ At(ptr) # NUL => Next1(ptr) = ptr + 1
         /\ \A k \in ptr .. Next1(ptr) - 1 : k = ptr /\ At(ptr) # NUL
<1>1. IsSource /\ ptr \in Place /\ End \in Nat /\ Place = 1 .. End /\ At(End) = NUL
      /\ (At(ptr) = NUL <=> ptr = End)
  BY Characters DEF Typed
<1>2. Next1(ptr) \in Place /\ (ptr # End => Next1(ptr) = ptr + 1) /\ (ptr = End => Next1(ptr) = ptr)
  BY <1>1, NextPlace
<1>3. QED BY <1>1, <1>2

\* Types.
LEMMA TypedKept ==
  ASSUME Typed, [Next]_vars
  PROVE  Typed'
<1>1. UNCHANGED text
  BY TokensKept
<1>2. /\ IsSource' /\ Place' = Place /\ Seq(Token)' = Seq(Token) /\ Seq(Line)' = Seq(Line)
  BY <1>1, SameText DEF Typed
<1>3. /\ IsSource /\ ptr \in Place /\ start \in Place /\ line_nr \in Nat \ {0}
      /\ tokens \in Seq(Token) /\ lines \in Seq(Line) /\ phase \in {"program", "line", "done"}
  BY DEF Typed
<1>4. SUFFICES /\ ptr' \in Place /\ start' \in Place /\ line_nr' \in Nat \ {0}
               /\ tokens' \in Seq(Token) /\ lines' \in Seq(Line)
               /\ phase' \in {"program", "line", "done"}
  BY <1>2 DEF Typed
<1>5. CASE BlankLine
  <2>1. ptr' \in Place
    BY <1>5, LineBegins DEF BlankLine
  <2>2. QED BY <1>3, <1>5, <2>1 DEF BlankLine
<1>6. CASE StartLine
  <2>1. ptr' \in Place
    BY <1>6, LineBegins DEF StartLine
  <2>2. QED BY <1>3, <1>6, <2>1 DEF StartLine
<1>7. CASE NextToken
  <2>1. ptr' \in Place /\ tokens' = Append(tokens, NewToken) /\ NewToken \in Token
    BY <1>7, NewTokenTyped
  <2>2. tokens' \in Seq(Token)
    BY <1>3, <2>1, AppendProperties
  <2>3. QED BY <1>3, <1>7, <2>1, <2>2 DEF NextToken
<1>8. CASE EndLine
  <2>1. ptr' \in Place /\ tokens' = <<>> /\ <<>> \in Seq(Token)
    BY <1>8, LineEnds, EmptySeq DEF EndLine
  <2>2. TheLine \in Line
    <3>1. ptr \in Nat /\ ptr - 1 \in Nat /\ start \in Nat /\ line_nr \in Nat
      BY <1>3, Characters
    <3>2. QED BY <1>3, <3>1 DEF TheLine, Line
  <2>3. lines' \in Seq(Line)
    BY <1>3, <1>8, <2>2, AppendProperties DEF EndLine
  <2>4. QED BY <1>3, <1>8, <2>1, <2>3 DEF EndLine
<1>9. CASE EndProgram
  BY <1>3, <1>9 DEF EndProgram
<1>10. CASE Done \/ UNCHANGED vars
  BY <1>3, <1>10 DEF Done, vars
<1>11. QED BY <1>5, <1>6, <1>7, <1>8, <1>9, <1>10 DEF Next

\* The count of lines, and the lines that have tokens.
LEMMA CountedKept ==
  ASSUME Typed, Counted, [Next]_vars
  PROVE  Counted'
<1> DEFINE Numbered == \A i \in DOMAIN lines : lines[i].line_nr \in 1 .. line_nr - 1
<1>1. UNCHANGED text
  BY TokensKept
<1>2. (\A i : At(i)' = At(i)) /\ End' = End
  BY <1>1, SameText
<1>3. /\ IsSource /\ ptr \in Nat /\ start \in Nat /\ line_nr \in Nat \ {0} /\ End \in Nat
      /\ ptr \in 1 .. End /\ lines \in Seq(Line) /\ tokens \in Seq(Token)
  <2>1. IsSource /\ ptr \in Place /\ start \in Place /\ line_nr \in Nat \ {0}
        /\ lines \in Seq(Line) /\ tokens \in Seq(Token)
    BY DEF Typed
  <2>2. End \in Nat /\ Place = 1 .. End
    BY <2>1, Characters
  <2>3. QED BY <2>1, <2>2
<1>4. Numbered
  BY DEF Counted
<1>5. ASSUME UNCHANGED lines, line_nr' \in {line_nr, line_nr + 1} PROVE Numbered'
  <2>1. line_nr \in Nat /\ (line_nr' = line_nr \/ line_nr' = line_nr + 1)
    BY <1>3, <1>5
  <2>2. \A n \in 1 .. line_nr - 1 : n \in 1 .. line_nr' - 1
    <3>1. ASSUME line_nr' = line_nr + 1, NEW n \in 1 .. line_nr - 1 PROVE n \in 1 .. line_nr' - 1
      BY <2>1, <3>1
    <3>2. QED BY <2>1, <3>1
  <2>3. QED BY <1>4, <1>5, <2>2
<1> HIDE DEF Numbered
<1>6. CASE BlankLine
  <2>1. /\ phase = "program" /\ phase' = "program" /\ ptr' > ptr /\ line_nr' = line_nr + 1
        /\ UNCHANGED <<lines, tokens>> /\ ptr' \in Place
    BY <1>6, LineBegins DEF BlankLine
  <2>2. line_nr <= ptr /\ tokens = <<>>
    BY <2>1 DEF Counted
  <2>3. line_nr' <= ptr'
    <3>1. ptr' \in Nat
      BY <1>3, <2>1, Characters
    <3>2. QED BY <1>3, <2>1, <2>2, <3>1
  <2>4. Numbered'
    BY <1>5, <2>1
  <2>5. QED BY <2>1, <2>2, <2>3, <2>4 DEF Counted, Numbered
<1>7. CASE StartLine
  <2>1. /\ phase = "program" /\ phase' = "line" /\ ptr' >= ptr /\ start' = ptr
        /\ At(ptr') \notin {"\n", NUL} /\ UNCHANGED <<lines, tokens, line_nr>>
    BY <1>7, LineBegins DEF StartLine
  <2>2. line_nr <= ptr /\ tokens = <<>>
    BY <2>1 DEF Counted
  <2>3. At(ptr)' \notin {"\n", NUL}
    <3>1. At(ptr)' = At(ptr')
      BY <1>1 DEF At
    <3>2. NUL' = NUL
      BY DEF NUL
    <3>3. QED BY <2>1, <3>1, <3>2
  <2>4. Numbered'
    BY <1>5, <2>1
  <2>5. QED BY <2>1, <2>2, <2>3, <2>4 DEF Counted, Numbered
<1>8. CASE NextToken
  <2>1. /\ phase = "line" /\ phase' = "line" /\ UNCHANGED <<lines, line_nr, start>>
        /\ tokens' = Append(tokens, NewToken) /\ NewToken \in Token
        /\ ptr' > NewToken.to /\ NewToken.to \in ptr .. Len(text) /\ ptr' \in Place
    BY <1>8, NewTokenTyped DEF NextToken
  <2>2. ptr' > ptr /\ ptr' \in Nat
    <3>1. Len(text) \in Nat /\ ptr' \in Nat
      BY <1>3, <2>1, Characters
    <3>2. QED BY <1>3, <2>1, <3>1
  <2>3. tokens' # <<>>
    <3>1. Len(tokens') = Len(tokens) + 1 /\ Len(tokens) \in Nat
      BY <1>3, <2>1, AppendProperties, LenProperties
    <3>2. Len(tokens') # 0
      BY <3>1
    <3>3. QED BY <3>2, EmptySeq
  <2>4. line_nr <= start /\ start <= ptr
    BY <2>1 DEF Counted
  <2>5. start' < ptr' /\ start' <= ptr' /\ line_nr' <= start'
    BY <1>3, <2>1, <2>2, <2>4
  <2>6. Numbered'
    BY <1>5, <2>1
  <2>7. QED BY <2>1, <2>3, <2>5, <2>6 DEF Counted, Numbered
<1>9. CASE EndLine
  <2>1. /\ phase = "line" /\ phase' = "program" /\ tokens' = <<>>
        /\ lines' = Append(lines, TheLine) /\ TheLine.line_nr = line_nr /\ line_nr' = line_nr + 1
        /\ ptr' >= ptr /\ ptr' \in Place /\ At(ptr) \in {"\n", NUL}
    BY <1>9, LineEnds DEF EndLine, TheLine
  <2>2. line_nr <= start /\ start < ptr
    BY <2>1 DEF Counted
  <2>3. line_nr' <= ptr'
    <3>1. ptr' \in Nat
      BY <1>3, <2>1, Characters
    <3>2. QED BY <1>3, <2>1, <2>2, <3>1
  <2>4. Numbered'
    <3> DEFINE R == {TheLine} \cup Line
    <3>1. lines \in Seq(R) /\ TheLine \in R
      BY <1>3, SeqMonotonic
    <3>2. /\ Len(lines) \in Nat /\ Len(lines') = Len(lines) + 1 /\ lines' \in Seq(R)
          /\ lines'[Len(lines) + 1] = TheLine
          /\ \A i \in 1 .. Len(lines) : lines'[i] = lines[i]
      <4> HIDE DEF R
      <4>1. QED BY <2>1, <3>1, AppendProperties, LenProperties
    <3>3. SUFFICES ASSUME NEW i \in 1 .. Len(lines) + 1 PROVE lines'[i].line_nr \in 1 .. line_nr' - 1
      <4>1. DOMAIN lines' = 1 .. Len(lines) + 1
        BY <3>2, LenProperties
      <4>2. QED BY <4>1 DEF Numbered
    <3>4. CASE i = Len(lines) + 1
      BY <1>3, <2>1, <3>2, <3>4
    <3>5. CASE i # Len(lines) + 1
      <4>1. i \in 1 .. Len(lines) /\ i \in DOMAIN lines
        BY <1>3, <3>2, <3>5, LenProperties
      <4>2. lines'[i] = lines[i] /\ lines[i].line_nr \in 1 .. line_nr - 1
        BY <1>4, <3>2, <4>1 DEF Numbered
      <4>3. QED BY <1>3, <2>1, <4>2
    <3>6. QED BY <3>4, <3>5
  <2>5. QED BY <2>1, <2>3, <2>4 DEF Counted, Numbered
<1>10. CASE EndProgram
  <2>1. /\ phase = "program" /\ phase' = "done" /\ UNCHANGED <<lines, line_nr, tokens, ptr>>
    BY <1>10 DEF EndProgram
  <2>2. line_nr <= ptr /\ tokens = <<>>
    BY <2>1 DEF Counted
  <2>3. line_nr' <= End'
    BY <1>2, <1>3, <2>1, <2>2
  <2>4. Numbered'
    BY <1>5, <2>1
  <2>5. QED BY <2>1, <2>2, <2>3, <2>4 DEF Counted, Numbered
<1>11. CASE Done \/ UNCHANGED vars
  <2>1. UNCHANGED vars
    BY <1>11 DEF Done
  <2>2. QED BY <2>1 DEF vars, Counted, At, End
<1>12. QED BY <1>6, <1>7, <1>8, <1>9, <1>10, <1>11 DEF Next

-----------------------------------------------------------------------------
\* The tiles: what is skipped is spaces and newlines, what is read is a token.
Covered(i) == At(i) \in {" ", "\n"} \/ \E t \in ToSet(AllTokens) : i \in t.from .. t.to

\* The iterator moves over spaces and newlines.
Blank(i) == At(i) \in {" ", "\n"}
MovesOverBlanks == /\ ptr' \in Place /\ ptr' >= ptr
                   /\ \A k \in ptr .. ptr' - 1 : Blank(k)

\* No tile is lost by it.
LEMMA TilesKept ==
  ASSUME Typed, Behind, TextIsTiled, UNCHANGED <<text, AllTokens>>, MovesOverBlanks
  PROVE  Behind' /\ TextIsTiled'
<1>1. ptr \in Nat /\ ptr' \in Nat /\ ptr' >= ptr
  <2>1. IsSource /\ ptr \in Place /\ ptr' \in Place /\ ptr' >= ptr
    BY DEF Typed, MovesOverBlanks
  <2>2. QED BY <2>1, PlaceIsNumber
<1>2. \A i : At(i)' = At(i)
  BY SameText
<1>3. AllTokens \in Seq(Token) /\ DOMAIN AllTokens = 1 .. Len(AllTokens)
  BY AllTokensTyped, LenProperties
<1>4. ASSUME NEW i \in DOMAIN AllTokens PROVE AllTokens[i].to < ptr'
  <2>1. AllTokens[i].to < ptr
    BY DEF Behind
  <2>2. AllTokens[i] \in Token
    BY <1>3, ElementOfSeq
  <2>3. AllTokens[i].to \in Nat
    BY <2>2, PlaceIsNumber DEF Token, Typed
  <2>4. QED BY <1>1, <2>1, <2>3
<1>5. Behind'
  BY <1>4 DEF Behind
<1>6. ASSUME NEW i \in 1 .. ptr' - 1 PROVE Covered(i)
  <2>1. CASE i \in 1 .. ptr - 1
    BY <2>1 DEF TextIsTiled, Covered
  <2>2. CASE i \notin 1 .. ptr - 1
    <3>1. i \in ptr .. ptr' - 1
      <4>1. PICK p \in Nat, q \in Nat : p = ptr /\ q = ptr'
        BY <1>1
      <4>2. i \in 1 .. q - 1 /\ i \notin 1 .. p - 1
        BY <2>2, <4>1
      <4>3. i \in p .. q - 1
        BY <4>2
      <4>4. QED BY <4>1, <4>3
    <3>2. QED BY <3>1 DEF Covered, Blank, MovesOverBlanks
  <2>3. QED BY <2>1, <2>2
<1>7. TextIsTiled'
  <2>1. \A i \in DOMAIN AllTokens : AllTokens[i].from <= AllTokens[i].to
    BY DEF TextIsTiled
  <2>2. \A i \in 1 .. Len(AllTokens) - 1 : AllTokens[i].to < AllTokens[i + 1].from
    BY DEF TextIsTiled
  <2>3. \A i \in 1 .. ptr' - 1 : \/ At(i)' \in {" ", "\n"}
                                 \/ \E t \in ToSet(AllTokens) : i \in t.from .. t.to
    BY <1>2, <1>6 DEF Covered
  <2>4. ToSet(AllTokens)' = ToSet(AllTokens)
    BY DEF ToSet
  <2>5. QED BY <2>1, <2>2, <2>3, <2>4 DEF TextIsTiled
<1>8. QED BY <1>5, <1>7

\* One token more.
LEMMA OneMore ==
  ASSUME NEW S, NEW ts \in Seq(S), NEW t \in S
  PROVE  /\ Append(ts, t) \in Seq(S)
         /\ Len(ts) \in Nat /\ Len(Append(ts, t)) = Len(ts) + 1
         /\ DOMAIN ts = 1 .. Len(ts) /\ DOMAIN Append(ts, t) = 1 .. Len(ts) + 1
         /\ Append(ts, t)[Len(ts) + 1] = t
         /\ \A i \in 1 .. Len(ts) : Append(ts, t)[i] = ts[i]
         /\ ToSet(Append(ts, t)) = ToSet(ts) \cup {t}
<1> DEFINE ap == Append(ts, t)
           n  == Len(ts)
<1>1. /\ ap \in Seq(S) /\ n \in Nat /\ Len(ap) = n + 1 /\ DOMAIN ts = 1 .. n
      /\ DOMAIN ap = 1 .. n + 1 /\ ap[n + 1] = t /\ \A i \in 1 .. n : ap[i] = ts[i]
  <2>1. /\ ap \in Seq(S) /\ Len(ap) = n + 1 /\ ap[n + 1] = t /\ \A i \in 1 .. n : ap[i] = ts[i]
    BY AppendProperties
  <2>2. QED BY <2>1, LenProperties
<1> HIDE DEF ap, n
<1>2. ToSet(ap) = ToSet(ts) \cup {t}
  <2>1. ToSet(ap) = {ap[i] : i \in 1 .. n + 1} /\ ToSet(ts) = {ts[i] : i \in 1 .. n}
    BY <1>1 DEF ToSet
  <2>2. 1 .. n + 1 = (1 .. n) \cup {n + 1}
    BY <1>1
  <2>3. {ap[i] : i \in 1 .. n + 1} = {ap[i] : i \in 1 .. n} \cup {ap[n + 1]}
    BY <2>2
  <2>4. {ap[i] : i \in 1 .. n} = {ts[i] : i \in 1 .. n}
    BY <1>1
  <2>5. QED BY <1>1, <2>1, <2>3, <2>4
<1>3. QED BY <1>1, <1>2 DEF ap, n

\* A token is read.
LEMMA TileAdded ==
  ASSUME Typed, Behind, TextIsTiled, NextToken
  PROVE  Behind' /\ TextIsTiled'
<1> DEFINE n == Len(AllTokens)
           all == Append(AllTokens, NewToken)
<1>1. UNCHANGED text /\ AllTokens' = all
  <2>1. [Next]_vars
    BY DEF Next
  <2>2. QED BY <2>1, TokensKept
<1>2. /\ NewToken \in Token /\ NewToken.from = ptr /\ NewToken.to \in ptr .. Len(text)
      /\ ptr' \in Place /\ ptr' > NewToken.to
  BY NewTokenTyped
<1>3. /\ AllTokens \in Seq(Token) /\ n \in Nat /\ Len(all) = n + 1
      /\ DOMAIN AllTokens = 1 .. n /\ DOMAIN all = 1 .. n + 1
      /\ all[n + 1] = NewToken /\ \A i \in 1 .. n : all[i] = AllTokens[i]
      /\ ToSet(all) = ToSet(AllTokens) \cup {NewToken}
  <2>1. AllTokens \in Seq(Token) /\ NewToken \in Token
    BY <1>2, AllTokensTyped
  <2>2. QED BY <2>1, OneMore
<1> HIDE DEF all, n
<1>4. /\ ptr \in Nat /\ ptr' \in Nat /\ Len(text) \in Nat /\ NewToken.to \in Nat
      /\ NewToken.to >= ptr /\ ptr' > NewToken.to
  <2>1. IsSource /\ ptr \in Place
    BY DEF Typed
  <2>2. ptr \in Nat /\ ptr' \in Nat
    BY <1>2, <2>1, PlaceIsNumber
  <2>3. Len(text) \in Nat
    BY <2>1, Characters
  <2>4. QED BY <1>2, <2>2, <2>3
<1>5. ASSUME NEW i \in 1 .. n
      PROVE  /\ AllTokens[i].to < ptr /\ AllTokens[i].from <= AllTokens[i].to
             /\ AllTokens[i].to \in Nat
  <2>1. AllTokens[i] \in Token /\ i \in DOMAIN AllTokens
    BY <1>3, ElementOfSeq DEF n
  <2>2. AllTokens[i].to \in Nat
    BY <2>1, PlaceIsNumber DEF Token, Typed
  <2>3. QED BY <2>1, <2>2 DEF Behind, TextIsTiled
<1>6. ASSUME NEW i \in 1 .. n + 1
      PROVE  all[i].to < ptr' /\ all[i].from <= all[i].to
  <2>1. CASE i = n + 1
    BY <1>2, <1>3, <1>4, <2>1
  <2>2. CASE i # n + 1
    <3>1. i \in 1 .. n
      BY <1>3, <2>2
    <3>2. all[i] = AllTokens[i] /\ AllTokens[i].to < ptr /\ AllTokens[i].from <= AllTokens[i].to
          /\ AllTokens[i].to \in Nat
      BY <1>3, <1>5, <3>1
    <3>3. AllTokens[i].to < ptr'
      BY <1>4, <3>2
    <3>4. QED BY <3>2, <3>3
  <2>3. QED BY <2>1, <2>2
<1>7. Behind'
  BY <1>1, <1>3, <1>6 DEF Behind
<1>8. ASSUME NEW i \in 1 .. n PROVE all[i].to < all[i + 1].from
  <2>1. CASE i = n
    <3>1. all[i] = AllTokens[i] /\ AllTokens[i].to < ptr /\ all[i + 1] = NewToken
      BY <1>3, <1>5, <2>1
    <3>2. QED BY <1>2, <3>1
  <2>2. CASE i # n
    <3>1. i \in 1 .. n - 1 /\ i + 1 \in 1 .. n
      BY <1>3, <2>2
    <3>2. AllTokens[i].to < AllTokens[i + 1].from
      BY <3>1 DEF TextIsTiled, n
    <3>3. QED BY <1>3, <3>1, <3>2
  <2>3. QED BY <2>1, <2>2
<1>9. ASSUME NEW i \in 1 .. ptr' - 1
      PROVE  At(i) \in {" ", "\n"} \/ \E t \in ToSet(all) : i \in t.from .. t.to
  <2>1. CASE i \in 1 .. ptr - 1
    <3>1. At(i) \in {" ", "\n"} \/ \E t \in ToSet(AllTokens) : i \in t.from .. t.to
      BY <2>1 DEF TextIsTiled
    <3>2. QED BY <1>3, <3>1
  <2>2. CASE i \in ptr .. NewToken.to
    <3>1. NewToken \in ToSet(all) /\ i \in NewToken.from .. NewToken.to
      BY <1>2, <1>3, <2>2
    <3>2. QED BY <3>1
  <2>3. CASE i \in NewToken.to + 1 .. ptr' - 1
    <3>1. \A k \in NewToken.to + 1 .. ptr' - 1 : At(k) = " "
      BY NewTokenTyped
    <3>2. QED BY <2>3, <3>1
  <2>4. i \in 1 .. ptr - 1 \/ i \in ptr .. NewToken.to \/ i \in NewToken.to + 1 .. ptr' - 1
    <3>1. PICK m \in Nat : m = NewToken.to
      BY <1>4
    <3>2. PICK q \in Nat : q = ptr'
      BY <1>4
    <3>3. i \in 1 .. q - 1
      BY <3>2
    <3>4. i \in 1 .. ptr - 1 \/ i \in ptr .. m \/ i \in m + 1 .. q - 1
      BY <1>4, <3>3
    <3>5. QED BY <3>1, <3>2, <3>4
  <2>5. QED BY <2>1, <2>2, <2>3, <2>4
<1>10. TextIsTiled'
  <2>1. \A i : At(i)' = At(i)
    BY <1>1, SameText
  <2>2. ToSet(AllTokens)' = ToSet(all)
    BY <1>1 DEF ToSet
  <2>3. \A i \in DOMAIN AllTokens' : AllTokens'[i].from <= AllTokens'[i].to
    BY <1>1, <1>3, <1>6
  <2>4. \A i \in 1 .. Len(AllTokens') - 1 : AllTokens'[i].to < AllTokens'[i + 1].from
    <3>1. Len(AllTokens') - 1 = n
      BY <1>1, <1>3
    <3>2. QED BY <1>1, <1>8, <3>1
  <2>5. \A i \in 1 .. ptr' - 1 : At(i)' \in {" ", "\n"} \/ \E t \in ToSet(all) : i \in t.from .. t.to
    BY <1>9, <2>1
  <2>6. QED BY <2>2, <2>3, <2>4, <2>5 DEF TextIsTiled
<1>11. QED BY <1>7, <1>10

\* Every step.
LEMMA TiledKept ==
  ASSUME Typed, Behind, TextIsTiled, [Next]_vars
  PROVE  Behind' /\ TextIsTiled'
<1>1. UNCHANGED text /\ (~NextToken => UNCHANGED AllTokens)
  BY TokensKept
<1>2. IsSource /\ ptr \in Place /\ ptr \in Nat
  BY Characters DEF Typed
<1>3. CASE NextToken
  BY <1>3, TileAdded
<1>4. CASE ~NextToken
  <2> SUFFICES MovesOverBlanks
    BY <1>1, <1>4, TilesKept
  <2>1. CASE StartLine
    <3>1. At(ptr) # NUL /\ ptr' = Spaces(ptr)
      BY <2>1 DEF StartLine
    <3>2. ptr' \in Place /\ ptr' >= ptr /\ \A k \in ptr .. ptr' - 1 : At(k) = " "
      BY <3>1, LineBegins
    <3>3. QED BY <3>2 DEF MovesOverBlanks, Blank
  <2>2. CASE BlankLine
    <3>1. At(ptr) # NUL /\ ptr' = Next1(Spaces(ptr)) /\ At(Spaces(ptr)) \in {"\n", NUL}
      BY <2>2 DEF BlankLine
    <3>2. PICK s \in Place : s = Spaces(ptr)
      BY <3>1, LineBegins
    <3>3. s >= ptr /\ ptr' \in Place /\ ptr' > ptr
      BY <3>1, <3>2, LineBegins
    <3>4. \A k \in ptr .. s - 1 : Blank(k)
      BY <3>1, <3>2, LineBegins DEF Blank
    <3>5. s \in Nat /\ s <= End /\ ptr' \in Nat /\ ptr' <= End /\ End \in Nat
      BY <1>2, <3>3, PlaceIsNumber
    <3>6. ASSUME NEW k \in s .. ptr' - 1 PROVE Blank(k)
      <4>1. k = s
        BY <3>1, <3>2, LineBegins
      <4>2. s # End
        <5>1. PICK q \in Nat : q = ptr'
          BY <3>5
        <5>2. k \in s .. q - 1 /\ q <= End
          BY <3>5, <5>1
        <5>3. s < q
          BY <3>5, <5>2
        <5>4. QED BY <3>5, <5>2, <5>3
      <4>3. At(s) # NUL
        BY <1>2, <4>2, Characters
      <4>4. QED BY <3>1, <3>2, <4>1, <4>3 DEF Blank
    <3>7. ASSUME NEW k \in ptr .. ptr' - 1 PROVE Blank(k)
      <4>1. k \in ptr .. s - 1 \/ k \in s .. ptr' - 1
        <5>1. PICK p \in Nat, q \in Nat : p = ptr /\ q = ptr'
          BY <1>2, <3>5
        <5>2. k \in p .. q - 1
          BY <5>1
        <5>3. k \in p .. s - 1 \/ k \in s .. q - 1
          BY <3>5, <5>2
        <5>4. QED BY <5>1, <5>3
      <4>2. QED BY <3>4, <3>6, <4>1
    <3>8. ptr' >= ptr
      BY <1>2, <3>3, <3>5
    <3>9. QED BY <3>3, <3>7, <3>8 DEF MovesOverBlanks
  <2>3. CASE EndLine
    <3>1. ptr' = Next1(ptr) /\ At(ptr) \in {"\n", NUL}
      BY <2>3 DEF EndLine
    <3>2. /\ ptr' \in Place /\ ptr' >= ptr
          /\ \A k \in ptr .. ptr' - 1 : k = ptr /\ At(ptr) # NUL
      BY <3>1, LineEnds
    <3>3. \A k \in ptr .. ptr' - 1 : Blank(k)
      BY <3>1, <3>2 DEF Blank
    <3>4. QED BY <3>2, <3>3 DEF MovesOverBlanks
  <2>4. CASE EndProgram \/ Done \/ UNCHANGED vars
    <3>1. ptr' = ptr
      BY <2>4 DEF EndProgram, Done, vars
    <3>2. ptr .. ptr' - 1 = {} /\ ptr' >= ptr
      BY <1>2, <3>1
    <3>3. QED BY <1>2, <3>1, <3>2 DEF MovesOverBlanks
  <2>5. QED BY <1>4, <2>1, <2>2, <2>3, <2>4 DEF Next
<1>5. QED BY <1>3, <1>4

-----------------------------------------------------------------------------
\* A bracket is a token of its own.
LEMMA BracketRead ==
  ASSUME IsSource, NEW i \in 1 .. Len(text), At(i) = "["
  PROVE  tokenizeSymbol(i).sym = "["
<1>1. At(i) \notin Upper
  BY DEF Upper
<1>2. At(i) \notin Nodes
  BY <1>1, NodesBegin
<1>3. At(i) \in Punctuation /\ At(i) \notin Digit /\ At(i) \notin Lower \cup {"_"}
        /\ At(i) # "\"" /\ At(i) # ";" /\ At(i) # "."
  BY DEF Punctuation, Digit, Lower
<1>4. tokenizeSymbol(i) = Symbol(At(i), i + 1)
  BY <1>2, <1>3 DEF tokenizeSymbol
<1>5. QED BY <1>4 DEF Symbol

\* What is required after a token of a line.
Next2(ts, j, at) ==
  /\ ts[j].sym = "idx" /\ j < Len(ts) => ts[j + 1].sym = "["
  /\ ts[j].sym = "idx" /\ j = Len(ts) => at = "["
  /\ ts[j].sym = "comment" => j = Len(ts) /\ at \in {"\n", NUL}

\* It is, when a token is read.
LEMMA SuitedByToken ==
  ASSUME Typed, SuitedSoFar, NextToken
  PROVE  SuitedSoFar'
<1> DEFINE n == Len(tokens)
           t == NewToken
<1>1. /\ ptr \in 1 .. Len(text) /\ IsSymbol(ptr, tokenizeSymbol(ptr)) /\ t \in Token
      /\ t.to = tokenizeSymbol(ptr).next - 1 /\ t.sym = tokenizeSymbol(ptr).sym
      /\ tokens' = Append(tokens, t)
  BY NewTokenTyped
<1>2. At(t.to + 1) # " " => ptr' = t.to + 1
  BY NewTokenTyped
<1>3. tokenizeSymbol(ptr).next = t.to + 1
  <2>1. tokenizeSymbol(ptr).next \in Nat
    BY <1>1, PlaceIsNumber DEF IsSymbol, Typed
  <2>2. QED BY <1>1, <2>1
<1>4. t.sym = "idx" => At(ptr') = "["
  BY <1>1, <1>2, <1>3 DEF IsSymbol
<1>5. t.sym = "comment" => At(ptr') \in {"\n", NUL}
  BY <1>1, <1>2, <1>3 DEF IsSymbol, NUL
<1>6. At(ptr) = "[" => t.sym = "["
  BY <1>1, BracketRead DEF Typed
<1>7. At(ptr) \notin {"\n", NUL}
  BY DEF NextToken
<1>8. /\ n \in Nat /\ Len(tokens') = n + 1 /\ DOMAIN tokens = 1 .. n /\ DOMAIN tokens' = 1 .. n + 1
      /\ tokens'[n + 1] = t /\ \A i \in 1 .. n : tokens'[i] = tokens[i]
  <2>1. tokens \in Seq(Token)
    BY DEF Typed
  <2>2. QED BY <1>1, <2>1, OneMore
<1> HIDE DEF n, t
<1>9. ASSUME NEW j \in 1 .. n + 1 PROVE Next2(tokens', j, At(ptr'))
  <2>1. CASE j = n + 1
    <3>1. tokens'[j] = t /\ j = Len(tokens') /\ ~(j < Len(tokens'))
      BY <1>8, <2>1
    <3>2. QED BY <1>4, <1>5, <3>1 DEF Next2
  <2>2. CASE j # n + 1
    <3>1. j \in 1 .. n /\ j # Len(tokens') /\ tokens'[j] = tokens[j] /\ j \in DOMAIN tokens
      BY <1>8, <2>2
    <3>2. tokens[j].sym # "comment"
      BY <1>7, <3>1 DEF SuitedSoFar
    <3>3. ASSUME tokens[j].sym = "idx" PROVE tokens'[j + 1].sym = "["
      <4>1. CASE j = n
        <5>1. At(ptr) = "["
          BY <3>1, <3>3, <4>1 DEF SuitedSoFar, n
        <5>2. QED BY <1>6, <1>8, <4>1, <5>1
      <4>2. CASE j # n
        <5>1. j + 1 \in 1 .. n /\ j < n
          BY <1>8, <3>1, <4>2
        <5>2. tokens[j + 1].sym = "["
          BY <3>1, <3>3, <5>1 DEF SuitedSoFar, n
        <5>3. QED BY <1>8, <5>1, <5>2
      <4>3. QED BY <4>1, <4>2
    <3>4. QED BY <3>1, <3>2, <3>3 DEF Next2
  <2>3. QED BY <2>1, <2>2
<1>10. At(ptr)' = At(ptr') /\ NUL' = NUL
  BY DEF NextToken, At, NUL
<1>11. \A j \in DOMAIN tokens' :
         /\ tokens'[j].sym = "idx" /\ j < Len(tokens') => tokens'[j + 1].sym = "["
         /\ tokens'[j].sym = "idx" /\ j = Len(tokens') => At(ptr)' = "["
         /\ tokens'[j].sym = "comment" => j = Len(tokens') /\ At(ptr)' \in {"\n", NUL}
  BY <1>8, <1>9, <1>10 DEF Next2
<1>12. QED BY <1>11 DEF SuitedSoFar

\* A line that ends is one for the assembler.
LEMMA SuitedLine ==
  ASSUME Typed, Counted, SuitedSoFar, EndLine
  PROVE  tokens # <<>> /\ Suited(tokens)
<1>1. phase = "line" /\ At(ptr) \in {"\n", NUL}
  BY DEF EndLine
<1>2. tokens # <<>>
  BY <1>1 DEF Counted
<1>3. At(ptr) # "["
  BY <1>1 DEF NUL
<1>4. tokens \in Seq(Token) /\ DOMAIN tokens = 1 .. Len(tokens) /\ Len(tokens) \in Nat
  BY LenProperties DEF Typed
<1>5. ASSUME NEW j \in DOMAIN tokens
      PROVE  /\ tokens[j].sym = "idx" => j < Len(tokens) /\ tokens[j + 1].sym = "["
             /\ tokens[j].sym = "comment" => j = Len(tokens)
  <2>1. j < Len(tokens) \/ j = Len(tokens)
    BY <1>4
  <2>2. QED BY <1>3, <2>1 DEF SuitedSoFar
<1>6. QED BY <1>2, <1>5 DEF Suited

\* Every step.
LEMMA SuitsKept ==
  ASSUME Typed, Counted, Suits, [Next]_vars
  PROVE  Suits'
<1>1. SuitedSoFar /\ \A i \in DOMAIN lines : lines[i].tokens # <<>> /\ Suited(lines[i].tokens)
  BY DEF Suits, SuitsAssembler, Suited
<1>2. (\A i \in DOMAIN lines' : lines'[i].tokens # <<>> /\ Suited(lines'[i].tokens)) => SuitsAssembler'
  BY DEF SuitsAssembler, Suited
<1>3. tokens' = <<>> => SuitedSoFar'
  BY DEF SuitedSoFar
<1>4. CASE BlankLine \/ StartLine \/ EndProgram
  <2>1. UNCHANGED <<lines, tokens>> /\ phase = "program"
    BY <1>4 DEF BlankLine, StartLine, EndProgram
  <2>2. tokens = <<>>
    BY <2>1 DEF Counted
  <2>3. QED BY <1>1, <1>2, <1>3, <2>1, <2>2 DEF Suits
<1>5. CASE NextToken
  <2>1. UNCHANGED lines
    BY <1>5 DEF NextToken
  <2>2. QED BY <1>1, <1>2, <1>5, <2>1, SuitedByToken DEF Suits
<1>6. CASE EndLine
  <2>1. lines' = Append(lines, TheLine) /\ TheLine.tokens = tokens /\ tokens' = <<>>
    BY <1>6 DEF EndLine, TheLine
  <2>2. tokens # <<>> /\ Suited(tokens)
    BY <1>1, <1>6, SuitedLine
  <2> DEFINE R == {TheLine} \cup Line
  <2>3. lines \in Seq(R) /\ TheLine \in R
    BY SeqMonotonic DEF Typed
  <2> HIDE DEF R
  <2>4. /\ Len(lines) \in Nat /\ DOMAIN lines = 1 .. Len(lines) /\ DOMAIN lines' = 1 .. Len(lines) + 1
        /\ lines'[Len(lines) + 1] = TheLine /\ \A i \in 1 .. Len(lines) : lines'[i] = lines[i]
    BY <2>1, <2>3, OneMore
  <2>5. ASSUME NEW i \in DOMAIN lines' PROVE lines'[i].tokens # <<>> /\ Suited(lines'[i].tokens)
    <3>1. CASE i = Len(lines) + 1
      BY <2>1, <2>2, <2>4, <3>1
    <3>2. CASE i # Len(lines) + 1
      <4>1. i \in 1 .. Len(lines)
        BY <2>4, <3>2
      <4>2. QED BY <1>1, <2>4, <4>1
    <3>3. QED BY <3>1, <3>2
  <2>6. QED BY <1>2, <1>3, <2>1, <2>5 DEF Suits
<1>7. CASE Done \/ UNCHANGED vars
  <2>1. UNCHANGED <<text, ptr, tokens, lines>>
    BY <1>7 DEF Done, vars
  <2>2. SuitedSoFar'
    BY <1>1, <2>1 DEF SuitedSoFar, At
  <2>3. QED BY <1>1, <1>2, <2>1, <2>2 DEF Suits
<1>8. QED BY <1>4, <1>5, <1>6, <1>7 DEF Next

-----------------------------------------------------------------------------
\* What KeywordsFound says of one token.
FoundAt(t) ==
  /\ t.sym \in Keywords => SubSeq(text, t.from, t.to) = t.sym
  /\ \A k \in Keywords : KeywordAt(t.from, k) => t.sym = k

\* The property is that of all tokens.
LEMMA FoundAll == KeywordsFound <=> \A t \in ToSet(AllTokens) : FoundAt(t)
BY DEF KeywordsFound, FoundAt, KeywordAt, TextOf

\* Keywords are found in every step.
LEMMA FoundKept ==
  ASSUME Typed, KeywordsFound, [Next]_vars
  PROVE  KeywordsFound'
<1>1. UNCHANGED text
  BY TokensKept
<1>2. \A t : FoundAt(t)' = FoundAt(t)
  <2>1. \A i, k : KeywordAt(i, k)' = KeywordAt(i, k)
    BY <1>1 DEF KeywordAt, At
  <2>2. QED BY <1>1, <2>1 DEF FoundAt
<1>3. \A t \in ToSet(AllTokens) : FoundAt(t)
  BY FoundAll
<1>4. (\A t \in ToSet(AllTokens)' : FoundAt(t)) => KeywordsFound'
  <2>1. KeywordsFound' <=> \A t \in ToSet(AllTokens)' : FoundAt(t)'
    BY DEF KeywordsFound, FoundAt, KeywordAt, TextOf
  <2>2. QED BY <1>2, <2>1
<1>5. CASE ~NextToken
  <2>1. ToSet(AllTokens)' = ToSet(AllTokens)
    BY <1>5, TokensKept DEF ToSet
  <2>2. QED BY <1>3, <1>4, <2>1
<1>6. CASE NextToken
  <2>1. /\ ptr \in 1 .. Len(text) /\ IsSymbol(ptr, tokenizeSymbol(ptr)) /\ NewToken \in Token
        /\ NewToken.from = ptr /\ NewToken.to = tokenizeSymbol(ptr).next - 1
        /\ NewToken.sym = tokenizeSymbol(ptr).sym
    BY <1>6, NewTokenTyped
  <2>2. FoundAt(NewToken)
    <3>1. NewToken.sym \in Keywords => SubSeq(text, NewToken.from, NewToken.to) = NewToken.sym
      BY <2>1 DEF IsSymbol
    <3>2. \A k \in Keywords : KeywordAt(NewToken.from, k) => NewToken.sym = k
      BY <2>1, KeywordIsRead DEF Typed
    <3>3. QED BY <3>1, <3>2 DEF FoundAt
  <2>3. ToSet(AllTokens)' = ToSet(AllTokens) \cup {NewToken}
    <3>1. AllTokens' = Append(AllTokens, NewToken)
      BY <1>6, TokensKept
    <3>2. AllTokens \in Seq(Token)
      BY AllTokensTyped
    <3>3. ToSet(Append(AllTokens, NewToken)) = ToSet(AllTokens) \cup {NewToken}
      BY <2>1, <3>2, OneMore
    <3>4. ToSet(AllTokens)' = ToSet(Append(AllTokens, NewToken))
      BY <3>1 DEF ToSet
    <3>5. QED BY <3>3, <3>4
  <2>4. QED BY <1>3, <1>4, <2>2, <2>3
<1>7. QED BY <1>5, <1>6

-----------------------------------------------------------------------------
\* No step leaves the invariant.
LEMMA IInvKept == IInv /\ [Next]_vars => IInv'
<1> SUFFICES ASSUME IInv, [Next]_vars PROVE IInv'
  OBVIOUS
<1>1. Typed /\ Counted /\ Behind /\ TextIsTiled /\ Suits /\ KeywordsFound
  BY DEF IInv
<1>2. Typed' /\ Counted' /\ Behind' /\ TextIsTiled' /\ Suits' /\ KeywordsFound'
  BY <1>1, TypedKept, CountedKept, TiledKept, SuitsKept, FoundKept
<1>3. QED BY <1>2 DEF IInv

\* It holds of every text at every time.
LEMMA Invariance == Spec => []IInv
BY InitIInv, IInvKept, PTL DEF Spec

\* The iterator, the start of the line and the line's number stay in the text, the
\* tokens are symbols at places of it, and every line has a number of its own.
THEOREM TypesHold == Spec => []TypeOK
<1>1. IInv => TypeOK
  <2> SUFFICES ASSUME IInv PROVE TypeOK
    OBVIOUS
  <2>1. Typed /\ Counted
    BY DEF IInv
  <2>2. /\ IsSource /\ ptr \in Place /\ start \in Place /\ line_nr \in Nat \ {0}
        /\ phase \in {"program", "line", "done"}
    BY <2>1 DEF Typed
  <2>3. text \in STRING
    BY <2>2, TextsAssumption DEF IsSource, IsString
  <2>4. line_nr \in 1 .. Len(text) + 1
    <3>1. /\ Len(text) \in Nat /\ ptr \in 1 .. Len(text) + 1 /\ start \in 1 .. Len(text) + 1
      BY <2>2, Characters DEF Place, End
    <3>2. line_nr <= ptr \/ line_nr <= start \/ line_nr <= Len(text) + 1
      BY <2>1, <2>2 DEF Counted, End
    <3>3. QED BY <2>2, <3>1, <3>2
  <2>5. \A i \in DOMAIN AllTokens : AllTokens[i] \in Token
    BY <2>1, AllTokensTyped, ElementOfSeq
  <2>6. \A i \in DOMAIN lines : lines[i].line_nr \in 1 .. line_nr - 1
    BY <2>1 DEF Counted
  <2>7. phase # "line" => tokens = <<>>
    BY <2>1, <2>2 DEF Counted
  <2>8. QED BY <2>2, <2>3, <2>4, <2>5, <2>6, <2>7 DEF TypeOK
<1>2. QED BY <1>1, Invariance, PTL

\* The tokens lie in the order of the text and do not overlap, and all that has been
\* read is in one of them but spaces and newlines.
THEOREM TokensTileText == Spec => []TextIsTiled
<1>1. IInv => TextIsTiled
  BY DEF IInv
<1>2. QED BY <1>1, Invariance, PTL

\* A keyword before a delimiter is found, and nothing else is taken for one.
THEOREM EveryKeywordFound == Spec => []KeywordsFound
<1>1. IInv => KeywordsFound
  BY DEF IInv
<1>2. QED BY <1>1, Invariance, PTL

\* Every line that the assembler gets has a token, an index its bracket, and nothing
\* after a comment.
THEOREM LinesSuit == Spec => []SuitsAssembler
<1>1. IInv => SuitsAssembler
  BY DEF IInv, Suits
<1>2. QED BY <1>1, Invariance, PTL

-----------------------------------------------------------------------------
\* No step leaves as much to do as there was.
LEMMA StepAdvances ==
  ASSUME IInv, [Next]_vars
  PROVE  [Work' < Work]_vars
<1>1. Typed /\ Counted /\ UNCHANGED text
  BY TokensKept DEF IInv
<1>2. Typed'
  BY <1>1, TypedKept
<1>3. /\ ptr \in Nat /\ ptr' \in Nat /\ Len(text) \in Nat /\ Len(text)' = Len(text)
  <2>1. IsSource /\ ptr \in Place /\ IsSource' /\ ptr' \in Place'
    BY <1>1, <1>2 DEF Typed
  <2>2. ptr' \in Place
    BY <1>1, <2>1, SameText
  <2>3. Len(text) \in Nat
    BY <2>1, Characters
  <2>4. QED BY <1>1, <2>1, <2>2, <2>3, PlaceIsNumber
<1> DEFINE Rest == CASE phase = "line" /\ tokens # <<>> -> 3
                     [] phase = "program"               -> 2
                     [] phase = "line" /\ tokens = <<>> -> 1
                     [] OTHER                           -> 0
<1>4. Work = 3 * (Len(text) + 1 - ptr) + Rest /\ Work' = 3 * (Len(text) + 1 - ptr') + Rest'
  BY <1>3 DEF Work
<1>5. ASSUME NEW l \in Nat, NEW p \in Nat, NEW q \in Nat, NEW r \in 0 .. 3, NEW s \in 0 .. 3,
             (q > p /\ s < r + 3) \/ (q >= p /\ s < r)
      PROVE  3 * (l + 1 - q) + s < 3 * (l + 1 - p) + r
  BY <1>5
<1> DEFINE Advances == (ptr' > ptr /\ Rest' < Rest + 3) \/ (ptr' >= ptr /\ Rest' < Rest)
<1>6. Rest \in 0 .. 3 /\ Rest' \in 0 .. 3
  OBVIOUS
<1>7. CASE BlankLine
  <2>1. ptr' > ptr /\ phase = "program" /\ phase' = "program"
    BY <1>1, <1>7, LineBegins DEF BlankLine
  <2>2. Rest = 2 /\ Rest' = 2
    BY <2>1
  <2>3. Advances
    BY <2>1, <2>2
  <2> HIDE DEF Rest
  <2>4. Work' < Work
    BY <1>3, <1>4, <1>5, <1>6, <2>3
  <2>5. QED BY <2>4
<1>8. CASE StartLine
  <2>1. ptr' >= ptr /\ phase = "program" /\ phase' = "line" /\ tokens' = tokens
    BY <1>1, <1>8, LineBegins DEF StartLine
  <2>2. tokens = <<>>
    BY <1>1, <2>1 DEF Counted
  <2>3. Rest = 2 /\ Rest' = 1
    BY <2>1, <2>2
  <2>4. Advances
    BY <2>1, <2>3
  <2> HIDE DEF Rest
  <2>5. Work' < Work
    BY <1>3, <1>4, <1>5, <1>6, <2>4
  <2>6. QED BY <2>5
<1>9. CASE NextToken
  <2>1. phase = "line" /\ phase' = "line" /\ ptr' > NewToken.to /\ NewToken.to \in ptr .. Len(text)
    BY <1>1, <1>9, NewTokenTyped DEF NextToken
  <2>2. ptr' > ptr
    BY <1>3, <2>1
  <2>3. Rest \in {1, 3} /\ Rest' \in {1, 3}
    BY <2>1
  <2>4. Advances
    <3> HIDE DEF Rest
    <3>1. QED BY <2>2, <2>3
  <2> HIDE DEF Rest
  <2>5. Work' < Work
    BY <1>3, <1>4, <1>5, <1>6, <2>4
  <2>6. QED BY <2>5
<1>10. CASE EndLine
  <2>1. phase = "line" /\ phase' = "program" /\ ptr' >= ptr /\ At(ptr) \in {"\n", NUL}
    BY <1>1, <1>10, LineEnds DEF EndLine
  <2>2. tokens # <<>>
    BY <1>1, <2>1 DEF Counted
  <2>3. Rest = 3 /\ Rest' = 2
    BY <2>1, <2>2
  <2>4. Advances
    BY <2>1, <2>3
  <2> HIDE DEF Rest
  <2>5. Work' < Work
    BY <1>3, <1>4, <1>5, <1>6, <2>4
  <2>6. QED BY <2>5
<1>11. CASE EndProgram
  <2>1. phase = "program" /\ phase' = "done" /\ ptr' = ptr
    BY <1>11 DEF EndProgram
  <2>2. Rest = 2 /\ Rest' = 0 /\ ptr' >= ptr
    BY <1>3, <2>1
  <2>3. Advances
    BY <2>2
  <2> HIDE DEF Rest
  <2>4. Work' < Work
    BY <1>3, <1>4, <1>5, <1>6, <2>3
  <2>5. QED BY <2>4
<1>12. CASE Done \/ UNCHANGED vars
  BY <1>12 DEF Done
<1>13. QED BY <1>7, <1>8, <1>9, <1>10, <1>11, <1>12 DEF Next

\* Every call of tokenizeLine or tokenizeSymbol lessens what is left to do: no text
\* keeps the tokenizer for ever.
THEOREM StepsAdvance == Spec => EveryStepAdvances
<1>1. IInv /\ [Next]_vars => [Work' < Work]_vars
  BY StepAdvances
<1>2. QED BY <1>1, Invariance, PTL DEF Spec, EveryStepAdvances

-----------------------------------------------------------------------------
(***************************************************************************)
(* The numbers of lines: how many newlines lie between two places, and how *)
(* many lie in tokens.                                                     *)
(***************************************************************************)
\* The newlines of a piece of text, and none where there is none.
LEMMA BreaksCounted ==
  ASSUME NEW a \in Int, NEW b \in Int
  PROVE  /\ Newlines(a, b) \in Nat
         /\ (\A i \in a .. b : At(i) # "\n") => Newlines(a, b) = 0
<1> DEFINE B == {i \in a .. b : At(i) = "\n"}
<1>1. IsFiniteSet(a .. b) /\ B \in SUBSET (a .. b)
  BY FS_Interval
<1>2. IsFiniteSet(B)
  <2> HIDE DEF B
  <2>1. QED BY <1>1, FS_Subset
<1>3. Cardinality(B) \in Nat /\ Newlines(a, b) = Cardinality(B)
  BY <1>2, FS_CardinalityType DEF Newlines
<1>4. ASSUME \A i \in a .. b : At(i) # "\n" PROVE Cardinality(B) = 0
  <2>1. B = {}
    BY <1>4
  <2> HIDE DEF B
  <2>2. QED BY <2>1, FS_EmptySet
<1>5. QED BY <1>3, <1>4

\* Two pieces, one after the other.
LEMMA BreaksSplit ==
  ASSUME NEW a \in Int, NEW b \in Int, NEW c \in Int, a <= b, b <= c + 1
  PROVE  Newlines(a, c) = Newlines(a, b - 1) + Newlines(b, c)
<1> DEFINE B(i, j) == {k \in i .. j : At(k) = "\n"}
<1>1. (a .. c) = (a .. b - 1) \cup (b .. c) /\ (a .. b - 1) \cap (b .. c) = {}
  OBVIOUS
<1>2. B(a, c) = B(a, b - 1) \cup B(b, c) /\ B(a, b - 1) \cap B(b, c) = {}
  BY <1>1
<1>3. ASSUME NEW i \in Int, NEW j \in Int PROVE IsFiniteSet(B(i, j)) /\ Cardinality(B(i, j)) = Newlines(i, j)
  <2>1. IsFiniteSet(i .. j) /\ B(i, j) \in SUBSET (i .. j)
    BY FS_Interval
  <2>2. Cardinality(B(i, j)) = Newlines(i, j)
    BY DEF Newlines
  <2> HIDE DEF B
  <2>3. QED BY <2>1, <2>2, FS_Subset
<1>4. b - 1 \in Int
  OBVIOUS
<1>5. Newlines(a, c) \in Nat /\ Newlines(a, b - 1) \in Nat /\ Newlines(b, c) \in Nat
  BY <1>4, BreaksCounted
<1> HIDE DEF B
<1>6. IsFiniteSet(B(a, b - 1)) /\ IsFiniteSet(B(b, c))
  BY <1>3, <1>4
<1>7. Cardinality(B(a, c)) = Cardinality(B(a, b - 1)) + Cardinality(B(b, c)) - Cardinality({})
  BY <1>2, <1>6, FS_Union
<1>8. Newlines(a, c) = Newlines(a, b - 1) + Newlines(b, c) - 0
  BY <1>3, <1>4, <1>7, FS_EmptySet
<1>9. QED BY <1>5, <1>8

\* One newline.
LEMMA OneBreak ==
  ASSUME NEW a \in Int, At(a) = "\n"
  PROVE  Newlines(a, a) = 1
<1>1. {k \in a .. a : At(k) = "\n"} = {a}
  OBVIOUS
<1>2. QED BY <1>1, FS_Singleton DEF Newlines

TokenBreaks(t) == Newlines(t.from, t.to)
AllBreaks(S)   == MapThenSumSet(LAMBDA t : Newlines(t.from, t.to), S)

\* The fold by which they are added up.
AddsUp(it, S) ==
  it = [s \in SUBSET S |-> IF s = {} THEN 0 ELSE TokenBreaks(First(s)) + it[s \ {First(s)}]]
Chosen(S) == CHOOSE it : AddsUp(it, S)

\* What MapThenSumSet stands for.
LEMMA SumIsFold == \A S : AllBreaks(S) = Chosen(S)[S]
  BY DEF AllBreaks, Chosen, AddsUp, TokenBreaks, First, MapThenSumSet, MapThenFoldSet

\* It is the sum of what the tokens have, in whatever order.
LEMMA BreaksAreSum ==
  ASSUME IsSource, NEW D \in SUBSET Token, IsFiniteSet(D)
  PROVE  \E F : /\ Sums(F, [t \in D |-> TokenBreaks(t)], D)
                /\ \A T \in SUBSET D : AllBreaks(T) = F[T]
<1> DEFINE g == [t \in D |-> TokenBreaks(t)]
<1>1. g \in [D -> Int]
  <2>1. ASSUME NEW t \in Token PROVE TokenBreaks(t) \in Int
    <3>1. t.from \in Int /\ t.to \in Int
      BY PlaceIsNumber DEF Token
    <3>2. Newlines(t.from, t.to) \in Nat
      BY <3>1, BreaksCounted
    <3>3. QED BY <3>2 DEF TokenBreaks
  <2>2. QED BY <2>1
<1>2. \A t \in D : g[t] = TokenBreaks(t)
  OBVIOUS
<1> HIDE DEF g
<1>3. PICK F \in [SUBSET D -> Int] : IsFold(F, g, D)
  BY <1>1, FoldExists
<1>4. Sums(F, g, D)
  BY <1>1, <1>3, FoldsAreSums
<1>5. ASSUME NEW T \in SUBSET D PROVE AllBreaks(T) = F[T]
  <2> DEFINE it == [s \in SUBSET T |-> F[s]]
  <2>1. AddsUp(it, T)
    <3>1. ASSUME NEW s \in SUBSET T
          PROVE  F[s] = IF s = {} THEN 0 ELSE TokenBreaks(First(s)) + it[s \ {First(s)}]
      <4>1. CASE s = {}
        BY <4>1, <1>3 DEF IsFold
      <4>2. CASE s # {}
        <5>1. First(s) \in s /\ s \ {First(s)} \in SUBSET T /\ s \in SUBSET D
          BY <4>2 DEF First
        <5>2. F[s] = g[First(s)] + F[s \ {First(s)}]
          BY <1>3, <4>2, <5>1 DEF IsFold
        <5>3. g[First(s)] = TokenBreaks(First(s))
          BY <1>2, <5>1
        <5>4. it[s \ {First(s)}] = F[s \ {First(s)}]
          BY <5>1
        <5> HIDE DEF it
        <5>5. QED BY <4>2, <5>2, <5>3, <5>4
      <4>3. QED BY <4>1, <4>2
    <3>2. QED BY <3>1 DEF AddsUp
  <2> HIDE DEF it
  <2>2. AddsUp(Chosen(T), T)
    BY <2>1 DEF Chosen
  <2> DEFINE ch == Chosen(T)
  <2> HIDE DEF ch
  <2>3. ch = [s \in SUBSET T |-> IF s = {} THEN 0 ELSE TokenBreaks(First(s)) + ch[s \ {First(s)}]]
    BY <2>2 DEF AddsUp, ch
  <2>4. ASSUME NEW s \in SUBSET T, s # {} PROVE ch[s] = g[First(s)] + ch[s \ {First(s)}]
    <3>1. First(s) \in D
      BY <2>4 DEF First
    <3>2. ch[s] = TokenBreaks(First(s)) + ch[s \ {First(s)}]
      BY <2>3, <2>4
    <3>3. QED BY <1>2, <3>1, <3>2
  <2>5. ch[{}] = 0
    BY <2>3
  <2>6. IsFold(ch, g, T)
    BY <2>4, <2>5 DEF IsFold
  <2>7. ch[T] = F[T]
    BY <1>4, <2>6, FoldIsSum
  <2>8. QED BY <2>7, SumIsFold DEF ch
<1>6. QED BY <1>4, <1>5 DEF g

\* The sum of finitely many is a number.
LEMMA BreaksAreNumbers ==
  ASSUME IsSource, NEW S \in SUBSET Token, IsFiniteSet(S)
  PROVE  AllBreaks(S) \in Int /\ AllBreaks({}) = 0
<1>1. PICK F : /\ Sums(F, [t \in S |-> TokenBreaks(t)], S)
               /\ \A T \in SUBSET S : AllBreaks(T) = F[T]
  BY BreaksAreSum
<1>2. F \in [SUBSET S -> Int] /\ F[{}] = 0
  BY <1>1 DEF Sums
<1>3. QED BY <1>1, <1>2

\* One token more.
LEMMA BreaksAdded ==
  ASSUME IsSource, NEW S \in SUBSET Token, IsFiniteSet(S), NEW x \in Token, x \notin S
  PROVE  /\ IsFiniteSet(S \cup {x})
         /\ AllBreaks(S \cup {x}) = AllBreaks(S) + TokenBreaks(x)
<1> DEFINE D == S \cup {x}
           g == [t \in D |-> TokenBreaks(t)]
<1>1. IsFiniteSet(D) /\ D \in SUBSET Token
  BY FS_AddElement
<1>2. PICK F : Sums(F, g, D) /\ \A T \in SUBSET D : AllBreaks(T) = F[T]
  <2> HIDE DEF D
  <2>1. QED BY <1>1, BreaksAreSum
<1>3. AllBreaks(S) = F[S] /\ AllBreaks(D) = F[D]
  BY <1>2
<1>4. AllBreaks(S) \in Int
  BY BreaksAreNumbers
<1>5. TokenBreaks(x) \in Int
  <2>1. x.from \in Int /\ x.to \in Int
    BY PlaceIsNumber DEF Token
  <2>2. Newlines(x.from, x.to) \in Nat
    BY <2>1, BreaksCounted
  <2>3. QED BY <2>2 DEF TokenBreaks
<1>6. F[D] = g[x] + F[D \ {x}] /\ D \ {x} = S /\ g[x] = TokenBreaks(x)
  BY <1>2 DEF Sums
<1> HIDE DEF g, D
<1>7. AllBreaks(D) = TokenBreaks(x) + AllBreaks(S)
  BY <1>3, <1>6
<1>8. AllBreaks(D) = AllBreaks(S) + TokenBreaks(x)
  <2>1. PICK a \in Int, b \in Int : a = TokenBreaks(x) /\ b = AllBreaks(S)
    BY <1>4, <1>5
  <2>2. QED BY <1>7, <2>1
<1>9. QED BY <1>1, <1>8 DEF D

\* The counts do not change with what has been read.
LEMMA SameBreaks ==
  ASSUME UNCHANGED text
  PROVE  /\ \A a, b : Newlines(a, b)' = Newlines(a, b)
         /\ \A S : AllBreaks(S)' = AllBreaks(S)
<1>1. \A i : At(i)' = At(i)
  BY SameText
<1>2. \A a, b : Newlines(a, b)' = Newlines(a, b)
  BY <1>1 DEF Newlines
<1>3. \A t : TokenBreaks(t)' = TokenBreaks(t)
  BY <1>2 DEF TokenBreaks
<1>4. ASSUME NEW S PROVE Chosen(S)' = Chosen(S)
  <2>1. \A it : AddsUp(it, S)' <=> AddsUp(it, S)
    BY <1>3 DEF AddsUp
  <2>2. QED BY <2>1 DEF Chosen
<1>5. \A S : AllBreaks(S)' = Chosen(S)'[S]
  BY DEF AllBreaks, Chosen, AddsUp, TokenBreaks, First, MapThenSumSet, MapThenFoldSet
<1>6. QED BY <1>2, <1>4, <1>5, SumIsFold

-----------------------------------------------------------------------------
(***************************************************************************)
(* Newlines in tokens.                                                     *)
(***************************************************************************)
Smooth(i, j) == \A k \in i .. j - 1 : At(k) # "\n"

\* A token of the symbol and the end s contains none, or is one of the two kinds
\* that may.
MayBreak(i, s) ==
  \/ Smooth(i, s.next)
  \/ s.sym = "bytes"
  \/ s.sym = "unknown" /\ SubSeq(text, i, Until(i, {"\n"}) - 1) \in Inner \ Registers

\* Characters of a class without newline add none.
LEMMA SmoothRun ==
  ASSUME IsSource, NEW S, NUL \notin S, "\n" \notin S,
         NEW i \in Int, NEW j \in Place, i <= j, Smooth(i, j)
  PROVE  Skip(j, S) \in j .. End /\ Skip(j, S) \in Place /\ Smooth(i, Skip(j, S))
<1>1. j \in Int /\ End \in Int
  BY PlaceIsNumber
<1>2. PICK e \in j .. End : e = Skip(j, S) /\ \A k \in j .. e - 1 : At(k) \in S
  BY Skips
<1>3. ASSUME NEW k \in i .. e - 1 PROVE At(k) # "\n"
  <2>1. CASE k \in i .. j - 1
    BY <2>1 DEF Smooth
  <2>2. CASE k \in j .. e - 1
    BY <1>2, <2>2
  <2>3. k \in i .. j - 1 \/ k \in j .. e - 1
    BY <1>1
  <2>4. QED BY <2>1, <2>2, <2>3
<1>4. Skip(j, S) \in Place
  BY Skips
<1>5. QED BY <1>2, <1>3, <1>4 DEF Smooth

\* The characters of words are no newlines.
LEMMA NoBreakInside ==
  /\ NUL \notin AlphaNum /\ "\n" \notin AlphaNum
  /\ NUL \notin LabelChar /\ "\n" \notin LabelChar
  /\ NUL \notin HexDigit /\ "\n" \notin HexDigit
  /\ "\n" \notin Upper \cup {"0", "1"}
<1>1. \A c \in {NUL, "\n"} : c \notin Digit /\ c \notin Lower /\ c \notin Upper
  BY DEF NUL, Digit, Lower, Upper
<1>2. \A c \in {NUL, "\n"} : c \notin {"_", "0", "1", "a", "b", "c", "d", "e", "f", "A", "B", "C", "D", "E", "F"}
  BY DEF NUL
<1>3. QED BY <1>1, <1>2 DEF AlphaNum, LabelChar, HexDigit

\* Errors: the letters and digits that are dropped.
LEMMA UnknownBreaks ==
  ASSUME IsSource, NEW i \in Int, NEW j \in Place, i <= j, Smooth(i, j)
  PROVE  MayBreak(i, unknown(j))
<1>1. Smooth(i, Skip(j, AlphaNum))
  BY SmoothRun, NoBreakInside
<1>2. QED BY <1>1 DEF MayBreak, unknown, Symbol

\* Words of capitals: the newline after one that a keyword begins with.
LEMMA KeywordBreaks ==
  ASSUME IsSource, NEW i \in 1 .. Len(text), At(i) \in Nodes
  PROVE  MayBreak(i, Keyword(i))
<1> DEFINE n == Longest(i)
           w == WordAt(i, n)
           e == i + n
           accepted == \/ w \in Registers
                       \/ w = "HALT" /\ At(e) \notin AlphaNum
                       \/ w \in Keywords /\ At(e) \in Delimiter
<1>1. Keyword(i) = CASE accepted                  -> Symbol(w, e)
                     [] ~accepted /\ w \in Inner  -> unknown(Next1(e))
                     [] OTHER                     -> unknown(e)
  BY DEF Keyword, Longest, IsLongest, WordAt
<1>2. n \in 1 .. Len(text) + 1 - i /\ w \in Nodes
  BY LongestExists DEF IsLongest
<1>3. e \in Place /\ e > i /\ i <= e /\ e - 1 = i + n - 1 /\ i \in Place /\ i \in Int /\ e \in Int
  BY <1>2, Characters DEF End
<1>4. SubSeq(text, i, e - 1) = w
  BY <1>3 DEF WordAt
<1>5. Smooth(i, e)
  <2>1. \A k \in i .. i + n - 1 : At(k) \in Upper \cup {"0", "1"}
    <3> HIDE DEF n
    <3>1. QED BY <1>2, WordOfCapitals
  <2>2. QED BY <1>3, <2>1, NoBreakInside DEF Smooth
<1>6. w \in Registers => accepted
  OBVIOUS
<1> HIDE DEF w, e, n, accepted
<1>7. CASE accepted
  <2>1. Keyword(i) = Symbol(w, e)
    BY <1>1, <1>7
  <2>2. QED BY <1>5, <2>1 DEF MayBreak, Symbol
<1>8. CASE ~accepted /\ w \in Inner
  <2>1. Keyword(i) = unknown(Next1(e))
    BY <1>1, <1>8
  <2>2. Next1(e) \in Place /\ Next1(e) \in e .. e + 1
    BY <1>3, NextPlace
  <2>3. CASE At(e) = "\n"
    <3>1. PICK u \in i .. End : /\ u = Until(i, {"\n"}) /\ At(u) \in {"\n", NUL}
                                /\ \A k \in i .. u - 1 : At(k) \notin {"\n"}
      BY <1>3, Untils
    <3>2. u <= e
      <4>1. SUFFICES ASSUME e < u PROVE FALSE
        BY <1>3
      <4>2. e \in i .. u - 1
        BY <1>3, <4>1
      <4>3. QED BY <2>3, <3>1, <4>2
    <3>3. u >= e
      <4>1. SUFFICES ASSUME u < e PROVE FALSE
        BY <1>3
      <4>2. u \in i .. e - 1 /\ u \in Place /\ u # End
        BY <1>3, <4>1, Characters
      <4>3. At(u) # "\n"
        BY <1>5, <4>2 DEF Smooth
      <4>4. At(u) # NUL
        BY <4>2, Characters
      <4>5. QED BY <3>1, <4>3, <4>4
    <3>4. Until(i, {"\n"}) = e
      BY <1>3, <3>1, <3>2, <3>3
    <3>5. SubSeq(text, i, Until(i, {"\n"}) - 1) \in Inner \ Registers
      BY <1>4, <1>6, <1>8, <3>4
    <3>6. unknown(Next1(e)).sym = "unknown"
      BY DEF unknown, Symbol
    <3>7. QED BY <2>1, <3>5, <3>6 DEF MayBreak
  <2>4. CASE At(e) # "\n"
    <3>1. Smooth(i, Next1(e))
      <4>1. ASSUME NEW k \in i .. Next1(e) - 1 PROVE k = e \/ k \in i .. e - 1
        BY <1>3, <2>2
      <4>2. QED BY <1>5, <2>4, <4>1 DEF Smooth
    <3>2. i <= Next1(e)
      BY <1>3, <2>2
    <3>3. QED BY <1>3, <2>1, <2>2, <3>1, <3>2, UnknownBreaks
  <2>5. QED BY <2>3, <2>4
<1>9. CASE ~accepted /\ w \notin Inner
  <2>1. Keyword(i) = unknown(e)
    BY <1>1, <1>9
  <2>2. QED BY <1>3, <1>5, <2>1, UnknownBreaks
<1>10. QED BY <1>7, <1>8, <1>9

\* No newline at i, and none after it in the run of characters of a class.
LEMMA SmoothFrom ==
  ASSUME IsSource, NEW i \in 1 .. Len(text), At(i) # "\n"
  PROVE  i \in Int /\ i + 1 \in Place /\ i <= i + 1 /\ Smooth(i, i + 1)
<1>1. i + 1 \in Place /\ i \in Int /\ i <= i + 1
  BY Characters DEF End
<1>2. \A k \in i .. (i + 1) - 1 : k = i
  BY <1>1
<1>3. QED BY <1>1, <1>2 DEF Smooth

\* Numbers have none.
LEMMA NumberBreaks ==
  ASSUME IsSource, NEW i \in 1 .. Len(text), At(i) # "\n"
  PROVE  MayBreak(i, Number(i))
<1> DEFINE notation == Notation(At(i + 1))
           digits   == IF notation = "integer" THEN i + 1 ELSE i + 2
<1>1. i \in Int /\ i + 1 \in Place /\ i <= i + 1 /\ Smooth(i, i + 1)
  BY SmoothFrom
<1>2. CASE notation = "integer"
  <2>1. Smooth(i, Skip(i + 1, HexDigit))
    BY <1>1, SmoothRun, NoBreakInside
  <2>2. Number(i) = Symbol(notation, Skip(i + 1, HexDigit))
    BY <1>2 DEF Number
  <2>3. QED BY <2>1, <2>2 DEF MayBreak, Symbol
<1>3. CASE notation # "integer"
  <2>1. At(i + 1) \in {"b", "B", "o", "O", "x", "X"}
    BY <1>3 DEF Notation
  <2>2. At(i + 1) # NUL /\ At(i + 1) # "\n"
    BY <2>1 DEF NUL
  <2>3. i + 1 # End /\ End = Len(text) + 1 /\ Place = 1 .. End /\ End \in Nat
    BY <1>1, <2>2, Characters DEF End
  <2>4. i + 2 \in Place /\ i <= i + 2
    BY <1>1, <2>3
  <2>5. Smooth(i, i + 2)
    <3>1. \A k \in i .. (i + 2) - 1 : k = i \/ k = i + 1
      BY <1>1
    <3>2. QED BY <2>2, <3>1 DEF Smooth
  <2>6. Smooth(i, Skip(i + 2, HexDigit))
    BY <1>1, <2>4, <2>5, SmoothRun, NoBreakInside
  <2>7. Number(i) = Symbol(notation, Skip(i + 2, HexDigit))
    BY <1>3 DEF Number
  <2>8. QED BY <2>6, <2>7 DEF MayBreak, Symbol
<1>4. QED BY <1>2, <1>3

\* Neither have labels.
LEMMA LabelBreaks ==
  ASSUME IsSource, NEW i \in 1 .. Len(text), At(i) # "\n"
  PROVE  MayBreak(i, Label(i))
<1> DEFINE e == Skip(i, LabelChar)
<1>1. i \in Int /\ i \in Place /\ i <= i /\ End \in Nat /\ Place = 1 .. End
  BY PlaceOfCharacter
<1>2. Smooth(i, i)
  BY <1>1 DEF Smooth
<1>3. e \in i .. End /\ e \in Place /\ Smooth(i, e)
  BY <1>1, <1>2, SmoothRun, NoBreakInside
<1>4. Label(i) = CASE At(e) = ":" -> Symbol("def", e + 1)
                   [] At(e) = "[" -> Symbol("idx", e)
                   [] OTHER       -> unknown(e)
  BY DEF Label
<1> HIDE DEF e
<1>5. i <= e
  BY <1>1, <1>3
<1>6. CASE At(e) = ":"
  <2>1. Smooth(i, e + 1)
    <3>1. \A k \in i .. (e + 1) - 1 : k = e \/ k \in i .. e - 1
      BY <1>1, <1>3
    <3>2. QED BY <1>3, <1>6, <3>1 DEF Smooth
  <2>2. Label(i) = Symbol("def", e + 1)
    BY <1>4, <1>6
  <2>3. QED BY <2>1, <2>2 DEF MayBreak, Symbol
<1>7. CASE At(e) = "["
  <2>1. Label(i) = Symbol("idx", e)
    BY <1>4, <1>7
  <2>2. QED BY <1>3, <2>1 DEF MayBreak, Symbol
<1>8. CASE At(e) \notin {":", "["}
  <2>1. Label(i) = unknown(e)
    BY <1>4, <1>8
  <2>2. QED BY <1>1, <1>3, <1>5, <2>1, UnknownBreaks
<1>9. QED BY <1>6, <1>7, <1>8

\* Where a token that is read has a newline.
LEMMA SymbolBreaks ==
  ASSUME IsSource, NEW i, Begins(i)
  PROVE  MayBreak(i, tokenizeSymbol(i))
<1>1. i \in 1 .. Len(text) /\ At(i) # "\n"
  BY DEF Begins
<1>2. i \in Int /\ i + 1 \in Place /\ i <= i + 1 /\ Smooth(i, i + 1)
  BY <1>1, SmoothFrom
<1>3. MayBreak(i, Symbol(At(i), i + 1))
  BY <1>2 DEF MayBreak, Symbol
<1>4. MayBreak(i, Symbol("bytes", Next1(Until(i + 1, {"\""}))))
  BY DEF MayBreak, Symbol
<1>5. MayBreak(i, Symbol("comment", Until(i + 1, {"\n"})))
  <2>1. PICK u \in i + 1 .. End : u = Until(i + 1, {"\n"}) /\ \A k \in i + 1 .. u - 1 : At(k) \notin {"\n"}
    BY <1>2, Untils
  <2>2. Smooth(i, u)
    <3>1. \A k \in i .. u - 1 : k = i \/ k \in i + 1 .. u - 1
      BY <1>2
    <3>2. QED BY <1>1, <2>1, <3>1 DEF Smooth
  <2>3. QED BY <2>1, <2>2 DEF MayBreak, Symbol
<1>6. MayBreak(i, Symbol("ref", Skip(i + 1, LabelChar)))
  <2>1. Smooth(i, Skip(i + 1, LabelChar))
    BY <1>2, SmoothRun, NoBreakInside
  <2>2. QED BY <2>1 DEF MayBreak, Symbol
<1>7. At(i) \in Nodes => MayBreak(i, Keyword(i))
  BY <1>1, KeywordBreaks
<1>8. MayBreak(i, Number(i)) /\ MayBreak(i, Label(i))
  BY <1>1, NumberBreaks, LabelBreaks
<1>9. MayBreak(i, unknown(i + 1))
  BY <1>2, UnknownBreaks
<1>10. QED
  <2> HIDE DEF MayBreak
  <2>1. QED BY <1>3, <1>4, <1>5, <1>6, <1>7, <1>8, <1>9 DEF tokenizeSymbol

-----------------------------------------------------------------------------
(***************************************************************************)
(* The invariant of the numbers of lines.                                  *)
(***************************************************************************)
\* nr is the number of the line at p: the newlines before it but for those in
\* tokens before it.
Counts(nr, p, S) == nr = 1 + Newlines(1, p - 1) - AllBreaks({t \in S : t.to < p})

\* A token with a newline is one of two kinds.
Explained(t) ==
  Newlines(t.from, t.to) > 0 =>
    \/ t.sym = "bytes"
    \/ /\ t.sym = "unknown"
       /\ SubSeq(text, t.from, Until(t.from, {"\n"}) - 1) \in Inner \ Registers

\* The line being read has two such places, its start and the iterator.  At the end
\* of the text the number is one too large.
LinesNumbered ==
  /\ IsFiniteSet(ToSet(AllTokens))
  /\ \A t \in ToSet(AllTokens) : Explained(t)
  /\ \A i \in DOMAIN lines :
       lines[i].from <= ptr /\ Counts(lines[i].line_nr, lines[i].from, ToSet(AllTokens))
  /\ phase = "line" => /\ Counts(line_nr, start, ToSet(AllTokens))
                       /\ Counts(line_nr, ptr, ToSet(AllTokens))
  /\ phase = "program" /\ ptr # End => Counts(line_nr, ptr, ToSet(AllTokens))

\* What is said of places and sets does not change.
LEMMA SameCounts ==
  ASSUME UNCHANGED text
  PROVE  /\ \A nr, p, S : Counts(nr, p, S)' <=> Counts(nr, p, S)
         /\ \A t : Explained(t)' <=> Explained(t)
<1>1. /\ \A a, b : Newlines(a, b)' = Newlines(a, b)
      /\ \A S : AllBreaks(S)' = AllBreaks(S)
  BY SameBreaks
<1>2. \A i, S : Until(i, S)' = Until(i, S)
  BY DEF Until, At, NUL
<1>3. \A t : Explained(t)' <=> Explained(t)
  <2>1. ASSUME NEW t PROVE Explained(t)' <=> Explained(t)
    <3>1. Newlines(t.from, t.to)' = Newlines(t.from, t.to)
      BY <1>1
    <3>2. Until(t.from, {"\n"})' = Until(t.from, {"\n"})
      BY <1>2
    <3>3. SubSeq(text, t.from, Until(t.from, {"\n"}) - 1)' = SubSeq(text, t.from, Until(t.from, {"\n"}) - 1)
      BY <3>2
    <3>4. (Inner \ Registers)' = Inner \ Registers
      BY DEF Inner, Nodes, Keywords, Registers
    <3>5. QED BY <3>1, <3>3, <3>4 DEF Explained
  <2>2. QED BY <2>1
<1>4. \A nr, p, S : Counts(nr, p, S)' <=> Counts(nr, p, S)
  BY <1>1 DEF Counts
<1>5. QED BY <1>3, <1>4

\* All tokens lie before the iterator.
LEMMA TokensBefore ==
  ASSUME Typed, Behind
  PROVE  /\ ToSet(AllTokens) \in SUBSET Token
         /\ \A t \in ToSet(AllTokens) : t.to \in Int /\ t.to < ptr
<1>1. AllTokens \in Seq(Token)
  BY AllTokensTyped
<1>2. ASSUME NEW i \in DOMAIN AllTokens PROVE AllTokens[i] \in Token /\ AllTokens[i].to < ptr
  BY <1>1, LenProperties, ElementOfSeq DEF Behind
<1>3. ASSUME NEW t \in Token PROVE t.to \in Int
  BY PlaceIsNumber DEF Token, Typed
<1>4. \A t \in ToSet(AllTokens) : \E i \in DOMAIN AllTokens : t = AllTokens[i]
  BY DEF ToSet
<1>5. QED BY <1>2, <1>3, <1>4

\* The iterator moves on and passes no newline.
LEMMA CountMoves ==
  ASSUME Typed, Behind, NEW p \in Int, NEW q \in Int, ptr <= p, p <= q, Smooth(p, q),
         NEW nr, Counts(nr, p, ToSet(AllTokens))
  PROVE  Counts(nr, q, ToSet(AllTokens))
<1> DEFINE S == ToSet(AllTokens)
<1>1. ptr \in Int /\ 1 <= ptr
  BY PlaceIsNumber DEF Typed
<1>2. {t \in S : t.to < p} = S /\ {t \in S : t.to < q} = S
  <2>1. \A t \in S : t.to \in Int /\ t.to < ptr
    BY TokensBefore
  <2> HIDE DEF S
  <2>2. \A t \in S : t.to < p /\ t.to < q
    BY <1>1, <2>1
  <2>3. QED BY <2>2
<1>3. Newlines(1, q - 1) = Newlines(1, p - 1)
  <2>1. 1 <= p /\ p <= (q - 1) + 1 /\ q - 1 \in Int /\ p - 1 \in Int
    BY <1>1
  <2>2. Newlines(1, q - 1) = Newlines(1, p - 1) + Newlines(p, q - 1)
    BY <2>1, BreaksSplit
  <2>3. Newlines(p, q - 1) = 0
    BY <2>1, BreaksCounted DEF Smooth
  <2>4. Newlines(1, p - 1) \in Nat
    <3>1. 1 \in Int
      OBVIOUS
    <3>2. QED BY <2>1, <3>1, BreaksCounted
  <2>5. QED BY <2>2, <2>3, <2>4
<1>4. nr = 1 + Newlines(1, p - 1) - AllBreaks({t \in S : t.to < p})
  BY DEF Counts
<1> HIDE DEF S
<1>5. nr = 1 + Newlines(1, q - 1) - AllBreaks({t \in S : t.to < q})
  BY <1>2, <1>3, <1>4
<1>6. QED BY <1>5 DEF Counts, S

\* It passes one.
LEMMA CountPasses ==
  ASSUME Typed, Behind, IsFiniteSet(ToSet(AllTokens)),
         NEW p \in Int, ptr <= p, At(p) = "\n", NEW nr, Counts(nr, p, ToSet(AllTokens))
  PROVE  Counts(nr + 1, p + 1, ToSet(AllTokens))
<1> DEFINE S == ToSet(AllTokens)
<1>1. ptr \in Int /\ 1 <= ptr
  BY PlaceIsNumber DEF Typed
<1>2. {t \in S : t.to < p} = S /\ {t \in S : t.to < p + 1} = S
  <2>1. \A t \in S : t.to \in Int /\ t.to < ptr
    BY TokensBefore
  <2> HIDE DEF S
  <2>2. \A t \in S : t.to < p /\ t.to < p + 1
    BY <1>1, <2>1
  <2>3. QED BY <2>2
<1>3. Newlines(1, p) = Newlines(1, p - 1) + 1
  <2>1. 1 <= p /\ p <= p + 1
    BY <1>1
  <2>2. Newlines(1, p) = Newlines(1, p - 1) + Newlines(p, p)
    BY <2>1, BreaksSplit
  <2>3. Newlines(p, p) = 1
    BY OneBreak
  <2>4. QED BY <2>2, <2>3
<1>4. PICK a \in Int : a = Newlines(1, p - 1)
  BY BreaksCounted
<1>5. PICK b \in Int : b = AllBreaks(S)
  BY BreaksAreNumbers, TokensBefore DEF Typed
<1>6. nr = 1 + Newlines(1, p - 1) - AllBreaks({t \in S : t.to < p})
  BY DEF Counts
<1> HIDE DEF S
<1>7. nr = 1 + a - b
  BY <1>2, <1>4, <1>5, <1>6
<1>8. Newlines(1, (p + 1) - 1) = a + 1
  <2>1. (p + 1) - 1 = p
    OBVIOUS
  <2>2. QED BY <1>3, <1>4, <2>1
<1>9. nr + 1 = 1 + (a + 1) - b
  BY <1>7
<1>10. nr + 1 = 1 + Newlines(1, (p + 1) - 1) - AllBreaks({t \in S : t.to < p + 1})
  BY <1>2, <1>5, <1>8, <1>9
<1>11. QED BY <1>10 DEF Counts, S

\* A token is read: the number of no earlier place changes, and that at its end is
\* that at its beginning.
LEMMA CountOverToken ==
  ASSUME Typed, Behind, IsFiniteSet(ToSet(AllTokens)), NextToken, NEW nr
  PROVE  /\ IsFiniteSet(ToSet(AllTokens) \cup {NewToken})
         /\ \A p \in Int : p <= ptr /\ Counts(nr, p, ToSet(AllTokens)) =>
                             Counts(nr, p, ToSet(AllTokens) \cup {NewToken})
         /\ Counts(nr, ptr, ToSet(AllTokens)) =>
              Counts(nr, ptr', ToSet(AllTokens) \cup {NewToken})
<1> DEFINE S == ToSet(AllTokens)
           R == S \cup {NewToken}
<1>1. /\ NewToken \in Token /\ NewToken.from = ptr /\ NewToken.to \in ptr .. Len(text)
      /\ ptr' \in Place /\ ptr' > NewToken.to
  BY NewTokenTyped
<1>2. \A k \in NewToken.to + 1 .. ptr' - 1 : At(k) = " "
  BY NewTokenTyped
<1>3. PICK p \in Int, q \in Int, e \in Int : /\ p = ptr /\ q = ptr' /\ e = NewToken.to
                                             /\ 1 <= p /\ p <= e /\ e < q
  <2>1. IsSource /\ ptr \in Place
    BY DEF Typed
  <2>2. ptr \in Int /\ 1 <= ptr /\ ptr' \in Int /\ Len(text) \in Int
    BY <1>1, <2>1, PlaceIsNumber, Characters
  <2>3. QED BY <1>1, <2>2
<1>4. IsSource /\ S \in SUBSET Token /\ \A t \in S : t.to \in Int /\ t.to < p
  BY <1>3, TokensBefore DEF Typed
<1>5. NewToken \notin S
  <2> HIDE DEF S
  <2>1. QED BY <1>3, <1>4
<1>6. IsFiniteSet(R) /\ AllBreaks(R) = AllBreaks(S) + TokenBreaks(NewToken)
  <2> HIDE DEF S
  <2>1. IsFiniteSet(S)
    BY DEF S
  <2>2. QED BY <1>1, <1>4, <1>5, <2>1, BreaksAdded
<1>7. ASSUME NEW r \in Int, r <= ptr, Counts(nr, r, S) PROVE Counts(nr, r, R)
  <2>1. ~(NewToken.to < r)
    <3>1. r <= p
      BY <1>3, <1>7
    <3>2. QED BY <1>3, <3>1
  <2>2. {t \in R : t.to < r} = {t \in S : t.to < r}
    <3> HIDE DEF S
    <3>1. QED BY <2>1
  <2> HIDE DEF S, R
  <2>3. QED BY <1>7, <2>2 DEF Counts
<1>8. ASSUME Counts(nr, ptr, S) PROVE Counts(nr, ptr', R)
  <2> HIDE DEF S
  <2>1. {t \in S : t.to < p} = S
    BY <1>4
  <2>2. {t \in R : t.to < q} = R
    <3>1. \A t \in R : t.to < q
      <4>1. ASSUME NEW t \in S PROVE t.to < q
        BY <1>3, <1>4
      <4>2. QED BY <1>3, <4>1
    <3> HIDE DEF R
    <3>2. QED BY <3>1
  <2> HIDE DEF R
  <2>3. Newlines(1, q - 1) = Newlines(1, p - 1) + Newlines(p, e)
    <3>1. Newlines(1, q - 1) = Newlines(1, p - 1) + Newlines(p, q - 1)
      BY <1>3, BreaksSplit
    <3>2. Newlines(p, q - 1) = Newlines(p, e) + Newlines(e + 1, q - 1)
      <4>1. (e + 1) - 1 = e /\ e + 1 \in Int /\ p <= e + 1 /\ e + 1 <= (q - 1) + 1 /\ q - 1 \in Int
        BY <1>3
      <4>2. Newlines(p, q - 1) = Newlines(p, (e + 1) - 1) + Newlines(e + 1, q - 1)
        BY <4>1, BreaksSplit
      <4>3. QED BY <4>1, <4>2
    <3>3. Newlines(e + 1, q - 1) = 0
      <4>1. \A k \in e + 1 .. q - 1 : At(k) # "\n"
        BY <1>2, <1>3
      <4>2. e + 1 \in Int /\ q - 1 \in Int
        OBVIOUS
      <4>3. QED BY <4>1, <4>2, BreaksCounted
    <3>4. Newlines(p, e) \in Nat
      BY BreaksCounted
    <3>5. QED BY <3>1, <3>2, <3>3, <3>4
  <2>4. PICK a \in Int, b \in Int, c \in Int :
          a = Newlines(1, p - 1) /\ b = Newlines(p, e) /\ c = AllBreaks(S)
    <3>1. AllBreaks(S) \in Int
      BY <1>4, BreaksAreNumbers DEF S
    <3>2. Newlines(1, p - 1) \in Int /\ Newlines(p, e) \in Int
      BY BreaksCounted
    <3>3. QED BY <3>1, <3>2
  <2>5. nr = 1 + a - c
    <3>1. nr = 1 + Newlines(1, p - 1) - AllBreaks({t \in S : t.to < p})
      BY <1>3, <1>8 DEF Counts
    <3>2. QED BY <2>1, <2>4, <3>1
  <2>6. TokenBreaks(NewToken) = b
    BY <1>1, <1>3, <2>4 DEF TokenBreaks
  <2>7. Newlines(1, q - 1) = a + b /\ AllBreaks(R) = c + b
    BY <1>6, <2>3, <2>4, <2>6
  <2>8. nr = 1 + (a + b) - (c + b)
    BY <2>5
  <2>9. nr = 1 + Newlines(1, q - 1) - AllBreaks({t \in R : t.to < q})
    BY <2>2, <2>7, <2>8
  <2>10. QED BY <1>3, <2>9 DEF Counts
<1> HIDE DEF Counts
<1>9. QED BY <1>6, <1>7, <1>8

\* All of it is kept where no token is read and no line ends.
LEMMA NumbersStay ==
  ASSUME LinesNumbered, UNCHANGED <<text, AllTokens, lines>>,
         ptr \in Int, ptr' \in Int, ptr <= ptr', Typed,
         phase' = "line" => /\ Counts(line_nr', start', ToSet(AllTokens))
                            /\ Counts(line_nr', ptr', ToSet(AllTokens)),
         phase' = "program" /\ ptr' # End => Counts(line_nr', ptr', ToSet(AllTokens))
  PROVE  LinesNumbered'
<1>1. /\ \A nr, p, S : Counts(nr, p, S)' <=> Counts(nr, p, S)
      /\ \A t : Explained(t)' <=> Explained(t)
  BY SameCounts
<1>2. ToSet(AllTokens)' = ToSet(AllTokens) /\ End' = End
  BY SameText DEF ToSet
<1>3. IsFiniteSet(ToSet(AllTokens))'
  BY <1>2 DEF LinesNumbered
<1>4. (\A t \in ToSet(AllTokens) : Explained(t))'
  BY <1>1, <1>2 DEF LinesNumbered
<1>5. (\A i \in DOMAIN lines :
         lines[i].from <= ptr /\ Counts(lines[i].line_nr, lines[i].from, ToSet(AllTokens)))'
  <2>1. ASSUME NEW i \in DOMAIN lines
        PROVE  lines[i].from <= ptr' /\ Counts(lines[i].line_nr, lines[i].from, ToSet(AllTokens))
    <3>1. lines[i].from <= ptr /\ Counts(lines[i].line_nr, lines[i].from, ToSet(AllTokens))
      BY DEF LinesNumbered
    <3>2. lines[i].from \in Int
      <4>1. lines[i] \in Line
        BY LenProperties, ElementOfSeq DEF Typed
      <4>2. QED BY <4>1 DEF Line
    <3>3. QED BY <3>1, <3>2
  <2>2. QED BY <1>1, <1>2, <2>1
<1>6. /\ (phase = "line" => /\ Counts(line_nr, start, ToSet(AllTokens))
                            /\ Counts(line_nr, ptr, ToSet(AllTokens)))'
      /\ (phase = "program" /\ ptr # End => Counts(line_nr, ptr, ToSet(AllTokens)))'
  BY <1>1, <1>2
<1>7. QED BY <1>3, <1>4, <1>5, <1>6 DEF LinesNumbered

\* A token is read.
LEMMA NumbersAtToken ==
  ASSUME Typed, Counted, Behind, LinesNumbered, NextToken
  PROVE  LinesNumbered'
<1> DEFINE S == ToSet(AllTokens)
           R == S \cup {NewToken}
<1>1. UNCHANGED text /\ AllTokens' = Append(AllTokens, NewToken)
  <2>1. [Next]_vars
    BY DEF Next
  <2>2. QED BY <2>1, TokensKept
<1>2. /\ \A nr, p, T : Counts(nr, p, T)' <=> Counts(nr, p, T)
      /\ \A t : Explained(t)' <=> Explained(t)
  BY <1>1, SameCounts
<1>3. /\ NewToken \in Token /\ NewToken.from = ptr /\ NewToken.to = tokenizeSymbol(ptr).next - 1
      /\ NewToken.sym = tokenizeSymbol(ptr).sym /\ Begins(ptr)
      /\ NewToken.to \in ptr .. Len(text) /\ ptr' \in Place /\ ptr' > NewToken.to
  BY NewTokenTyped
<1>4. ptr \in Int /\ start \in Int /\ ptr' \in Int /\ ptr <= ptr' /\ Len(text) \in Int
  <2>1. IsSource /\ ptr \in Place /\ start \in Place
    BY DEF Typed
  <2>2. ptr \in Int /\ start \in Int /\ ptr' \in Int /\ Len(text) \in Int
    BY <1>3, <2>1, PlaceIsNumber, Characters
  <2>3. QED BY <1>3, <2>2
<1>5. ToSet(AllTokens)' = R
  <2>1. AllTokens \in Seq(Token)
    BY AllTokensTyped
  <2>2. ToSet(Append(AllTokens, NewToken)) = R
    BY <1>3, <2>1, OneMore
  <2>3. ToSet(AllTokens)' = ToSet(Append(AllTokens, NewToken))
    BY <1>1 DEF ToSet
  <2>4. QED BY <2>2, <2>3
<1>6. IsFiniteSet(S)
  BY DEF LinesNumbered
<1>7. \A nr : /\ IsFiniteSet(R)
              /\ \A p \in Int : p <= ptr /\ Counts(nr, p, S) => Counts(nr, p, R)
              /\ Counts(nr, ptr, S) => Counts(nr, ptr', R)
  BY <1>6, CountOverToken
<1>8. Explained(NewToken)
  <2> DEFINE s == tokenizeSymbol(ptr)
  <2>1. MayBreak(ptr, s)
    BY <1>3, SymbolBreaks DEF Typed
  <2> HIDE DEF s
  <2>2. ASSUME Smooth(ptr, s.next) PROVE Newlines(NewToken.from, NewToken.to) = 0
    <3>1. \A k \in ptr .. NewToken.to : At(k) # "\n"
      BY <1>3, <2>2 DEF Smooth, s
    <3>2. NewToken.to \in Int
      BY <1>3, <1>4
    <3>3. QED BY <1>3, <1>4, <3>1, <3>2, BreaksCounted
  <2>3. CASE Smooth(ptr, s.next)
    <3>1. ~(Newlines(NewToken.from, NewToken.to) > 0)
      BY <2>2, <2>3
    <3>2. QED BY <3>1 DEF Explained
  <2>4. CASE ~Smooth(ptr, s.next)
    BY <1>3, <2>1, <2>4 DEF MayBreak, Explained, s
  <2>5. QED BY <2>3, <2>4
<1>9. UNCHANGED <<lines, line_nr, start, phase>> /\ phase = "line"
  BY DEF NextToken
<1>10. Counts(line_nr, start, S) /\ Counts(line_nr, ptr, S)
  BY <1>9 DEF LinesNumbered
<1>11. start <= ptr
  BY <1>9 DEF Counted
<1> HIDE DEF S, R
<1>12. IsFiniteSet(ToSet(AllTokens))'
  BY <1>5, <1>7
<1>13. (\A t \in ToSet(AllTokens) : Explained(t))'
  <2>1. \A t \in R : Explained(t)
    BY <1>8 DEF LinesNumbered, R, S
  <2>2. QED BY <1>2, <1>5, <2>1
<1>14. (\A i \in DOMAIN lines :
         lines[i].from <= ptr /\ Counts(lines[i].line_nr, lines[i].from, ToSet(AllTokens)))'
  <2>1. ASSUME NEW i \in DOMAIN lines
        PROVE  lines[i].from <= ptr' /\ Counts(lines[i].line_nr, lines[i].from, R)
    <3>1. lines[i].from <= ptr /\ Counts(lines[i].line_nr, lines[i].from, S)
      BY DEF LinesNumbered, S
    <3>2. lines[i].from \in Int
      <4>1. lines[i] \in Line
        BY LenProperties, ElementOfSeq DEF Typed
      <4>2. QED BY <4>1 DEF Line
    <3>3. lines[i].from <= ptr'
      BY <1>4, <3>1, <3>2
    <3>4. QED BY <1>7, <3>1, <3>2, <3>3
  <2>2. QED BY <1>2, <1>5, <1>9, <2>1
<1>15. Counts(line_nr, start, R) /\ Counts(line_nr, ptr', R)
  BY <1>4, <1>7, <1>10, <1>11
<1>16. /\ (phase = "line" => /\ Counts(line_nr, start, ToSet(AllTokens))
                             /\ Counts(line_nr, ptr, ToSet(AllTokens)))'
       /\ (phase = "program" /\ ptr # End => Counts(line_nr, ptr, ToSet(AllTokens)))'
  BY <1>2, <1>5, <1>9, <1>15
<1>17. QED BY <1>12, <1>13, <1>14, <1>16 DEF LinesNumbered

\* A line ends.
LEMMA NumbersAtEnd ==
  ASSUME Typed, Counted, Behind, LinesNumbered, EndLine
  PROVE  LinesNumbered'
<1> DEFINE S == ToSet(AllTokens)
           n == Len(lines)
<1>1. UNCHANGED text /\ AllTokens' = AllTokens
  <2>1. [Next]_vars /\ ~NextToken
    BY DEF Next, EndLine, NextToken
  <2>2. QED BY <2>1, TokensKept
<1>2. /\ \A nr, p, T : Counts(nr, p, T)' <=> Counts(nr, p, T)
      /\ \A t : Explained(t)' <=> Explained(t)
  BY <1>1, SameCounts
<1>3. ToSet(AllTokens)' = S /\ End' = End
  BY <1>1, SameText DEF ToSet
<1>4. /\ phase = "line" /\ phase' = "program" /\ line_nr' = line_nr + 1
      /\ ptr' = Next1(ptr) /\ lines' = Append(lines, TheLine)
      /\ TheLine.line_nr = line_nr /\ TheLine.from = start
      /\ At(ptr) \in {"\n", NUL}
  BY DEF EndLine, TheLine
<1>5. IsSource /\ ptr \in Place /\ start \in Place /\ ptr' \in Place /\ ptr' >= ptr
  BY <1>4, LineEnds DEF Typed
<1>6. ptr \in Int /\ start \in Int /\ ptr' \in Int
  BY <1>5, PlaceIsNumber
<1>7. IsFiniteSet(S) /\ Counts(line_nr, start, S) /\ Counts(line_nr, ptr, S) /\ start <= ptr
  BY <1>4 DEF LinesNumbered, Counted
<1>8. ASSUME ptr' # End PROVE Counts(line_nr', ptr', S)
  <2>1. ptr # End
    BY <1>4, <1>5, <1>8, NextPlace
  <2>2. At(ptr) = "\n" /\ ptr' = ptr + 1
    BY <1>4, <1>5, <2>1, Characters, NextPlace
  <2> HIDE DEF S
  <2>3. Counts(line_nr + 1, ptr + 1, S)
    <3>1. ptr <= ptr
      BY <1>6
    <3>2. QED BY <1>6, <1>7, <2>2, <3>1, CountPasses DEF S
  <2>4. QED BY <1>4, <2>2, <2>3
<1>9. ASSUME NEW i \in DOMAIN lines'
      PROVE  lines'[i].from <= ptr' /\ Counts(lines'[i].line_nr, lines'[i].from, S)
  <2> DEFINE Q == {TheLine} \cup Line
  <2>1. lines \in Seq(Line)
    BY DEF Typed
  <2>2. lines \in Seq(Q) /\ TheLine \in Q
    BY <2>1, SeqMonotonic
  <2>3. /\ n \in Nat /\ Len(lines') = n + 1 /\ lines' \in Seq(Q)
        /\ lines'[n + 1] = TheLine /\ \A k \in 1 .. n : lines'[k] = lines[k]
    <3> HIDE DEF Q
    <3>1. QED BY <1>4, <2>2, AppendProperties, LenProperties
  <2>4. DOMAIN lines' = 1 .. n + 1 /\ DOMAIN lines = 1 .. n
    BY <2>1, <2>3, LenProperties
  <2> HIDE DEF n, S, Q
  <2>5. CASE i = n + 1
    BY <1>4, <1>5, <1>6, <1>7, <2>3, <2>5
  <2>6. CASE i # n + 1
    <3>1. i \in 1 .. n /\ lines'[i] = lines[i] /\ i \in DOMAIN lines
      BY <2>3, <2>4, <2>6
    <3>2. lines[i].from <= ptr /\ Counts(lines[i].line_nr, lines[i].from, S)
      BY <3>1 DEF LinesNumbered, S
    <3>3. lines[i].from \in Int
      <4>1. lines[i] \in Line
        BY <2>1, <3>1, LenProperties, ElementOfSeq
      <4>2. QED BY <4>1 DEF Line
    <3>4. lines[i].from <= ptr'
      BY <1>5, <1>6, <3>2, <3>3
    <3>5. QED BY <3>1, <3>2, <3>4
  <2>7. QED BY <2>5, <2>6
<1> HIDE DEF S
<1>10. IsFiniteSet(ToSet(AllTokens))'
  BY <1>3, <1>7
<1>11. (\A t \in ToSet(AllTokens) : Explained(t))'
  BY <1>2, <1>3 DEF LinesNumbered, S
<1>12. (\A i \in DOMAIN lines :
          lines[i].from <= ptr /\ Counts(lines[i].line_nr, lines[i].from, ToSet(AllTokens)))'
  BY <1>2, <1>3, <1>9
<1>13. /\ (phase = "line" => /\ Counts(line_nr, start, ToSet(AllTokens))
                             /\ Counts(line_nr, ptr, ToSet(AllTokens)))'
       /\ (phase = "program" /\ ptr # End => Counts(line_nr, ptr, ToSet(AllTokens)))'
  BY <1>2, <1>3, <1>4, <1>8
<1>14. QED BY <1>10, <1>11, <1>12, <1>13 DEF LinesNumbered

\* Every step.
LEMMA NumbersKept ==
  ASSUME Typed, Counted, Behind, LinesNumbered, [Next]_vars
  PROVE  LinesNumbered'
<1> DEFINE S == ToSet(AllTokens)
           s == Spaces(ptr)
<1>1. IsSource /\ ptr \in Place /\ ptr \in Int /\ ptr <= ptr /\ IsFiniteSet(S)
  BY PlaceIsNumber DEF Typed, LinesNumbered
<1>2. ~NextToken => UNCHANGED <<text, AllTokens>>
  BY TokensKept
<1>3. ASSUME At(ptr) # NUL, phase = "program"
      PROVE  /\ ptr # End /\ Counts(line_nr, ptr, S)
             /\ s \in Place /\ s \in Int /\ s >= ptr /\ Smooth(ptr, s) /\ Counts(line_nr, s, S)
  <2>1. ptr # End
    BY <1>1, <1>3, Characters
  <2>2. Counts(line_nr, ptr, S)
    BY <1>3, <2>1 DEF LinesNumbered
  <2>3. s \in Place /\ s >= ptr /\ \A k \in ptr .. s - 1 : At(k) = " "
    BY <1>3, LineBegins
  <2> HIDE DEF s
  <2>4. s \in Int
    BY <1>1, <2>3, PlaceIsNumber
  <2>5. Smooth(ptr, s)
    <3>1. \A c : c = " " => c # "\n"
      OBVIOUS
    <3>2. QED BY <2>3, <3>1 DEF Smooth
  <2>6. ptr <= s
    BY <1>1, <2>3, <2>4
  <2>7. Counts(line_nr, s, S)
    BY <1>1, <2>2, <2>4, <2>5, <2>6, CountMoves
  <2>8. QED BY <2>1, <2>2, <2>3, <2>4, <2>5, <2>7
<1>4. CASE BlankLine
  <2>1. /\ At(ptr) # NUL /\ phase = "program" /\ phase' = "program" /\ ~NextToken
        /\ At(s) \in {"\n", NUL} /\ ptr' = Next1(s) /\ line_nr' = line_nr + 1 /\ lines' = lines
    BY <1>4 DEF BlankLine, NextToken
  <2> HIDE DEF s
  <2>2. s \in Place /\ s \in Int /\ s >= ptr /\ Counts(line_nr, s, S)
    BY <1>3, <2>1
  <2>3. ptr' \in Place /\ ptr' \in s .. s + 1 /\ (s # End => ptr' = s + 1) /\ (s = End => ptr' = End)
    BY <1>1, <2>1, <2>2, NextPlace
  <2>4. ptr' \in Int /\ ptr <= ptr' /\ ptr <= s
    BY <1>1, <2>2, <2>3
  <2>5. End' = End
    BY <1>2, <2>1, SameText
  <2>6. ASSUME ptr' # End PROVE Counts(line_nr', ptr', S)
    <3>1. s # End /\ ptr' = s + 1
      BY <2>3, <2>6
    <3>2. At(s) = "\n"
      BY <1>1, <2>1, <2>2, <3>1, Characters
    <3>3. QED BY <1>1, <2>1, <2>2, <2>4, <3>1, <3>2, CountPasses
  <2>7. phase' # "line"
    BY <2>1
  <2>8. QED BY <1>1, <1>2, <2>1, <2>4, <2>5, <2>6, <2>7, NumbersStay
<1>5. CASE StartLine
  <2>1. /\ At(ptr) # NUL /\ phase = "program" /\ phase' = "line" /\ ~NextToken
        /\ start' = ptr /\ ptr' = s /\ line_nr' = line_nr /\ lines' = lines
    BY <1>5 DEF StartLine, NextToken
  <2> HIDE DEF s
  <2>2. s \in Int /\ s >= ptr /\ Counts(line_nr, ptr, S) /\ Counts(line_nr, s, S)
    BY <1>3, <2>1
  <2>3. ptr' \in Int /\ ptr <= ptr'
    BY <1>1, <2>1, <2>2
  <2>4. phase' # "program" /\ Counts(line_nr', start', S) /\ Counts(line_nr', ptr', S)
    BY <2>1, <2>2
  <2>5. QED BY <1>1, <1>2, <2>1, <2>3, <2>4, NumbersStay
<1>6. CASE NextToken
  BY <1>6, NumbersAtToken
<1>7. CASE EndLine
  BY <1>7, NumbersAtEnd
<1>8. CASE EndProgram
  <2>1. phase' = "done" /\ ptr' = ptr /\ lines' = lines /\ ~NextToken
    BY <1>8 DEF EndProgram, NextToken
  <2>2. phase' # "line" /\ phase' # "program"
    BY <2>1
  <2>3. ptr' \in Int /\ ptr <= ptr'
    BY <1>1, <2>1
  <2>4. QED BY <1>1, <1>2, <2>1, <2>2, <2>3, NumbersStay
<1>9. CASE Done \/ UNCHANGED vars
  <2>1. UNCHANGED <<text, ptr, line_nr, tokens, start, lines, phase>>
    BY <1>9 DEF Done, vars
  <2>2. AllTokens' = AllTokens /\ End' = End
    BY <2>1 DEF AllTokens, End
  <2>3. ptr' \in Int /\ ptr <= ptr'
    BY <1>1, <2>1
  <2>4. /\ phase' = "line" => Counts(line_nr', start', S) /\ Counts(line_nr', ptr', S)
        /\ phase' = "program" /\ ptr' # End => Counts(line_nr', ptr', S)
    BY <2>1 DEF LinesNumbered
  <2>5. QED BY <1>1, <2>1, <2>2, <2>3, <2>4, NumbersStay
<1>10. QED BY <1>4, <1>5, <1>6, <1>7, <1>8, <1>9 DEF Next

\* Before anything is read.
LEMMA InitNumbers == Init => LinesNumbered
<1> SUFFICES ASSUME Init PROVE LinesNumbered
  OBVIOUS
<1>1. ptr = 1 /\ line_nr = 1 /\ tokens = <<>> /\ lines = <<>> /\ phase = "program" /\ IsSource
  BY DEF Init, IsSource
<1>2. AllTokens = <<>>
  <2>1. Typed
    BY InitIInv DEF IInv
  <2>2. Lists = <<>>
    <3>1. Lists \in Seq(Seq(Token)) /\ DOMAIN lines = {}
      <4>1. DOMAIN lines = 1 .. 0
        BY <1>1
      <4>2. QED BY <2>1, <4>1, AllTokensTyped
    <3>2. DOMAIN Lists = {}
      BY <3>1 DEF Lists
    <3>3. DOMAIN Lists = 1 .. Len(Lists) /\ Len(Lists) \in Nat
      BY <3>1, LenProperties
    <3>4. Len(Lists) = 0
      BY <3>2, <3>3
    <3>5. QED BY <3>1, <3>4, EmptySeq
  <2>3. FlattenSeq(<<>>) = <<>> /\ <<>> \in Seq(Token)
    BY Flattened, EmptySeq
  <2>4. QED BY <1>1, <2>1, <2>2, <2>3, AllTokensTyped, ConcatEmptySeq
<1>3. ToSet(AllTokens) = {} /\ DOMAIN lines = {}
  BY <1>1, <1>2 DEF ToSet
<1>4. IsFiniteSet({}) /\ AllBreaks({}) = 0
  <2>1. IsFiniteSet({})
    BY FS_EmptySet
  <2>2. QED BY <1>1, <2>1, BreaksAreNumbers
<1>5. Newlines(1, 1 - 1) = 0
  <2>1. 1 - 1 \in Int /\ 1 \in Int /\ \A i \in 1 .. 1 - 1 : At(i) # "\n"
    OBVIOUS
  <2>2. QED BY <2>1, BreaksCounted
<1>6. Counts(line_nr, ptr, ToSet(AllTokens))
  <2>1. {t \in {} : t.to < ptr} = {}
    OBVIOUS
  <2>2. 1 = 1 + 0 - 0
    OBVIOUS
  <2>3. QED BY <1>1, <1>3, <1>4, <1>5, <2>1, <2>2 DEF Counts
<1>7. QED BY <1>1, <1>3, <1>4, <1>6 DEF LinesNumbered

\* Every line has the number an editor shows for it, but for the newlines in tokens
\* before it; those are quoted bytes, and words that a keyword begins with.
THEOREM LinesNumberedRight == Spec => []LinesAreEditorLines
<1>1. IInv /\ LinesNumbered /\ [Next]_vars => LinesNumbered'
  BY NumbersKept DEF IInv
<1>2. LinesNumbered => LinesAreEditorLines
  BY DEF LinesNumbered, LinesAreEditorLines, Counts, Explained, AllBreaks
<1>3. QED BY <1>1, <1>2, InitNumbers, Invariance, PTL DEF Spec
=============================================================================
