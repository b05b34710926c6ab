----------------------------- MODULE AssemblerProofs -----------------------------
(***************************************************************************)
(* Proofs about Assembler, for every set of sources the tokenizer may hand *)
(* over: only bytes are emitted, pass 2 finds every label that is defined  *)
(* and changes nothing but the placeholder it is at, and the two passes    *)
(* make of a source what it stands for, line by line.                      *)
(***************************************************************************)
EXTENDS Assembler, Loops, SequenceTheorems

-----------------------------------------------------------------------------
(***************************************************************************)
(* Bytes and lists.                                                        *)
(***************************************************************************)
\* Numbers cut to a byte or a word, and the halves of a word.
LEMMA Wraps ==
  /\ \A n \in Int : Wrap8(n) \in Byte /\ Wrap16(n) \in Word16 /\ Wrap16(n) \in Int
  /\ \A w \in Word16 : Hi(w) \in Byte /\ Lo(w) \in Byte
  /\ Byte \subseteq Int /\ Word16 \subseteq Int /\ OP_HALT \in Byte
<1>1. /\ \A n : n \in Byte <=> n \in Int /\ 0 <= n /\ n <= 255
      /\ \A n : n \in Word16 <=> n \in Int /\ 0 <= n /\ n <= 65535
  <2>1. /\ UINT8_MAX \in Int /\ UINT8_MAX <= 255 /\ 255 <= UINT8_MAX
        /\ UINT16_MAX \in Int /\ UINT16_MAX <= 65535 /\ 65535 <= UINT16_MAX
    BY DEF UINT8_MAX, UINT16_MAX
  <2>2. QED BY <2>1 DEF Byte, Word16
<1>2. \A n \in Int : Wrap8(n) \in Byte /\ Wrap16(n) \in Word16
  BY <1>1 DEF Wrap8, Wrap16
<1>3. \A w \in Word16 : Hi(w) \in Byte /\ Lo(w) \in Byte
  BY <1>1 DEF Hi, Lo
<1>4. QED BY <1>1, <1>2, <1>3 DEF OP_HALT

\* A list is a sequence of its elements.
LEMMA Lists ==
  ASSUME NEW s, IsList(s)
  PROVE  Len(s) \in Nat /\ DOMAIN s = 1 .. Len(s) /\ (s # <<>> => Len(s) > 0)
<1> DEFINE R == ToSet(s)
<1>1. s \in Seq(R)
  BY DEF IsList
<1> HIDE DEF R
<1>2. QED BY <1>1

\* One byte, two bytes, the bytes of a word.
LEMMA Emitted ==
  /\ \A b \in Byte : <<b>> \in Seq(Byte) /\ Len(<<b>>) = 1
  /\ \A b, c \in Byte : <<b, c>> \in Seq(Byte) /\ Len(<<b, c>>) = 2
  /\ \A b, c, d \in Byte : <<b, c, d>> \in Seq(Byte)
  /\ \A n \in Int : Imm16(n) \in Seq(Byte) /\ Len(Imm16(n)) = 2
  /\ \A s, t \in Seq(Byte) : s \o t \in Seq(Byte) /\ Len(s \o t) = Len(s) + Len(t)
                             /\ Len(s) \in Nat
<1>1. \A n \in Int : Hi(Wrap16(n)) \in Byte /\ Lo(Wrap16(n)) \in Byte
  BY Wraps
<1>2. \A b, c \in Byte : <<b, c>> \in Seq(Byte) /\ Len(<<b, c>>) = 2
  OBVIOUS
<1>3. \A n \in Int : Imm16(n) \in Seq(Byte) /\ Len(Imm16(n)) = 2
  BY <1>1, <1>2 DEF Imm16
<1>4. QED BY <1>2, <1>3

(***************************************************************************)
(* What a line emits: bytes, and a placeholder that lies within them.      *)
(***************************************************************************)
IsCode(c) ==
  /\ c.bytes \in Seq(Byte)
  /\ \/ c.ref = <<>>
     \/ \E label, offset : /\ c.ref = <<[label |-> label, offset |-> offset]>>
                           /\ offset \in Nat /\ offset + 2 <= Len(c.bytes)

\* Nothing, or bytes without a placeholder.
LEMMA BytesAreCode == IsCode(Nothing) /\ \A bs \in Seq(Byte) : IsCode(Bytes(bs))
BY DEF IsCode, Nothing, Bytes

\* Bytes with a placeholder among them.
LEMMA LabelIsCode ==
  ASSUME NEW before \in Seq(Byte), NEW label, NEW base \in Int, NEW after \in Seq(Byte)
  PROVE  IsCode(WithLabel(before, label, base, after))
<1> DEFINE c == WithLabel(before, label, base, after)
<1>1. c.bytes = before \o Imm16(base) \o after
      /\ c.ref = <<[label |-> label, offset |-> Len(before)]>>
  BY DEF WithLabel
<1>2. /\ before \o Imm16(base) \in Seq(Byte)
      /\ Len(before \o Imm16(base)) = Len(before) + 2 /\ Len(before) \in Nat
  BY Emitted
<1>3. /\ before \o Imm16(base) \o after \in Seq(Byte)
      /\ Len(before \o Imm16(base) \o after) = Len(before) + 2 + Len(after)
      /\ Len(after) \in Nat
  BY <1>2, Emitted
<1> HIDE DEF c
<1>4. Len(before) + 2 <= Len(c.bytes)
  BY <1>1, <1>2, <1>3
<1>5. IsCode(c)
  BY <1>1, <1>2, <1>3, <1>4 DEF IsCode
<1>6. QED BY <1>5 DEF c

-----------------------------------------------------------------------------
(***************************************************************************)
(* Operands in memory.                                                     *)
(***************************************************************************)
Total(s, S) == MapThenSumSet(LAMBDA v : Signed(s, v), S)

\* The fold by which they are added up.
AddsUp(s, it, S) ==
  it = [T \in SUBSET S |-> IF T = {} THEN 0 ELSE Signed(s, First(T)) + it[T \ {First(T)}]]
Chosen(s, S) == CHOOSE it : AddsUp(s, it, S)

\* What MapThenSumSet stands for.
LEMMA TotalIsFold == \A s, S : Total(s, S) = Chosen(s, S)[S]
  BY DEF Total, Chosen, AddsUp, First, MapThenSumSet, MapThenFoldSet

\* Numbers add up to a number.
LEMMA TotalIsNumber ==
  ASSUME NEW s, NEW S, IsFiniteSet(S), \A v \in S : Signed(s, v) \in Int
  PROVE  Total(s, S) \in Int
<1> DEFINE g == [v \in S |-> Signed(s, v)]
           ch == Chosen(s, S)
<1>1. g \in [S -> Int] /\ \A v \in S : g[v] = Signed(s, v)
  OBVIOUS
<1> HIDE DEF g
<1>2. PICK F \in [SUBSET S -> Int] : IsFold(F, g, S)
  BY <1>1, FoldExists
<1>3. AddsUp(s, F, S)
  <2>1. ASSUME NEW T \in SUBSET S
        PROVE  F[T] = IF T = {} THEN 0 ELSE Signed(s, First(T)) + F[T \ {First(T)}]
    <3>1. CASE T = {}
      BY <3>1, <1>2 DEF IsFold
    <3>2. CASE T # {}
      <4>1. First(T) \in S
        BY <3>2 DEF First
      <4>2. F[T] = g[First(T)] + F[T \ {First(T)}]
        BY <1>2, <3>2 DEF IsFold
      <4>3. QED BY <1>1, <3>2, <4>1, <4>2
    <3>3. QED BY <3>1, <3>2
  <2>2. QED BY <2>1 DEF AddsUp
<1>4. AddsUp(s, ch, S)
  BY <1>3 DEF Chosen
<1> HIDE DEF ch
<1>5. ch = [T \in SUBSET S |-> IF T = {} THEN 0 ELSE Signed(s, First(T)) + ch[T \ {First(T)}]]
  BY <1>4 DEF AddsUp
<1>6. IsFold(ch, g, S)
  <2>1. ASSUME NEW T \in SUBSET S, T # {} PROVE ch[T] = g[First(T)] + ch[T \ {First(T)}]
    <3>1. First(T) \in S
      BY <2>1 DEF First
    <3>2. ch[T] = Signed(s, First(T)) + ch[T \ {First(T)}]
      BY <1>5, <2>1
    <3>3. QED BY <1>1, <3>1, <3>2
  <2>2. ch[{}] = 0
    BY <1>5
  <2>3. QED BY <2>1, <2>2 DEF IsFold
<1>7. ch[S] = F[S]
  <2>1. Sums(F, g, S)
    BY <1>1, <1>2, FoldsAreSums
  <2>2. S \in SUBSET S
    OBVIOUS
  <2>3. QED BY <1>6, <2>1, <2>2, FoldIsSum
<1>8. Total(s, S) = F[S]
  BY <1>7, TotalIsFold DEF ch
<1>9. QED BY <1>2, <1>8

\* The tokens of a line are a list of tokens.
IsLine(ts) == IsList(ts) /\ \A j \in DOMAIN ts : IsToken(ts[j])

\* There is a token where there is a symbol.
LEMMA Symbols ==
  ASSUME NEW ts, IsLine(ts), NEW i \in Int, Sym(ts, i) # "end"
  PROVE  i \in 1 .. Len(ts) /\ Sym(ts, i) = ts[i].sym /\ IsToken(ts[i])
<1>1. DOMAIN ts = 1 .. Len(ts)
  BY Lists DEF IsLine
<1>2. QED BY <1>1 DEF Sym, IsLine

\* An immediate is a number.
LEMMA ImmediateIsNumber ==
  ASSUME NEW ts, IsLine(ts), NEW i \in Int, Sym(ts, i) = "imm"
  PROVE  i \in 1 .. Len(ts) /\ ts[i].arg \in Nat /\ ts[i].arg \in Int
<1>1. i \in 1 .. Len(ts) /\ Sym(ts, i) = ts[i].sym /\ IsToken(ts[i])
  BY Symbols
<1>2. QED BY <1>1 DEF IsToken

\* The rest of a line.
LEMMA RestOfLine ==
  ASSUME NEW ts, IsLine(ts), NEW i \in Nat \ {0}
  PROVE  IsLine(From(ts, i))
<1> DEFINE R == ToSet(ts)
           r == From(ts, i)
<1>1. ts \in Seq(R) /\ Len(ts) \in Nat /\ DOMAIN ts = 1 .. Len(ts)
  BY Lists DEF IsLine, IsList
<1>2. \A x \in R : IsToken(x)
  BY DEF IsLine, ToSet
<1> HIDE DEF R
<1>3. r \in Seq(R)
  BY <1>1 DEF From
<1> HIDE DEF r
<1>4. \A j \in DOMAIN r : IsToken(r[j])
  BY <1>2, <1>3
<1>5. IsList(r)
  <2>1. Len(r) \in Nat /\ DOMAIN r = 1 .. Len(r) /\ r = [j \in 1 .. Len(r) |-> r[j]]
    BY <1>3
  <2>2. \A j \in 1 .. Len(r) : r[j] \in ToSet(r)
    BY <2>1 DEF ToSet
  <2>3. QED BY <2>1, <2>2 DEF IsList
<1>6. QED BY <1>4, <1>5 DEF IsLine, r

\* A line with a sign before it.
LEMMA LineWithPlus ==
  ASSUME NEW ts, IsLine(ts)
  PROVE  LET s == <<[sym |-> "+", arg |-> 0]>> \o ts
         IN IsLine(s) /\ Len(s) \in Nat /\ Len(s) > 0
<1> DEFINE plus == [sym |-> "+", arg |-> 0]
           R == ToSet(ts) \cup {plus}
           s == <<plus>> \o ts
<1>1. ts \in Seq(ToSet(ts))
  BY DEF IsLine, IsList
<1>2. ts \in Seq(R)
  BY <1>1
<1>3. \A x \in R : IsToken(x)
  BY DEF IsLine, ToSet, IsToken
<1>4. plus \in R
  OBVIOUS
<1> HIDE DEF R, plus
<1>5. s \in Seq(R) /\ Len(s) = Len(ts) + 1 /\ Len(ts) \in Nat
  BY <1>2, <1>4
<1> HIDE DEF s
<1>6. Len(s) \in Nat /\ Len(s) > 0 /\ DOMAIN s = 1 .. Len(s)
  BY <1>5
<1>7. \A j \in DOMAIN s : IsToken(s[j])
  BY <1>3, <1>5, <1>6
<1>8. IsList(s)
  <2>1. s = [j \in 1 .. Len(s) |-> s[j]]
    BY <1>5
  <2>2. \A j \in 1 .. Len(s) : s[j] \in ToSet(s)
    BY <1>6 DEF ToSet
  <2>3. QED BY <1>6, <2>1, <2>2 DEF IsList
<1>9. QED BY <1>6, <1>7, <1>8 DEF IsLine, s, plus

\* The address of an operand is a word.
LEMMA ExpressionTyped ==
  ASSUME NEW ts, IsLine(ts), NEW close
  PROVE  MemExpr(ts, close).addr \in Word16
<1> DEFINE plus == [sym |-> "+", arg |-> 0]
           s == IF Sym(ts, 1) \in Signs THEN ts ELSE <<plus>> \o ts
           n == CHOOSE k \in 1 .. Len(s) : /\ Sym(s, 2 * k + 1) \notin Signs
                                           /\ \A j \in 1 .. k - 1 : Sym(s, 2 * j + 1) \in Signs
           values == {2 * k : k \in 1 .. n}
           registers == {v \in values : Sym(s, v) \in Index}
           valid == /\ \A v \in values : Sym(s, v) \in Index \cup {"imm"}
                    /\ Cardinality(registers) <= 1
                    /\ Sym(s, 2 * n + 1) = close
<1>1. MemExpr(ts, close).addr = IF valid THEN Wrap16(Total(s, values)) ELSE 0
  <2>1. MemExpr(ts, close) =
          IF ~valid THEN [mode |-> "INVALID", addr |-> 0]
          ELSE [mode |-> IF registers = {} THEN "IMM" ELSE Sym(s, CHOOSE v \in registers : TRUE),
                addr |-> Wrap16(Total(s, values))]
    BY Zenon DEF MemExpr, Total
  <2> HIDE DEF s, values, registers, valid
  <2>2. QED BY <2>1
<1>2. 0 \in Word16
  BY DEF Word16, UINT16_MAX
<1>3. IsLine(s) /\ Len(s) \in Nat /\ Len(s) > 0
  <2>1. CASE Sym(ts, 1) \in Signs
    <3>1. Sym(ts, 1) # "end"
      BY <2>1 DEF Signs
    <3>2. 1 \in 1 .. Len(ts) /\ Len(ts) \in Nat
      BY <3>1, Symbols, Lists DEF IsLine
    <3>3. s = ts /\ Len(ts) > 0
      BY <2>1, <3>2
    <3>4. QED BY <3>2, <3>3
  <2>2. CASE Sym(ts, 1) \notin Signs
    <3>1. s = <<plus>> \o ts
      BY <2>2
    <3>2. QED BY <3>1, LineWithPlus
  <2>3. QED BY <2>1, <2>2
<1>4. Sym(s, 2 * Len(s) + 1) \notin Signs
  <2>1. DOMAIN s = 1 .. Len(s)
    BY <1>3, Lists DEF IsLine
  <2> HIDE DEF s
  <2>2. 2 * Len(s) + 1 \notin DOMAIN s
    BY <1>3, <2>1
  <2>3. QED BY <2>2 DEF Sym, Signs
<1> HIDE DEF s
<1>5. n \in 1 .. Len(s)
  <2> DEFINE Stops == {k \in 1 .. Len(s) : Sym(s, 2 * k + 1) \notin Signs}
  <2>1. Len(s) \in Stops /\ Stops \subseteq Nat
    BY <1>3, <1>4
  <2>2. PICK k \in Stops : \A j \in Stops : k <= j
    <3> HIDE DEF Stops
    <3>1. QED BY <2>1, LeastNumber
  <2>3. /\ k \in 1 .. Len(s) /\ Sym(s, 2 * k + 1) \notin Signs
        /\ \A j \in 1 .. k - 1 : Sym(s, 2 * j + 1) \in Signs
    <3>1. k \in 1 .. Len(s) /\ Sym(s, 2 * k + 1) \notin Signs
      OBVIOUS
    <3>2. ASSUME NEW j \in 1 .. k - 1 PROVE Sym(s, 2 * j + 1) \in Signs
      <4>1. j \in 1 .. Len(s) /\ j < k /\ ~(k <= j)
        BY <1>3, <3>1
      <4>2. j \notin Stops
        BY <2>2, <4>1
      <4>3. QED BY <4>1, <4>2
    <3>3. QED BY <3>1, <3>2
  <2>4. QED BY <2>3
<1> HIDE DEF n
<1>6. values \subseteq Int /\ IsFiniteSet(values)
  <2>1. n \in Nat /\ IsFiniteSet(1 .. n)
    BY <1>3, <1>5, FS_Interval
  <2> DEFINE twice == [k \in 1 .. n |-> 2 * k]
  <2>2. IsFiniteSet({2 * k : k \in 1 .. n})
    <3>1. twice \in Surjection(1 .. n, {2 * k : k \in 1 .. n})
      BY DEF Surjection
    <3>2. QED BY <2>1, <3>1, FS_Surjection
  <2>3. QED BY <2>1, <2>2
<1> HIDE DEF values
<1>7. CASE valid
  <2>1. ASSUME NEW v \in values PROVE Signed(s, v) \in Int
    <3>1. CASE Sym(s, v) \in Index
      BY <3>1 DEF Signed
    <3>2. CASE Sym(s, v) \notin Index
      <4>1. Sym(s, v) = "imm" /\ v \in Int
        BY <1>6, <1>7, <3>2
      <4>2. s[v].arg \in Int
        BY <1>3, <4>1, ImmediateIsNumber
      <4>3. Wrap16(s[v].arg) \in Int
        BY <4>2, Wraps
      <4>4. QED BY <3>2, <4>3 DEF Signed
    <3>3. QED BY <3>1, <3>2
  <2>2. Total(s, values) \in Int
    BY <1>6, <2>1, TotalIsNumber
  <2>3. Wrap16(Total(s, values)) \in Word16
    BY <2>2, Wraps
  <2>4. QED BY <1>1, <1>7, <2>3
<1>8. CASE ~valid
  BY <1>1, <1>2, <1>8
<1>9. QED BY <1>7, <1>8

\* The address parse_mem_addr returns is a word too.
LEMMA AddressTyped ==
  ASSUME NEW ts, IsLine(ts)
  PROVE  MemAddr(ts).addr \in Word16 /\ MemAddr(ts).addr \in Int
<1>1. IsLine(From(ts, 3)) /\ IsLine(From(ts, 4))
  BY RestOfLine
<1>2. \A close : /\ MemExpr(From(ts, 3), close).addr \in Word16
                 /\ MemExpr(From(ts, 4), close).addr \in Word16
  BY <1>1, ExpressionTyped
<1>3. 0 \in Word16 /\ Word16 \subseteq Int
  <2>1. 0 \in Word16
    BY DEF Word16, UINT16_MAX
  <2>2. QED BY <2>1, Wraps
<1>4. [mode |-> "INVALID", addr |-> 0].addr = 0
  OBVIOUS
<1>5. MemAddr(ts).addr \in Word16
  BY <1>2, <1>3, <1>4 DEF MemAddr
<1>6. QED BY <1>3, <1>5

-----------------------------------------------------------------------------
(***************************************************************************)
(* The parse functions.                                                    *)
(***************************************************************************)
\* The mnemonics of one row of OP_TABLE.
Alone == Basic \cup Jumps \cup {"JEXT", "CALL", "RET", "RET_I", "ENTER", "CLRA",
                                "LOAD_HL_I", "ADD_HL_I", "ADD_L_I"}

\* The opcodes that are emitted, mnemonic by mnemonic.
LEMMA Opcodes ==
  ASSUME OpcodesExist
  PROVE  /\ \A op \in Alone : Opcode(op, "-") \in Byte
         /\ Opcode("LOAD", "I") \in Byte
         /\ \A op \in DOMAIN Shape :
              /\ \A r \in Shape[op].regs : Opcode(op, r) \in Byte
              /\ Shape[op].imm = "I"   => Opcode(op, "I") \in Byte
              /\ Shape[op].imm = "I16" => Opcode(op, "I16") \in Byte
              /\ Shape[op].mem # "-" => /\ Opcode(op, "ML") \in Byte
                                        /\ Opcode(op, "MHL") \in Byte
                                        /\ Opcode(op, "BPI") \in Byte
              /\ Shape[op].mem = "direct" => Opcode(op, "IM") \in Byte
BY DEF OpcodesExist, Alone

\* PUSH_IMM16 or PUSH_LABEL_REF, between an opcode and what follows.
LEMMA ThroughIsCode ==
  ASSUME NEW ts, NEW before \in Seq(Byte), NEW after \in Seq(Byte), NEW addr \in Int
  PROVE  IsCode(IF Sym(ts, 2) = "idx" THEN WithLabel(before, ts[2].arg, addr, after)
                                      ELSE Bytes(before \o Imm16(addr) \o after))
<1>1. before \o Imm16(addr) \o after \in Seq(Byte)
  BY Emitted
<1>2. IsCode(Bytes(before \o Imm16(addr) \o after))
  BY <1>1, BytesAreCode
<1>3. IsCode(WithLabel(before, ts[2].arg, addr, after))
  BY LabelIsCode
<1>4. QED BY <1>2, <1>3

\* The operands in memory.
LEMMA MemoryCode ==
  ASSUME OpcodesExist, NEW ts, IsLine(ts), NEW op \in DOMAIN Shape, Shape[op].mem # "-"
  PROVE  IsCode(MemOperand(op, Shape[op].mem = "direct", ts))
<1> DEFINE kind   == Sym(ts, 2)
           e      == MemAddr(ts)
           direct == Shape[op].mem = "direct"
           Through(before, after) == IF kind = "idx"
                                     THEN WithLabel(before, ts[2].arg, e.addr, after)
                                     ELSE Bytes(before \o Imm16(e.addr) \o after)
<1>1. e.addr \in Int
  BY AddressTyped
<1>2. /\ Opcode(op, "ML") \in Byte /\ Opcode(op, "MHL") \in Byte /\ Opcode(op, "BPI") \in Byte
      /\ direct => Opcode(op, "IM") \in Byte
      /\ Opcode("LOAD_HL_I", "-") \in Byte /\ Opcode("ADD_HL_I", "-") \in Byte
      /\ Opcode("ADD_L_I", "-") \in Byte
  BY Opcodes DEF Alone
<1>3. Wrap8(e.addr) \in Byte /\ Wrap8(e.addr + 1) \in Byte
  BY <1>1, Wraps
<1>4. <<>> \in Seq(Byte) /\ <<Opcode(op, "MHL")>> \in Seq(Byte)
  BY <1>2, Emitted
<1>5. \A b \in Byte : IsCode(Through(<<b>>, <<>>)) /\ IsCode(Through(<<b>>, <<Opcode(op, "MHL")>>))
  <2>1. ASSUME NEW b \in Byte
        PROVE  IsCode(Through(<<b>>, <<>>)) /\ IsCode(Through(<<b>>, <<Opcode(op, "MHL")>>))
    <3>1. <<b>> \in Seq(Byte)
      BY Emitted
    <3>2. QED BY <1>1, <1>4, <3>1, ThroughIsCode
  <2>2. QED BY <2>1
<1>6. /\ IsCode(Nothing)
      /\ \A b, c, d \in Byte : /\ IsCode(Bytes(<<b>>)) /\ IsCode(Bytes(<<b, c>>))
                               /\ IsCode(Bytes(<<b, c, d>>))
  BY Emitted, BytesAreCode
<1>7. /\ IsCode(Bytes(<<Opcode(op, "BPI"), Wrap8(e.addr + 1)>>))
      /\ IsCode(Bytes(<<Opcode(op, "MHL")>>)) /\ IsCode(Bytes(<<Opcode(op, "ML")>>))
      /\ IsCode(Bytes(<<Opcode("ADD_L_I", "-"), Wrap8(e.addr), Opcode(op, "ML")>>))
      /\ direct => IsCode(Through(<<Opcode(op, "IM")>>, <<>>))
      /\ IsCode(Through(<<Opcode("LOAD_HL_I", "-")>>, <<Opcode(op, "MHL")>>))
      /\ IsCode(Through(<<Opcode("ADD_HL_I", "-")>>, <<Opcode(op, "MHL")>>))
  <2> HIDE DEF Through, direct, e
  <2>1. QED BY <1>2, <1>3, <1>5, <1>6
<1>8. MemOperand(op, direct, ts) =
        CASE kind = "{" /\ e.mode = "BP" -> Bytes(<<Opcode(op, "BPI"), Wrap8(e.addr + 1)>>)
          [] kind # "{" /\ e.mode = "IMM" /\ direct -> Through(<<Opcode(op, "IM")>>, <<>>)
          [] kind # "{" /\ e.mode = "IMM" /\ ~direct ->
               Through(<<Opcode("LOAD_HL_I", "-")>>, <<Opcode(op, "MHL")>>)
          [] kind = "(" /\ e.mode = "HL" /\ e.addr = 0 -> Bytes(<<Opcode(op, "MHL")>>)
          [] kind # "{" /\ e.mode = "HL" /\ (kind = "idx" \/ e.addr # 0) ->
               Through(<<Opcode("ADD_HL_I", "-")>>, <<Opcode(op, "MHL")>>)
          [] kind = "(" /\ e.mode = "L" /\ e.addr = 0 -> Bytes(<<Opcode(op, "ML")>>)
          [] kind = "(" /\ e.mode = "L" /\ e.addr # 0 ->
               Bytes(<<Opcode("ADD_L_I", "-"), Wrap8(e.addr), Opcode(op, "ML")>>)
          [] OTHER -> Nothing
  BY DEF MemOperand
<1> HIDE DEF Through, direct, e, kind
<1>9. IsCode(MemOperand(op, direct, ts))
  <2> HIDE DEF IsCode
  <2>1. QED BY <1>6, <1>7, <1>8
<1>10. QED BY <1>9 DEF direct

\* An instruction with an operand.
LEMMA OperandIsCode ==
  ASSUME OpcodesExist, NEW ts, IsLine(ts), Sym(ts, 1) \in DOMAIN Shape
  PROVE  IsCode(OperandCode(ts))
<1> DEFINE op     == Sym(ts, 1)
           shape  == Shape[op]
           n      == ts[2].arg
           Direct == CASE shape.imm = "LOAD" -> Bytes(LoadImmediate(n))
                       [] shape.imm = "I"    -> Bytes(<<Opcode(op, "I"), Wrap8(n)>>)
                       [] shape.imm = "I16"  -> Bytes(<<Opcode(op, "I16")>> \o Imm16(n))
                       [] OTHER              -> Nothing
           Memory == MemOperand(op, shape.mem = "direct", ts)
<1>1. ASSUME Sym(ts, 2) \in shape.regs PROVE IsCode(Bytes(<<Opcode(op, Sym(ts, 2))>>))
  <2>1. Opcode(op, Sym(ts, 2)) \in Byte
    BY <1>1, Opcodes
  <2>2. QED BY <2>1, Emitted, BytesAreCode
<1>2. ASSUME Sym(ts, 2) = "imm" PROVE IsCode(Direct)
  <2>1. n \in Int
    BY <1>2, ImmediateIsNumber
  <2>2. Wrap8(n) \in Byte /\ Imm16(n) \in Seq(Byte)
    BY <2>1, Wraps, Emitted
  <2>3. IsCode(Bytes(LoadImmediate(n)))
    <3>1. Opcode("CLRA", "-") \in Byte /\ Opcode("LOAD", "I") \in Byte
      BY Opcodes DEF Alone
    <3>2. LoadImmediate(n) \in Seq(Byte)
      BY <2>2, <3>1, Emitted DEF LoadImmediate
    <3>3. QED BY <3>2, BytesAreCode
  <2>4. shape.imm = "I" => IsCode(Bytes(<<Opcode(op, "I"), Wrap8(n)>>))
    BY <2>2, Opcodes, Emitted, BytesAreCode
  <2>5. shape.imm = "I16" => IsCode(Bytes(<<Opcode(op, "I16")>> \o Imm16(n)))
    <3>1. ASSUME shape.imm = "I16" PROVE <<Opcode(op, "I16")>> \o Imm16(n) \in Seq(Byte)
      <4>1. <<Opcode(op, "I16")>> \in Seq(Byte)
        BY <3>1, Opcodes, Emitted
      <4>2. QED BY <2>2, <4>1, Emitted
    <3>2. QED BY <3>1, BytesAreCode
  <2> HIDE DEF shape, op, n
  <2>6. QED BY <2>3, <2>4, <2>5, BytesAreCode
<1>3. shape.mem # "-" => IsCode(Memory)
  BY MemoryCode
<1>4. OperandCode(ts) = CASE Sym(ts, 2) \in shape.regs -> Bytes(<<Opcode(op, Sym(ts, 2))>>)
                          [] Sym(ts, 2) = "imm"        -> Direct
                          [] Sym(ts, 2) \in {"(", "{", "idx"} /\ shape.mem # "-" -> Memory
                          [] OTHER                     -> Nothing
  BY DEF OperandCode
<1> HIDE DEF op, shape, n, Direct, Memory
<1>5. QED BY <1>1, <1>2, <1>3, <1>4, BytesAreCode

\* A jump.
LEMMA JumpIsCode ==
  ASSUME NEW ts, IsLine(ts), NEW before \in Seq(Byte), NEW i \in Int
  PROVE  IsCode(JumpCode(before, ts, i))
<1>1. CASE Sym(ts, i) = "imm"
  <2>1. ts[i].arg \in Int
    BY <1>1, ImmediateIsNumber
  <2>2. before \o Imm16(ts[i].arg) \in Seq(Byte)
    BY <2>1, Emitted
  <2>3. QED BY <1>1, <2>2, BytesAreCode DEF JumpCode
<1>2. CASE Sym(ts, i) = "ref"
  <2>1. <<>> \in Seq(Byte) /\ 0 \in Int
    OBVIOUS
  <2>2. QED BY <1>2, <2>1, LabelIsCode DEF JumpCode
<1>3. CASE Sym(ts, i) \notin {"imm", "ref"}
  BY <1>3, BytesAreCode DEF JumpCode
<1>4. QED BY <1>1, <1>2, <1>3

\* A jump after its opcode, to the second token or the fourth.
LEMMA JumpsAreCode ==
  ASSUME NEW ts, IsLine(ts)
  PROVE  \A before \in Seq(Byte) : IsCode(JumpCode(before, ts, 2)) /\ IsCode(JumpCode(before, ts, 4))
<1>1. 2 \in Int /\ 4 \in Int
  OBVIOUS
<1>2. QED BY <1>1, JumpIsCode

\* A line of data.
LEMMA DataIsCode ==
  ASSUME NEW ts, IsLine(ts), Sym(ts, 1) = "imm"
  PROVE  IsCode(Bytes(DataBytes(ts)))
<1> DEFINE Run(k) == \A j \in 1 .. k : Sym(ts, j) = "imm"
           n == CHOOSE k \in DOMAIN ts : Sym(ts, k + 1) # "imm" /\ Run(k)
           Stops == {k \in 1 .. Len(ts) : Sym(ts, k + 1) # "imm"}
<1>1. Len(ts) \in Nat /\ DOMAIN ts = 1 .. Len(ts)
  BY Lists DEF IsLine
<1>2. 1 \in 1 .. Len(ts)
  BY ImmediateIsNumber
<1>3. Len(ts) \in Stops /\ Stops \subseteq Nat
  <2>1. Len(ts) + 1 \notin DOMAIN ts
    BY <1>1
  <2>2. Sym(ts, Len(ts) + 1) # "imm"
    BY <2>1 DEF Sym
  <2>3. QED BY <1>1, <1>2, <2>2
<1>4. PICK k \in Stops : \A j \in Stops : k <= j
  <2> HIDE DEF Stops
  <2>1. QED BY <1>3, LeastNumber
<1>5. Run(k)
  <2>1. ASSUME NEW j \in 1 .. k, Sym(ts, j) # "imm" PROVE FALSE
    <3>1. j # 1 /\ j - 1 \in 1 .. Len(ts) /\ ~(k <= j - 1)
      BY <1>1, <1>4, <2>1
    <3>2. Sym(ts, (j - 1) + 1) # "imm"
      BY <2>1
    <3>3. QED BY <1>4, <3>1, <3>2
  <2>2. QED BY <2>1
<1>6. k \in DOMAIN ts /\ Sym(ts, k + 1) # "imm"
  BY <1>1, <1>4
<1>7. n \in DOMAIN ts /\ Run(n)
  <2> HIDE DEF Run
  <2>1. QED BY <1>5, <1>6
<1>8. DataBytes(ts) = [i \in 1 .. n |-> Wrap8(ts[i].arg)]
  BY DEF DataBytes
<1> HIDE DEF n
<1>9. ASSUME NEW i \in 1 .. n PROVE Wrap8(ts[i].arg) \in Byte
  <2>1. Sym(ts, i) = "imm" /\ i \in Int
    BY <1>7
  <2>2. ts[i].arg \in Int
    BY <2>1, ImmediateIsNumber
  <2>3. QED BY <2>2, Wraps
<1>10. DataBytes(ts) \in Seq(Byte)
  <2>1. n \in Nat
    BY <1>1, <1>7
  <2>2. QED BY <1>8, <1>9, <2>1
<1>11. QED BY <1>10, BytesAreCode

\* JEXT, CALL, RET and ENTER.
LEMMA FlowIsCode ==
  ASSUME OpcodesExist, NEW ts, IsLine(ts)
  PROVE  IsCode(FlowCode(ts))
<1> DEFINE op  == Sym(ts, 1)
           one == <<Opcode(op, "-")>>
           n   == ts[2].arg
<1>1. ASSUME op \in {"JEXT", "CALL", "RET", "ENTER"} PROVE one \in Seq(Byte)
  BY <1>1, Opcodes, Emitted DEF Alone
<1>2. ASSUME Sym(ts, 2) = "imm" PROVE Wrap8(n) \in Byte /\ <<Wrap8(n)>> \in Seq(Byte)
  <2>1. n \in Int
    BY <1>2, ImmediateIsNumber
  <2>2. QED BY <2>1, Wraps, Emitted
<1>3. ASSUME op = "JEXT", Sym(ts, 2) = "imm"
      PROVE  IsCode(JumpCode(one \o <<Wrap8(n)>>, ts, 4))
  <2>1. one \o <<Wrap8(n)>> \in Seq(Byte)
    BY <1>1, <1>2, <1>3, Emitted
  <2>2. QED BY <2>1, JumpsAreCode
<1>4. op = "CALL" => IsCode(JumpCode(one, ts, 2))
  BY <1>1, JumpsAreCode
<1>5. op = "RET" => IsCode(Bytes(one))
  BY <1>1, BytesAreCode
<1>6. Sym(ts, 2) = "imm" => IsCode(Bytes(<<Opcode("RET_I", "-"), Wrap8(n)>>))
  BY <1>2, Opcodes, Emitted, BytesAreCode DEF Alone
<1>7. ASSUME op = "ENTER", Sym(ts, 2) = "imm" PROVE IsCode(Bytes(one \o <<Wrap8(n)>>))
  <2>1. one \o <<Wrap8(n)>> \in Seq(Byte)
    BY <1>1, <1>2, <1>7, Emitted
  <2>2. QED BY <2>1, BytesAreCode
<1>8. FlowCode(ts) =
        CASE op = "JEXT" /\ Sym(ts, 2) = "imm" /\ Sym(ts, 3) = "," ->
               JumpCode(one \o <<Wrap8(n)>>, ts, 4)
          [] op = "CALL" /\ Sym(ts, 2) = "ref"        -> JumpCode(one, ts, 2)
          [] op = "RET" /\ Sym(ts, 2) \in EndOfCode   -> Bytes(one)
          [] op = "RET" /\ Sym(ts, 2) = "imm"         -> Bytes(<<Opcode("RET_I", "-"), Wrap8(n)>>)
          [] op = "ENTER" /\ Sym(ts, 2) = "imm"       -> Bytes(one \o <<Wrap8(n)>>)
          [] OTHER -> Nothing
  BY DEF FlowCode
<1> HIDE DEF op, one, n
<1>9. QED BY <1>3, <1>4, <1>5, <1>6, <1>7, <1>8, BytesAreCode

\* Every line.
LEMMA LineIsCode ==
  ASSUME OpcodesExist, NEW ts, IsLine(ts)
  PROVE  IsCode(LineCode(ts))
<1> DEFINE op == Sym(ts, 1)
<1>1. op \in DOMAIN Shape => IsCode(OperandCode(ts))
  BY OperandIsCode
<1>2. ASSUME op \in Basic \cup Jumps PROVE <<Opcode(op, "-")>> \in Seq(Byte)
  BY <1>2, Opcodes, Emitted DEF Alone
<1>3. op \in Basic => IsCode(Bytes(<<Opcode(op, "-")>>))
  BY <1>2, BytesAreCode
<1>4. op \in Jumps => IsCode(JumpCode(<<Opcode(op, "-")>>, ts, 2))
  BY <1>2, JumpsAreCode
<1>5. op = "imm" => IsCode(Bytes(DataBytes(ts)))
  BY DataIsCode
<1>6. ASSUME op = "bytes" PROVE IsCode(Bytes(ts[1].arg))
  <2>1. ts[1].sym = "bytes" /\ IsToken(ts[1])
    BY <1>6, Symbols
  <2>2. QED BY <2>1, BytesAreCode DEF IsToken
<1>7. IsCode(FlowCode(ts))
  BY FlowIsCode
<1>8. LineCode(ts) = CASE op \in DOMAIN Shape -> OperandCode(ts)
                       [] op \in Basic /\ Sym(ts, 2) \in EndOfCode -> Bytes(<<Opcode(op, "-")>>)
                       [] op \in Jumps   -> JumpCode(<<Opcode(op, "-")>>, ts, 2)
                       [] op = "imm"     -> Bytes(DataBytes(ts))
                       [] op = "bytes"   -> Bytes(ts[1].arg)
                       [] OTHER          -> FlowCode(ts)
  BY DEF LineCode
<1> HIDE DEF op
<1>9. QED BY <1>1, <1>3, <1>4, <1>5, <1>6, <1>7, <1>8

-----------------------------------------------------------------------------
(***************************************************************************)
(* What holds of the code, its labels and its placeholders.                *)
(***************************************************************************)
LabelsOf(n) == {source[i][1].arg : i \in {j \in 1 .. n : Defines(source[j])}}

\* The two bytes of the r-th placeholder.
Placeholder(r) == LET at == label_ref_list[r].idx - PROGRAM_START + 1 IN {at, at + 1}

Assembled == phase \in {"pass2", "done"}

\* The labels that lines define are known when pass 2 looks for them, wherever in the
\* source they are defined: what it reports is undefined.
LabelsAreKnown == Assembled => DOMAIN label_def_map = LabelsOf(Len(source))

\* The HALT that assemblePass1 puts at the end of every program is there in the end.
EndsWithHalt == Assembled => compiled # <<>> /\ compiled[Len(compiled)] = OP_HALT

\* A byte that has been emitted is changed by pass 2 only, in the placeholder that it
\* is at, and no other placeholder has that byte: no instruction is overwritten, and
\* no label is added to another's address.
OnlyPlaceholdersChange ==
  [][\A i \in DOMAIN compiled :
       /\ i \in DOMAIN compiled'
       /\ compiled'[i] # compiled[i] =>
            /\ phase = "pass2" /\ i \in Placeholder(next_ref)
            /\ \A r \in DOMAIN label_ref_list \ {next_ref} : i \notin Placeholder(r)]_vars

(***************************************************************************)
(* The inductive invariant.                                                *)
(***************************************************************************)
\* Placeholders end before the HALT, and before the next begins.
CodeEnd == IF Assembled THEN Here - 1 ELSE Here
Inside  == \A r \in DOMAIN label_ref_list : /\ label_ref_list[r].idx \in PROGRAM_START .. Here - 2
                                            /\ label_ref_list[r].idx + 2 <= CodeEnd
Apart   == \A r, q \in DOMAIN label_ref_list :
             r < q => label_ref_list[r].idx + 2 <= label_ref_list[q].idx

Typed == /\ source \in Sources /\ line \in 1 .. Len(source) + 1
         /\ compiled \in Seq(Byte)
         /\ \A x \in DOMAIN label_def_map : label_def_map[x] \in Nat
         /\ IsList(label_ref_list)
         /\ next_ref \in 1 .. Len(label_ref_list) + 1
         /\ phase \in {"pass1", "pass2", "done", "crashed"}
Read  == /\ DOMAIN label_def_map = LabelsOf(line - 1)
         /\ Assembled => line = Len(source) + 1
IInv  == Typed /\ Inside /\ Apart /\ Read /\ EndsWithHalt

\* Sources of which each line is one.
Given == OpcodesExist /\ \A s \in Sources : IsSource(s)

\* The line being read.
LEMMA LineRead ==
  ASSUME Given, Typed
  PROVE  /\ Len(source) \in Nat /\ line \in Nat
         /\ \A i \in 1 .. Len(source) : IsLine(source[i]) /\ Len(source[i]) > 0
<1>1. IsSource(source)
  BY DEF Given, Typed
<1>2. IsList(source) /\ Len(source) \in Nat /\ DOMAIN source = 1 .. Len(source)
  BY <1>1, Lists DEF IsSource
<1>3. line \in Nat
  BY <1>2 DEF Typed
<1>4. ASSUME NEW i \in 1 .. Len(source) PROVE IsLine(source[i]) /\ Len(source[i]) > 0
  <2>1. /\ IsList(source[i]) /\ source[i] # <<>>
        /\ \A j \in DOMAIN source[i] : IsToken(source[i][j])
    BY <1>1, <1>2 DEF IsSource
  <2>2. QED BY <2>1, Lists DEF IsLine
<1>5. QED BY <1>2, <1>3, <1>4

\* The lists of references and of code.
LEMMA ListsRead ==
  ASSUME Typed
  PROVE  /\ Len(label_ref_list) \in Nat /\ DOMAIN label_ref_list = 1 .. Len(label_ref_list)
         /\ Len(compiled) \in Nat /\ DOMAIN compiled = 1 .. Len(compiled)
         /\ Here = Len(compiled) + 256 /\ Here \in Int /\ PROGRAM_START = 256
<1>1. Len(label_ref_list) \in Nat /\ DOMAIN label_ref_list = 1 .. Len(label_ref_list)
  BY Lists DEF Typed
<1>2. Len(compiled) \in Nat /\ DOMAIN compiled = 1 .. Len(compiled)
  BY DEF Typed
<1>3. QED BY <1>1, <1>2 DEF Here, PROGRAM_START

\* The labels of one line more.
LEMMA LabelsGrow ==
  ASSUME NEW n \in Nat
  PROVE  LabelsOf(n + 1) = IF Defines(source[n + 1]) THEN LabelsOf(n) \cup {source[n + 1][1].arg}
                                                    ELSE LabelsOf(n)
<1>1. 1 .. n + 1 = (1 .. n) \cup {n + 1}
  OBVIOUS
<1>2. QED BY <1>1 DEF LabelsOf

\* insert_map.
LEMMA DefineKeeps ==
  ASSUME NEW x, NEW v \in Nat, Define(x, v), \A y \in DOMAIN label_def_map : label_def_map[y] \in Nat
  PROVE  /\ DOMAIN label_def_map' = DOMAIN label_def_map \cup {x}
         /\ \A y \in DOMAIN label_def_map' : label_def_map'[y] \in Nat
BY DEF Define

\* Initially.
LEMMA InitIInv ==
  ASSUME Given, Init
  PROVE  IInv
<1>1. IsList(<<>>)
  BY DEF IsList
<1>2. Typed
  <2>1. IsSource(source)
    BY DEF Given, Init
  <2>2. Len(source) \in Nat
    BY <2>1, Lists DEF IsSource
  <2>3. QED BY <1>1, <2>2 DEF Init, Typed
<1>3. Inside /\ Apart
  BY DEF Init, Inside, Apart
<1>4. Read /\ EndsWithHalt
  BY DEF Init, Read, EndsWithHalt, LabelsOf, Assembled
<1>5. QED BY <1>2, <1>3, <1>4 DEF IInv

\* A line that defines a label.
LEMMA DefinitionKeeps ==
  ASSUME Given, IInv, DefineLabel \/ DefineConstant
  PROVE  IInv'
<1> DEFINE ts == source[line]
           x  == ts[1].arg
<1>1. /\ phase = "pass1" /\ line <= Len(source) /\ line' = line + 1
      /\ UNCHANGED <<source, compiled, label_ref_list, next_ref, phase>>
  BY DEF DefineLabel, DefineConstant, Reading
<1>2. line \in 1 .. Len(source) /\ line \in Nat /\ line + 1 \in 1 .. Len(source) + 1
  BY <1>1, LineRead DEF IInv, Typed
<1>3. Defines(ts)
  BY DEF DefineLabel, DefineConstant, Defines
<1>4. \E v \in Nat : Define(x, v)
  <2>1. CASE DefineLabel
    <3>1. Here \in Nat
      BY ListsRead DEF IInv
    <3>2. QED BY <2>1, <3>1 DEF DefineLabel
  <2>2. CASE DefineConstant
    <3>1. Sym(ts, 3) = "imm" /\ IsLine(ts)
      BY <1>2, <2>2, LineRead DEF DefineConstant, IsConstant, IInv
    <3>2. ts[3].arg \in Nat
      BY <3>1, ImmediateIsNumber
    <3>3. QED BY <2>2, <3>2 DEF DefineConstant
  <2>3. QED BY <2>1, <2>2
<1> HIDE DEF x
<1>5. /\ DOMAIN label_def_map' = DOMAIN label_def_map \cup {x}
      /\ \A y \in DOMAIN label_def_map' : label_def_map'[y] \in Nat
  BY <1>4, DefineKeeps DEF IInv, Typed
<1>6. Typed'
  BY <1>1, <1>2, <1>5 DEF IInv, Typed
<1>7. Inside' /\ Apart'
  BY <1>1 DEF IInv, Inside, Apart, CodeEnd, Here, Assembled
<1>8. Read' /\ EndsWithHalt'
  <2>1. LabelsOf((line - 1) + 1) = LabelsOf(line - 1) \cup {x}
    <3>1. line - 1 \in Nat /\ (line - 1) + 1 = line
      BY <1>2
    <3>2. QED BY <1>3, <3>1, LabelsGrow DEF x
  <2>2. LabelsOf(line - 1)' = LabelsOf((line - 1) + 1)
    <3>1. line' - 1 = (line - 1) + 1
      BY <1>1, <1>2
    <3>2. QED BY <1>1, <3>1 DEF LabelsOf
  <2>3. ~Assembled'
    BY <1>1 DEF Assembled
  <2>4. DOMAIN label_def_map' = LabelsOf(line - 1)'
    BY <1>5, <2>1, <2>2 DEF IInv, Read
  <2>5. QED BY <2>3, <2>4 DEF Read, EndsWithHalt
<1>9. QED BY <1>6, <1>7, <1>8 DEF IInv

\* The placeholders of one line more.
LEMMA PlaceholderAdded ==
  ASSUME NEW c, IsCode(c), Typed,
         label_ref_list' = label_ref_list
           \o [i \in DOMAIN c.ref |-> [label |-> c.ref[i].label, idx |-> Here + c.ref[i].offset]]
  PROVE  \/ c.ref = <<>> /\ label_ref_list' = label_ref_list
         \/ /\ c.ref # <<>>
            /\ IsList(label_ref_list') /\ Len(label_ref_list') = Len(label_ref_list) + 1
            /\ \A i \in 1 .. Len(label_ref_list) : label_ref_list'[i] = label_ref_list[i]
            /\ LET new == label_ref_list'[Len(label_ref_list) + 1]
               IN /\ new.label = c.ref[1].label /\ new.idx = Here + c.ref[1].offset
                  /\ new.idx \in Here .. Here + Len(c.bytes) - 2
<1> DEFINE R == ToSet(label_ref_list)
           at == [i \in DOMAIN c.ref |-> [label |-> c.ref[i].label, idx |-> Here + c.ref[i].offset]]
<1>1. label_ref_list \in Seq(R)
  BY DEF Typed, IsList
<1>2. /\ Len(label_ref_list) \in Nat /\ DOMAIN label_ref_list = 1 .. Len(label_ref_list)
      /\ Here \in Int
  BY ListsRead
<1>3. CASE c.ref = <<>>
  <2>1. at = <<>>
    BY <1>3
  <2>2. label_ref_list \o <<>> = label_ref_list
    BY <1>1
  <2>3. QED BY <1>3, <2>1, <2>2
<1>4. CASE c.ref # <<>>
  <2>1. PICK label, offset : /\ c.ref = <<[label |-> label, offset |-> offset]>>
                             /\ offset \in Nat /\ offset + 2 <= Len(c.bytes)
    BY <1>4 DEF IsCode
  <2> DEFINE e == [label |-> label, idx |-> Here + offset]
  <2>2. at = <<e>>
    BY <2>1
  <2> HIDE DEF at, R
  <2>3. label_ref_list' = label_ref_list \o <<e>>
    BY <2>2 DEF at
  <2>4. /\ e.idx = Here + offset /\ e.label = label
        /\ c.ref[1].offset = offset /\ c.ref[1].label = label
    BY <2>1
  <2>5. e \in R \cup {e} /\ label_ref_list \in Seq(R \cup {e})
    BY <1>1
  <2> DEFINE S == R \cup {e}
             l == label_ref_list'
  <2> HIDE DEF e, S
  <2>6. /\ l \in Seq(S) /\ Len(l) = Len(label_ref_list) + 1
        /\ \A i \in 1 .. Len(label_ref_list) : l[i] = label_ref_list[i]
        /\ l[Len(label_ref_list) + 1] = e
    <3>1. label_ref_list \in Seq(S) /\ e \in S
      BY <2>5 DEF S
    <3>2. QED BY <2>3, <3>1
  <2>7. IsList(l)
    <3> HIDE DEF l
    <3>1. Len(l) \in Nat /\ DOMAIN l = 1 .. Len(l) /\ l = [i \in 1 .. Len(l) |-> l[i]]
      BY <2>6
    <3>2. \A i \in 1 .. Len(l) : l[i] \in ToSet(l)
      BY <3>1 DEF ToSet
    <3>3. QED BY <3>1, <3>2 DEF IsList
  <2>8. Here + offset \in Here .. Here + Len(c.bytes) - 2
    <3>1. Len(c.bytes) \in Nat
      BY DEF IsCode
    <3>2. QED BY <1>2, <2>1, <3>1
  <2>9. QED BY <1>4, <2>4, <2>6, <2>7, <2>8
<1>5. QED BY <1>3, <1>4

\* Any other line.
LEMMA AssemblingKeeps ==
  ASSUME Given, IInv, AssembleLine
  PROVE  IInv'
<1> DEFINE ts == source[line]
           c  == LineCode(ts)
           n  == Len(label_ref_list)
<1>1. /\ phase = "pass1" /\ line <= Len(source) /\ line' = line + 1
      /\ UNCHANGED <<source, label_def_map, next_ref, phase>>
      /\ ~Defines(ts)
      /\ compiled' = compiled \o c.bytes
      /\ label_ref_list' = label_ref_list
           \o [i \in DOMAIN c.ref |-> [label |-> c.ref[i].label, idx |-> Here + c.ref[i].offset]]
  BY DEF AssembleLine, Reading, Defines
<1>2. line \in 1 .. Len(source) /\ line \in Nat /\ line + 1 \in 1 .. Len(source) + 1
  BY <1>1, LineRead DEF IInv, Typed
<1>3. IsCode(c)
  BY <1>2, LineRead, LineIsCode DEF Given, IInv
<1> HIDE DEF c
<1>4. /\ compiled' \in Seq(Byte) /\ Len(compiled') = Len(compiled) + Len(c.bytes)
      /\ Len(c.bytes) \in Nat /\ Len(compiled) \in Nat
  BY <1>1, <1>3, Emitted DEF IsCode, IInv, Typed
<1>5. Here' = Here + Len(c.bytes) /\ Here \in Int /\ Here' \in Int
  <2>1. Here = 256 + Len(compiled) /\ Here' = 256 + Len(compiled')
    BY DEF Here, PROGRAM_START
  <2> DEFINE a == Len(compiled)
             b == Len(c.bytes)
             d == Len(compiled')
  <2>2. a \in Nat /\ b \in Nat /\ d = a + b /\ Here = 256 + a /\ Here' = 256 + d
    BY <1>4, <2>1
  <2> HIDE DEF a, b, d
  <2>3. Here' = Here + b /\ Here \in Int /\ Here' \in Int
    BY <2>2
  <2>4. QED BY <2>3 DEF b
<1>6. \/ label_ref_list' = label_ref_list
      \/ /\ IsList(label_ref_list') /\ Len(label_ref_list') = n + 1
         /\ \A i \in 1 .. n : label_ref_list'[i] = label_ref_list[i]
         /\ label_ref_list'[n + 1].idx \in Here .. Here + Len(c.bytes) - 2
  BY <1>1, <1>3, PlaceholderAdded DEF IInv
<1>7. n \in Nat /\ DOMAIN label_ref_list = 1 .. n
  BY ListsRead DEF IInv
<1>8. ~Assembled /\ ~Assembled' /\ CodeEnd = Here /\ CodeEnd' = Here'
  BY <1>1 DEF Assembled, CodeEnd
<1>9. \A r \in 1 .. n : /\ label_ref_list[r].idx \in PROGRAM_START .. Here - 2
                        /\ label_ref_list[r].idx \in Int
  BY <1>7 DEF IInv, Inside
<1>10. Inside' /\ Apart'
  <2>1. CASE label_ref_list' = label_ref_list
    <3>1. ASSUME NEW r \in 1 .. n
          PROVE  label_ref_list[r].idx \in PROGRAM_START .. Here' - 2
      <4> DEFINE x == label_ref_list[r].idx
                 b == Len(c.bytes)
                 h == Here
                 g == Here'
      <4>1. x \in PROGRAM_START .. h - 2 /\ b \in Nat /\ g = h + b /\ h \in Int
        BY <1>4, <1>5, <1>9
      <4>2. PROGRAM_START = 256
        BY DEF PROGRAM_START
      <4> HIDE DEF x, b, h, g
      <4>3. x \in PROGRAM_START .. g - 2
        BY <4>1, <4>2
      <4>4. QED BY <4>3 DEF x, g
    <3>2. \A r \in 1 .. n : label_ref_list[r].idx + 2 <= Here'
      BY <1>5, <3>1
    <3>3. QED BY <1>7, <1>8, <2>1, <3>1, <3>2 DEF IInv, Inside, Apart
  <2>2. CASE label_ref_list' # label_ref_list
    <3>1. DOMAIN label_ref_list' = 1 .. n + 1
      BY <1>6, <2>2, Lists
    <3>2. ASSUME NEW r \in 1 .. n + 1
          PROVE  label_ref_list'[r].idx \in PROGRAM_START .. Here' - 2
      <4>1. CASE r \in 1 .. n
        <5>1. label_ref_list'[r] = label_ref_list[r]
          BY <1>6, <2>2, <4>1
        <5>2. label_ref_list[r].idx \in PROGRAM_START .. Here' - 2
          BY <1>4, <1>5, <1>9, <4>1 DEF PROGRAM_START
        <5>3. QED BY <5>1, <5>2
      <4>2. CASE r = n + 1
        <5>1. Here >= PROGRAM_START /\ PROGRAM_START \in Int
          BY <1>4, ListsRead DEF IInv, PROGRAM_START
        <5>2. label_ref_list'[r].idx \in Here .. Here' - 2
          BY <1>4, <1>5, <1>6, <2>2, <4>2
        <5>3. QED BY <1>5, <5>1, <5>2
      <4>3. QED BY <1>7, <4>1, <4>2
    <3>3. ASSUME NEW r \in 1 .. n + 1, NEW q \in 1 .. n + 1, r < q
          PROVE  label_ref_list'[r].idx + 2 <= label_ref_list'[q].idx
      <4>1. r \in 1 .. n /\ label_ref_list'[r] = label_ref_list[r]
        BY <1>6, <1>7, <2>2, <3>3
      <4>2. CASE q \in 1 .. n
        <5>1. label_ref_list'[q] = label_ref_list[q]
          BY <1>6, <2>2, <4>2
        <5>2. QED BY <1>7, <3>3, <4>1, <4>2, <5>1 DEF IInv, Apart
      <4>3. CASE q = n + 1
        <5>1. label_ref_list[r].idx + 2 <= Here /\ label_ref_list[r].idx \in Int
          BY <1>5, <1>9, <4>1
        <5>2. label_ref_list'[q].idx \in Int /\ label_ref_list'[q].idx >= Here
          BY <1>4, <1>5, <1>6, <2>2, <4>3
        <5>3. QED BY <1>5, <4>1, <5>1, <5>2
      <4>4. QED BY <1>7, <4>2, <4>3
    <3>4. \A r \in 1 .. n + 1 : label_ref_list'[r].idx + 2 <= Here'
      BY <1>5, <3>2
    <3>5. QED BY <1>8, <3>1, <3>2, <3>3, <3>4 DEF Inside, Apart
  <2>3. QED BY <2>1, <2>2
<1>11. Typed'
  <2>1. IsList(label_ref_list') /\ next_ref' \in 1 .. Len(label_ref_list') + 1
    <3>1. next_ref \in 1 .. n + 1 /\ IsList(label_ref_list)
      BY DEF IInv, Typed
    <3>2. Len(label_ref_list') \in {n, n + 1} /\ IsList(label_ref_list')
      BY <1>6, <3>1
    <3>3. next_ref' \in 1 .. n + 1
      BY <1>1, <3>1
    <3> DEFINE k == Len(label_ref_list')
    <3>4. k \in {n, n + 1}
      BY <3>2
    <3> HIDE DEF k, n
    <3>5. next_ref' \in 1 .. k + 1
      BY <1>7, <3>3, <3>4
    <3>6. QED BY <3>2, <3>5 DEF k
  <2>2. QED BY <1>1, <1>2, <1>4, <2>1 DEF IInv, Typed
<1>12. Read' /\ EndsWithHalt'
  <2>1. LabelsOf((line - 1) + 1) = LabelsOf(line - 1)
    <3>1. line - 1 \in Nat /\ (line - 1) + 1 = line
      BY <1>2
    <3>2. QED BY <1>1, <3>1, LabelsGrow
  <2>2. LabelsOf(line - 1)' = LabelsOf((line - 1) + 1)
    <3>1. line' - 1 = (line - 1) + 1
      BY <1>1, <1>2
    <3>2. QED BY <1>1, <3>1 DEF LabelsOf
  <2>3. DOMAIN label_def_map' = LabelsOf(line - 1)'
    BY <1>1, <2>1, <2>2 DEF IInv, Read
  <2>4. QED BY <1>8, <2>3 DEF Read, EndsWithHalt
<1>13. QED BY <1>10, <1>11, <1>12 DEF IInv

\* The HALT at the end of pass 1.
LEMMA EndPass1Keeps ==
  ASSUME Given, IInv, EndPass1
  PROVE  IInv'
<1> DEFINE k == Len(compiled)
<1>1. /\ phase = "pass1" /\ phase' = "pass2" /\ line > Len(source)
      /\ compiled' = Append(compiled, OP_HALT)
      /\ UNCHANGED <<source, line, label_def_map, label_ref_list, next_ref>>
  BY DEF EndPass1
<1>2. line = Len(source) + 1
  BY <1>1, LineRead DEF IInv, Typed
<1>3. /\ compiled' \in Seq(Byte) /\ Len(compiled') = k + 1 /\ k \in Nat
      /\ compiled' # <<>> /\ compiled'[k + 1] = OP_HALT
  <2>1. compiled \in Seq(Byte) /\ OP_HALT \in Byte
    BY Wraps DEF IInv, Typed
  <2>2. Append(compiled, OP_HALT) \in Seq(Byte) /\ Len(Append(compiled, OP_HALT)) = k + 1
    BY <2>1
  <2>3. Append(compiled, OP_HALT)[k + 1] = OP_HALT /\ k \in Nat
    BY <2>1
  <2>4. Append(compiled, OP_HALT) # <<>>
    BY <2>2, <2>3
  <2>5. QED BY <1>1, <2>2, <2>3, <2>4
<1>4. /\ Here = k + 256 /\ Here' = k + 257 /\ Here' - 1 = Here
  <2>1. Here = 256 + k /\ Here' = 256 + Len(compiled')
    BY DEF Here, PROGRAM_START
  <2> HIDE DEF k
  <2>2. QED BY <1>3, <2>1
<1> HIDE DEF k
<1>5. CodeEnd = Here /\ CodeEnd' = Here
  BY <1>1, <1>4 DEF CodeEnd, Assembled
<1>6. DOMAIN label_ref_list = 1 .. Len(label_ref_list) /\ PROGRAM_START = 256
  BY ListsRead DEF IInv
<1>7. Inside' /\ Apart'
  <2>1. ASSUME NEW r \in DOMAIN label_ref_list
        PROVE  /\ label_ref_list[r].idx \in PROGRAM_START .. Here' - 2
               /\ label_ref_list[r].idx + 2 <= Here
    <3>1. /\ label_ref_list[r].idx \in PROGRAM_START .. Here - 2
          /\ label_ref_list[r].idx + 2 <= Here
      BY <1>5 DEF IInv, Inside
    <3>2. QED BY <1>3, <1>4, <1>6, <3>1
  <2>2. QED BY <1>1, <1>5, <2>1 DEF IInv, Inside, Apart
<1>8. Typed'
  BY <1>1, <1>3 DEF IInv, Typed
<1>9. Read' /\ EndsWithHalt'
  <2>1. LabelsOf(line - 1)' = LabelsOf(line - 1)
    BY <1>1 DEF LabelsOf
  <2>2. Read'
    BY <1>1, <1>2, <2>1 DEF IInv, Read
  <2>3. EndsWithHalt'
    BY <1>3 DEF EndsWithHalt
  <2>4. QED BY <2>2, <2>3
<1>10. QED BY <1>7, <1>8, <1>9 DEF IInv

\* A byte of a placeholder.
LEMMA PatchedTyped ==
  ASSUME IInv, NEW r \in DOMAIN label_ref_list, NEW addr \in Nat
  PROVE  LET at   == label_ref_list[r].idx - PROGRAM_START + 1
             code == Patched(compiled, label_ref_list[r].idx, addr)
         IN /\ at \in 1 .. Len(compiled) - 1 /\ at \in Int
            /\ code \in Seq(Byte) /\ Len(code) = Len(compiled)
            /\ \A i \in 1 .. Len(compiled) : code[i] # compiled[i] => i \in {at, at + 1}
<1> DEFINE at   == label_ref_list[r].idx - PROGRAM_START + 1
           code == Patched(compiled, label_ref_list[r].idx, addr)
           k    == Len(compiled)
<1>1. compiled \in Seq(Byte) /\ k \in Nat /\ PROGRAM_START = 256 /\ Here = k + 256
  BY ListsRead DEF IInv, Typed
<1>2. at \in 1 .. k - 1 /\ at \in Int
  <2>1. label_ref_list[r].idx \in PROGRAM_START .. Here - 2
    BY DEF IInv, Inside
  <2> HIDE DEF k
  <2>2. QED BY <1>1, <2>1
<1>3. code = [compiled EXCEPT ![at] = Wrap8(@ + Hi(addr)), ![at + 1] = Wrap8(@ + Lo(addr))]
  BY DEF Patched
<1>4. Hi(addr) \in Int /\ Lo(addr) \in Int
  BY DEF Hi, Lo
<1>5. compiled \in [1 .. k -> Byte] /\ at \in 1 .. k /\ at + 1 \in 1 .. k /\ at + 1 # at
  BY <1>1, <1>2
<1> HIDE DEF at, k
<1>6. compiled[at] \in Int /\ compiled[at + 1] \in Int
  BY <1>5, Wraps
<1>7. Wrap8(compiled[at] + Hi(addr)) \in Byte /\ Wrap8(compiled[at + 1] + Lo(addr)) \in Byte
  BY <1>4, <1>6, Wraps
<1> HIDE DEF code
<1>8. code \in [1 .. k -> Byte] /\ \A i \in 1 .. k : code[i] # compiled[i] => i \in {at, at + 1}
  BY <1>3, <1>5, <1>7
<1>9. code \in Seq(Byte) /\ Len(code) = k
  BY <1>1, <1>8
<1>10. QED BY <1>2, <1>8, <1>9 DEF at, k, code

\* A reference of pass 2.
LEMMA ResolvingKeeps ==
  ASSUME Given, IInv, ResolveRef
  PROVE  /\ IInv'
         /\ phase = "pass2" /\ Len(compiled') = Len(compiled)
         /\ next_ref \in DOMAIN label_ref_list
         /\ \A i \in 1 .. Len(compiled) : compiled'[i] # compiled[i] => i \in Placeholder(next_ref)
<1> DEFINE r == label_ref_list[next_ref]
           at == r.idx - PROGRAM_START + 1
<1>1. /\ phase = "pass2" /\ next_ref <= Len(label_ref_list) /\ next_ref' = next_ref + 1
      /\ compiled' = IF r.label \in DOMAIN label_def_map
                     THEN Patched(compiled, r.idx, label_def_map[r.label]) ELSE compiled
      /\ UNCHANGED <<source, line, label_def_map, label_ref_list, phase>>
  BY DEF ResolveRef
<1>2. /\ Len(label_ref_list) \in Nat /\ DOMAIN label_ref_list = 1 .. Len(label_ref_list)
      /\ Len(compiled) \in Nat /\ Here = Len(compiled) + 256 /\ PROGRAM_START = 256
  BY ListsRead DEF IInv
<1>3. next_ref \in DOMAIN label_ref_list /\ next_ref + 1 \in 1 .. Len(label_ref_list) + 1
  BY <1>1, <1>2 DEF IInv, Typed
<1>4. /\ compiled' \in Seq(Byte) /\ Len(compiled') = Len(compiled)
      /\ at \in 1 .. Len(compiled) - 1 /\ at \in Int
      /\ \A i \in 1 .. Len(compiled) : compiled'[i] # compiled[i] => i \in {at, at + 1}
  <2>1. CASE r.label \in DOMAIN label_def_map
    <3>1. label_def_map[r.label] \in Nat
      BY <2>1 DEF IInv, Typed
    <3>2. QED BY <1>1, <1>3, <2>1, <3>1, PatchedTyped
  <2>2. CASE r.label \notin DOMAIN label_def_map
    <3>1. at \in 1 .. Len(compiled) - 1 /\ at \in Int
      BY <1>3, PatchedTyped
    <3>2. QED BY <1>1, <2>2, <3>1 DEF IInv, Typed
  <2>3. QED BY <2>1, <2>2
<1>5. Here' = Here
  BY <1>4 DEF Here
<1>6. Assembled /\ Assembled' /\ CodeEnd' = CodeEnd
  BY <1>1, <1>5 DEF Assembled, CodeEnd
<1>7. Inside' /\ Apart'
  BY <1>1, <1>5, <1>6 DEF IInv, Inside, Apart
<1>8. Typed'
  BY <1>1, <1>3, <1>4 DEF IInv, Typed
<1>9. Read'
  <2>1. LabelsOf(line - 1)' = LabelsOf(line - 1)
    BY <1>1 DEF LabelsOf
  <2>2. QED BY <1>1, <1>6, <2>1 DEF IInv, Read
<1>10. EndsWithHalt'
  <2>1. compiled # <<>> /\ compiled[Len(compiled)] = OP_HALT
    BY <1>6 DEF IInv, EndsWithHalt
  <2>2. Len(compiled) \in 1 .. Len(compiled)
    BY <1>4
  <2>3. r.idx + 2 <= Here - 1
    BY <1>3, <1>6 DEF IInv, Inside, CodeEnd
  <2>4. Len(compiled) \notin {at, at + 1}
    <3>1. r.idx \in Int
      BY <1>2, <1>3 DEF IInv, Inside
    <3>2. at + 1 < Len(compiled)
      BY <1>2, <2>3, <3>1
    <3>3. QED BY <1>2, <1>4, <3>2
  <2>5. compiled'[Len(compiled)] = OP_HALT
    BY <1>4, <2>1, <2>2, <2>4
  <2>6. compiled' # <<>>
    BY <1>4, <2>2
  <2>7. QED BY <1>4, <2>5, <2>6 DEF EndsWithHalt
<1>11. Placeholder(next_ref) = {at, at + 1}
  BY DEF Placeholder
<1>12. QED BY <1>1, <1>3, <1>4, <1>7, <1>8, <1>9, <1>10, <1>11 DEF IInv

\* No two placeholders share a byte.
LEMMA PlaceholdersApart ==
  ASSUME IInv, NEW r \in DOMAIN label_ref_list, NEW q \in DOMAIN label_ref_list, r # q
  PROVE  Placeholder(r) \cap Placeholder(q) = {}
<1> DEFINE a == label_ref_list[r].idx
           b == label_ref_list[q].idx
<1>1. r \in Nat /\ q \in Nat /\ PROGRAM_START = 256
  BY ListsRead DEF IInv
<1>2. a \in Int /\ b \in Int
  BY <1>1 DEF IInv, Inside
<1>3. a + 2 <= b \/ b + 2 <= a
  <2>1. r < q \/ q < r
    BY <1>1
  <2>2. QED BY <2>1 DEF IInv, Apart
<1>4. Placeholder(r) = {a - 255, a - 254} /\ Placeholder(q) = {b - 255, b - 254}
  BY <1>1, <1>2 DEF Placeholder
<1> HIDE DEF a, b
<1>5. QED BY <1>2, <1>3, <1>4

\* Every step.
LEMMA IInvKept ==
  ASSUME Given
  PROVE  IInv /\ [Next]_vars => IInv'
<1> SUFFICES ASSUME IInv, [Next]_vars PROVE IInv'
  OBVIOUS
<1>1. CASE DefineLabel \/ DefineConstant
  BY <1>1, DefinitionKeeps
<1>2. CASE AssembleLine
  BY <1>2, AssemblingKeeps
<1>3. CASE Crash
  <2>1. /\ phase = "pass1" /\ phase' = "crashed"
        /\ UNCHANGED <<source, line, compiled, label_def_map, label_ref_list, next_ref>>
    BY <1>3 DEF Crash, Reading
  <2>2. ~Assembled /\ ~Assembled' /\ Here' = Here /\ CodeEnd' = CodeEnd
    BY <2>1 DEF Assembled, Here, CodeEnd
  <2>3. LabelsOf(line - 1)' = LabelsOf(line - 1)
    BY <2>1 DEF LabelsOf
  <2>4. Typed'
    BY <2>1 DEF IInv, Typed
  <2>5. QED BY <2>1, <2>2, <2>3, <2>4 DEF IInv, Inside, Apart, Read, EndsWithHalt
<1>4. CASE EndPass1
  BY <1>4, EndPass1Keeps
<1>5. CASE ResolveRef
  BY <1>5, ResolvingKeeps
<1>6. CASE EndPass2
  <2>1. /\ phase = "pass2" /\ phase' = "done"
        /\ UNCHANGED <<source, line, compiled, label_def_map, label_ref_list, next_ref>>
    BY <1>6 DEF EndPass2
  <2>2. Assembled /\ Assembled' /\ Here' = Here /\ CodeEnd' = CodeEnd
    BY <2>1 DEF Assembled, Here, CodeEnd
  <2>3. LabelsOf(line - 1)' = LabelsOf(line - 1)
    BY <2>1 DEF LabelsOf
  <2>4. Typed'
    BY <2>1 DEF IInv, Typed
  <2>5. QED BY <2>1, <2>2, <2>3, <2>4 DEF IInv, Inside, Apart, Read, EndsWithHalt
<1>7. CASE UNCHANGED vars
  <2>1. UNCHANGED <<source, line, compiled, label_def_map, label_ref_list, next_ref, phase>>
    BY <1>7 DEF vars
  <2>2. Typed' /\ Inside' /\ Apart'
    BY <2>1 DEF IInv, Typed, Inside, Apart, CodeEnd, Assembled, Here
  <2>3. Read' /\ EndsWithHalt'
    BY <2>1 DEF IInv, Read, EndsWithHalt, Assembled, LabelsOf
  <2>4. QED BY <2>2, <2>3 DEF IInv
<1>8. QED BY <1>1, <1>2, <1>3, <1>4, <1>5, <1>6, <1>7 DEF Next

\* The invariant holds throughout.
LEMMA Invariance ==
  ASSUME Given
  PROVE  Spec => []IInv
<1>1. Init => IInv
  BY InitIInv
<1>2. IInv /\ [Next]_vars => IInv'
  BY IInvKept
<1>3. QED BY <1>1, <1>2, PTL DEF Spec

-----------------------------------------------------------------------------
(***************************************************************************)
(* Two passes, and what a source stands for.                               *)
(***************************************************************************)
\* What lines emit.
LEMMA EmitsCode ==
  ASSUME Given, Typed
  PROVE  \A i \in 1 .. Len(source) : IsCode(Emits(source[i])) /\ Size(source[i]) \in Nat
<1> SUFFICES ASSUME NEW i \in 1 .. Len(source)
             PROVE  IsCode(Emits(source[i])) /\ Size(source[i]) \in Nat
  OBVIOUS
<1>1. IsCode(LineCode(source[i]))
  BY LineRead, LineIsCode DEF Given
<1>2. IsCode(Emits(source[i]))
  BY <1>1, BytesAreCode DEF Emits
<1>3. Emits(source[i]).bytes \in Seq(Byte)
  BY <1>2 DEF IsCode
<1>4. Size(source[i]) \in Nat
  BY <1>3 DEF Size
<1>5. QED BY <1>2, <1>4

\* The equation that defines Starts.
Chain(at) == at = [i \in 1 .. Len(source) + 1 |->
                     IF i = 1 THEN PROGRAM_START ELSE at[i - 1] + Size(source[i - 1])]

\* Starts is the function with that equation, if there is one.
LEMMA StartsChosen == Starts = CHOOSE at : Chain(at)
  BY DEF Starts, Chain

\* Every line starts where the one before it ends.
LEMMA StartsFollow ==
  ASSUME Given, Typed
  PROVE  /\ Starts \in [1 .. Len(source) + 1 -> Nat] /\ Starts[1] = PROGRAM_START
         /\ \A i \in 1 .. Len(source) : Starts[i + 1] = Starts[i] + Size(source[i])
<1> DEFINE n == Len(source)
           round == [i \in 1 .. n |-> [a \in Nat |-> a + Size(source[i])]]
<1>1. n \in Nat /\ \A i \in 1 .. n : Size(source[i]) \in Nat
  BY LineRead, EmitsCode
<1> HIDE DEF n
<1>2. PICK after : Runs(after, n, Nat, PROGRAM_START, round)
  <2>1. round \in Rounds(n, Nat) /\ PROGRAM_START \in Nat
    BY <1>1 DEF Rounds, PROGRAM_START
  <2>2. QED BY <1>1, <2>1, LoopExists
<1> DEFINE at == [i \in 1 .. n + 1 |-> after[i - 1]]
<1>3. Chain(at)
  <2>1. ASSUME NEW i \in 1 .. n + 1
        PROVE  after[i - 1] = IF i = 1 THEN PROGRAM_START ELSE at[i - 1] + Size(source[i - 1])
    <3>1. CASE i = 1
      BY <1>2, <3>1 DEF Runs
    <3>2. CASE i # 1
      <4>1. i - 1 \in 1 .. n /\ i - 1 \in 1 .. n + 1 /\ (i - 1) - 1 \in 0 .. n
        BY <1>1, <3>2
      <4>2. after[i - 1] = round[i - 1][after[(i - 1) - 1]] /\ after[(i - 1) - 1] \in Nat
        BY <1>2, <4>1 DEF Runs
      <4>3. at[i - 1] = after[(i - 1) - 1]
        BY <4>1
      <4>4. QED BY <3>2, <4>1, <4>2, <4>3
    <3>3. QED BY <3>1, <3>2
  <2>2. QED BY <2>1 DEF Chain, n
<1>4. Chain(Starts)
  BY <1>3, StartsChosen
<1>5. Starts = [i \in 1 .. n + 1 |-> IF i = 1 THEN PROGRAM_START
                                     ELSE Starts[i - 1] + Size(source[i - 1])]
  BY <1>4 DEF Chain, n
<1>6. /\ Starts[1] = PROGRAM_START
      /\ \A i \in 1 .. n : Starts[i + 1] = Starts[i] + Size(source[i])
  <2>1. 1 \in 1 .. n + 1 /\ \A i \in 1 .. n : i + 1 \in 1 .. n + 1 /\ i + 1 # 1 /\ (i + 1) - 1 = i
    BY <1>1
  <2>2. Starts[1] = PROGRAM_START
    BY <1>5, <2>1
  <2>3. ASSUME NEW i \in 1 .. n PROVE Starts[i + 1] = Starts[i] + Size(source[i])
    <3>1. Starts[i + 1] = Starts[(i + 1) - 1] + Size(source[(i + 1) - 1])
      BY <1>5, <2>1
    <3>2. QED BY <2>1, <3>1
  <2>4. QED BY <2>2, <2>3
<1>7. \A i \in 0 .. n : i \in {j \in 0 .. n : Starts[j + 1] \in Nat}
  <2> DEFINE S == {j \in 0 .. n : Starts[j + 1] \in Nat}
  <2>1. 0 \in S
    BY <1>1, <1>6 DEF PROGRAM_START
  <2>2. ASSUME NEW i \in 0 .. n - 1, i \in S PROVE i + 1 \in S
    <3>1. i + 1 \in 1 .. n /\ Starts[i + 1] \in Nat
      BY <1>1, <2>2
    <3>2. Starts[(i + 1) + 1] = Starts[i + 1] + Size(source[i + 1])
      BY <1>6, <3>1
    <3>3. QED BY <1>1, <3>1, <3>2
  <2> HIDE DEF S
  <2>3. \A i \in 0 .. n : i \in S
    BY <1>1, <2>1, <2>2, UpTo
  <2>4. QED BY <2>3 DEF S
<1>8. ASSUME NEW i \in 1 .. n + 1 PROVE Starts[i] \in Nat
  <2>1. i - 1 \in 0 .. n /\ (i - 1) + 1 = i
    BY <1>1
  <2>2. QED BY <1>7, <2>1
<1>9. Starts \in [1 .. n + 1 -> Nat]
  BY <1>5, <1>8
<1>10. QED BY <1>6, <1>9 DEF n

\* A line ends before any later one starts.
LEMMA StartsRise ==
  ASSUME Given, Typed, NEW i \in 1 .. Len(source), NEW j \in i + 1 .. Len(source) + 1
  PROVE  Starts[i] + Size(source[i]) <= Starts[j]
<1> DEFINE n == Len(source)
           S == {d \in 0 .. j - i - 1 : Starts[i] + Size(source[i]) <= Starts[i + 1 + d]}
<1>1. /\ n \in Nat /\ Starts \in [1 .. n + 1 -> Nat] /\ i \in Nat /\ j \in Nat
      /\ \A k \in 1 .. n : Starts[k + 1] = Starts[k] + Size(source[k]) /\ Size(source[k]) \in Nat
  BY LineRead, StartsFollow, EmitsCode
<1>2. j - i - 1 \in Nat
  BY <1>1
<1>3. 0 \in S
  <2>1. Starts[i + 1 + 0] = Starts[i] + Size(source[i])
    BY <1>1
  <2>2. Starts[i] \in Nat /\ Size(source[i]) \in Nat
    BY <1>1
  <2>3. QED BY <1>2, <2>1, <2>2
<1>4. ASSUME NEW d \in 0 .. (j - i - 1) - 1, d \in S PROVE d + 1 \in S
  <2>1. i + 1 + d \in 1 .. n /\ (i + 1 + d) + 1 = i + 1 + (d + 1) /\ d + 1 \in 0 .. j - i - 1
    BY <1>1
  <2>2. Starts[i + 1 + (d + 1)] = Starts[i + 1 + d] + Size(source[i + 1 + d])
    BY <1>1, <2>1
  <2>3. Size(source[i + 1 + d]) \in Nat /\ Starts[i + 1 + d] \in Nat
        /\ Starts[i] \in Nat /\ Size(source[i]) \in Nat
    <3>1. i + 1 + d \in 1 .. n + 1 /\ i \in 1 .. n + 1 /\ i \in 1 .. n
      BY <1>1, <2>1
    <3>2. QED BY <1>1, <2>1, <3>1
  <2>4. QED BY <1>4, <2>1, <2>2, <2>3
<1> HIDE DEF S
<1>5. j - i - 1 \in S
  <2>1. \A d \in 0 .. j - i - 1 : d \in S
    BY <1>2, <1>3, <1>4, UpTo
  <2>2. QED BY <1>2, <2>1
<1>6. i + 1 + (j - i - 1) = j
  BY <1>1
<1>7. QED BY <1>5, <1>6 DEF S

\* Line i has a placeholder, and it is e, or the r-th.
HasRef(i)  == Emits(source[i]).ref # <<>>
IsRefOf(i, e) == /\ HasRef(i)
                 /\ e.label = Emits(source[i]).ref[1].label
                 /\ e.idx = Starts[i] + Emits(source[i]).ref[1].offset
Owns(i, r)    == IsRefOf(i, label_ref_list[r])

\* Pass 2 has passed the placeholder of line i.
Resolved(i) == \E r \in 1 .. next_ref - 1 : Owns(i, r)

\* The code ends where the next line starts, labels have their values, every line with
\* a label has a placeholder and every placeholder a line, and each byte is
\* what its line stands for, less the label while pass 2 has not come to it.
Ends     == /\ CodeEnd = Starts[line]
            /\ ~Assembled => next_ref = 1
            /\ phase = "done" => next_ref = Len(label_ref_list) + 1
Valued   == \A x \in DOMAIN label_def_map : label_def_map[x] = Value(x)
Owned    == /\ \A r \in 1 .. Len(label_ref_list) : \E i \in 1 .. line - 1 : Owns(i, r)
            /\ \A i \in 1 .. line - 1 :
                 HasRef(i) => \E r \in 1 .. Len(label_ref_list) : Owns(i, r)
ByteAt(i, k) == IF Resolved(i) THEN Translation(i, k) ELSE Emits(source[i]).bytes[k]
Compiled == \A i \in 1 .. line - 1 : \A k \in 1 .. Size(source[i]) :
              compiled[Starts[i] - PROGRAM_START + k] = ByteAt(i, k)

JInv == IInv /\ Ends /\ Valued /\ Owned /\ Compiled

\* Without a placeholder a byte is what its line emits.
LEMMA PlainByte ==
  ASSUME NEW i, ~HasRef(i)
  PROVE  ~Resolved(i) /\ \A k : Translation(i, k) = Emits(source[i]).bytes[k]
BY DEF Resolved, Owns, IsRefOf, HasRef, Translation

\* Initially.
LEMMA InitJInv ==
  ASSUME Given, Init
  PROVE  JInv
<1>1. IInv
  BY InitIInv
<1>2. line = 1 /\ phase = "pass1" /\ next_ref = 1 /\ label_ref_list = <<>> /\ compiled = <<>>
      /\ label_def_map = <<>>
  BY DEF Init
<1>3. Starts[1] = PROGRAM_START /\ Here = PROGRAM_START
  BY <1>1, <1>2, StartsFollow DEF IInv, Here, PROGRAM_START
<1>4. Ends
  BY <1>2, <1>3 DEF Ends, CodeEnd, Assembled
<1>5. Valued /\ Owned /\ Compiled
  BY <1>2 DEF Valued, Owned, Compiled
<1>6. QED BY <1>1, <1>4, <1>5 DEF JInv

\* What depends on the source alone.
LEMMA SameSource ==
  ASSUME source' = source
  PROVE  /\ Starts' = Starts
         /\ \A i : Emits(source[i])' = Emits(source[i]) /\ HasRef(i)' = HasRef(i)
                   /\ Size(source[i])' = Size(source[i])
         /\ \A x : Value(x)' = Value(x) /\ Definitions(x)' = Definitions(x)
         /\ \A i, k : Translation(i, k)' = Translation(i, k)
         /\ \A i, e : IsRefOf(i, e)' = IsRefOf(i, e)
<1>1. Starts' = Starts
  BY DEF Starts
<1>2. \A i : Emits(source[i])' = Emits(source[i]) /\ HasRef(i)' = HasRef(i)
             /\ Size(source[i])' = Size(source[i])
  BY DEF HasRef
<1>3. \A x : Definitions(x)' = Definitions(x)
  BY DEF Definitions
<1>4. \A x : Definition(x)' = Definition(x)
  BY <1>3 DEF Definition
<1>5. \A x : Value(x)' = Value(x)
  BY <1>1, <1>4 DEF Value
<1>6. \A i, k : Translation(i, k)' = Translation(i, k)
  BY <1>2, <1>3, <1>5 DEF Translation
<1>7. \A i, e : IsRefOf(i, e)' = IsRefOf(i, e)
  BY <1>1, <1>2 DEF IsRefOf
<1>8. QED BY <1>1, <1>2, <1>3, <1>5, <1>6, <1>7

\* Where the bytes of a line that was read lie.
LEMMA BytesLie ==
  ASSUME Given, JInv, NEW i \in 1 .. line - 1, NEW k \in 1 .. Size(source[i])
  PROVE  /\ i \in 1 .. Len(source) /\ k \in Nat /\ Starts[i] \in Nat
         /\ Starts[i] - PROGRAM_START + k \in 1 .. CodeEnd - PROGRAM_START
         /\ Starts[i] - PROGRAM_START + k \in 1 .. Len(compiled)
<1>1. /\ Typed /\ Len(source) \in Nat /\ line \in Nat /\ line \in 1 .. Len(source) + 1
      /\ PROGRAM_START = 256 /\ Here = Len(compiled) + 256 /\ Len(compiled) \in Nat
  BY LineRead, ListsRead DEF JInv, IInv, Typed
<1>2. i \in 1 .. Len(source) /\ line \in i + 1 .. Len(source) + 1 /\ i \in 1 .. Len(source) + 1
  BY <1>1
<1>3. /\ Starts[i] \in Nat /\ Size(source[i]) \in Nat
      /\ Starts[i] + Size(source[i]) <= Starts[line]
  <2>1. Starts[i] \in Nat
    BY <1>1, <1>2, StartsFollow
  <2>2. Size(source[i]) \in Nat
    BY <1>1, <1>2, EmitsCode
  <2>3. Starts[i] + Size(source[i]) <= Starts[line]
    BY <1>1, <1>2, StartsRise
  <2>4. QED BY <2>1, <2>2, <2>3
<1>4. Starts[i] >= 256
  <2>1. CASE i = 1
    BY <1>1, <2>1, StartsFollow
  <2>2. CASE i # 1
    <3>1. 1 \in 1 .. Len(source) /\ i \in 1 + 1 .. Len(source) + 1
      BY <1>2, <2>2
    <3>2. Starts[1] + Size(source[1]) <= Starts[i] /\ Size(source[1]) \in Nat
      BY <1>1, <3>1, StartsRise, EmitsCode
    <3>3. Starts[1] = 256
      BY <1>1, StartsFollow
    <3>4. QED BY <1>3, <3>2, <3>3
  <2>3. QED BY <2>1, <2>2
<1>5. CodeEnd = Starts[line] /\ CodeEnd \in Int /\ CodeEnd <= Here
  BY <1>1 DEF JInv, Ends, CodeEnd
<1> DEFINE a == Starts[i]
           b == Size(source[i])
           e == Len(compiled)
<1> HIDE DEF a, b, e
<1>6. /\ a \in Nat /\ b \in Nat /\ a >= 256 /\ a + b <= CodeEnd
      /\ CodeEnd \in Int /\ CodeEnd <= e + 256 /\ e \in Nat /\ k \in 1 .. b
  BY <1>1, <1>3, <1>4, <1>5 DEF a, b, e
<1>7. /\ k \in Nat /\ a - 256 + k \in 1 .. CodeEnd - 256 /\ a - 256 + k \in 1 .. e
  BY <1>6
<1>8. QED BY <1>1, <1>2, <1>6, <1>7 DEF a, e

\* The first definition of a label.
LEMMA FirstDefinition ==
  ASSUME NEW x, Len(source) \in Nat, Definitions(x) # {}
  PROVE  /\ Definition(x) \in Definitions(x) /\ Definition(x) \in 1 .. Len(source)
         /\ \A j \in Definitions(x) : Definition(x) <= j
<1>1. Definitions(x) \subseteq 1 .. Len(source)
  BY DEF Definitions
<1>2. \E i \in Definitions(x) : \A j \in Definitions(x) : i <= j
  <2>1. Definitions(x) \subseteq Nat
    BY <1>1
  <2>2. QED BY <2>1, LeastNumber
<1>3. /\ Definition(x) \in Definitions(x)
      /\ \A j \in Definitions(x) : Definition(x) <= j
  BY <1>2 DEF Definition
<1>4. QED BY <1>1, <1>3

\* A line that defines a label: its value.
LEMMA ValueDefined ==
  ASSUME Given, JInv, line \in 1 .. Len(source), Defines(source[line]),
         source[line][1].arg \notin DOMAIN label_def_map, ~Assembled
  PROVE  Value(source[line][1].arg) = IF Sym(source[line], 1) = "def" THEN Here
                                      ELSE source[line][3].arg
<1> DEFINE x == source[line][1].arg
<1>1. Len(source) \in Nat /\ line \in Nat
  BY LineRead DEF JInv, IInv
<1>2. line \in Definitions(x)
  BY DEF Definitions
<1>3. ASSUME NEW j \in Definitions(x) PROVE line <= j
  <2>1. j \in 1 .. Len(source) /\ Defines(source[j]) /\ source[j][1].arg = x
    BY DEF Definitions
  <2>2. j \notin 1 .. line - 1
    <3>1. x \notin LabelsOf(line - 1)
      BY DEF JInv, IInv, Read
    <3>2. QED BY <2>1, <3>1 DEF LabelsOf
  <2>3. QED BY <1>1, <2>1, <2>2
<1>4. Definition(x) = line
  <2>1. Definition(x) \in Definitions(x) /\ Definition(x) <= line /\ Definition(x) \in 1 .. Len(source)
    BY <1>1, <1>2, FirstDefinition
  <2>2. line <= Definition(x)
    BY <1>3, <2>1
  <2>3. QED BY <1>1, <2>1, <2>2
<1>5. Starts[line] = Here
  BY DEF JInv, Ends, CodeEnd
<1> HIDE DEF x
<1>6. Value(x) = IF Sym(source[line], 1) = "def" THEN Here ELSE source[line][3].arg
  BY <1>4, <1>5 DEF Value
<1>7. QED BY <1>6 DEF x

\* A line that defines a label.
LEMMA DefinitionTranslates ==
  ASSUME Given, JInv, DefineLabel \/ DefineConstant
  PROVE  JInv'
<1> DEFINE x == source[line][1].arg
<1>1. /\ phase = "pass1" /\ line <= Len(source) /\ line' = line + 1
      /\ UNCHANGED <<source, compiled, label_ref_list, next_ref, phase>>
      /\ Defines(source[line])
  BY DEF DefineLabel, DefineConstant, Reading, Defines
<1>2. line \in 1 .. Len(source) /\ line \in Nat /\ Len(source) \in Nat /\ ~Assembled /\ ~Assembled'
  BY <1>1, LineRead DEF JInv, IInv, Typed, Assembled
<1>3. IInv'
  BY DefinitionKeeps DEF JInv
<1>4. /\ Starts' = Starts
      /\ \A i : Emits(source[i])' = Emits(source[i]) /\ HasRef(i)' = HasRef(i)
                /\ Size(source[i])' = Size(source[i])
      /\ \A y : Value(y)' = Value(y)
      /\ \A i, k : Translation(i, k)' = Translation(i, k)
      /\ \A i, e : IsRefOf(i, e)' = IsRefOf(i, e)
  BY <1>1, SameSource
<1>5. Emits(source[line]) = Nothing /\ ~HasRef(line) /\ Size(source[line]) = 0
  BY <1>1 DEF Emits, HasRef, Nothing, Size
<1>6. Ends'
  <2>1. Starts[line + 1] = Starts[line] + 0 /\ Starts[line] \in Nat
    BY <1>2, <1>5, StartsFollow DEF JInv, IInv
  <2>2. Here' = Here
    BY <1>1 DEF Here
  <2>3. CodeEnd' = Starts'[line']
    BY <1>1, <1>2, <1>4, <2>1, <2>2 DEF JInv, Ends, CodeEnd
  <2>4. QED BY <1>1, <1>2, <2>3 DEF JInv, Ends
<1>7. Valued'
  <2>1. \E v : Define(x, v) /\ (x \notin DOMAIN label_def_map => v = Value(x))
    <3>1. CASE DefineLabel
      <4>1. Sym(source[line], 1) = "def" /\ Define(x, Here)
        BY <3>1 DEF DefineLabel
      <4>2. QED BY <1>1, <1>2, <4>1, ValueDefined
    <3>2. CASE DefineConstant
      <4>1. Sym(source[line], 1) # "def" /\ Define(x, source[line][3].arg)
        BY <3>2 DEF DefineConstant, IsConstant
      <4>2. QED BY <1>1, <1>2, <4>1, ValueDefined
    <3>3. QED BY <3>1, <3>2
  <2> HIDE DEF x
  <2>2. \A y \in DOMAIN label_def_map' : label_def_map'[y] = Value(y)
    BY <2>1 DEF Define, JInv, Valued
  <2>3. QED BY <1>4, <2>2 DEF Valued
<1>8. \A i, r : Owns(i, r)' = Owns(i, r)
  BY <1>1, <1>4 DEF Owns
<1>9. line' - 1 = line /\ 1 .. line = (1 .. line - 1) \cup {line}
  BY <1>1, <1>2
<1>10. Owned'
  BY <1>1, <1>4, <1>5, <1>8, <1>9 DEF JInv, Owned
<1>11. \A i : Resolved(i)' = Resolved(i)
  BY <1>1, <1>8 DEF Resolved
<1>12. Compiled'
  <2>1. \A i, k : ByteAt(i, k)' = ByteAt(i, k)
    BY <1>4, <1>11 DEF ByteAt
  <2>2. \A i \in 1 .. line' - 1 : \A k \in 1 .. Size(source[i]) :
          compiled[Starts[i] - PROGRAM_START + k] = ByteAt(i, k)
    BY <1>5, <1>9 DEF JInv, Compiled
  <2>3. QED BY <1>1, <1>4, <2>1, <2>2 DEF Compiled
<1>13. QED BY <1>3, <1>6, <1>7, <1>10, <1>12 DEF JInv

\* The bytes of different lines lie apart.
LEMMA LinesApart ==
  ASSUME Given, JInv, NEW i \in 1 .. line - 1, NEW j \in 1 .. line - 1, i # j,
         NEW k \in 1 .. Size(source[i]), NEW l \in 1 .. Size(source[j])
  PROVE  Starts[i] + k # Starts[j] + l
<1>1. Typed /\ Len(source) \in Nat /\ line \in 1 .. Len(source) + 1
  BY LineRead DEF JInv, IInv, Typed
<1>2. i \in 1 .. Len(source) /\ j \in 1 .. Len(source)
  BY <1>1
<1>3. Starts[i] \in Nat /\ Starts[j] \in Nat
  <2>1. i \in 1 .. Len(source) + 1 /\ j \in 1 .. Len(source) + 1
    BY <1>1, <1>2
  <2>2. QED BY <1>1, <2>1, StartsFollow
<1>4. Size(source[i]) \in Nat /\ Size(source[j]) \in Nat
  BY <1>1, <1>2, EmitsCode
<1>5. CASE i < j
  <2>1. j \in i + 1 .. Len(source) + 1
    BY <1>1, <1>2, <1>5
  <2>2. Starts[i] + Size(source[i]) <= Starts[j]
    BY <1>1, <1>2, <2>1, StartsRise
  <2>3. QED BY <1>3, <1>4, <2>2
<1>6. CASE j < i
  <2>1. i \in j + 1 .. Len(source) + 1
    BY <1>1, <1>2, <1>6
  <2>2. Starts[j] + Size(source[j]) <= Starts[i]
    BY <1>1, <1>2, <2>1, StartsRise
  <2>3. QED BY <1>3, <1>4, <2>2
<1>7. i < j \/ j < i
  BY <1>2
<1>8. QED BY <1>5, <1>6, <1>7

\* The placeholder of a line lies in its bytes.
LEMMA OffsetInside ==
  ASSUME Given, Typed, NEW i \in 1 .. Len(source), HasRef(i)
  PROVE  LET d == Emits(source[i]).ref[1].offset
         IN d \in Nat /\ d + 1 \in 1 .. Size(source[i]) /\ d + 2 \in 1 .. Size(source[i])
<1>1. IsCode(Emits(source[i])) /\ Size(source[i]) \in Nat
  BY EmitsCode
<1>2. PICK label, offset : /\ Emits(source[i]).ref = <<[label |-> label, offset |-> offset]>>
                           /\ offset \in Nat /\ offset + 2 <= Size(source[i])
  BY <1>1 DEF IsCode, HasRef, Size
<1>3. Emits(source[i]).ref[1].offset = offset
  BY <1>2
<1>4. QED BY <1>1, <1>2, <1>3

\* A placeholder has one line, and a line one placeholder.
LEMMA OneOwner ==
  ASSUME Given, JInv, NEW i \in 1 .. line - 1, NEW j \in 1 .. line - 1,
         NEW r \in 1 .. Len(label_ref_list), NEW q \in 1 .. Len(label_ref_list),
         Owns(i, r), Owns(j, q)
  PROVE  i = j <=> r = q
<1>1. Typed /\ Len(source) \in Nat /\ line \in 1 .. Len(source) + 1
  BY LineRead DEF JInv, IInv, Typed
<1>2. i \in 1 .. Len(source) /\ j \in 1 .. Len(source)
  BY <1>1
<1> DEFINE d == Emits(source[i]).ref[1].offset
           e == Emits(source[j]).ref[1].offset
<1>3. /\ d \in Nat /\ d + 1 \in 1 .. Size(source[i])
      /\ e \in Nat /\ e + 1 \in 1 .. Size(source[j])
  BY <1>1, <1>2, OffsetInside DEF Owns, IsRefOf
<1>4. label_ref_list[r].idx = Starts[i] + d /\ label_ref_list[q].idx = Starts[j] + e
  BY DEF Owns, IsRefOf
<1> HIDE DEF d, e
<1>5. Starts[i] \in Nat /\ Starts[j] \in Nat
  <2>1. i \in 1 .. Len(source) + 1 /\ j \in 1 .. Len(source) + 1
    BY <1>1, <1>2
  <2>2. QED BY <1>1, <2>1, StartsFollow
<1>6. ASSUME r = q, i # j PROVE FALSE
  <2>1. Starts[i] + (d + 1) # Starts[j] + (e + 1)
    BY <1>3, <1>6, LinesApart
  <2>2. Starts[i] + d = Starts[j] + e
    BY <1>4, <1>6
  <2> DEFINE a == Starts[i]
             b == Starts[j]
  <2>3. /\ d \in Nat /\ e \in Nat /\ a \in Nat /\ b \in Nat
        /\ a + (d + 1) # b + (e + 1) /\ a + d = b + e
    BY <1>3, <1>5, <2>1, <2>2
  <2> HIDE DEF a, b
  <2>4. QED BY <2>3
<1>7. ASSUME i = j, r # q PROVE FALSE
  <2>1. d = e
    BY <1>7 DEF d, e
  <2>2. label_ref_list[r].idx = label_ref_list[q].idx /\ label_ref_list[r].idx \in Nat
    BY <1>3, <1>4, <1>5, <1>7, <2>1
  <2>3. Placeholder(r) = Placeholder(q) /\ Placeholder(r) # {}
    BY <2>2 DEF Placeholder
  <2>4. Placeholder(r) \cap Placeholder(q) = {}
    BY <1>1, <1>7, PlaceholdersApart, ListsRead DEF JInv
  <2>5. QED BY <2>3, <2>4
<1>8. QED BY <1>6, <1>7

\* The HALT at the end of pass 1.
LEMMA EndPass1Translates ==
  ASSUME Given, JInv, EndPass1
  PROVE  JInv'
<1>1. /\ phase = "pass1" /\ phase' = "pass2"
      /\ compiled' = Append(compiled, OP_HALT)
      /\ UNCHANGED <<source, line, label_def_map, label_ref_list, next_ref>>
  BY DEF EndPass1
<1>2. IInv'
  BY EndPass1Keeps DEF JInv
<1>3. /\ Starts' = Starts
      /\ \A i : Emits(source[i])' = Emits(source[i]) /\ HasRef(i)' = HasRef(i)
                /\ Size(source[i])' = Size(source[i])
      /\ \A y : Value(y)' = Value(y)
      /\ \A i, k : Translation(i, k)' = Translation(i, k)
      /\ \A i, e : IsRefOf(i, e)' = IsRefOf(i, e)
  BY <1>1, SameSource
<1>4. compiled \in Seq(Byte) /\ Len(compiled) \in Nat /\ OP_HALT \in Byte
  BY Wraps DEF JInv, IInv, Typed
<1>5. /\ Len(compiled') = Len(compiled) + 1
      /\ \A p \in 1 .. Len(compiled) : compiled'[p] = compiled[p]
  BY <1>1, <1>4
<1>6. CodeEnd' = CodeEnd
  <2>1. CodeEnd = 256 + Len(compiled) /\ CodeEnd' = (256 + Len(compiled')) - 1
    BY <1>1 DEF CodeEnd, Assembled, Here, PROGRAM_START
  <2>2. QED BY <1>4, <1>5, <2>1
<1>7. Ends'
  BY <1>1, <1>3, <1>6 DEF JInv, Ends, Assembled
<1>8. Valued'
  BY <1>1, <1>3 DEF JInv, Valued
<1>9. \A i, r : Owns(i, r)' = Owns(i, r)
  BY <1>1, <1>3 DEF Owns
<1>10. Owned'
  BY <1>1, <1>3, <1>9 DEF JInv, Owned
<1>11. Compiled'
  <2>1. \A i, k : ByteAt(i, k)' = ByteAt(i, k)
    BY <1>1, <1>3, <1>9 DEF ByteAt, Resolved
  <2>2. ASSUME NEW i \in 1 .. line - 1, NEW k \in 1 .. Size(source[i])
        PROVE  compiled'[Starts[i] - PROGRAM_START + k] = ByteAt(i, k)
    BY <1>5, BytesLie DEF JInv, Compiled
  <2>3. QED BY <1>1, <1>3, <2>1, <2>2 DEF Compiled
<1>12. QED BY <1>2, <1>7, <1>8, <1>10, <1>11 DEF JInv

\* The code before a line, and that of the line behind it.
LEMMA Joined ==
  ASSUME NEW s \in Seq(Byte), NEW t \in Seq(Byte)
  PROVE  /\ Len(s \o t) = Len(s) + Len(t)
         /\ \A p \in 1 .. Len(s) : (s \o t)[p] = s[p]
         /\ \A k \in 1 .. Len(t) : (s \o t)[Len(s) + k] = t[k]
<1>1. Len(s) \in Nat /\ Len(t) \in Nat /\ Len(s \o t) = Len(s) + Len(t)
  BY Emitted
<1>2. \A p \in 1 .. Len(s) + Len(t) : (s \o t)[p] = IF p <= Len(s) THEN s[p] ELSE t[p - Len(s)]
  BY <1>1
<1>3. ASSUME NEW p \in 1 .. Len(s) PROVE (s \o t)[p] = s[p]
  BY <1>1, <1>2
<1>4. ASSUME NEW k \in 1 .. Len(t) PROVE (s \o t)[Len(s) + k] = t[k]
  <2>1. /\ Len(s) + k \in 1 .. Len(s) + Len(t)
        /\ ~(Len(s) + k <= Len(s)) /\ (Len(s) + k) - Len(s) = k
    BY <1>1
  <2>2. QED BY <1>2, <2>1
<1>5. QED BY <1>1, <1>3, <1>4

\* Any other line.
LEMMA AssemblingTranslates ==
  ASSUME Given, JInv, AssembleLine
  PROVE  JInv'
<1> DEFINE c == Emits(source[line])
           n == Len(label_ref_list)
<1>1. /\ phase = "pass1" /\ line <= Len(source) /\ line' = line + 1
      /\ UNCHANGED <<source, label_def_map, next_ref, phase>>
      /\ c = LineCode(source[line])
      /\ compiled' = compiled \o c.bytes
      /\ label_ref_list' = label_ref_list
           \o [i \in DOMAIN c.ref |-> [label |-> c.ref[i].label, idx |-> Here + c.ref[i].offset]]
  BY DEF AssembleLine, Reading, Defines, Emits
<1>2. /\ line \in 1 .. Len(source) /\ line \in Nat /\ Len(source) \in Nat
      /\ ~Assembled /\ ~Assembled' /\ next_ref = 1 /\ next_ref' = 1 /\ Typed
  BY <1>1, LineRead DEF JInv, IInv, Typed, Assembled, Ends
<1>3. IInv'
  BY AssemblingKeeps DEF JInv
<1>4. /\ Starts' = Starts
      /\ \A i : Emits(source[i])' = Emits(source[i]) /\ HasRef(i)' = HasRef(i)
                /\ Size(source[i])' = Size(source[i])
      /\ \A y : Value(y)' = Value(y)
      /\ \A i, k : Translation(i, k)' = Translation(i, k)
      /\ \A i, e : IsRefOf(i, e)' = IsRefOf(i, e)
  BY <1>1, SameSource
<1>5. /\ IsCode(c) /\ c.bytes \in Seq(Byte) /\ Len(c.bytes) = Size(source[line])
      /\ Size(source[line]) \in Nat /\ compiled \in Seq(Byte) /\ Len(compiled) \in Nat
  <2>1. IsCode(c) /\ Size(source[line]) \in Nat
    BY <1>2, EmitsCode
  <2>2. c.bytes \in Seq(Byte)
    BY <2>1 DEF IsCode
  <2>3. QED BY <1>2, <2>1, <2>2 DEF Size, Typed
<1>6. /\ CodeEnd = Starts[line] /\ CodeEnd = Here /\ Here = 256 + Len(compiled)
      /\ CodeEnd' = Here' /\ Here' = 256 + Len(compiled')
  BY <1>2 DEF JInv, Ends, CodeEnd, Here, PROGRAM_START
<1>7. /\ Len(compiled') = Len(compiled) + Size(source[line])
      /\ \A p \in 1 .. Len(compiled) : compiled'[p] = compiled[p]
      /\ \A k \in 1 .. Size(source[line]) : compiled'[Len(compiled) + k] = c.bytes[k]
  BY <1>1, <1>5, Joined
<1>8. Starts[line + 1] = Starts[line] + Size(source[line])
  BY <1>2, StartsFollow
<1>9. Ends'
  <2>1. CodeEnd' = Starts[line + 1]
    <3> DEFINE a == Len(compiled)
               b == Len(compiled')
               m == Size(source[line])
    <3>1. /\ a \in Nat /\ m \in Nat /\ b = a + m
          /\ CodeEnd' = 256 + b /\ Starts[line + 1] = (256 + a) + m
      BY <1>5, <1>6, <1>7, <1>8
    <3> HIDE DEF a, b, m
    <3>2. QED BY <3>1
  <2>2. QED BY <1>1, <1>2, <1>4, <2>1 DEF Ends
<1>10. Valued'
  BY <1>1, <1>4 DEF JInv, Valued
<1>11. line' - 1 = line /\ 1 .. line = (1 .. line - 1) \cup {line} /\ n \in Nat
  BY <1>1, <1>2, ListsRead
<1>12. \/ c.ref = <<>> /\ label_ref_list' = label_ref_list
       \/ /\ c.ref # <<>>
          /\ Len(label_ref_list') = n + 1
          /\ \A i \in 1 .. n : label_ref_list'[i] = label_ref_list[i]
          /\ label_ref_list'[n + 1].label = c.ref[1].label
          /\ label_ref_list'[n + 1].idx = Here + c.ref[1].offset
  <2> HIDE DEF c
  <2>1. QED BY <1>1, <1>2, <1>5, PlaceholderAdded
<1>13. Owned'
  <2>1. CASE c.ref = <<>> /\ label_ref_list' = label_ref_list
    <3>1. ~HasRef(line)
      BY <2>1 DEF HasRef
    <3>2. \A i, r : Owns(i, r)' = Owns(i, r)
      BY <1>4, <2>1 DEF Owns
    <3>3. QED BY <1>4, <1>11, <2>1, <3>1, <3>2 DEF JInv, Owned
  <2>2. CASE ~(c.ref = <<>> /\ label_ref_list' = label_ref_list)
    <3>1. /\ c.ref # <<>>
          /\ Len(label_ref_list') = n + 1
          /\ \A i \in 1 .. n : label_ref_list'[i] = label_ref_list[i]
          /\ label_ref_list'[n + 1].label = c.ref[1].label
          /\ label_ref_list'[n + 1].idx = Here + c.ref[1].offset
      BY <1>12, <2>2
    <3>2. IsRefOf(line, label_ref_list'[n + 1])
      BY <1>6, <3>1 DEF IsRefOf, HasRef
    <3>3. ASSUME NEW r \in 1 .. n + 1
          PROVE  \E i \in 1 .. line : IsRefOf(i, label_ref_list'[r])
      <4>1. CASE r \in 1 .. n
        <5>1. PICK i \in 1 .. line - 1 : Owns(i, r)
          BY <4>1 DEF JInv, Owned
        <5>2. i \in 1 .. line /\ IsRefOf(i, label_ref_list'[r])
          BY <1>2, <3>1, <4>1, <5>1 DEF Owns
        <5>3. QED BY <5>2
      <4>2. CASE r = n + 1
        BY <1>2, <3>2, <4>2
      <4>3. QED BY <1>11, <4>1, <4>2
    <3>4. ASSUME NEW i \in 1 .. line, HasRef(i)
          PROVE  \E r \in 1 .. n + 1 : IsRefOf(i, label_ref_list'[r])
      <4>1. CASE i \in 1 .. line - 1
        <5>1. PICK r \in 1 .. n : Owns(i, r)
          BY <3>4, <4>1 DEF JInv, Owned
        <5>2. r \in 1 .. n + 1 /\ IsRefOf(i, label_ref_list'[r])
          BY <1>11, <3>1, <5>1 DEF Owns
        <5>3. QED BY <5>2
      <4>2. CASE i = line
        BY <1>11, <3>2, <4>2
      <4>3. QED BY <1>11, <4>1, <4>2
    <3>5. \A i, r : Owns(i, r)' = IsRefOf(i, label_ref_list'[r])
      BY <1>4 DEF Owns
    <3>6. QED BY <1>4, <1>11, <3>1, <3>3, <3>4, <3>5 DEF Owned
  <2>3. QED BY <2>1, <2>2
<1>14. \A i : ~Resolved(i) /\ ~Resolved(i)'
  BY <1>2 DEF Resolved
<1>15. Compiled'
  <2>1. \A i, k : ByteAt(i, k) = Emits(source[i]).bytes[k] /\ ByteAt(i, k)' = Emits(source[i]).bytes[k]
    BY <1>4, <1>14 DEF ByteAt
  <2>2. ASSUME NEW i \in 1 .. line, NEW k \in 1 .. Size(source[i])
        PROVE  compiled'[Starts[i] - PROGRAM_START + k] = Emits(source[i]).bytes[k]
    <3>1. CASE i \in 1 .. line - 1
      <4>1. Starts[i] - PROGRAM_START + k \in 1 .. Len(compiled)
        BY <3>1, BytesLie
      <4>2. compiled[Starts[i] - PROGRAM_START + k] = Emits(source[i]).bytes[k]
        BY <2>1, <3>1 DEF JInv, Compiled
      <4>3. QED BY <1>7, <4>1, <4>2
    <3>2. CASE i = line
      <4>1. Starts[line] - PROGRAM_START = Len(compiled)
        BY <1>5, <1>6 DEF PROGRAM_START
      <4>2. QED BY <1>7, <3>2, <4>1
    <3>3. QED BY <1>11, <3>1, <3>2
  <2>3. QED BY <1>4, <1>11, <2>1, <2>2 DEF Compiled
<1>16. QED BY <1>3, <1>9, <1>10, <1>13, <1>15 DEF JInv

\* What a step of pass 2 does to the placeholder of its line.
LEMMA PatchedBytes ==
  ASSUME Given, JInv, ResolveRef, NEW i \in 1 .. line - 1, Owns(i, next_ref),
         NEW k \in 1 .. Size(source[i]), Compiled
  PROVE  compiled'[Starts[i] - PROGRAM_START + k] = Translation(i, k)
<1> DEFINE e == label_ref_list[next_ref]
           d == Emits(source[i]).ref[1].offset
           x == Emits(source[i]).ref[1].label
           old == Emits(source[i]).bytes[k]
           p == Starts[i] - PROGRAM_START + k
           at == e.idx - PROGRAM_START + 1
<1>1. /\ phase = "pass2" /\ Assembled
      /\ compiled' = IF e.label \in DOMAIN label_def_map
                     THEN Patched(compiled, e.idx, label_def_map[e.label]) ELSE compiled
  BY DEF ResolveRef, Assembled
<1>2. HasRef(i) /\ e.label = x /\ e.idx = Starts[i] + d
  BY DEF Owns, IsRefOf
<1>3. /\ next_ref \in DOMAIN label_ref_list
      /\ DOMAIN label_ref_list = 1 .. Len(label_ref_list) /\ Len(label_ref_list) \in Nat
      /\ Typed /\ PROGRAM_START = 256
  BY ResolvingKeeps, ListsRead DEF JInv, IInv
<1>4. /\ i \in 1 .. Len(source) /\ k \in Nat /\ Starts[i] \in Nat /\ p \in 1 .. Len(compiled)
  BY BytesLie
<1>5. d \in Nat
  BY <1>2, <1>3, <1>4, OffsetInside
<1>6. compiled[p] = old
  <2>1. ~Resolved(i)
    <3>1. ASSUME NEW r \in 1 .. next_ref - 1, Owns(i, r) PROVE FALSE
      <4>1. r \in 1 .. Len(label_ref_list) /\ next_ref \in 1 .. Len(label_ref_list) /\ r # next_ref
        BY <1>3
      <4>2. QED BY <3>1, <4>1, OneOwner
    <3>2. QED BY <3>1 DEF Resolved
  <2>2. compiled[p] = ByteAt(i, k)
    BY DEF Compiled
  <2>3. QED BY <2>1, <2>2 DEF ByteAt
<1>7. Definitions(x) # {} <=> x \in DOMAIN label_def_map
  <2>1. DOMAIN label_def_map = LabelsOf(Len(source))
    <3>1. line = Len(source) + 1 /\ DOMAIN label_def_map = LabelsOf(line - 1)
      BY <1>1 DEF JInv, IInv, Read
    <3>2. line - 1 = Len(source)
      BY <1>3, <3>1, LineRead
    <3>3. QED BY <3>1, <3>2
  <2> HIDE DEF x
  <2>2. QED BY <2>1 DEF LabelsOf, Definitions
<1>8. (p = at <=> k = d + 1) /\ (p = at + 1 <=> k = d + 2) /\ at \in Int
  <2> DEFINE s == Starts[i]
             n == e.idx
  <2>1. n = s + d /\ s \in Nat
    BY <1>2, <1>4
  <2>2. p = s - 256 + k /\ at = n - 256 + 1
    BY <1>3
  <2> HIDE DEF s, n, e, d, p, at
  <2>3. at = s + d - 255 /\ at \in Int
    BY <1>5, <2>1, <2>2
  <2>4. QED BY <1>4, <1>5, <2>1, <2>2, <2>3
<1>10. Translation(i, k) = IF k \notin {d + 1, d + 2} \/ Definitions(x) = {} THEN old
                           ELSE Wrap8(old + (IF k = d + 1 THEN Hi(Value(x)) ELSE Lo(Value(x))))
  BY <1>2 DEF Translation, HasRef
<1>11. CASE x \notin DOMAIN label_def_map
  <2>1. compiled' = compiled
    BY <1>1, <1>2, <1>11
  <2>2. Translation(i, k) = old
    BY <1>7, <1>10, <1>11
  <2>3. QED BY <1>6, <2>1, <2>2
<1>12. CASE x \in DOMAIN label_def_map
  <2>1. label_def_map[x] = Value(x)
    BY <1>12 DEF JInv, Valued
  <2> DEFINE v == label_def_map[x]
  <2>2. compiled' = [compiled EXCEPT ![at] = Wrap8(@ + Hi(v)), ![at + 1] = Wrap8(@ + Lo(v))]
    BY <1>1, <1>2, <1>12 DEF Patched
  <2>3. DOMAIN compiled = 1 .. Len(compiled) /\ at # at + 1 /\ at \in Int
    <3> HIDE DEF at
    <3>1. QED BY <1>3, <1>8, ListsRead
  <2> HIDE DEF v, at, p, e, d, x, old
  <2>4. compiled'[p] = IF p = at THEN Wrap8(compiled[p] + Hi(v))
                       ELSE IF p = at + 1 THEN Wrap8(compiled[p] + Lo(v)) ELSE compiled[p]
    BY <1>4, <2>2, <2>3
  <2>5. Translation(i, k) = IF k = d + 1 THEN Wrap8(old + Hi(v))
                            ELSE IF k = d + 2 THEN Wrap8(old + Lo(v)) ELSE old
    <3>1. v = Value(x) /\ Definitions(x) # {}
      BY <1>7, <1>12, <2>1 DEF v
    <3>2. QED BY <1>10, <3>1
  <2>6. compiled'[p] = Translation(i, k)
    BY <1>6, <1>8, <2>4, <2>5
  <2>7. QED BY <2>6 DEF p
<1>13. QED BY <1>11, <1>12

\* A reference of pass 2.
LEMMA ResolvingTranslates ==
  ASSUME Given, JInv, ResolveRef
  PROVE  JInv'
<1>1. /\ phase = "pass2" /\ next_ref' = next_ref + 1
      /\ UNCHANGED <<source, line, label_def_map, label_ref_list, phase>>
  BY DEF ResolveRef
<1>2. /\ IInv' /\ Len(compiled') = Len(compiled)
      /\ next_ref \in DOMAIN label_ref_list
      /\ \A i \in 1 .. Len(compiled) : compiled'[i] # compiled[i] => i \in Placeholder(next_ref)
  BY ResolvingKeeps DEF JInv
<1>3. /\ Starts' = Starts
      /\ \A i : Emits(source[i])' = Emits(source[i]) /\ HasRef(i)' = HasRef(i)
                /\ Size(source[i])' = Size(source[i])
      /\ \A y : Value(y)' = Value(y)
      /\ \A i, k : Translation(i, k)' = Translation(i, k)
      /\ \A i, e : IsRefOf(i, e)' = IsRefOf(i, e)
  BY <1>1, SameSource
<1>4. /\ Typed /\ DOMAIN label_ref_list = 1 .. Len(label_ref_list) /\ Len(label_ref_list) \in Nat
      /\ PROGRAM_START = 256 /\ Len(source) \in Nat /\ line \in 1 .. Len(source) + 1
  BY ListsRead, LineRead DEF JInv, IInv, Typed
<1>5. Ends'
  <2>1. CodeEnd' = CodeEnd
    BY <1>1, <1>2 DEF CodeEnd, Assembled, Here
  <2>2. QED BY <1>1, <1>3, <2>1 DEF JInv, Ends, Assembled
<1>6. Valued'
  BY <1>1, <1>3 DEF JInv, Valued
<1>7. \A i, r : Owns(i, r)' = Owns(i, r)
  BY <1>1, <1>3 DEF Owns
<1>8. Owned'
  BY <1>1, <1>3, <1>7 DEF JInv, Owned
<1>9. PICK o \in 1 .. line - 1 : Owns(o, next_ref)
  BY <1>2, <1>4 DEF JInv, Owned
<1>10. 1 .. next_ref' - 1 = (1 .. next_ref - 1) \cup {next_ref}
  BY <1>1, <1>2, <1>4
<1>11. \A i : Resolved(i)' <=> Resolved(i) \/ Owns(i, next_ref)
  BY <1>7, <1>10 DEF Resolved
<1>12. Compiled'
  <2>1. ASSUME NEW i \in 1 .. line - 1, NEW k \in 1 .. Size(source[i])
        PROVE  compiled'[Starts[i] - PROGRAM_START + k] = ByteAt(i, k)'
    <3>1. CASE i = o
      <4>1. compiled'[Starts[i] - PROGRAM_START + k] = Translation(i, k)
        BY <1>9, <3>1, PatchedBytes DEF JInv
      <4>2. Resolved(i)'
        BY <1>9, <1>11, <3>1
      <4>3. QED BY <1>3, <4>1, <4>2 DEF ByteAt
    <3>2. CASE i # o
      <4>1. ~Owns(i, next_ref)
        BY <1>2, <1>4, <1>9, <3>2, OneOwner
      <4>2. ByteAt(i, k)' = ByteAt(i, k)
        BY <1>3, <1>11, <4>1 DEF ByteAt
      <4> DEFINE p == Starts[i] - PROGRAM_START + k
                 d == Emits(source[o]).ref[1].offset
      <4>3. p \in 1 .. Len(compiled) /\ Starts[i] \in Nat /\ k \in Nat
        BY BytesLie
      <4>4. /\ d \in Nat /\ d + 1 \in 1 .. Size(source[o]) /\ d + 2 \in 1 .. Size(source[o])
            /\ label_ref_list[next_ref].idx = Starts[o] + d
        BY <1>4, <1>9, OffsetInside DEF Owns, IsRefOf
      <4>5. Starts[i] + k # Starts[o] + (d + 1) /\ Starts[i] + k # Starts[o] + (d + 2)
        <5> HIDE DEF d
        <5>1. QED BY <3>2, <4>4, LinesApart
      <4>6. Starts[o] \in Nat
        <5>1. o \in 1 .. Len(source) + 1
          BY <1>4
        <5>2. QED BY <1>4, <5>1, StartsFollow
      <4>7. p \notin Placeholder(next_ref)
        <5> DEFINE s == Starts[o]
                   z == Starts[i]
                   n == label_ref_list[next_ref].idx
        <5>1. /\ n = s + d /\ s \in Nat /\ z \in Nat /\ k \in Nat /\ d \in Nat
              /\ z + k # s + (d + 1) /\ z + k # s + (d + 2)
          BY <4>3, <4>4, <4>5, <4>6
        <5>2. p = z - 256 + k /\ n \in Int
          <6>1. p = z - 256 + k
            BY <1>4
          <6> HIDE DEF n, s, z, d, p
          <6>2. QED BY <5>1, <6>1
        <5>3. Placeholder(next_ref) = {n - 256 + 1, n - 256 + 2}
          <6>1. Placeholder(next_ref) = {n - 256 + 1, n - 256 + 1 + 1}
            BY <1>4 DEF Placeholder
          <6> HIDE DEF n
          <6>2. QED BY <5>2, <6>1
        <5> HIDE DEF s, z, n, d, p
        <5>4. p # n - 256 + 1 /\ p # n - 256 + 2
          BY <5>1, <5>2
        <5>5. QED BY <5>3, <5>4
      <4>8. compiled'[p] = compiled[p]
        BY <1>2, <4>3, <4>7
      <4>9. compiled[p] = ByteAt(i, k)
        BY DEF JInv, Compiled
      <4>10. QED BY <4>2, <4>8, <4>9
    <3>3. QED BY <3>1, <3>2
  <2>2. QED BY <1>1, <1>3, <2>1 DEF Compiled
<1>13. QED BY <1>2, <1>5, <1>6, <1>8, <1>12 DEF JInv

\* A step that leaves the code and the lists as they are, and pass 1 or pass 2.
LEMMA RestTranslates ==
  ASSUME Given, JInv, IInv', Assembled' = Assembled,
         phase' = "done" => next_ref = Len(label_ref_list) + 1,
         UNCHANGED <<source, line, compiled, label_def_map, label_ref_list, next_ref>>
  PROVE  JInv'
<1>1. /\ Starts' = Starts
      /\ \A i : Emits(source[i])' = Emits(source[i]) /\ HasRef(i)' = HasRef(i)
                /\ Size(source[i])' = Size(source[i])
      /\ \A y : Value(y)' = Value(y)
      /\ \A i, k : Translation(i, k)' = Translation(i, k)
      /\ \A i, e : IsRefOf(i, e)' = IsRefOf(i, e)
  BY SameSource
<1>2. Ends'
  <2>1. CodeEnd' = CodeEnd
    BY DEF CodeEnd, Here
  <2>2. QED BY <1>1, <2>1 DEF JInv, Ends
<1>3. Valued'
  BY <1>1 DEF JInv, Valued
<1>4. \A i, r : Owns(i, r)' = Owns(i, r)
  BY <1>1 DEF Owns
<1>5. Owned'
  BY <1>1, <1>4 DEF JInv, Owned
<1>6. Compiled'
  <2>1. \A i, k : ByteAt(i, k)' = ByteAt(i, k)
    BY <1>1, <1>4 DEF ByteAt, Resolved
  <2>2. QED BY <1>1, <2>1 DEF JInv, Compiled
<1>7. QED BY <1>2, <1>3, <1>5, <1>6 DEF JInv

\* Every step.
LEMMA JInvKept ==
  ASSUME Given
  PROVE  JInv /\ [Next]_vars => JInv'
<1> SUFFICES ASSUME JInv, [Next]_vars PROVE JInv'
  OBVIOUS
<1>1. IInv'
  BY IInvKept DEF JInv
<1>2. CASE DefineLabel \/ DefineConstant
  BY <1>2, DefinitionTranslates
<1>3. CASE AssembleLine
  BY <1>3, AssemblingTranslates
<1>4. CASE Crash
  <2>1. /\ phase = "pass1" /\ phase' = "crashed"
        /\ UNCHANGED <<source, line, compiled, label_def_map, label_ref_list, next_ref>>
    BY <1>4 DEF Crash, Reading
  <2>2. QED BY <1>1, <2>1, RestTranslates DEF Assembled
<1>5. CASE EndPass1
  BY <1>5, EndPass1Translates
<1>6. CASE ResolveRef
  BY <1>6, ResolvingTranslates
<1>7. CASE EndPass2
  <2>1. /\ phase = "pass2" /\ phase' = "done" /\ next_ref > Len(label_ref_list)
        /\ UNCHANGED <<source, line, compiled, label_def_map, label_ref_list, next_ref>>
    BY <1>7 DEF EndPass2
  <2>2. next_ref = Len(label_ref_list) + 1
    BY <2>1, ListsRead DEF JInv, IInv, Typed
  <2>3. QED BY <1>1, <2>1, <2>2, RestTranslates DEF Assembled
<1>8. CASE UNCHANGED vars
  <2>1. UNCHANGED <<source, line, compiled, label_def_map, label_ref_list, next_ref, phase>>
    BY <1>8 DEF vars
  <2>2. phase' = "done" => next_ref = Len(label_ref_list) + 1
    BY <2>1 DEF JInv, Ends
  <2>3. QED BY <1>1, <2>1, <2>2, RestTranslates DEF Assembled
<1>9. QED BY <1>2, <1>3, <1>4, <1>5, <1>6, <1>7, <1>8 DEF Next

\* The invariant of the translation holds throughout.
LEMMA Translates ==
  ASSUME Given
  PROVE  Spec => []JInv
<1>1. Init => JInv
  BY InitJInv
<1>2. JInv /\ [Next]_vars => JInv'
  BY JInvKept
<1>3. QED BY <1>1, <1>2, PTL DEF Spec


-----------------------------------------------------------------------------
(***************************************************************************)
(* The theorems.                                                           *)
(***************************************************************************)
\* TypeOK, for every set of sources: the assembler emits bytes, and its placeholders
\* lie within them, whatever the lines are and however many.
THEOREM TypesHold ==
  ASSUME Given
  PROVE  Spec => []TypeOK
<1>1. IInv => TypeOK
  BY DEF IInv, Typed, Inside, TypeOK
<1>2. QED BY <1>1, Invariance, PTL

\* LabelsAreKnown, for every set of sources: a jump forward finds its label as well
\* as a jump back.
THEOREM LabelsFound ==
  ASSUME Given
  PROVE  Spec => []LabelsAreKnown
<1>1. IInv => LabelsAreKnown
  <2>1. ASSUME IInv, Assembled PROVE DOMAIN label_def_map = LabelsOf(Len(source))
    <3>1. line - 1 = Len(source)
      BY <2>1, LineRead DEF IInv, Read
    <3>2. QED BY <2>1, <3>1 DEF IInv, Read
  <2>2. QED BY <2>1 DEF LabelsAreKnown
<1>2. QED BY <1>1, Invariance, PTL

\* EndsWithHalt, for every set of sources: pass 2 leaves the last HALT alone.
THEOREM HaltStays ==
  ASSUME Given
  PROVE  Spec => []EndsWithHalt
<1>1. IInv => EndsWithHalt
  BY DEF IInv
<1>2. QED BY <1>1, Invariance, PTL

\* OnlyPlaceholdersChange, for every set of sources.
THEOREM PatchesStayApart ==
  ASSUME Given
  PROVE  Spec => OnlyPlaceholdersChange
<1> DEFINE Patches ==
      \A i \in DOMAIN compiled :
        /\ i \in DOMAIN compiled'
        /\ compiled'[i] # compiled[i] =>
             /\ phase = "pass2" /\ i \in Placeholder(next_ref)
             /\ \A r \in DOMAIN label_ref_list \ {next_ref} : i \notin Placeholder(r)
<1>1. ASSUME IInv, IInv', Next PROVE Patches
  <2>1. DOMAIN compiled = 1 .. Len(compiled) /\ Len(compiled) \in Nat
    BY <1>1, ListsRead DEF IInv
  <2>2. CASE DefineLabel \/ DefineConstant \/ Crash \/ EndPass2
    BY <2>2 DEF DefineLabel, DefineConstant, Crash, EndPass2
  <2>3. CASE AssembleLine
    <3>1. PICK bs \in Seq(Byte) : compiled' = compiled \o bs
      <4>1. line \in 1 .. Len(source)
        <5>1. Typed /\ line <= Len(source)
          BY <1>1, <2>3 DEF AssembleLine, Reading, IInv
        <5>2. Len(source) \in Nat /\ line \in 1 .. Len(source) + 1
          BY <5>1, LineRead DEF Typed
        <5>3. QED BY <5>1, <5>2
      <4>2. IsCode(LineCode(source[line]))
        BY <1>1, <4>1, LineRead, LineIsCode DEF Given, IInv
      <4>3. compiled' = compiled \o LineCode(source[line]).bytes
        BY <2>3 DEF AssembleLine
      <4>4. LineCode(source[line]).bytes \in Seq(Byte)
        BY <4>2 DEF IsCode
      <4>5. QED BY <4>3, <4>4
    <3>2. compiled \in Seq(Byte)
      BY <1>1 DEF IInv, Typed
    <3>3. \A i \in 1 .. Len(compiled) : i \in DOMAIN compiled' /\ compiled'[i] = compiled[i]
      BY <3>1, <3>2
    <3>4. QED BY <2>1, <3>3
  <2>4. CASE EndPass1
    <3>1. compiled' = Append(compiled, OP_HALT) /\ compiled \in Seq(Byte) /\ OP_HALT \in Byte
      BY <1>1, <2>4, Wraps DEF EndPass1, IInv, Typed
    <3>2. \A i \in 1 .. Len(compiled) : i \in DOMAIN compiled' /\ compiled'[i] = compiled[i]
      BY <3>1
    <3>3. QED BY <2>1, <3>2
  <2>5. CASE ResolveRef
    <3>1. /\ phase = "pass2" /\ Len(compiled') = Len(compiled)
          /\ next_ref \in DOMAIN label_ref_list
          /\ \A i \in 1 .. Len(compiled) : compiled'[i] # compiled[i] => i \in Placeholder(next_ref)
      BY <1>1, <2>5, ResolvingKeeps
    <3>2. DOMAIN compiled' = 1 .. Len(compiled)
      BY <1>1, <3>1 DEF IInv, Typed
    <3>3. ASSUME NEW r \in DOMAIN label_ref_list \ {next_ref}
          PROVE  Placeholder(r) \cap Placeholder(next_ref) = {}
      BY <1>1, <3>1, <3>3, PlaceholdersApart
    <3>4. QED BY <2>1, <3>1, <3>2, <3>3
  <2>6. QED BY <1>1, <2>2, <2>3, <2>4, <2>5 DEF Next
<1>2. ASSUME IInv, IInv', [Next]_vars PROVE [Patches]_vars
  BY <1>1, <1>2
<1> HIDE DEF Patches
<1>3. QED
  <2>1. IInv /\ IInv' /\ [Next]_vars => [Patches]_vars
    BY <1>2
  <2>2. Spec => [][Patches]_vars
    BY <2>1, Invariance, PTL DEF Spec
  <2>3. QED BY <2>2 DEF Patches, OnlyPlaceholdersChange

\* IsTranslated, for every set of sources: jumps ahead, labels defined twice or not at
\* all, constants, data of any length - when the two passes are over, the code is that
\* of the lines one after another, with the value of its label in every placeholder.
THEOREM TwoPassesTranslate ==
  ASSUME Given
  PROVE  Spec => []IsTranslated
<1>1. ASSUME JInv PROVE IsTranslated
  <2> SUFFICES ASSUME phase = "done"
               PROVE  /\ PROGRAM_START + Len(compiled) = Starts[Len(source) + 1] + 1
                      /\ compiled[Len(compiled)] = OP_HALT
                      /\ \A i \in 1 .. Len(source) : \A k \in 1 .. Size(source[i]) :
                           compiled[Starts[i] - PROGRAM_START + k] = Translation(i, k)
    BY DEF IsTranslated
  <2>1. Assembled /\ next_ref = Len(label_ref_list) + 1
    BY <1>1 DEF Assembled, JInv, Ends
  <2>2. /\ line = Len(source) + 1 /\ Len(source) \in Nat /\ line - 1 = Len(source)
        /\ Len(label_ref_list) \in Nat
    BY <1>1, <2>1, LineRead, ListsRead DEF JInv, IInv, Read
  <2>3. PROGRAM_START + Len(compiled) = Starts[Len(source) + 1] + 1
    <3>1. Here - 1 = Starts[Len(source) + 1]
      BY <1>1, <2>1, <2>2 DEF JInv, Ends, CodeEnd
    <3>2. Here \in Int
      BY <1>1, ListsRead DEF JInv, IInv
    <3> DEFINE h == Here
               s == Starts[Len(source) + 1]
    <3>3. h = PROGRAM_START + Len(compiled)
      BY DEF Here
    <3>4. h = s + 1
      <4>1. h - 1 = s /\ h \in Int
        BY <3>1, <3>2
      <4> HIDE DEF h, s
      <4>2. QED BY <4>1
    <3>5. QED BY <3>3, <3>4
  <2>4. compiled[Len(compiled)] = OP_HALT
    BY <1>1, <2>1 DEF JInv, IInv, EndsWithHalt
  <2>5. ASSUME NEW i \in 1 .. Len(source), NEW k \in 1 .. Size(source[i])
        PROVE  compiled[Starts[i] - PROGRAM_START + k] = Translation(i, k)
    <3>1. i \in 1 .. line - 1
      BY <2>2
    <3>2. compiled[Starts[i] - PROGRAM_START + k] = ByteAt(i, k)
      BY <1>1, <3>1 DEF JInv, Compiled
    <3>3. ByteAt(i, k) = Translation(i, k)
      <4>1. CASE HasRef(i)
        <5>1. PICK r \in 1 .. Len(label_ref_list) : Owns(i, r)
          BY <1>1, <3>1, <4>1 DEF JInv, Owned
        <5>2. r \in 1 .. next_ref - 1
          BY <2>1, <2>2
        <5>3. QED BY <5>1, <5>2 DEF ByteAt, Resolved
      <4>2. CASE ~HasRef(i)
        BY <4>2, PlainByte DEF ByteAt
      <4>3. QED BY <4>1, <4>2
    <3>4. QED BY <3>2, <3>3
  <2>6. QED BY <2>3, <2>4, <2>5
<1>2. JInv => IsTranslated
  BY <1>1
<1>3. QED BY <1>2, Translates, PTL

=============================================================================
