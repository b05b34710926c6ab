------------------------------- MODULE Assembler -------------------------------
(***************************************************************************)
(* The two passes of assembler.c over the token lines of a source.  Pass 1 *)
(* turns each line into bytes, notes where labels are defined and leaves a *)
(* placeholder where one is used; pass 2 adds the labels' addresses to the *)
(* placeholders.                                                           *)
(*                                                                         *)
(* A token is a record of its symbol and its argument: the value of an     *)
(* immediate (the four notations are one symbol, "imm"), the name of a     *)
(* label ("def" for x:, "ref" for .x, "idx" for the x of x[ ), the bytes   *)
(* of a quoted string.  A message is not modelled: the assembler prints it *)
(* and goes on with the next line.                                         *)
(***************************************************************************)
EXTENDS Word, OpTable, FiniteSets, SequencesExt

CONSTANT Sources   (* Programs, as sequences of lines of one token or more. *)

VARIABLES
  source,          (* The program being assembled.                          *)
  line,            (* The line pass 1 is at.                                *)
  compiled,        (* The bytes emitted, those from PROGRAM_START on.       *)
  label_def_map,   (* The label map: a function from names to addresses.    *)
  label_ref_list,  (* The placeholders: whose label, at which index.        *)
  next_ref,        (* The reference pass 2 is at.                           *)
  phase            (* "pass1", "pass2", "done", or "crashed".               *)

vars == <<source, line, compiled, label_def_map, label_ref_list, next_ref, phase>>

Sym(ts, i) == IF i \in DOMAIN ts THEN ts[i].sym ELSE "end"
From(ts, i) == SubSeq(ts, i, Len(ts))

\* The opcode of the enum, the number of its row of OP_TABLE.  MIN_I is an
\* immediate for the assembler.
Opcode(op, mode) ==
  LET row == IF op = "MIN" /\ mode = "I" THEN <<"MIN", "OPC">> ELSE <<op, mode>>
  IN CHOOSE n \in Byte : /\ OP_TABLE[n + 1] = row
                         /\ \A m \in 0 .. n - 1 : OP_TABLE[m + 1] # row

Imm16(n) == <<Hi(Wrap16(n)), Lo(Wrap16(n))>>

\* What a line emits: bytes, and at most one placeholder among them.
Nothing == [bytes |-> <<>>, ref |-> <<>>]
Bytes(bs) == [bytes |-> bs, ref |-> <<>>]
WithLabel(before, label, base, after) ==
  [bytes |-> before \o Imm16(base) \o after,
   ref   |-> <<[label |-> label, offset |-> Len(before)]>>]

-----------------------------------------------------------------------------
(***************************************************************************)
(* parse_mem_expr: signs and values in turn, up to the closing bracket.    *)
(* What follows that bracket is never looked at.  The sign of a register   *)
(* is read and forgotten.                                                  *)
(***************************************************************************)
Signs == {"+", "-"}
Index == {"L", "HL", "BP"}

\* What the v-th token adds to the address, with its sign.
Signed(s, v) == IF Sym(s, v) \in Index THEN 0
                ELSE IF Sym(s, v - 1) = "-" THEN -Wrap16(s[v].arg) ELSE Wrap16(s[v].arg)

MemExpr(ts, close) ==
  LET s == IF Sym(ts, 1) \in Signs THEN ts ELSE <<[sym |-> "+", arg |-> 0]>> \o ts
      n == CHOOSE k \in 1 .. Len(s) : /\ Sym(s, 2 * k + 1) \notin Signs
                                      /\ \A j \in 1 .. k - 1 : Sym(s, 2 * j + 1) \in Signs
      values == {2 * k : k \in 1 .. n}
      registers == {v \in values : Sym(s, v) \in Index}
      valid == /\ \A v \in values : Sym(s, v) \in Index \cup {"imm"}
               /\ Cardinality(registers) <= 1
               /\ Sym(s, 2 * n + 1) = close
  IN IF ~valid THEN [mode |-> "INVALID", addr |-> 0]
     ELSE [mode |-> IF registers = {} THEN "IMM" ELSE Sym(s, CHOOSE v \in registers : TRUE),
           addr |-> Wrap16(MapThenSumSet(LAMBDA v : Signed(s, v), values))]

\* parse_mem_addr, for the operand that starts at the second token.
MemAddr(ts) ==
  CASE Sym(ts, 2) = "("                       -> MemExpr(From(ts, 3), ")")
    [] Sym(ts, 2) = "{"                       -> MemExpr(From(ts, 3), "}")
    [] Sym(ts, 2) = "idx" /\ Sym(ts, 3) = "[" -> MemExpr(From(ts, 4), "]")
    [] OTHER                                  -> [mode |-> "INVALID", addr |-> 0]

\* Mutant: stack indices off by the return of BP.
MemOperandOffByOne(op, direct, ts) ==
  LET kind == Sym(ts, 2)
      e    == MemAddr(ts)
      Through(before, after) == IF kind = "idx"
                                THEN WithLabel(before, ts[2].arg, e.addr, after)
                                ELSE Bytes(before \o Imm16(e.addr) \o after)
  IN CASE kind = "{" /\ e.mode = "BP" -> Bytes(<<Opcode(op, "BPI"), Wrap8(e.addr)>>)
       [] kind # "{" /\ e.mode = "IMM" /\ direct -> Through(<<Opcode(op, "IM")>>, <<>>)
       [] kind # "{" /\ e.mode = "IMM" /\ ~direct ->
            Through(<<Opcode("LOAD_HL_I", "-")>>, <<Opcode(op, "MHL")>>)
       [] kind # "{" /\ e.mode = "HL" ->
            Through(<<Opcode("ADD_HL_I", "-")>>, <<Opcode(op, "MHL")>>)
       [] OTHER -> Nothing

(***************************************************************************)
(* The operand in memory of an instruction.  Only LOAD, STORE and XCH have *)
(* an absolute mode (direct); for the others HL is loaded first, and an    *)
(* index is added to HL or L for good.                                     *)
(***************************************************************************)
MemOperand(op, direct, ts) ==
  LET kind == Sym(ts, 2)
      e    == MemAddr(ts)
      Through(before, after) == IF kind = "idx"
                                THEN WithLabel(before, ts[2].arg, e.addr, after)
                                ELSE Bytes(before \o Imm16(e.addr) \o after)
  IN CASE kind = "{" /\ e.mode = "BP" -> Bytes(<<Opcode(op, "BPI"), Wrap8(e.addr + 1)>>)
       [] kind # "{" /\ e.mode = "IMM" /\ direct -> Through(<<Opcode(op, "IM")>>, <<>>)
       [] kind # "{" /\ e.mode = "IMM" /\ ~direct ->
            Through(<<Opcode("LOAD_HL_I", "-")>>, <<Opcode(op, "MHL")>>)
       [] kind = "(" /\ e.mode = "HL" /\ e.addr = 0 -> Bytes(<<Opcode(op, "MHL")>>)
       [] kind # "{" /\ e.mode = "HL" /\ (kind = "idx" \/ e.addr # 0) ->
            Through(<<Opcode("ADD_HL_I", "-")>>, <<Opcode(op, "MHL")>>)
       [] kind = "(" /\ e.mode = "L" /\ e.addr = 0 -> Bytes(<<Opcode(op, "ML")>>)
       [] kind = "(" /\ e.mode = "L" /\ e.addr # 0 ->
            Bytes(<<Opcode("ADD_L_I", "-"), Wrap8(e.addr), Opcode(op, "ML")>>)
       [] OTHER -> Nothing

-----------------------------------------------------------------------------
(***************************************************************************)
(* The parse functions.  For each mnemonic: the registers it takes, its    *)
(* immediate ("-" for none), and whether it takes an operand in memory.    *)
(***************************************************************************)
Shape ==
  LET All(ops, regs, imm, mem) == [op \in ops |-> [regs |-> regs, imm |-> imm, mem |-> mem]]
      Four == {"R0", "R1", "H", "L"}
      Saved == Four \cup {"ACC", "BP", "FLAGS"}
  IN All({"LOAD", "XCH"}, Four, "LOAD", "direct")
       @@ All({"STORE"}, Four, "-", "direct")
       @@ All({"ADD", "ADC", "SUB", "SBC", "AND", "OR", "XOR", "CMP"},
              Four \cup {"ACC"}, "I", "indirect")
       @@ All({"INC", "DEC", "NEG", "NOT"}, Four \cup {"ACC", "HL"}, "-", "indirect")
       @@ All({"SHL", "SHR", "ROL", "ROR", "MIN", "MAX"}, Four, "I", "indirect")
       @@ All({"ADDW", "SUBW", "MULW", "DIVW"}, {"ACC", "R0", "R1"}, "I16", "-")
       @@ All({"PUSH"}, Saved, "I", "-")
       @@ All({"POP"}, Saved, "-", "-")

\* parse_load_imm, reached from XCH too: a LOAD of zero is a CLRA.
LoadImmediate(n) ==
  IF Wrap8(n) = 0 THEN <<Opcode("CLRA", "-")>> ELSE <<Opcode("LOAD", "I"), Wrap8(n)>>

OperandCode(ts) ==
  LET op    == Sym(ts, 1)
      shape == Shape[op]
  IN CASE Sym(ts, 2) \in shape.regs -> Bytes(<<Opcode(op, Sym(ts, 2))>>)
       [] Sym(ts, 2) = "imm" ->
            CASE shape.imm = "LOAD" -> Bytes(LoadImmediate(ts[2].arg))
              [] shape.imm = "I"    -> Bytes(<<Opcode(op, "I"), Wrap8(ts[2].arg)>>)
              [] shape.imm = "I16"  -> Bytes(<<Opcode(op, "I16")>> \o Imm16(ts[2].arg))
              [] OTHER              -> Nothing
       [] Sym(ts, 2) \in {"(", "{", "idx"} /\ shape.mem # "-" ->
            MemOperand(op, shape.mem = "direct", ts)
       [] OTHER -> Nothing

\* Where an instruction jumps to, the i-th token of its line.
JumpCode(before, ts, i) ==
  CASE Sym(ts, i) = "imm" -> Bytes(before \o Imm16(ts[i].arg))
    [] Sym(ts, i) = "ref" -> WithLabel(before, ts[i].arg, 0, <<>>)
    [] OTHER              -> Nothing

Basic == {"NOOP", "HALT", "EI", "DI", "ET", "DT", "RESET", "LEAVE"}
Jumps == {"JMP", "JS", "JNS", "JZ", "JNZ", "JC", "JNC"}

\* A line of immediates, up to the first token that is none.
DataBytes(ts) ==
  LET n == CHOOSE k \in DOMAIN ts : /\ Sym(ts, k + 1) # "imm"
                                    /\ \A j \in 1 .. k : Sym(ts, j) = "imm"
  IN [i \in 1 .. n |-> Wrap8(ts[i].arg)]

\* What may follow an instruction that wants no operand.
EndOfCode == {"end", "comment"}

\* parse_jext, parse_call, parse_ret and parse_enter.
FlowCode(ts) ==
  LET op  == Sym(ts, 1)
      one == <<Opcode(op, "-")>>
  IN CASE op = "JEXT" /\ Sym(ts, 2) = "imm" /\ Sym(ts, 3) = "," ->
            JumpCode(one \o <<Wrap8(ts[2].arg)>>, ts, 4)
       [] op = "CALL" /\ Sym(ts, 2) = "ref"        -> JumpCode(one, ts, 2)
       [] op = "RET" /\ Sym(ts, 2) \in EndOfCode   -> Bytes(one)
       [] op = "RET" /\ Sym(ts, 2) = "imm"         -> Bytes(<<Opcode("RET_I", "-"), Wrap8(ts[2].arg)>>)
       [] op = "ENTER" /\ Sym(ts, 2) = "imm"       -> Bytes(one \o <<Wrap8(ts[2].arg)>>)
       [] OTHER -> Nothing

\* assembleLinePass1.  Tokens after those an instruction wants are ignored, but
\* for the instructions without an operand and RET.
LineCode(ts) ==
  LET op == Sym(ts, 1)
  IN CASE op \in DOMAIN Shape -> OperandCode(ts)
       [] op \in Basic /\ Sym(ts, 2) \in EndOfCode -> Bytes(<<Opcode(op, "-")>>)
       [] op \in Jumps   -> JumpCode(<<Opcode(op, "-")>>, ts, 2)
       [] op = "imm"     -> Bytes(DataBytes(ts))
       [] op = "bytes"   -> Bytes(ts[1].arg)
       [] OTHER          -> FlowCode(ts)

\* A stack index without a register is reported at expr.mode_token, which is NULL.
Crashes(ts) == /\ Sym(ts, 1) \in DOMAIN Shape /\ Shape[Sym(ts, 1)].mem # "-"
               /\ Sym(ts, 2) = "{" /\ MemAddr(ts).mode = "IMM"

-----------------------------------------------------------------------------
(***************************************************************************)
(* What the theorems about this module assume.                             *)
(***************************************************************************)
\* A source is what the tokenizer hands over: lines of one token or more, immediates
\* that are numbers, and quoted bytes that are bytes.
IsList(s)   == s \in Seq(ToSet(s))
IsToken(t)  == /\ t.sym = "imm"   => t.arg \in Nat
               /\ t.sym = "bytes" => t.arg \in Seq(Byte)
IsSource(s) == /\ IsList(s)
               /\ \A i \in DOMAIN s : /\ IsList(s[i]) /\ s[i] # <<>>
                                      /\ \A j \in DOMAIN s[i] : IsToken(s[i][j])

\* OP_TABLE has a row for each instruction that is emitted.
OpcodesExist ==
  LET Have(ops, modes) == \A op \in ops, m \in modes : Opcode(op, m) \in Byte
      With(imm) == {op \in DOMAIN Shape : Shape[op].imm = imm}
  IN /\ \A op \in DOMAIN Shape : Have({op}, Shape[op].regs)
     /\ Have(With("I") \cup {"LOAD"}, {"I"}) /\ Have(With("I16"), {"I16"})
     /\ Have({op \in DOMAIN Shape : Shape[op].mem # "-"}, {"ML", "MHL", "BPI"})
     /\ Have({op \in DOMAIN Shape : Shape[op].mem = "direct"}, {"IM"})
     /\ Have(Basic \cup Jumps \cup {"JEXT", "CALL", "RET", "RET_I", "ENTER", "CLRA",
                                    "LOAD_HL_I", "ADD_HL_I", "ADD_L_I"}, {"-"})

-----------------------------------------------------------------------------
Here == PROGRAM_START + Len(compiled)

Init == /\ source \in Sources
        /\ line = 1
        /\ compiled = <<>>
        /\ label_def_map = <<>>
        /\ label_ref_list = <<>>
        /\ next_ref = 1
        /\ phase = "pass1"

Reading == phase = "pass1" /\ line <= Len(source)

\* Mutant: a second definition of a label replaces the first.
DefineLast(name, value) == label_def_map' = (name :> value) @@ label_def_map
\* insert_map leaves the first definition of a label.
Define(name, value) ==
  label_def_map' = IF name \in DOMAIN label_def_map THEN label_def_map
                   ELSE [x \in DOMAIN label_def_map \cup {name} |->
                           IF x = name THEN value ELSE label_def_map[x]]

\* x: , and whatever else is on the line is ignored.
DefineLabel == /\ Reading /\ Sym(source[line], 1) = "def"
               /\ Define(source[line][1].arg, Here)
               /\ line' = line + 1
               /\ UNCHANGED <<source, compiled, label_ref_list, next_ref, phase>>

\* parse_label_ref: .x = n
IsConstant(ts) == Sym(ts, 1) = "ref" /\ Sym(ts, 2) = "=" /\ Sym(ts, 3) = "imm"
DefineConstant == /\ Reading /\ IsConstant(source[line])
                  /\ Define(source[line][1].arg, source[line][3].arg)
                  /\ line' = line + 1
                  /\ UNCHANGED <<source, compiled, label_ref_list, next_ref, phase>>

\* Any other line: an instruction, data, a comment, or an error that is reported.
AssembleLine ==
  /\ Reading
  /\ LET ts == source[line]
         c  == LineCode(ts)
     IN /\ Sym(ts, 1) # "def" /\ ~IsConstant(ts) /\ ~Crashes(ts)
        /\ compiled' = compiled \o c.bytes
        /\ label_ref_list' = label_ref_list
             \o [i \in DOMAIN c.ref |-> [label |-> c.ref[i].label,
                                         idx   |-> Here + c.ref[i].offset]]
  /\ line' = line + 1
  /\ UNCHANGED <<source, label_def_map, next_ref, phase>>

Crash == /\ Reading /\ Crashes(source[line])
         /\ phase' = "crashed"
         /\ UNCHANGED <<source, line, compiled, label_def_map, label_ref_list, next_ref>>

\* assemblePass1 ends every program with a HALT.
EndPass1 == /\ phase = "pass1" /\ line > Len(source)
            /\ compiled' = Append(compiled, OP_HALT)
            /\ phase' = "pass2"
            /\ UNCHANGED <<source, line, label_def_map, label_ref_list, next_ref>>

\* Mutant: the low byte first.
PatchedSwapped(code, idx, addr) ==
  LET at == idx - PROGRAM_START + 1
  IN [code EXCEPT ![at] = Wrap8(@ + Lo(addr)), ![at + 1] = Wrap8(@ + Hi(addr))]
\* Mutant: the sum not cut to a byte.
PatchedWide(code, idx, addr) ==
  LET at == idx - PROGRAM_START + 1
  IN [code EXCEPT ![at] = @ + Wrap8(Hi(addr)), ![at + 1] = @ + Lo(addr)]
\* Each byte is added on its own: no carry goes from the low one to the high one.
Patched(code, idx, addr) ==
  LET at == idx - PROGRAM_START + 1
  IN [code EXCEPT ![at] = Wrap8(@ + Hi(addr)), ![at + 1] = Wrap8(@ + Lo(addr))]

\* assemblePass2: a label without a definition is reported, its placeholder stays.
ResolveRef ==
  /\ phase = "pass2" /\ next_ref <= Len(label_ref_list)
  /\ LET r == label_ref_list[next_ref]
     IN compiled' = IF r.label \in DOMAIN label_def_map
                    THEN Patched(compiled, r.idx, label_def_map[r.label])
                    ELSE compiled
  /\ next_ref' = next_ref + 1
  /\ UNCHANGED <<source, line, label_def_map, label_ref_list, phase>>

EndPass2 == /\ phase = "pass2" /\ next_ref > Len(label_ref_list)
            /\ phase' = "done"
            /\ UNCHANGED <<source, line, compiled, label_def_map, label_ref_list, next_ref>>

Next == \/ DefineLabel \/ DefineConstant \/ AssembleLine \/ Crash
        \/ EndPass1 \/ ResolveRef \/ EndPass2

Spec == Init /\ [][Next]_vars

-----------------------------------------------------------------------------
\* Only bytes are emitted, and every placeholder is two bytes of them.
TypeOK ==
  /\ source \in Sources /\ line \in 1 .. Len(source) + 1
  /\ compiled \in Seq(Byte)
  /\ \A x \in DOMAIN label_def_map : label_def_map[x] \in Nat
  /\ \A i \in DOMAIN label_ref_list :
       label_ref_list[i].idx \in PROGRAM_START .. Here - 2
  /\ next_ref \in 1 .. Len(label_ref_list) + 1
  /\ phase \in {"pass1", "pass2", "done", "crashed"}

-----------------------------------------------------------------------------
(***************************************************************************)
(* What a source stands for: the code of its lines one after another, with *)
(* every label's value in its place, however the passes get there.         *)
(***************************************************************************)
Defines(ts) == Sym(ts, 1) = "def" \/ IsConstant(ts)
Emits(ts)   == IF Defines(ts) THEN Nothing ELSE LineCode(ts)
Size(ts)    == Len(Emits(ts).bytes)

\* The address of each line, and of the HALT behind the last.
Starts == LET at[i \in 1 .. Len(source) + 1] ==
                IF i = 1 THEN PROGRAM_START ELSE at[i - 1] + Size(source[i - 1])
          IN at

\* The first of the lines that define a label counts.
Definitions(x) == {i \in 1 .. Len(source) : Defines(source[i]) /\ source[i][1].arg = x}
Definition(x)  == CHOOSE i \in Definitions(x) : \A j \in Definitions(x) : i <= j
Value(x)       == IF Sym(source[Definition(x)], 1) = "def" THEN Starts[Definition(x)]
                  ELSE source[Definition(x)][3].arg

\* The k-th byte of line i.  The halves of a value are added without a carry; a label
\* that no line defines adds nothing.
Translation(i, k) ==
  LET c == Emits(source[i])
      byte == c.bytes[k]
      r == c.ref[1]
  IN IF c.ref = <<>> \/ k \notin {r.offset + 1, r.offset + 2} \/ Definitions(r.label) = {} THEN byte
     ELSE Wrap8(byte + (IF k = r.offset + 1 THEN Hi(Value(r.label)) ELSE Lo(Value(r.label))))

\* The two passes make of a source what it stands for, and a HALT behind it.
IsTranslated ==
  phase = "done" =>
    /\ PROGRAM_START + Len(compiled) = Starts[Len(source) + 1] + 1
    /\ compiled[Len(compiled)] = OP_HALT
    /\ \A i \in 1 .. Len(source) : \A k \in 1 .. Size(source[i]) :
         compiled[Starts[i] - PROGRAM_START + k] = Translation(i, k)
=============================================================================
