-------------------------------- MODULE OpTable --------------------------------
(***************************************************************************)
(* The instruction set of instructions.h, which the CPU executes and the   *)
(* assembler emits: an operation and an addressing mode for each opcode.   *)
(***************************************************************************)
EXTENDS Integers, Sequences

PROGRAM_START == 256
OP_HALT       == 1

(***************************************************************************)
(* OP_TABLE.  Mode "OPC" is that of MIN_I, whose macro reads MEMORY(PC-2), *)
(* its own opcode; "I16" is the two-byte immediate of ADDW and its like.   *)
(***************************************************************************)
OP_TABLE ==
  LET Row(op, modes) == [i \in 1 .. Len(modes) |-> <<op, modes[i]>>]
      Plain(ops)     == [i \in 1 .. Len(ops) |-> <<ops[i], "-">>]
      Each(ops, m)   == [i \in 1 .. Len(ops) |-> <<ops[i], m>>]
      unused         == <<"NOOP", "-">>
      Ind  == <<"ML", "MHL", "R0", "R1", "L", "H">>
      Alu  == <<"I", "ACC">> \o Ind
      Wide == <<"I16", "ACC", "R0", "R1">>
      Regs == <<"ACC", "R0", "R1", "L", "H", "BP", "FLAGS">>
  IN Plain(<<"NOOP", "HALT", "EI", "DI", "ET", "DT", "CLRA", "RESET">>)
       \o Row("LOAD", <<"I", "IM">> \o Ind)
       \o Plain(<<"LOAD_L_I">>)  \o Row("STORE", <<"IM">> \o Ind)
       \o Plain(<<"LOAD_HL_I">>) \o Row("XCH", <<"IM">> \o Ind)
       \o Row("ADD", Alu) \o Row("ADC", Alu) \o Row("SUB", Alu) \o Row("SBC", Alu)
       \o Row("INC", <<"HL", "ACC">> \o Ind) \o Row("DEC", <<"HL", "ACC">> \o Ind)
       \o Row("NEG", <<"HL", "ACC">> \o Ind) \o Row("NOT", <<"HL", "ACC">> \o Ind)
       \o Row("AND", Alu) \o Row("OR", Alu) \o Row("XOR", Alu)
       \o <<<<"SHL", "I">>, <<"MIN", "BPI">>>> \o Row("SHL", Ind)
       \o <<<<"SHR", "I">>, <<"MAX", "BPI">>>> \o Row("SHR", Ind)
       \o <<<<"ROL", "I">>, unused>> \o Row("ROL", Ind)
       \o <<<<"ROR", "I">>, unused>> \o Row("ROR", Ind)
       \o Row("ADDW", Wide) \o Row("SUBW", Wide) \o Row("MULW", Wide) \o Row("DIVW", Wide)
       \o Plain(<<"JMP", "JS", "JNS", "JZ", "JNZ", "JC", "JNC", "JEXT">>)
       \o Row("CMP", Alu)
       \o Row("PUSH", <<"I">> \o Regs) \o Row("POP", <<"IM">> \o Regs)
       \o Plain(<<"CALL", "RET", "ENTER", "LEAVE">>)
       \o Each(<<"LOAD", "STORE">>, "BPI") \o Plain(<<"ADD_L_I", "ADD_HL_I">>)
       \o <<<<"MIN", "OPC">>, <<"RET_I", "-">>>> \o Row("MIN", Ind)
       \o <<<<"MAX", "I">>, <<"CMP", "BPI">>>> \o Row("MAX", Ind)
       \o Each(<<"XCH", "ADD", "ADC", "SUB", "SBC", "INC", "DEC", "NEG",
                 "NOT", "AND", "OR", "XOR", "SHL", "SHR", "ROL", "ROR">>, "BPI")
       \o [i \in 1 .. 16 |-> unused]

\* The bytes of an opcode and the operand its mode fetches.
Length(mode) == CASE mode \in {"I", "OPC", "BPI"} -> 2
                  [] mode \in {"IM", "I16"}       -> 3
                  [] OTHER                        -> 1
=============================================================================
