------------------------------- MODULE MCMachine -------------------------------
(***************************************************************************)
(* Small sources for the machine: every program of a few lines taken from  *)
(* Lines, which has one line of each kind the assembler tells apart, and   *)
(* some longer programs.                                                   *)
(***************************************************************************)
EXTENDS Machine

CONSTANTS MaxLines, MaxSteps

VARIABLE steps   (* Instructions executed so far. *)

Tok(s)     == [sym |-> s, arg |-> 0]
Imm(n)     == [sym |-> "imm", arg |-> n]
Ref(x)     == [sym |-> "ref", arg |-> x]
Idx(x)     == [sym |-> "idx", arg |-> x]
Def(x)     == <<[sym |-> "def", arg |-> x]>>
Line(words) == [i \in DOMAIN words |-> Tok(words[i])]
Const(x, n) == <<Ref(x), Tok("="), Imm(n)>>
Data(ns)    == [i \in DOMAIN ns |-> Imm(ns[i])]
At(op, x, inner) == <<Tok(op), Idx(x), Tok("[")>> \o inner \o <<Tok("]")>>
Paren(op, inner) == <<Tok(op), Tok("(")>> \o inner \o <<Tok(")")>>
Curly(op, inner) == <<Tok(op), Tok("{")>> \o inner \o <<Tok("}")>>

\* For all sequences of lines.
CoreLines ==
  { Def("x"), Const("x", 300), Data(<<7, 300>>),
    <<Tok("JMP"), Ref("x")>>, <<Tok("JZ"), Ref("x")>>, <<Tok("CALL"), Ref("x")>>,
    Line(<<"RET", "comment">>), <<Tok("LOAD"), Imm(0)>>, <<Tok("ADDW"), Imm(511)>>,
    At("LOAD", "x", <<Imm(1)>>), At("STORE", "x", <<Tok("HL"), Tok("-"), Imm(1)>>),
    At("ADD", "x", <<Imm(2)>>), At("INC", "x", <<Tok("HL")>>) }

\* For programs of one line after a prologue: the operands there are.
Operands ==
  { Paren(op, e) : op \in {"LOAD", "STORE", "XCH", "SUB", "NEG", "SHL"},
      e \in {<<Imm(300)>>, <<Tok("-"), Imm(1)>>, <<Tok("HL")>>, <<Tok("L")>>,
             <<Tok("HL"), Tok("+"), Imm(2)>>, <<Imm(3), Tok("+"), Tok("L"), Tok("-"), Imm(1)>>,
             <<Imm(3), Tok("+"), Imm(4), Tok("+"), Tok("HL")>>, <<Tok("BP")>>,
             <<Tok("L"), Tok("+"), Tok("HL")>>, <<Imm(3), Imm(4)>>, <<>>} }
  \cup { Curly(op, e) : op \in {"LOAD", "STORE", "XCH", "AND", "DEC", "MAX", "PUSH"},
      e \in {<<Tok("BP"), Tok("+"), Imm(3)>>, <<Imm(2), Tok("+"), Tok("BP"), Tok("-"), Imm(4)>>,
             <<Tok("HL")>>} }
  \cup { At(op, "x", e) : op \in {"LOAD", "STORE", "XCH", "CMP", "NOT", "ROR", "ADDW"},
      e \in {<<Imm(0)>>, <<Imm(250)>>, <<Tok("HL"), Tok("+"), Imm(1)>>, <<Tok("L")>>} }
  \cup { <<Tok(op), Imm(n)>> :
      op \in {"LOAD", "XCH", "STORE", "ADC", "SBC", "INC", "ROL", "MIN", "MULW", "DIVW", "PUSH",
              "POP", "JNC", "JC", "CALL", "RET", "ENTER", "NOOP"},
      n \in {256, 513} }
  \cup { Line(<<op, r>>) :
      op \in {"LOAD", "STORE", "XCH", "OR", "XOR", "DEC", "SHR", "MAX", "SUBW", "PUSH", "POP"},
      r \in {"ACC", "R0", "R1", "H", "L", "HL", "SP", "BP", "PC", "FLAGS"} }
  \cup { Line(<<op>>) : op \in {"NOOP", "HALT", "EI", "DI", "ET", "DT", "RESET", "LEAVE", "RET",
                                "LOAD", "ACC", "unknown", "comment"} }
  \cup { <<Tok(op), Ref("x")>> : op \in {"JS", "JNS", "JNZ", "JC", "JNC", "LOAD"} }
  \cup { <<Tok("JEXT"), Imm(f), Tok(s), t>> :
      f \in {4, 132}, s \in {",", "-"}, t \in {Imm(300), Ref("x"), Ref("y"), Tok("R0")} }
  \cup { Const("x", 65536), <<Ref("x")>>, <<Ref("x"), Tok("=")>>, <<[sym |-> "bytes", arg |-> <<104, 105>>]>>,
         Def("x") \o Line(<<"NOOP">>), Curly("LOAD", <<Imm(5)>>), Curly("ADD", <<Imm(3), Tok("+"), Imm(4)>>),
         <<Tok("LOAD"), Idx("y"), Tok("["), Imm(1), Tok("]")>> }

BySequence == UNION {[1 .. n -> CoreLines] : n \in 1 .. MaxLines}
ByOperand  == { <<<<Tok("ADDW"), Imm(258)>>, <<Tok("ADD"), Imm(n)>>, l, Line(<<"HALT">>), Def("x"), Data(<<7>>)>> :
                  n \in {0, 200}, l \in Operands }

\* Two labels, defined in any order, twice or not at all.
TwoLabels == [1 .. 4 -> { Def("x"), Def("y"), Const("y", 300), Data(<<7, 8, 9>>),
                          <<Tok("JMP"), Ref("x")>>, <<Tok("JZ"), Ref("y")>>,
                          At("LOAD", "y", <<Imm(1)>>) }]

MCSources == BySequence \cup ByOperand \cup TwoLabels

MCInit == Init /\ steps = 0
MCNext == \/ (assemble \/ loadProgram) /\ UNCHANGED steps
          \/ steps < MaxSteps /\ runCpu /\ steps' = steps + 1
MCSpec == MCInit /\ [][MCNext]_<<vars, steps>>
=============================================================================
