-------------------------------- MODULE Machine --------------------------------
(***************************************************************************)
(* main.c without the screen: a source is assembled, loaded, and run by    *)
(* the CPU.  Two histories, which restrain nothing, relate the source to   *)
(* the running program: where each line was placed, and the line the CPU   *)
(* is executing with the HL it began it with.                              *)
(***************************************************************************)
EXTENDS Integers, Sequences, FiniteSetsExt

CONSTANTS Sources, StrayBytes

VARIABLES
  source, line, compiled, label_def_map, label_ref_list, next_ref, phase,
  pc, reg, flags, sp, bp, stack, memory, run,
  placed,   (* The address of each line pass 1 has read, and of the next.   *)
  entry     (* The line whose start PC last passed, and HL there.           *)

Asm == INSTANCE Assembler
CPU == INSTANCE Cpu WITH Programs <- {}

\* Sources are as the tokenizer hands them over ...
ASSUME SourcesAssumption == \A s \in Sources : Asm!IsSource(s)
\* ... and every instruction the assembler emits has a row of OP_TABLE.
ASSUME OpcodesAssumption == Asm!OpcodesExist

asmvars == <<source, line, compiled, label_def_map, label_ref_list, next_ref, phase>>
cpuvars == <<pc, reg, flags, sp, bp, stack, memory, run>>
vars    == <<asmvars, cpuvars, placed, entry>>

NoLine == [line |-> 0, HL |-> 0]

\* The line whose code starts at address a.  Lines without code start nowhere.
LineAt(a) == {i \in 1 .. Len(placed) - 1 : placed[i] = a /\ placed[i + 1] > a}
Entered   == LET ls == LineAt(pc)
             IN IF ls = {} THEN NoLine ELSE [line |-> CHOOSE i \in ls : TRUE, HL |-> CPU!HL]

\* Past the first byte of the line, which is not the start of any other.
Inside(a) == a \in placed[entry.line] + 1 .. placed[entry.line + 1] - 1

Init == /\ Asm!Init
        /\ CPU!initCpu /\ memory = <<>> /\ run = "off"
        /\ placed = <<CPU!PROGRAM_START>>
        /\ entry = NoLine

assemble == /\ Asm!Next
            /\ placed' = IF line' = line THEN placed ELSE Append(placed, Asm!Here')
            /\ UNCHANGED <<cpuvars, entry>>

\* Also after errors: assemble does not tell main of them.
loadProgram == /\ phase = "done" /\ run = "off"
               /\ memory' = CPU!loadProgram(compiled)
               /\ run' = "running"
               /\ UNCHANGED <<asmvars, placed, pc, reg, flags, sp, bp, stack>>
               /\ entry' = Entered'

runCpu == /\ run # "off"
          /\ CPU!Next
          /\ UNCHANGED <<asmvars, placed>>
          /\ entry' = IF entry.line # 0 /\ Inside(pc') THEN entry ELSE Entered'

Next == assemble \/ loadProgram \/ runCpu

Spec == Init /\ [][Next]_vars

-----------------------------------------------------------------------------
(***************************************************************************)
(* What a source means, read from its lines alone.                         *)
(***************************************************************************)
Tokens == source[entry.line]
Op     == Tokens[1].sym

\* The first definition of a label is the one that counts.
Defines(x, i) == /\ source[i][1].sym \in {"def", "ref"} /\ source[i][1].arg = x
                 /\ source[i][1].sym = "ref" => Asm!IsConstant(source[i])
IsDefined(x)  == \E i \in DOMAIN source : Defines(x, i)
AddressOf(x)  == LET i == CHOOSE j \in DOMAIN source :
                            Defines(x, j) /\ \A k \in 1 .. j - 1 : ~Defines(x, k)
                 IN IF source[i][1].sym = "def" THEN placed[i] ELSE source[i][3].arg

LabelsOf(ts)  == {ts[i].arg : i \in {j \in DOMAIN ts : ts[j].sym \in {"ref", "idx"}}}
IsData(ts)    == ts[1].sym \in {"imm", "bytes"}

\* The CPU executes a line of code of the source, as it was assembled.
Intact(i) == \A a \in placed[i] .. placed[i + 1] - 1 :
               CPU!MEMORY(a) = compiled[a - CPU!PROGRAM_START + 1]
InLine == /\ run = "running" /\ entry.line # 0
          /\ ~IsData(Tokens) /\ Intact(entry.line)
          /\ \A x \in LabelsOf(Tokens) : IsDefined(x)
FirstByte == placed[entry.line]
NextLine  == placed[entry.line + 1]

\* Where the operand of a jump points.
Destination == LET t == Tokens[Len(Tokens)]
               IN CPU!Wrap16(IF t.sym = "ref" THEN AddressOf(t.arg) ELSE t.arg)

\* What the operand of an instruction designates.  In memory, it is the sum of the
\* label, the signed values and the register between its brackets.
Indexed  == Len(Tokens) > 2 /\ Tokens[2].sym \in {"(", "{", "idx"}
Values   == {i \in 3 .. Len(Tokens) : Tokens[i].sym = "imm"}
Indices  == {i \in 3 .. Len(Tokens) : Tokens[i].sym \in {"HL", "L", "BP"}}
Negative(i) == Tokens[i - 1].sym = "-"
Term(i)  == LET v == CASE Tokens[i].sym = "imm" -> Tokens[i].arg
                       [] Tokens[i].sym = "HL"  -> entry.HL
                       [] Tokens[i].sym = "L"   -> CPU!Lo(entry.HL)
                       [] Tokens[i].sym = "BP"  -> bp
            IN IF Negative(i) THEN -v ELSE v
Offset   == MapThenSumSet(Term, Values)
Sum      == Offset + MapThenSumSet(Term, Indices)
Meant ==
  LET t == Tokens[2]
  IN CASE t.sym = "imm" -> [space |-> "const",
                            at |-> IF Asm!Shape[Op].imm = "I16" THEN CPU!Wrap16(t.arg)
                                                                ELSE CPU!Wrap8(t.arg)]
       [] t.sym = "{"   -> [space |-> "stack", at |-> CPU!Wrap8(bp - Offset - 1)]
       [] t.sym = "idx" -> [space |-> "mem", at |-> CPU!Wrap16(AddressOf(t.arg) + Sum)]
       [] t.sym = "("   -> [space |-> "mem",
                            at |-> IF \E i \in Indices : Tokens[i].sym = "L"
                                   THEN CPU!Wrap8(Sum) ELSE CPU!Wrap16(Sum)]
       [] OTHER         -> [space |-> "reg", at |-> t.sym]

\* The CPU is at the last instruction of a line that has an operand.
Operating == /\ InLine
             /\ Op \in DOMAIN Asm!Shape
             /\ pc + CPU!Length(CPU!Mode) = NextLine

\* LOAD 0 is CLRA, and XCH of an immediate is LOAD.
Operation == CASE Tokens[2].sym = "imm" /\ Op \in {"LOAD", "XCH"} /\ Meant.at = 0 -> "CLRA"
               [] Tokens[2].sym = "imm" /\ Op = "XCH" /\ Meant.at # 0 -> "LOAD"
               [] OTHER -> Op
Performed == /\ CPU!Instruction[1] = Operation
             /\ Operation = "CLRA" \/ CPU!Operand(CPU!Mode) = {Meant}

-----------------------------------------------------------------------------
(***************************************************************************)
(* Properties.                                                             *)
(***************************************************************************)
\* The assembler emits bytes only and its placeholders are among them, the registers
\* of the CPU hold what their types say, and the line being executed is one of the
\* source.
TypeOK == /\ Asm!TypeOK
          /\ run # "off" => CPU!TypeOK
          /\ placed \in Seq(CPU!Word16) /\ Len(placed) = line
          /\ entry \in [line : 0 .. Len(source), HL : CPU!Word16]

\* Whatever the order of uses and definitions, the two passes make of a source what it
\* stands for: the code of its lines one after another, with the value of its label
\* in every placeholder, and a HALT behind it.  Once it is loaded, nothing of the
\* assembler changes any more.
IsTranslated == run = "off" => Asm!IsTranslated

\* PC follows the source.  From a line of code the CPU goes on to the next line, or
\* to the line of the label a jump names when its condition holds: both passes of
\* the assembler and PC's advance in every macro agree on the length of every
\* instruction.  A JEXT that does not jump is left to JextFallsThrough.
ControlFollowsSource ==
  [][InLine /\ run' # "crashed" =>
       CASE Op \in {"JMP", "CALL"}   -> pc' = Destination
         [] Op \in DOMAIN CPU!Taken -> pc' = IF CPU!Taken[Op] THEN Destination ELSE NextLine
         [] Op = "JEXT"    -> CPU!JextTaken(CPU!Wrap8(Tokens[2].arg)) => pc' = Destination
         [] Op = "HALT"    -> pc' = FirstByte
         [] Op \in {"RET", "RESET"} -> TRUE
         [] OTHER -> \/ pc' = NextLine
                     \/ Indexed /\ pc = FirstByte /\ Inside(pc')
    ]_vars

\* The operands the assembler leaves out of line with the source, or the CPU does.
LostCarry       == Tokens[2].sym = "idx"
                     /\ CPU!Lo(AddressOf(Tokens[2].arg)) + CPU!Lo(Offset) > 255
NegatedRegister == Indexed /\ \E i \in Indices : Negative(i)
MinOfImmediate  == Op = "MIN" /\ Tokens[2].sym = "imm"

\* The last instruction of a line is the one its mnemonic names, and its operand is
\* the one the line describes, whatever address arithmetic the assembler put before
\* it: label and index added in two passes, HL and L changed on the way.
OperandsReached ==
  Operating /\ ~LostCarry /\ ~NegatedRegister /\ ~MinOfImmediate => Performed

(***************************************************************************)
(* Two statements of the repository that the code does not keep.           *)
(***************************************************************************)
\* assembler.c:1002, "These might be non-zero if working with an indexed label": an
\* indexed label is the label's address and the index, together.
IndexedLabelsReached ==
  Operating /\ Tokens[2].sym = "idx" /\ ~NegatedRegister => Performed

\* README.md:76: JEXT "jumps if condition is met"; if not, the next line follows.
JextFallsThrough ==
  [][InLine /\ Op = "JEXT" /\ ~CPU!JextTaken(CPU!Wrap8(Tokens[2].arg))
       => pc' = NextLine]_vars
=============================================================================
