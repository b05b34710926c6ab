--------------------------------- MODULE Cpu ---------------------------------
(***************************************************************************)
(* The 8-bit CPU: initCpu, loadProgram, runCpu and stepCpu of cpu.c, the   *)
(* flags of flags.c and the macros of instructions.h behind OP_TABLE, on   *)
(* their real widths.  One step of the specification is one call of        *)
(* stepCpu together with the test runCpu makes after it.                   *)
(*                                                                         *)
(* The C macros are parameterised by an addressing mode.  So are the       *)
(* actions: OP_TABLE maps an opcode to an operation and a mode, Operand    *)
(* gives what the mode designates, and there is one action per macro, or   *)
(* per group of macros of the same shape.                                  *)
(*                                                                         *)
(* Memory is sparse: a cell outside DOMAIN memory still holds the zero     *)
(* that calloc put there.                                                  *)
(***************************************************************************)
EXTENDS Word, OpTable

CONSTANTS
  Programs,    (* Assembled programs, without the 256 bytes before them.   *)
  StrayBytes   (* What a read just outside the memory block may return.    *)

ASSUME ProgramsAssumption == \A p \in Programs : p \in Seq(Byte)
ASSUME StrayAssumption    == StrayBytes # {} /\ StrayBytes \subseteq Byte

VARIABLES
  pc,      (* PC: uint16_t program_counter.                                *)
  reg,     (* ACC, R0, R1, H and L.                                        *)
  flags,   (* FLAGS, as the set of the bits that are one.                  *)
  sp,      (* SP: uint8_t stackptr.                                        *)
  bp,      (* BP: uint8_t baseptr.                                         *)
  stack,   (* STACK: 256 bytes beside the memory.                          *)
  memory,  (* MEMORY: the cells written since calloc.                      *)
  run      (* Where runCpu is.                                             *)

vars == <<pc, reg, flags, sp, bp, stack, memory, run>>

Register      == {"ACC", "R0", "R1", "H", "L"}

\* The numbers of the flags' bits; EI and DI use OF, and nothing uses bits 1 and 6.
CF == 0
ZF == 2
SF == 3
TF == 4
OF == 5

HL        == Pair(reg.H, reg.L)
CARRY     == IF CF \in flags THEN 1 ELSE 0
MEMORY(a) == IF a \in DOMAIN memory THEN memory[a] ELSE 0
Poked(a, v) == [x \in DOMAIN memory \cup {a} |-> IF x = a THEN v ELSE memory[x]]

Instruction == OP_TABLE[MEMORY(pc) + 1]
Mode        == Instruction[2]
Executing(op) == run = "running" /\ Instruction[1] = op

-----------------------------------------------------------------------------
(***************************************************************************)
(* Operands.  The macros advance PC first, modulo 2^16, and then index the *)
(* memory with PC - 1 or PC - 2 as an int: when the advance has wrapped,   *)
(* the index is -1 or -2 and the byte read is not the VM's.                *)
(***************************************************************************)
\* Mutant: PC kept in an int.
AfterWide(n) == pc + n
After(n) == Wrap16(pc + n)

Fetch(i) == IF i \in Word16 THEN {MEMORY(i)} ELSE StrayBytes
FetchWord(i) == {Pair(h, l) : h \in Fetch(i), l \in Fetch(i + 1)}

\* The places an operand may designate: one, unless the fetch goes astray.
Operand(mode) ==
  LET next     == After(Length(mode))
      Const(b) == [space |-> "const", at |-> b]
      Mem(a)   == [space |-> "mem", at |-> a]
  IN CASE mode = "I"   -> {Const(b) : b \in Fetch(next - 1)}
       [] mode = "OPC" -> {Const(b) : b \in Fetch(next - 2)}
       [] mode = "IM"  -> {Mem(a) : a \in FetchWord(next - 2)}
       [] mode = "I16" -> {Const(w) : w \in FetchWord(next - 2)}
       [] mode = "ML"  -> {Mem(reg.L)}
       [] mode = "MHL" -> {Mem(HL)}
       [] mode = "BPI" -> {[space |-> "stack", at |-> Wrap8(bp - b)] : b \in Fetch(next - 1)}
       [] OTHER        -> {[space |-> "reg", at |-> mode]}

Read(p) == CASE p.space = "const" -> p.at
             [] p.space = "mem"   -> MEMORY(p.at)
             [] p.space = "stack" -> stack[p.at]
             [] p.space = "reg"   -> reg[p.at]

\* ACC = acc and then *p = v, the two assignments of the widest macro.
Assign(acc, p, v) ==
  LET regs == [reg EXCEPT !.ACC = acc]
  IN /\ reg'    = IF p.space = "reg" THEN [regs EXCEPT ![p.at] = v] ELSE regs
     /\ memory' = IF p.space = "mem" THEN Poked(p.at, v) ELSE memory
     /\ stack'  = IF p.space = "stack" THEN [stack EXCEPT ![p.at] = v] ELSE stack

RValue  == {"I", "OPC", "IM", "ML", "MHL", "BPI"} \cup Register
LValue  == RValue \ {"I", "OPC"}
WValue  == {"I16", "ACC", "R0", "R1"}

-----------------------------------------------------------------------------
(***************************************************************************)
(* Flags.  UPDATE_FLAGS sets or unsets one bit; nearly every macro does it *)
(* for ZF and SF, and the additive ones for CF.                            *)
(***************************************************************************)
Update(fs, f, on) == IF on THEN fs \cup {f} ELSE fs \ {f}
\* Mutant: FLAGS built afresh instead of updated.
ZeroSignAfresh(fs, v) == Update(Update({}, ZF, v = 0), SF, v >= 128)
ZeroSign(fs, v)   == Update(Update(fs, ZF, v = 0), SF, v >= 128)

(***************************************************************************)
(* What the macros compute: the new value and the new carry.               *)
(***************************************************************************)
Add(a, b) == [val |-> Wrap8(a + b), cf |-> Wrap8(a + b) < b]
\* Mutant: a total of exactly 256 does not carry.
AdcLate(a, b, c) == [val |-> Wrap8(a + b + c), cf |-> a + b + c > 256]
Adc(a, b, c) == [val |-> Wrap8(a + b + c), cf |-> a + b + c >= 256]
Sub(a, b) == [val |-> Wrap8(a - b), cf |-> Wrap8(a - b) > b]
\* val is a uint16_t: with CF clear and src 0 it is 65535.
Sbc(a, b, c) == LET val == Wrap16(b - (1 - c))
                IN  [val |-> Wrap8(a - Lo(val)), cf |-> a >= val]
Inc(v) == [val |-> Wrap8(v + 1), cf |-> Wrap8(v + 1) = 0]
Dec(v) == [val |-> Wrap8(v - 1), cf |-> Wrap8(v - 1) = UINT8_MAX]

\* The shift count is not masked in C; both release targets take it modulo 32.
Shl(a, n) == ShiftLeft(a, n % 32)
Shr(a, n) == ShiftRight(a, n % 32)
\* Mutant: the bits come back in one place too low.
RolShort(a, n) == BitOr(Shl(a, n), ShiftRight(a, (7 - n) % 8))
Rol(a, n) == BitOr(Shl(a, n), ShiftRight(a, (-n) % 8))
Ror(a, n) == BitOr(Shr(a, n), ShiftLeft(a, (-n) % 8))

AccOps == {"LOAD", "ADD", "ADC", "SUB", "SBC", "AND", "OR", "XOR",
           "SHL", "SHR", "ROL", "ROR", "MIN", "MAX"}
Alu(op, a, b, c) ==
  LET Only(v) == [val |-> v, cf |-> c = 1]
  IN CASE op = "LOAD" -> Only(b)
       [] op = "ADD" -> Add(a, b)           [] op = "ADC" -> Adc(a, b, c)
       [] op = "SUB" -> Sub(a, b)           [] op = "SBC" -> Sbc(a, b, c)
       [] op = "AND" -> Only(BitAnd(a, b))  [] op = "OR"  -> Only(BitOr(a, b))
       [] op = "XOR" -> Only(BitXor(a, b))
       [] op = "SHL" -> Only(Shl(a, b))     [] op = "SHR" -> Only(Shr(a, b))
       [] op = "ROL" -> Only(Rol(a, b))     [] op = "ROR" -> Only(Ror(a, b))
       [] op = "MIN" -> Only(IF b < a THEN b ELSE a)
       [] op = "MAX" -> Only(IF b > a THEN b ELSE a)

UnaryOps == {"INC", "DEC", "NEG", "NOT"}
Unary(op, v, c) ==
  CASE op = "INC" -> Inc(v)
    [] op = "DEC" -> Dec(v)
    [] op = "NEG" -> [val |-> Wrap8(-v), cf |-> c = 1]
    [] op = "NOT" -> [val |-> BitNot(v), cf |-> c = 1]

\* The same on the HL pair.
UnaryHL(op, w, c) ==
  CASE op = "INC" -> [val |-> Wrap16(w + 1), cf |-> Wrap16(w + 1) = 0]
    [] op = "DEC" -> [val |-> Wrap16(w - 1), cf |-> Wrap16(w - 1) = UINT16_MAX]
    [] op = "NEG" -> [val |-> Wrap16(-w), cf |-> c = 1]
    [] op = "NOT" -> [val |-> UINT16_MAX - w, cf |-> c = 1]

WideOps == {"ADDW", "SUBW", "MULW", "DIVW"}
Wide(op, w, v) ==
  CASE op = "ADDW" -> Wrap16(w + v)
    [] op = "SUBW" -> Wrap16(w - v)
    [] op = "MULW" -> Wrap16(256 * Wrap8(Hi(w) * v) + Lo(w) * v)
    [] op = "DIVW" -> IF v = 0 THEN 0 ELSE w \div v

\* Undefined in C: trapped by the debug build, the above in a release build.
\* A shift overflows int when a one bit reaches the sign bit.
Undefined(op, a, n) ==
  CASE op \in {"SHL", "ROL"} -> n >= 32 \/ \E k \in 24 .. 31 : n = k /\ a >= Weight[31 - k]
    [] op \in {"SHR", "ROR"} -> n >= 32
    [] op = "MULW" -> n > 0 /\ a > 2147483647 \div n
    [] op = "DIVW" -> n = 0
    [] OTHER -> FALSE

-----------------------------------------------------------------------------
(***************************************************************************)
(* initCpu and loadProgram.  The length of the executable passes through a *)
(* uint16_t, so one of 65536 bytes loads nothing at all.                   *)
(***************************************************************************)
loadProgram(p) ==
  [a \in PROGRAM_START .. Wrap16(PROGRAM_START + Len(p)) - 1 |-> p[a - PROGRAM_START + 1]]

InitRegister == [r \in Register |-> 0]
InitStack    == [i \in Byte |-> 0]

initCpu == /\ pc = PROGRAM_START
           /\ reg = InitRegister
           /\ flags = {}
           /\ sp = 0 /\ bp = 0
           /\ stack = InitStack

Init == /\ initCpu
        /\ \E p \in Programs : memory = loadProgram(p)
        /\ run = "running"

NOOP == /\ Executing("NOOP")
        /\ pc' = After(1)
        /\ UNCHANGED <<reg, flags, sp, bp, stack, memory>>

\* Reached only as the very first instruction: the loop stops before any other.
HALT == /\ Executing("HALT")
        /\ UNCHANGED <<pc, reg, flags, sp, bp, stack, memory>>

\* set_if and unset_if work on OF_BIT.
FlagOps == {"EI", "DI", "ET", "DT"}
SetFlag == /\ \E op \in FlagOps :
                /\ Executing(op)
                /\ flags' = CASE op = "EI" -> flags \cup {OF}
                              [] op = "DI" -> flags \ {OF}
                              [] op = "ET" -> flags \cup {TF}
                              [] op = "DT" -> flags \ {TF}
           /\ pc' = After(1)
           /\ UNCHANGED <<reg, sp, bp, stack, memory>>

\* Mutant: CLRA clears the carry as well.
CLRAClearsAll == /\ Executing("CLRA")
                 /\ pc' = After(1)
                 /\ reg' = [reg EXCEPT !.ACC = 0]
                 /\ flags' = {ZF}
                 /\ UNCHANGED <<sp, bp, stack, memory>>

\* Sets ZF and leaves SF as it was.
CLRA == /\ Executing("CLRA")
        /\ pc' = After(1)
        /\ reg' = [reg EXCEPT !.ACC = 0]
        /\ flags' = flags \cup {ZF}
        /\ UNCHANGED <<sp, bp, stack, memory>>

\* resetCpu: everything back to initCpu, the loaded program included.
RESET == /\ Executing("RESET")
         /\ pc' = PROGRAM_START
         /\ reg' = InitRegister
         /\ flags' = {}
         /\ sp' = 0 /\ bp' = 0
         /\ stack' = InitStack
         /\ memory' = [a \in {} |-> 0]

\* LOAD and every operation of the ALU whose result goes to ACC.
AccOp == /\ Mode \in RValue
         /\ \E op \in AccOps, p \in Operand(Mode) :
              LET r == Alu(op, reg.ACC, Read(p), CARRY)
              IN /\ Executing(op)
                 /\ reg' = [reg EXCEPT !.ACC = r.val]
                 /\ flags' = Update(ZeroSign(flags, r.val), CF, r.cf)
         /\ pc' = After(Length(Mode))
         /\ UNCHANGED <<sp, bp, stack, memory>>

CMP == /\ Executing("CMP") /\ Mode \in RValue
       /\ \E p \in Operand(Mode) :
            flags' = ZeroSign(flags, Wrap8(reg.ACC - Read(p)))
       /\ pc' = After(Length(Mode))
       /\ UNCHANGED <<reg, sp, bp, stack, memory>>

STORE == /\ Executing("STORE") /\ Mode \in LValue
         /\ \E p \in Operand(Mode) : Assign(reg.ACC, p, reg.ACC)
         /\ flags' = ZeroSign(flags, reg.ACC)
         /\ pc' = After(Length(Mode))
         /\ UNCHANGED <<sp, bp>>

XCH == /\ Executing("XCH") /\ Mode \in LValue
       /\ \E p \in Operand(Mode) : /\ Assign(Read(p), p, reg.ACC)
                                   /\ flags' = ZeroSign(flags, Read(p))
       /\ pc' = After(Length(Mode))
       /\ UNCHANGED <<sp, bp>>

\* INC, DEC, NEG and NOT change their operand in place.
InPlace == /\ Mode \in LValue
           /\ \E op \in UnaryOps, p \in Operand(Mode) :
                LET r == Unary(op, Read(p), CARRY)
                IN /\ Executing(op)
                   /\ Assign(reg.ACC, p, r.val)
                   /\ flags' = Update(ZeroSign(flags, r.val), CF, r.cf)
           /\ pc' = After(Length(Mode))
           /\ UNCHANGED <<sp, bp>>

SetHL(w) == reg' = [reg EXCEPT !.H = Hi(w), !.L = Lo(w)]

\* UPDATE_SF looks at bit 7 of the 16-bit result, the sign of L.
InPlaceHL == /\ Mode = "HL"
             /\ \E op \in UnaryOps :
                  LET r == UnaryHL(op, HL, CARRY)
                  IN /\ Executing(op)
                     /\ SetHL(r.val)
                     /\ flags' = Update(Update(Update(flags, ZF, r.val = 0),
                                               SF, Lo(r.val) >= 128), CF, r.cf)
             /\ pc' = After(1)
             /\ UNCHANGED <<sp, bp, stack, memory>>

\* OPW: here SF is the sign of H, and CF is left alone.
OPW == /\ Mode \in WValue
       /\ \E op \in WideOps, p \in Operand(Mode) :
            LET w == Wide(op, HL, Read(p))
            IN /\ Executing(op)
               /\ SetHL(w)
               /\ flags' = Update(Update(flags, ZF, w = 0), SF, Hi(w) >= 128)
       /\ pc' = After(Length(Mode))
       /\ UNCHANGED <<sp, bp, stack, memory>>

\* The four loads and additions on L and HL that touch no flag.
Index == /\ \/ /\ Executing("LOAD_L_I") /\ pc' = After(2)
               /\ \E b \in Fetch(After(2) - 1) : reg' = [reg EXCEPT !.L = b]
            \/ /\ Executing("ADD_L_I") /\ pc' = After(2)
               /\ \E b \in Fetch(After(2) - 1) : reg' = [reg EXCEPT !.L = Wrap8(@ + b)]
            \/ /\ Executing("LOAD_HL_I") /\ pc' = After(3)
               /\ \E w \in FetchWord(After(3) - 2) : SetHL(w)
            \/ /\ Executing("ADD_HL_I") /\ pc' = After(3)
               /\ \E w \in FetchWord(After(3) - 2) : SetHL(Wrap16(HL + w))
         /\ UNCHANGED <<flags, sp, bp, stack, memory>>

JMP == /\ Executing("JMP")
       /\ pc' \in FetchWord(pc + 1)
       /\ UNCHANGED <<reg, flags, sp, bp, stack, memory>>

Taken == [JS |-> SF \in flags, JNS |-> SF \notin flags, JZ |-> ZF \in flags,
          JNZ |-> ZF \notin flags, JC |-> CF \in flags, JNC |-> CF \notin flags]

Jcc == /\ \E op \in DOMAIN Taken :
            /\ Executing(op)
            /\ IF Taken[op] THEN pc' \in FetchWord(After(3) - 2) ELSE pc' = After(3)
       /\ UNCHANGED <<reg, flags, sp, bp, stack, memory>>

\* The two high bits of the operand choose the test, the others the flags.
JextTaken(jext) ==
  LET mask == BitsOf(jext) \cap (0 .. 5)
      kind == jext \div 64
  IN CASE kind = 0 -> flags \cap mask # {}
       [] kind = 1 -> mask \subseteq flags
       [] kind = 2 -> flags \cap mask = {}
       [] kind = 3 -> ~(mask \subseteq flags)

\* A JEXT not taken leaves PC on its own operand.
JEXT == /\ Executing("JEXT")
        /\ IF JextTaken(MEMORY(After(1)))
           THEN pc' \in FetchWord(After(1) + 1)
           ELSE pc' = After(1)
        /\ UNCHANGED <<reg, flags, sp, bp, stack, memory>>

(***************************************************************************)
(* The stack grows upwards and SP, a uint8_t, wraps without notice.        *)
(***************************************************************************)
PUSH == /\ Executing("PUSH")
        /\ LET val == CASE Mode = "I"     -> MEMORY(After(1))
                        [] Mode = "BP"    -> bp
                        [] Mode = "FLAGS" -> ByteOf(flags)
                        [] Mode \in Register -> reg[Mode]
           IN /\ stack' = [stack EXCEPT ![sp] = val]
              /\ flags' = ZeroSign(flags, val)
        /\ Mode \in {"I", "BP", "FLAGS"} \cup Register
        /\ sp' = Wrap8(sp + 1)
        /\ pc' = After(Length(Mode))
        /\ UNCHANGED <<reg, bp, memory>>

Top(n) == stack[Wrap8(sp - n)]

\* POP FLAGS is the one pop that does not let the value set ZF and SF.
POP == /\ Executing("POP")
       /\ sp' = Wrap8(sp - 1)
       /\ pc' = After(Length(Mode))
       /\ \/ /\ Mode \in LValue
             /\ \E p \in Operand(Mode) : Assign(reg.ACC, p, Top(1))
             /\ flags' = ZeroSign(flags, Top(1))
             /\ bp' = bp
          \/ /\ Mode = "BP"
             /\ bp' = Top(1)
             /\ flags' = ZeroSign(flags, Top(1))
             /\ UNCHANGED <<reg, memory, stack>>
          \/ /\ Mode = "FLAGS"
             /\ flags' = BitsOf(Top(1))
             /\ UNCHANGED <<reg, bp, memory, stack>>

\* Mutant: the low byte first.
CALLSwapped == /\ Executing("CALL")
               /\ pc' \in FetchWord(After(3) - 2)
               /\ stack' = [stack EXCEPT ![sp] = Lo(After(3)), ![Wrap8(sp + 1)] = Hi(After(3))]
               /\ sp' = Wrap8(sp + 2)
               /\ UNCHANGED <<reg, flags, bp, memory>>

\* The return address goes on the stack high byte first.
CALL == /\ Executing("CALL")
        /\ pc' \in FetchWord(After(3) - 2)
        /\ stack' = [stack EXCEPT ![sp] = Hi(After(3)), ![Wrap8(sp + 1)] = Lo(After(3))]
        /\ sp' = Wrap8(sp + 2)
        /\ UNCHANGED <<reg, flags, bp, memory>>

ReturnAddress == Pair(Top(2), Top(1))

RET == /\ Executing("RET")
       /\ pc' = ReturnAddress
       /\ sp' = Wrap8(sp - 2)
       /\ UNCHANGED <<reg, flags, bp, stack, memory>>

\* Also drops as many bytes of arguments as its operand says.
RET_I == /\ Executing("RET_I")
         /\ pc' = ReturnAddress
         /\ \E to_pop \in Fetch(pc + 1) : sp' = Wrap8(sp - 2 - to_pop)
         /\ UNCHANGED <<reg, flags, bp, stack, memory>>

\* Mutant: BP left on the saved base pointer instead of behind it.
ENTERBehind == /\ Executing("ENTER")
               /\ pc' = After(2)
               /\ stack' = [stack EXCEPT ![sp] = bp]
               /\ bp' = sp
               /\ \E locals \in Fetch(After(2) - 1) : sp' = Wrap8(sp + 1 + locals)
               /\ UNCHANGED <<reg, flags, memory>>

ENTER == /\ Executing("ENTER")
         /\ pc' = After(2)
         /\ stack' = [stack EXCEPT ![sp] = bp]
         /\ bp' = Wrap8(sp + 1)
         /\ \E locals \in Fetch(After(2) - 1) : sp' = Wrap8(sp + 1 + locals)
         /\ UNCHANGED <<reg, flags, memory>>

\* Mutant: the saved base pointer is read but not popped.
LEAVEUnpopped == /\ Executing("LEAVE")
                 /\ pc' = After(1)
                 /\ sp' = bp
                 /\ bp' = stack[Wrap8(bp - 1)]
                 /\ UNCHANGED <<reg, flags, stack, memory>>

LEAVE == /\ Executing("LEAVE")
         /\ pc' = After(1)
         /\ sp' = Wrap8(bp - 1)
         /\ bp' = stack[Wrap8(bp - 1)]
         /\ UNCHANGED <<reg, flags, stack, memory>>

-----------------------------------------------------------------------------
(***************************************************************************)
(* runCpu.  After a step it looks at the opcode now at PC: HALT ends the   *)
(* loop before it is executed; otherwise, with TF set, the loop prints the *)
(* state and waits in getchar until the user answers.                      *)
(***************************************************************************)
Execute ==
  \/ NOOP \/ HALT \/ SetFlag \/ CLRA \/ RESET
  \/ AccOp \/ CMP \/ STORE \/ XCH \/ InPlace \/ InPlaceHL \/ OPW \/ Index
  \/ JMP \/ Jcc \/ JEXT
  \/ PUSH \/ POP \/ CALL \/ RET \/ RET_I \/ ENTER \/ LEAVE

AfterStep == CASE MEMORY(pc) = OP_HALT -> "halted"
               [] MEMORY(pc) # OP_HALT /\ TF \in flags -> "trapped"
               [] OTHER -> "running"

stepCpu == Execute /\ run' = AfterStep'

Answer == /\ run = "trapped"
          /\ run' = "running"
          /\ UNCHANGED <<pc, reg, flags, sp, bp, stack, memory>>

\* Undefined behaviour under the debug build, or a hardware trap.
Crash == /\ \/ /\ Mode \in RValue
               /\ \E op \in AccOps, p \in Operand(Mode) :
                    Executing(op) /\ Undefined(op, reg.ACC, Read(p))
            \/ /\ Mode \in WValue
               /\ \E op \in WideOps, p \in Operand(Mode) :
                    Executing(op) /\ Undefined(op, HL, Read(p))
         /\ run' = "crashed"
         /\ UNCHANGED <<pc, reg, flags, sp, bp, stack, memory>>

Next == stepCpu \/ Answer \/ Crash

Spec == Init /\ [][Next]_vars

-----------------------------------------------------------------------------
State == {"running", "trapped", "halted", "crashed"}

\* Every register keeps to the width its C type gives it, and every address
\* ever written lies inside the 64 KiB block.
TypeOK == /\ pc \in Word16
          /\ reg \in [Register -> Byte]
          /\ flags \subseteq Bit
          /\ sp \in Byte /\ bp \in Byte
          /\ stack \in [Byte -> Byte]
          /\ DOMAIN memory \subseteq Word16
          /\ \A a \in DOMAIN memory : memory[a] \in Byte
          /\ run \in State

\* A sum of several bytes is chained through CF: the carry of ADD, ADC and INC
\* is the ninth bit of the unsigned sum in every addressing mode, although the
\* macros find it in three ways: ACC < val, a uint16_t total, and a zero test.
SumsAreExact ==
  [][LET cf == IF CF \in flags' THEN 256 ELSE 0
         Sum(c) == \E p \in Operand(Mode) : cf + reg'.ACC = reg.ACC + Read(p) + c
     IN /\ Executing("ADD") => Sum(0)
        /\ Executing("ADC") => Sum(CARRY)
        /\ Executing("INC") => IF Mode = "HL"
                              THEN 256 * cf + HL' = HL + 1
                              ELSE \E p \in Operand(Mode) : cf + Read(p)' = Read(p) + 1
    ]_vars

\* ... and it survives the loads, stores, pops, calls and jumps a guest puts
\* between two bytes of the sum (keyboard.casm:13, "doesn't overwrite possible
\* carry flag"): only arithmetic, POP FLAGS and RESET ever change CF.
CarrySurvives ==
  [][(CF \in flags') # (CF \in flags) =>
       \/ \E op \in {"ADD", "ADC", "SUB", "SBC", "INC", "DEC", "RESET"} : Executing(op)
       \/ Executing("POP") /\ Mode = "FLAGS"
    ]_vars

\* The two shifts of ROL and ROR put every bit where a rotation by up to a
\* byte puts it: the mask on the negated count makes 0 and 8 come out right.
RotationsAreExact ==
  [][LET Moved(by(_, _)) ==
           \E p \in Operand(Mode) : Read(p) <= 8 =>
             BitsOf(reg'.ACC) = {by(i, Read(p)) % 8 : i \in BitsOf(reg.ACC)}
     IN /\ Executing("ROL") => Moved(LAMBDA i, n : i + n)
        /\ Executing("ROR") => Moved(LAMBDA i, n : i - n)
    ]_vars

(***************************************************************************)
(* Two statements of the documentation that the code does not keep.        *)
(***************************************************************************)

\* README.md:55: SBC "Subtracts value + possible carry bit from the
\* accumulator".  The macro subtracts value - (1 - CF).
SbcSubtractsCarry ==
  [][Executing("SBC") =>
       \E p \in Operand(Mode) : reg'.ACC = Wrap8(reg.ACC - (Read(p) + CARRY))]_vars

\* tests/assemble_fib.c:12 lets CLRA stand for LOAD 0, and so does the
\* assembler for every LOAD 0 of a source; LOAD would also unset SF.
ClearIsLoadZero ==
  [][Executing("CLRA") => flags' = ZeroSign(flags, 0)]_vars
=============================================================================
