------------------------------ MODULE CpuProofs ------------------------------
(***************************************************************************)
(* Proofs about Cpu, for every set of programs and every value a stray     *)
(* read may return, and about its calls and frames (CallFrames), which     *)
(* undo one another in every program in order, at any depth the 256 bytes  *)
(* of the stack allow.                                                     *)
(***************************************************************************)
EXTENDS CallFrames, SequenceTheorems, TLAPS

(***************************************************************************)
(* The arithmetic of bytes and words.  Past this section the proofs use    *)
(* these facts and never the definitions of Byte, Wrap8 and their like.    *)
(***************************************************************************)
\* The two limits of stdint.h as the numbers the provers work with.
LEMMA Limits == /\ UINT8_MAX \in Int /\ UINT8_MAX <= 255 /\ 255 <= UINT8_MAX
                /\ UINT16_MAX \in Int /\ UINT16_MAX <= 65535 /\ 65535 <= UINT16_MAX
  BY DEF UINT8_MAX, UINT16_MAX

\* A uint8_t is an integer from 0 to 255 ...
LEMMA ByteInt == \A b : b \in Byte <=> b \in Int /\ 0 <= b /\ b <= 255
  BY Limits DEF Byte

\* ... and a uint16_t one from 0 to 65535.
LEMMA WordInt == \A w : w \in Word16 <=> w \in Int /\ 0 <= w /\ w <= 65535
  BY Limits DEF Word16

\* The constants the reset of the CPU stores fit in their registers.
LEMMA SmallBytes == 0 \in Byte /\ 0 \in Word16 /\ PROGRAM_START \in Word16
  BY ByteInt, WordInt DEF PROGRAM_START

\* Cutting an integer to its low bits makes a byte or a word of it.
LEMMA WrapType == \A n \in Int : Wrap8(n) \in Byte /\ Wrap16(n) \in Word16
  BY ByteInt, WordInt DEF Wrap8, Wrap16

\* Two bytes make a word, and a word two bytes.
LEMMA PairWord == \A h, l \in Byte : Pair(h, l) \in Word16
  BY ByteInt, WordInt DEF Pair

\* The halves of a word are bytes.
LEMMA HiLoByte == \A w \in Word16 : Hi(w) \in Byte /\ Lo(w) \in Byte
  BY ByteInt, WordInt DEF Hi, Lo

\* Any set of bits makes a byte.
LEMMA ByteOfByte == \A S : ByteOf(S) \in Byte
  BY ByteInt DEF ByteOf

\* So do C's bitwise operators on bytes.
LEMMA BitwiseByte ==
  \A a, b : BitAnd(a, b) \in Byte /\ BitOr(a, b) \in Byte /\ BitXor(a, b) \in Byte
  BY ByteOfByte DEF BitAnd, BitOr, BitXor

\* 1 << n is a positive integer for every bit of a byte.
LEMMA WeightNat == \A n \in Bit : Weight[n] \in Int /\ 1 <= Weight[n]
<1> SUFFICES ASSUME NEW n \in Bit PROVE Weight[n] \in Int /\ 1 <= Weight[n]
  OBVIOUS
<1>1. n = 0 \/ n = 1 \/ n = 2 \/ n = 3 \/ n = 4 \/ n = 5 \/ n = 6 \/ n = 7
  BY DEF Bit
<1>2. QED BY <1>1 DEF Weight

\* A shift, cut back to a byte, is a byte for every shift count.
LEMMA ShiftsByte == \A a \in Byte, n \in Int : ShiftLeft(a, n) \in Byte /\ ShiftRight(a, n) \in Byte
<1> SUFFICES ASSUME NEW a \in Byte, NEW n \in Int
             PROVE  ShiftLeft(a, n) \in Byte /\ ShiftRight(a, n) \in Byte
  OBVIOUS
<1>1. CASE n \in Bit
  <2>1. PICK w \in Int : w = Weight[n] /\ 1 <= w
    BY <1>1, WeightNat
  <2>2. (a * w) % 256 \in Byte
    <3>1. a * w \in Int
      BY ByteInt
    <3>2. QED BY <3>1, WrapType DEF Wrap8
  <2>3. a \div w \in Byte
    <3>1. a \in Int /\ 0 <= a /\ a <= 255
      BY ByteInt
    <3>2. a \div w \in Int
      BY <2>1, <3>1
    <3>3. a = w * (a \div w) + (a % w) /\ 0 <= a % w /\ a % w \in Int
      BY <2>1, <3>1
    <3>4. 0 <= a \div w
      BY <2>1, <3>1
    <3>5. a \div w <= w * (a \div w)
      BY <2>1, <3>2, <3>4
    <3>6. QED BY <3>1, <3>2, <3>3, <3>4, <3>5, ByteInt
  <2>4. QED BY <1>1, <2>1, <2>2, <2>3 DEF ShiftLeft, ShiftRight
<1>2. CASE n \notin Bit
  BY <1>2, SmallBytes DEF ShiftLeft, ShiftRight
<1>3. QED BY <1>1, <1>2

-----------------------------------------------------------------------------
(***************************************************************************)
(* What the ALU returns.                                                   *)
(***************************************************************************)
\* Every operation whose result goes to ACC returns a byte.
LEMMA AluByte ==
  \A op \in AccOps, a, b \in Byte, c \in {0, 1} : Alu(op, a, b, c).val \in Byte
<1> SUFFICES ASSUME NEW op \in AccOps, NEW a \in Byte, NEW b \in Byte, NEW c \in {0, 1}
             PROVE  Alu(op, a, b, c).val \in Byte
  OBVIOUS
<1>1. a \in Int /\ b \in Int /\ (-b) % 8 \in Int
  BY ByteInt
<1>2. /\ Add(a, b).val \in Byte /\ Adc(a, b, c).val \in Byte /\ Sub(a, b).val \in Byte
  BY <1>1, WrapType DEF Add, Adc, Sub
<1>3. Sbc(a, b, c).val \in Byte
  <2>1. Wrap16(b - (1 - c)) \in Word16
    BY <1>1, WrapType
  <2>2. Lo(Wrap16(b - (1 - c))) \in Int
    BY <2>1, HiLoByte, ByteInt
  <2>3. QED BY <1>1, <2>2, WrapType DEF Sbc
<1>4. /\ Shl(a, b) \in Byte /\ Shr(a, b) \in Byte
      /\ Rol(a, b) \in Byte /\ Ror(a, b) \in Byte
  <2>1. b % 32 \in Int
    BY <1>1
  <2>2. QED BY <1>1, <2>1, ShiftsByte, BitwiseByte DEF Shl, Shr, Rol, Ror
<1>5. BitAnd(a, b) \in Byte /\ BitOr(a, b) \in Byte /\ BitXor(a, b) \in Byte
  BY BitwiseByte
<1>6. QED BY <1>2, <1>3, <1>4, <1>5 DEF Alu, AccOps

\* INC, DEC, NEG and NOT return a byte.
LEMMA UnaryByte == \A op \in UnaryOps, v \in Byte, c \in {0, 1} : Unary(op, v, c).val \in Byte
<1> SUFFICES ASSUME NEW op \in UnaryOps, NEW v \in Byte, NEW c \in {0, 1}
             PROVE  Unary(op, v, c).val \in Byte
  OBVIOUS
<1>1. Inc(v).val \in Byte /\ Dec(v).val \in Byte /\ Wrap8(-v) \in Byte
  BY ByteInt, WrapType DEF Inc, Dec
<1>2. BitNot(v) \in Byte
  BY ByteInt, Limits DEF BitNot
<1>3. QED BY <1>1, <1>2 DEF Unary, UnaryOps

\* INC, DEC, NEG and NOT on the HL pair return a word.
LEMMA UnaryHLWord ==
  \A op \in UnaryOps, w \in Word16, c \in {0, 1} : UnaryHL(op, w, c).val \in Word16
<1> SUFFICES ASSUME NEW op \in UnaryOps, NEW w \in Word16, NEW c \in {0, 1}
             PROVE  UnaryHL(op, w, c).val \in Word16
  OBVIOUS
<1>1. Wrap16(w + 1) \in Word16 /\ Wrap16(w - 1) \in Word16 /\ Wrap16(-w) \in Word16
  BY WordInt, WrapType
<1>2. UINT16_MAX - w \in Word16
  BY WordInt, Limits
<1>3. QED BY <1>1, <1>2 DEF UnaryHL, UnaryOps

\* ADDW, SUBW, MULW and DIVW return a word.
LEMMA WideWord == \A op \in WideOps, w, v \in Word16 : Wide(op, w, v) \in Word16
<1> SUFFICES ASSUME NEW op \in WideOps, NEW w \in Word16, NEW v \in Word16
             PROVE  Wide(op, w, v) \in Word16
  OBVIOUS
<1>1. w \in Int /\ 0 <= w /\ w <= 65535 /\ v \in Int /\ 0 <= v
  BY WordInt
<1>2. Wrap16(w + v) \in Word16 /\ Wrap16(w - v) \in Word16
  BY <1>1, WrapType
<1>3. Wrap16(256 * Wrap8(Hi(w) * v) + Lo(w) * v) \in Word16
  <2>1. Hi(w) \in Int /\ Lo(w) \in Int
    BY HiLoByte, ByteInt
  <2>2. Hi(w) * v \in Int /\ Lo(w) * v \in Int
    BY <1>1, <2>1
  <2>3. Wrap8(Hi(w) * v) \in Int
    BY <2>2, WrapType, ByteInt
  <2>4. QED BY <2>2, <2>3, WrapType
<1>4. ASSUME v # 0 PROVE w \div v \in Word16
  <2>1. w \div v \in Int
    BY <1>1, <1>4
  <2>2. w = v * (w \div v) + (w % v) /\ 0 <= w % v /\ w % v \in Int
    BY <1>1, <1>4
  <2>3. 0 <= w \div v
    BY <1>1, <1>4
  <2>4. w \div v <= v * (w \div v)
    BY <1>1, <1>4, <2>1, <2>3
  <2>5. QED BY <1>1, <2>1, <2>2, <2>3, <2>4, WordInt
<1>5. QED BY <1>2, <1>3, <1>4, SmallBytes DEF Wide, WideOps

-----------------------------------------------------------------------------
(***************************************************************************)
(* Operands.                                                               *)
(***************************************************************************)
\* A memory access returns a byte, of a cell never written too.
LEMMA MemoryByte == ASSUME TypeOK PROVE \A a : MEMORY(a) \in Byte
  BY SmallBytes DEF TypeOK, MEMORY

\* Operand bytes are bytes, those read outside the memory included.
LEMMA FetchType == ASSUME TypeOK
                   PROVE  \A i : Fetch(i) \subseteq Byte /\ FetchWord(i) \subseteq Word16
<1>1. \A i : Fetch(i) \subseteq Byte
  BY MemoryByte, StrayAssumption DEF Fetch
<1>2. QED BY <1>1, PairWord DEF FetchWord

\* HL is a word, each register a byte and the carry 0 or 1.
LEMMA RegisterType ==
  ASSUME TypeOK
  PROVE  /\ reg.ACC \in Byte /\ reg.H \in Byte /\ reg.L \in Byte /\ reg.R0 \in Byte
         /\ HL \in Word16
         /\ CARRY \in {0, 1}
         /\ \A n \in Int : After(n) \in Word16
<1>1. reg.ACC \in Byte /\ reg.H \in Byte /\ reg.L \in Byte /\ reg.R0 \in Byte
  BY DEF TypeOK, Register
<1>2. HL \in Word16
  BY <1>1, PairWord DEF HL
<1>3. \A n \in Int : After(n) \in Word16
  BY WordInt, WrapType DEF TypeOK, After
<1>4. QED BY <1>1, <1>2, <1>3 DEF CARRY

\* The length of an instruction is an integer.
LEMMA LengthInt == \A mode : Length(mode) \in Int
  BY DEF Length

\* Where an operand may be: a constant, a memory cell, a byte of the stack or a register.
ConstPlace(S) == [space : {"const"}, at : S]
CellPlace     == [space : {"mem"}, at : Word16] \cup [space : {"stack"}, at : Byte]
                   \cup [space : {"reg"}, at : Register]

\* What a mode designates: a place that can be assigned to, or a constant.
LEMMA OperandType ==
  ASSUME TypeOK
  PROVE  /\ \A m \in RValue : Operand(m) \subseteq ConstPlace(Byte) \cup CellPlace
         /\ \A m \in LValue : Operand(m) \subseteq CellPlace
         /\ \A m \in WValue : Operand(m) \subseteq ConstPlace(Word16) \cup CellPlace
<1>1. Operand("I") \subseteq ConstPlace(Byte) /\ Operand("OPC") \subseteq ConstPlace(Byte)
  BY FetchType DEF Operand, ConstPlace
<1>2. Operand("I16") \subseteq ConstPlace(Word16)
  BY FetchType DEF Operand, ConstPlace
<1>3. Operand("IM") \subseteq CellPlace
  BY FetchType DEF Operand, CellPlace
<1>4. Operand("ML") \subseteq CellPlace
  <2>1. reg.L \in Word16
    BY RegisterType, ByteInt, WordInt
  <2>2. QED BY <2>1 DEF Operand, CellPlace
<1>5. Operand("MHL") \subseteq CellPlace
  BY RegisterType DEF Operand, CellPlace
<1>6. Operand("BPI") \subseteq CellPlace
  <2>1. \A b \in Fetch(After(Length("BPI")) - 1) : Wrap8(bp - b) \in Byte
    BY FetchType, ByteInt, WrapType DEF TypeOK
  <2>2. QED BY <2>1 DEF Operand, CellPlace
<1>7. \A r \in Register : Operand(r) \subseteq CellPlace
  BY DEF Operand, CellPlace, Register
<1>8. QED BY <1>1, <1>2, <1>3, <1>4, <1>5, <1>6, <1>7 DEF RValue, LValue, WValue, Register

\* Reading an operand gives a byte, or a word for the wide operations.
LEMMA ReadType ==
  ASSUME TypeOK
  PROVE  /\ \A x \in ConstPlace(Byte) \cup CellPlace : Read(x) \in Byte
         /\ \A x \in ConstPlace(Word16) \cup CellPlace : Read(x) \in Word16
<1>1. \A x \in CellPlace : Read(x) \in Byte
  BY MemoryByte DEF CellPlace, Read, TypeOK
<1>2. \A S, x : x \in ConstPlace(S) => Read(x) \in S
  BY DEF ConstPlace, Read
<1>3. QED BY <1>1, <1>2, ByteInt, WordInt

\* Typing of the data state, the part of TypeOK that Assign keeps.
DataOK == /\ reg \in [Register -> Byte]
          /\ stack \in [Byte -> Byte]
          /\ DOMAIN memory \subseteq Word16
          /\ \A a \in DOMAIN memory : memory[a] \in Byte

\* Assigning bytes to ACC and to a place keeps the data well typed.
LEMMA AssignType ==
  ASSUME TypeOK, NEW acc \in Byte, NEW v \in Byte, NEW x \in CellPlace, Assign(acc, x, v)
  PROVE  DataOK'
<1>1. [reg EXCEPT !.ACC = acc] \in [Register -> Byte]
  BY DEF TypeOK, Register
<1>2. CASE x \in [space : {"reg"}, at : Register]
  BY <1>1, <1>2 DEF TypeOK, DataOK, Assign
<1>3. CASE x \in [space : {"mem"}, at : Word16]
  BY <1>1, <1>3 DEF TypeOK, DataOK, Assign, Poked
<1>4. CASE x \in [space : {"stack"}, at : Byte]
  BY <1>1, <1>4 DEF TypeOK, DataOK, Assign
<1>5. QED BY <1>2, <1>3, <1>4 DEF CellPlace

\* Setting or unsetting a flag keeps FLAGS within a byte.
LEMMA FlagsType ==
  \A fs \in SUBSET Bit : \A v, on :
    /\ ZeroSign(fs, v) \in SUBSET Bit
    /\ \A f \in {CF, ZF, SF, TF, OF} : Update(fs, f, on) \in SUBSET Bit
<1>1. {CF, ZF, SF, TF, OF} \subseteq Bit
  BY DEF CF, ZF, SF, TF, OF, Bit
<1>2. QED BY <1>1 DEF ZeroSign, Update

-----------------------------------------------------------------------------
(***************************************************************************)
(* Type correctness.  One lemma for the initial states, one for the steps  *)
(* of an instruction, with a step of the proof per action.                 *)
(***************************************************************************)
\* The registers and the stack start as bytes.
LEMMA InitialData == InitRegister \in [Register -> Byte] /\ InitStack \in [Byte -> Byte]
  BY SmallBytes DEF InitRegister, InitStack

\* loadProgram fills cells of the 64 KiB block with bytes.
LEMMA LoadType ==
  ASSUME NEW p \in Programs
  PROVE  /\ DOMAIN loadProgram(p) \subseteq Word16
         /\ \A a \in DOMAIN loadProgram(p) : loadProgram(p)[a] \in Byte
<1>1. p \in Seq(Byte) /\ Len(p) \in Nat
  BY ProgramsAssumption
<1> DEFINE n == PROGRAM_START + Len(p)
<1>2. Wrap16(n) \in Word16 /\ Wrap16(n) <= n
  <2>1. n \in Int /\ 0 <= n
    BY <1>1 DEF PROGRAM_START
  <2>2. n % 65536 <= n
    BY <2>1
  <2>3. QED BY <2>1, <2>2, WrapType DEF Wrap16
<1>3. \A a \in PROGRAM_START .. Wrap16(n) - 1 :
        a \in Word16 /\ a - PROGRAM_START + 1 \in 1 .. Len(p)
  <2> SUFFICES ASSUME NEW a \in PROGRAM_START .. Wrap16(n) - 1
               PROVE  a \in Word16 /\ a - PROGRAM_START + 1 \in 1 .. Len(p)
    OBVIOUS
  <2>1. a \in Int /\ 256 <= a /\ a <= Wrap16(n) - 1
    BY <1>2, WordInt DEF PROGRAM_START
  <2>2. QED BY <2>1, <1>1, <1>2, WordInt DEF PROGRAM_START
<1>4. \A k \in 1 .. Len(p) : p[k] \in Byte
  BY <1>1
<1>5. QED BY <1>3, <1>4 DEF loadProgram

\* initCpu and loadProgram establish the type invariant.
LEMMA InitTypeOK == Init => TypeOK
<1> SUFFICES ASSUME Init PROVE TypeOK
  OBVIOUS
<1>1. PICK p \in Programs : memory = loadProgram(p)
  BY DEF Init, initCpu
<1>2. QED BY <1>1, LoadType, InitialData, SmallBytes DEF Init, initCpu, TypeOK, State

\* The bytes the stack hands back.
LEMMA TopByte == ASSUME TypeOK PROVE /\ \A n \in Int : Top(n) \in Byte
                                     /\ ReturnAddress \in Word16
<1>1. \A n \in Int : Top(n) \in Byte
  BY ByteInt, WrapType DEF TypeOK, Top
<1>2. QED BY <1>1, PairWord DEF ReturnAddress

\* SetHL splits a word over two registers.
LEMMA SetHLType == ASSUME TypeOK, NEW w \in Word16, SetHL(w) PROVE reg' \in [Register -> Byte]
  BY HiLoByte DEF TypeOK, SetHL, Register

MachineOK == /\ pc \in Word16
             /\ flags \subseteq Bit
             /\ sp \in Byte /\ bp \in Byte
             /\ DataOK

\* Every handler of OP_TABLE leaves every register within its width.
LEMMA ExecuteType == ASSUME TypeOK, Execute PROVE MachineOK'
<1> USE DEF TypeOK, MachineOK, DataOK
<1>1. /\ After(1) \in Word16 /\ After(2) \in Word16 /\ After(3) \in Word16
      /\ \A m : After(Length(m)) \in Word16
  BY RegisterType, LengthInt
<1>2. /\ sp \in Int /\ bp \in Int
      /\ \A k \in Int : Wrap8(k) \in Byte
  BY ByteInt, WrapType
<1>3. CASE NOOP
  BY <1>1, <1>3 DEF NOOP
<1>4. CASE HALT
  BY <1>4 DEF HALT
<1>5. CASE SetFlag
  <2>1. {OF, TF} \subseteq Bit
    BY DEF OF, TF, Bit
  <2>2. flags' \subseteq Bit
    BY <1>5, <2>1 DEF SetFlag, FlagOps
  <2>3. QED BY <1>1, <1>5, <2>2 DEF SetFlag
<1>6. CASE CLRA
  <2>1. reg' \in [Register -> Byte]
    BY <1>6, SmallBytes DEF CLRA, Register
  <2>2. flags' \subseteq Bit
    BY <1>6 DEF CLRA, ZF, Bit
  <2>3. QED BY <1>1, <1>6, <2>1, <2>2 DEF CLRA
<1>7. CASE RESET
  BY <1>7, InitialData, SmallBytes DEF RESET
<1>8. CASE AccOp
  <2>1. PICK op \in AccOps, p \in Operand(Mode) :
          LET r == Alu(op, reg.ACC, Read(p), CARRY)
          IN /\ reg' = [reg EXCEPT !.ACC = r.val]
             /\ flags' = Update(ZeroSign(flags, r.val), CF, r.cf)
    BY <1>8 DEF AccOp
  <2>2. Mode \in RValue
    BY <1>8 DEF AccOp
  <2>3. Read(p) \in Byte
    BY <2>2, OperandType, ReadType
  <2>4. Alu(op, reg.ACC, Read(p), CARRY).val \in Byte
    BY <2>3, AluByte, RegisterType
  <2>5. reg' \in [Register -> Byte]
    BY <2>1, <2>4 DEF Register
  <2>6. flags' \subseteq Bit
    BY <2>1, FlagsType
  <2>7. QED BY <1>1, <1>8, <2>5, <2>6 DEF AccOp
<1>9. CASE CMP
  <2>1. flags' \subseteq Bit
    BY <1>9, FlagsType DEF CMP
  <2>2. QED BY <1>1, <1>9, <2>1 DEF CMP
<1>10. CASE STORE
  <2>1. PICK p \in Operand(Mode) : Assign(reg.ACC, p, reg.ACC)
    BY <1>10 DEF STORE
  <2>2. p \in CellPlace
    BY <1>10, OperandType DEF STORE
  <2>3. DataOK'
    BY <2>1, <2>2, AssignType, RegisterType
  <2>4. flags' \subseteq Bit
    BY <1>10, FlagsType DEF STORE
  <2>5. QED BY <1>1, <1>10, <2>3, <2>4 DEF STORE
<1>11. CASE XCH
  <2>1. PICK p \in Operand(Mode) : /\ Assign(Read(p), p, reg.ACC)
                                   /\ flags' = ZeroSign(flags, Read(p))
    BY <1>11 DEF XCH
  <2>2. p \in CellPlace
    BY <1>11, OperandType DEF XCH
  <2>3. DataOK'
    BY <2>1, <2>2, AssignType, ReadType, RegisterType
  <2>4. flags' \subseteq Bit
    BY <2>1, FlagsType
  <2>5. QED BY <1>1, <1>11, <2>3, <2>4 DEF XCH
<1>12. CASE InPlace
  <2>1. PICK op \in UnaryOps, p \in Operand(Mode) :
          LET r == Unary(op, Read(p), CARRY)
          IN /\ Assign(reg.ACC, p, r.val)
             /\ flags' = Update(ZeroSign(flags, r.val), CF, r.cf)
    BY <1>12 DEF InPlace
  <2>2. p \in CellPlace
    BY <1>12, OperandType DEF InPlace
  <2>3. Unary(op, Read(p), CARRY).val \in Byte
    BY <2>2, ReadType, UnaryByte, RegisterType
  <2>4. DataOK'
    BY <2>1, <2>2, <2>3, AssignType, RegisterType
  <2>5. flags' \subseteq Bit
    BY <2>1, FlagsType
  <2>6. QED BY <1>1, <1>12, <2>4, <2>5 DEF InPlace
<1>13. CASE InPlaceHL
  <2>1. PICK op \in UnaryOps :
          LET r == UnaryHL(op, HL, CARRY)
          IN /\ SetHL(r.val)
             /\ flags' = Update(Update(Update(flags, ZF, r.val = 0), SF, Lo(r.val) >= 128), CF, r.cf)
    BY <1>13 DEF InPlaceHL
  <2>2. reg' \in [Register -> Byte]
    <3>1. UnaryHL(op, HL, CARRY).val \in Word16
      BY UnaryHLWord, RegisterType
    <3>2. QED BY <2>1, <3>1, SetHLType
  <2>3. flags' \subseteq Bit
    BY <2>1, FlagsType
  <2>4. QED BY <1>1, <1>13, <2>2, <2>3 DEF InPlaceHL
<1>14. CASE OPW
  <2>1. PICK op \in WideOps, p \in Operand(Mode) :
          LET w == Wide(op, HL, Read(p))
          IN /\ SetHL(w)
             /\ flags' = Update(Update(flags, ZF, w = 0), SF, Hi(w) >= 128)
    BY <1>14 DEF OPW
  <2>2. Read(p) \in Word16
    BY <1>14, OperandType, ReadType DEF OPW
  <2>3. reg' \in [Register -> Byte]
    <3>1. Wide(op, HL, Read(p)) \in Word16
      BY <2>2, WideWord, RegisterType
    <3>2. QED BY <2>1, <3>1, SetHLType
  <2>4. flags' \subseteq Bit
    BY <2>1, FlagsType, ZenonT(60)
  <2>5. QED BY <1>1, <1>14, <2>3, <2>4 DEF OPW
<1>15. CASE Index
  <2>1. reg' \in [Register -> Byte]
    <3>1. ASSUME NEW b \in Byte, \/ reg' = [reg EXCEPT !.L = b]
                                 \/ reg' = [reg EXCEPT !.L = Wrap8(@ + b)]
          PROVE  reg' \in [Register -> Byte]
      <4>1. Wrap8(reg.L + b) \in Byte
        BY RegisterType, ByteInt, WrapType
      <4>2. QED BY <3>1, <4>1 DEF Register
    <3>2. ASSUME NEW w \in Word16, SetHL(w) \/ SetHL(Wrap16(HL + w))
          PROVE  reg' \in [Register -> Byte]
      <4>1. Wrap16(HL + w) \in Word16
        BY RegisterType, WordInt, WrapType
      <4>2. QED BY <3>2, <4>1, SetHLType
    <3>3. \/ \E b \in Byte : reg' = [reg EXCEPT !.L = b] \/ reg' = [reg EXCEPT !.L = Wrap8(@ + b)]
          \/ \E w \in Word16 : SetHL(w) \/ SetHL(Wrap16(HL + w))
      BY <1>15, FetchType DEF Index
    <3>4. QED BY <3>1, <3>2, <3>3
  <2>2. QED BY <1>1, <1>15, <2>1 DEF Index
<1>16. CASE JMP
  BY <1>16, FetchType DEF JMP
<1>17. CASE Jcc
  BY <1>1, <1>17, FetchType DEF Jcc
<1>18. CASE JEXT
  BY <1>1, <1>18, FetchType DEF JEXT
<1>19. CASE PUSH
  <2> DEFINE val == CASE Mode = "I"     -> MEMORY(After(1))
                      [] Mode = "BP"    -> bp
                      [] Mode = "FLAGS" -> ByteOf(flags)
                      [] Mode \in Register -> reg[Mode]
  <2>1. val \in Byte
    <3>1. Mode \in {"I", "BP", "FLAGS"} \cup Register
      BY <1>19 DEF PUSH
    <3>2. \A m \in Register : reg[m] \in Byte
      OBVIOUS
    <3>3. QED BY <3>1, <3>2, MemoryByte, ByteOfByte
  <2>2. stack' = [stack EXCEPT ![sp] = val] /\ flags' = ZeroSign(flags, val)
    BY <1>19 DEF PUSH
  <2> HIDE DEF val
  <2>3. stack' \in [Byte -> Byte]
    BY <2>1, <2>2
  <2>4. flags' \subseteq Bit
    BY <2>2, FlagsType
  <2>5. QED BY <1>1, <1>2, <1>19, <2>3, <2>4 DEF PUSH
<1>20. CASE POP
  <2>1. sp' \in Byte /\ pc' \in Word16
    BY <1>1, <1>2, <1>20 DEF POP
  <2>2. Top(1) \in Byte
    BY TopByte
  <2>3. flags' \subseteq Bit
    BY <1>20, FlagsType DEF POP, BitsOf
  <2>4. DataOK' /\ bp' \in Byte
    <3>1. ASSUME Mode \in LValue, NEW p \in Operand(Mode), Assign(reg.ACC, p, Top(1))
          PROVE  DataOK'
      BY <2>2, <3>1, OperandType, AssignType, RegisterType
    <3>2. QED BY <1>20, <2>2, <3>1 DEF POP
  <2>5. QED BY <2>1, <2>3, <2>4
<1>21. CASE CALL
  <2>1. Hi(After(3)) \in Byte /\ Lo(After(3)) \in Byte
    BY <1>1, HiLoByte
  <2>2. stack' \in [Byte -> Byte]
    BY <1>21, <2>1 DEF CALL
  <2>3. QED BY <1>2, <1>21, <2>2, FetchType DEF CALL
<1>22. CASE RET
  BY <1>2, <1>22, TopByte DEF RET
<1>23. CASE RET_I
  <2>1. \A b \in Byte : Wrap8(sp - 2 - b) \in Byte
    BY <1>2, ByteInt
  <2>2. sp' \in Byte
    BY <1>23, <2>1, FetchType DEF RET_I
  <2>3. QED BY <1>23, <2>2, TopByte DEF RET_I
<1>24. CASE ENTER
  <2>1. \A b \in Byte : Wrap8(sp + 1 + b) \in Byte
    BY <1>2, ByteInt
  <2>2. sp' \in Byte
    BY <1>24, <2>1, FetchType DEF ENTER
  <2>3. QED BY <1>1, <1>2, <1>24, <2>2 DEF ENTER
<1>25. CASE LEAVE
  <2>1. Wrap8(bp - 1) \in Byte
    BY <1>2
  <2>2. sp' \in Byte /\ bp' \in Byte
    BY <1>25, <2>1 DEF LEAVE
  <2>3. QED BY <1>1, <1>25, <2>2 DEF LEAVE
<1>26. QED
  BY <1>3, <1>4, <1>5, <1>6, <1>7, <1>8, <1>9, <1>10, <1>11, <1>12, <1>13, <1>14, <1>15,
     <1>16, <1>17, <1>18, <1>19, <1>20, <1>21, <1>22, <1>23, <1>24, <1>25 DEF Execute

\* Every register keeps to the width its C type gives it and every address ever
\* written lies inside the 64 KiB block, whatever the guest does: initCpu and
\* loadProgram begin so, and each handler of OP_TABLE, runCpu's prompt and a
\* trap leave it so.
THEOREM TypeCorrect == Spec => []TypeOK
<1>1. ASSUME TypeOK, [Next]_vars PROVE TypeOK'
  <2>1. CASE stepCpu
    <3>1. MachineOK'
      BY <1>1, <2>1, ExecuteType DEF stepCpu
    <3>2. run' \in State
      BY <2>1 DEF stepCpu, AfterStep, State
    <3>3. QED BY <3>1, <3>2 DEF MachineOK, DataOK, TypeOK, State
  <2>2. CASE Answer
    BY <1>1, <2>2 DEF Answer, TypeOK, State
  <2>3. CASE Crash
    BY <1>1, <2>3 DEF Crash, TypeOK, State
  <2>4. CASE UNCHANGED vars
    BY <1>1, <2>4 DEF vars, TypeOK, State
  <2>5. QED BY <1>1, <2>1, <2>2, <2>3, <2>4 DEF Next
<1>2. QED BY <1>1, InitTypeOK, PTL DEF Spec

-----------------------------------------------------------------------------
(***************************************************************************)
(* The carry.  The opcode at PC decides which action is taken: what the    *)
(* following lemma says of the opcodes the two properties are about.       *)
(***************************************************************************)
LEMMA Dispatch ==
  ASSUME Execute
  PROVE  /\ Executing("ADD") \/ Executing("ADC") => AccOp
         /\ Executing("INC") => InPlace \/ InPlaceHL
<1> USE DEF Executing
<1>1. ASSUME NOOP \/ HALT \/ CLRA \/ RESET \/ CMP \/ STORE \/ XCH \/ Index
      PROVE  ~(Executing("ADD") \/ Executing("ADC") \/ Executing("INC"))
  BY <1>1 DEF NOOP, HALT, CLRA, RESET, CMP, STORE, XCH, Index
<1>2. ASSUME JMP \/ JEXT \/ PUSH \/ POP \/ CALL \/ RET \/ RET_I \/ ENTER \/ LEAVE
      PROVE  ~(Executing("ADD") \/ Executing("ADC") \/ Executing("INC"))
  BY <1>2 DEF JMP, JEXT, PUSH, POP, CALL, RET, RET_I, ENTER, LEAVE
<1>3. ASSUME SetFlag \/ Jcc \/ OPW
      PROVE  ~(Executing("ADD") \/ Executing("ADC") \/ Executing("INC"))
  BY <1>3 DEF SetFlag, FlagOps, Jcc, Taken, OPW, WideOps
<1>4. ASSUME InPlace \/ InPlaceHL
      PROVE  ~(Executing("ADD") \/ Executing("ADC"))
  BY <1>4 DEF InPlace, InPlaceHL, UnaryOps
<1>5. ASSUME AccOp
      PROVE  ~Executing("INC")
  BY <1>5 DEF AccOp, AccOps
<1>6. QED BY <1>1, <1>2, <1>3, <1>4, <1>5 DEF Execute

\* A step that executes an addition or an increment is not a crash, which takes
\* a shift or a wide operation, nor an answer.
LEMMA NoCrash ==
  ASSUME Next, Executing("ADD") \/ Executing("ADC") \/ Executing("INC")
  PROVE  Execute
<1> USE DEF Executing
<1>1. ~Answer
  BY DEF Answer
<1>2. ~Crash
  BY DEF Crash, Undefined, AccOps, WideOps
<1>3. QED BY <1>1, <1>2 DEF Next, stepCpu

\* What Assign has written is what is read back.
LEMMA AssignReads ==
  ASSUME TypeOK, NEW acc \in Byte, NEW v \in Byte, NEW x \in CellPlace, Assign(acc, x, v)
  PROVE  Read(x)' = v
<1>1. CASE x \in [space : {"reg"}, at : Register]
  BY <1>1 DEF TypeOK, Assign, Read
<1>2. CASE x \in [space : {"mem"}, at : Word16]
  BY <1>2 DEF TypeOK, Assign, Read, Poked, MEMORY
<1>3. CASE x \in [space : {"stack"}, at : Byte]
  BY <1>3 DEF TypeOK, Assign, Read
<1>4. QED BY <1>1, <1>2, <1>3 DEF CellPlace

\* What the additions return, one field at a time.
LEMMA SumFields ==
  \A a, b, c :
    /\ Add(a, b).val = Wrap8(a + b)
    /\ Add(a, b).cf <=> (Wrap8(a + b) < b)
    /\ Adc(a, b, c).val = Wrap8(a + b + c)
    /\ Adc(a, b, c).cf <=> (a + b + c >= 256)
    /\ Inc(a).val = Wrap8(a + 1)
    /\ Inc(a).cf <=> (Wrap8(a + 1) = 0)
<1> SUFFICES ASSUME NEW a, NEW b, NEW c
             PROVE  /\ Add(a, b).val = Wrap8(a + b)
                    /\ Add(a, b).cf <=> (Wrap8(a + b) < b)
                    /\ Adc(a, b, c).val = Wrap8(a + b + c)
                    /\ Adc(a, b, c).cf <=> (a + b + c >= 256)
                    /\ Inc(a).val = Wrap8(a + 1)
                    /\ Inc(a).cf <=> (Wrap8(a + 1) = 0)
  OBVIOUS
<1>1. Add(a, b).val = Wrap8(a + b) /\ (Add(a, b).cf <=> (Wrap8(a + b) < b))
  BY DEF Add
<1>2. Adc(a, b, c).val = Wrap8(a + b + c) /\ (Adc(a, b, c).cf <=> (a + b + c >= 256))
  BY DEF Adc
<1>3. Inc(a).val = Wrap8(a + 1) /\ (Inc(a).cf <=> (Wrap8(a + 1) = 0))
  BY DEF Inc
<1>4. QED BY <1>1, <1>2, <1>3

\* The three ways of finding a carry all give the ninth bit of the sum.
LEMMA NinthBit ==
  \A a, b \in Byte, c \in {0, 1} :
    /\ (IF Wrap8(a + b) < b THEN 256 ELSE 0) + Wrap8(a + b) = a + b
    /\ (IF a + b + c >= 256 THEN 256 ELSE 0) + Wrap8(a + b + c) = a + b + c
    /\ (IF Wrap8(a + 1) = 0 THEN 256 ELSE 0) + Wrap8(a + 1) = a + 1
<1> SUFFICES ASSUME NEW a \in Int, 0 <= a, a <= 255, NEW b \in Int, 0 <= b, b <= 255,
                    NEW c \in {0, 1}
             PROVE  /\ (IF Wrap8(a + b) < b THEN 256 ELSE 0) + Wrap8(a + b) = a + b
                    /\ (IF a + b + c >= 256 THEN 256 ELSE 0) + Wrap8(a + b + c) = a + b + c
                    /\ (IF Wrap8(a + 1) = 0 THEN 256 ELSE 0) + Wrap8(a + 1) = a + 1
  BY ByteInt
<1>1. (IF Wrap8(a + b) < b THEN 256 ELSE 0) + Wrap8(a + b) = a + b
  BY DEF Wrap8
<1>2. (IF a + b + c >= 256 THEN 256 ELSE 0) + Wrap8(a + b + c) = a + b + c
  BY DEF Wrap8
<1>3. (IF Wrap8(a + 1) = 0 THEN 256 ELSE 0) + Wrap8(a + 1) = a + 1
  BY DEF Wrap8
<1>4. QED BY <1>1, <1>2, <1>3

\* CF after UPDATE_FLAGS(cf) is the value it was given.
LEMMA UpdateCarry == \A fs, on : (CF \in Update(fs, CF, on)) <=> on
  BY DEF Update

\* ADD, ADC and INC leave in CF the ninth bit of the exact sum, for every
\* operand in every addressing mode.
THEOREM SumsExact == Spec => SumsAreExact
<1> DEFINE cf == IF CF \in flags' THEN 256 ELSE 0
           Sum(c) == \E p \in Operand(Mode) : cf + reg'.ACC = reg.ACC + Read(p) + c
<1>1. ASSUME TypeOK, Next, Executing("ADD") \/ Executing("ADC")
      PROVE  /\ Executing("ADD") => Sum(0)
             /\ Executing("ADC") => Sum(CARRY)
  <2>1. AccOp
    BY <1>1, NoCrash, Dispatch
  <2>2. PICK op \in AccOps, p \in Operand(Mode) :
          LET r == Alu(op, reg.ACC, Read(p), CARRY)
          IN /\ Executing(op)
             /\ reg' = [reg EXCEPT !.ACC = r.val]
             /\ flags' = Update(ZeroSign(flags, r.val), CF, r.cf)
    BY <2>1 DEF AccOp
  <2>3. Read(p) \in Byte /\ reg.ACC \in Byte /\ CARRY \in {0, 1}
    BY <1>1, <2>1, OperandType, ReadType, RegisterType DEF AccOp
  <2> DEFINE r == Alu(op, reg.ACC, Read(p), CARRY)
  <2>4. reg'.ACC = r.val
    BY <1>1, <2>2 DEF TypeOK, Register
  <2>5. op = "ADD" \/ op = "ADC"
    BY <1>1, <2>2 DEF Executing
  <2>6. CASE op = "ADD"
    <3>1. r = Add(reg.ACC, Read(p))
      BY <2>6 DEF Alu
    <3>2. CF \in flags' <=> Wrap8(reg.ACC + Read(p)) < Read(p)
      <4>1. CF \in flags' <=> r.cf
        BY <2>2, UpdateCarry
      <4>2. Add(reg.ACC, Read(p)).cf <=> (Wrap8(reg.ACC + Read(p)) < Read(p))
        BY SumFields
      <4>3. QED BY <3>1, <4>1, <4>2
    <3>3. Sum(0)
      <4>1. cf + reg'.ACC = reg.ACC + Read(p)
        <5>1. reg'.ACC = Wrap8(reg.ACC + Read(p))
          BY <2>4, <3>1, SumFields
        <5>2. QED BY <2>3, <3>2, <5>1, NinthBit
      <4>2. reg.ACC + Read(p) + 0 = reg.ACC + Read(p)
        BY <2>3, ByteInt
      <4>3. QED BY <4>1, <4>2
    <3>4. QED BY <2>2, <2>6, <3>3 DEF Executing
  <2>7. CASE op = "ADC"
    <3>1. r = Adc(reg.ACC, Read(p), CARRY)
      BY <2>7 DEF Alu
    <3>2. CF \in flags' <=> reg.ACC + Read(p) + CARRY >= 256
      <4>1. CF \in flags' <=> r.cf
        BY <2>2, UpdateCarry
      <4>2. QED BY <3>1, <4>1, SumFields
    <3>3. Sum(CARRY)
      <4>1. cf + reg'.ACC = reg.ACC + Read(p) + CARRY
        <5>1. reg'.ACC = Wrap8(reg.ACC + Read(p) + CARRY)
          BY <2>4, <3>1, SumFields
        <5>2. QED BY <2>3, <3>2, <5>1, NinthBit
      <4>2. QED BY <4>1
    <3>4. QED BY <2>2, <2>7, <3>3 DEF Executing
  <2>8. QED BY <2>5, <2>6, <2>7
<1>2. ASSUME TypeOK, Next, Executing("INC")
      PROVE  IF Mode = "HL" THEN 256 * cf + HL' = HL + 1
                            ELSE \E p \in Operand(Mode) : cf + Read(p)' = Read(p) + 1
  <2>1. CASE InPlace
    <3>1. PICK op \in UnaryOps, p \in Operand(Mode) :
            LET r == Unary(op, Read(p), CARRY)
            IN /\ Executing(op)
               /\ Assign(reg.ACC, p, r.val)
               /\ flags' = Update(ZeroSign(flags, r.val), CF, r.cf)
      BY <2>1 DEF InPlace
    <3>2. p \in CellPlace /\ Read(p) \in Byte /\ reg.ACC \in Byte
      BY <1>2, <2>1, OperandType, ReadType, RegisterType DEF InPlace
    <3>3. Unary(op, Read(p), CARRY) = Inc(Read(p))
      BY <1>2, <3>1 DEF Executing, Unary
    <3>4. Inc(Read(p)).val \in Byte
      BY <3>2, ByteInt, WrapType DEF Inc
    <3>5. Read(p)' = Inc(Read(p)).val
      BY <1>2, <3>1, <3>2, <3>3, <3>4, AssignReads
    <3>6. CF \in flags' <=> Wrap8(Read(p) + 1) = 0
      <4>1. CF \in flags' <=> Unary(op, Read(p), CARRY).cf
        BY <3>1, UpdateCarry
      <4>2. QED BY <3>3, <4>1, SumFields
    <3>7. (IF Wrap8(Read(p) + 1) = 0 THEN 256 ELSE 0) + Wrap8(Read(p) + 1) = Read(p) + 1
      BY <3>2, NinthBit
    <3>8. cf + Read(p)' = Read(p) + 1
      BY <3>5, <3>6, <3>7, SumFields
    <3>9. Mode # "HL"
      BY <2>1 DEF InPlace, LValue, RValue, Register
    <3>10. QED BY <3>8, <3>9
  <2>2. CASE InPlaceHL
    <3> DEFINE w == Wrap16(HL + 1)
    <3>1. /\ SetHL(w)
          /\ CF \in flags' <=> w = 0
      <4>1. PICK op \in UnaryOps :
              LET r == UnaryHL(op, HL, CARRY)
              IN /\ Executing(op)
                 /\ SetHL(r.val)
                 /\ flags' = Update(Update(Update(flags, ZF, r.val = 0),
                                           SF, Lo(r.val) >= 128), CF, r.cf)
        BY <2>2 DEF InPlaceHL
      <4>2. op = "INC"
        BY <1>2, <4>1 DEF Executing
      <4>3. UnaryHL("INC", HL, CARRY).val = w /\ (UnaryHL("INC", HL, CARRY).cf <=> w = 0)
        BY DEF UnaryHL
      <4>4. CF \in flags' <=> UnaryHL(op, HL, CARRY).cf
        BY <4>1, UpdateCarry
      <4>5. QED BY <4>1, <4>2, <4>3, <4>4
    <3>2. reg'.H = Hi(w) /\ reg'.L = Lo(w)
      BY <1>2, <3>1 DEF SetHL, TypeOK, Register
    <3>3. HL \in Word16 /\ w \in Word16
      BY <1>2, RegisterType, WordInt, WrapType
    <3>4. HL' = w
      <4>1. Pair(Hi(w), Lo(w)) = w
        BY <3>3, WordInt DEF Pair, Hi, Lo
      <4>2. QED BY <3>2, <4>1 DEF HL
    <3>5. 256 * (IF w = 0 THEN 256 ELSE 0) + w = HL + 1
      BY <3>3, WordInt DEF Wrap16
    <3>6. Mode = "HL"
      BY <2>2 DEF InPlaceHL
    <3>7. QED BY <3>1, <3>4, <3>5, <3>6
  <2>3. QED BY <1>2, <2>1, <2>2, NoCrash, Dispatch
<1>3. QED BY <1>1, <1>2, TypeCorrect, PTL DEF Spec, SumsAreExact

-----------------------------------------------------------------------------
\* The operations that are not arithmetic hand the carry through.
LEMMA CarryThrough ==
  /\ \A op \in AccOps \ {"ADD", "ADC", "SUB", "SBC"} : \A a, b, c : Alu(op, a, b, c).cf <=> c = 1
  /\ \A op \in UnaryOps \ {"INC", "DEC"} : \A v, c :
       (Unary(op, v, c).cf <=> c = 1) /\ (UnaryHL(op, v, c).cf <=> c = 1)
<1>1. ASSUME NEW op \in AccOps \ {"ADD", "ADC", "SUB", "SBC"}, NEW a, NEW b, NEW c
      PROVE  Alu(op, a, b, c).cf <=> c = 1
  BY <1>1 DEF Alu, AccOps
<1>2. ASSUME NEW op \in UnaryOps \ {"INC", "DEC"}, NEW v, NEW c
      PROVE  (Unary(op, v, c).cf <=> c = 1) /\ (UnaryHL(op, v, c).cf <=> c = 1)
  BY <1>2 DEF Unary, UnaryHL, UnaryOps
<1>3. QED BY <1>1, <1>2

\* Setting ZF and SF, or the CF of an operation that hands it through.
LEMMA CarryKept ==
  /\ \A fs, v : CF \in ZeroSign(fs, v) <=> CF \in fs
  /\ \A fs, on : /\ CF \in Update(fs, ZF, on) <=> CF \in fs
                 /\ CF \in Update(fs, SF, on) <=> CF \in fs
  /\ CARRY = 1 <=> CF \in flags
  BY DEF ZeroSign, Update, CF, ZF, SF, CARRY

\* The arithmetic operations, POP FLAGS and RESET are the only steps that
\* change CF: every other instruction a guest puts between two bytes of a sum,
\* the prompt and a trap leave it alone.
THEOREM CarryOnlyByArithmetic == Spec => CarrySurvives
<1> DEFINE Kept == CF \in flags' <=> CF \in flags
           Allowed == \/ \E op \in {"ADD", "ADC", "SUB", "SBC", "INC", "DEC", "RESET"} :
                           Executing(op)
                      \/ Executing("POP") /\ Mode = "FLAGS"
<1>1. ASSUME Next PROVE Kept \/ Allowed
  <2>1. ASSUME NOOP \/ HALT \/ Index \/ JMP \/ Jcc \/ JEXT PROVE Kept
    BY <2>1 DEF NOOP, HALT, Index, JMP, Jcc, JEXT
  <2>2. ASSUME CALL \/ RET \/ RET_I \/ ENTER \/ LEAVE PROVE Kept
    BY <2>2 DEF CALL, RET, RET_I, ENTER, LEAVE
  <2>3. ASSUME SetFlag \/ CLRA PROVE Kept
    BY <2>3 DEF SetFlag, FlagOps, CLRA, CF, TF, OF, ZF
  <2>4. ASSUME RESET PROVE Allowed
    BY <2>4 DEF RESET
  <2>5. ASSUME AccOp PROVE Kept \/ Allowed
    <3>1. PICK op \in AccOps, p \in Operand(Mode) :
            LET r == Alu(op, reg.ACC, Read(p), CARRY)
            IN /\ Executing(op)
               /\ flags' = Update(ZeroSign(flags, r.val), CF, r.cf)
      BY <2>5 DEF AccOp
    <3>2. CF \in flags' <=> Alu(op, reg.ACC, Read(p), CARRY).cf
      BY <3>1, UpdateCarry
    <3>3. CASE op \in {"ADD", "ADC", "SUB", "SBC"}
      BY <3>1, <3>3
    <3>4. CASE op \notin {"ADD", "ADC", "SUB", "SBC"}
      <4>1. Alu(op, reg.ACC, Read(p), CARRY).cf <=> CARRY = 1
        BY <3>4, CarryThrough
      <4>2. QED BY <3>2, <4>1, CarryKept
    <3>5. QED BY <3>3, <3>4
  <2>6. ASSUME InPlace PROVE Kept \/ Allowed
    <3>1. PICK op \in UnaryOps, p \in Operand(Mode) :
            LET r == Unary(op, Read(p), CARRY)
            IN /\ Executing(op)
               /\ flags' = Update(ZeroSign(flags, r.val), CF, r.cf)
      BY <2>6 DEF InPlace
    <3>2. CF \in flags' <=> Unary(op, Read(p), CARRY).cf
      BY <3>1, UpdateCarry
    <3>3. CASE op \in {"INC", "DEC"}
      BY <3>1, <3>3
    <3>4. CASE op \notin {"INC", "DEC"}
      <4>1. Unary(op, Read(p), CARRY).cf <=> CARRY = 1
        BY <3>4, CarryThrough
      <4>2. QED BY <3>2, <4>1, CarryKept
    <3>5. QED BY <3>3, <3>4
  <2>7. ASSUME InPlaceHL PROVE Kept \/ Allowed
    <3>1. PICK op \in UnaryOps :
            LET r == UnaryHL(op, HL, CARRY)
            IN /\ Executing(op)
               /\ flags' = Update(Update(Update(flags, ZF, r.val = 0), SF, Lo(r.val) >= 128),
                                  CF, r.cf)
      BY <2>7 DEF InPlaceHL
    <3>2. CF \in flags' <=> UnaryHL(op, HL, CARRY).cf
      BY <3>1, UpdateCarry
    <3>3. CASE op \in {"INC", "DEC"}
      BY <3>1, <3>3
    <3>4. CASE op \notin {"INC", "DEC"}
      <4>1. UnaryHL(op, HL, CARRY).cf <=> CARRY = 1
        BY <3>4, CarryThrough
      <4>2. QED BY <3>2, <4>1, CarryKept
    <3>5. QED BY <3>3, <3>4
  <2>8. ASSUME CMP \/ STORE \/ XCH \/ PUSH PROVE Kept
    <3>1. \E v : flags' = ZeroSign(flags, v)
      BY <2>8 DEF CMP, STORE, XCH, PUSH
    <3>2. QED BY <3>1, CarryKept
  <2>9. ASSUME OPW PROVE Kept
    <3>1. \E y, z : flags' = Update(Update(flags, ZF, y), SF, z)
      BY <2>9, Zenon DEF OPW
    <3>2. QED BY <3>1, CarryKept
  <2>10. ASSUME POP PROVE Kept \/ Allowed
    <3>1. flags' = ZeroSign(flags, Top(1)) \/ Mode = "FLAGS"
      BY <2>10 DEF POP
    <3>2. Executing("POP")
      BY <2>10 DEF POP
    <3>3. QED BY <3>1, <3>2, CarryKept
  <2>11. ASSUME Answer \/ Crash PROVE Kept
    BY <2>11 DEF Answer, Crash
  <2>12. QED
    BY <1>1, <2>1, <2>2, <2>3, <2>4, <2>5, <2>6, <2>7, <2>8, <2>9, <2>10, <2>11
    DEF Next, stepCpu, Execute
<1>2. ASSUME [Next]_vars
      PROVE  [(CF \in flags') # (CF \in flags) => Allowed]_vars
  BY <1>1, <1>2
<1>3. QED BY <1>2, PTL DEF Spec, CarrySurvives

-----------------------------------------------------------------------------
(***************************************************************************)
(* ROL and ROR rotate, for every byte, every count the code masks rightly, *)
(* and every state of Cpu.                                                 *)
(***************************************************************************)
\* The eight bits of a byte, as numbers.
BitNr(a, k) == IF k \in BitsOf(a) THEN 1 ELSE 0

\* Bit is finite, spelled out for the provers.
LEMMA Eight == \A k : k \in Bit <=> \/ k = 0 \/ k = 1 \/ k = 2 \/ k = 3
                                    \/ k = 4 \/ k = 5 \/ k = 6 \/ k = 7
  BY DEF Bit

\* The table of weights, entry by entry.
LEMMA Weights == /\ Weight[0] = 1  /\ Weight[1] = 2  /\ Weight[2] = 4  /\ Weight[3] = 8
                 /\ Weight[4] = 16 /\ Weight[5] = 32 /\ Weight[6] = 64 /\ Weight[7] = 128
  BY DEF Weight, Bit

\* Eight bits put together and taken apart again.
LEMMA SumBits ==
  ASSUME NEW b0 \in {0, 1}, NEW b1 \in {0, 1}, NEW b2 \in {0, 1}, NEW b3 \in {0, 1},
         NEW b4 \in {0, 1}, NEW b5 \in {0, 1}, NEW b6 \in {0, 1}, NEW b7 \in {0, 1},
         NEW w, w = b0 + 2 * b1 + 4 * b2 + 8 * b3 + 16 * b4 + 32 * b5 + 64 * b6 + 128 * b7
  PROVE  /\ (w \div 1) % 2 = b0  /\ (w \div 2) % 2 = b1  /\ (w \div 4) % 2 = b2
         /\ (w \div 8) % 2 = b3  /\ (w \div 16) % 2 = b4 /\ (w \div 32) % 2 = b5
         /\ (w \div 64) % 2 = b6 /\ (w \div 128) % 2 = b7
  BY SMTT(60)

\* A byte is the sum of the weights of its bits.
LEMMA ByteIsSum ==
  ASSUME NEW a \in Byte
  PROVE  a = BitNr(a, 0) + 2 * BitNr(a, 1) + 4 * BitNr(a, 2) + 8 * BitNr(a, 3)
               + 16 * BitNr(a, 4) + 32 * BitNr(a, 5) + 64 * BitNr(a, 6) + 128 * BitNr(a, 7)
<1>1. a \in Int /\ 0 <= a /\ a <= 255
  BY ByteInt
<1>2. \A k \in Bit : BitNr(a, k) = IF (a \div Weight[k]) % 2 = 1 THEN 1 ELSE 0
  BY DEF BitNr, BitsOf
<1>3. /\ BitNr(a, 0) = IF (a \div 1) % 2 = 1 THEN 1 ELSE 0
      /\ BitNr(a, 1) = IF (a \div 2) % 2 = 1 THEN 1 ELSE 0
      /\ BitNr(a, 2) = IF (a \div 4) % 2 = 1 THEN 1 ELSE 0
      /\ BitNr(a, 3) = IF (a \div 8) % 2 = 1 THEN 1 ELSE 0
      /\ BitNr(a, 4) = IF (a \div 16) % 2 = 1 THEN 1 ELSE 0
      /\ BitNr(a, 5) = IF (a \div 32) % 2 = 1 THEN 1 ELSE 0
      /\ BitNr(a, 6) = IF (a \div 64) % 2 = 1 THEN 1 ELSE 0
      /\ BitNr(a, 7) = IF (a \div 128) % 2 = 1 THEN 1 ELSE 0
  BY <1>2, Weights, Eight
<1>4. \A q \in Int : (q % 2 = 1 => q = 2 * (q \div 2) + 1) /\ (q % 2 # 1 => q = 2 * (q \div 2))
  OBVIOUS
<1>5. QED BY <1>1, <1>3, SMTT(60)

\* The bits of eight bits put together.
LEMMA BitsOfSum ==
  ASSUME NEW b0 \in {0, 1}, NEW b1 \in {0, 1}, NEW b2 \in {0, 1}, NEW b3 \in {0, 1},
         NEW b4 \in {0, 1}, NEW b5 \in {0, 1}, NEW b6 \in {0, 1}, NEW b7 \in {0, 1},
         NEW w, w = b0 + 2 * b1 + 4 * b2 + 8 * b3 + 16 * b4 + 32 * b5 + 64 * b6 + 128 * b7
  PROVE  \A k : k \in BitsOf(w) <=>
           \/ (k = 0 /\ b0 = 1) \/ (k = 1 /\ b1 = 1) \/ (k = 2 /\ b2 = 1) \/ (k = 3 /\ b3 = 1)
           \/ (k = 4 /\ b4 = 1) \/ (k = 5 /\ b5 = 1) \/ (k = 6 /\ b6 = 1) \/ (k = 7 /\ b7 = 1)
<1>1. /\ (w \div 1) % 2 = b0  /\ (w \div 2) % 2 = b1  /\ (w \div 4) % 2 = b2
      /\ (w \div 8) % 2 = b3  /\ (w \div 16) % 2 = b4 /\ (w \div 32) % 2 = b5
      /\ (w \div 64) % 2 = b6 /\ (w \div 128) % 2 = b7
  BY SumBits
<1>2. \A k : k \in BitsOf(w) <=> k \in Bit /\ (w \div Weight[k]) % 2 = 1
  BY DEF BitsOf
<1>3. QED BY <1>1, <1>2, Weights, Eight

\* A bit is 1 exactly when it is in the set of bits.
LEMMA BitNrType == \A a, k : BitNr(a, k) \in {0, 1} /\ (BitNr(a, k) = 1 <=> k \in BitsOf(a))
  BY DEF BitNr

\* A set of bits is got back from the byte that is made of it.
LEMMA BitsOfByteOf == ASSUME NEW S \in SUBSET Bit PROVE BitsOf(ByteOf(S)) = S
<1> DEFINE b(k) == IF k \in S THEN 1 ELSE 0
<1>1. ByteOf(S) = b(0) + 2 * b(1) + 4 * b(2) + 8 * b(3) + 16 * b(4) + 32 * b(5) + 64 * b(6) + 128 * b(7)
  BY DEF ByteOf
<1>2. \A k : b(k) \in {0, 1} /\ (b(k) = 1 <=> k \in S)
  OBVIOUS
<1> HIDE DEF b
<1>3. \A k : k \in BitsOf(ByteOf(S)) <=>
           \/ (k = 0 /\ b(0) = 1) \/ (k = 1 /\ b(1) = 1) \/ (k = 2 /\ b(2) = 1) \/ (k = 3 /\ b(3) = 1)
           \/ (k = 4 /\ b(4) = 1) \/ (k = 5 /\ b(5) = 1) \/ (k = 6 /\ b(6) = 1) \/ (k = 7 /\ b(7) = 1)
  BY <1>1, <1>2, BitsOfSum
<1>4. \A k : k \in BitsOf(ByteOf(S)) <=> k \in S
  BY <1>2, <1>3, Eight
<1>5. QED BY <1>4

\* The bits of a disjunction.
LEMMA BitsOfOr == \A a, b : BitsOf(BitOr(a, b)) = BitsOf(a) \cup BitsOf(b)
<1>1. \A a : BitsOf(a) \in SUBSET Bit
  BY DEF BitsOf
<1>2. QED BY <1>1, BitsOfByteOf DEF BitOr

\* A shift moves every bit up, as far as there is room ...
LEMMA BitsShiftedLeft ==
  ASSUME NEW a \in Byte, NEW n \in Bit
  PROVE  \A k \in Bit : k \in BitsOf(ShiftLeft(a, n)) <=> k - n \in BitsOf(a)
<1> DEFINE b(k) == BitNr(a, k)
<1>1. a = b(0) + 2 * b(1) + 4 * b(2) + 8 * b(3) + 16 * b(4) + 32 * b(5) + 64 * b(6) + 128 * b(7)
  BY ByteIsSum
<1>2. \A k : b(k) \in {0, 1} /\ (b(k) = 1 <=> k \in BitsOf(a))
  BY BitNrType
<1> HIDE DEF b
<1>3. \A j : j \in BitsOf(a) <=>
        \/ (j = 0 /\ b(0) = 1) \/ (j = 1 /\ b(1) = 1) \/ (j = 2 /\ b(2) = 1) \/ (j = 3 /\ b(3) = 1)
        \/ (j = 4 /\ b(4) = 1) \/ (j = 5 /\ b(5) = 1) \/ (j = 6 /\ b(6) = 1) \/ (j = 7 /\ b(7) = 1)
  <2>1. \A j : j \in BitsOf(a) => j \in Bit
    BY DEF BitsOf
  <2>2. QED BY <1>2, <2>1, Eight
<1>4. CASE n = 0
  <2>1. ShiftLeft(a, n) = (a * 1) % 256
    BY <1>4, Weights, Eight DEF ShiftLeft
  <2>2. ShiftLeft(a, n) = b(0) + 2 * b(1) + 4 * b(2) + 8 * b(3) + 16 * b(4) + 32 * b(5) + 64 * b(6) + 128 * b(7)
    BY <1>1, <1>2, <2>1, SMTT(60)
  <2>3. \A k : k \in BitsOf(ShiftLeft(a, n)) <=>
          \/ (k = 0 /\ b(0) = 1) \/ (k = 1 /\ b(1) = 1) \/ (k = 2 /\ b(2) = 1) \/ (k = 3 /\ b(3) = 1)
          \/ (k = 4 /\ b(4) = 1) \/ (k = 5 /\ b(5) = 1) \/ (k = 6 /\ b(6) = 1) \/ (k = 7 /\ b(7) = 1)
    BY <1>2, <2>2, BitsOfSum
  <2>4. QED BY <1>4, <1>3, <2>3 DEF Bit
<1>5. CASE n = 1
  <2>1. ShiftLeft(a, n) = (a * 2) % 256
    BY <1>5, Weights, Eight DEF ShiftLeft
  <2>2. ShiftLeft(a, n) = 0 + 2 * b(0) + 4 * b(1) + 8 * b(2) + 16 * b(3) + 32 * b(4) + 64 * b(5) + 128 * b(6)
    BY <1>1, <1>2, <2>1, SMTT(60)
  <2>3. \A k : k \in BitsOf(ShiftLeft(a, n)) <=>
          \/ (k = 0 /\ 0 = 1) \/ (k = 1 /\ b(0) = 1) \/ (k = 2 /\ b(1) = 1) \/ (k = 3 /\ b(2) = 1)
          \/ (k = 4 /\ b(3) = 1) \/ (k = 5 /\ b(4) = 1) \/ (k = 6 /\ b(5) = 1) \/ (k = 7 /\ b(6) = 1)
    BY <1>2, <2>2, BitsOfSum
  <2>4. QED BY <1>5, <1>3, <2>3 DEF Bit
<1>6. CASE n = 2
  <2>1. ShiftLeft(a, n) = (a * 4) % 256
    BY <1>6, Weights, Eight DEF ShiftLeft
  <2>2. ShiftLeft(a, n) = 0 + 2 * 0 + 4 * b(0) + 8 * b(1) + 16 * b(2) + 32 * b(3) + 64 * b(4) + 128 * b(5)
    BY <1>1, <1>2, <2>1, SMTT(60)
  <2>3. \A k : k \in BitsOf(ShiftLeft(a, n)) <=>
          \/ (k = 0 /\ 0 = 1) \/ (k = 1 /\ 0 = 1) \/ (k = 2 /\ b(0) = 1) \/ (k = 3 /\ b(1) = 1)
          \/ (k = 4 /\ b(2) = 1) \/ (k = 5 /\ b(3) = 1) \/ (k = 6 /\ b(4) = 1) \/ (k = 7 /\ b(5) = 1)
    BY <1>2, <2>2, BitsOfSum
  <2>4. QED BY <1>6, <1>3, <2>3 DEF Bit
<1>7. CASE n = 3
  <2>1. ShiftLeft(a, n) = (a * 8) % 256
    BY <1>7, Weights, Eight DEF ShiftLeft
  <2>2. ShiftLeft(a, n) = 0 + 2 * 0 + 4 * 0 + 8 * b(0) + 16 * b(1) + 32 * b(2) + 64 * b(3) + 128 * b(4)
    BY <1>1, <1>2, <2>1, SMTT(60)
  <2>3. \A k : k \in BitsOf(ShiftLeft(a, n)) <=>
          \/ (k = 0 /\ 0 = 1) \/ (k = 1 /\ 0 = 1) \/ (k = 2 /\ 0 = 1) \/ (k = 3 /\ b(0) = 1)
          \/ (k = 4 /\ b(1) = 1) \/ (k = 5 /\ b(2) = 1) \/ (k = 6 /\ b(3) = 1) \/ (k = 7 /\ b(4) = 1)
    BY <1>2, <2>2, BitsOfSum
  <2>4. QED BY <1>7, <1>3, <2>3 DEF Bit
<1>8. CASE n = 4
  <2>1. ShiftLeft(a, n) = (a * 16) % 256
    BY <1>8, Weights, Eight DEF ShiftLeft
  <2>2. ShiftLeft(a, n) = 0 + 2 * 0 + 4 * 0 + 8 * 0 + 16 * b(0) + 32 * b(1) + 64 * b(2) + 128 * b(3)
    BY <1>1, <1>2, <2>1, SMTT(60)
  <2>3. \A k : k \in BitsOf(ShiftLeft(a, n)) <=>
          \/ (k = 0 /\ 0 = 1) \/ (k = 1 /\ 0 = 1) \/ (k = 2 /\ 0 = 1) \/ (k = 3 /\ 0 = 1)
          \/ (k = 4 /\ b(0) = 1) \/ (k = 5 /\ b(1) = 1) \/ (k = 6 /\ b(2) = 1) \/ (k = 7 /\ b(3) = 1)
    BY <1>2, <2>2, BitsOfSum
  <2>4. QED BY <1>8, <1>3, <2>3 DEF Bit
<1>9. CASE n = 5
  <2>1. ShiftLeft(a, n) = (a * 32) % 256
    BY <1>9, Weights, Eight DEF ShiftLeft
  <2>2. ShiftLeft(a, n) = 0 + 2 * 0 + 4 * 0 + 8 * 0 + 16 * 0 + 32 * b(0) + 64 * b(1) + 128 * b(2)
    BY <1>1, <1>2, <2>1, SMTT(60)
  <2>3. \A k : k \in BitsOf(ShiftLeft(a, n)) <=>
          \/ (k = 0 /\ 0 = 1) \/ (k = 1 /\ 0 = 1) \/ (k = 2 /\ 0 = 1) \/ (k = 3 /\ 0 = 1)
          \/ (k = 4 /\ 0 = 1) \/ (k = 5 /\ b(0) = 1) \/ (k = 6 /\ b(1) = 1) \/ (k = 7 /\ b(2) = 1)
    BY <1>2, <2>2, BitsOfSum
  <2>4. QED BY <1>9, <1>3, <2>3 DEF Bit
<1>10. CASE n = 6
  <2>1. ShiftLeft(a, n) = (a * 64) % 256
    BY <1>10, Weights, Eight DEF ShiftLeft
  <2>2. ShiftLeft(a, n) = 0 + 2 * 0 + 4 * 0 + 8 * 0 + 16 * 0 + 32 * 0 + 64 * b(0) + 128 * b(1)
    BY <1>1, <1>2, <2>1, SMTT(60)
  <2>3. \A k : k \in BitsOf(ShiftLeft(a, n)) <=>
          \/ (k = 0 /\ 0 = 1) \/ (k = 1 /\ 0 = 1) \/ (k = 2 /\ 0 = 1) \/ (k = 3 /\ 0 = 1)
          \/ (k = 4 /\ 0 = 1) \/ (k = 5 /\ 0 = 1) \/ (k = 6 /\ b(0) = 1) \/ (k = 7 /\ b(1) = 1)
    BY <1>2, <2>2, BitsOfSum
  <2>4. QED BY <1>10, <1>3, <2>3 DEF Bit
<1>11. CASE n = 7
  <2>1. ShiftLeft(a, n) = (a * 128) % 256
    BY <1>11, Weights, Eight DEF ShiftLeft
  <2>2. ShiftLeft(a, n) = 0 + 2 * 0 + 4 * 0 + 8 * 0 + 16 * 0 + 32 * 0 + 64 * 0 + 128 * b(0)
    BY <1>1, <1>2, <2>1, SMTT(60)
  <2>3. \A k : k \in BitsOf(ShiftLeft(a, n)) <=>
          \/ (k = 0 /\ 0 = 1) \/ (k = 1 /\ 0 = 1) \/ (k = 2 /\ 0 = 1) \/ (k = 3 /\ 0 = 1)
          \/ (k = 4 /\ 0 = 1) \/ (k = 5 /\ 0 = 1) \/ (k = 6 /\ 0 = 1) \/ (k = 7 /\ b(0) = 1)
    BY <1>2, <2>2, BitsOfSum
  <2>4. QED BY <1>11, <1>3, <2>3 DEF Bit
<1>12. QED BY <1>4, <1>5, <1>6, <1>7, <1>8, <1>9, <1>10, <1>11, Eight

\* ... or down.
LEMMA BitsShiftedRight ==
  ASSUME NEW a \in Byte, NEW n \in Bit
  PROVE  \A k \in Bit : k \in BitsOf(ShiftRight(a, n)) <=> k + n \in BitsOf(a)
<1> DEFINE b(k) == BitNr(a, k)
<1>1. a = b(0) + 2 * b(1) + 4 * b(2) + 8 * b(3) + 16 * b(4) + 32 * b(5) + 64 * b(6) + 128 * b(7)
  BY ByteIsSum
<1>2. \A k : b(k) \in {0, 1} /\ (b(k) = 1 <=> k \in BitsOf(a))
  BY BitNrType
<1> HIDE DEF b
<1>3. \A j : j \in BitsOf(a) <=>
        \/ (j = 0 /\ b(0) = 1) \/ (j = 1 /\ b(1) = 1) \/ (j = 2 /\ b(2) = 1) \/ (j = 3 /\ b(3) = 1)
        \/ (j = 4 /\ b(4) = 1) \/ (j = 5 /\ b(5) = 1) \/ (j = 6 /\ b(6) = 1) \/ (j = 7 /\ b(7) = 1)
  <2>1. \A j : j \in BitsOf(a) => j \in Bit
    BY DEF BitsOf
  <2>2. QED BY <1>2, <2>1, Eight
<1>4. CASE n = 0
  <2>1. ShiftRight(a, n) = a \div 1
    BY <1>4, Weights, Eight DEF ShiftRight
  <2>2. ShiftRight(a, n) = b(0) + 2 * b(1) + 4 * b(2) + 8 * b(3) + 16 * b(4) + 32 * b(5) + 64 * b(6) + 128 * b(7)
    BY <1>1, <1>2, <2>1, SMTT(60)
  <2>3. \A k : k \in BitsOf(ShiftRight(a, n)) <=>
          \/ (k = 0 /\ b(0) = 1) \/ (k = 1 /\ b(1) = 1) \/ (k = 2 /\ b(2) = 1) \/ (k = 3 /\ b(3) = 1)
          \/ (k = 4 /\ b(4) = 1) \/ (k = 5 /\ b(5) = 1) \/ (k = 6 /\ b(6) = 1) \/ (k = 7 /\ b(7) = 1)
    BY <1>2, <2>2, BitsOfSum
  <2>4. QED BY <1>4, <1>3, <2>3 DEF Bit
<1>5. CASE n = 1
  <2>1. ShiftRight(a, n) = a \div 2
    BY <1>5, Weights, Eight DEF ShiftRight
  <2>2. ShiftRight(a, n) = b(1) + 2 * b(2) + 4 * b(3) + 8 * b(4) + 16 * b(5) + 32 * b(6) + 64 * b(7) + 128 * 0
    BY <1>1, <1>2, <2>1, SMTT(60)
  <2>3. \A k : k \in BitsOf(ShiftRight(a, n)) <=>
          \/ (k = 0 /\ b(1) = 1) \/ (k = 1 /\ b(2) = 1) \/ (k = 2 /\ b(3) = 1) \/ (k = 3 /\ b(4) = 1)
          \/ (k = 4 /\ b(5) = 1) \/ (k = 5 /\ b(6) = 1) \/ (k = 6 /\ b(7) = 1) \/ (k = 7 /\ 0 = 1)
    BY <1>2, <2>2, BitsOfSum
  <2>4. QED BY <1>5, <1>3, <2>3 DEF Bit
<1>6. CASE n = 2
  <2>1. ShiftRight(a, n) = a \div 4
    BY <1>6, Weights, Eight DEF ShiftRight
  <2>2. ShiftRight(a, n) = b(2) + 2 * b(3) + 4 * b(4) + 8 * b(5) + 16 * b(6) + 32 * b(7) + 64 * 0 + 128 * 0
    BY <1>1, <1>2, <2>1, SMTT(60)
  <2>3. \A k : k \in BitsOf(ShiftRight(a, n)) <=>
          \/ (k = 0 /\ b(2) = 1) \/ (k = 1 /\ b(3) = 1) \/ (k = 2 /\ b(4) = 1) \/ (k = 3 /\ b(5) = 1)
          \/ (k = 4 /\ b(6) = 1) \/ (k = 5 /\ b(7) = 1) \/ (k = 6 /\ 0 = 1) \/ (k = 7 /\ 0 = 1)
    BY <1>2, <2>2, BitsOfSum
  <2>4. QED BY <1>6, <1>3, <2>3 DEF Bit
<1>7. CASE n = 3
  <2>1. ShiftRight(a, n) = a \div 8
    BY <1>7, Weights, Eight DEF ShiftRight
  <2>2. ShiftRight(a, n) = b(3) + 2 * b(4) + 4 * b(5) + 8 * b(6) + 16 * b(7) + 32 * 0 + 64 * 0 + 128 * 0
    BY <1>1, <1>2, <2>1, SMTT(60)
  <2>3. \A k : k \in BitsOf(ShiftRight(a, n)) <=>
          \/ (k = 0 /\ b(3) = 1) \/ (k = 1 /\ b(4) = 1) \/ (k = 2 /\ b(5) = 1) \/ (k = 3 /\ b(6) = 1)
          \/ (k = 4 /\ b(7) = 1) \/ (k = 5 /\ 0 = 1) \/ (k = 6 /\ 0 = 1) \/ (k = 7 /\ 0 = 1)
    BY <1>2, <2>2, BitsOfSum
  <2>4. QED BY <1>7, <1>3, <2>3 DEF Bit
<1>8. CASE n = 4
  <2>1. ShiftRight(a, n) = a \div 16
    BY <1>8, Weights, Eight DEF ShiftRight
  <2>2. ShiftRight(a, n) = b(4) + 2 * b(5) + 4 * b(6) + 8 * b(7) + 16 * 0 + 32 * 0 + 64 * 0 + 128 * 0
    BY <1>1, <1>2, <2>1, SMTT(60)
  <2>3. \A k : k \in BitsOf(ShiftRight(a, n)) <=>
          \/ (k = 0 /\ b(4) = 1) \/ (k = 1 /\ b(5) = 1) \/ (k = 2 /\ b(6) = 1) \/ (k = 3 /\ b(7) = 1)
          \/ (k = 4 /\ 0 = 1) \/ (k = 5 /\ 0 = 1) \/ (k = 6 /\ 0 = 1) \/ (k = 7 /\ 0 = 1)
    BY <1>2, <2>2, BitsOfSum
  <2>4. QED BY <1>8, <1>3, <2>3 DEF Bit
<1>9. CASE n = 5
  <2>1. ShiftRight(a, n) = a \div 32
    BY <1>9, Weights, Eight DEF ShiftRight
  <2>2. ShiftRight(a, n) = b(5) + 2 * b(6) + 4 * b(7) + 8 * 0 + 16 * 0 + 32 * 0 + 64 * 0 + 128 * 0
    BY <1>1, <1>2, <2>1, SMTT(60)
  <2>3. \A k : k \in BitsOf(ShiftRight(a, n)) <=>
          \/ (k = 0 /\ b(5) = 1) \/ (k = 1 /\ b(6) = 1) \/ (k = 2 /\ b(7) = 1) \/ (k = 3 /\ 0 = 1)
          \/ (k = 4 /\ 0 = 1) \/ (k = 5 /\ 0 = 1) \/ (k = 6 /\ 0 = 1) \/ (k = 7 /\ 0 = 1)
    BY <1>2, <2>2, BitsOfSum
  <2>4. QED BY <1>9, <1>3, <2>3 DEF Bit
<1>10. CASE n = 6
  <2>1. ShiftRight(a, n) = a \div 64
    BY <1>10, Weights, Eight DEF ShiftRight
  <2>2. ShiftRight(a, n) = b(6) + 2 * b(7) + 4 * 0 + 8 * 0 + 16 * 0 + 32 * 0 + 64 * 0 + 128 * 0
    BY <1>1, <1>2, <2>1, SMTT(60)
  <2>3. \A k : k \in BitsOf(ShiftRight(a, n)) <=>
          \/ (k = 0 /\ b(6) = 1) \/ (k = 1 /\ b(7) = 1) \/ (k = 2 /\ 0 = 1) \/ (k = 3 /\ 0 = 1)
          \/ (k = 4 /\ 0 = 1) \/ (k = 5 /\ 0 = 1) \/ (k = 6 /\ 0 = 1) \/ (k = 7 /\ 0 = 1)
    BY <1>2, <2>2, BitsOfSum
  <2>4. QED BY <1>10, <1>3, <2>3 DEF Bit
<1>11. CASE n = 7
  <2>1. ShiftRight(a, n) = a \div 128
    BY <1>11, Weights, Eight DEF ShiftRight
  <2>2. ShiftRight(a, n) = b(7) + 2 * 0 + 4 * 0 + 8 * 0 + 16 * 0 + 32 * 0 + 64 * 0 + 128 * 0
    BY <1>1, <1>2, <2>1, SMTT(60)
  <2>3. \A k : k \in BitsOf(ShiftRight(a, n)) <=>
          \/ (k = 0 /\ b(7) = 1) \/ (k = 1 /\ 0 = 1) \/ (k = 2 /\ 0 = 1) \/ (k = 3 /\ 0 = 1)
          \/ (k = 4 /\ 0 = 1) \/ (k = 5 /\ 0 = 1) \/ (k = 6 /\ 0 = 1) \/ (k = 7 /\ 0 = 1)
    BY <1>2, <2>2, BitsOfSum
  <2>4. QED BY <1>11, <1>3, <2>3 DEF Bit
<1>12. QED BY <1>4, <1>5, <1>6, <1>7, <1>8, <1>9, <1>10, <1>11, Eight

\* ROL moves every bit up, the top ones round to the bottom; a count of 8 is
\* the count 0.
LEMMA RolRotates ==
  ASSUME NEW a \in Byte, NEW n \in 0 .. 8
  PROVE  BitsOf(Rol(a, n)) = {(i + n) % 8 : i \in BitsOf(a)}
<1>1. BitsOf(a) \in SUBSET Bit /\ BitsOf(Rol(a, n)) \in SUBSET Bit
  BY DEF BitsOf
<1>2. BitsOf(Rol(a, n)) = BitsOf(ShiftLeft(a, n)) \cup BitsOf(ShiftRight(a, (-n) % 8))
  BY BitsOfOr DEF Rol, Shl
<1>3. CASE n = 8
  <2>1. ShiftLeft(a, n) = 0 /\ (-n) % 8 = 0
    BY <1>3, Limits DEF ShiftLeft, Bit
  <2>2. \A k \in Bit : k \notin BitsOf(0)
    BY BitsOfSum
  <2>3. \A k \in Bit : k \in BitsOf(Rol(a, n)) <=> k \in BitsOf(a)
    BY <1>2, <2>1, <2>2, BitsShiftedRight DEF Bit
  <2>4. QED BY <1>1, <1>3, <2>3 DEF Bit
<1>4. CASE n \in Bit
  <2>1. (-n) % 8 \in Bit
    BY <1>4 DEF Bit
  <2>2. \A k \in Bit : k \in BitsOf(Rol(a, n)) <=> k - n \in BitsOf(a) \/ k + ((-n) % 8) \in BitsOf(a)
    BY <1>2, <1>4, <2>1, BitsShiftedLeft, BitsShiftedRight
  <2>3. \A k \in Bit : k \in BitsOf(Rol(a, n)) => \E i \in BitsOf(a) : k = (i + n) % 8
    BY <1>1, <1>4, <2>2, SMTT(60) DEF Bit
  <2>4. \A i \in BitsOf(a) : (i + n) % 8 \in BitsOf(Rol(a, n))
    BY <1>1, <1>4, <2>2, SMTT(60) DEF Bit
  <2>5. QED BY <1>1, <2>3, <2>4
<1>5. QED BY <1>3, <1>4 DEF Bit

\* ROR moves every bit down, the bottom ones round to the top.
LEMMA RorRotates ==
  ASSUME NEW a \in Byte, NEW n \in 0 .. 8
  PROVE  BitsOf(Ror(a, n)) = {(i - n) % 8 : i \in BitsOf(a)}
<1>1. BitsOf(a) \in SUBSET Bit /\ BitsOf(Ror(a, n)) \in SUBSET Bit
  BY DEF BitsOf
<1>2. BitsOf(Ror(a, n)) = BitsOf(ShiftRight(a, n)) \cup BitsOf(ShiftLeft(a, (-n) % 8))
  BY BitsOfOr DEF Ror, Shr
<1>3. CASE n = 8
  <2>1. ShiftRight(a, n) = 0 /\ (-n) % 8 = 0
    BY <1>3, Limits, ByteInt DEF ShiftRight, Bit
  <2>2. \A k \in Bit : k \notin BitsOf(0)
    BY BitsOfSum
  <2>3. \A k \in Bit : k \in BitsOf(Ror(a, n)) <=> k \in BitsOf(a)
    BY <1>2, <2>1, <2>2, BitsShiftedLeft DEF Bit
  <2>4. QED BY <1>1, <1>3, <2>3 DEF Bit
<1>4. CASE n \in Bit
  <2>1. (-n) % 8 \in Bit
    BY <1>4 DEF Bit
  <2>2. \A k \in Bit : k \in BitsOf(Ror(a, n)) <=> k + n \in BitsOf(a) \/ k - ((-n) % 8) \in BitsOf(a)
    BY <1>2, <1>4, <2>1, BitsShiftedLeft, BitsShiftedRight
  <2>3. \A k \in Bit : k \in BitsOf(Ror(a, n)) => \E i \in BitsOf(a) : k = (i - n) % 8
    BY <1>1, <1>4, <2>2, SMTT(60) DEF Bit
  <2>4. \A i \in BitsOf(a) : (i - n) % 8 \in BitsOf(Ror(a, n))
    BY <1>1, <1>4, <2>2, SMTT(60) DEF Bit
  <2>5. QED BY <1>1, <2>3, <2>4
<1>5. QED BY <1>3, <1>4 DEF Bit

-----------------------------------------------------------------------------
(***************************************************************************)
(* The step.  Only AccOp executes ROL and ROR, and when it crashes instead *)
(* the count is 24 or more.                                                *)
(***************************************************************************)
LEMMA RotationStep ==
  ASSUME Execute, Executing("ROL") \/ Executing("ROR")
  PROVE  AccOp
<1> USE DEF Executing
<1>1. ~(NOOP \/ HALT \/ CLRA \/ RESET \/ CMP \/ STORE \/ XCH \/ Index)
  BY DEF NOOP, HALT, CLRA, RESET, CMP, STORE, XCH, Index
<1>2. ~(JMP \/ JEXT \/ PUSH \/ POP \/ CALL \/ RET \/ RET_I \/ ENTER \/ LEAVE)
  BY DEF JMP, JEXT, PUSH, POP, CALL, RET, RET_I, ENTER, LEAVE
<1>3. ~(SetFlag \/ Jcc \/ OPW)
  BY DEF SetFlag, FlagOps, Jcc, Taken, OPW, WideOps
<1>4. ~(InPlace \/ InPlaceHL)
  BY DEF InPlace, InPlaceHL, UnaryOps
<1>5. QED BY <1>1, <1>2, <1>3, <1>4 DEF Execute

\* ROL and ROR crash for counts far from those the property is about.
LEMMA RotationCrash ==
  ASSUME TypeOK, Crash, Executing("ROL") \/ Executing("ROR")
  PROVE  \E p \in Operand(Mode) : ~(Read(p) <= 8)
<1>1. PICK op \in AccOps, p \in Operand(Mode) :
        /\ Mode \in RValue
        /\ Executing(op) /\ Undefined(op, reg.ACC, Read(p))
  BY DEF Crash, WideOps, Executing
<1>2. op \in {"ROL", "ROR"}
  BY <1>1 DEF Executing
<1>3. Read(p) >= 32 \/ \E k \in 24 .. 31 : Read(p) = k
  BY <1>1, <1>2 DEF Undefined
<1>4. Read(p) \in Byte
  BY <1>1, OperandType, ReadType
<1>5. ~(Read(p) <= 8)
  BY <1>3, <1>4, ByteInt
<1>6. QED BY <1>5

\* ROL and ROR put every bit of ACC where a rotation puts it, for every value,
\* every addressing mode and every count up to 8.
THEOREM RotationsExact == Spec => RotationsAreExact
<1>1. ASSUME TypeOK, Next, Executing("ROL")
      PROVE  \E p \in Operand(Mode) : Read(p) <= 8 =>
               BitsOf(reg'.ACC) = {(i + Read(p)) % 8 : i \in BitsOf(reg.ACC)}
  <2>1. CASE AccOp
    <3>1. PICK p \in Operand(Mode) : reg'.ACC = Rol(reg.ACC, Read(p))
      <4>1. PICK op \in AccOps, p \in Operand(Mode) :
              /\ Executing(op)
              /\ reg' = [reg EXCEPT !.ACC = Alu(op, reg.ACC, Read(p), CARRY).val]
        BY <2>1 DEF AccOp
      <4>2. Alu("ROL", reg.ACC, Read(p), CARRY).val = Rol(reg.ACC, Read(p))
        BY DEF Alu
      <4>3. op = "ROL"
        BY <1>1, <4>1 DEF Executing
      <4>4. reg'.ACC = Rol(reg.ACC, Read(p))
        BY <1>1, <4>1, <4>2, <4>3 DEF TypeOK, Register
      <4>5. QED BY <4>4
    <3>2. Read(p) \in Byte /\ reg.ACC \in Byte
      BY <1>1, <2>1, OperandType, ReadType, RegisterType DEF AccOp
    <3>3. Read(p) <= 8 => Read(p) \in 0 .. 8
      BY <3>2, ByteInt
    <3>4. QED BY <3>1, <3>2, <3>3, RolRotates
  <2>2. CASE Crash
    BY <1>1, <2>2, RotationCrash
  <2>3. ~Answer
    BY <1>1 DEF Answer, Executing
  <2>4. QED BY <1>1, <2>1, <2>2, <2>3, RotationStep DEF Next, stepCpu
<1>2. ASSUME TypeOK, Next, Executing("ROR")
      PROVE  \E p \in Operand(Mode) : Read(p) <= 8 =>
               BitsOf(reg'.ACC) = {(i - Read(p)) % 8 : i \in BitsOf(reg.ACC)}
  <2>1. CASE AccOp
    <3>1. PICK p \in Operand(Mode) : reg'.ACC = Ror(reg.ACC, Read(p))
      <4>1. PICK op \in AccOps, p \in Operand(Mode) :
              /\ Executing(op)
              /\ reg' = [reg EXCEPT !.ACC = Alu(op, reg.ACC, Read(p), CARRY).val]
        BY <2>1 DEF AccOp
      <4>2. Alu("ROR", reg.ACC, Read(p), CARRY).val = Ror(reg.ACC, Read(p))
        BY DEF Alu
      <4>3. op = "ROR"
        BY <1>2, <4>1 DEF Executing
      <4>4. reg'.ACC = Ror(reg.ACC, Read(p))
        BY <1>2, <4>1, <4>2, <4>3 DEF TypeOK, Register
      <4>5. QED BY <4>4
    <3>2. Read(p) \in Byte /\ reg.ACC \in Byte
      BY <1>2, <2>1, OperandType, ReadType, RegisterType DEF AccOp
    <3>3. Read(p) <= 8 => Read(p) \in 0 .. 8
      BY <3>2, ByteInt
    <3>4. QED BY <3>1, <3>2, <3>3, RorRotates
  <2>2. CASE Crash
    BY <1>2, <2>2, RotationCrash
  <2>3. ~Answer
    BY <1>2 DEF Answer, Executing
  <2>4. QED BY <1>2, <2>1, <2>2, <2>3, RotationStep DEF Next, stepCpu
<1>3. QED BY <1>1, <1>2, TypeCorrect, PTL DEF Spec, RotationsAreExact

-----------------------------------------------------------------------------
(***************************************************************************)
(* Calls and frames.                                                       *)
(***************************************************************************)
Entry == [kind : {"CALL", "ENTER"}, base : Byte, bp : Byte, ret : Word16]

\* The base pointer while f is the latest frame.
BaseIn(f) == IF f.kind = "CALL" THEN f.bp ELSE Wrap8(f.base + 1)

(***************************************************************************)
(* What is kept of the frames fs, in a stack st of which they take at most *)
(* 256 bytes.                                                              *)
(***************************************************************************)
Ceiling(fs) == IF fs = <<>> THEN 0 ELSE End(Last(fs))

Held(f, st) == IF f.kind = "CALL" THEN Pair(st[f.base], st[Wrap8(f.base + 1)]) = f.ret
                                  ELSE st[f.base] = f.bp

AllHeld(fs, st) == \A i \in 1 .. Len(fs) : Held(fs[i], st)
Stacked(fs) == \A i, j \in 1 .. Len(fs) : i < j => End(fs[i]) <= fs[j].base
Within(fs)  == \A i \in 1 .. Len(fs) : End(fs[i]) <= Ceiling(fs)
Chained(fs) == \A i \in 1 .. Len(fs) - 1 : fs[i + 1].bp = BaseIn(fs[i])

Intact(fs, st, b) == /\ AllHeld(fs, st) /\ Stacked(fs) /\ Within(fs) /\ Chained(fs)
                     /\ fs # <<>> => b = BaseIn(Last(fs))

\* The history is one, the height is SP without its wraps, and never below a frame.
HistoryOK == /\ frames \in Seq(Entry)
             /\ height \in Int /\ peak \in Int
             /\ height <= peak
             /\ sp = Wrap8(height)
             /\ Ceiling(frames) <= height

Inv == HistoryOK /\ (peak <= 256 => Intact(frames, stack, bp))

-----------------------------------------------------------------------------
\* A frame takes one or two bytes, and its linkage is where it says.
LEMMA EntryCells ==
  ASSUME NEW f \in Entry
  PROVE  /\ f.base \in Int /\ 0 <= f.base /\ f.base <= 255
         /\ f.kind = "CALL" => End(f) = f.base + 2 /\ Cells(f) = {f.base, Wrap8(f.base + 1)}
         /\ f.kind = "ENTER" => End(f) = f.base + 1 /\ Cells(f) = {f.base}
         /\ f.kind = "CALL" \/ f.kind = "ENTER"
<1>1. f.base \in Int /\ 0 <= f.base /\ f.base <= 255 /\ Wrap8(f.base + 0) = f.base
  BY ByteInt DEF Entry, Wrap8
<1>2. f.kind = "CALL" \/ f.kind = "ENTER"
  BY DEF Entry
<1>3. CASE f.kind = "CALL"
  <2>1. Linkage[f.kind] = 2
    BY <1>3 DEF Linkage
  <2>2. 0 .. Linkage[f.kind] - 1 = {0, 1}
    BY <2>1
  <2>3. QED BY <1>1, <1>3, <2>1, <2>2 DEF End, Cells
<1>4. CASE f.kind = "ENTER"
  <2>1. Linkage[f.kind] = 1
    BY <1>4 DEF Linkage
  <2>2. 0 .. Linkage[f.kind] - 1 = {0}
    BY <2>1
  <2>3. QED BY <1>1, <1>4, <2>1, <2>2 DEF End, Cells
<1>5. QED BY <1>1, <1>2, <1>3, <1>4

\* The last frame of a sequence and the others.
LEMMA LastAndFront ==
  ASSUME NEW fs \in Seq(Entry), fs # <<>>
  PROVE  /\ Len(fs) \in Nat /\ Len(fs) >= 1
         /\ Last(fs) = fs[Len(fs)] /\ Last(fs) \in Entry
         /\ Front(fs) \in Seq(Entry) /\ Len(Front(fs)) = Len(fs) - 1
         /\ \A i \in 1 .. Len(fs) - 1 : Front(fs)[i] = fs[i]
<1>1. Len(fs) \in Nat /\ Len(fs) >= 1
  BY EmptySeq, LenProperties
<1>2. Len(fs) \in 1 .. Len(fs)
  BY <1>1
<1>3. Last(fs) = fs[Len(fs)] /\ Last(fs) \in Entry
  BY <1>2, ElementOfSeq DEF Last
<1>4. 1 \in Int /\ Len(fs) - 1 \in Int
  BY <1>1
<1>5. \A i \in 1 .. Len(fs) - 1 : fs[i] \in Entry
  BY <1>1, ElementOfSeq
<1>6. /\ SubSeq(fs, 1, Len(fs) - 1) \in Seq(Entry)
      /\ Len(SubSeq(fs, 1, Len(fs) - 1)) = Len(fs) - 1
      /\ \A i \in 1 .. Len(fs) - 1 : SubSeq(fs, 1, Len(fs) - 1)[i] = fs[i]
  BY <1>1, SubSeqProperties, SMTT(30)
<1>7. QED BY <1>1, <1>3, <1>6 DEF Front

\* A store beside the linkage of a frame leaves it held.
LEMMA HeldBeside ==
  ASSUME NEW f \in Entry, NEW st, NEW st2, Held(f, st), \A c \in Cells(f) : st2[c] = st[c]
  PROVE  Held(f, st2)
<1>1. CASE f.kind = "CALL"
  <2>1. f.base \in Cells(f) /\ Wrap8(f.base + 1) \in Cells(f)
    BY <1>1, EntryCells
  <2>2. st2[f.base] = st[f.base] /\ st2[Wrap8(f.base + 1)] = st[Wrap8(f.base + 1)]
    BY <2>1
  <2>3. QED BY <1>1, <2>2 DEF Held
<1>2. CASE f.kind = "ENTER"
  <2>1. st2[f.base] = st[f.base]
    BY <1>2, EntryCells
  <2>2. QED BY <1>2, <2>1 DEF Held
<1>3. QED BY <1>1, <1>2, EntryCells

\* Linkage ends below the ceiling, without wrapping while the stack holds 256 bytes.
LEMMA CellsBelow ==
  ASSUME NEW fs \in Seq(Entry), Within(fs), Ceiling(fs) <= 256, Ceiling(fs) \in Int,
         NEW i \in 1 .. Len(fs), NEW c \in Cells(fs[i])
  PROVE  c \in Int /\ 0 <= c /\ c < Ceiling(fs)
<1>1. fs[i] \in Entry
  BY ElementOfSeq
<1>2. End(fs[i]) <= Ceiling(fs)
  BY DEF Within
<1>3. CASE fs[i].kind = "CALL"
  <2>1. fs[i].base + 2 <= Ceiling(fs) /\ (c = fs[i].base \/ c = Wrap8(fs[i].base + 1))
    BY <1>1, <1>2, <1>3, EntryCells
  <2>2. QED BY <2>1, <1>1, EntryCells DEF Wrap8
<1>4. CASE fs[i].kind = "ENTER"
  BY <1>1, <1>2, <1>4, EntryCells
<1>5. QED BY <1>1, <1>3, <1>4, EntryCells

\* The ceiling is a number.
LEMMA CeilingInt == ASSUME NEW fs \in Seq(Entry) PROVE Ceiling(fs) \in Int /\ 0 <= Ceiling(fs)
<1>1. CASE fs = <<>>
  BY <1>1 DEF Ceiling
<1>2. CASE fs # <<>>
  BY <1>2, LastAndFront, EntryCells DEF Ceiling
<1>3. QED BY <1>1, <1>2

-----------------------------------------------------------------------------
(***************************************************************************)
(* Three things a step may do to the frames: nothing, add one, drop one.   *)
(***************************************************************************)
\* A step that stores beside all linkage keeps the frames.
LEMMA KeepsFrames ==
  ASSUME NEW fs \in Seq(Entry), NEW st, NEW st2, NEW b, Intact(fs, st, b),
         \A i \in 1 .. Len(fs) : \A c \in Cells(fs[i]) : st2[c] = st[c]
  PROVE  Intact(fs, st2, b)
<1>1. ASSUME NEW i \in 1 .. Len(fs) PROVE Held(fs[i], st2)
  <2>1. fs[i] \in Entry /\ Held(fs[i], st) /\ \A c \in Cells(fs[i]) : st2[c] = st[c]
    BY ElementOfSeq DEF Intact, AllHeld
  <2>2. QED BY <2>1, HeldBeside
<1>2. QED BY <1>1 DEF Intact, AllHeld

\* A new frame at or above the ceiling, linked to the base pointer of its caller.
LEMMA AddsFrame ==
  ASSUME NEW fs \in Seq(Entry), NEW st, NEW st2, NEW b, Intact(fs, st, b),
         NEW f \in Entry, f.base >= Ceiling(fs), f.bp = b, Held(f, st2),
         \A i \in 1 .. Len(fs) : \A c \in Cells(fs[i]) : st2[c] = st[c]
  PROVE  Intact(Append(fs, f), st2, BaseIn(f))
<1> DEFINE gs == Append(fs, f)
           n == Len(fs)
<1>1. /\ n \in Nat /\ gs \in Seq(Entry) /\ Len(gs) = n + 1 /\ gs[n + 1] = f
      /\ \A i \in 1 .. n : gs[i] = fs[i] /\ fs[i] \in Entry
      /\ gs # <<>>
  BY AppendProperties, ElementOfSeq
<1>2. Last(gs) = f /\ Ceiling(gs) = End(f)
  BY <1>1 DEF Last, Ceiling
<1>3. Intact(fs, st2, b)
  BY KeepsFrames
<1>4. End(f) \in Int /\ f.base < End(f) /\ Ceiling(fs) \in Int /\ f.base \in Int
  BY EntryCells, CeilingInt
<1>5. \A i \in 1 .. n : End(fs[i]) \in Int /\ End(fs[i]) <= Ceiling(fs)
  BY <1>1, <1>3, EntryCells DEF Intact, Within
<1> HIDE DEF gs
<1>6. AllHeld(gs, st2)
  <2>1. \A i \in 1 .. n : Held(gs[i], st2)
    BY <1>1, <1>3 DEF Intact, AllHeld
  <2>2. QED BY <1>1, <2>1 DEF AllHeld
<1>7. Stacked(gs)
  <2> SUFFICES ASSUME NEW i \in 1 .. n + 1, NEW j \in 1 .. n + 1, i < j
               PROVE  End(gs[i]) <= gs[j].base
    BY <1>1 DEF Stacked
  <2>1. i \in 1 .. n /\ gs[i] = fs[i]
    BY <1>1
  <2>2. CASE j = n + 1
    BY <2>1, <2>2, <1>1, <1>4, <1>5
  <2>3. CASE j # n + 1
    <3>1. j \in 1 .. n /\ gs[j] = fs[j]
      BY <2>3, <1>1
    <3>2. QED BY <2>1, <3>1, <1>3 DEF Intact, Stacked
  <2>4. QED BY <2>2, <2>3
<1>8. Within(gs)
  <2> SUFFICES ASSUME NEW i \in 1 .. n + 1 PROVE End(gs[i]) <= End(f)
    BY <1>1, <1>2 DEF Within
  <2>1. CASE i = n + 1
    BY <2>1, <1>1, <1>4
  <2>2. CASE i # n + 1
    <3>1. i \in 1 .. n /\ gs[i] = fs[i]
      BY <2>2, <1>1
    <3>2. QED BY <3>1, <1>4, <1>5
  <2>3. QED BY <2>1, <2>2
<1>9. Chained(gs)
  <2> SUFFICES ASSUME NEW i \in 1 .. n PROVE gs[i + 1].bp = BaseIn(gs[i])
    BY <1>1 DEF Chained
  <2>1. CASE i = n
    <3>1. fs # <<>> /\ Last(fs) = fs[n] /\ gs[i] = fs[n] /\ gs[i + 1] = f
      BY <2>1, <1>1 DEF Last
    <3>2. QED BY <3>1, <1>3 DEF Intact
  <2>2. CASE i # n
    <3>1. i \in 1 .. n - 1 /\ i + 1 \in 1 .. n
      BY <2>2, <1>1
    <3>2. gs[i] = fs[i] /\ gs[i + 1] = fs[i + 1]
      BY <3>1, <1>1
    <3>3. QED BY <3>1, <3>2, <1>3 DEF Intact, Chained
  <2>3. QED BY <2>1, <2>2
<1>10. QED BY <1>2, <1>6, <1>7, <1>8, <1>9 DEF Intact, gs

\* The last frame dropped, with the base pointer it had saved.
LEMMA DropsFrame ==
  ASSUME NEW fs \in Seq(Entry), NEW st, NEW b, Intact(fs, st, b), fs # <<>>
  PROVE  Intact(Front(fs), st, Last(fs).bp)
<1> DEFINE gs == Front(fs)
           n == Len(fs)
<1>1. /\ n \in Nat /\ n >= 1 /\ gs \in Seq(Entry) /\ Len(gs) = n - 1 /\ Last(fs) = fs[n]
      /\ \A i \in 1 .. n - 1 : gs[i] = fs[i]
  BY LastAndFront
<1>2. \A i \in 1 .. n : fs[i] \in Entry
  BY ElementOfSeq
<1> HIDE DEF gs, n
<1>3. AllHeld(gs, st)
  BY <1>1 DEF Intact, AllHeld, n
<1>4. Stacked(gs)
  BY <1>1 DEF Intact, Stacked, n
<1>5. Chained(gs)
  <2> SUFFICES ASSUME NEW i \in 1 .. n - 2 PROVE gs[i + 1].bp = BaseIn(gs[i])
    BY <1>1 DEF Chained
  <2>1. gs[i] = fs[i] /\ gs[i + 1] = fs[i + 1] /\ i \in 1 .. n - 1
    BY <1>1
  <2>2. QED BY <2>1 DEF Intact, Chained, n
<1>6. gs # <<>> => n - 1 \in 1 .. n - 1 /\ Last(gs) = fs[n - 1] /\ Ceiling(gs) = End(fs[n - 1])
  <2> SUFFICES ASSUME gs # <<>>
               PROVE  n - 1 \in 1 .. n - 1 /\ Last(gs) = fs[n - 1] /\ Ceiling(gs) = End(fs[n - 1])
    OBVIOUS
  <2>1. Len(gs) >= 1 /\ Last(gs) = gs[n - 1]
    BY <1>1, LastAndFront
  <2>2. QED BY <1>1, <2>1 DEF Ceiling
<1>7. Within(gs)
  <2> SUFFICES ASSUME NEW i \in 1 .. n - 1 PROVE End(gs[i]) <= Ceiling(gs)
    BY <1>1 DEF Within
  <2>1. gs # <<>> /\ gs[i] = fs[i]
    BY <1>1
  <2>2. CASE i = n - 1
    BY <2>1, <2>2, <1>1, <1>2, <1>6, EntryCells
  <2>3. CASE i # n - 1
    <3>. i \in 1 .. n /\ n - 1 \in 1 .. n /\ i < n - 1
      BY <2>1, <2>3, <1>1
    <3>1. End(fs[i]) <= fs[n - 1].base
      BY DEF Intact, Stacked, n
    <3>2. /\ End(fs[i]) \in Int
          /\ fs[n - 1].base \in Int /\ End(fs[n - 1]) \in Int /\ fs[n - 1].base <= End(fs[n - 1])
      <4>1. fs[i] \in Entry /\ fs[n - 1] \in Entry
        BY <1>2
      <4>2. \A f \in Entry : f.base \in Int /\ End(f) \in Int /\ f.base <= End(f)
        BY EntryCells
      <4>3. QED BY <4>1, <4>2
    <3>3. QED BY <2>1, <3>1, <3>2, <1>6
  <2>4. QED BY <2>2, <2>3
<1>8. gs # <<>> => Last(fs).bp = BaseIn(Last(gs))
  <2> SUFFICES ASSUME gs # <<>> PROVE Last(fs).bp = BaseIn(Last(gs))
    OBVIOUS
  <2>1. n - 1 \in 1 .. n - 1 /\ Last(gs) = fs[n - 1] /\ (n - 1) + 1 = n
    BY <1>1, <1>6
  <2>2. fs[(n - 1) + 1].bp = BaseIn(fs[n - 1])
    BY <2>1 DEF Intact, Chained, n
  <2>3. QED BY <2>1, <2>2, <1>1
<1>9. QED BY <1>3, <1>4, <1>5, <1>7, <1>8 DEF Intact, gs

-----------------------------------------------------------------------------
(***************************************************************************)
(* What a step of the CPU does to the stack, SP and BP.                    *)
(***************************************************************************)
\* Stores of a step, if any, are one through BP.
Aside == \/ stack' = stack
         \/ /\ Storing /\ Mode = "BPI"
            /\ \E p \in Operand(Mode), v \in Byte : stack' = [stack EXCEPT ![p.at] = v]

Handles(ops) == \A op \in {"PUSH", "POP", "CALL", "ENTER", "LEAVE", "RET", "RET_I", "RESET"} \ ops :
                  ~Executing(op)

\* Only an operand below BP is on the stack.
LEMMA StackOperand ==
  ASSUME TypeOK, Mode \in LValue, NEW p \in Operand(Mode), p.space = "stack"
  PROVE  Mode = "BPI" /\ p.at \in Byte
<1>1. Mode = "BPI"
  BY DEF LValue, RValue, Register, Operand
<1>2. Operand(Mode) \subseteq CellPlace
  BY OperandType
<1>3. QED BY <1>1, <1>2 DEF CellPlace

\* An assignment to an operand is such a store.
LEMMA AssignAside ==
  ASSUME TypeOK, Mode \in LValue, NEW p \in Operand(Mode), NEW acc, NEW v \in Byte,
         Assign(acc, p, v), Storing
  PROVE  Aside
<1>1. CASE p.space = "stack"
  <2>1. stack' = [stack EXCEPT ![p.at] = v]
    BY <1>1 DEF Assign
  <2>2. QED BY <1>1, <2>1, StackOperand DEF Aside
<1>2. CASE p.space # "stack"
  BY <1>2 DEF Assign, Aside
<1>3. QED BY <1>1, <1>2

\* The steps that leave SP and BP alone.
LEMMA PlainSteps ==
  ASSUME TypeOK, Next, Handles({})
  PROVE  sp' = sp /\ bp' = bp /\ Aside
<1> DEFINE Goal == sp' = sp /\ bp' = bp /\ Aside
<1>1. CASE \/ NOOP \/ HALT \/ SetFlag \/ CLRA \/ AccOp \/ CMP
           \/ InPlaceHL \/ OPW \/ Index \/ JMP \/ Jcc \/ JEXT
  BY <1>1 DEF NOOP, HALT, SetFlag, CLRA, AccOp, CMP, InPlaceHL, OPW, Index, JMP, Jcc, JEXT, Aside
<1>2. CASE Answer \/ Crash
  BY <1>2 DEF Answer, Crash, Aside
<1>3. CASE RESET
  BY <1>3 DEF RESET, Handles
<1>4. CASE STORE
  <2>1. PICK p \in Operand(Mode) : Assign(reg.ACC, p, reg.ACC)
    BY <1>4 DEF STORE
  <2>2. reg.ACC \in Byte /\ Storing /\ Mode \in LValue /\ sp' = sp /\ bp' = bp
    BY <1>4, RegisterType DEF STORE, Storing
  <2>3. QED BY <2>1, <2>2, AssignAside
<1>5. CASE XCH
  <2>1. PICK p \in Operand(Mode) : Assign(Read(p), p, reg.ACC)
    BY <1>5 DEF XCH
  <2>2. reg.ACC \in Byte /\ Storing /\ Mode \in LValue /\ sp' = sp /\ bp' = bp
    BY <1>5, RegisterType DEF XCH, Storing
  <2>3. QED BY <2>1, <2>2, AssignAside
<1>6. CASE InPlace
  <2>1. PICK op \in UnaryOps, p \in Operand(Mode) :
          Executing(op) /\ Assign(reg.ACC, p, Unary(op, Read(p), CARRY).val)
    BY <1>6 DEF InPlace
  <2>2. Storing /\ Mode \in LValue /\ sp' = sp /\ bp' = bp
    BY <1>6, <2>1 DEF InPlace, Storing
  <2>3. Read(p) \in Byte /\ CARRY \in {0, 1}
    BY <2>2, OperandType, ReadType, RegisterType
  <2>4. Unary(op, Read(p), CARRY).val \in Byte
    BY <2>3, UnaryByte
  <2>5. QED BY <2>1, <2>2, <2>4, AssignAside
<1>7. CASE PUSH \/ POP \/ CALL \/ RET \/ RET_I \/ ENTER \/ LEAVE
  BY <1>7 DEF PUSH, POP, CALL, RET, RET_I, ENTER, LEAVE, Handles
<1>8. QED
  BY <1>1, <1>2, <1>3, <1>4, <1>5, <1>6, <1>7 DEF Next, stepCpu, Execute

\* An instruction that handles the stack is executed by the action of its name.
LEMMA StackDispatch ==
  ASSUME Next
  PROVE  /\ Executing("PUSH")  => PUSH  /\ Handles({"PUSH"})
         /\ Executing("POP")   => POP   /\ Handles({"POP"})
         /\ Executing("CALL")  => CALL  /\ Handles({"CALL"})
         /\ Executing("ENTER") => ENTER /\ Handles({"ENTER"})
         /\ Executing("LEAVE") => LEAVE /\ Handles({"LEAVE"})
         /\ Executing("RET")   => RET   /\ Handles({"RET"})
         /\ Executing("RET_I") => RET_I /\ Handles({"RET_I"})
         /\ Executing("RESET") => RESET /\ Handles({"RESET"})
<1>1. ASSUME NEW op \in {"PUSH", "POP", "CALL", "ENTER", "LEAVE", "RET", "RET_I", "RESET"},
             Executing(op)
      PROVE  /\ Handles({op})
             /\ ~Answer /\ ~Crash
             /\ ~NOOP /\ ~HALT /\ ~SetFlag /\ ~CLRA /\ ~AccOp /\ ~CMP /\ ~STORE /\ ~XCH
             /\ ~InPlace /\ ~InPlaceHL /\ ~OPW /\ ~Index /\ ~JMP /\ ~Jcc /\ ~JEXT
  <2>1. Instruction[1] = op /\ run = "running"
    BY <1>1 DEF Executing
  <2>2. Handles({op})
    BY <2>1 DEF Handles, Executing
  <2>3. /\ ~Answer /\ ~NOOP /\ ~HALT /\ ~SetFlag /\ ~CLRA /\ ~CMP
        /\ ~STORE /\ ~XCH /\ ~Index /\ ~JMP /\ ~JEXT
    BY <2>1 DEF Executing, Answer, NOOP, HALT, SetFlag, FlagOps, CLRA, CMP,
                STORE, XCH, Index, JMP, JEXT
  <2>4. op \notin AccOps /\ op \notin WideOps /\ op \notin UnaryOps /\ op \notin DOMAIN Taken
    BY DEF AccOps, WideOps, UnaryOps, Taken
  <2>5. ~AccOp /\ ~InPlace /\ ~InPlaceHL /\ ~OPW /\ ~Jcc /\ ~Crash
    BY <2>1, <2>4 DEF Executing, AccOp, InPlace, InPlaceHL, OPW, Jcc, Crash
  <2>6. QED BY <2>2, <2>3, <2>5
<1>2. ASSUME NEW op \in {"PUSH", "POP", "CALL", "ENTER", "LEAVE", "RET", "RET_I", "RESET"},
             Executing(op)
      PROVE  /\ Handles({op})
             /\ PUSH \/ POP \/ CALL \/ ENTER \/ LEAVE \/ RET \/ RET_I \/ RESET
  BY <1>1, <1>2 DEF Next, stepCpu, Execute
<1>3. /\ (PUSH => Executing("PUSH")) /\ (POP => Executing("POP")) /\ (CALL => Executing("CALL"))
      /\ (ENTER => Executing("ENTER")) /\ (LEAVE => Executing("LEAVE")) /\ (RET => Executing("RET"))
      /\ (RET_I => Executing("RET_I")) /\ (RESET => Executing("RESET"))
  BY DEF PUSH, POP, CALL, ENTER, LEAVE, RET, RET_I, RESET
<1>4. \A o1, o2 : Executing(o1) /\ Executing(o2) => o1 = o2
  BY DEF Executing
<1>5. QED BY <1>2, <1>3, <1>4

-----------------------------------------------------------------------------
(***************************************************************************)
(* The history of a step.                                                  *)
(***************************************************************************)
\* However far SP moves, the height moves by as much.
LEMMA HeightIsSP ==
  ASSUME NEW h \in Int, NEW s \in Byte, NEW t \in Byte, s = Wrap8(h)
  PROVE  /\ h + 1 + Wrap8(t - s - 1) \in Int /\ Wrap8(h + 1 + Wrap8(t - s - 1)) = t
         /\ h - 2 - Wrap8(s - 2 - t) \in Int /\ Wrap8(h - 2 - Wrap8(s - 2 - t)) = t
         /\ h - Wrap8(s - t) \in Int /\ Wrap8(h - Wrap8(s - t)) = t
         /\ Wrap8(t - s - 1) >= 0
<1>1. s \in Int /\ 0 <= s /\ s <= 255 /\ t \in Int /\ 0 <= t /\ t <= 255
  BY ByteInt
<1>. t - s - 1 \in Int /\ s - 2 - t \in Int /\ s - t \in Int
  BY <1>1
<1>2. PICK q \in Int : h = 256 * q + s
  <2>1. h = 256 * (h \div 256) + (h % 256) /\ h \div 256 \in Int
    OBVIOUS
  <2>2. QED BY <2>1 DEF Wrap8
<1>3. \A x \in Int : Wrap8(x) \in Int /\ Wrap8(x) >= 0 /\ \E k \in Int : x = 256 * k + Wrap8(x)
  <2> SUFFICES ASSUME NEW x \in Int
               PROVE  Wrap8(x) \in Int /\ Wrap8(x) >= 0 /\ \E k \in Int : x = 256 * k + Wrap8(x)
    OBVIOUS
  <2>1. x = 256 * (x \div 256) + (x % 256) /\ x \div 256 \in Int /\ x % 256 \in Int /\ x % 256 >= 0
    OBVIOUS
  <2>2. QED BY <2>1 DEF Wrap8
<1>4. \A k \in Int : Wrap8(256 * k + t) = t
  BY <1>1 DEF Wrap8
<1>5. Wrap8(h + 1 + Wrap8(t - s - 1)) = t
  <2>1. PICK x \in Int : x = t - s - 1
    OBVIOUS
  <2>2. PICK k \in Int : x = 256 * k + Wrap8(x)
    BY <1>3
  <2>3. PICK w \in Int : w = Wrap8(x)
    BY <1>3
  <2>4. q - k \in Int /\ h + 1 + w = 256 * (q - k) + t
    <3>1. x = 256 * k + w
      BY <2>2, <2>3
    <3>2. h = 256 * q + s /\ t \in Int /\ s \in Int
      BY <1>1, <1>2
    <3>3. q - k \in Int /\ 256 * (q - k) = 256 * q - 256 * k
      OBVIOUS
    <3>4. QED BY <3>1, <3>2, <3>3, <2>1
  <2>5. PICK m \in Int : m = q - k
    BY <2>4
  <2>6. Wrap8(256 * m + t) = t
    BY <1>4
  <2>7. QED BY <2>1, <2>3, <2>4, <2>5, <2>6
<1>6. Wrap8(h - 2 - Wrap8(s - 2 - t)) = t
  <2>1. PICK x \in Int : x = s - 2 - t
    OBVIOUS
  <2>2. PICK k \in Int : x = 256 * k + Wrap8(x)
    BY <1>3
  <2>3. PICK w \in Int : w = Wrap8(x)
    BY <1>3
  <2>4. q + k \in Int /\ h - 2 - w = 256 * (q + k) + t
    <3>1. x = 256 * k + w
      BY <2>2, <2>3
    <3>2. h = 256 * q + s /\ t \in Int /\ s \in Int
      BY <1>1, <1>2
    <3>3. q + k \in Int /\ 256 * (q + k) = 256 * q + 256 * k
      OBVIOUS
    <3>4. QED BY <3>1, <3>2, <3>3, <2>1
  <2>5. PICK m \in Int : m = q + k
    BY <2>4
  <2>6. Wrap8(256 * m + t) = t
    BY <1>4
  <2>7. QED BY <2>1, <2>3, <2>4, <2>5, <2>6
<1>7. Wrap8(h - Wrap8(s - t)) = t
  <2>1. PICK x \in Int : x = s - t
    OBVIOUS
  <2>2. PICK k \in Int : x = 256 * k + Wrap8(x)
    BY <1>3
  <2>3. PICK w \in Int : w = Wrap8(x)
    BY <1>3
  <2>4. q + k \in Int /\ h - w = 256 * (q + k) + t
    <3>1. x = 256 * k + w
      BY <2>2, <2>3
    <3>2. h = 256 * q + s /\ t \in Int /\ s \in Int
      BY <1>1, <1>2
    <3>3. q + k \in Int /\ 256 * (q + k) = 256 * q + 256 * k
      OBVIOUS
    <3>4. QED BY <3>1, <3>2, <3>3, <2>1
  <2>5. PICK m \in Int : m = q + k
    BY <2>4
  <2>6. Wrap8(256 * m + t) = t
    BY <1>4
  <2>7. QED BY <2>1, <2>3, <2>4, <2>5, <2>6
<1>8. /\ Wrap8(t - s - 1) \in Int /\ Wrap8(t - s - 1) >= 0
      /\ Wrap8(s - 2 - t) \in Int /\ Wrap8(s - t) \in Int
  BY <1>3
<1>9. QED BY <1>5, <1>6, <1>7, <1>8

\* While the stack holds no more than 256 bytes, SP below the top is the height.
LEMMA SPBelowTop ==
  ASSUME NEW h \in Int, 0 <= h, h <= 255
  PROVE  Wrap8(h) = h
  BY DEF Wrap8

\* Which of the four forms of Height a step has.
LEMMA HeightOfStep ==
  ASSUME NEW op \in {"PUSH", "POP", "CALL", "ENTER", "LEAVE", "RET", "RET_I", "RESET"}
  PROVE  /\ Handles({}) => Height = height - Wrap8(sp - sp')
         /\ Executing(op) /\ Handles({op}) =>
              /\ op \in {"PUSH", "CALL", "ENTER"} => Height = height + 1 + Wrap8(sp' - sp - 1)
              /\ op \in {"RET", "RET_I"} => Height = height - 2 - Wrap8(sp - 2 - sp')
              /\ op = "RESET" => Height = 0
              /\ op \in {"POP", "LEAVE"} => Height = height - Wrap8(sp - sp')
  BY DEF Height, Pushing, Returning, Handles, Executing

\* Some instruction handles the stack, or none does.
LEMMA AnyHandles ==
  ASSUME Next
  PROVE  \/ Handles({})
         \/ \E op \in {"PUSH", "POP", "CALL", "ENTER", "LEAVE", "RET", "RET_I", "RESET"} :
              Executing(op) /\ Handles({op})
  BY DEF Handles, Executing

\* The height goes on being SP without its wraps.
LEMMA HeightStep ==
  ASSUME TypeOK, TypeOK', HistoryOK, Next, Record
  PROVE  /\ height' \in Int /\ peak' \in Int /\ height' <= peak' /\ peak <= peak'
         /\ sp' = Wrap8(height')
<1>1. height \in Int /\ sp \in Byte /\ sp' \in Byte /\ sp = Wrap8(height) /\ peak \in Int
  BY DEF TypeOK, HistoryOK
<1>2. Height \in Int /\ Wrap8(Height) = sp'
  <2>1. CASE Handles({})
    BY <1>1, <2>1, HeightOfStep, HeightIsSP
  <2>2. ASSUME NEW op \in {"PUSH", "POP", "CALL", "ENTER", "LEAVE", "RET", "RET_I", "RESET"},
               Executing(op), Handles({op})
        PROVE  Height \in Int /\ Wrap8(Height) = sp'
    <3>1. CASE op \in {"PUSH", "CALL", "ENTER"}
      <4>1. Height = height + 1 + Wrap8(sp' - sp - 1)
        BY <2>2, <3>1, HeightOfStep
      <4>2. QED BY <4>1, <1>1, HeightIsSP
    <3>2. CASE op \in {"RET", "RET_I"}
      <4>1. Height = height - 2 - Wrap8(sp - 2 - sp')
        BY <2>2, <3>2, HeightOfStep
      <4>2. QED BY <4>1, <1>1, HeightIsSP
    <3>3. CASE op \in {"POP", "LEAVE"}
      <4>1. Height = height - Wrap8(sp - sp')
        BY <2>2, <3>3, HeightOfStep
      <4>2. QED BY <4>1, <1>1, HeightIsSP
    <3>4. CASE op = "RESET"
      <4>1. RESET /\ Height = 0
        BY <2>2, <3>4, HeightOfStep, StackDispatch
      <4>2. sp' = 0 /\ Wrap8(0) = 0
        BY <4>1 DEF RESET, Wrap8
      <4>3. QED BY <4>1, <4>2
    <3>5. QED BY <2>2, <3>1, <3>2, <3>3, <3>4
  <2>3. QED BY <2>1, <2>2, AnyHandles
<1>3. height' = Height /\ peak' = IF Height > peak THEN Height ELSE peak
  BY DEF Record
<1>4. QED BY <1>1, <1>2, <1>3

-----------------------------------------------------------------------------
(***************************************************************************)
(* The invariant.                                                          *)
(***************************************************************************)
\* Linkage lies within the 256 bytes of the stack.
LEMMA CellsAreBytes ==
  ASSUME NEW fs \in Seq(Entry), NEW i \in 1 .. Len(fs) PROVE Cells(fs[i]) \subseteq Byte
<1>1. fs[i] \in Entry
  BY ElementOfSeq
<1>2. fs[i].base \in Byte /\ Wrap8(fs[i].base + 1) \in Byte
  <2>1. fs[i].base \in Int /\ fs[i].base \in Byte
    BY <1>1, EntryCells DEF Entry
  <2>2. fs[i].base + 1 \in Int
    BY <2>1
  <2>3. QED BY <2>1, <2>2, WrapType
<1>3. QED BY <1>1, <1>2, EntryCells

\* A store elsewhere leaves linkage alone.
LEMMA StoreElsewhere ==
  ASSUME TypeOK, NEW fs \in Seq(Entry), NEW a, NEW v, stack' = [stack EXCEPT ![a] = v],
         \A i \in 1 .. Len(fs) : a \notin Cells(fs[i])
  PROVE  \A i \in 1 .. Len(fs) : \A c \in Cells(fs[i]) : stack'[c] = stack[c]
<1> SUFFICES ASSUME NEW i \in 1 .. Len(fs), NEW c \in Cells(fs[i]) PROVE stack'[c] = stack[c]
  OBVIOUS
<1>1. c \in Byte /\ c # a
  BY CellsAreBytes
<1>2. QED BY <1>1 DEF TypeOK

\* A push, of one byte or more, starts above the ceiling.
LEMMA PushAbove ==
  ASSUME TypeOK, HistoryOK, peak <= 256 => Intact(frames, stack, bp),
         peak <= 256, NEW room \in Int, room >= 1, height + room <= 256
  PROVE  /\ sp = height /\ Ceiling(frames) <= sp /\ sp + room <= 256
         /\ \A i \in 1 .. Len(frames) : \A c \in Cells(frames[i]) : c \in Byte /\ c < sp
<1>1. /\ frames \in Seq(Entry) /\ height \in Int /\ sp = Wrap8(height)
      /\ Ceiling(frames) <= height /\ Ceiling(frames) \in Int /\ 0 <= Ceiling(frames)
  BY CeilingInt DEF HistoryOK
<1>2. 0 <= height /\ height <= 255
  BY <1>1
<1>3. sp = height
  BY <1>1, <1>2, SPBelowTop
<1>4. Ceiling(frames) <= 256 /\ Within(frames)
  BY <1>1, <1>2 DEF Intact
<1>5. ASSUME NEW i \in 1 .. Len(frames), NEW c \in Cells(frames[i])
      PROVE  c \in Byte /\ c < sp
  <2>1. c \in Int /\ 0 <= c /\ c < Ceiling(frames)
    BY <1>1, <1>4, CellsBelow
  <2>2. c \in Byte
    BY CellsAreBytes, <1>1
  <2>3. QED BY <2>1, <2>2, <1>1, <1>3
<1>6. QED BY <1>1, <1>3, <1>5

\* Two halves of a word make the word.
LEMMA PairHiLo == \A w \in Word16 : Pair(Hi(w), Lo(w)) = w
<1> SUFFICES ASSUME NEW w \in Word16 PROVE Pair(Hi(w), Lo(w)) = w
  OBVIOUS
<1>1. w \in Int
  BY WordInt
<1>2. w = 256 * (w \div 256) + (w % 256)
  BY <1>1
<1>3. QED BY <1>2 DEF Pair, Hi, Lo

\* The frames of a step: what Record makes of them.
LEMMA FramesOfStep ==
  ASSUME Record
  PROVE  /\ Handles({}) => frames' = frames
         /\ Executing("PUSH") /\ Handles({"PUSH"}) => frames' = frames
         /\ Executing("POP") /\ Handles({"POP"}) => frames' = frames
         /\ Executing("CALL") => frames' = Append(frames, Frame("CALL", After(3)))
         /\ Executing("ENTER") /\ Handles({"ENTER"}) =>
              frames' = Append(frames, Frame("ENTER", After(2)))
         /\ \A op \in {"RET", "RET_I", "LEAVE"} :
              Executing(op) /\ Handles({op}) /\ frames # <<>> => frames' = Front(frames)
         /\ Executing("RESET") /\ Handles({"RESET"}) => frames' = <<>>
  BY DEF Record, Returning, Handles, Executing

\* A frame put on is one.
LEMMA FrameType ==
  ASSUME TypeOK
  PROVE  /\ Frame("CALL", After(3)) \in Entry /\ Frame("ENTER", After(2)) \in Entry
         /\ After(3) \in Word16
<1>1. After(3) \in Word16 /\ After(2) \in Word16
  <2>1. pc + 3 \in Int /\ pc + 2 \in Int
    BY WordInt DEF TypeOK
  <2>2. QED BY <2>1, WrapType DEF After
<1>2. sp \in Byte /\ bp \in Byte
  BY DEF TypeOK
<1>3. QED BY <1>1, <1>2 DEF Frame, Entry

\* A step that leaves the stack to others, and stores beside the linkage.
LEMMA PlainKeeps ==
  ASSUME TypeOK, Inv, Next, Record, Orderly, Handles({}), peak <= 256
  PROVE  Intact(frames', stack', bp')
<1>1. bp' = bp /\ Aside /\ frames' = frames /\ frames \in Seq(Entry) /\ Intact(frames, stack, bp)
  BY PlainSteps, FramesOfStep DEF Inv, HistoryOK
<1>2. \A i \in 1 .. Len(frames) : \A c \in Cells(frames[i]) : stack'[c] = stack[c]
  <2>1. CASE stack' = stack
    BY <2>1
  <2>2. CASE stack' # stack
    <3>1. Storing /\ Mode = "BPI"
      BY <1>1, <2>2 DEF Aside
    <3>2. PICK p \in Operand(Mode), v \in Byte : stack' = [stack EXCEPT ![p.at] = v]
      BY <1>1, <2>2 DEF Aside
    <3>3. \A i \in DOMAIN frames : p.at \notin Cells(frames[i])
      BY <3>1 DEF Orderly
    <3>4. DOMAIN frames = 1 .. Len(frames)
      BY <1>1
    <3>5. QED BY <1>1, <3>2, <3>3, <3>4, StoreElsewhere
  <2>3. QED BY <2>1, <2>2
<1>3. Intact(frames, stack', bp)
  BY <1>1, <1>2, KeepsFrames
<1>4. QED BY <1>1, <1>3

\* PUSH writes above all linkage.
LEMMA PushKeeps ==
  ASSUME TypeOK, TypeOK', Inv, Next, Record, Executing("PUSH"), peak <= 256, peak' <= 256
  PROVE  Intact(frames', stack', bp')
<1>1. PUSH /\ Handles({"PUSH"})
  BY StackDispatch
<1>2. frames' = frames /\ bp' = bp /\ frames \in Seq(Entry) /\ Intact(frames, stack, bp)
  BY <1>1, FramesOfStep DEF PUSH, Inv, HistoryOK
<1>3. height + 1 <= 256
  <2>1. height' = height + 1 + Wrap8(sp' - sp - 1)
    BY <1>1, HeightOfStep DEF Record
  <2>2. Wrap8(sp' - sp - 1) \in Int /\ Wrap8(sp' - sp - 1) >= 0 /\ height \in Int
    <3>1. sp' \in Byte /\ sp \in Byte /\ sp = Wrap8(height) /\ height \in Int
      BY DEF TypeOK, Inv, HistoryOK
    <3>2. sp' - sp - 1 \in Int
      BY <3>1, ByteInt
    <3>3. QED BY <3>1, <3>2, WrapType, ByteInt
  <2>3. height' <= peak' /\ peak' \in Int /\ height' \in Int
    BY HeightStep DEF Inv
  <2>4. QED BY <2>1, <2>2, <2>3
<1>4. \A i \in 1 .. Len(frames) : \A c \in Cells(frames[i]) : c \in Byte /\ c < sp
  BY <1>3, PushAbove DEF Inv
<1>5. PICK v : stack' = [stack EXCEPT ![sp] = v]
  BY <1>1 DEF PUSH
<1>6. sp \in Int
  BY ByteInt DEF TypeOK
<1>7. \A i \in 1 .. Len(frames) : sp \notin Cells(frames[i])
  BY <1>4, <1>6
<1>8. \A i \in 1 .. Len(frames) : \A c \in Cells(frames[i]) : stack'[c] = stack[c]
  BY <1>2, <1>5, <1>7, StoreElsewhere
<1>9. QED BY <1>2, <1>8, KeepsFrames

\* POP writes, if it does, beside it.
LEMMA PopKeeps ==
  ASSUME TypeOK, Inv, Next, Record, Orderly, Executing("POP"), peak <= 256
  PROVE  Intact(frames', stack', bp')
<1>1. POP /\ Handles({"POP"})
  BY StackDispatch
<1>2. frames' = frames /\ frames \in Seq(Entry) /\ Intact(frames, stack, bp) /\ Mode # "BP"
  BY <1>1, FramesOfStep DEF Inv, HistoryOK, Orderly
<1>3. bp' = bp /\ Aside
  <2>1. CASE Mode \in LValue /\ bp' = bp /\ \E p \in Operand(Mode) : Assign(reg.ACC, p, Top(1))
    <3>1. PICK p \in Operand(Mode) : Assign(reg.ACC, p, Top(1))
      BY <2>1
    <3>2. Top(1) \in Byte /\ Storing
      BY <1>1, TopByte DEF POP, Storing
    <3>3. QED BY <2>1, <3>1, <3>2, AssignAside
  <2>2. CASE UNCHANGED <<reg, bp, memory, stack>>
    BY <2>2 DEF Aside
  <2>3. QED BY <1>1, <1>2, <2>1, <2>2 DEF POP
<1>4. \A i \in 1 .. Len(frames) : \A c \in Cells(frames[i]) : stack'[c] = stack[c]
  <2>1. CASE stack' = stack
    BY <2>1
  <2>2. CASE stack' # stack
    <3>1. Storing /\ Mode = "BPI"
      BY <1>3, <2>2 DEF Aside
    <3>2. PICK p \in Operand(Mode), v \in Byte : stack' = [stack EXCEPT ![p.at] = v]
      BY <1>3, <2>2 DEF Aside
    <3>3. \A i \in DOMAIN frames : p.at \notin Cells(frames[i])
      BY <3>1 DEF Orderly
    <3>4. DOMAIN frames = 1 .. Len(frames)
      BY <1>2
    <3>5. QED BY <1>2, <3>2, <3>3, <3>4, StoreElsewhere
  <2>3. QED BY <2>1, <2>2
<1>5. QED BY <1>2, <1>3, <1>4, KeepsFrames

\* CALL adds a frame on top.
LEMMA CallKeeps ==
  ASSUME TypeOK, TypeOK', Inv, Next, Record, Executing("CALL"), peak <= 256, peak' <= 256
  PROVE  Intact(frames', stack', bp')
<1> DEFINE f == Frame("CALL", After(3))
<1>1. CALL /\ Handles({"CALL"})
  BY StackDispatch
<1>2. /\ frames' = Append(frames, f) /\ bp' = bp /\ sp' = Wrap8(sp + 2)
      /\ frames \in Seq(Entry) /\ Intact(frames, stack, bp)
      /\ stack' = [stack EXCEPT ![sp] = Hi(After(3)), ![Wrap8(sp + 1)] = Lo(After(3))]
  BY <1>1, FramesOfStep DEF CALL, Inv, HistoryOK
<1>3. sp \in Byte /\ sp \in Int /\ 0 <= sp /\ sp <= 255 /\ stack \in [Byte -> Byte]
  BY ByteInt DEF TypeOK
<1>4. height + 2 <= 256 /\ height \in Int
  <2>1. height' = height + 1 + Wrap8(sp' - sp - 1)
    BY <1>1, HeightOfStep DEF Record
  <2>2. Wrap8(sp' - sp - 1) = 1
    BY <1>2, <1>3 DEF Wrap8
  <2>3. height' <= peak' /\ peak' \in Int /\ height \in Int
    BY HeightStep DEF Inv, HistoryOK
  <2>4. QED BY <2>1, <2>2, <2>3
<1>5. /\ Ceiling(frames) <= sp /\ sp + 2 <= 256
      /\ \A i \in 1 .. Len(frames) : \A c \in Cells(frames[i]) : c \in Byte /\ c < sp
  BY <1>4, PushAbove DEF Inv
<1>6. Wrap8(sp + 1) = sp + 1 /\ sp + 1 \in Byte /\ sp + 1 # sp
  <2>1. sp + 1 \in Int /\ 0 <= sp + 1 /\ sp + 1 <= 255
    BY <1>3, <1>5
  <2>2. QED BY <2>1, <1>3, ByteInt, SPBelowTop
<1>7. \A c \in Byte : c < sp => stack'[c] = stack[c]
  BY <1>2, <1>3, <1>6, ByteInt
<1>8. stack'[sp] = Hi(After(3)) /\ stack'[sp + 1] = Lo(After(3))
  BY <1>2, <1>3, <1>6
<1>9. /\ f \in Entry /\ f.kind = "CALL" /\ f.base = sp /\ f.bp = bp /\ f.ret = After(3)
      /\ After(3) \in Word16
  BY FrameType DEF Frame
<1> HIDE DEF f
<1>10. Held(f, stack')
  BY <1>6, <1>8, <1>9, PairHiLo DEF Held
<1>11. \A i \in 1 .. Len(frames) : \A c \in Cells(frames[i]) : stack'[c] = stack[c]
  BY <1>5, <1>7
<1>12. Intact(Append(frames, f), stack', BaseIn(f))
  BY <1>2, <1>5, <1>9, <1>10, <1>11, AddsFrame
<1>13. BaseIn(f) = bp
  BY <1>9 DEF BaseIn
<1>14. QED BY <1>2, <1>12, <1>13

\* So does ENTER, and points BP behind it.
LEMMA EnterKeeps ==
  ASSUME TypeOK, TypeOK', Inv, Next, Record, Executing("ENTER"), peak <= 256, peak' <= 256
  PROVE  Intact(frames', stack', bp')
<1> DEFINE f == Frame("ENTER", After(2))
<1>1. ENTER /\ Handles({"ENTER"})
  BY StackDispatch
<1>2. /\ frames' = Append(frames, f) /\ bp' = Wrap8(sp + 1)
      /\ frames \in Seq(Entry) /\ Intact(frames, stack, bp)
      /\ stack' = [stack EXCEPT ![sp] = bp]
  BY <1>1, FramesOfStep DEF ENTER, Inv, HistoryOK
<1>3. sp \in Byte /\ sp \in Int /\ stack \in [Byte -> Byte]
  BY ByteInt DEF TypeOK
<1>4. height + 1 <= 256
  <2>1. height' = height + 1 + Wrap8(sp' - sp - 1)
    BY <1>1, HeightOfStep DEF Record
  <2>2. Wrap8(sp' - sp - 1) \in Int /\ Wrap8(sp' - sp - 1) >= 0 /\ height \in Int
    <3>1. sp' \in Byte /\ sp \in Byte /\ sp = Wrap8(height) /\ height \in Int
      BY DEF TypeOK, Inv, HistoryOK
    <3>2. sp' - sp - 1 \in Int
      BY <3>1, ByteInt
    <3>3. QED BY <3>1, <3>2, WrapType, ByteInt
  <2>3. height' <= peak' /\ peak' \in Int /\ height' \in Int
    BY HeightStep DEF Inv
  <2>4. QED BY <2>1, <2>2, <2>3
<1>5. /\ Ceiling(frames) <= sp
      /\ \A i \in 1 .. Len(frames) : \A c \in Cells(frames[i]) : c \in Byte /\ c < sp
  BY <1>4, PushAbove DEF Inv
<1>6. \A i \in 1 .. Len(frames) : sp \notin Cells(frames[i])
  BY <1>3, <1>5
<1>7. \A i \in 1 .. Len(frames) : \A c \in Cells(frames[i]) : stack'[c] = stack[c]
  BY <1>2, <1>6, StoreElsewhere
<1>8. f \in Entry /\ f.kind = "ENTER" /\ f.base = sp /\ f.bp = bp
  BY FrameType DEF Frame
<1> HIDE DEF f
<1>9. Held(f, stack')
  BY <1>2, <1>3, <1>8 DEF Held
<1>10. Intact(Append(frames, f), stack', BaseIn(f))
  BY <1>2, <1>5, <1>7, <1>8, <1>9, AddsFrame
<1>11. BaseIn(f) = bp'
  BY <1>2, <1>8 DEF BaseIn
<1>12. QED BY <1>2, <1>10, <1>11

\* A return drops the latest call, with the base pointer it was made with.
LEMMA ReturnKeeps ==
  ASSUME TypeOK, Inv, Next, Record, Orderly, Returning, peak <= 256
  PROVE  /\ Intact(frames', stack', bp')
         /\ frames # <<>> /\ frames' = Front(frames)
         /\ Last(frames).kind = "CALL" /\ bp' = Last(frames).bp
         /\ height = End(Last(frames)) /\ Held(Last(frames), stack)
<1>1. /\ frames # <<>> /\ Last(frames).kind = "CALL" /\ height = End(Last(frames))
      /\ frames \in Seq(Entry) /\ Intact(frames, stack, bp)
  BY DEF Inv, HistoryOK, Orderly
<1>2. bp' = bp /\ stack' = stack /\ frames' = Front(frames)
  <2>1. CASE Executing("RET")
    <3>1. RET /\ Handles({"RET"})
      BY <2>1, StackDispatch
    <3>2. QED BY <1>1, <2>1, <3>1, FramesOfStep DEF RET
  <2>2. CASE Executing("RET_I")
    <3>1. RET_I /\ Handles({"RET_I"})
      BY <2>2, StackDispatch
    <3>2. QED BY <1>1, <2>2, <3>1, FramesOfStep DEF RET_I
  <2>3. QED BY <2>1, <2>2 DEF Returning
<1>3. bp = Last(frames).bp
  BY <1>1 DEF Intact, BaseIn
<1>4. Intact(frames', stack', bp')
  BY <1>1, <1>2, <1>3, DropsFrame
<1>5. Held(Last(frames), stack)
  <2>1. Len(frames) \in 1 .. Len(frames) /\ Last(frames) = frames[Len(frames)]
    BY <1>1, LastAndFront
  <2>2. QED BY <2>1, <1>1 DEF Intact, AllHeld
<1>6. QED BY <1>1, <1>2, <1>3, <1>4, <1>5

\* LEAVE finds the base pointer that ENTER saved.
LEMMA LeaveKeeps ==
  ASSUME TypeOK, Inv, Next, Record, Orderly, Executing("LEAVE"), peak <= 256
  PROVE  Intact(frames', stack', bp')
<1> DEFINE f == Last(frames)
<1>1. LEAVE /\ Handles({"LEAVE"})
  BY StackDispatch
<1>2. frames # <<>> /\ f.kind = "ENTER" /\ frames \in Seq(Entry) /\ Intact(frames, stack, bp)
  BY DEF Inv, HistoryOK, Orderly
<1>3. Len(frames) \in 1 .. Len(frames) /\ f = frames[Len(frames)] /\ f \in Entry
  BY <1>2, LastAndFront
<1>4. stack[f.base] = f.bp /\ bp = Wrap8(f.base + 1)
  <2>1. Held(f, stack)
    BY <1>2, <1>3 DEF Intact, AllHeld
  <2>2. QED BY <1>2, <2>1 DEF Held, Intact, BaseIn
<1>5. Wrap8(bp - 1) = f.base
  <2>1. f.base \in Int /\ 0 <= f.base /\ f.base <= 255
    BY <1>3, EntryCells
  <2>2. QED BY <1>4, <2>1 DEF Wrap8
<1>6. bp' = f.bp /\ stack' = stack /\ frames' = Front(frames)
  BY <1>1, <1>2, <1>4, <1>5, FramesOfStep DEF LEAVE
<1>7. QED BY <1>2, <1>6, DropsFrame

\* The frames stay intact.
LEMMA FramesStep ==
  ASSUME TypeOK, TypeOK', Inv, Next, Record, Orderly, peak <= 256, peak' <= 256
  PROVE  Intact(frames', stack', bp')
<1>1. CASE Executing("RESET")
  <2>1. frames' = <<>>
    BY <1>1, StackDispatch, FramesOfStep
  <2>2. Len(<<>>) = 0 /\ \A i \in 1 .. 0 : FALSE
    OBVIOUS
  <2>3. Intact(<<>>, stack', bp')
    BY <2>2 DEF Intact, AllHeld, Stacked, Within, Chained
  <2>4. QED BY <2>1, <2>3
<1>2. QED
  BY <1>1, PlainKeeps, PushKeeps, PopKeeps, CallKeeps, EnterKeeps, ReturnKeeps, LeaveKeeps,
     AnyHandles DEF Returning

\* The history stays a sequence of frames.
LEMMA FramesType ==
  ASSUME TypeOK, Inv, Next, Record
  PROVE  frames' \in Seq(Entry)
<1>1. frames \in Seq(Entry)
  BY DEF Inv, HistoryOK
<1>2. Append(frames, Frame("CALL", After(3))) \in Seq(Entry)
      /\ Append(frames, Frame("ENTER", After(2))) \in Seq(Entry)
  BY <1>1, FrameType, AppendProperties
<1>3. frames # <<>> => Front(frames) \in Seq(Entry)
  BY <1>1, LastAndFront
<1>4. <<>> \in Seq(Entry)
  OBVIOUS
<1>5. QED BY <1>1, <1>2, <1>3, <1>4 DEF Record

\* A step of a guest in order keeps the invariant.
LEMMA InvStep == TypeOK /\ TypeOK' /\ Inv /\ [FNext]_cvars /\ [Orderly]_cvars => Inv'
<1> SUFFICES ASSUME TypeOK, TypeOK', Inv, [FNext]_cvars, [Orderly]_cvars PROVE Inv'
  OBVIOUS
<1>1. CASE Next /\ Record /\ Orderly
  <2>1. frames' \in Seq(Entry)
    BY <1>1, FramesType
  <2>2. /\ height' \in Int /\ peak' \in Int /\ height' <= peak' /\ peak <= peak'
        /\ sp' = Wrap8(height') /\ peak \in Int
    BY <1>1, HeightStep DEF Inv, HistoryOK
  <2>3. Ceiling(frames') <= height'
    <3>1. height' >= Floor' /\ Floor' = Ceiling(frames')
      BY <1>1 DEF Orderly, Floor, Ceiling
    <3>2. Ceiling(frames') \in Int
      BY <2>1, CeilingInt
    <3>3. QED BY <3>1, <3>2, <2>2
  <2>4. peak' <= 256 => Intact(frames', stack', bp')
    <3>1. peak' <= 256 => peak <= 256
      BY <2>2
    <3>2. QED BY <3>1, <1>1, FramesStep
  <2>5. QED BY <2>1, <2>2, <2>3, <2>4 DEF Inv, HistoryOK
<1>2. CASE UNCHANGED cvars
  BY <1>2 DEF cvars, history, vars, Inv, HistoryOK
<1>3. QED BY <1>1, <1>2 DEF FNext

\* Before the first instruction there are none.
LEMMA InitInv == FInit => Inv
<1> SUFFICES ASSUME FInit PROVE Inv
  OBVIOUS
<1>1. frames = <<>> /\ height = 0 /\ peak = 0 /\ sp = 0
  BY DEF FInit, Init, initCpu
<1>2. Wrap8(0) = 0 /\ Ceiling(<<>>) = 0 /\ <<>> \in Seq(Entry)
  BY DEF Wrap8, Ceiling
<1>3. Len(<<>>) = 0 /\ \A i \in 1 .. 0 : FALSE
  OBVIOUS
<1>4. Intact(<<>>, stack, bp)
  BY <1>3 DEF Intact, AllHeld, Stacked, Within, Chained
<1>5. QED BY <1>1, <1>2, <1>4 DEF Inv, HistoryOK

\* The history restrains nothing: what is true of the CPU is true of it here.
LEMMA CallTypes == FSpec => []TypeOK
<1>1. FInit => Init
  BY DEF FInit
<1>2. [FNext]_cvars => [Next]_vars
  BY DEF FNext, cvars
<1>3. FSpec => Spec
  BY <1>1, <1>2, PTL DEF FSpec, Spec
<1>4. QED BY <1>3, TypeCorrect, PTL

\* The invariant holds for every guest in order.
LEMMA Invariance == FSpec /\ GuestsInOrder => []Inv
<1>1. FInit => Inv
  BY InitInv
<1>2. QED BY <1>1, InvStep, CallTypes, PTL DEF FSpec, GuestsInOrder

\* Whatever a guest in order runs, and however deep it calls, as long as the stack has
\* held no more than 256 bytes every return address and saved base pointer lies where
\* CALL and ENTER put it.
THEOREM FramesStayIntact == FSpec /\ GuestsInOrder => []FramesIntact
<1>1. Inv => FramesIntact
  <2> SUFFICES ASSUME Inv, peak <= 256
               PROVE  /\ \A i \in DOMAIN frames : Untouched(frames[i])
                      /\ \A i, j \in DOMAIN frames : i < j => End(frames[i]) <= frames[j].base
    BY DEF FramesIntact
  <2>1. DOMAIN frames = 1 .. Len(frames) /\ Intact(frames, stack, bp)
    BY DEF Inv, HistoryOK
  <2>2. \A i \in 1 .. Len(frames) : Untouched(frames[i])
    BY <2>1 DEF Intact, AllHeld, Held, Untouched
  <2>3. QED BY <2>1, <2>2 DEF Intact, Stacked
<1>2. QED BY <1>1, Invariance, PTL

\* Counting back from a wrapped sum is counting back from the sum.
LEMMA WrapBack ==
  ASSUME NEW b \in Int, 0 <= b, b <= 255, NEW n \in Int
  PROVE  Wrap8(Wrap8(b + 2) - n) = Wrap8(b + 2 - n)
<1>1. CASE b <= 253
  <2>1. Wrap8(b + 2) = b + 2
    BY <1>1, SPBelowTop
  <2>2. QED BY <2>1
<1>2. CASE b > 253
  <2>1. Wrap8(b + 2) = b + 2 - 256
    BY <1>2 DEF Wrap8
  <2>2. PICK x \in Int : x = b + 2 - n
    OBVIOUS
  <2>3. Wrap8(x - 256) = Wrap8(x)
    BY DEF Wrap8
  <2>4. b + 2 - 256 - n = x - 256
    BY <2>2
  <2>5. QED BY <2>1, <2>2, <2>3, <2>4
<1>3. QED BY <1>1, <1>2

\* What a return does.
LEMMA ReturnStep ==
  ASSUME TypeOK, Inv, Next, Record, Orderly, Returning, frames # <<>>, peak <= 256
  PROVE  LET f == Last(frames)
         IN /\ f.kind = "CALL" /\ pc' = f.ret
            /\ bp' = f.bp
            /\ Executing("RET") => sp' = f.base
            /\ Executing("RET_I") => \E args \in Fetch(pc + 1) : sp' = Wrap8(f.base - args)
<1> DEFINE f == Last(frames)
<1>1. /\ f.kind = "CALL" /\ bp' = f.bp /\ height = End(f) /\ Held(f, stack)
      /\ frames \in Seq(Entry) /\ sp = Wrap8(height)
  BY ReturnKeeps DEF Inv, HistoryOK
<1>2. f \in Entry
  BY <1>1, LastAndFront
<1> HIDE DEF f
<1>3. f.base \in Int /\ 0 <= f.base /\ f.base <= 255 /\ End(f) = f.base + 2
  BY <1>1, <1>2, EntryCells
<1>4. sp = Wrap8(f.base + 2) /\ sp \in Int
  BY <1>1, <1>3 DEF Wrap8
<1>5. Wrap8(sp - 2) = f.base /\ Wrap8(sp - 1) = Wrap8(f.base + 1)
  <2>1. Wrap8(sp - 2) = Wrap8(f.base + 2 - 2) /\ Wrap8(sp - 1) = Wrap8(f.base + 2 - 1)
    BY <1>3, <1>4, WrapBack, SMTT(30)
  <2>2. f.base + 2 - 2 = f.base /\ f.base + 2 - 1 = f.base + 1
    BY <1>3
  <2>3. QED BY <2>1, <2>2, <1>3, SPBelowTop
<1>6. ReturnAddress = f.ret
  BY <1>1, <1>5 DEF ReturnAddress, Top, Held
<1>7. CASE Executing("RET")
  <2>1. RET /\ Handles({"RET"})
    BY <1>7, StackDispatch
  <2>2. ~Executing("RET_I")
    BY <1>7 DEF Executing
  <2>3. pc' = f.ret /\ sp' = f.base
    BY <2>1, <1>5, <1>6 DEF RET
  <2>4. QED BY <1>1, <2>2, <2>3 DEF f
<1>8. CASE Executing("RET_I")
  <2>1. RET_I /\ Handles({"RET_I"})
    BY <1>8, StackDispatch
  <2>2. ~Executing("RET")
    BY <1>8 DEF Executing
  <2>3. PICK args \in Fetch(pc + 1) : sp' = Wrap8(sp - 2 - args)
    BY <2>1 DEF RET_I
  <2>4. args \in Int
    BY FetchType, ByteInt
  <2>5. Wrap8(sp - 2 - args) = Wrap8(f.base - args)
    <3> PICK n \in Int : n = 2 + args
      BY <2>4
    <3>1. Wrap8(sp - n) = Wrap8(f.base + 2 - n)
      BY <1>3, <1>4, WrapBack
    <3>2. sp - n = sp - 2 - args /\ f.base + 2 - n = f.base - args
      BY <1>3, <1>4, <2>4
    <3>3. QED BY <3>1, <3>2
  <2>6. pc' = f.ret
    BY <2>1, <1>6 DEF RET_I
  <2>7. QED BY <1>1, <2>2, <2>3, <2>5, <2>6 DEF f
<1>9. QED BY <1>7, <1>8 DEF Returning

\* ... and every return goes back to its caller, with the caller's base pointer and the
\* stack as the caller left it.
THEOREM CallersRegained == FSpec /\ GuestsInOrder => ReturnsToCaller
<1>1. TypeOK /\ Inv /\ [FNext]_cvars /\ [Orderly]_cvars =>
        [Returning /\ frames # <<>> /\ peak <= 256 =>
           LET f == Last(frames)
           IN /\ f.kind = "CALL" /\ pc' = f.ret
              /\ bp' = f.bp
              /\ Executing("RET") => sp' = f.base
              /\ Executing("RET_I") => \E args \in Fetch(pc + 1) : sp' = Wrap8(f.base - args)
        ]_cvars
  BY ReturnStep DEF FNext
<1>2. QED BY <1>1, Invariance, CallTypes, PTL DEF FSpec, GuestsInOrder, ReturnsToCaller
=============================================================================
