-------------------------------- MODULE MCIsa --------------------------------
(***************************************************************************)
(* Every opcode of OP_TABLE, in every addressing mode, on operands and     *)
(* flags around the boundaries.  Each program is a prologue that fills the *)
(* registers, a page-zero cell, the cell at HL and a stack frame, then the *)
(* instruction under test and its operand bytes, then HALT.                *)
(***************************************************************************)
EXTENDS Cpu

CONSTANTS
  Accs,      (* Values of ACC.                                             *)
  Operands,  (* Values of R0, R1, the memory cells and the last operand byte. *)
  FlagBytes, (* Values of FLAGS.                                           *)
  Window     (* The addresses a program may run through.                   *)

LOAD_I(v) == <<8, v>>

Prologue(a, v, f) ==
  LOAD_I(v) \o <<20, 21>>             \* STORE R0; STORE R1
    \o <<24, 2, v>> \o <<18, 19>>     \* LOAD HL, 512 + v; STORE (L); STORE (HL)
    \o <<202, 2, 205, 0>>             \* ENTER 2; STORE {BP - 1}
    \o LOAD_I(a) \o <<184, f, 199>>   \* PUSH f; POP FLAGS

HighByte(op) == IF op = 175 THEN {1, 65, 129, 193} ELSE {2}

InstructionTests ==
  {Prologue(a, v, f) \o <<op, x, v>> \o <<1, 1, 1>> :
      <<op, x>> \in UNION {{op} \X HighByte(op) : op \in 0 .. 239},
      a \in Accs, v \in Operands, f \in FlagBytes}

\* The first instruction is HALT; one instruction wraps around the top of memory.
AtTop(at, op) == <<8, op, 17>> \o <<Hi(at), Lo(at)>> \o <<168>> \o <<Hi(at), Lo(at)>>
EdgeTests == {<<1>>} \cup {AtTop(at, op) : at \in 65533 .. 65535,
                                           op \in {8, 9, 16, 24, 152, 168, 200, 208, 209}}

IsaPrograms == InstructionTests \cup EdgeTests
IsaWindow == (PROGRAM_START .. PROGRAM_START + 32) \cup (65530 .. 65535)

IsaNext == pc \in Window /\ Next
IsaSpec == Init /\ [][IsaNext]_vars
=============================================================================
