---------------------------------- MODULE MCVm ----------------------------------
(***************************************************************************)
(* Vm with bytes of seven values, a memory of 49 cells, and four guests.   *)
(***************************************************************************)
EXTENDS Vm, Sequences, SequencesExt

MCByte == 0 .. 6
Imm(a) == <<a \div 7, a % 7>>
Start  == 8
Screen == 39

\* It draws for ever.
Drawing == <<OP_LOAD_I, 3, OP_STORE_IM>> \o Imm(Screen) \o <<OP_LOAD_I, 5, OP_STORE_IM>> \o Imm(Screen + 1)
             \o <<OP_JMP>> \o Imm(Start)
\* It writes the instruction that it executes next.
Rewriting == <<OP_LOAD_I, OP_JMP, OP_STORE_IM>> \o Imm(Start + 5) \o <<OP_HALT>> \o Imm(Start)
Resetting == <<OP_NOOP, OP_RESET>>
Trapping  == <<OP_ET, OP_NOOP, OP_NOOP, OP_HALT>>

Load(program) == [a \in 0 .. 48 |-> IF a - Start + 1 \in DOMAIN program THEN program[a - Start + 1] ELSE 0]

MCMemories == {Load(p) : p \in {Drawing, Rewriting, Resetting, Trapping}}
MCStretches == {0 .. 11, 12 .. 30, 31 .. 48}
=============================================================================
