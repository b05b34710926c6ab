-------------------------------- MODULE VmProofs --------------------------------
(***************************************************************************)
(* What two threads without a lock can rely on, for every size of the      *)
(* memory, every program and every number of events.                       *)
(***************************************************************************)
EXTENDS Vm, TLAPS

-----------------------------------------------------------------------------
(***************************************************************************)
(* Types.  What is in hand at a place of either thread is a byte there.    *)
(***************************************************************************)
Held == /\ main \in {"check", "store"} => input \in Byte
        /\ cpu = "lo" => hi \in Byte
        /\ cpu = "store" => hi \in Byte /\ lo \in Byte
TypeInv == TypeOK /\ Held

LEMMA SizeIsPositive == MEMORY_SIZE \in Nat /\ MEMORY_SIZE > 0 /\ 0 \in Byte /\ 0 \in Addr
  BY ByteAssumption DEF Addr

\* Two bytes make an address: no jump leaves the memory.
LEMMA TwoBytes == \A h, l \in Byte : Base * h + l \in Addr
<1> SUFFICES ASSUME NEW h \in Byte, NEW l \in Byte PROVE Base * h + l \in Addr
  OBVIOUS
<1>1. h \in Nat /\ l \in Nat /\ h <= Base - 1 /\ l <= Base - 1 /\ Base \in Nat
  BY ByteAssumption
<1>2. Base * h <= Base * (Base - 1) /\ Base * h >= 0
  BY <1>1
<1>3. Base * (Base - 1) = Base * Base - Base
  BY <1>1
<1>4. Base * h + l <= Base * Base - 1 /\ Base * h + l >= 0 /\ Base * h + l \in Int
  BY <1>1, <1>2, <1>3
<1>5. QED
  BY <1>4, ByteAssumption DEF Addr

LEMMA PlusWraps == \A a \in Addr, n \in 0 .. 3 : Plus(a, n) \in Addr
  BY SizeIsPositive DEF Plus, Addr

LEMMA OpcodesAreBytes == /\ {OP_NOOP, OP_HALT, OP_ET, OP_RESET, OP_LOAD_I, OP_STORE_IM, OP_JMP} \subseteq Byte
                         /\ None \notin Byte
  BY OpcodeAssumption, ByteAssumption DEF Opcode, None

LEMMA ReadIsByte == HeapOK /\ Sound(memory, NextAddr) => NextByte \in Byte
  BY DEF HeapOK, Sound, NextByte, Cell

LEMMA StoreKeepsTypes ==
  ASSUME HeapOK, rewritten \subseteq passed, NEW b \in Blocks, NEW a \in Addr, NEW v \in Byte,
         Store(b, a, v)
  PROVE  /\ block' \in [Blocks -> [Addr -> Byte]]
         /\ rewritten' \subseteq passed
<1>1. block' \in [Blocks -> [Addr -> Byte]]
  BY DEF HeapOK, Store
<1>2. rewritten' \subseteq passed
  BY DEF Store
<1>3. QED
  BY <1>1, <1>2

LEMMA TypeInit == Init => TypeInv
<1> SUFFICES ASSUME Init PROVE TypeInv
  OBVIOUS
<1>1. HeapOK
  <2>1. memory \in Blocks
    BY InputAssumption DEF Init
  <2>2. block \in [Blocks -> [Addr -> Byte]]
    BY InputAssumption DEF Init
  <2>3. QED
    BY <2>1, <2>2 DEF Init, HeapOK
<1>2. CpuOK
  BY LayoutAssumption, SizeIsPositive DEF Init, CpuOK, ByteOrNone
<1>3. MainOK
  <2>1. drawn \in 0 .. SCREEN_LEN /\ events \in 0 .. MaxEvents
    BY LayoutAssumption, InputAssumption DEF Init
  <2>2. frame \in [SCREEN .. SCREEN + SCREEN_LEN - 1 -> Byte]
    BY SizeIsPositive DEF Init
  <2>3. QED
    BY <2>1, <2>2 DEF Init, MainOK, ByteOrNone
<1>4. HistoryOK
  <2>1. late \in 0 .. 2
    BY DEF Init
  <2>2. QED
    BY <2>1 DEF Init, HistoryOK
<1>5. Held
  BY DEF Init, Held
<1>6. QED
  BY <1>1, <1>2, <1>3, <1>4, <1>5 DEF TypeInv, TypeOK

\* What a step leaves alone keeps its type.
LEMMA Unchanged ==
  /\ HeapOK /\ UNCHANGED <<heap, buffer, target>> => HeapOK'
  /\ CpuOK /\ UNCHANGED <<regs, thread>> => CpuOK'
  /\ MainOK /\ UNCHANGED <<main, input, drawn, frame, left, events, quit>> => MainOK'
  /\ HistoryOK /\ UNCHANGED <<fault, passed, rewritten, history>> => HistoryOK'
<1>1. HeapOK /\ UNCHANGED <<heap, buffer, target>> => HeapOK'
  BY DEF HeapOK, heap
<1>2. CpuOK /\ UNCHANGED <<regs, thread>> => CpuOK'
  BY DEF CpuOK, regs, thread
<1>3. MainOK /\ UNCHANGED <<main, input, drawn, frame, left, events, quit>> => MainOK'
  BY DEF MainOK
<1>4. HistoryOK /\ UNCHANGED <<fault, passed, rewritten, history>> => HistoryOK'
  BY DEF HistoryOK, history
<1>5. QED
  BY <1>1, <1>2, <1>3, <1>4

\* The steps of the CPU thread.
LEMMA CpuKeepsTypes == TypeInv /\ (Cpu \/ Resume) => TypeInv'
<1> SUFFICES ASSUME TypeInv, Cpu \/ Resume PROVE TypeInv'
  OBVIOUS
<1> USE DEF TypeInv, TypeOK
<1>1. CASE Fetch
  <2>1. op' \in Byte
    BY <1>1, ReadIsByte DEF Fetch, CpuOK, CpuAt, NextAddr, ByteOrNone
  <2>2. pc' \in Addr
    BY <1>1, PlusWraps DEF Fetch, CpuOK
  <2>3. tf' \in BOOLEAN
    BY <1>1 DEF Fetch, CpuOK
  <2>4. late' \in 0 .. 2
    BY <1>1 DEF Fetch, HistoryOK
  <2>5. CpuOK'
    BY <1>1, <2>1, <2>2, <2>3 DEF Fetch, CpuOK, ByteOrNone
  <2>6. HistoryOK'
    BY <1>1, <2>4 DEF Fetch, HistoryOK, clearing
  <2>7. HeapOK' /\ MainOK'
    BY <1>1, Unchanged DEF Fetch, heap, screen, keyboard, clearing
  <2>8. Held'
    BY <1>1 DEF Fetch, Held, keyboard
  <2>9. QED
    BY <2>5, <2>6, <2>7, <2>8
<1>2. CASE LoadImm
  <2>1. acc' \in Byte
    BY <1>2, ReadIsByte DEF LoadImm
  <2>2. CpuOK'
    BY <1>2, <2>1 DEF LoadImm, CpuOK
  <2>3. HeapOK' /\ MainOK' /\ HistoryOK'
    BY <1>2, Unchanged DEF LoadImm, heap, screen, keyboard, clearing
  <2>4. Held'
    BY <1>2 DEF LoadImm, Held, keyboard
  <2>5. QED
    BY <2>2, <2>3, <2>4
<1>3. CASE ReadHi
  <2>1. hi' \in Byte
    BY <1>3, ReadIsByte DEF ReadHi
  <2>2. CpuOK'
    BY <1>3, <2>1 DEF ReadHi, CpuOK, ByteOrNone, regs
  <2>3. HeapOK' /\ MainOK' /\ HistoryOK'
    BY <1>3, Unchanged DEF ReadHi, heap, screen, keyboard, clearing
  <2>4. Held'
    BY <1>3, <2>1 DEF ReadHi, Held, keyboard
  <2>5. QED
    BY <2>2, <2>3, <2>4
<1>4. CASE ReadLo
  <2>1. NextByte \in Byte /\ hi \in Byte
    BY <1>4, ReadIsByte DEF ReadLo, CpuAt, Held
  <2>2. Base * hi + NextByte \in Addr
    BY <2>1, TwoBytes
  <2>3. CpuOK'
    BY <1>4, <2>1, <2>2 DEF ReadLo, CpuOK, ByteOrNone
  <2>4. HeapOK' /\ MainOK' /\ HistoryOK'
    BY <1>4, Unchanged DEF ReadLo, heap, screen, keyboard, clearing
  <2>5. Held'
    BY <1>4, <2>1 DEF ReadLo, Held, keyboard
  <2>6. QED
    BY <2>3, <2>4, <2>5
<1>5. CASE StoreAcc
  <2>1. memory \in Blocks /\ NextAddr \in Addr /\ acc \in Byte
    BY <1>5 DEF StoreAcc, Sound, HeapOK, CpuOK
  <2>2. block' \in [Blocks -> [Addr -> Byte]] /\ rewritten' \subseteq passed
    BY <1>5, <2>1, StoreKeepsTypes DEF StoreAcc, HistoryOK
  <2>3. HeapOK'
    BY <1>5, <2>2 DEF StoreAcc, Store, HeapOK, screen, clearing
  <2>4. CpuOK'
    BY <1>5 DEF StoreAcc, CpuOK, ByteOrNone, regs
  <2>5. HistoryOK'
    BY <1>5, <2>2 DEF StoreAcc, HistoryOK, clearing, history
  <2>6. MainOK'
    BY <1>5, Unchanged DEF StoreAcc, screen, keyboard, clearing
  <2>7. Held'
    BY <1>5 DEF StoreAcc, Held, keyboard
  <2>8. QED
    BY <2>3, <2>4, <2>5, <2>6, <2>7
<1>6. CASE ResetFree
  <2>1. HeapOK'
    BY <1>6 DEF ResetFree, HeapOK, screen, clearing
  <2>2. CpuOK'
    BY <1>6 DEF ResetFree, CpuOK, regs
  <2>3. HistoryOK'
    BY <1>6 DEF ResetFree, HistoryOK, clearing
  <2>4. MainOK'
    BY <1>6, Unchanged DEF ResetFree, screen, keyboard, clearing
  <2>5. Held'
    BY <1>6 DEF ResetFree, Held, keyboard
  <2>6. QED
    BY <2>1, <2>2, <2>3, <2>4, <2>5
<1>7. CASE ResetInit
  <2>1. block' \in [Blocks -> [Addr -> Byte]]
    BY <1>7, SizeIsPositive DEF ResetInit, HeapOK
  <2>2. HeapOK'
    BY <1>7, <2>1 DEF ResetInit, HeapOK, screen, clearing
  <2>3. CpuOK'
    BY <1>7, SizeIsPositive, LayoutAssumption DEF ResetInit, CpuOK
  <2>4. MainOK' /\ HistoryOK'
    BY <1>7, Unchanged DEF ResetInit, screen, keyboard, clearing
  <2>5. Held'
    BY <1>7 DEF ResetInit, Held, keyboard
  <2>6. QED
    BY <2>2, <2>3, <2>4, <2>5
<1>8. CASE ResetFails
  <2>1. HeapOK' /\ CpuOK' /\ HistoryOK'
    BY <1>8, Unchanged DEF ResetFails, screen, clearing
  <2>2. MainOK'
    BY <1>8 DEF ResetFails, MainOK, screen, keyboard, clearing
  <2>3. Held'
    BY <1>8 DEF ResetFails, Held, keyboard, thread
  <2>4. QED
    BY <2>1, <2>2, <2>3
<1>9. CASE ResetAssign
  <2>1. HeapOK'
    BY <1>9 DEF ResetAssign, HeapOK, screen, clearing
  <2>2. CpuOK'
    BY <1>9 DEF ResetAssign, CpuOK, regs
  <2>3. MainOK' /\ HistoryOK'
    BY <1>9, Unchanged DEF ResetAssign, screen, keyboard, clearing
  <2>4. Held'
    BY <1>9 DEF ResetAssign, Held, keyboard
  <2>5. QED
    BY <2>1, <2>2, <2>3, <2>4
<1>10. CASE Test
  <2>1. op' \in ByteOrNone
    BY <1>10, ReadIsByte DEF Test, CpuAt, NextAddr, ByteOrNone
  <2>2. CpuOK'
    BY <1>10, <2>1 DEF Test, CpuOK, regs
  <2>3. astray' \in BOOLEAN
    BY <1>10 DEF Test, HistoryOK
  <2>4. HistoryOK'
    BY <1>10, <2>3 DEF Test, HistoryOK, clearing
  <2>5. HeapOK' /\ MainOK'
    BY <1>10, Unchanged DEF Test, heap, screen, keyboard, clearing
  <2>6. Held'
    BY <1>10 DEF Test, Held, keyboard
  <2>7. QED
    BY <2>2, <2>4, <2>5, <2>6
<1>11. CASE Trap \/ Resume
  <2>1. CpuOK'
    BY <1>11 DEF Trap, Resume, CpuOK, regs
  <2>2. HeapOK' /\ MainOK' /\ HistoryOK'
    BY <1>11, Unchanged DEF Trap, Resume, heap, screen, keyboard, clearing
  <2>3. Held'
    BY <1>11 DEF Trap, Resume, Held, keyboard
  <2>4. QED
    BY <2>1, <2>2, <2>3
<1>12. CASE CpuFaults
  <2>1. HistoryOK'
    BY <1>12 DEF CpuFaults, Fault, HistoryOK, clearing, history
  <2>2. HeapOK' /\ CpuOK' /\ MainOK'
    BY <1>12, Unchanged DEF CpuFaults, Fault, screen, keyboard, clearing
  <2>3. Held'
    BY <1>12 DEF CpuFaults, Fault, Held, keyboard, thread
  <2>4. QED
    BY <2>1, <2>2, <2>3
<1>13. QED
  BY <1>1, <1>2, <1>3, <1>4, <1>5, <1>6, <1>7, <1>8, <1>9, <1>10, <1>11, <1>12 DEF Cpu

\* The steps of the main thread, and the user's.
LEMMA MainKeepsTypes == TypeInv /\ (Main \/ PollKey \/ PollQuit \/ End) => TypeInv'
<1> SUFFICES ASSUME TypeInv, Main \/ PollKey \/ PollQuit \/ End PROVE TypeInv'
  OBVIOUS
<1> USE DEF TypeInv, TypeOK
<1>1. CASE CreateThread
  <2>1. CpuOK'
    BY <1>1 DEF CreateThread, CpuOK, regs
  <2>2. MainOK'
    BY <1>1 DEF CreateThread, MainOK, screen, keyboard, clearing
  <2>3. HeapOK' /\ HistoryOK'
    BY <1>1, Unchanged DEF CreateThread, screen, clearing
  <2>4. Held'
    BY <1>1 DEF CreateThread, Held, keyboard
  <2>5. QED
    BY <2>1, <2>2, <2>3, <2>4
<1>2. CASE TakeBuffer
  <2>1. HeapOK'
    BY <1>2 DEF TakeBuffer, HeapOK, heap, clearing
  <2>2. MainOK'
    BY <1>2 DEF TakeBuffer, MainOK, keyboard, clearing
  <2>3. CpuOK' /\ HistoryOK'
    BY <1>2, Unchanged DEF TakeBuffer, clearing
  <2>4. Held'
    BY <1>2 DEF TakeBuffer, Held, keyboard, thread
  <2>5. QED
    BY <2>1, <2>2, <2>3, <2>4
<1>3. CASE InitializeSdl \/ EndClear \/ Present \/ Return
  <2> USE DEF InitializeSdl, EndClear, Present, Return
  <2>1. MainOK'
    BY <1>3 DEF MainOK, screen, keyboard, clearing
  <2>2. HeapOK' /\ CpuOK' /\ HistoryOK'
    BY <1>3, Unchanged DEF screen, clearing
  <2>3. Held'
    BY <1>3 DEF Held, keyboard, thread
  <2>4. QED
    BY <2>1, <2>2, <2>3
<1>4. CASE PollKey
  <2>1. input' \in Byte /\ events' \in 0 .. MaxEvents
    BY <1>4, InputAssumption DEF PollKey, MainOK
  <2>2. MainOK'
    BY <1>4, <2>1 DEF PollKey, MainOK, ByteOrNone, screen, clearing
  <2>3. HeapOK' /\ CpuOK' /\ HistoryOK'
    BY <1>4, Unchanged DEF PollKey, screen, clearing
  <2>4. Held'
    BY <1>4, <2>1 DEF PollKey, Held, thread
  <2>5. QED
    BY <2>2, <2>3, <2>4
<1>5. CASE PollQuit
  <2>1. events' \in 0 .. MaxEvents
    BY <1>5, InputAssumption DEF PollQuit, MainOK
  <2>2. MainOK'
    BY <1>5, <2>1 DEF PollQuit, MainOK, screen
  <2>3. HeapOK'
    BY <1>5 DEF PollQuit, HeapOK, heap, screen
  <2>4. CpuOK' /\ HistoryOK'
    BY <1>5, Unchanged DEF PollQuit
  <2>5. Held'
    BY <1>5 DEF PollQuit, Held, thread
  <2>6. QED
    BY <2>2, <2>3, <2>4, <2>5
<1>6. CASE PollNothing
  <2>1. MainOK'
    BY <1>6, LayoutAssumption DEF PollNothing, MainOK, keyboard, clearing
  <2>2. HeapOK' /\ CpuOK' /\ HistoryOK'
    BY <1>6, Unchanged DEF PollNothing, clearing
  <2>3. Held'
    BY <1>6 DEF PollNothing, Held, keyboard, thread
  <2>4. QED
    BY <2>1, <2>2, <2>3
<1>7. CASE Clear
  <2> PICK s \in left :
         /\ block' = [block EXCEPT ![target] = [a \in Addr |-> IF a \in s THEN OP_HALT ELSE @[a]]]
         /\ left' = left \ {s}
         /\ passed' = passed \cup s
         /\ rewritten' = rewritten \ s
    BY <1>7 DEF Clear
  <2>1. s \subseteq Addr
    BY StretchAssumption DEF MainOK
  <2>2. OP_HALT \in Byte
    BY OpcodesAreBytes
  <2>3. block' \in [Blocks -> [Addr -> Byte]]
    BY <2>2 DEF HeapOK
  <2>4. HeapOK'
    BY <1>7, <2>3 DEF Clear, HeapOK, screen
  <2>5. HistoryOK'
    BY <1>7, <2>1 DEF Clear, HistoryOK, history
  <2>6. MainOK'
    BY <1>7 DEF Clear, MainOK, screen, keyboard
  <2>7. CpuOK'
    BY <1>7, Unchanged DEF Clear
  <2>8. Held'
    BY <1>7 DEF Clear, Held, keyboard, thread
  <2>9. QED
    BY <2>4, <2>5, <2>6, <2>7, <2>8
<1>8. CASE Check
  <2>1. MainOK'
    BY <1>8 DEF Check, MainOK, ByteOrNone, screen, clearing
  <2>2. HeapOK' /\ CpuOK' /\ HistoryOK'
    BY <1>8, Unchanged DEF Check, screen, clearing
  <2>3. Held'
    BY <1>8 DEF Check, Held, MainAt, thread
  <2>4. QED
    BY <2>1, <2>2, <2>3
<1>9. CASE StoreKey
  <2>1. memory \in Blocks /\ input \in Byte
    BY <1>9 DEF StoreKey, MainAt, HeapOK, Held
  <2>2. Cell(memory, WRITE_IDX) \in Byte
    BY <2>1, LayoutAssumption DEF HeapOK, Cell
  <2>3. RINGBUF + Cell(memory, WRITE_IDX) \in Addr
    BY <2>2, LayoutAssumption, ByteAssumption
  <2>4. block' \in [Blocks -> [Addr -> Byte]] /\ rewritten' \subseteq passed
    BY <1>9, <2>1, <2>3, StoreKeepsTypes DEF StoreKey, HistoryOK
  <2>5. HeapOK'
    BY <1>9, <2>4 DEF StoreKey, Store, HeapOK, screen, clearing
  <2>6. HistoryOK'
    BY <1>9, <2>4 DEF StoreKey, HistoryOK, clearing, history
  <2>7. MainOK'
    BY <1>9 DEF StoreKey, MainOK, ByteOrNone, screen, clearing
  <2>8. CpuOK'
    BY <1>9, Unchanged DEF StoreKey
  <2>9. Held'
    BY <1>9 DEF StoreKey, Held, thread
  <2>10. QED
    BY <2>5, <2>6, <2>7, <2>8, <2>9
<1>10. CASE Publish
  <2>1. memory \in Blocks /\ WRITE_IDX \in Addr
    BY LayoutAssumption DEF HeapOK
  <2>2. Cell(memory, WRITE_IDX) \in Byte
    BY <2>1 DEF HeapOK, Cell
  <2>3. (Cell(memory, WRITE_IDX) + 1) % BUF_SIZE \in Byte
    BY <2>2, BufferAssumption, ByteAssumption
  <2>4. block' \in [Blocks -> [Addr -> Byte]] /\ rewritten' \subseteq passed
    BY <1>10, <2>1, <2>3, StoreKeepsTypes DEF Publish, HistoryOK
  <2>5. HeapOK'
    BY <1>10, <2>4 DEF Publish, Store, HeapOK, screen, clearing
  <2>6. HistoryOK'
    BY <1>10, <2>4 DEF Publish, HistoryOK, clearing, history
  <2>7. MainOK'
    BY <1>10 DEF Publish, MainOK, screen, keyboard, clearing
  <2>8. CpuOK'
    BY <1>10, Unchanged DEF Publish
  <2>9. Held'
    BY <1>10 DEF Publish, Held, keyboard, thread
  <2>10. QED
    BY <2>5, <2>6, <2>7, <2>8, <2>9
<1>11. CASE Draw
  <2>1. buffer \in Blocks /\ SCREEN + drawn \in SCREEN .. SCREEN + SCREEN_LEN - 1
    BY <1>11, LayoutAssumption DEF Draw, HeapOK, MainOK
  <2>2. Cell(buffer, SCREEN + drawn) \in Byte
    BY <2>1, LayoutAssumption DEF HeapOK, Cell
  <2>3. frame' \in [SCREEN .. SCREEN + SCREEN_LEN - 1 -> Byte]
    BY <1>11, <2>2 DEF Draw, MainOK
  <2>4. drawn' \in 0 .. SCREEN_LEN
    BY <1>11, LayoutAssumption DEF Draw, MainOK
  <2>5. MainOK'
    BY <1>11, <2>3, <2>4 DEF Draw, MainOK, keyboard, clearing
  <2>6. HeapOK' /\ CpuOK' /\ HistoryOK'
    BY <1>11, Unchanged DEF Draw, clearing
  <2>7. Held'
    BY <1>11 DEF Draw, Held, keyboard, thread
  <2>8. QED
    BY <2>5, <2>6, <2>7
<1>12. CASE MainFaults
  <2>1. HistoryOK'
    BY <1>12 DEF MainFaults, Fault, HistoryOK, clearing, history
  <2>2. HeapOK' /\ CpuOK' /\ MainOK'
    BY <1>12, Unchanged DEF MainFaults, Fault, screen, keyboard, clearing
  <2>3. Held'
    BY <1>12 DEF MainFaults, Fault, Held, keyboard, thread
  <2>4. QED
    BY <2>1, <2>2, <2>3
<1>13. CASE FreeMemory
  <2>1. HeapOK'
    BY <1>13 DEF FreeMemory, HeapOK, screen, clearing
  <2>2. MainOK'
    BY <1>13 DEF FreeMemory, MainOK, screen, keyboard, clearing
  <2>3. CpuOK' /\ HistoryOK'
    BY <1>13, Unchanged DEF FreeMemory, clearing
  <2>4. Held'
    BY <1>13 DEF FreeMemory, Held, keyboard, thread
  <2>5. QED
    BY <2>1, <2>2, <2>3, <2>4
<1>14. CASE End
  <2>1. HeapOK' /\ CpuOK' /\ MainOK' /\ HistoryOK'
    BY <1>14, Unchanged DEF End, vars, screen, keyboard, clearing
  <2>2. Held'
    BY <1>14 DEF End, vars, Held, keyboard, thread
  <2>3. QED
    BY <2>1, <2>2
<1>15. QED
  BY <1>1, <1>2, <1>3, <1>4, <1>5, <1>6, <1>7, <1>8, <1>9, <1>10, <1>11, <1>12, <1>13, <1>14
  DEF Main

LEMMA TypeStep == TypeInv /\ [Next]_vars => TypeInv'
<1>1. TypeInv /\ UNCHANGED vars => TypeInv'
  BY Unchanged DEF TypeInv, TypeOK, Held, vars, screen, keyboard, clearing, thread
<1>2. QED
  BY <1>1, CpuKeepsTypes, MainKeepsTypes DEF Next, User

\* Every variable keeps its type; in particular PC stays in the memory, whatever
\* bytes a jump reads while ESC overwrites them.
THEOREM TypesAreKept == Spec => []TypeOK
<1>1. TypeInv => TypeOK
  BY DEF TypeInv
<1>2. QED
  BY TypeInit, TypeStep, <1>1, PTL DEF Spec

-----------------------------------------------------------------------------
(***************************************************************************)
(* The memory lives until main frees it, but while a RESET is under way;   *)
(* before the first RESET all the pointers are to the one block there is.  *)
(***************************************************************************)
Freed == main \in {"return", "exit"}
Resetting == cpu \in {"init", "assign"}

OneBlock == ~reset => /\ ~Resetting
                      /\ buffer = memory /\ target = memory
BlockLives == ~Freed => /\ ~Resetting => memory \in live
                        /\ cpu = "assign" => fresh \in live

NotBefore == main = "create" => cpu = "none"

LiveInv == MemoryLives /\ NotBefore /\ OneBlock /\ BlockLives

LEMMA LiveInit == Init => LiveInv
  BY DEF Init, LiveInv, MemoryLives, NotBefore, OneBlock, BlockLives, Freed, Resetting

LEMMA LiveStep == LiveInv /\ [Next]_vars => LiveInv'
<1> SUFFICES ASSUME LiveInv, [Next]_vars PROVE LiveInv'
  OBVIOUS
<1> USE DEF LiveInv, MemoryLives, NotBefore, OneBlock, BlockLives, Freed, Resetting, Running, CpuAt, MainAt,
            heap, regs, thread, screen, keyboard, clearing, history
<1>1. CASE Fetch
  BY <1>1 DEF Fetch
<1>2. CASE LoadImm \/ ReadHi \/ ReadLo
  BY <1>2 DEF LoadImm, ReadHi, ReadLo
<1>3. CASE StoreAcc
  BY <1>3 DEF StoreAcc, Store
<1>4. CASE ResetFree
  BY <1>4 DEF ResetFree
<1>5. CASE ResetInit
  BY <1>5 DEF ResetInit
<1>6. CASE ResetFails \/ ResetAssign
  BY <1>6 DEF ResetFails, ResetAssign
<1>7. CASE Test \/ Trap \/ Resume
  BY <1>7 DEF Test, Trap, Resume
<1>8. CASE CpuFaults
  BY <1>8 DEF CpuFaults, Fault, Accessing, Sound
<1>9. CASE CreateThread \/ TakeBuffer \/ InitializeSdl
  BY <1>9 DEF CreateThread, TakeBuffer, InitializeSdl
<1>10. CASE PollKey \/ PollQuit \/ PollNothing
  BY <1>10 DEF PollKey, PollQuit, PollNothing
<1>11. CASE Clear \/ EndClear
  BY <1>11 DEF Clear, EndClear
<1>12. CASE Check \/ StoreKey \/ Publish
  BY <1>12 DEF Check, StoreKey, Publish, Store
<1>13. CASE Draw \/ Present
  BY <1>13 DEF Draw, Present
<1>14. CASE MainFaults
  BY <1>14 DEF MainFaults, Fault
<1>15. CASE FreeMemory \/ Return
  BY <1>15 DEF FreeMemory, Return
<1>16. CASE End \/ UNCHANGED vars
  BY <1>16 DEF End, vars
<1>17. QED
  BY <1>1, <1>2, <1>3, <1>4, <1>5, <1>6, <1>7, <1>8, <1>9, <1>10, <1>11, <1>12, <1>13, <1>14,
     <1>15, <1>16 DEF Next, Cpu, Main, User

\* No access of either thread is to memory that has been freed, unless the guest
\* has executed RESET or main has freed it on its way out (main.c:39).
THEOREM MemoryLivesWhileUsed == Spec => []MemoryLives
<1>1. LiveInv => MemoryLives
  BY DEF LiveInv
<1>2. QED
  BY LiveInit, LiveStep, <1>1, PTL DEF Spec

-----------------------------------------------------------------------------
(***************************************************************************)
(* ESC.  What memset has passed holds HALT until it is written again, so   *)
(* the CPU thread goes on from its loop's test only in a cell that was.    *)
(***************************************************************************)
Stopping == cpu \notin {"fetch", "trap", "getchar"}

PassedHolds == ~reset => \A a \in passed \ rewritten : Cell(target, a) = OP_HALT
LateStops   == ~reset => /\ late >= 1 => Cleared /\ (Stopping \/ astray)
                         /\ late > 1 => astray
                         /\ main = "create" => passed = {}

EscInv == PassedHolds /\ LateStops

\* The pointers agree until RESET, and the types hold: both have been shown.
Known == TypeInv /\ LiveInv

LEMMA EscInit == Init => EscInv
  BY DEF Init, EscInv, PassedHolds, LateStops

LEMMA StoreKeepsPassed ==
  ASSUME Known, PassedHolds, UNCHANGED <<passed, target, reset>>,
         NEW b \in Blocks, NEW a \in Addr, NEW v \in Byte, Store(b, a, v)
  PROVE  PassedHolds'
<1> SUFFICES ASSUME ~reset, NEW c \in passed \ rewritten' PROVE block'[target][c] = OP_HALT
  BY DEF PassedHolds, Cell
<1>1. c \in passed \ rewritten /\ ~(b = target /\ a = c)
  BY DEF Store
<1>2. block[target][c] = OP_HALT
  BY <1>1 DEF PassedHolds, Cell
<1>3. target \in Blocks /\ c \in Addr /\ block \in [Blocks -> [Addr -> Byte]]
  BY <1>1 DEF Known, TypeInv, TypeOK, HeapOK, HistoryOK
<1>4. block'[target][c] = block[target][c]
  BY <1>1, <1>3 DEF Store
<1>5. QED
  BY <1>2, <1>4

\* memset: what it has just passed holds HALT.
LEMMA ClearKeepsPassed == Known /\ PassedHolds /\ Clear => PassedHolds'
<1> SUFFICES ASSUME Known, PassedHolds, Clear, ~reset, NEW c \in passed' \ rewritten'
             PROVE  block'[target][c] = OP_HALT
  BY DEF PassedHolds, Cell, Clear, history
<1> PICK s \in left :
       /\ block' = [block EXCEPT ![target] = [a \in Addr |-> IF a \in s THEN OP_HALT ELSE @[a]]]
       /\ passed' = passed \cup s
       /\ rewritten' = rewritten \ s
  BY DEF Clear
<1>1. target \in Blocks /\ s \subseteq Addr /\ passed \subseteq Addr /\ block \in [Blocks -> [Addr -> Byte]]
  BY StretchAssumption DEF Known, TypeInv, TypeOK, HeapOK, MainOK, HistoryOK
<1>2. c \in Addr /\ (c \notin s => c \in passed \ rewritten)
  BY <1>1
<1>3. block'[target][c] = IF c \in s THEN OP_HALT ELSE block[target][c]
  BY <1>1, <1>2
<1>4. QED
  BY <1>2, <1>3 DEF PassedHolds, Cell

LEMMA PassedStep == Known /\ PassedHolds /\ [Next]_vars => PassedHolds'
<1> SUFFICES ASSUME Known, PassedHolds, [Next]_vars PROVE PassedHolds'
  OBVIOUS
<1>1. CASE UNCHANGED <<block, target, passed, rewritten, reset>>
  BY <1>1 DEF PassedHolds, Cell
<1>2. CASE StoreAcc
  <2>1. memory \in Blocks /\ NextAddr \in Addr /\ acc \in Byte
    BY <1>2 DEF StoreAcc, Sound, Known, TypeInv, TypeOK, HeapOK, CpuOK
  <2>2. QED
    BY <1>2, <2>1, StoreKeepsPassed DEF StoreAcc, clearing, history
<1>3. CASE StoreKey
  <2>1. memory \in Blocks /\ input \in Byte /\ Cell(memory, WRITE_IDX) \in Byte
    BY <1>3, LayoutAssumption DEF StoreKey, MainAt, Known, TypeInv, TypeOK, Held, HeapOK, Cell
  <2>2. RINGBUF + Cell(memory, WRITE_IDX) \in Addr
    BY <2>1, LayoutAssumption, ByteAssumption
  <2>3. QED
    BY <1>3, <2>1, <2>2, StoreKeepsPassed DEF StoreKey, clearing, history
<1>4. CASE Publish
  <2>1. memory \in Blocks /\ WRITE_IDX \in Addr /\ Cell(memory, WRITE_IDX) \in Byte
    BY LayoutAssumption DEF Known, TypeInv, TypeOK, HeapOK, Cell
  <2>2. (Cell(memory, WRITE_IDX) + 1) % BUF_SIZE \in Byte
    BY <2>1, BufferAssumption, ByteAssumption
  <2>3. QED
    BY <1>4, <2>1, <2>2, StoreKeepsPassed DEF Publish, clearing, history
<1>5. CASE Clear
  BY <1>5, ClearKeepsPassed
<1>6. CASE PollQuit
  <2>1. reset \/ target = memory
    BY DEF Known, LiveInv, OneBlock
  <2>2. QED
    BY <1>6, <2>1 DEF PollQuit, PassedHolds, Cell, heap, history
<1>7. CASE ResetFree
  BY <1>7 DEF ResetFree, PassedHolds
<1>8. CASE ResetInit
  BY <1>8 DEF ResetInit, CpuAt, PassedHolds, Known, LiveInv, OneBlock, Resetting, history
<1>9. CASE Fetch \/ LoadImm \/ ReadHi \/ ReadLo
  BY <1>1, <1>9 DEF Fetch, LoadImm, ReadHi, ReadLo, heap, clearing, history
<1>10. CASE ResetFails \/ ResetAssign \/ Test \/ Trap \/ Resume
  BY <1>1, <1>10 DEF ResetFails, ResetAssign, Test, Trap, Resume, heap, clearing, history
<1>11. CASE CpuFaults \/ MainFaults
  BY <1>1, <1>11 DEF CpuFaults, MainFaults, Fault, heap, clearing, history
<1>12. CASE CreateThread \/ TakeBuffer \/ InitializeSdl \/ PollKey \/ PollNothing
  BY <1>1, <1>12 DEF CreateThread, TakeBuffer, InitializeSdl, PollKey, PollNothing, heap, clearing, history
<1>13. CASE EndClear \/ Check \/ Draw \/ Present \/ FreeMemory \/ Return
  BY <1>1, <1>13 DEF EndClear, Check, Draw, Present, FreeMemory, Return, heap, clearing, history
<1>14. CASE End \/ UNCHANGED vars
  BY <1>1, <1>14 DEF End, vars, heap, clearing, history
<1>15. QED
  BY <1>2, <1>3, <1>4, <1>5, <1>6, <1>7, <1>8, <1>9, <1>10, <1>11, <1>12, <1>13, <1>14
  DEF Next, Cpu, Main, User

LEMMA LateStep == Known /\ EscInv /\ [Next]_vars => LateStops'
<1> SUFFICES ASSUME Known, EscInv, [Next]_vars, ~reset' PROVE LateStops'
  BY DEF LateStops
<1>1. late \in 0 .. 2 /\ passed \subseteq Addr /\ 0 \in Addr
  BY SizeIsPositive DEF Known, TypeInv, TypeOK, HistoryOK
<1> USE DEF EscInv, LateStops, Stopping, Cleared
<1>2. CASE Fetch
  <2>1. cpu = "fetch" /\ cpu' \notin {"fetch", "trap", "getchar"}
    BY <1>2 DEF Fetch, CpuAt
  <2>2. late >= 1 => astray
    BY <1>2, <2>1 DEF Fetch, history
  <2>3. late' >= 1 => passed = Addr
    BY <1>1, <1>2 DEF Fetch
  <2>4. late' > 1 => late >= 1
    BY <1>1, <1>2 DEF Fetch
  <2>5. main # "create"
    BY <2>1 DEF Known, LiveInv, NotBefore
  <2>6. QED
    BY <1>2, <2>1, <2>2, <2>3, <2>4, <2>5 DEF Fetch, clearing
<1>3. CASE Test
  <2>1. CASE late < 1
    BY <1>1, <1>3, <2>1 DEF Test, history, clearing
  <2>2. CASE late >= 1 /\ NextByte # OP_HALT
    <3>1. memory = target /\ NextAddr = pc /\ pc \in Addr
      BY <1>3 DEF Test, CpuAt, NextAddr, Sound, Known, LiveInv, OneBlock, history
    <3>2. pc \in rewritten
      BY <1>3, <2>2, <3>1 DEF Test, PassedHolds, NextByte, history
    <3>3. QED
      BY <1>1, <1>3, <2>2, <3>1, <3>2 DEF Test, clearing
  <2>3. CASE late >= 1 /\ NextByte = OP_HALT
    BY <1>1, <1>3, <2>3 DEF Test, clearing
  <2>4. QED
    BY <1>1, <2>1, <2>2, <2>3
<1>4. CASE CreateThread
  <2>1. late = 0
    BY <1>1, <1>4 DEF CreateThread, MainAt, history
  <2>2. QED
    BY <1>4, <2>1 DEF CreateThread, clearing, history
<1>5. CASE Clear
  BY <1>1, <1>5, StretchAssumption DEF Clear, MainAt, thread, history, Known, TypeInv, TypeOK, MainOK
<1>6. CASE UNCHANGED <<late, astray, reset, passed, cpu>> /\ (main' = "create" => main = "create")
  BY <1>6
<1>7. CASE LoadImm \/ ReadHi \/ ReadLo \/ StoreAcc \/ ResetAssign
  BY <1>7 DEF LoadImm, ReadHi, ReadLo, StoreAcc, ResetAssign, CpuAt, clearing, history
<1>8. CASE ResetFree \/ ResetInit
  BY <1>8 DEF ResetFree, ResetInit, CpuAt, Known, LiveInv, OneBlock, Resetting, history
<1>9. CASE ResetFails
  BY <1>6, <1>9 DEF ResetFails, thread, clearing, history
<1>10. CASE Trap \/ Resume
  BY <1>10 DEF Trap, Resume, CpuAt, clearing, history
<1>11. CASE CpuFaults \/ MainFaults
  BY <1>6, <1>11 DEF CpuFaults, MainFaults, Fault, thread, clearing, history
<1>12. CASE TakeBuffer \/ InitializeSdl \/ PollKey \/ PollQuit \/ PollNothing
  BY <1>6, <1>12 DEF TakeBuffer, InitializeSdl, PollKey, PollQuit, PollNothing, MainAt, thread, clearing, history
<1>13. CASE EndClear \/ Check \/ StoreKey \/ Publish
  BY <1>6, <1>13 DEF EndClear, Check, StoreKey, Publish, MainAt, thread, clearing, history
<1>14. CASE Draw \/ Present \/ FreeMemory \/ Return
  BY <1>6, <1>14 DEF Draw, Present, FreeMemory, Return, MainAt, thread, clearing, history
<1>15. CASE End \/ UNCHANGED vars
  BY <1>6, <1>15 DEF End, vars, thread, clearing, history
<1>16. QED
  BY <1>2, <1>3, <1>4, <1>5, <1>7, <1>8, <1>9, <1>10, <1>11, <1>12, <1>13, <1>14, <1>15
  DEF Next, Cpu, Main, User

\* ESC stops a guest of any size, wherever it is: once memset has returned it
\* begins one more instruction, unless a cell written since keeps it going or it
\* has executed RESET (screen.c:221, cpu.c:47).
THEOREM EscStops == Spec => []EscStopsGuest
<1>1. Known /\ EscInv /\ [Next]_vars => Known' /\ EscInv'
  BY TypeStep, LiveStep, PassedStep, LateStep DEF Known, EscInv
<1>2. Init => Known /\ EscInv
  BY TypeInit, LiveInit, EscInit DEF Known
<1>3. EscInv => EscStopsGuest
  BY DEF EscInv, LateStops, EscStopsGuest
<1>4. QED
  BY <1>1, <1>2, <1>3, PTL DEF Spec
=============================================================================
