----------------------------------- MODULE Vm -----------------------------------
(***************************************************************************)
(* The two threads of the VM and the memory they share: the main thread,   *)
(* which goes on as the render thread (main.c, screen.c), and the detached *)
(* CPU thread (runCpu, cpu.c).  There is no lock: each access to a byte of *)
(* the memory is a step, and so is each step of RESET, which frees the     *)
(* memory and allocates another.                                           *)
(*                                                                         *)
(* The instructions are those that touch the memory or the threads in      *)
(* different ways; any other byte is a NOOP, as the unused opcodes are.    *)
(* C gives no meaning to an access outside a live block: the model stops   *)
(* there, and fault says whose access it was.                              *)
(***************************************************************************)
EXTENDS Integers, FiniteSets

CONSTANTS
  Byte, MEMORY_SIZE,                       (* 0 .. 255, and its square.            *)
  PROGRAM_START,
  WRITE_IDX, READ_IDX, RINGBUF, BUF_SIZE,
  SCREEN, SCREEN_LEN,                      (* The first address drawn, how many.   *)
  OP_NOOP, OP_HALT, OP_ET, OP_RESET, OP_LOAD_I, OP_STORE_IM, OP_JMP,
  Memories,                                (* What loadProgram may leave.          *)
  Keys,                                    (* What convert_input returns, but for
                                              0 (no key) and 1 (ESC).              *)
  MaxEvents,                               (* Bound: the events of a session.      *)
  Blocks,                                  (* What calloc may return.              *)
  Stretches                                (* The stores of memset.                *)

Addr   == 0 .. MEMORY_SIZE - 1
Base   == Cardinality(Byte)
Opcode == {OP_NOOP, OP_HALT, OP_ET, OP_RESET, OP_LOAD_I, OP_STORE_IM, OP_JMP}

ASSUME ByteAssumption     == /\ Base \in Nat \ {0} /\ Byte = 0 .. Base - 1
                             /\ MEMORY_SIZE = Base * Base
ASSUME LayoutAssumption   == /\ {PROGRAM_START, WRITE_IDX, READ_IDX} \subseteq Addr
                             /\ RINGBUF \in Nat /\ RINGBUF .. RINGBUF + Base - 1 \subseteq Addr
                             /\ SCREEN \in Nat /\ SCREEN_LEN \in Nat
                             /\ SCREEN .. SCREEN + SCREEN_LEN - 1 \subseteq Addr
ASSUME OpcodeAssumption   == Opcode \subseteq Byte /\ Cardinality(Opcode) = 7
ASSUME BufferAssumption   == BUF_SIZE \in Byte \ {0}
ASSUME InputAssumption    == /\ Keys \subseteq Byte /\ Memories \subseteq [Addr -> Byte]
                             /\ Blocks # {} /\ MaxEvents \in Nat
ASSUME StretchAssumption  == UNION Stretches = Addr

VARIABLES
  block, live,        (* The heap: what blocks hold, which are allocated.       *)
  memory, fresh,      (* cpu->memory, and what calloc has just returned.        *)
  pc, acc, tf,        (* PC, ACC and the trap flag.                             *)
  cpu, op, hi, lo,    (* The CPU thread: where it is, the opcode, its operand.  *)
  main,               (* The main thread: where it is.                          *)
  buffer,             (* The block the screen_buffer points into.               *)
  drawn, frame,       (* update_and_render: how many cells it has read this
                         time, and what it last read in each.                   *)
  input,              (* The key write_input was called with.                   *)
  target, left,       (* memset: the block, the stores to come.                 *)
  events, quit,
  fault,              (* "none", or the access that had no live block under it. *)
  passed, rewritten,  (* History: cells that memset has passed, those of them
                         that were written since.                               *)
  astray,             (* History: one of these has kept the CPU going.          *)
  late,               (* History: instructions begun after memset, up to 2.     *)
  reset               (* History: the guest has executed RESET.                 *)

heap     == <<block, live, memory, fresh>>
regs     == <<pc, acc, tf>>
thread   == <<cpu, op, hi, lo>>
screen   == <<buffer, drawn, frame>>
keyboard == <<input, events, quit>>
clearing == <<target, left, passed>>
history  == <<astray, late, reset>>
vars == <<heap, regs, thread, main, screen, keyboard, clearing, fault, rewritten, history>>

None == -1   (* op, hi, lo and input when they hold no byte. *)

\* Mutant: PC is wider than an address.
PlusUnwrapped(a, n) == a + n
Plus(a, n) == (a + n) % MEMORY_SIZE

Init == /\ memory = CHOOSE b \in Blocks : TRUE   (* Whichever it is. *)
        /\ fresh = memory /\ live = {memory}
        /\ \E m \in Memories : block = [b \in Blocks |-> m]
        /\ pc = PROGRAM_START /\ acc = 0 /\ tf = FALSE
        /\ cpu = "none" /\ op = None /\ hi = None /\ lo = None
        /\ main = "create"
        /\ buffer = memory /\ drawn = 0
        /\ frame = [a \in SCREEN .. SCREEN + SCREEN_LEN - 1 |-> 0]
        /\ input = None /\ events = 0 /\ quit = FALSE
        /\ target = memory /\ left = {} /\ passed = {}
        /\ fault = "none"
        /\ rewritten = {} /\ astray = FALSE /\ late = 0 /\ reset = FALSE

-----------------------------------------------------------------------------
(***************************************************************************)
(* Accesses.  Nothing is executed after a fault, or after main returns.    *)
(***************************************************************************)
Running == fault = "none" /\ main # "exit"

Sound(b, a) == b \in live /\ a \in Addr
Cell(b, a)  == block[b][a]

Store(b, a, v) == /\ block' = [block EXCEPT ![b][a] = v]
                  /\ rewritten' = IF b = target /\ a \in passed THEN rewritten \cup {a} ELSE rewritten
                  /\ UNCHANGED <<live, memory, fresh>>

Fault(who) == /\ fault' = who
              /\ UNCHANGED <<heap, regs, thread, main, screen, keyboard, clearing, rewritten, history>>

-----------------------------------------------------------------------------
(***************************************************************************)
(* The CPU thread.                                                         *)
(***************************************************************************)
CpuAt(where) == Running /\ cpu = where

\* The address that the CPU thread accesses next, where it accesses one.
NextAddr == CASE cpu \in {"fetch", "test", "trap"} -> pc
              [] cpu = "hi"    -> IF op = OP_JMP THEN pc + 1 ELSE pc - 2
              [] cpu = "lo"    -> IF op = OP_JMP THEN pc + 2 ELSE pc - 1
              [] cpu = "imm"   -> pc - 1
              [] cpu = "store" -> Base * hi + lo
              [] OTHER         -> 0   (* Of the block to be freed. *)
Accessing == cpu \in {"fetch", "test", "trap", "hi", "lo", "imm", "store", "free"}
NextByte  == Cell(memory, NextAddr)

\* The memory is gone, or PC has wrapped inside an instruction.
CpuFaults == /\ Running /\ Accessing /\ ~Sound(memory, NextAddr)
             /\ Fault(IF memory \in live THEN "address" ELSE "cpu")

\* memset has made its last store.
Cleared == passed = Addr

\* stepCpu dispatches on MEMORY(PC).  The compiler may take the byte that the
\* loop has just tested (op), when no call lies between.
Fetch == /\ CpuAt("fetch") /\ Sound(memory, pc)
         /\ op' \in {NextByte, op} \ {None}
         /\ cpu' = CASE op' = OP_LOAD_I             -> "imm"
                     [] op' \in {OP_STORE_IM, OP_JMP} -> "hi"
                     [] op' = OP_RESET              -> "free"
                     [] OTHER                       -> "test"
         /\ pc' = Plus(pc, CASE op' \in {OP_HALT, OP_RESET, OP_JMP} -> 0
                             [] op' = OP_LOAD_I                     -> 2
                             [] op' = OP_STORE_IM                   -> 3
                             [] OTHER                               -> 1)
         /\ tf' = (tf \/ op' = OP_ET)
         /\ late' = IF Cleared /\ late < 2 THEN late + 1 ELSE late
         /\ UNCHANGED <<heap, acc, hi, lo, main, screen, keyboard, clearing, fault, rewritten,
                        astray, reset>>

\* LOAD_I
LoadImm == /\ CpuAt("imm") /\ Sound(memory, NextAddr)
           /\ acc' = NextByte
           /\ cpu' = "test"
           /\ UNCHANGED <<heap, pc, tf, op, hi, lo, main, screen, keyboard, clearing, fault,
                          rewritten, history>>

\* STORE_IM and JMP read the two bytes of an address one after the other.
ReadHi == /\ CpuAt("hi") /\ Sound(memory, NextAddr)
          /\ hi' = NextByte
          /\ cpu' = "lo"
          /\ UNCHANGED <<heap, regs, op, lo, main, screen, keyboard, clearing, fault, rewritten, history>>

ReadLo == /\ CpuAt("lo") /\ Sound(memory, NextAddr)
          /\ IF op = OP_JMP THEN pc' = Base * hi + NextByte /\ cpu' = "test" /\ lo' = None
                            ELSE lo' = NextByte /\ cpu' = "store" /\ pc' = pc
          /\ hi' = IF op = OP_JMP THEN None ELSE hi
          /\ UNCHANGED <<heap, acc, tf, op, main, screen, keyboard, clearing, fault, rewritten, history>>

StoreAcc == /\ CpuAt("store") /\ Sound(memory, NextAddr)
            /\ Store(memory, NextAddr, acc)
            /\ cpu' = "test" /\ hi' = None /\ lo' = None
            /\ UNCHANGED <<regs, op, main, screen, keyboard, clearing, fault, history>>

\* resetCpu: freeCpu, ...
ResetFree == /\ CpuAt("free") /\ memory \in live
             /\ live' = live \ {memory}
             /\ cpu' = "init" /\ reset' = TRUE
             /\ UNCHANGED <<block, memory, fresh, regs, op, hi, lo, main, screen, keyboard, clearing,
                            fault, rewritten, astray, late>>

\* ... and initCpu, whose calloc may return the block just freed ...
ResetInit == /\ CpuAt("init")
             /\ pc' = PROGRAM_START /\ acc' = 0 /\ tf' = FALSE
             /\ fresh' \in Blocks \ live
             /\ live' = live \cup {fresh'}
             /\ block' = [block EXCEPT ![fresh'] = [a \in Addr |-> 0]]
             /\ cpu' = "assign"
             /\ UNCHANGED <<memory, op, hi, lo, main, screen, keyboard, clearing, fault, rewritten, history>>

\* ... or nothing, which ends the process ...
ResetFails == /\ CpuAt("init")
              /\ main' = "exit"
              /\ UNCHANGED <<heap, regs, thread, screen, keyboard, clearing, fault, rewritten, history>>

\* ... before cpu->memory is assigned.
ResetAssign == /\ CpuAt("assign")
               /\ memory' = fresh
               /\ cpu' = "test"
               /\ UNCHANGED <<block, live, fresh, regs, op, hi, lo, main, screen, keyboard, clearing, fault,
                              rewritten, history>>

\* The condition of runCpu's loop, then the trap flag.
Test == /\ CpuAt("test") /\ Sound(memory, pc)
        /\ op' = IF NextByte = OP_HALT \/ tf THEN None ELSE NextByte
        /\ cpu' = CASE NextByte = OP_HALT        -> "stopped"
                    [] NextByte # OP_HALT /\ tf  -> "trap"
                    [] OTHER                     -> "fetch"
        /\ astray' = (astray \/ (NextByte # OP_HALT /\ memory = target /\ pc \in rewritten))
        /\ UNCHANGED <<heap, regs, hi, lo, main, screen, keyboard, clearing, fault, rewritten,
                       late, reset>>

\* printNextOperation(&MEMORY(PC)), then getchar, ...
Trap == /\ CpuAt("trap") /\ Sound(memory, pc)
        /\ cpu' = "getchar"
        /\ UNCHANGED <<heap, regs, op, hi, lo, main, screen, keyboard, clearing, fault, rewritten, history>>

\* ... which waits for the user.
Resume == /\ CpuAt("getchar")
          /\ cpu' = "fetch"
          /\ UNCHANGED <<heap, regs, op, hi, lo, main, screen, keyboard, clearing, fault, rewritten, history>>

-----------------------------------------------------------------------------
(***************************************************************************)
(* The main thread, from initScreen on.                                    *)
(***************************************************************************)
MainAt(where) == Running /\ main = where

\* initScreen: the thread may not be created, and nobody looks.
CreateThread == /\ MainAt("create")
                /\ cpu' \in {"none", "fetch"}
                /\ main' = "capture"
                /\ UNCHANGED <<heap, regs, op, hi, lo, screen, keyboard, clearing, fault, rewritten, history>>

\* render_thread takes the address of the screen, and keeps it.
TakeBuffer == /\ MainAt("capture")
              /\ buffer' = memory
              /\ main' = "sdl"
              /\ UNCHANGED <<heap, regs, thread, drawn, frame, keyboard, clearing, fault, rewritten, history>>

\* Without a window render_thread returns, and main goes on to its end.
InitializeSdl == /\ MainAt("sdl")
                 /\ main' \in {"poll", "print"}
                 /\ UNCHANGED <<heap, regs, thread, screen, keyboard, clearing, fault, rewritten, history>>

PollKey == /\ MainAt("poll") /\ events < MaxEvents
           /\ input' \in Keys
           /\ events' = events + 1
           /\ main' = "check"
           /\ UNCHANGED <<heap, regs, thread, screen, quit, clearing, fault, rewritten, history>>

\* Mutant: the memory is freed at once.
PollQuitFrees == /\ MainAt("poll") /\ events < MaxEvents
                 /\ events' = events + 1
                 /\ quit' = TRUE
                 /\ live' = live \ {memory}
                 /\ target' = memory /\ left' = Stretches
                 /\ main' = "clear"
                 /\ UNCHANGED <<block, memory, fresh, passed, regs, thread, screen, input, fault, rewritten, history>>
\* Mutant: only ESC ends the loop, not the event of the window.
PollQuitStays == /\ MainAt("poll") /\ events < MaxEvents
                 /\ events' = events + 1
                 /\ quit' \in BOOLEAN
                 /\ target' = memory /\ left' = Stretches
                 /\ main' = "clear"
                 /\ UNCHANGED <<heap, passed, regs, thread, screen, input, fault, rewritten, history>>
\* ESC, or SDL_EVENT_QUIT: memset(cpu->memory, OP_HALT, MEMORY_SIZE) begins.
PollQuit == /\ MainAt("poll") /\ events < MaxEvents
            /\ events' = events + 1
            /\ quit' = TRUE
            /\ target' = memory /\ left' = Stretches
            /\ main' = "clear"
            /\ UNCHANGED <<heap, passed, regs, thread, screen, input, fault, rewritten, history>>

\* No more events: the frame is drawn, also after quit.
PollNothing == /\ MainAt("poll")
               /\ drawn' = 0
               /\ main' = "draw"
               /\ UNCHANGED <<heap, regs, thread, buffer, frame, keyboard, clearing, fault, rewritten, history>>

\* Mutant: the memory is filled with NOOP.
ClearWithNoop ==
  /\ MainAt("clear") /\ left # {} /\ target \in live
  /\ \E s \in left :
       /\ block' = [block EXCEPT ![target] = [a \in Addr |-> IF a \in s THEN OP_NOOP ELSE @[a]]]
       /\ left' = left \ {s}
       /\ passed' = passed \cup s
       /\ rewritten' = rewritten \ s
  /\ UNCHANGED <<live, memory, fresh, regs, thread, main, screen, keyboard, target, fault, history>>

\* The stores of memset may be made in any order.
Clear ==
  /\ MainAt("clear") /\ left # {} /\ target \in live
  /\ \E s \in left :
       /\ block' = [block EXCEPT ![target] = [a \in Addr |-> IF a \in s THEN OP_HALT ELSE @[a]]]
       /\ left' = left \ {s}
       /\ passed' = passed \cup s
       /\ rewritten' = rewritten \ s
  /\ UNCHANGED <<live, memory, fresh, regs, thread, main, screen, keyboard, target, fault, history>>

\* The loop over the events goes on.
EndClear == /\ MainAt("clear") /\ left = {}
            /\ main' = "poll"
            /\ UNCHANGED <<heap, regs, thread, screen, keyboard, clearing, fault, rewritten, history>>

\* write_input, as in Keyboard: the indices are compared, ...
Check == /\ MainAt("check") /\ memory \in live
         /\ LET full == (Cell(memory, WRITE_IDX) + 1) % BUF_SIZE = Cell(memory, READ_IDX)
            IN main' = (IF full THEN "poll" ELSE "store") /\ input' = (IF full THEN None ELSE input)
         /\ UNCHANGED <<heap, regs, thread, screen, events, quit, clearing, fault, rewritten, history>>

\* ... the key is stored ...
StoreKey == /\ MainAt("store") /\ memory \in live
            /\ Store(memory, RINGBUF + Cell(memory, WRITE_IDX), input)
            /\ main' = "publish" /\ input' = None
            /\ UNCHANGED <<regs, thread, screen, events, quit, clearing, fault, history>>

\* ... and the index moved.
Publish == /\ MainAt("publish") /\ memory \in live
           /\ Store(memory, WRITE_IDX, (Cell(memory, WRITE_IDX) + 1) % BUF_SIZE)
           /\ main' = "poll"
           /\ UNCHANGED <<regs, thread, screen, keyboard, clearing, fault, history>>

\* Mutant: the cell after the one to be drawn is read.
DrawFollowing == /\ MainAt("draw") /\ drawn < SCREEN_LEN /\ buffer \in live
                 /\ frame' = [frame EXCEPT ![SCREEN + drawn] = Cell(buffer, SCREEN + drawn + 1)]
                 /\ drawn' = drawn + 1
                 /\ UNCHANGED <<heap, regs, thread, main, buffer, keyboard, clearing, fault,
                                rewritten, history>>
\* update_and_render reads the cells of the screen in turn, ...
Draw == /\ MainAt("draw") /\ drawn < SCREEN_LEN /\ buffer \in live
        /\ frame' = [frame EXCEPT ![SCREEN + drawn] = Cell(buffer, SCREEN + drawn)]
        /\ drawn' = drawn + 1
        /\ UNCHANGED <<heap, regs, thread, main, buffer, keyboard, clearing, fault, rewritten, history>>

\* ... presents them, and the outer loop looks at quit.
Present == /\ MainAt("draw") /\ drawn = SCREEN_LEN
           /\ main' = IF quit THEN "print" ELSE "poll"
           /\ UNCHANGED <<heap, regs, thread, screen, keyboard, clearing, fault, rewritten, history>>

\* An access of the main thread to a block that RESET has freed.
MainFaults == /\ Running
              /\ \/ main = "clear" /\ left # {} /\ target \notin live /\ Fault("clear")
                 \/ main \in {"check", "store", "publish"} /\ memory \notin live /\ Fault("key")
                 \/ main = "draw" /\ drawn < SCREEN_LEN /\ buffer \notin live /\ Fault("frame")
                 \/ main = "print" /\ memory \notin live /\ Fault("free")

\* printCpu and printStack, then freeCpu: nobody has waited for the CPU thread.
FreeMemory == /\ MainAt("print") /\ memory \in live
              /\ live' = live \ {memory}
              /\ main' = "return"
              /\ UNCHANGED <<block, memory, fresh, regs, thread, screen, keyboard, clearing, fault, rewritten, history>>

\* main returns, and the process ends with the CPU thread.
Return == /\ MainAt("return")
          /\ main' = "exit"
          /\ UNCHANGED <<heap, regs, thread, screen, keyboard, clearing, fault, rewritten, history>>

-----------------------------------------------------------------------------
Cpu == \/ Fetch \/ LoadImm \/ ReadHi \/ ReadLo \/ StoreAcc
       \/ ResetFree \/ ResetInit \/ ResetFails \/ ResetAssign
       \/ Test \/ Trap \/ CpuFaults
Main == \/ CreateThread \/ TakeBuffer \/ InitializeSdl
        \/ PollNothing \/ Clear \/ EndClear \/ Check \/ StoreKey \/ Publish \/ Draw \/ Present
        \/ MainFaults \/ FreeMemory \/ Return
User == PollKey \/ PollQuit \/ Resume
End  == ~Running /\ UNCHANGED vars

Next == Cpu \/ Main \/ User \/ End

Spec == Init /\ [][Next]_vars

\* Both threads are scheduled; the user need not do anything.
FairSpec == Spec /\ WF_vars(Cpu) /\ WF_vars(Main)

-----------------------------------------------------------------------------
\* The types of the variables, by the part they belong to.
ByteOrNone == Byte \cup {None}
HeapOK == /\ block \in [Blocks -> [Addr -> Byte]]
          /\ live \subseteq Blocks
          /\ memory \in Blocks /\ fresh \in Blocks /\ buffer \in Blocks /\ target \in Blocks
CpuOK == /\ pc \in Addr /\ acc \in Byte /\ tf \in BOOLEAN
         /\ cpu \in {"none", "fetch", "imm", "hi", "lo", "store", "free", "init", "assign",
                     "test", "trap", "getchar", "stopped"}
         /\ op \in ByteOrNone /\ hi \in ByteOrNone /\ lo \in ByteOrNone
MainOK == /\ main \in {"create", "capture", "sdl", "poll", "check", "store", "publish", "clear",
                       "draw", "print", "return", "exit"}
          /\ input \in ByteOrNone
          /\ drawn \in 0 .. SCREEN_LEN
          /\ frame \in [SCREEN .. SCREEN + SCREEN_LEN - 1 -> Byte]
          /\ left \subseteq Stretches
          /\ events \in 0 .. MaxEvents /\ quit \in BOOLEAN
HistoryOK == /\ fault \in {"none", "cpu", "address", "clear", "key", "frame", "free"}
             /\ passed \subseteq Addr /\ rewritten \subseteq passed
             /\ late \in 0 .. 2 /\ astray \in BOOLEAN /\ reset \in BOOLEAN
TypeOK == HeapOK /\ CpuOK /\ MainOK /\ HistoryOK

\* The memory is there while a thread uses it, but in two cases: the guest has
\* executed RESET, which frees it under the render thread, or main has freed it,
\* which it does without waiting for the CPU thread.
MemoryLives ==
  /\ fault \in {"clear", "key", "frame", "free"} => reset
  /\ fault = "cpu" => main = "return"

\* ESC stops the guest.  Once memset has returned, the CPU begins one more
\* instruction at most, wherever the memory was when it was overwritten and
\* whatever address a jump has put together from old bytes and new.  It takes a
\* cell that was written after memset passed it, by the instruction in flight or
\* by a key of the same batch of events, or a RESET, to keep it going.
EscStopsGuest == late > 1 => astray \/ reset

\* After ESC, or when the window is closed, the process ends.
QuitEnds == (main = "clear") ~> ~Running

\* While the process runs, the screen shows each of its cells again and again as
\* it then is in the memory, however the guest and the keys go on.
ScreenKeepsUp ==
  \A i \in 0 .. SCREEN_LEN - 1 :
    []<>(~Running \/ frame[SCREEN + i] = Cell(memory, SCREEN + i))
=============================================================================
