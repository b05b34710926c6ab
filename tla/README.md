# Verification of the 8-bit VM

TLA+ models of the 8-bit virtual machine in `src/`, checked with TLC and, where
it matters for every value of the constants, proved with TLAPS. Paths below are
those of the repository.

## 1. The system

`build/vm file.casm` reads a source file, assembles it, loads the bytes into a
64 KiB memory and runs them on an emulated CPU in a thread of its own, while the
main thread draws a part of that memory on the screen and writes the keys typed
into another part of it.

| Component | Source | State | Operations | Model |
|---|---|---|---|---|
| CPU and instruction set | `cpu.c`, `flags.c`, `headers/instructions.h` | PC, ACC, R0, R1, H, L, FLAGS, SP, BP, 256 bytes of stack, 64 KiB of memory | `initCpu`, `loadProgram`, `runCpu`, `stepCpu` with the 256 handlers of `OP_TABLE`, `resetCpu` | `Word`, `OpTable`, `Cpu` |
| Keyboard ring | `screen.c` (`write_input`), `programs/keyboard.casm` (`get_keyboard`) | two indices and 16 slots in the VM's memory | write a key, read a key | `KeyQueue`, `Keyboard` |
| Threads of the VM | `main.c`, `screen.c` | the shared memory, the quit flag, the frame buffer pointer | start, poll, ESC, draw, exit | `Vm` |
| Assembler | `assembler.c`, `parsing.c` | bytes emitted, labels, references to labels | two passes over the lines | `Assembler`, composed with `Cpu` in `Machine` |
| Tokenizer | `tokenizer.c`, `parsing.c` | position, line number, tokens of each line | `tokenizeSymbol`, `tokenizeLine`, `tokenizeProgram`, `parse_immediate` | `Tokenizer` |
| Label map | `str_int_map.c` | buckets, length | insert, get, remove, iterate, free | `NameMap`, `StrIntMap` |
| Containers | `ovec.c`, `ostring.c`, `oslice.c` | length, capacity, data | push, insert, remove, append, grow, iterate | `ListSpec`, refined by `Block`, `Vec`, `Str` in `Containers` |
| Error reporting | `errors.c` | the line it shows | shows lines, marks a token | `Errors` (lines and marks) |
| Printers, disassembler | `debug.c`, `disassember.c` | none | printing | not modelled |
| Frame drawing, SDL | `screen.c` | pixels | reads memory | `Vm` (the reads) |
| File reading | `util.c` | none | `read_file_to_str` | `Str` |

### How the parts interact

`main` calls `assemble`, which tokenizes the source, walks its lines (pass 1,
bytes and labels, in vectors and the label map), patches the label references
(pass 2) and hands the bytes to `loadProgram`. `initScreen` then starts the CPU
thread, which calls `runCpu`, detaches it, and stays in `render_thread` until
the user quits. The two threads share `cpu->memory` without any lock: the frame
buffer goes from the CPU to the screen, the keyboard ring from the screen to the
CPU, and ESC overwrites all of it with HALT.

### What is hard, and what makes each part correct

* **CPU.** Sequential, but its properties run across instructions: a sum of
  several bytes is carried by FLAGS from one instruction to another, with loads,
  stores and jumps between; calls and frames must undo one another on a stack
  whose pointer wraps in silence. Correct when widths hold, carries are exact
  and survive, and a call returns to its caller.
* **Keyboard ring.** Each thread compares the indices, then acts on the result
  several accesses later. Correct when no check is stale when it is used, and
  when the ring is a bounded queue: nothing lost unless full, doubled,
  reordered or garbled, and every accepted key received.
* **Threads.** ESC's `memset` races with the stores of the guest; the render
  loop goes on after it; `main` frees the memory while the CPU thread may run;
  RESET replaces the memory under the render thread.
* **Assembler.** Both passes must agree on every byte. Correct when every label
  reference resolves to the address of the line it names, and when PC stays on
  the instruction boundaries the assembler chose.
* **Tokenizer and error messages.** The keywords are a trie of nested switches
  that takes characters as it goes. Correct when no character is lost, every
  keyword before a delimiter is found, lines are numbered as in an editor, and the
  message above an error shows the text it is about.
* **Containers and label map.** Correct when they implement sequences and a
  function, at every length and capacity, and stay within their blocks.

The list of hazards, each at its line and with the properties that look after
it, is in `PROJECT.json`.

## 2. What is modelled

### Word, OpTable, Cpu

`Word` has the fixed-width integers: `Byte` and `Word16`, the wraps, the halves
of a word, and bytes as sets of bits for the bitwise operators. `OpTable` is the
instruction set that the CPU and the assembler share.

`Cpu` is the CPU on its real widths. A step of `Cpu` is one call of `stepCpu`
and the test `runCpu` makes after it: the loop ends when the *next* opcode is
HALT, so HALT itself is executed only as the very first instruction, and with TF
set the loop waits for the user (`trapped`, `Answer`).

* The C macros take an addressing mode as a parameter, and so do the actions.
  `OP_TABLE` has 256 pairs of an operation and a mode, in the order of the
  source; `Operand(mode)` gives the place the mode designates, `Read` and
  `Assign` use it. One action stands for a macro, or for macros of one shape:
  `AccOp` (LOAD and every ALU operation with its result in ACC), `InPlace`
  (INC, DEC, NEG, NOT), `InPlaceHL`, `OPW`, `Index` (the four operations on L
  and HL that touch no flag), and one each for the rest.
* `flags` is the set of the bits that are one. The functions of `flags.c` are
  set operations on it. EI and DI work on bit 5 (`OF_BIT`), as in the code.
* `memory` is sparse: cells never written still hold the zero of `calloc`.
* Kept as they are in the code: the carry of SUB (`ACC > val` after the
  subtraction), SBC's 16-bit `val`, MIN_I reading its own opcode, a JEXT not
  taken continuing at its own operand, UPDATE_SF on the low byte of a 16-bit
  result in INC_HL and its like, CMP leaving CF alone, RESET wiping the program.
* **Reads outside memory.** PC is advanced modulo 2^16 and `MEMORY(PC - 1)` is
  then indexed with an `int`: at the top of memory the index is negative, or
  65536 and more. Such a read returns any of `StrayBytes`.
* **Undefined behaviour.** Shift counts of 32 and more, a shift or MULW that
  overflows `int`, and DIVW by 0. The debug build (`zig cc -g`) traps: `Crash`.
  A release build goes on with the hardware's result: counts modulo 32, products
  modulo 2^32; division by zero traps or gives 0, after the processor. Both are
  behaviours of the model.

The initial values, the table and the handlers were compared with the program:
`cpu.c` compiled for the host was run on the 14 478 programs of run `isa` that
end without undefined behaviour or a read outside memory, and every register and
flag agreed with the last state of TLC.

### CallFrames, MCGuests, MCIsa

`CallFrames` adds a history of the calls and frames in progress: for each CALL and
ENTER, the stack pointer that pushed its linkage, the base pointer of that moment,
and where to return to; and the height of the stack counted without the wrap of SP
(an ENTER of 255 locals raises it by 256, though SP comes out where it was). It
reads the CPU and never restrains it. `Orderly` is the discipline a guest keeps on
its side: return with the stack where CALL left it, leave what was entered last, pop
nothing from below the latest linkage, leave BP to ENTER and LEAVE, and store
through BP beside the linkage.

`MCIsa` builds one program per opcode and operand: a prologue that fills
registers, memory cells and a frame, the instruction, HALT. `MCGuests` runs whole
programs: those of `programs/` as the assembler translates them, with their
parameters varied, a sum of 16 bits, a counter of 24, a recursion of given depth, and a
function with every body of up to three out of seven frame operations, returning
with RET or RET_I.

### KeyQueue, Keyboard

`KeyQueue` is the promise: a first-in first-out queue of at most `Capacity` keys,
that loses a key only when full.

`Keyboard` is the ring: `Press`, `Check`, `StoreKey` and `Publish` are
`SDL_PollEvent` and the three accesses of `write_input`; `LoadReadIdx`,
`CompareWriteIdx`, `FetchKey` and `Advance` the accesses of `get_keyboard` in
`keyboard.casm`. An index is written by one thread only, so `Publish` and
`Advance`, which read their own index and write it, are one access as far as the
other thread can tell. Each thread's accesses take effect in program order,
which an x86 build gives; the C code itself has a data race here and no fence, so
a compiler or a processor that reorders the store of a key and the store of its
index is outside the model. ESC is left to `Vm`.

`Queue` is `KeyQueue` with the refinement mapping of the ring: `Waiting` is the
sequence of slots from `read_idx` up to `write_idx`.

### Vm, MCVm

`Vm` is what `main` does from `initScreen` on: the render thread, the CPU thread
and the memory they share without a lock. Every access to a byte of that memory is
a step of its own. `block` holds what the blocks of the heap contain and `live`
which of them are allocated; `memory` is `cpu->memory`, `buffer` the pointer the
`screen_buffer` took once, before the loop, `target` the block `memset` was called
on. An access to a block that is not live, or outside it, has no meaning in C: the
model stops and `fault` says whose access it was.

* **CPU thread.** `Cpu` with all opcodes would only repeat `isa` here, so the guest
  has the seven that touch the memory or the threads in different ways: NOOP, HALT,
  ET, RESET, LOAD_I, STORE_IM and JMP. `Fetch` is the dispatch of `stepCpu`, then
  come the reads of the operand and the store, one step each, and `Test` is the
  condition of `runCpu`'s loop. The dispatch reads `MEMORY(PC)` again that `Test`
  has just read; an optimizing compiler may merge the two, so `Fetch` may take
  either. RESET is `ResetFree`, `ResetInit` (`calloc` may return the old block or
  another, or fail: `ResetFails`), `ResetAssign`.
* **Main thread.** `CreateThread` (which may fail, and nobody looks), `TakeBuffer`,
  `InitializeSdl`; the events; `write_input` with the three accesses of `Keyboard`;
  `memset` in stretches, taken in any order; `update_and_render` cell by cell; at
  the end `printCpu`, `freeCpu` and the return that ends the CPU thread.
* `write_input` is not skipped after ESC: the loop over the events goes on, and the
  HALT bytes in the two indices are then indices.

`passed`, `rewritten`, `astray`, `late` and `reset` are histories: which cells
`memset` has passed, which of them were written since, whether one of those has
kept the CPU going, how many instructions began after `memset` returned, whether
RESET was executed. No guard reads them.

### Assembler, Machine, MCMachine

`Assembler` is `assembler.c` over lines of tokens, one action per line of pass 1
and per reference of pass 2. The parse functions differ in which registers,
immediate and memory operand a mnemonic takes, which is `Shape`; `MemExpr` is
`parse_mem_expr`, `MemOperand` the three groups of `PARSE_*_CASE` macros. A token
is a record of its symbol and argument; the notation of a number is left to the
tokenizer, its width is not: immediates are cut to 16 and 8 bits where the macros
cut them. Messages are left out, their consequences kept: a line in error emits
nothing, an undefined label leaves its placeholder, tokens past the operand are
ignored, `{5}` dereferences NULL in the error path (`Crash`), and `main` loads
and runs what came out. The vectors are sequences, the label map a function whose
first entry of a name stays, which is what `StrIntMap` shows of the map. At its end are
the definitions of what a source stands for (`Translation`, `IsTranslated`), which
section 4 proves of the two passes.

`Machine` is `main.c` without the screen: `assemble`, `loadProgram`, `runCpu`,
the latter with `Cpu` as it is. Two histories relate the two halves: `placed`, the
address of each line, and `entry`, the line the CPU is in with the HL it had on
entering. What a source *means* (`AddressOf`, `Destination`, `Meant`) is read from
its tokens, not from the bytes.

The translation was compared with the program: `assembler.c` and the tokenizer
compiled for the host were given 2 987 sources of run `machine` (all but `TwoLabels`)
as text, and for each of them emitted the bytes of TLC's final state, or crashed as in `Crash`.

### NameMap, StrIntMap, MCStrIntMap

`NameMap` is the promise of the label map: a partial function whose entries stay
until removed, and what each call answers. `StrIntMap` is `str_int_map.c` with its
nodes at addresses: the array of buckets, the doubly linked list of each, `malloc`
and `free`. A freed node leaves the domain, so that following a dangling pointer is
an error of the model, and a node no list reaches is a leak that `ListsIntact`
sees, or `NamesFindable`, if such nodes form a cycle. The loops over a list (`Walk`, `Chain`), over the buckets (`FirstInUse`)
and over the old nodes when the array grows (`Grown`) are recursive functions, so
that they can be reasoned about; `Contents` is the abstract map. An iterator is forgotten when the map changes; no caller in `src/` uses one.

### Tokenizer, Errors, MCTokenizer

`Tokenizer` is `tokenizer.c` on the text itself: `ptr` is the iterator, a step is a
call of `tokenizeSymbol` or the start or end of a line. A token has its symbol and
the places of its first and last character, as the slices in C do. The trie of
nested switches (`Keyword`) is described by what it does: it takes the longest path
`Nodes` has, accepts the keyword there before a delimiter (a register before
anything, HALT before whatever is no letter or digit), and otherwise drops letters
and digits that follow; where the path ends at a node with a branch (`Inner`), one
more character has been read, whatever it is, and it may be the newline.
`parse_immediate` is here because `strtol` gets the place of a token and not its
end.

`Errors` is the printer of `errors.c`, which tokenizes a line again and puts its
tokens apart by their columns: `printNumberedHighlightedLines` the lines above a
message, `alignErrorHelpMsg` the marks below it. `FoldLeft` over the tokens is the
loop, `Shown` its two variables. Wording and colours are left out.

The translation was compared with the program: the tokenizer and `parse_immediate`
compiled for the host gave, on 21 874 texts of run `tokenizer`, the tokens, columns,
line numbers and values of the model.

Seen while translating, and described by no document: a bare `0x` or `1b` takes the
number that follows it on the line, since `strtol` skips spaces; `0x0x1F` is 0x1F
(excepted by name in `ImmediatesRead`); an error on the first line shows no line at
all, and one on the second a line 0.

### ListSpec, Block, Vec, Str, Containers, MCContainers

`ListSpec` is the promise of both containers: a sequence, and what each call
answers. `Block` has what `vec_t` and `string_t` share: length, capacity, cells,
`realloc`, and the operations both files write alike, or all but alike: `RemoveCell`
is given what the move of the cells may leave, one outcome for `remove_str`, which
calls `memmove`, and several for `remove_vec`, which calls `memcpy` (`memcpy`: where
the cells overlap, any of the elements that were there, or `Junk`, in each). `Vec` and `Str` have the rest,
one action per function, and `Containers` is either of them, whichever is made
first. The loops of `push_cstr_str`, `read_file_to_str`, `reverse_str` and
`append_vec` are recursive functions of the number of rounds (`AllAppended`, `EndIn`,
`Swapped`, `PushedAgain`). A cell that `malloc` or `realloc` has left is `Junk`. `outside` says what
the last call did outside its block. A read past the block, or of a block that
`realloc` has freed, gives `Junk` and the program goes on (`outside = "read"` or
`"freed"`); a write past it, a null pointer or a failed assertion ends it. `Str` also has `read_file_to_str`: `char c =
fgetc(fp)` is compared with -1, so byte 0xFF ends a file early (with a signed
`char`, as on x86).

What the operations do beside their promise is excepted by name in the properties:
`append_vec` pushes the vector's own elements, not those of the other vector, and
takes each through a pointer into the block that `push_vec` then reallocates
(`ovec.c:175`, 97, 102), so that when the block moves it reads the freed one;
`remove_vec` moves cells that overlap with `memcpy` (`ovec.c:164`), which C leaves
undefined, so that unless the last element is removed only the length and what is
before the index are sure;
`insert_str` stores at twice the index; `get_str` compares the index with the
capacity; `push_str` writes before it grows; removing from a full block reads one
cell past it, in both containers; a string that `realloc(…, 0)` has emptied is iterated through NULL.
None of these functions but `push_str` has a caller, and no document contradicts
them; `insert_str`, the elements `append_vec` takes and the iterator were run in C,
with the outcome of the model.

## 3. What is checked

| Run | Module | Kind | Shows |
|---|---|---|---|
| `isa` | `MCIsa` | pass | `TypeOK`, `SumsAreExact`, `CarrySurvives`, `RotationsAreExact` over every opcode |
| `guests` | `MCGuests` | pass | `FramesIntact`, `GuestsInOrder`, `ReturnsToCaller`, `GuestsCompute` (liveness) |
| `keyboard` | `Keyboard` | pass | `TypeOK`, `ChecksStayValid`, `KeysInOrder` (refinement), `KeysArrive` (liveness) |
| `str_int_map` | `MCStrIntMap` | pass | `TypeOK`, `ListsIntact`, `NamesFindable`, `LenIsBound`, `IsNameMap` (refinement) |
| `vm` | `MCVm` | pass | `TypeOK`, `MemoryLives`, `EscStopsGuest`, `QuitEnds`, `ScreenKeepsUp` (liveness) |
| `tokenizer` | `MCTokenizer` | pass | `TypeOK`, `TextIsTiled`, `KeywordsFound`, `LinesAreEditorLines`, `SuitsAssembler`, `ImmediatesRead`, `TokensStandAlone`, `EveryStepAdvances`, `MessagesMatchText` |
| `containers` | `MCContainers` | pass | `TypeOK`, `ListsAreSequences` (refinement), `AccessesStayInside`, `RoomIsKept`, `FileIsRead` |
| `machine` | `MCMachine` | pass | `TypeOK`, `IsTranslated`, `OperandsReached`, `ControlFollowsSource` |
| `sbc` | `MCIsa` | violation | SBC does not subtract "value + possible carry bit" (`README.md:55`) |
| `clra` | `MCIsa` | violation | CLRA is not the LOAD 0 it stands for (`tests/assemble_fib.c:12`): SF stays |
| `indexed_label` | `MCMachine` | violation | label and index (`assembler.c:1002`) are added byte by byte, without the carry |
| `jext` | `MCMachine` | violation | a JEXT that does not jump runs its own operand (`README.md:76`) |

* `SumsAreExact`: the carry left by ADD, ADC and INC is the ninth bit of the exact
  sum, whatever the addressing mode, although the macros find it in three ways.
  `CarrySurvives`: nothing but arithmetic, POP FLAGS and RESET changes CF.
  Together they are what lets a guest add numbers of several bytes.
* `RotationsAreExact`: ROL and ROR move every bit where a rotation does, for
  counts from 0 to 8.
* `FramesIntact`: the return address of every call in progress and the base pointer
  of every frame are untouched while the stack has held no more than 256 bytes. `ReturnsToCaller`: a return restores
  PC, SP and BP of the call it belongs to. Both are stated for a stack that has
  not overflowed: after that, SP has wrapped over the oldest frames, and nothing
  in the code notices.
* `GuestsInOrder`: the guests keep the discipline of `Orderly`, which is the
  assumption under which the two properties above are proved for every program.
* `GuestsCompute`: the guests come to their HALT, with the result their source
  promises.
* `ChecksStayValid`: the room the render thread found is still there when it
  writes, the key the guest found still waits when it reads, and neither slot is
  written under the other thread.
* `KeysInOrder`: `Keyboard` implements `KeyQueue`. `KeysArrive`: fairness of the
  two threads gives the progress of the queue.

* `ListsIntact`, `NamesFindable`, `LenIsBound`, `IsNameMap`: after any insertions,
  removals and growth, `next` and `prev` undo one another and nothing dangles or
  leaks; every name is where `get_map` looks; `len`, which `remove_map` does not
  decrement, is still at least the number of names and small enough that a new
  array never grows while it is filled; and every answer is that of `NameMap`.
* `IsTranslated`: after both passes the code is that of the lines one after another,
  with the value of its label in every placeholder, wherever labels are defined, and a
  HALT behind it; what a line and a label stand for is read from the source alone.
* `ControlFollowsSource`: from a line of code PC goes on to the next line or to the
  line of the label the jump names. It ties the lengths of both passes, the table
  and PC's advance in every macro together: one byte miscounted anywhere moves
  every later label.
* `OperandsReached`: when the last instruction of a line runs, its operand is the
  one the source describes: label plus index plus register, with the register as
  it was when the line began, although the address was put together in two passes
  and by an instruction that changes HL. Three kinds of operands are excepted by
  name: `LostCarry` (the violation run), `NegatedRegister` (the sign of a register
  is ignored) and `MinOfImmediate` (MIN_I).
* The last two speak of lines the guest has not overwritten (`Intact`), whose labels are
  defined, and that are not data.

* `MemoryLives`: the threads never use the memory after it is freed, except in two
  cases the code does not guard against. RESET frees it under the render thread,
  which keeps the old `screen_buffer` and may be inside `memset` or `write_input`;
  and `main`, which has not waited for the detached CPU thread, frees it shortly
  before it returns. That SDL fails to start leads to the second case at once.
* `EscStopsGuest`: once `memset` has returned, at most one more instruction begins.
  That is not obvious: the CPU may be between the two reads of an address, so that
  it jumps to an address made of an old byte and a new one; but wherever it lands,
  HALT is there, except in a cell written behind the `memset` by the store in flight
  or by a key of the same batch of events.
* `QuitEnds`: after ESC the process ends (or has run into the freed memory of
  `MemoryLives`, where the model stops). `ScreenKeepsUp`: however fast the guest
  writes, each cell of the screen shows what the memory holds, again and again.
* `TextIsTiled`: nothing read is in no token, but spaces and newlines.
  `KeywordsFound`: a keyword before a delimiter is found whatever other keywords
  begin like it, and no other text becomes that keyword. `TokensStandAlone`: a
  token is the same without its neighbours. `LinesAreEditorLines`: line numbers are
  those of an editor (the comment of `tokenizeProgram`), short of the newlines that
  tokens contain. `SuitsAssembler`: what `nextToken` and the parse functions take
  for granted. `ImmediatesRead`: a number of the grammar has its value although
  `strtol` may read on. `EveryStepAdvances`: a measure falls with every step, so
  the tokenizer ends on every text.
* `MessagesMatchText` (`ErrorsShowTheLine` and `TokenIsMarked`): the printer puts together again the line an
  editor shows and the two before it, and the marks are under the token's text.
* `ListsAreSequences`, `AccessesStayInside`: vectors and strings do what sequences
  do and stay in their blocks, with the exceptions named, of which three read or copy
  what C leaves undefined: a full block's next cell, a freed block, overlapping cells. `RoomIsKept`,
  `FileIsRead`: `push_str` writes before it grows, which is sound as long as there
  is room for one more: pushing, inserting and removing keep that room, and the
  string a file is read into has it.

Each property of a passing run has a mutant in `PROJECT.json`: a change of one
definition, of the kind a slip in the code would be, that breaks it.

### Bounds

* `isa`: ACC in {0, 127, 128, 255}, operands in {0, 1, 9, 128, 255}, FLAGS in
  {0, 1, 31}: the edges of signed and unsigned bytes, a shift count of 0, 1, more
  than 8 and undefined, carry clear and set. JEXT is given each of its four kinds
  of test. Instructions are also placed at 65533 to 65535. `Window` stops a
  program that has jumped away: it names the addresses of the programs and the
  top of memory, and a state outside is still checked but has no successors.
  The deadlock check is off because a CPU that has halted, crashed or left the
  window stops.
* `guests`: the parameters are in `Guests.cfg`. Depth 127 leaves room for one more
  frame and 128 fills the 256 bytes exactly. Bodies of three operations are
  enough for every pair of pushes, frame stores and nested calls to meet.
* `keyboard`: a ring of 4 slots holds 3 keys: it can be empty, partly full, full,
  and wraps often. Two different keys tell an old byte from a new one. The
  deadlock check is on: the user may always press a key.

* `str_int_map`: an array of 4 that grows once, to 8, at the fourth name; three of
  four names share a bucket of 4, of which one parts from the others in 8, and one
  falls into the last bucket, where the iterator stops. Two values tell a kept
  entry from a replaced one. `MaxCapacity` is in the guard of `insert_map`: a map
  whose `len` has been driven up by removals grows no further.
* `machine`: all sources of one to three of thirteen lines, which holds forward and
  backward references, redefinitions, undefined labels, constants above 255, code
  that runs into data; and every kind of operand, valid or not, after a prologue
  that makes HL 258, with ACC 0 or 200; and all of four out of seven lines with two
  labels. `MaxSteps` ends a source that loops after
  eight instructions: the longest of the second kind needs five, and three lines
  are passed twice. The deadlock check is off because a machine that has halted or
  crashed stops.

* `vm`: bytes of seven values, so a memory of 49 cells holds a program, a ring of 4
  slots and a screen of two cells directly behind it, as the ring in the program
  ends where the screen begins. Four guests: one draws for ever, one overwrites the
  instruction it executes next, one resets, one traps. Two events (`MaxEvents`) are
  a key before or after ESC, or ESC twice; two blocks let `calloc` return the same
  memory or another. `memset` makes its stores in three stretches, one of which
  ends within the program; the proofs allow any. The deadlock check is on: a process
  that has ended stutters.
* `tokenizer`: all texts of up to four of nine characters, which hold letters of
  keywords, digits, spaces, newlines, quotes, colons and comments; all sequences of
  three out of 24 pieces; every node of the trie before each of seven ends. No text
  has NUL or a byte above 127 (`isalnum` of a negative `char` is undefined), or 256
  columns (the width of `SPACES_256`). `MaxDigits`: numbers of more than six digits
  are not compared, since TLC's integers have 32 bits; values are modulo 2^16,
  which is all the assembler keeps.
* `containers`: two elements tell a kept cell from a moved one; lengths up to
  `MaxLen` = 3 with capacities that grow 0, 2, 6: empty, partly full and full
  blocks, growth from each. Files of up to three bytes, with 0xFF anywhere. The
  first buffer of a file is 2 characters instead of 100, so that files outgrow it.
  The deadlock check is off because the program ends after a stray write or a
  failed assertion.

### Fairness

`MCGuests` assumes that the CPU thread is scheduled and that the user answers the
trap prompt. `Keyboard` assumes that each thread is scheduled (weak fairness of
`Render` and of `Guest`): they are threads of the operating system, and the
guest's main loop polls `get_keyboard` without end. Pressing a key is not fair.
`Vm` assumes the same of its two threads (weak fairness of `Cpu` and of `Main`);
events and the answer at the trap prompt come or do not, and there are finitely
many events, without which the loop over the events need never reach the drawing.

## 4. What is proved

`CpuProofs`, `KeyboardProofs`, `VmProofs`, `ContainersProofs`, `StrIntMapProofs`,
`TokenizerProofs` and `AssemblerProofs`, for every value of the constants. `Loops`
has what the last four need of loops: induction upwards and downwards over an interval
and along a list (`UpTo`, `Upwards`, `Downwards`), from the library's least element of
a well-founded order, which takes a set and not an operator; that a loop or a
recursion along a list defines a function (`LoopExists`, `RecursionExists`); and sums
over a finite set (`FoldExists`, `FoldsAreSums`, `FoldIsSum`).

* **Cpu, `TypeCorrect`**: `Spec => []TypeOK`. `TypeOK` is inductive by itself. Its
  proof goes from the bottom up: wraps and bit operators return bytes, hence the
  ALU does (`AluByte`, `UnaryByte`, `UnaryHLWord`, `WideWord`), hence operands
  and assignments are typed (`OperandType`, `AssignType`), hence every action is,
  one step each (`ExecuteType`). Assumptions: programs are sequences of bytes, and
  a stray read returns a byte.
* **`SumsExact`**, `Spec => SumsAreExact`: `NinthBit` shows that the three ways of
  finding a carry agree; `Dispatch` that each opcode belongs to one action;
  `AssignReads` that a place reads back what was assigned.
* **`CarryOnlyByArithmetic`**, `Spec => CarrySurvives`.
* **`RotationsExact`**, `Spec => RotationsAreExact`. A byte is
  the sum of the weights of its bits (`ByteIsSum`), so eight bits put together and
  taken apart are the same bits (`BitsOfSum`), and a shift by each count moves them
  (`BitsShiftedLeft`, `BitsShiftedRight`). The two shifts of ROL and ROR together
  then rotate (`RolRotates`, `RorRotates`), a count of 8 included. A step that traps
  leaves ACC alone, but only a count of 24 or more does (`RotationCrash`).
* **Calls, `FramesStayIntact` and `CallersRegained`**, `FSpec /\ GuestsInOrder =>
  []FramesIntact` and `=> ReturnsToCaller`: for every program of `CallFrames`, at
  every depth. The assumption is about what the guest does between its calls, one
  instruction at a time; run `guests` shows that the sample programs satisfy it, the
  recursion that fills all 256 bytes included. The conclusion, that linkage survives
  and BP comes back through any nesting, needs the invariant `Inv`: SP is the height
  without its wraps and the height never below the latest frame (`HistoryOK`); each
  frame is held in the stack, they lie one above the other, and the base pointer each
  has saved is the one its predecessor had made, a chain that ends in BP (`Intact`).
  Without the chain BP after LEAVE would be no one's; without `Within` a push could
  land on linkage. A step does one of three things to the frames (`KeepsFrames`,
  `AddsFrame`, `DropsFrame`). The proof found that the height had counted an ENTER of
  255 locals as no rise at all, and gone on after RESET.
* **Keyboard, `TypeCorrect` and `ChecksValid`**: the inductive invariant `Inv` is
  `TypeOK /\ ChecksStayValid`. `TypeOK` alone is not inductive: that `latest` is
  a key or none needs the slot the guest read to have held one when it read it.
  `ChecksStayValid` is what each thread knows at each of its steps
  (`RoomKept`, `KeyStored`, `KeyKept`), and each is kept by the other thread
  because indices only move towards more room for one and more keys for the other.
* **`RingIsQueue`**, `Spec => KeysInOrder`: every step of the ring is a step or a
  stutter of the queue under the mapping. `HeldExcept`, `HeldAppend` and `HeldTail`
  say what writing a slot, moving the write index and moving the read index do to
  the sequence that waits.

* **Vm, `TypesAreKept`**, `Spec => []TypeOK`, for every size of a byte, layout,
  program, set of keys, number of blocks and way `memset` orders its stores.
  `TypeOK` is not inductive: a store writes ACC, a jump goes to two bytes held in
  hand. `TypeInv` adds `Held`, that what is in hand at each step is a byte, and the
  lemma `TwoBytes`, that two bytes make an address.
* **`MemoryLivesWhileUsed`**, `Spec => []MemoryLives`. `LiveInv` adds what each
  thread knows: before the first RESET all pointers to the memory agree
  (`NotBefore`, `OneBlock`), and the block is live until RESET or the end of `main`
  frees it (`BlockLives`). Both threads may be anywhere, so each part has to be kept
  by every step of the other.
* **`EscStops`**, `Spec => []EscStopsGuest`. `EscInv` says that every cell `memset`
  has passed and nobody has rewritten holds HALT (`PassedHolds`), and that from the
  first instruction begun after the `memset` the CPU is on its way to a test that
  stops it, or astray (`LateStops`). It is inductive relative to `TypeInv` and
  `LiveInv` together. `TypeInv`, `LiveInv` and `EscInv` were checked with TLC first.
* **Containers, `TypesHold`, `StaysInside`, `RoomStays`, `Refines`, `FilesAreRead`**,
  the five properties of run `containers`, for every set of elements, length and
  capacity. The invariant `Inv` says that the cells are as many as the
  capacity and the length at most that (`Sound`), and that the
  characters of a string are neither NUL nor leftovers (`Chars`): `TypeOK` alone would not do for `as_cstr_str`, which
  writes a NUL behind the last character and whose result is read up to the first. Each loop is shown to end in the closed form its caller needs: `reverse_str` in
  the reversed sequence, `push_cstr_str` in the concatenation, `read_file_to_str` in
  the file up to the first 0xFF.
* **Label map, `TypesHold`, `ListsStayIntact`, `NamesStayFindable`, `LenStaysBound`,
  `IsPartialFunction`**, the five properties of run `str_int_map`, for every finite
  set of names, hash function, initial capacity (a multiple of four, as in the header)
  and largest array. The properties are not inductive. `Inv` adds that names are
  distinct, that each node is in the list of the bucket of its name, that positions
  rise along every list (`Ranked`: no cycle, so walking a list ends, and a node
  appended behind the last one makes none), that `len` is at least the number of
  names in use (`Counted`; the next insertion then grows in time, and `malloc` finds a
  free address by counting), and that an iterator points into a list. Growth inserts
  the old entries one by one into an empty map: the loop keeps `Sound`, and its
  contents are those of the old map so far (induction by `Upwards`). The abstract
  function `Contents` is then shown to change as `NameMap` says. This invariant was
  checked with TLC on run `str_int_map` first.
* **Tokenizer, `TypesHold`, `TokensTileText`, `EveryKeywordFound`, `LinesSuit`,
  `LinesNumberedRight`, `StepsAdvance`**, for every set of texts. `Skip`, `Until` and the trie are
  choices of a place, so the proof first shows that the place exists and is what the
  code stops at (`Skips`, `Untils`, `LongestExists`), then where each kind of token
  ends (`KeywordRead`, `NumberRead`, `LabelRead`, `SymbolRead`), and how the
  concatenation of all lines grows (`FlatExists`, `Flattened`, `OneMore`). `IInv` is
  the three state properties and what they need: `Typed` is `TypeOK` line by line;
  `Counted`, that the number of the line is at most the place, without which
  `line_nr` has no bound; `Behind`, that every token ends before the iterator,
  without which the next one could overlap it; `Suits`, `SuitsAssembler` also for
  the line being read: behind a label with an index the iterator is at the bracket,
  behind a comment at the end of the line, where no further token begins.
  The heart of `EveryKeywordFound` is `KeywordIsRead`: the longest path of the trie
  at a keyword before a delimiter is that keyword, since no node has a delimiter in
  it. `LinesNumberedRight` needs `LinesNumbered` besides: the equation between
  number, newlines and tokens holds at the start of the line being read and at the
  iterator, except at the end of the text, where the last line has been counted
  though no newline ends it. A token changes both sides alike; that only two kinds have a newline is shown
  symbol by symbol (`SymbolBreaks`). The sum over tokens is the fold of the community
  modules, which takes the elements as it likes: `FoldsAreSums` and `FoldIsSum` in
  `Loops` show that the order does not matter. TLC checked `IInv` on the texts of run `tokenizer` first. The provers know no
  more of a string than that it differs from others; that it is a sequence of
  characters (`IsString`) is assumed of the texts and the keywords, and TLC evaluates
  both assumptions on every run of the module.

* **Assembler, `TypesHold`, `LabelsFound`, `HaltStays`, `PatchesStayApart`,
  `TwoPassesTranslate`**, for every set of sources. What is assumed (`Given`) is what
  the tokenizer hands over, lines of one token or more whose numbers are numbers
  (`IsSource`), and that `OP_TABLE` has a row for every instruction emitted
  (`OpcodesExist`); `Machine` assumes both by name, so that TLC evaluates them on
  its runs. First, every line yields code, bytes with at most one placeholder, which
  lies among them (`LineIsCode`, through every parse function and `parse_mem_expr`,
  whose loop is a sum of signed values over `values`). Then `IInv`: placeholders lie
  inside the code and before the HALT (`Inside`), each ends before the next begins
  (`Apart`), the labels known are those of the lines read (`Read`). `Apart` is what
  keeps pass 2 from adding two labels to one byte, and `Inside` what keeps it off
  the HALT.

  `IsTranslated` says what the two passes come to. It is stated from the source alone:
  `Starts` adds up the sizes of the lines, `Value` is the first definition of a label,
  `Translation` a byte of a line with the label in it; compared with that, the passes
  are an order of events in which a label used before its definition is 0 for a time.
  `JInv` relates the two at every step: the code ends where the next line starts
  (`Ends`), labels have their final values from the moment they are defined
  (`Valued`), placeholders and the lines that have one belong together
  (`Owned`), and each byte is the final one, or, while pass 2 has not come to its
  placeholder, the one the line emitted (`Compiled`). That a placeholder has one
  line, and the line one placeholder, is `OneOwner`, by `Apart` and `LinesApart`: the
  lines' ranges do not meet, since `Starts` never falls (`StartsRise`). That
  `Starts` exists is `LoopExists`. Run `machine` checks
  `IsTranslated`; TLC checked `IInv`, `JInv` and the other properties on the sources of
  run `machine` first. The value of a label is
  added without a carry from the low byte to the high one, in `Translation` as in the
  code: the theorem is about the order of things, and run `indexed_label` about the
  carry.

Assumptions on the constants are named in the modules: names are finitely many and
NULL is neither a name nor an address (`KeyAssumption`), hashes and values are natural numbers
(`HashAssumption`, `ValueAssumption`), capacities are multiples of four
(`CapacityAssumption`); elements are none of the marks for an
unset cell (`ElemAssumption`); programs and stray reads are bytes; the ring, the memory and
the screen lie as `screen.h` and the programs lay them out.

Only model-checked: liveness (`KeysArrive`, `GuestsCompute`, `QuitEnds`,
`ScreenKeepsUp`), which is out of the prover's reach; `ImmediatesRead` and `TokensStandAlone`, which say what
`strtol` computes from digits and what a second call of the tokenizer returns, both by
induction over data; the printer of `Errors`, whose columns are a fold; and the
three properties of `Machine`, which need the assembler and the CPU at once.

## 5. Not modelled, and what is left

Left out for good, since it has no state of its own: the printers of `debug.c` and
the disassembler, colours and wording in `errors.c`, the conversion of a byte to two
pixels and the rest of SDL, `write_file`, which has no caller. Also left out:
`eq_*`, `map_*`, `free_*` and the iterator helpers without a caller; allocation
failure outside `initCpu`; texts with NUL, vertical tabs or bytes above 127; a processor or
compiler that reorders the stores of one thread (apart from those of `memset` and
the merged loads of `runCpu`).

What is worth doing next, in this order:

1. The type invariant of `Machine`, from those of `Assembler` and `Cpu`, and from
   `IsTranslated` that `placed` is `Starts`: then what an instruction's operand and a
   jump's destination are meant to be could be compared with the bytes line by line.
2. `SuitsAssembler`, which is proved of the tokenizer, as the source of `IsSource`,
   which is assumed of the assembler. It needs a module that turns the tokens of the
   one, places in a text, into those of the other, symbols with arguments.
