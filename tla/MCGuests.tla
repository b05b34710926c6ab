------------------------------- MODULE MCGuests -------------------------------
(***************************************************************************)
(* Guest programs run to their end: the sample programs of programs/ as    *)
(* assembler.c translates them, their parameters varied, and a family of   *)
(* functions with every small body a stack frame allows.                   *)
(***************************************************************************)
EXTENDS CallFrames

CONSTANTS
  FibCounts, FibArguments, CollatzArguments,  (* parameters of the samples  *)
  Words,                                      (* summands of 16 bits        *)
  Depths,                                     (* of recursion               *)
  BodyLength                                  (* of the frame guests        *)

VARIABLE guest

\* A guest: its code, and what it leaves at HALT in one place and in SP.
Guest(code, what, value, s) ==
  [code |-> code, what |-> what, value |-> value, sp |-> s]

Fib[n \in Nat] == IF n < 2 THEN n ELSE Fib[n - 1] + Fib[n - 2]
Steps[n \in Nat \ {0}] ==
  IF n = 1 THEN 0 ELSE 1 + Steps[IF n % 2 = 0 THEN n \div 2 ELSE 3 * n + 1]

\* fibonacci.casm, with its counter of 10 replaced by n.
Fibonacci(n) ==
  Guest(<<4, 6, 22, 8, 1, 23, 8, n, 20, 6, 38, 39, 31, 22, 76, 172, 1, 9, 15, 1, 1>>,
        "ACC", Wrap8(Fib[n + 1]), 0)

\* fib_recursive.casm, with its argument of 35 replaced by n.
FibRecursive(n) ==
  Guest(<<8, n, 22, 200, 1, 7, 1, 15, 176, 0, 172, 1, 26, 14, 176, 0, 172, 1, 20, 201,
          176, 1, 172, 1, 26, 201, 189, 188, 72, 200, 1, 7, 193, 194, 189, 188, 22, 12,
          23, 156, 0, 2, 200, 1, 7, 193, 38, 22, 193, 47, 23, 201, 1>>,
        "HL", Wrap16(Fib[n]), 0)

\* collatz.casm, with its starting point of 123 replaced by n.
Collatz(n) ==
  Guest(<<4, 8, n, 22, 68, 14, 96, 1, 176, 0, 171, 1, 19, 200, 1, 40, 168, 1, 22, 200,
          1, 36, 15, 176, 0, 172, 1, 4, 14, 176, 1, 172, 1, 4, 12, 1, 164, 0, 2, 201,
          160, 0, 3, 152, 0, 1, 201, 1>>,
        "ACC", Steps[n], 0)

\* stack_test.casm, with its argument of 12 replaced by a.
StackTest(a) ==
  Guest(<<4, 184, a, 200, 1, 7, 1, 202, 2, 184, 10, 8, 3, 205, 0, 8, 5, 205, 255, 6,
          225, 255, 229, 0, 227, 0, 225, 4, 194, 36, 203, 201, 1>>,
        "ACC", Wrap8(a + 11), 1)

\* function_test.casm.
FunctionTest ==
  Guest(<<4, 8, 3, 20, 8, 5, 21, 200, 1, 12, 22, 1, 12, 37, 201, 1>>, "L", 8, 0)

\* The sum at the end of fib_recursive.casm: v on the stack, w in HL.
WordSum(v, w) ==
  Guest(<<184, Hi(v), 184, Lo(v), 24, Hi(w), Lo(w), 193, 38, 22, 193, 47, 23, 1>>,
        "HL", Wrap16(v + w), 0)

\* The three-byte counter at the start of keyboard.casm, its bytes behind HALT.  Of the
\* high byte it keeps the bit of weight 2.
Caret(high, w) ==
  Guest(<<24, 1, 25, 67, 6, 24, 1, 24, 43, 17, 1, 24, 6, 24, 1, 23, 43, 96, 2, 17, 1, 23, 1,
          high, Hi(w), Lo(w)>>,
        "counter",
        65536 * BitAnd(high + (w + 1) \div 65536, 2) + Wrap16(w + 1), 0)

\* A function that calls itself until R0 is zero, n calls deep.
Recursion(n) == Guest(<<8, n, 20, 200, 1, 7, 1, 76, 171, 1, 14, 200, 1, 7, 201, 1>>, "R0", 0, 0)

(***************************************************************************)
(* PUSH 5; CALL f; HALT, where f makes a frame of two locals, runs a body  *)
(* that may leave values on the stack, and returns with RET or with RET 1. *)
(* The function g, which the body may call, has a frame of its own.        *)
(***************************************************************************)
Body == {<<184, 7>>, <<190>>, <<191>>, <<205, 0>>, <<229, 4>>, <<224, 255>>, <<200, 1, 6>>}
Bodies == UNION {[1 .. n -> Body] : n \in 0 .. BodyLength}

FrameGuest(body, return, s) ==
  Guest(<<184, 5, 200, 1, 12, 1>> \o <<202, 1, 184, 9, 203, 201>>
          \o <<202, 2>> \o FlattenSeq(body) \o <<203>> \o return,
        "BP", 0, s)

Guests ==
  {Fibonacci(n) : n \in FibCounts} \cup {FibRecursive(n) : n \in FibArguments}
    \cup {Collatz(n) : n \in CollatzArguments} \cup {StackTest(a) : a \in {12, 250}}
    \cup {FunctionTest} \cup {WordSum(v, w) : v, w \in Words}
    \cup {Caret(h, w) : h \in {1, 255}, w \in Words} \cup {Recursion(n) : n \in Depths}
    \cup {FrameGuest(b, <<201>>, 1) : b \in Bodies}
    \cup {FrameGuest(b, <<209, 1>>, 0) : b \in Bodies}

GuestPrograms == {g.code : g \in Guests}

GInit == /\ guest \in Guests
         /\ FInit
         /\ memory = loadProgram(guest.code)
GNext == FNext /\ UNCHANGED guest
GSpec == GInit /\ [][GNext]_<<cvars, guest>> /\ WF_<<cvars, guest>>(GNext)

-----------------------------------------------------------------------------
Outcome(what) == CASE what = "HL" -> HL
                   [] what = "BP" -> bp
                   [] what = "counter" -> 65536 * MEMORY(279) + Pair(MEMORY(280), MEMORY(281))
                   [] OTHER -> reg[what]

\* Every guest comes to its HALT, no return astray and no loop without its exit, the
\* one that uses all 256 bytes of the stack included, and has computed what its source
\* says: Fibonacci numbers, the length of a Collatz sequence, a sum of 16 bits and a
\* counter of three bytes carried from byte to byte; and it has left no byte too many on
\* the stack.
GuestsCompute ==
  <>(run = "halted" /\ Outcome(guest.what) = guest.value /\ sp = guest.sp)
=============================================================================
