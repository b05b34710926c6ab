------------------------------ MODULE CallFrames ------------------------------
(***************************************************************************)
(* The CPU with a history of the calls and frames in progress, to say what *)
(* CALL, RET, RET_I, ENTER and LEAVE promise a guest that keeps its own    *)
(* stack in order.  frames holds, for each CALL not yet returned from and  *)
(* each ENTER not yet left, the stack pointer that pushed its linkage, the *)
(* base pointer of that moment, and where it must return to; height is     *)
(* that of the stack counted without the wrap of SP, peak its greatest.    *)
(***************************************************************************)
EXTENDS Cpu, SequencesExt

VARIABLES frames, height, peak

history == <<frames, height, peak>>
cvars   == <<vars, history>>

Frame(kind, ret) == [kind |-> kind, base |-> sp, bp |-> bp, ret |-> ret]

\* How many bytes of linkage a frame has, where it ends, and where the last one does.
Linkage == [CALL |-> 2, ENTER |-> 1]
End(f)  == f.base + Linkage[f.kind]
Floor   == IF frames = <<>> THEN 0 ELSE End(Last(frames))
Cells(f) == {Wrap8(f.base + i) : i \in 0 .. Linkage[f.kind] - 1}

Returning == Executing("RET") \/ Executing("RET_I")
Pushing   == Executing("PUSH") \/ Executing("CALL") \/ Executing("ENTER")

\* An ENTER of 255 locals raises the stack by 256, and SP comes out where it was;
\* a return drops two bytes at least.
Height ==
  CASE Pushing          -> height + 1 + Wrap8(sp' - sp - 1)
    [] Returning        -> height - 2 - Wrap8(sp - 2 - sp')
    [] Executing("RESET") -> 0
    [] OTHER            -> height - Wrap8(sp - sp')

Record ==
  /\ frames' = CASE Executing("CALL")  -> Append(frames, Frame("CALL", After(3)))
                 [] Executing("ENTER") -> Append(frames, Frame("ENTER", After(2)))
                 [] (Returning \/ Executing("LEAVE")) /\ frames # <<>> -> Front(frames)
                 [] Executing("RESET") -> <<>>
                 [] OTHER -> frames
  /\ height' = Height
  /\ peak' = IF Height > peak THEN Height ELSE peak

FInit == Init /\ frames = <<>> /\ height = 0 /\ peak = 0
FNext == Next /\ Record
FSpec == FInit /\ [][FNext]_cvars

-----------------------------------------------------------------------------
(***************************************************************************)
(* What a guest in order does: it returns from a call with the stack where *)
(* CALL left it, leaves what it entered last, never pops below the latest  *)
(* linkage, moves BP with ENTER and LEAVE alone, and stores through BP     *)
(* beside the linkage only.                                                *)
(***************************************************************************)
Storing == \E op \in {"STORE", "XCH", "POP"} \cup UnaryOps : Executing(op)

Orderly ==
  /\ Returning => frames # <<>> /\ Last(frames).kind = "CALL" /\ height = End(Last(frames))
  /\ Executing("LEAVE") => frames # <<>> /\ Last(frames).kind = "ENTER"
  /\ Executing("POP") => Mode # "BP"
  /\ Storing /\ Mode = "BPI" =>
       \A p \in Operand(Mode), i \in DOMAIN frames : p.at \notin Cells(frames[i])
  /\ height' >= Floor'

\* The guests of programs/ are in order at every depth of recursion, and so is every
\* small function body, one that leaves values above its frame included.
GuestsInOrder == [][Orderly]_cvars

-----------------------------------------------------------------------------
Untouched(f) ==
  IF f.kind = "CALL" THEN Pair(stack[f.base], stack[Wrap8(f.base + 1)]) = f.ret
                     ELSE stack[f.base] = f.bp

\* While the stack has never held more than its 256 bytes, the return address
\* of every call in progress and the base pointer of every frame lie untouched
\* where CALL and ENTER put them, under whatever the callees have pushed, and
\* one above the other.
FramesIntact ==
  peak <= 256 =>
    /\ \A i \in DOMAIN frames : Untouched(frames[i])
    /\ \A i, j \in DOMAIN frames : i < j => End(frames[i]) <= frames[j].base

\* A return goes to the instruction after the latest call not yet returned
\* from, with the caller's base pointer restored and the stack back to the
\* height of that call, less the arguments that RET_I drops.
ReturnsToCaller ==
  [][Returning /\ frames # <<>> /\ peak <= 256 =>
       LET f == Last(frames)
       IN /\ f.kind = "CALL" /\ pc' = f.ret
          /\ bp' = f.bp
          /\ Executing("RET") => sp' = f.base
          /\ Executing("RET_I") => \E args \in Fetch(pc + 1) : sp' = Wrap8(f.base - args)
    ]_cvars
=============================================================================
