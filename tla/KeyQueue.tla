------------------------------- MODULE KeyQueue -------------------------------
(***************************************************************************)
(* What the keyboard promises a guest: a first-in first-out queue of keys  *)
(* between the user and the program.  A key pressed while the queue is at  *)
(* its capacity is lost, and no other.                                     *)
(***************************************************************************)
EXTENDS Naturals, Sequences

CONSTANTS
  Keys,      (* What may be typed.                                         *)
  NoKey,     (* None of Keys.                                              *)
  Capacity   (* How many keys may wait.                                    *)

VARIABLES
  pressed,   (* The key pressed and not yet dealt with, or NoKey.          *)
  queue,     (* The keys that wait.                                        *)
  latest     (* The last key the program was given, or NoKey.              *)

vars == <<pressed, queue, latest>>

Init == pressed = NoKey /\ queue = <<>> /\ latest = NoKey

Press == /\ pressed = NoKey
         /\ pressed' \in Keys
         /\ UNCHANGED <<queue, latest>>

Accept == /\ pressed # NoKey
          /\ Len(queue) < Capacity
          /\ queue' = Append(queue, pressed)
          /\ pressed' = NoKey
          /\ UNCHANGED latest

Lose == /\ pressed # NoKey
        /\ Len(queue) = Capacity
        /\ pressed' = NoKey
        /\ UNCHANGED <<queue, latest>>

Receive == /\ queue # <<>>
           /\ latest' = Head(queue)
           /\ queue' = Tail(queue)
           /\ UNCHANGED pressed

Next == Press \/ Accept \/ Lose \/ Receive

Spec == Init /\ [][Next]_vars

\* Every key pressed is dealt with, and every key accepted is received.
Progress == WF_vars(Accept \/ Lose) /\ WF_vars(Receive)
=============================================================================
