------------------------------- MODULE Keyboard -------------------------------
(***************************************************************************)
(* The ring buffer in the VM's memory that carries keys from the render    *)
(* thread (write_input, screen.c) to a guest on the CPU thread (the        *)
(* get_keyboard routine of programs/keyboard.casm).  Two threads, no lock: *)
(* one action per access to the shared bytes.  WRITE_IDX is written by the *)
(* render thread only and READ_IDX by the guest only.                      *)
(*                                                                         *)
(* The accesses of a thread are taken in program order, which is what the  *)
(* build gives on x86.  ESC, which overwrites the whole memory, is left to *)
(* the model of the threads.                                               *)
(***************************************************************************)
EXTENDS Integers, Sequences

CONSTANTS
  Keys,      (* What convert_input returns, but for 0 (no key) and 1 (ESC). *)
  BUF_SIZE   (* 16 in screen.c, and in the guest's AND 0x0f.                *)

ASSUME KeysAssumption == Keys \subseteq 2 .. 255
ASSUME SizeAssumption == BUF_SIZE \in 2 .. 256

VARIABLES
  write_idx, read_idx, ringbuf,   (* MEMORY at 0x9fed, 0x9fee and 0x9fef on. *)
  render, input,                  (* The render thread: where it is, and the
                                     key write_input was called with.        *)
  guest, acc,                     (* The guest: where it is, and ACC.        *)
  latest                          (* The key get_keyboard last took out.     *)

ring   == <<write_idx, read_idx, ringbuf>>
screen == <<render, input>>
program == <<guest, acc, latest>>
vars   == <<ring, screen, program>>

Index  == 0 .. BUF_SIZE - 1
NoKey  == 0
Buffer == [Index -> Keys \cup {NoKey}]

\* Mutant: the index is not brought back to the start of the buffer.
NotWrapped(i) == i + 1
Following(i) == (i + 1) % BUF_SIZE

Init == /\ write_idx = 0 /\ read_idx = 0
        /\ ringbuf = [i \in Index |-> NoKey]
        /\ render = "poll" /\ input = NoKey
        /\ guest = "main" /\ acc = 0
        /\ latest = NoKey

-----------------------------------------------------------------------------
(***************************************************************************)
(* The render thread.                                                      *)
(***************************************************************************)
\* SDL_PollEvent returns a key and convert_input knows it.
Press == /\ render = "poll"
         /\ input' \in Keys
         /\ render' = "check"
         /\ UNCHANGED <<ring, program>>

\* Mutant: the next index compared before it is wrapped.
CheckUnwrapped == /\ render = "check"
                  /\ render' = IF write_idx + 1 = read_idx THEN "poll" ELSE "store"
                  /\ input' = IF write_idx + 1 = read_idx THEN NoKey ELSE input
                  /\ UNCHANGED <<ring, program>>

\* No room: the key is dropped.
Check == /\ render = "check"
         /\ render' = IF Following(write_idx) = read_idx THEN "poll" ELSE "store"
         /\ input' = IF Following(write_idx) = read_idx THEN NoKey ELSE input
         /\ UNCHANGED <<ring, program>>

\* Mutant: the key stored one slot too far.
StoreKeyNext == /\ render = "store"
                /\ ringbuf' = [ringbuf EXCEPT ![Following(write_idx)] = input]
                /\ render' = "publish"
                /\ UNCHANGED <<write_idx, read_idx, input, program>>

StoreKey == /\ render = "store"
            /\ ringbuf' = [ringbuf EXCEPT ![write_idx] = input]
            /\ render' = "publish"
            /\ UNCHANGED <<write_idx, read_idx, input, program>>

Publish == /\ render = "publish"
           /\ write_idx' = Following(write_idx)
           /\ render' = "poll" /\ input' = NoKey
           /\ UNCHANGED <<read_idx, ringbuf, program>>

-----------------------------------------------------------------------------
(***************************************************************************)
(* The guest: its main loop calls get_keyboard, and calls it again when it *)
(* has dealt with the key, or with the 0 that stands for none.             *)
(***************************************************************************)
\* CALL .get_keyboard; LOAD read_idx[0]
LoadReadIdx == /\ guest = "main"
               /\ acc' = read_idx
               /\ guest' = "compare"
               /\ UNCHANGED <<ring, screen, latest>>

\* Mutant: the last key in the buffer taken for none.
CompareLeavesLast ==
  /\ guest = "compare"
  /\ guest' = IF write_idx \in {acc, Following(acc)} THEN "main" ELSE "fetch"
  /\ acc' = IF write_idx \in {acc, Following(acc)} THEN 0 ELSE acc
  /\ UNCHANGED <<ring, screen, latest>>

\* CMP write_idx[0]; JZ .buf_empty, and there LOAD 0; RET
CompareWriteIdx == /\ guest = "compare"
                   /\ guest' = IF acc = write_idx THEN "main" ELSE "fetch"
                   /\ acc' = IF acc = write_idx THEN 0 ELSE acc
                   /\ UNCHANGED <<ring, screen, latest>>

\* STORE L; LOAD 0; STORE H; LOAD ringbuf[HL]
FetchKey == /\ guest = "fetch"
            /\ acc' = ringbuf[acc]
            /\ guest' = "advance"
            /\ UNCHANGED <<ring, screen, latest>>

\* PUSH ACC; LOAD read_idx[0]; INC ACC; AND 0x0f; STORE read_idx[0]; POP ACC; RET
Advance == /\ guest = "advance"
           /\ read_idx' = Following(read_idx)
           /\ latest' = acc
           /\ guest' = "main"
           /\ UNCHANGED <<write_idx, ringbuf, acc, screen>>

-----------------------------------------------------------------------------
Render == Check \/ StoreKey \/ Publish
Guest  == LoadReadIdx \/ CompareWriteIdx \/ FetchKey \/ Advance
Next   == Press \/ Render \/ Guest

Spec == Init /\ [][Next]_vars

\* Both threads are scheduled; nobody has to press a key.
FairSpec == Spec /\ WF_vars(Render) /\ WF_vars(Guest)

-----------------------------------------------------------------------------
TypeOK == /\ write_idx \in Index /\ read_idx \in Index
          /\ ringbuf \in Buffer
          /\ render \in {"poll", "check", "store", "publish"}
          /\ input \in Keys \cup {NoKey}
          /\ guest \in {"main", "compare", "fetch", "advance"}
          /\ acc \in Keys \cup Index
          /\ latest \in Keys \cup {NoKey}

\* The render thread has a key in hand from the event to its last store.
InputHeld == input = NoKey <=> render = "poll"

\* What the render thread found out about the room in the buffer stays true
\* while it writes: the guest may have made more room, never less.
RoomKept == render \in {"store", "publish"} => Following(write_idx) # read_idx

\* The key is in its slot before the index says so.
KeyStored == render = "publish" => ringbuf[write_idx] = input

\* What the guest found out, that a key waits, stays true until it has taken
\* it, and the slot it reads is not written under it.
KeyKept == /\ guest \in {"fetch", "advance"} => read_idx # write_idx
           /\ guest \in {"compare", "fetch"} => acc = read_idx
           /\ guest = "advance" => acc = ringbuf[read_idx]

\* No check of an index is stale when the thread that made it acts on it,
\* although the other thread has moved on in between.
ChecksStayValid == InputHeld /\ RoomKept /\ KeyStored /\ KeyKept

(***************************************************************************)
(* The ring is a queue of at most BUF_SIZE - 1 keys.                       *)
(***************************************************************************)
Count(w, r)   == (w - r) % BUF_SIZE
Slot(r, i)    == (r + i) % BUF_SIZE
Held(w, r, b) == [i \in 1 .. Count(w, r) |-> b[Slot(r, i - 1)]]
Waiting       == Held(write_idx, read_idx, ringbuf)

Queue == INSTANCE KeyQueue WITH pressed <- input, queue <- Waiting,
                                Capacity <- BUF_SIZE - 1

\* Keys reach the guest in the order they were typed, each once, and a key is
\* lost only when BUF_SIZE - 1 keys wait: no interleaving of write_input and
\* get_keyboard drops, doubles, reorders or garbles one.
KeysInOrder == Queue!Spec

\* Every key that found room is received, however the threads are scheduled.
KeysArrive == Queue!Progress
=============================================================================
