---------------------------- MODULE KeyboardProofs ----------------------------
(***************************************************************************)
(* Proofs about Keyboard, for every set of keys and every size of the      *)
(* buffer: it is type correct, its checks stay valid, and it implements    *)
(* KeyQueue, fairness apart.                                               *)
(***************************************************************************)
EXTENDS Keyboard, SequenceTheorems, TLAPS

(***************************************************************************)
(* Arithmetic modulo the size of the buffer.                               *)
(***************************************************************************)
\* A remainder is found by at most one subtraction or addition of n.
LEMMA Modulo ==
  ASSUME NEW n \in Nat \ {0}, NEW x \in Int, -n <= x, x < 2 * n
  PROVE  x % n = IF x < 0 THEN x + n ELSE IF x < n THEN x ELSE x - n
<1> DEFINE q == x \div n
<1>1. q \in Int /\ x = n * q + (x % n) /\ 0 <= x % n /\ x % n < n
  OBVIOUS
<1> HIDE DEF q
<1>2. /\ q >= 2 => n * q >= 2 * n
      /\ q <= -2 => n * q <= (-2) * n
  BY <1>1
<1>3. CASE q = 0
  BY <1>1, <1>3
<1>4. CASE q = 1
  BY <1>1, <1>4
<1>5. CASE q = -1
  BY <1>1, <1>5
<1>6. QED BY <1>1, <1>2, <1>3, <1>4, <1>5

\* The size of the buffer is an integer greater than one.
LEMMA Size == BUF_SIZE \in Nat \ {0} /\ BUF_SIZE >= 2
  BY SizeAssumption

\* The index after another one, as a test instead of a remainder.
LEMMA FollowingIs == \A i \in Index : Following(i) = IF i + 1 = BUF_SIZE THEN 0 ELSE i + 1
<1> SUFFICES ASSUME NEW i \in Index
             PROVE  Following(i) = IF i + 1 = BUF_SIZE THEN 0 ELSE i + 1
  OBVIOUS
<1> DEFINE x == i + 1
<1>1. /\ x \in Int /\ 0 <= x /\ -BUF_SIZE <= x /\ x <= BUF_SIZE /\ x < 2 * BUF_SIZE
      /\ BUF_SIZE - BUF_SIZE = 0
  BY Size DEF Index
<1>2. Following(i) = x % BUF_SIZE
  BY DEF Following
<1> HIDE DEF x
<1>3. x % BUF_SIZE = IF x < 0 THEN x + BUF_SIZE
                              ELSE IF x < BUF_SIZE THEN x ELSE x - BUF_SIZE
  BY <1>1, Size, Modulo
<1>4. Following(i) = IF x = BUF_SIZE THEN 0 ELSE x
  BY <1>1, <1>2, <1>3, Size
<1>5. QED BY <1>4 DEF x

\* The index after another one is an index.
LEMMA FollowingIndex == \A i \in Index : Following(i) \in Index
  BY FollowingIs, Size DEF Index

-----------------------------------------------------------------------------
(***************************************************************************)
(* Type correctness and the inductive invariant.                           *)
(***************************************************************************)
\* A key is an integer and never the 0 that stands for none.
LEMMA KeyInt == \A k \in Keys : k \in Int /\ k # NoKey
  BY KeysAssumption DEF NoKey

\* The two hold together: the key taken out is of its type because the check
\* that found one is still valid.
Inv == TypeOK /\ ChecksStayValid

\* calloc and the start of the threads establish the invariant.
LEMMA InitInv == Init => Inv
  BY Size DEF Init, Inv, TypeOK, ChecksStayValid, InputHeld, RoomKept, KeyStored, KeyKept,
              Index, NoKey, Buffer

\* Every step of the render thread keeps the invariant ...
LEMMA RenderInv == ASSUME Inv, Press \/ Render PROVE Inv'
<1> USE DEF Inv, TypeOK, ChecksStayValid, InputHeld, RoomKept, KeyStored, KeyKept, ring, program
<1>1. CASE Press
  BY <1>1, KeyInt DEF Press
<1>2. CASE Check
  BY <1>2 DEF Check
<1>3. CASE StoreKey
  <2>1. ringbuf' \in Buffer /\ ringbuf'[write_idx] = input
    BY <1>3 DEF StoreKey, Buffer
  <2>2. read_idx # write_idx => ringbuf'[read_idx] = ringbuf[read_idx]
    BY <1>3 DEF StoreKey
  <2>3. QED BY <1>3, <2>1, <2>2 DEF StoreKey
<1>4. CASE Publish
  BY <1>4, FollowingIndex DEF Publish
<1>5. QED BY <1>1, <1>2, <1>3, <1>4 DEF Render

\* ... and so does every step of the guest.
LEMMA GuestInv == ASSUME Inv, Guest PROVE Inv'
<1> USE DEF Inv, TypeOK, ChecksStayValid, InputHeld, RoomKept, KeyStored, KeyKept, ring, screen
<1>1. CASE LoadReadIdx
  BY <1>1 DEF LoadReadIdx
<1>2. CASE CompareWriteIdx
  <2>1. 0 \in Index
    BY Size DEF Index
  <2>2. QED BY <1>2, <2>1 DEF CompareWriteIdx
<1>3. CASE FetchKey
  <2>1. ringbuf[acc] \in Keys \cup Index
    <3>1. 0 \in Index
      BY Size DEF Index
    <3>2. QED BY <1>3, <3>1 DEF FetchKey, Buffer, NoKey
  <2>2. QED BY <1>3, <2>1 DEF FetchKey
<1>4. CASE Advance
  <2>1. Following(read_idx) \in Index
    BY FollowingIndex
  <2>2. acc \in Keys \cup {NoKey}
    BY <1>4 DEF Advance, Buffer
  <2>3. render \in {"store", "publish"} => Following(write_idx) # Following(read_idx)
    <3>1. read_idx # write_idx
      BY <1>4 DEF Advance
    <3>2. Following(read_idx) # Following(write_idx)
      BY <3>1, FollowingIs, Size DEF Index
    <3>3. QED BY <3>2
  <2>4. QED BY <1>4, <2>1, <2>2, <2>3 DEF Advance
<1>5. QED BY <1>1, <1>2, <1>3, <1>4 DEF Guest

\* Every state of Keyboard satisfies it.
LEMMA Invariant == Spec => []Inv
<1>1. ASSUME Inv, [Next]_vars PROVE Inv'
  <2>1. CASE UNCHANGED vars
    BY <1>1, <2>1 DEF vars, ring, screen, program, Inv, TypeOK, ChecksStayValid, InputHeld,
                      RoomKept, KeyStored, KeyKept
  <2>2. QED BY <1>1, <2>1, RenderInv, GuestInv DEF Next
<1>2. QED BY <1>1, InitInv, PTL DEF Spec

\* The indices stay within the buffer and the buffer within its 16 bytes, at
\* every access of either thread.
THEOREM TypeCorrect == Spec => []TypeOK
<1>1. Inv => TypeOK
  BY DEF Inv
<1>2. QED BY <1>1, Invariant, PTL

\* Each thread acts on a comparison of the indices that the other thread may
\* have made old; it is never made wrong.
THEOREM ChecksValid == Spec => []ChecksStayValid
<1>1. Inv => ChecksStayValid
  BY DEF Inv
<1>2. QED BY <1>1, Invariant, PTL

-----------------------------------------------------------------------------
(***************************************************************************)
(* Keyboard implements KeyQueue.                                           *)
(***************************************************************************)
\* The number of keys that wait, and the slot of each, without remainders.
LEMMA CountIs ==
  \A w, r \in Index : Count(w, r) = IF w >= r THEN w - r ELSE w - r + BUF_SIZE
<1> SUFFICES ASSUME NEW w \in Index, NEW r \in Index
             PROVE  Count(w, r) = IF w >= r THEN w - r ELSE w - r + BUF_SIZE
  OBVIOUS
<1> DEFINE x == w - r
<1>1. /\ x \in Int /\ -BUF_SIZE <= x /\ x < BUF_SIZE /\ x < 2 * BUF_SIZE
      /\ w >= r <=> 0 <= x
  BY Size DEF Index
<1>2. Count(w, r) = x % BUF_SIZE
  BY DEF Count
<1> HIDE DEF x
<1>3. x % BUF_SIZE = IF x < 0 THEN x + BUF_SIZE
                              ELSE IF x < BUF_SIZE THEN x ELSE x - BUF_SIZE
  BY <1>1, Size, Modulo
<1>4. Count(w, r) = IF w >= r THEN x ELSE x + BUF_SIZE
  BY <1>1, <1>2, <1>3
<1>5. QED BY <1>4 DEF x

\* The slot i places after the read index.
LEMMA SlotIs ==
  \A r, i \in Index : Slot(r, i) = IF r + i < BUF_SIZE THEN r + i ELSE r + i - BUF_SIZE
<1> SUFFICES ASSUME NEW r \in Index, NEW i \in Index
             PROVE  Slot(r, i) = IF r + i < BUF_SIZE THEN r + i ELSE r + i - BUF_SIZE
  OBVIOUS
<1> DEFINE x == r + i
<1>1. x = r + i
  OBVIOUS
<1>2. x \in Int /\ 0 <= x /\ -BUF_SIZE <= x /\ x < 2 * BUF_SIZE
  BY Size DEF Index
<1>3. Slot(r, i) = x % BUF_SIZE
  BY DEF Slot
<1> HIDE DEF x
<1>4. x % BUF_SIZE = IF x < 0 THEN x + BUF_SIZE
                              ELSE IF x < BUF_SIZE THEN x ELSE x - BUF_SIZE
  BY <1>2, Size, Modulo
<1>5. Slot(r, i) = IF x < BUF_SIZE THEN x ELSE x - BUF_SIZE
  BY <1>2, <1>3, <1>4
<1>6. QED BY <1>2, <1>5, <1>1, Size DEF Index

\* Fewer keys wait than the buffer has slots.
LEMMA CountIndex == \A w, r \in Index : Count(w, r) \in Index
  BY CountIs, Size DEF Index

\* The slot of a key that waits is within the buffer.
LEMMA SlotIndex == \A r, i \in Index : Slot(r, i) \in Index
  BY SlotIs, Size DEF Index

\* What a buffer holds is a sequence.
LEMMA HeldSeq ==
  \A w, r \in Index, b \in Buffer :
    /\ Held(w, r, b) \in Seq(Keys \cup {NoKey})
    /\ Len(Held(w, r, b)) = Count(w, r)
    /\ \A i \in 1 .. Count(w, r) : Held(w, r, b)[i] = b[Slot(r, i - 1)]
<1> DEFINE S == Keys \cup {NoKey}
<1> SUFFICES ASSUME NEW w \in Index, NEW r \in Index, NEW b \in Buffer
             PROVE  /\ Held(w, r, b) \in Seq(S)
                    /\ Len(Held(w, r, b)) = Count(w, r)
                    /\ \A i \in 1 .. Count(w, r) : Held(w, r, b)[i] = b[Slot(r, i - 1)]
  OBVIOUS
<1>1. Count(w, r) \in Index /\ Count(w, r) \in Nat
  BY CountIndex, Size DEF Index
<1>2. \A i \in 1 .. Count(w, r) : b[Slot(r, i - 1)] \in S
  <2> SUFFICES ASSUME NEW i \in 1 .. Count(w, r) PROVE b[Slot(r, i - 1)] \in S
    OBVIOUS
  <2>1. i - 1 \in Index
    BY <1>1, Size DEF Index
  <2>2. QED BY <2>1, SlotIndex DEF Buffer
<1> HIDE DEF S
<1>3. QED BY <1>1, <1>2 DEF Held

\* A buffer whose indices are equal holds nothing, and one whose write index
\* is just before the read index is full.
LEMMA HeldBounds ==
  /\ \A r \in Index : Count(r, r) = 0
  /\ \A w, r \in Index : Following(w) = r => Count(w, r) = BUF_SIZE - 1
  /\ \A w, r \in Index : Following(w) # r => Count(w, r) < BUF_SIZE - 1
<1>1. ASSUME NEW w \in Index, NEW r \in Index
      PROVE  /\ Following(w) = r => Count(w, r) = BUF_SIZE - 1
             /\ Following(w) # r => Count(w, r) < BUF_SIZE - 1
             /\ Count(r, r) = 0
  <2>1. /\ Count(w, r) = IF w >= r THEN w - r ELSE w - r + BUF_SIZE
        /\ Count(r, r) = r - r
        /\ Following(w) = IF w + 1 = BUF_SIZE THEN 0 ELSE w + 1
    BY CountIs, FollowingIs DEF Index
  <2>2. QED BY <2>1, Size DEF Index
<1>2. QED BY <1>1

\* The slot that is written to next holds nothing.
LEMMA HeldExcept ==
  \A w, r \in Index, b \in Buffer : \A k : Held(w, r, [b EXCEPT ![w] = k]) = Held(w, r, b)
<1> SUFFICES ASSUME NEW w \in Index, NEW r \in Index, NEW b \in Buffer, NEW k
             PROVE  Held(w, r, [b EXCEPT ![w] = k]) = Held(w, r, b)
  OBVIOUS
<1>1. ASSUME NEW i \in 1 .. Count(w, r) PROVE Slot(r, i - 1) # w /\ Slot(r, i - 1) \in Index
  <2>1. /\ Count(w, r) = IF w >= r THEN w - r ELSE w - r + BUF_SIZE
        /\ i - 1 \in Index /\ i >= 1 /\ i <= Count(w, r)
    <3>1. Count(w, r) \in Int /\ Count(w, r) <= BUF_SIZE - 1
      BY CountIndex, Size DEF Index
    <3>2. QED BY <3>1, CountIs, Size DEF Index
  <2>2. Slot(r, i - 1) = IF r + (i - 1) < BUF_SIZE THEN r + (i - 1) ELSE r + (i - 1) - BUF_SIZE
    BY <2>1, SlotIs
  <2>3. QED BY <2>1, <2>2, Size DEF Index
<1>2. \A i \in 1 .. Count(w, r) : [b EXCEPT ![w] = k][Slot(r, i - 1)] = b[Slot(r, i - 1)]
  BY <1>1 DEF Buffer
<1>3. QED BY <1>2 DEF Held

\* Moving the write index on appends the slot it leaves behind.
LEMMA HeldAppend ==
  \A w, r \in Index, b \in Buffer :
    Following(w) # r => Held(Following(w), r, b) = Append(Held(w, r, b), b[w])
<1> DEFINE S == Keys \cup {NoKey}
<1> SUFFICES ASSUME NEW w \in Index, NEW r \in Index, NEW b \in Buffer, Following(w) # r
             PROVE  Held(Following(w), r, b) = Append(Held(w, r, b), b[w])
  OBVIOUS
<1> DEFINE n == Count(w, r)
<1>1. n \in Int /\ 0 <= n /\ Following(w) \in Index
  <2>1. n \in Index
    BY CountIndex
  <2>2. QED BY <2>1, FollowingIndex, Size DEF Index
<1>2. /\ n = IF w >= r THEN w - r ELSE w - r + BUF_SIZE
      /\ Following(w) = IF w + 1 = BUF_SIZE THEN 0 ELSE w + 1
      /\ Count(Following(w), r) = IF Following(w) >= r THEN Following(w) - r
                                                       ELSE Following(w) - r + BUF_SIZE
  BY <1>1, CountIs, FollowingIs
<1>3. Count(Following(w), r) = n + 1
  BY <1>2, Size DEF Index
<1>4. Slot(r, n) = w
  <2>1. n \in Index
    BY CountIndex
  <2>2. Slot(r, n) = IF r + n < BUF_SIZE THEN r + n ELSE r + n - BUF_SIZE
    BY <2>1, SlotIs
  <2>3. QED BY <1>2, <2>2, Size DEF Index
<1>5. /\ Held(w, r, b) \in Seq(S) /\ Len(Held(w, r, b)) = n
      /\ \A i \in 1 .. n : Held(w, r, b)[i] = b[Slot(r, i - 1)]
      /\ b[w] \in S
  BY HeldSeq DEF Buffer
<1>6. /\ Held(Following(w), r, b) \in Seq(S) /\ Len(Held(Following(w), r, b)) = n + 1
      /\ \A i \in 1 .. n + 1 : Held(Following(w), r, b)[i] = b[Slot(r, i - 1)]
  <2>1. /\ Held(Following(w), r, b) \in Seq(S)
        /\ Len(Held(Following(w), r, b)) = Count(Following(w), r)
        /\ \A i \in 1 .. Count(Following(w), r) :
             Held(Following(w), r, b)[i] = b[Slot(r, i - 1)]
    BY <1>1, HeldSeq
  <2>2. QED BY <1>3, <2>1
<1> HIDE DEF n, S
<1>7. /\ Append(Held(w, r, b), b[w]) \in Seq(S)
      /\ Len(Append(Held(w, r, b), b[w])) = n + 1
      /\ \A i \in 1 .. n : Append(Held(w, r, b), b[w])[i] = Held(w, r, b)[i]
      /\ Append(Held(w, r, b), b[w])[n + 1] = b[w]
  BY <1>1, <1>5
<1>8. ASSUME NEW i \in 1 .. n + 1
      PROVE  Held(Following(w), r, b)[i] = Append(Held(w, r, b), b[w])[i]
  <2>1. CASE i \in 1 .. n
    BY <1>5, <1>6, <1>7, <2>1
  <2>2. CASE i = n + 1
    <3>1. Slot(r, i - 1) = w
      BY <1>1, <1>4, <2>2
    <3>2. QED BY <1>6, <1>7, <2>2, <3>1
  <2>3. i \in 1 .. n \/ i = n + 1
    BY <1>1
  <2>4. QED BY <2>1, <2>2, <2>3
<1>9. QED BY <1>6, <1>7, <1>8, SeqEqual

\* Moving the read index on takes the slot it leaves behind off the front.
LEMMA HeldTail ==
  \A w, r \in Index, b \in Buffer :
    r # w => /\ Held(w, r, b) # <<>>
             /\ Head(Held(w, r, b)) = b[r]
             /\ Held(w, Following(r), b) = Tail(Held(w, r, b))
<1> DEFINE S == Keys \cup {NoKey}
<1> SUFFICES ASSUME NEW w \in Index, NEW r \in Index, NEW b \in Buffer, r # w
             PROVE  /\ Held(w, r, b) # <<>>
                    /\ Head(Held(w, r, b)) = b[r]
                    /\ Held(w, Following(r), b) = Tail(Held(w, r, b))
  OBVIOUS
<1> DEFINE n == Count(w, r)
<1>1. n \in Int /\ Following(r) \in Index /\ 0 \in Index
  <2>1. n \in Index
    BY CountIndex
  <2>2. QED BY <2>1, FollowingIndex, Size DEF Index
<1>2. /\ n = IF w >= r THEN w - r ELSE w - r + BUF_SIZE
      /\ Following(r) = IF r + 1 = BUF_SIZE THEN 0 ELSE r + 1
      /\ Count(w, Following(r)) = IF w >= Following(r) THEN w - Following(r)
                                                       ELSE w - Following(r) + BUF_SIZE
  BY <1>1, CountIs, FollowingIs
<1>3. Count(w, Following(r)) = n - 1 /\ n >= 1 /\ n < BUF_SIZE
  BY <1>2, Size DEF Index
<1>4. ASSUME NEW i \in 1 .. n - 1 PROVE Slot(Following(r), i - 1) = Slot(r, i)
  <2>1. i - 1 \in Index /\ i \in Index
    BY <1>1, <1>3, Size DEF Index
  <2>2. /\ Slot(r, i) = IF r + i < BUF_SIZE THEN r + i ELSE r + i - BUF_SIZE
        /\ Slot(Following(r), i - 1) = IF Following(r) + (i - 1) < BUF_SIZE
                                       THEN Following(r) + (i - 1)
                                       ELSE Following(r) + (i - 1) - BUF_SIZE
    BY <1>1, <2>1, SlotIs
  <2>3. QED BY <1>2, <2>1, <2>2, Size DEF Index
<1>5. /\ Held(w, r, b) \in Seq(S) /\ Len(Held(w, r, b)) = n
      /\ \A i \in 1 .. n : Held(w, r, b)[i] = b[Slot(r, i - 1)]
  BY HeldSeq
<1>6. /\ Held(w, Following(r), b) \in Seq(S) /\ Len(Held(w, Following(r), b)) = n - 1
      /\ \A i \in 1 .. n - 1 : Held(w, Following(r), b)[i] = b[Slot(Following(r), i - 1)]
  <2>1. /\ Held(w, Following(r), b) \in Seq(S)
        /\ Len(Held(w, Following(r), b)) = Count(w, Following(r))
        /\ \A i \in 1 .. Count(w, Following(r)) :
             Held(w, Following(r), b)[i] = b[Slot(Following(r), i - 1)]
    BY <1>1, HeldSeq
  <2>2. QED BY <1>3, <2>1
<1>7. Slot(r, 0) = r
  BY <1>1, SlotIs, Size DEF Index
<1> HIDE DEF n, S
<1>8. Held(w, r, b) # <<>> /\ Head(Held(w, r, b)) = b[r]
  <2>1. Held(w, r, b) # <<>>
    BY <1>3, <1>5
  <2>2. 1 \in 1 .. n /\ 1 - 1 = 0
    BY <1>1, <1>3
  <2>3. Held(w, r, b)[1] = b[Slot(r, 0)]
    BY <1>5, <2>2
  <2>4. QED BY <1>5, <1>7, <2>1, <2>3
<1>9. /\ Tail(Held(w, r, b)) \in Seq(S) /\ Len(Tail(Held(w, r, b))) = n - 1
      /\ \A i \in 1 .. n - 1 : Tail(Held(w, r, b))[i] = Held(w, r, b)[i + 1]
  BY <1>5, <1>8, HeadTailProperties
<1>10. ASSUME NEW i \in 1 .. n - 1
       PROVE  Held(w, Following(r), b)[i] = Tail(Held(w, r, b))[i]
  <2>1. i + 1 \in 1 .. n /\ (i + 1) - 1 = i
    BY <1>1
  <2>2. Held(w, r, b)[i + 1] = b[Slot(r, i)]
    BY <1>5, <2>1
  <2>3. QED BY <1>4, <1>6, <1>9, <2>2
<1>11. QED BY <1>6, <1>8, <1>9, <1>10, SeqEqual

\* The ring buffer is a queue of at most BUF_SIZE - 1 keys: every access of
\* either thread appends the key typed, takes out the oldest, drops one for
\* want of room, or leaves the queue alone.
THEOREM RingIsQueue == Spec => KeysInOrder
<1>1. Init => Queue!Init
  <2> SUFFICES ASSUME Init PROVE Queue!Init
    OBVIOUS
  <2>1. Count(0, 0) = 0
    BY HeldBounds, Size DEF Index
  <2>2. Waiting = <<>>
    BY <2>1 DEF Init, Waiting, Held
  <2>3. QED BY <2>2 DEF Init, Queue!Init
<1>2. ASSUME Inv, [Next]_vars PROVE [Queue!Next]_(Queue!vars)
  <2>1. /\ write_idx \in Index /\ read_idx \in Index /\ ringbuf \in Buffer
        /\ InputHeld /\ RoomKept /\ KeyStored /\ KeyKept
    BY <1>2 DEF Inv, TypeOK, ChecksStayValid
  <2>2. Waiting' = Held(write_idx', read_idx', ringbuf')
    BY DEF Waiting
  <2>3. CASE Press
    BY <2>1, <2>2, <2>3
    DEF Press, InputHeld, Waiting, ring, program, Queue!Next, Queue!Press, NoKey
  <2>4. CASE Check
    <3>1. Waiting' = Waiting /\ latest' = latest /\ input # NoKey
      BY <2>1, <2>2, <2>4 DEF Check, InputHeld, Waiting, ring, program
    <3>2. CASE Following(write_idx) = read_idx
      <4>1. Len(Waiting) = BUF_SIZE - 1
        BY <2>1, <3>2, HeldSeq, HeldBounds DEF Waiting
      <4>2. QED BY <2>4, <3>1, <3>2, <4>1 DEF Check, Queue!Next, Queue!Lose, NoKey
    <3>3. CASE Following(write_idx) # read_idx
      BY <2>4, <3>1, <3>3 DEF Check, Queue!vars
    <3>4. QED BY <3>2, <3>3
  <2>5. CASE StoreKey
    BY <2>1, <2>2, <2>5, HeldExcept DEF StoreKey, Waiting, program, Queue!vars
  <2>6. CASE Publish
    <3>1. Following(write_idx) # read_idx /\ ringbuf[write_idx] = input /\ input # NoKey
      BY <2>1, <2>6 DEF Publish, RoomKept, KeyStored, InputHeld
    <3>2. Waiting' = Append(Waiting, input)
      BY <2>1, <2>2, <2>6, <3>1, HeldAppend DEF Publish, Waiting
    <3>3. Len(Waiting) < BUF_SIZE - 1
      BY <2>1, <3>1, HeldSeq, HeldBounds DEF Waiting
    <3>4. QED BY <2>6, <3>1, <3>2, <3>3 DEF Publish, program, Queue!Next, Queue!Accept, NoKey
  <2>7. CASE LoadReadIdx \/ CompareWriteIdx \/ FetchKey
    BY <2>2, <2>7
    DEF LoadReadIdx, CompareWriteIdx, FetchKey, ring, screen, Waiting, Queue!vars
  <2>8. CASE Advance
    <3>1. read_idx # write_idx /\ acc = ringbuf[read_idx]
      BY <2>1, <2>8 DEF Advance, KeyKept
    <3>2. Waiting # <<>> /\ Head(Waiting) = acc /\ Waiting' = Tail(Waiting)
      BY <2>1, <2>2, <2>8, <3>1, HeldTail DEF Advance, Waiting
    <3>3. QED BY <2>8, <3>2 DEF Advance, screen, Queue!Next, Queue!Receive
  <2>9. CASE UNCHANGED vars
    BY <2>2, <2>9 DEF vars, ring, screen, program, Waiting, Queue!vars
  <2>10. QED
    BY <1>2, <2>3, <2>4, <2>5, <2>6, <2>7, <2>8, <2>9 DEF Next, Render, Guest
<1>3. QED BY <1>1, <1>2, Invariant, PTL DEF Spec, KeysInOrder, Queue!Spec
=============================================================================
