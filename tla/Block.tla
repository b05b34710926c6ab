--------------------------------- MODULE Block ---------------------------------
(***************************************************************************)
(* What vec_t and string_t have in common: a length, a capacity and a      *)
(* pointer to so many cells.  A vector's cell is one element of elem_size  *)
(* bytes.                                                                  *)
(***************************************************************************)
EXTENDS Integers, SequencesExt

CONSTANTS
  Elem,             (* Elements, or the characters of a string: not NULL.   *)
  NULL,             (* 0: a null pointer, NUL, what calloc leaves.          *)
  Junk,             (* What malloc and realloc leave; parts of elements.    *)
  Lists,            (* The sequences that are appended or copied.           *)
  MaxLen            (* Bound: elements.                                     *)

ASSUME ElemAssumption == /\ NULL \notin Elem /\ Junk \notin Elem \cup {NULL} /\ MaxLen \in Nat
                         /\ Lists \subseteq Seq(Elem)

VARIABLES
  type,             (* "vec_t" or "string_t".                               *)
  list,             (* The structure; null, if the pointer is.              *)
  call,             (* The last call, its arguments, what it returned.      *)
  outside           (* What the last call did outside the block: "no"
                       access; "read" past the capacity; read the block that
                       realloc had "freed"; or how it ended the program:
                       "write", "null" or "assert".                          *)
vars == <<type, list, call, outside>>

Size  == 0 .. MaxLen + 1
Alive == outside \in {"no", "read", "freed"}

\* malloc and realloc, which frees the block and returns NULL for no cells.
Cells(n, v)   == [i \in 0 .. n - 1 |-> v]
realloc(l, n) == [l EXCEPT !.capacity = n, !.null = (n = 0 /\ ~l.null),
                           !.ptr = [i \in 0 .. n - 1 |-> IF i < l.capacity THEN l.ptr[i] ELSE Junk]]

\* Mutant: a full block does not grow.
grow_late(l) == IF l.len > l.capacity THEN realloc(l, (l.capacity + 1) * 2) ELSE l
\* __grow_vec, __grow_str
grow(l) == IF l.len >= l.capacity THEN realloc(l, (l.capacity + 1) * 2) ELSE l

\* Mutant: the length stays.
resize_long(l, n) == IF n = l.len THEN l ELSE realloc(l, n)
\* min(l->len, n), and the capacity is n.
resize(l, n) == IF n = l.len THEN l
                             ELSE [realloc(l, n) EXCEPT !.len = IF n < l.len THEN n ELSE l.len]
reserve(l, n) == IF n <= l.len THEN l ELSE resize(l, IF n < l.len * 2 THEN l.len * 2 ELSE n)

Put(l, i, e) == [l EXCEPT !.ptr[i] = e]

\* memmove of n cells: also where they overlap.
Move(l, dst, src, n) ==
  [l EXCEPT !.ptr = [i \in DOMAIN l.ptr |->
     IF i \notin dst .. dst + n - 1    THEN l.ptr[i]
     ELSE IF i - dst + src < l.capacity THEN l.ptr[i - dst + src]
     ELSE Junk]]

\* memcpy of n cells to cells before them.  Where the two overlap, what it leaves is
\* undefined: in each cell one of the elements that were there, or parts of several.
memcpy(l, dst, src, n) ==
  LET to    == dst .. dst + n - 1
      among == {l.ptr[i] : i \in (dst .. src + n - 1) \cap DOMAIN l.ptr} \cup {Junk}
  IN IF src \in to
     THEN {[l EXCEPT !.ptr = [i \in DOMAIN l.ptr |-> IF i \in to THEN f[i] ELSE l.ptr[i]]] :
             f \in [to -> among]}
     ELSE {Move(l, dst, src, n)}

\* memcpy of a sequence to the cells from dst on.
Copy(l, dst, s) ==
  [l EXCEPT !.ptr = [i \in DOMAIN l.ptr |->
     IF i \in dst .. dst + Len(s) - 1 THEN s[i - dst + 1] ELSE l.ptr[i]]]

\* The sequence that the structure stands for.
Items(l) == [i \in 1 .. l.len |-> l.ptr[i - 1]]

\* A block made for a sequence, with no room to spare.
Exact(s) == [len |-> Len(s), capacity |-> Len(s), null |-> FALSE, ptr |-> [i \in 0 .. Len(s) - 1 |-> s[i + 1]]]

-----------------------------------------------------------------------------
\* A call that stays in the block, and one that does not.
Returns(l, c)     == list' = l /\ call' = c /\ outside' = "no" /\ UNCHANGED type
Strays(how, l, c) == list' = l /\ call' = c /\ outside' = how /\ UNCHANGED type

(***************************************************************************)
(* The operations that ovec.c and ostring.c write in the same way.         *)
(***************************************************************************)
Of(t) == Alive /\ type = t

SetCell(i, e) == /\ i < list.len
                 /\ Returns(Put(list, i, e), <<"set", i, e>>)

PopCell == IF list.len = 0 THEN Returns(list, <<"pop", NULL>>)
           ELSE Returns([list EXCEPT !.len = @ - 1], <<"pop", list.ptr[list.len - 1]>>)

\* One cell more is moved than there is after the index: in a full block that
\* is a read past its end.  moved is what the move may leave.
RemoveCell(i, moved) ==
  IF i >= list.len THEN Returns(list, <<"remove", i>>)
  ELSE \E l \in moved : LET shorter == [l EXCEPT !.len = @ - 1]
                        IN IF list.len < list.capacity THEN Returns(shorter, <<"remove", i>>)
                           ELSE Strays("read", shorter, <<"remove", i>>)

\* The iterator ends at the last cell: one cell before the first, when there is none.
Visited == LET end == list.len - 1 IN [i \in 1 .. end + 1 |-> list.ptr[i - 1]]
=============================================================================
