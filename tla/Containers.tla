------------------------------- MODULE Containers -------------------------------
(***************************************************************************)
(* The two containers against the sequence that both promise.  The program *)
(* calls push, get, set and the iterators of vectors, and reads a file     *)
(* into a string; the other operations have no caller yet.                 *)
(***************************************************************************)
EXTENDS Vec, Str

Init == InitVec \/ InitStr
Next == NextVec \/ NextStr
Spec == Init /\ [][Next]_vars

-----------------------------------------------------------------------------
\* The length is within the block, and the block has so many cells.
TypeOK == /\ type \in {"vec_t", "string_t"}
          /\ list.len \in 0 .. list.capacity
          /\ list.null => list.capacity = 0
          /\ list.ptr \in [0 .. list.capacity - 1 -> Elem \cup {NULL, Junk}]
          /\ outside \in {"no", "read", "freed", "write", "null", "assert"}

L == INSTANCE ListSpec WITH items <- Items(list)

\* Where they do not do as a sequence would.
\* Of remove_vec's memcpy over cells that overlap, only the length and what is before
\* them are sure.
CopiesOver    == /\ type = "vec_t" /\ call'[1] = "remove" /\ call'[2] + 1 < list.len
                 /\ list.len' = list.len - 1
                 /\ \A k \in 1 .. call'[2] : Items(list)'[k] = Items(list)[k]
AppendsItself == type = "vec_t" /\ call'[1] = "append"
Misplaces     == type = "string_t" /\ call'[1] = "insert" /\ call'[2] \in 1 .. list.len - 1
ShowsLeftover == type = "string_t" /\ call'[1] = "get" /\ call'[2] >= list.len

\* Each operation does to the cells up to len what it promises to do to the
\* sequence, whatever is left in the block beyond them; but append_vec repeats the
\* vector's own elements, remove_vec leaves any elements from the index on unless it
\* removes the last, insert_str stores at 2 * index, and get_str also returns
\* characters that are no longer in the string.
ListsAreSequences ==
  [][L!Next \/ AppendsItself \/ CopiesOver \/ Misplaces \/ ShowsLeftover \/ ~Alive']_(L!vars)

\* Vectors never write outside their block; strings do where there is no room for
\* one character more, and insert_str where 2 * index is outside.  Removing
\* from a full block, and nothing else, reads the cell after it; append_vec, and nothing
\* else, reads the block that realloc has freed, when the vector outgrows it; and only
\* the iterator of a string that has been made empty by realloc goes through a null
\* pointer.
AccessesStayInside ==
  [][/\ outside' = "write" => /\ type = "string_t"
                              /\ \/ ~Room(list) /\ call'[1] \in {"push", "cstr", "insert"}
                                 \/ Misplaces
     /\ outside' = "read" => call'[1] = "remove" /\ ~Room(list)
     /\ outside' = "freed" => /\ type = "vec_t" /\ call'[1] = "append"
                              /\ list.len + Len(call'[2]) > list.capacity
     /\ outside' = "null" => type = "string_t" /\ call' = <<"iterate">> /\ list.capacity = 0]_vars

\* A string has room for one character more until a copy, a smaller size or
\* push_cstr_str makes it fit: pushing, inserting and removing leave it safe to push to.
RoomIsKept ==
  [][type = "string_t" /\ Room(list) /\ ~Room(list')
       => call'[1] \in {"from", "clone", "resize", "append"}]_vars

\* A file is read to its end, or to the first byte that a char takes for EOF, and
\* the string is safe to push to.
FileIsRead ==
  call[1] = "file" => LET file == call[2]
                          n    == list.len
                      IN /\ Items(list) = SubSeq(file, 1, n)
                         /\ n = Len(file) \/ file[n + 1] = EndByte
                         /\ Room(list)
=============================================================================
