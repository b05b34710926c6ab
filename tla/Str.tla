---------------------------------- MODULE Str ----------------------------------
(***************************************************************************)
(* string_t (ostring.c), and the reading of a file into one (util.c).      *)
(* push_str writes first and grows after, so a string is safe to push to   *)
(* as long as it has room for one character more.                          *)
(***************************************************************************)
EXTENDS Block

CONSTANTS Files,         (* The files: sequences over Elem and EndByte.      *)
          EndByte        (* 0xFF, which a char holds as -1.                  *)

ASSUME FilesAssumption == Files \subseteq Seq(Elem \cup {EndByte})

Room(l) == l.len < l.capacity

Appended(l, c) == grow([Put(l, l.len, c) EXCEPT !.len = @ + 1])

NewStr(n) == [len |-> 0, capacity |-> n, null |-> FALSE, ptr |-> Cells(n, Junk)]

\* The first n characters of s pushed one after the other.
AllAppended(l, s, n) ==
  LET after[i \in 0 .. n] == IF i = 0 THEN l ELSE Appended(after[i - 1], s[i])
  IN after[n]

\* Where fgetc first returns what a char holds as EOF; 0, if that is the end only.
EndIn(file) == SelectInSeq(file, LAMBDA c : c = EndByte)

\* Mutant: the character that ends the loop is pushed too.
ReadFileAll(file) ==
  AllAppended(NewStr(2), file, IF EndIn(file) = 0 THEN Len(file) ELSE EndIn(file))
\* read_file_to_str: fgetc until a char is equal to -1.  100 cells at first, here 2;
\* none, if the file cannot be opened.
ReadFile(file) ==
  AllAppended(NewStr(2), file, IF EndIn(file) = 0 THEN Len(file) ELSE EndIn(file) - 1)

InitStr == /\ type = "string_t"
           /\ \/ list = NewStr(0) /\ call = <<"new">>
              \/ \E f \in Files : list = ReadFile(f) /\ call = <<"file", f>>
           /\ outside = "no"

\* Mutant: it grows before it writes, as push_vec does.
PushStrLate(c, said) == LET g == grow(list) IN Returns([Put(g, g.len, c) EXCEPT !.len = @ + 1], said)
PushStr(c, said) == IF Room(list) THEN Returns(Appended(list, c), said)
                                  ELSE Strays("write", list, said)

push_str(c) == Of("string_t") /\ list.len < MaxLen /\ PushStr(c, <<"push", c>>)

\* NUL is pushed and taken back.  What a C function then reads ends at the first NUL.
as_cstr == /\ Of("string_t")
           /\ IF ~Room(list) THEN Strays("write", list, <<"cstr">>)
              ELSE LET l    == [Appended(list, NULL) EXCEPT !.len = @ - 1]
                       ends == CHOOSE i \in 0 .. l.len : l.ptr[i] = NULL /\ \A j \in 0 .. i - 1 : l.ptr[j] # NULL
                   IN Returns(l, <<"cstr", [i \in 1 .. ends |-> l.ptr[i - 1]]>>)

\* The index is compared with the capacity.
get_str(i) == Of("string_t") /\ Returns(list, <<"get", i, IF i < list.capacity THEN list.ptr[i] ELSE NULL>>)

set_str(i, c) == Of("string_t") /\ SetCell(i, c)

pop_str == Of("string_t") /\ PopCell

\* The character is stored as far behind the index again: where 2 * index is.
insert_str(i, c) ==
  /\ Of("string_t") /\ list.len < MaxLen /\ i <= list.len
  /\ LET g == grow([list EXCEPT !.len = @ + 1])
         l == Move(g, i + 1, i, g.len - i)
     IN IF i = list.len THEN PushStr(c, <<"insert", i, c>>)
        ELSE IF 2 * i < l.capacity THEN Returns(Put(l, 2 * i, c), <<"insert", i, c>>)
        ELSE Strays("write", list, <<"insert", i, c>>)

\* Mutant: the cells after the next are moved.
remove_far(i) == Of("string_t") /\ RemoveCell(i, {Move(list, i, i + 2, list.len - i - 1)})
remove_str(i) == Of("string_t") /\ RemoveCell(i, {Move(list, i, i + 1, list.len - i)})

push_cstr_str(s) ==
  /\ Of("string_t") /\ list.len + Len(s) <= MaxLen
  /\ LET kept == IF list.len * 2 < list.capacity THEN list.len * 2 ELSE list.capacity
         l    == IF list.capacity <= list.len + Len(s) THEN realloc(list, kept + Len(s)) ELSE list
     IN IF list.len + Len(s) > l.capacity THEN Strays("write", list, <<"append", s>>)
        ELSE Returns([Copy(l, list.len, s) EXCEPT !.len = @ + Len(s)], <<"append", s>>)

resize_str(n) == Of("string_t") /\ Returns(resize(list, n), <<"resize", n>>)

reserve_str(n) == Of("string_t") /\ Returns(reserve(list, n), <<"reserve", n>>)

clear_str == Of("string_t") /\ Returns([list EXCEPT !.len = 0], <<"clear">>)

\* Both leave no room.
clone_str        == Of("string_t") /\ Returns(Exact(Items(list)), <<"clone">>)
from_cstr_str(s) == Of("string_t") /\ Returns(Exact(s), <<"from", s>>)

\* Swaps up to the middle.
Swapped(l) ==
  LET last == l.len - 1
      after[i \in 0 .. l.len \div 2] ==
        IF i = 0 THEN l
        ELSE LET was == after[i - 1]
             IN Put(Put(was, i - 1, was.ptr[last - (i - 1)]), last - (i - 1), was.ptr[i - 1])
  IN after[l.len \div 2]

reverse_str == Of("string_t") /\ Returns(Swapped(list), <<"reverse">>)

\* iter_from_str, then str_iter_next until it returns 0.  One before NULL is the
\* last address of all, and the first character is read.
iterate_str == /\ Of("string_t")
               /\ IF list.null THEN Strays("null", list, <<"iterate">>)
                               ELSE Returns(list, <<"iterate", Visited>>)

NextStr == \/ \E c \in Elem : push_str(c) \/ \E i \in Size : set_str(i, c) \/ insert_str(i, c)
           \/ \E i \in Size : get_str(i) \/ remove_str(i) \/ resize_str(i) \/ reserve_str(i)
           \/ \E s \in Lists : push_cstr_str(s) \/ from_cstr_str(s)
           \/ as_cstr \/ pop_str \/ clear_str \/ clone_str \/ reverse_str \/ iterate_str
=============================================================================
