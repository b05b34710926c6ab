---------------------------------- MODULE Vec ----------------------------------
(***************************************************************************)
(* vec_t (ovec.c).                                                         *)
(***************************************************************************)
EXTENDS Block

InitVec == /\ type = "vec_t"
           /\ \E n \in 0 .. 2 : list = [len |-> 0, capacity |-> n, null |-> FALSE, ptr |-> Cells(n, NULL)]
           /\ call = <<"new">> /\ outside = "no"

Pushed(l, e) == LET g == grow(l) IN [Put(g, g.len, e) EXCEPT !.len = @ + 1]

\* memcpy to the cell at len, after the block has grown.
PushVec(e, c) == IF grow(list).len < grow(list).capacity THEN Returns(Pushed(list, e), c)
                                                         ELSE Strays("write", list, c)

push_vec(e) == Of("vec_t") /\ list.len < MaxLen /\ PushVec(e, <<"push", e>>)

get_vec(i) == Of("vec_t") /\ Returns(list, <<"get", i, IF i < list.len THEN list.ptr[i] ELSE NULL>>)

set_vec(i, e) == Of("vec_t") /\ SetCell(i, e)

pop_vec == Of("vec_t") /\ PopCell

\* len is counted up first, so that the block grows early enough for the cell
\* that memmove takes along beyond the last.
insert_vec(i, e) ==
  /\ Of("vec_t") /\ list.len < MaxLen /\ i <= list.len
  /\ LET g == grow([list EXCEPT !.len = @ + 1])
     IN IF i = list.len THEN PushVec(e, <<"insert", i, e>>)
        ELSE IF g.len < g.capacity THEN Returns(Put(Move(g, i + 1, i, g.len - i), i, e), <<"insert", i, e>>)
        ELSE Strays("write", list, <<"insert", i, e>>)

\* With memcpy, although the cells overlap when there are two or more of them.
remove_vec(i) == Of("vec_t") /\ RemoveCell(i, memcpy(list, i, i + 1, list.len - i))

\* The first n elements pushed once more.  Where the block grows and moves, the
\* element is read from the old one.
PushedAgain(l, n, moved) ==
  LET after[i \in 0 .. n] ==
        IF i = 0 THEN l
        ELSE LET was == after[i - 1]
             IN Pushed(was, IF moved /\ was.len >= was.capacity THEN Junk ELSE was.ptr[i - 1])
  IN after[n]

\* The elements pushed are those of vec, not of app: an assertion fails when there
\* is none.  get_vec's pointer is still used after push_vec has grown the block: when
\* that moves, the old one is free.
append_vec(s) ==
  /\ Of("vec_t") /\ list.len + Len(s) <= MaxLen
  /\ \/ list.len = 0 /\ s # <<>> /\ Strays("assert", list, <<"append", s>>)
     \/ /\ list.len > 0 \/ s = <<>>
        /\ \E moved \in BOOLEAN :
             LET l == PushedAgain(list, Len(s), moved)
             IN IF moved /\ list.len + Len(s) > list.capacity
                THEN Strays("freed", l, <<"append", s>>)
                ELSE Returns(l, <<"append", s>>)

resize_vec(n) == Of("vec_t") /\ Returns(resize(list, n), <<"resize", n>>)

reserve_vec(n) == Of("vec_t") /\ Returns(reserve(list, n), <<"reserve", n>>)

clear_vec == Of("vec_t") /\ Returns([list EXCEPT !.len = 0], <<"clear">>)

\* As many cells as the original; those past len are as calloc leaves them.
clone_vec == /\ Of("vec_t")
             /\ Returns([list EXCEPT !.null = FALSE,
                                     !.ptr = [i \in DOMAIN @ |-> IF i < list.len THEN @[i] ELSE NULL]],
                        <<"clone">>)

\* iter_from_vec, then iter_next until it returns NULL.
iterate_vec == Of("vec_t") /\ Returns(list, <<"iterate", Visited>>)

NextVec == \/ \E e \in Elem : push_vec(e) \/ \E i \in Size : set_vec(i, e) \/ insert_vec(i, e)
           \/ \E i \in Size : get_vec(i) \/ remove_vec(i) \/ resize_vec(i) \/ reserve_vec(i)
           \/ \E s \in Lists : append_vec(s)
           \/ pop_vec \/ clear_vec \/ clone_vec \/ iterate_vec
=============================================================================
