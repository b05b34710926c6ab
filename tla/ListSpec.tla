-------------------------------- MODULE ListSpec --------------------------------
(***************************************************************************)
(* What vec_t and string_t promise: a sequence.  call is the last call,    *)
(* its arguments and what it returned.  Indices are from 0, as in C.       *)
(***************************************************************************)
EXTENDS Integers, SequencesExt

CONSTANTS Elem, NULL, Size, Lists

VARIABLES items, call

vars == <<items, call>>

Least(a, b) == IF a < b THEN a ELSE b

Init == items = <<>> /\ call = <<"new">>

Push(e) == items' = Append(items, e) /\ call' = <<"push", e>>

Get(i) == /\ call' = <<"get", i, IF i < Len(items) THEN items[i + 1] ELSE NULL>>
          /\ UNCHANGED items

Set(i, e) == /\ i < Len(items)
             /\ items' = [items EXCEPT ![i + 1] = e]
             /\ call' = <<"set", i, e>>

Pop == IF items = <<>> THEN call' = <<"pop", NULL>> /\ UNCHANGED items
                       ELSE call' = <<"pop", Last(items)>> /\ items' = Front(items)

Insert(i, e) == /\ i <= Len(items)
                /\ items' = InsertAt(items, i + 1, e)
                /\ call' = <<"insert", i, e>>

Delete(i) == /\ items' = IF i < Len(items) THEN RemoveAt(items, i + 1) ELSE items
             /\ call' = <<"remove", i>>

Extend(s) == items' = items \o s /\ call' = <<"append", s>>

\* Only a smaller size is seen.
Resize(n) == items' = SubSeq(items, 1, Least(n, Len(items))) /\ call' = <<"resize", n>>

Reserve(n) == call' = <<"reserve", n>> /\ UNCHANGED items

Clear == items' = <<>> /\ call' = <<"clear">>

\* The copy takes the place of the original.
Clone == call' = <<"clone">> /\ UNCHANGED items

Visit == call' = <<"iterate", items>> /\ UNCHANGED items

AsCstr == call' = <<"cstr", items>> /\ UNCHANGED items

Turn == items' = Reverse(items) /\ call' = <<"reverse">>

\* A string is made of another sequence: of a C string, or of a file.
Become(s) == items' = s /\ call' = <<"from", s>>

Next == \/ \E e \in Elem : Push(e) \/ \E i \in Size : Set(i, e) \/ Insert(i, e)
        \/ \E i \in Size : Get(i) \/ Delete(i) \/ Resize(i) \/ Reserve(i)
        \/ Pop \/ Clear \/ Clone \/ Visit \/ AsCstr \/ Turn
        \/ \E s \in Lists : Extend(s) \/ Become(s)
=============================================================================
