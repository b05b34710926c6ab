------------------------------- MODULE StrIntMap -------------------------------
(***************************************************************************)
(* The hash map of str_int_map.c that holds the assembler's labels: an     *)
(* array of buckets, each the head of a doubly linked list of nodes that   *)
(* are allocated and freed one by one.  One action per function.           *)
(*                                                                         *)
(* Addresses: bucket i of the array is i; malloc gives the least free      *)
(* address from MaxCapacity on.  A freed node leaves DOMAIN nodes, so that *)
(* following a dangling pointer is an error, and a node that no list       *)
(* reaches is a leak.  Names are opaque and hash_str is the constant Hash. *)
(***************************************************************************)
EXTENDS Integers, FiniteSets, SequencesExt

CONSTANTS
  Key, Value,             (* Names of labels, and their addresses.          *)
  Hash,                   (* hash_str, as a function of the names.          *)
  NULL,
  DEFAULT_MAP_CAPACITY,   (* 16 in str_int_map.h.                           *)
  MaxCapacity             (* Bound of the model: the largest array.         *)

\* There are finitely many names, and NULL is none; hashes and values are numbers; the
\* capacity is a multiple of four, and stays one as it is doubled.
ASSUME KeyAssumption      == IsFiniteSet(Key) /\ NULL \notin Key \cup Nat
ASSUME HashAssumption     == Hash \in [Key -> Nat]
ASSUME ValueAssumption    == Value \subseteq Nat
ASSUME CapacityAssumption == /\ DEFAULT_MAP_CAPACITY \in 4 .. MaxCapacity
                             /\ DEFAULT_MAP_CAPACITY % 4 = 0 /\ MaxCapacity \in Nat

VARIABLES
  map,    (* si_map_t: capacity, len, and the nodes of all its lists.       *)
  iter,   (* The iterator, or NULL if there is none or the map has changed. *)
  call    (* The last call and what it returned.                            *)

vars == <<map, iter, call>>

EmptyBucket == [key |-> NULL, value |-> 0, prev |-> NULL, next |-> NULL]
NewMap(capacity) == [capacity |-> capacity, len |-> 0,
                     nodes |-> [b \in 0 .. capacity - 1 |-> EmptyBucket]]
Malloc(m) == CHOOSE a \in MaxCapacity .. MaxCapacity + Cardinality(Key) :
               a \notin DOMAIN m.nodes
AddNode(nodes, a, node) ==
  [b \in DOMAIN nodes \cup {a} |-> IF b = a THEN node ELSE nodes[b]]
FreeNode(nodes, a) == Restrict(nodes, DOMAIN nodes \ {a})

Init == /\ map = NewMap(DEFAULT_MAP_CAPACITY)
        /\ iter = NULL
        /\ call = <<"new">>

-----------------------------------------------------------------------------
(***************************************************************************)
(* The functions on lists.                                                 *)
(***************************************************************************)
\* Where the do-while loops on the bucket of k stop.
Walk(m, k) ==
  LET walk[a \in DOMAIN m.nodes] ==
        IF m.nodes[a].key \in {NULL, k} \/ m.nodes[a].next = NULL
        THEN a
        ELSE walk[m.nodes[a].next]
  IN walk[Hash[k] % m.capacity]

Found(m, k) == m.nodes[Walk(m, k)].key = k

\* The addresses of the list that starts at a.
Chain(m, a) ==
  LET chain[x \in DOMAIN m.nodes] ==
        <<x>> \o (IF m.nodes[x].next = NULL THEN <<>> ELSE chain[m.nodes[x].next])
  IN chain[a]

\* Mutant: the new node does not point back.
insert_bucket_unlinked(m, k, v) ==
  LET a   == Walk(m, k)
      new == Malloc(m)
      filled == CASE m.nodes[a].key = NULL -> [m.nodes EXCEPT ![a].key = k, ![a].value = v]
                  [] m.nodes[a].key = k    -> m.nodes
                  [] OTHER -> AddNode([m.nodes EXCEPT ![a].next = new], new,
                                      [key |-> k, value |-> v, prev |-> NULL, next |-> NULL])
  IN [m EXCEPT !.nodes = filled, !.len = IF Found(m, k) THEN @ ELSE @ + 1]

\* insert_bucket, and the count insert_map keeps of it.
insert_bucket(m, k, v) ==
  LET a   == Walk(m, k)
      new == Malloc(m)
      filled == CASE m.nodes[a].key = NULL -> [m.nodes EXCEPT ![a].key = k, ![a].value = v]
                  [] m.nodes[a].key = k    -> m.nodes
                  [] OTHER -> AddNode([m.nodes EXCEPT ![a].next = new], new,
                                      [key |-> k, value |-> v, prev |-> a, next |-> NULL])
  IN [m EXCEPT !.nodes = filled, !.len = IF Found(m, k) THEN @ ELSE @ + 1]

\* Mutant: the load factor forgotten.
MustGrowLate(m) == m.len > m.capacity
MustGrow(m) == m.len > (m.capacity \div 4) * 3

\* Mutant: the buckets copied into the larger array where they were.
GrownInPlace(m) == [capacity |-> 2 * m.capacity, len |-> m.len,
                    nodes |-> m.nodes @@ NewMap(2 * m.capacity).nodes]

\* The new array takes the nodes bucket by bucket, each list from its head.  It is
\* large enough for them (LenIsBound), so insert_map does not grow it in turn.
Grown(m) ==
  LET lists == FlattenSeq([b \in 1 .. m.capacity |-> Chain(m, b - 1)])
      taken[i \in 0 .. Len(lists)] ==
        IF i = 0 THEN NewMap(2 * m.capacity)
        ELSE LET n == m.nodes[lists[i]]
             IN IF n.key = NULL THEN taken[i - 1] ELSE insert_bucket(taken[i - 1], n.key, n.value)
  IN taken[Len(lists)]

-----------------------------------------------------------------------------
(***************************************************************************)
(* The functions of the map.                                               *)
(***************************************************************************)
insert_map(k, v) ==
  /\ map.capacity > 0
  /\ MustGrow(map) => 2 * map.capacity <= MaxCapacity
  /\ \E m \in {IF MustGrow(map) THEN Grown(map) ELSE map} :
       /\ map' = insert_bucket(m, k, v)
       /\ call' = <<"insert", k, ~Found(m, k)>>
  /\ iter' = NULL

get_map(k) ==
  /\ map.capacity > 0
  /\ call' = <<"get", k, IF Found(map, k) THEN map.nodes[Walk(map, k)].value ELSE NULL>>
  /\ UNCHANGED <<map, iter>>

\* next->prev = prev, if there is a next node.
LinkBack(nodes, next, prev) ==
  IF next = NULL THEN nodes ELSE [nodes EXCEPT ![next].prev = prev]

\* Mutant: the node that replaces the head leaves its value behind.
WithoutKeepingValue(nodes, a) ==
  LET n == nodes[a]
  IN CASE n.prev = NULL /\ n.next = NULL -> [nodes EXCEPT ![a] = EmptyBucket]
       [] n.prev = NULL /\ n.next # NULL ->
            LET moved == [nodes[n.next] EXCEPT !.prev = NULL, !.value = n.value]
            IN FreeNode(LinkBack([nodes EXCEPT ![a] = moved], moved.next, a), n.next)
       [] OTHER -> FreeNode(LinkBack([nodes EXCEPT ![n.prev].next = n.next], n.next, n.prev), a)

\* The node at a removed: a head is emptied, or takes over the node after it.
Without(nodes, a) ==
  LET n == nodes[a]
  IN CASE n.prev = NULL /\ n.next = NULL -> [nodes EXCEPT ![a] = EmptyBucket]
       [] n.prev = NULL /\ n.next # NULL ->
            LET moved == [nodes[n.next] EXCEPT !.prev = NULL]
            IN FreeNode(LinkBack([nodes EXCEPT ![a] = moved], moved.next, a), n.next)
       [] OTHER -> FreeNode(LinkBack([nodes EXCEPT ![n.prev].next = n.next], n.next, n.prev), a)

\* len stays as it is.
remove_map(k) ==
  /\ map.capacity > 0
  /\ map' = IF Found(map, k)
            THEN [map EXCEPT !.nodes = Without(map.nodes, Walk(map, k))]
            ELSE map
  /\ call' = <<"remove", k, Found(map, k)>>
  /\ iter' = NULL

\* Mutant: the buckets freed, the capacity left.
free_map_partly == /\ map' = [map EXCEPT !.nodes = <<>>, !.len = 0]
                   /\ call' = <<"free">> /\ iter' = NULL
free_map == /\ map' = NewMap(0)
            /\ call' = <<"free">> /\ iter' = NULL

clear_map == /\ map' = NewMap(DEFAULT_MAP_CAPACITY)
             /\ call' = <<"clear">> /\ iter' = NULL

-----------------------------------------------------------------------------
(***************************************************************************)
(* The iterator: a bucket, and a position in the list of the first bucket  *)
(* from there on that is in use.                                           *)
(***************************************************************************)
iter_from_map == /\ map.capacity > 0
                 /\ iter' = [ptr |-> 0, bucket_idx |-> 0]
                 /\ UNCHANGED <<map, call>>

\* The first bucket from b on that is in use, or the last one.
FirstInUse(m, b) ==
  CHOOSE f \in b .. m.capacity - 1 :
    /\ m.nodes[f].key # NULL \/ f = m.capacity - 1
    /\ \A c \in b .. f - 1 : m.nodes[c].key = NULL

Advanced(chain) ==
  IF iter.bucket_idx + 1 < Len(chain) THEN [iter EXCEPT !.bucket_idx = @ + 1]
                                      ELSE [ptr |-> iter.ptr + 1, bucket_idx |-> 0]

\* "exit" is the loop's exit(1): the list is shorter than the iterator thinks.
map_iter_next ==
  /\ iter # NULL
  /\ LET end   == map.capacity - 1
         first == FirstInUse(map, iter.ptr)
         chain == Chain(map, first)
         node  == map.nodes[chain[iter.bucket_idx + 1]]
     IN IF first = end
        THEN call' = <<"next", NULL, 0>> /\ UNCHANGED iter
        ELSE IF iter.bucket_idx < Len(chain)
        THEN call' = <<"next", node.key, node.value>> /\ iter' = Advanced(chain)
        ELSE call' = <<"exit">> /\ UNCHANGED iter
  /\ UNCHANGED map

Next == \/ \E k \in Key : get_map(k) \/ remove_map(k) \/ \E v \in Value : insert_map(k, v)
        \/ clear_map \/ free_map \/ iter_from_map \/ map_iter_next

Spec == Init /\ [][Next]_vars

-----------------------------------------------------------------------------
Heads   == 0 .. map.capacity - 1
Entries == {a \in DOMAIN map.nodes : map.nodes[a].key # NULL}

\* The arrays and lists have the shape of si_map_t: every bucket of the array is
\* there, and every pointer is NULL or an address.
TypeOK ==
  /\ map.capacity \in 0 .. MaxCapacity /\ map.len \in Nat
  /\ Heads \subseteq DOMAIN map.nodes
  /\ \A a \in DOMAIN map.nodes :
       map.nodes[a] \in [key : Key \cup {NULL}, value : Value \cup {0},
                         prev : Nat \cup {NULL}, next : Nat \cup {NULL}]
  /\ iter = NULL \/ iter \in [ptr : Heads, bucket_idx : Nat]

\* remove_bucket, free_bucket and insert_bucket keep the lists sound: next and prev
\* undo one another, only buckets of the array are heads, nothing dangles, nothing
\* leaks, and a node without a name is an empty bucket.
ListsIntact ==
  /\ \A a \in DOMAIN map.nodes :
       /\ map.nodes[a].next # NULL => /\ map.nodes[a].next \in DOMAIN map.nodes
                                      /\ map.nodes[map.nodes[a].next].prev = a
       /\ map.nodes[a].prev = NULL <=> a \in Heads
       /\ map.nodes[a].prev # NULL => /\ map.nodes[a].prev \in DOMAIN map.nodes
                                      /\ map.nodes[map.nodes[a].prev].next = a
       /\ map.nodes[a].key = NULL => map.nodes[a] = EmptyBucket

\* Every name is where get_map looks for it, once, after any number of growths and
\* removals.
NamesFindable ==
  \A a \in Entries : Walk(map, map.nodes[a].key) = a

\* len, which remove_map leaves alone, is still a bound on the number of names, and
\* growth keeps it small enough for the next array to take them without growing.
LenIsBound ==
  map.capacity > 0 => /\ Cardinality(Entries) <= map.len
                      /\ map.len <= (map.capacity \div 4) * 3 + 1

\* What the map holds: the values of the names.
Contents == [k \in {map.nodes[a].key : a \in Entries} |->
               map.nodes[CHOOSE a \in Entries : map.nodes[a].key = k].value]

\* The map is a partial function whose entries stay until removed; the iterator
\* returns its entries and never runs off a list.
Labels == INSTANCE NameMap WITH contents <- Contents, live <- map.capacity > 0
IsNameMap == Labels!Spec
=============================================================================
