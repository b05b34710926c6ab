---------------------------- MODULE StrIntMapProofs ----------------------------
(***************************************************************************)
(* The label map is a map, for any names, hash function and capacity.      *)
(***************************************************************************)
EXTENDS StrIntMap, Loops, FiniteSetTheorems, SequenceTheorems

(***************************************************************************)
(* The shape of the nodes n of a map of capacity c.                        *)
(***************************************************************************)
Node       == [key : Key \cup {NULL}, value : Value \cup {0},
               prev : Nat \cup {NULL}, next : Nat \cup {NULL}]
Heap       == MaxCapacity .. MaxCapacity + Cardinality(Key)
Buckets(c) == 0 .. c - 1
Home(c, n, a) == IF n[a].key = NULL THEN a ELSE Hash[n[a].key] % c

\* Every bucket is there, and what else there is comes from malloc.
Allocated(c, n) == /\ n \in [DOMAIN n -> Node]
                   /\ Buckets(c) \subseteq DOMAIN n
                   /\ DOMAIN n \subseteq Buckets(c) \cup Heap

\* ListsIntact, of any nodes.
Linked(c, n) ==
  \A a \in DOMAIN n :
    /\ n[a].next # NULL => /\ n[a].next \in DOMAIN n
                           /\ n[n[a].next].prev = a
    /\ n[a].prev = NULL <=> a \in Buckets(c)
    /\ n[a].prev # NULL => /\ n[a].prev \in DOMAIN n
                           /\ n[n[a].prev].next = a
    /\ n[a].key = NULL => n[a] = EmptyBucket

\* A name is in the list of its bucket.
Placed(c, n) ==
  \A a \in DOMAIN n : /\ Home(c, n, a) \in Buckets(c)
                      /\ a \in Buckets(c) => Home(c, n, a) = a
                      /\ n[a].next # NULL => Home(c, n, n[a].next) = Home(c, n, a)

\* No two nodes have the same name.
Distinct(n) == \A a, b \in DOMAIN n : n[a].key = n[b].key /\ n[a].key # NULL => a = b

\* No list has a cycle.
Ascends(n, rank) == \A a \in DOMAIN n : n[a].next # NULL => rank[a] < rank[n[a].next]
Ranked(n) == \E bound \in Nat : \E rank \in [DOMAIN n -> 0 .. bound] : Ascends(n, rank)

Shape(c, n) == /\ c \in 0 .. MaxCapacity
               /\ Allocated(c, n) /\ Linked(c, n) /\ Placed(c, n) /\ Distinct(n) /\ Ranked(n)

Sound(m) == /\ m = [capacity |-> m.capacity, len |-> m.len, nodes |-> m.nodes]
            /\ m.len \in Nat
            /\ Shape(m.capacity, m.nodes)

\* What is in the map.
Used(n)  == {a \in DOMAIN n : n[a].key # NULL}
Pairs(n) == {<<n[a].key, n[a].value>> : a \in Used(n)}
Names(n) == {n[a].key : a \in Used(n)}

-----------------------------------------------------------------------------
\* NULL is neither a name nor an address, and the constants are numbers.
LEMMA Numbers == /\ NULL \notin Key /\ NULL \notin Nat /\ IsFiniteSet(Key)
                 /\ MaxCapacity \in Nat /\ DEFAULT_MAP_CAPACITY \in Nat
                 /\ Cardinality(Key) \in Nat
                 /\ Hash \in [Key -> Nat] /\ Value \subseteq Nat
  BY KeyAssumption, HashAssumption, ValueAssumption, CapacityAssumption, FS_CardinalityType

\* A hash is reduced to a bucket.
LEMMA HashInBuckets == ASSUME NEW k \in Key, NEW c \in Nat, c > 0
                       PROVE  Hash[k] % c \in Buckets(c)
<1>1. Hash[k] \in Nat
  BY Numbers
<1>2. QED BY <1>1 DEF Buckets

\* A node that is not a bucket is in use.
LEMMA OthersInUse ==
  ASSUME NEW c, NEW n, Shape(c, n), NEW a \in DOMAIN n, n[a].prev # NULL
  PROVE  n[a].key # NULL
  BY DEF Shape, Linked, EmptyBucket

\* Nor is one that is followed by another empty.
LEMMA FollowedInUse ==
  ASSUME NEW c, NEW n, Shape(c, n), NEW a \in DOMAIN n, n[a].next # NULL
  PROVE  n[a].key # NULL
  BY DEF Shape, Linked, EmptyBucket

\* The loop over a list, as a function of where it starts.
LEMMA WalkFollows ==
  ASSUME NEW m, Shape(m.capacity, m.nodes), NEW k \in Key
  PROVE  \E walk \in [DOMAIN m.nodes -> DOMAIN m.nodes] :
           /\ Walk(m, k) = walk[Hash[k] % m.capacity]
           /\ \A a \in DOMAIN m.nodes :
                walk[a] = IF m.nodes[a].key \in {NULL, k} \/ m.nodes[a].next = NULL
                          THEN a
                          ELSE walk[m.nodes[a].next]
<1> DEFINE n == m.nodes
           D == DOMAIN n
           Stop == {a \in D : n[a].key \in {NULL, k} \/ n[a].next = NULL}
           next == [a \in D |-> IF n[a].next = NULL THEN a ELSE n[a].next]
           last == [a \in D |-> a]
           op == [p \in D \X D |-> p[2]]
           On(w) == [a \in D |-> IF n[a].key \in {NULL, k} \/ n[a].next = NULL
                                 THEN a ELSE w[n[a].next]]
<1>1. PICK bound \in Nat : \E rank \in [D -> 0 .. bound] : Ascends(n, rank)
  BY DEF Shape, Ranked
<1>2. PICK rank \in [D -> 0 .. bound] : Ascends(n, rank)
  BY <1>1
<1>3. next \in [D -> D]
  BY DEF Shape, Linked
<1>4. Rises(D, rank, Stop, next)
  BY <1>2 DEF Ascends, Rises
<1>5. last \in [D -> D] /\ op \in [D \X D -> D]
  OBVIOUS
<1>6. PICK f \in [D -> D] : Recurs(f, D, Stop, next, last, op)
  <2> HIDE DEF Stop, next, last, op, D
  <2>1. QED BY <1>1, <1>2, <1>3, <1>4, <1>5, RecursionExists
<1>7. \A a \in D : f[a] = IF n[a].key \in {NULL, k} \/ n[a].next = NULL THEN a ELSE f[n[a].next]
  <2> SUFFICES ASSUME NEW a \in D
               PROVE  f[a] = IF n[a].key \in {NULL, k} \/ n[a].next = NULL THEN a ELSE f[n[a].next]
    OBVIOUS
  <2>1. CASE a \in Stop
    BY <1>6, <2>1 DEF Recurs
  <2>2. CASE a \notin Stop
    <3>1. next[a] = n[a].next /\ n[a].next \in D
      BY <2>2, <1>3
    <3>2. op[<<a, f[next[a]]>>] = f[next[a]]
      BY <1>3
    <3>3. QED BY <1>6, <2>2, <3>1, <3>2 DEF Recurs
  <2>3. QED BY <2>1, <2>2
<1>8. f = On(f)
  <2>1. f = [a \in D |-> f[a]]
    OBVIOUS
  <2>2. QED BY <1>7, <2>1
<1> DEFINE walk == CHOOSE w : w = On(w)
<1>9. walk = On(walk) /\ Walk(m, k) = walk[Hash[k] % m.capacity]
  BY <1>8 DEF Walk
<1>10. \A a \in D : walk[a] = IF n[a].key \in {NULL, k} \/ n[a].next = NULL
                              THEN a ELSE walk[n[a].next]
  <2> HIDE DEF walk
  <2>1. QED BY <1>9
<1>11. \A a \in D : walk[a] \in D
  <2> DEFINE S == {a \in D : walk[a] \in D}
  <2> HIDE DEF walk
  <2>1. FromAbove(D, rank, S)
    <3> SUFFICES ASSUME NEW a \in D, \A b \in D : rank[b] > rank[a] => b \in S
                 PROVE  a \in S
      BY DEF FromAbove
    <3>1. CASE a \in Stop
      BY <1>10, <3>1
    <3>2. CASE a \notin Stop
      <4>1. next[a] = n[a].next /\ n[a].next \in D /\ rank[n[a].next] > rank[a]
        BY <1>2, <1>3, <3>2 DEF Ascends
      <4>2. n[a].next \in S
        BY <4>1
      <4>3. QED BY <1>10, <3>2, <4>2
    <3>3. QED BY <3>1, <3>2
  <2>2. D \subseteq S
    <3> HIDE DEF S, D
    <3>1. QED BY <1>1, <1>2, <2>1, Downwards
  <2>3. QED BY <2>2
<1>12. walk \in [D -> D]
  <2>1. walk = [a \in D |-> walk[a]]
    <3> HIDE DEF walk
    <3>1. QED BY <1>9
  <2> HIDE DEF walk
  <2>2. QED BY <1>11, <2>1
<1> HIDE DEF walk, D
<1>13. QED BY <1>9, <1>10, <1>12 DEF D

\* It stops in the list of its bucket, and a name that is there it finds.
LEMMA WalkStops ==
  ASSUME NEW m, Shape(m.capacity, m.nodes), m.capacity # 0, NEW k \in Key
  PROVE  LET a == Walk(m, k)
             n == m.nodes
         IN /\ a \in DOMAIN n
            /\ Home(m.capacity, n, a) = Hash[k] % m.capacity
            /\ n[a].key \in {NULL, k} \/ n[a].next = NULL
            /\ \A b \in DOMAIN n : n[b].key = k => a = b
<1> DEFINE n == m.nodes
           c == m.capacity
           D == DOMAIN n
           h == Hash[k] % c
<1>1. PICK walk \in [D -> D] :
        /\ Walk(m, k) = walk[h]
        /\ \A a \in D : walk[a] = IF n[a].key \in {NULL, k} \/ n[a].next = NULL
                                  THEN a ELSE walk[n[a].next]
  BY WalkFollows
<1>2. PICK bound \in Nat : \E rank \in [D -> 0 .. bound] : Ascends(n, rank)
  BY DEF Shape, Ranked
<1>3. PICK rank \in [D -> 0 .. bound] : Ascends(n, rank)
  BY <1>2
<1>4. h \in Buckets(c) /\ h \in D /\ Home(c, n, h) = h
  <2>1. c \in Nat /\ c > 0
    BY Numbers DEF Shape
  <2>2. h \in Buckets(c)
    BY <2>1, HashInBuckets
  <2>3. QED BY <2>2 DEF Shape, Allocated, Placed
<1> DEFINE Ends(a) == /\ Home(c, n, walk[a]) = Home(c, n, a)
                      /\ n[walk[a]].key \in {NULL, k} \/ n[walk[a]].next = NULL
           S == {a \in D : Ends(a)}
<1>5. D \subseteq S
  <2>1. FromAbove(D, rank, S)
    <3> SUFFICES ASSUME NEW a \in D, \A b \in D : rank[b] > rank[a] => b \in S
                 PROVE  Ends(a)
      BY DEF FromAbove
    <3>1. CASE n[a].key \in {NULL, k} \/ n[a].next = NULL
      BY <1>1, <3>1
    <3>2. CASE ~(n[a].key \in {NULL, k} \/ n[a].next = NULL)
      <4>1. n[a].next \in D /\ rank[n[a].next] > rank[a] /\ walk[a] = walk[n[a].next]
        BY <1>1, <1>3, <3>2 DEF Ascends, Shape, Linked
      <4>2. Ends(n[a].next)
        BY <4>1
      <4>3. Home(c, n, n[a].next) = Home(c, n, a)
        BY <3>2 DEF Shape, Placed
      <4>4. QED BY <4>1, <4>2, <4>3
    <3>3. QED BY <3>1, <3>2
  <2> HIDE DEF S, D
  <2>2. QED BY <1>2, <1>3, <2>1, Downwards
<1>6. ASSUME NEW b \in D, n[b].key = k PROVE walk[h] = b
  <2> DEFINE T == {a \in D : walk[a] = b => walk[Home(c, n, a)] = b}
  <2>1. FromBelow(D, rank, T)
    <3> SUFFICES ASSUME NEW a \in D, \A x \in D : rank[x] < rank[a] => x \in T, walk[a] = b
                 PROVE  walk[Home(c, n, a)] = b
      BY DEF FromBelow
    <3>1. CASE a \in Buckets(c)
      BY <3>1 DEF Shape, Placed
    <3>2. CASE a \notin Buckets(c)
      <4> DEFINE p == n[a].prev
      <4>1. p \in D /\ n[p].next = a /\ n[p].next # NULL
        BY <3>2, Numbers DEF Shape, Linked, Allocated, Heap
      <4>2. rank[p] < rank[a] /\ Home(c, n, a) = Home(c, n, p)
        BY <1>3, <4>1 DEF Ascends, Shape, Placed
      <4>3. n[p].key # NULL
        BY <4>1, FollowedInUse
      <4>4. walk[p] = b
        <5>1. CASE n[p].key = k
          <6>1. p = b
            BY <1>6, <4>1, <5>1, Numbers DEF Shape, Distinct
          <6>2. QED BY <1>1, <4>1, <5>1, <6>1
        <5>2. CASE n[p].key # k
          BY <1>1, <4>1, <4>3, <5>2
        <5>3. QED BY <5>1, <5>2
      <4>5. QED BY <4>1, <4>2, <4>4
    <3>3. QED BY <3>1, <3>2
  <2>2. D \subseteq T
    <3> HIDE DEF T, D
    <3>1. QED BY <1>2, <1>3, <2>1, Upwards
  <2>3. walk[b] = b
    BY <1>1, <1>6
  <2>4. Home(c, n, b) = h
    BY <1>6, Numbers DEF Home
  <2>5. QED BY <2>2, <2>3, <2>4
<1>7. walk[h] \in D /\ Ends(h)
  BY <1>1, <1>4, <1>5
<1>8. QED BY <1>1, <1>4, <1>6, <1>7, SMTT(30)

\* Found tells whether the name is in the map.
LEMMA FoundIsIn ==
  ASSUME NEW m, Shape(m.capacity, m.nodes), m.capacity # 0, NEW k \in Key
  PROVE  Found(m, k) <=> k \in Names(m.nodes)
<1>1. k # NULL
  BY Numbers
<1> DEFINE a == Walk(m, k)
<1>2. a \in DOMAIN m.nodes /\ \A b \in DOMAIN m.nodes : m.nodes[b].key = k => a = b
  BY WalkStops
<1>3. Found(m, k) <=> m.nodes[a].key = k
  BY DEF Found
<1> HIDE DEF a
<1>4. QED BY <1>1, <1>2, <1>3 DEF Names, Used

-----------------------------------------------------------------------------
\* There are more addresses than names, so malloc finds one.
LEMMA MallocFinds ==
  ASSUME NEW m, Shape(m.capacity, m.nodes)
  PROVE  Malloc(m) \in Heap /\ Malloc(m) \notin DOMAIN m.nodes
<1> DEFINE n == m.nodes
           f == [a \in Heap |-> n[a].key]
<1>1. SUFFICES ASSUME Heap \subseteq DOMAIN n PROVE FALSE
  BY DEF Malloc, Heap
<1>2. \A a \in Heap : n[a].key \in Key
  <2> SUFFICES ASSUME NEW a \in Heap PROVE n[a].key \in Key
    OBVIOUS
  <2>1. a \in DOMAIN n /\ n[a] \in Node
    BY <1>1 DEF Shape, Allocated
  <2>2. a \notin Buckets(m.capacity)
    BY Numbers DEF Heap, Buckets, Shape
  <2>3. n[a].prev # NULL
    BY <2>1, <2>2 DEF Shape, Linked
  <2>4. n[a].key # NULL
    BY <2>1, <2>3, OthersInUse
  <2>5. QED BY <2>1, <2>4 DEF Node
<1>3. f \in [Heap -> Key]
  BY <1>2
<1>4. IsFiniteSet(Heap) /\ Cardinality(Key) < Cardinality(Heap)
  <2>1. MaxCapacity \in Int /\ MaxCapacity + Cardinality(Key) \in Int
        /\ ~(MaxCapacity > MaxCapacity + Cardinality(Key))
    BY Numbers
  <2>2. IsFiniteSet(Heap)
        /\ Cardinality(Heap) = (MaxCapacity + Cardinality(Key)) - MaxCapacity + 1
    BY <2>1, FS_Interval DEF Heap
  <2>3. QED BY <2>2, Numbers
<1>5. \E x, y \in Heap : x # y /\ f[x] = f[y]
  <2> HIDE DEF f
  <2>1. QED BY <1>3, <1>4, Numbers, FS_PigeonHole
<1>6. QED BY <1>1, <1>2, <1>5, Numbers DEF Shape, Distinct

\* o is n, with a name filled in or a node appended.
Filled(n, o, a, k, v) ==
  /\ o \in [DOMAIN n -> Node]
  /\ o[a] = [key |-> k, value |-> v, prev |-> n[a].prev, next |-> n[a].next]
  /\ \A b \in DOMAIN n \ {a} : o[b] = n[b]
Appended(n, o, a, new, k, v) ==
  /\ o \in [DOMAIN n \cup {new} -> Node]
  /\ o[new] = [key |-> k, value |-> v, prev |-> a, next |-> NULL]
  /\ o[a] = [key |-> n[a].key, value |-> n[a].value, prev |-> n[a].prev, next |-> new]
  /\ \A b \in DOMAIN n \ {a} : o[b] = n[b]

\* An empty bucket takes a name.
LEMMA FillKeeps ==
  ASSUME NEW c, NEW n, Shape(c, n), NEW k \in Key, NEW v \in Value \cup {0}, k \notin Names(n),
         NEW a \in DOMAIN n, n[a].key = NULL, Hash[k] % c = a,
         NEW o, Filled(n, o, a, k, v)
  PROVE  Shape(c, o) /\ Pairs(o) = Pairs(n) \cup {<<k, v>>} /\ Used(o) = Used(n) \cup {a}
<1> USE DEF Filled
<1>1. DOMAIN o = DOMAIN n
  OBVIOUS
<1>2. /\ k # NULL
      /\ o[a].key = k /\ o[a].value = v /\ o[a].prev = n[a].prev /\ o[a].next = n[a].next
      /\ n[a].prev = NULL /\ n[a].next = NULL /\ a \in Buckets(c)
  BY Numbers DEF Shape, Linked, EmptyBucket
<1>3. \A b \in DOMAIN n : o[b].prev = n[b].prev /\ o[b].next = n[b].next
  BY <1>2
<1>4. \A b \in DOMAIN n : b # a => o[b].key = n[b].key /\ o[b].value = n[b].value
  OBVIOUS
<1>5. Allocated(c, o)
  BY <1>1 DEF Shape, Allocated
<1>6. Linked(c, o)
  BY <1>1, <1>2, <1>3 DEF Shape, Linked
<1>7. Placed(c, o)
  <2>1. \A b \in DOMAIN n : Home(c, o, b) = Home(c, n, b)
    BY <1>2, <1>4 DEF Home
  <2>2. \A b \in DOMAIN n : n[b].next # NULL => n[b].next \in DOMAIN n
    BY DEF Shape, Linked
  <2>3. QED BY <1>1, <1>3, <2>1, <2>2 DEF Shape, Placed
<1>8. Distinct(o)
  BY <1>1, <1>2, <1>4 DEF Shape, Distinct, Names, Used
<1>9. Ranked(o)
  BY <1>1, <1>3 DEF Shape, Ranked, Ascends
<1>10. Used(o) = Used(n) \cup {a}
  BY <1>1, <1>2, <1>4 DEF Used
<1>11. Pairs(o) = Pairs(n) \cup {<<k, v>>}
  <2>1. a \notin Used(n)
    BY DEF Used
  <2>2. Used(n) \subseteq DOMAIN n
    BY DEF Used
  <2>3. \A b \in Used(n) : o[b].key = n[b].key /\ o[b].value = n[b].value
    BY <1>4, <2>1, <2>2
  <2>4. Pairs(o) = {<<o[b].key, o[b].value>> : b \in Used(n) \cup {a}}
    BY <1>10 DEF Pairs
  <2>5. QED BY <1>2, <2>3, <2>4 DEF Pairs
<1>12. QED BY <1>5, <1>6, <1>7, <1>8, <1>9, <1>10, <1>11 DEF Shape

\* A list takes a node at its end.
LEMMA AppendKeeps ==
  ASSUME NEW c, NEW n, Shape(c, n), NEW k \in Key, NEW v \in Value \cup {0}, k \notin Names(n),
         NEW a \in DOMAIN n, n[a].key # NULL, n[a].next = NULL, Hash[k] % c = Home(c, n, a),
         NEW new \in Heap, new \notin DOMAIN n,
         NEW o, Appended(n, o, a, new, k, v)
  PROVE  Shape(c, o) /\ Pairs(o) = Pairs(n) \cup {<<k, v>>} /\ Used(o) = Used(n) \cup {new}
<1> USE DEF Appended
<1>1. DOMAIN o = DOMAIN n \cup {new} /\ new # a
  OBVIOUS
<1>2. /\ k # NULL /\ new # NULL /\ a # NULL /\ new \notin Buckets(c)
      /\ o[new].key = k /\ o[new].value = v /\ o[new].prev = a /\ o[new].next = NULL
      /\ o[a].next = new
  BY Numbers DEF Shape, Allocated, Heap, Buckets
<1>3. \A b \in DOMAIN n : /\ o[b].prev = n[b].prev
                          /\ o[b].key = n[b].key /\ o[b].value = n[b].value
                          /\ b # a => o[b].next = n[b].next
  OBVIOUS
<1>4. Allocated(c, o)
  BY <1>1 DEF Shape, Allocated
<1>5. Linked(c, o)
  <2> SUFFICES ASSUME NEW b \in DOMAIN o
               PROVE  /\ o[b].next # NULL => /\ o[b].next \in DOMAIN o
                                             /\ o[o[b].next].prev = b
                      /\ o[b].prev = NULL <=> b \in Buckets(c)
                      /\ o[b].prev # NULL => /\ o[b].prev \in DOMAIN o
                                             /\ o[o[b].prev].next = b
                      /\ o[b].key = NULL => o[b] = EmptyBucket
    BY DEF Linked
  <2>1. CASE b = new
    BY <1>1, <1>2, <2>1
  <2>2. CASE b = a
    BY <1>1, <1>2, <1>3, <2>2 DEF Shape, Linked
  <2>3. CASE b \in DOMAIN n /\ b # a
    <3>1. b # NULL /\ n[b].prev # a
      BY <2>3, Numbers DEF Shape, Allocated, Linked, Buckets, Heap
    <3>2. QED BY <1>1, <1>2, <1>3, <2>3, <3>1 DEF Shape, Linked
  <2>4. QED BY <1>1, <2>1, <2>2, <2>3
<1>6. Placed(c, o)
  <2>1. \A b \in DOMAIN n : Home(c, o, b) = Home(c, n, b)
    BY <1>3 DEF Home
  <2>2. Home(c, o, new) = Home(c, n, a)
    BY <1>2 DEF Home
  <2>3. \A b \in DOMAIN n : n[b].next # NULL => n[b].next \in DOMAIN n
    BY DEF Shape, Linked
  <2>4. QED BY <1>1, <1>2, <1>3, <2>1, <2>2, <2>3 DEF Shape, Placed
<1>7. Distinct(o)
  BY <1>1, <1>2, <1>3 DEF Shape, Distinct, Names, Used
<1>8. Ranked(o)
  <2>1. PICK bound \in Nat : \E rank \in [DOMAIN n -> 0 .. bound] : Ascends(n, rank)
    BY DEF Shape, Ranked
  <2>2. PICK rank \in [DOMAIN n -> 0 .. bound] : Ascends(n, rank)
    BY <2>1
  <2> DEFINE higher == [b \in DOMAIN o |-> IF b = new THEN bound + 1 ELSE rank[b]]
  <2>3. higher \in [DOMAIN o -> 0 .. bound + 1]
    BY <1>1, <2>1, <2>2
  <2>4. Ascends(o, higher)
    <3> SUFFICES ASSUME NEW b \in DOMAIN o, o[b].next # NULL
                 PROVE  higher[b] < higher[o[b].next]
      BY DEF Ascends
    <3>1. CASE b = a
      BY <1>1, <1>2, <2>1, <2>2, <3>1
    <3>2. CASE b # a
      <4>1. b \in DOMAIN n /\ o[b].next = n[b].next /\ n[b].next \in DOMAIN n /\ n[b].next # new
        BY <1>1, <1>2, <1>3, <3>2 DEF Shape, Linked
      <4>2. QED BY <1>1, <2>2, <4>1 DEF Ascends
    <3>3. QED BY <3>1, <3>2
  <2>5. bound + 1 \in Nat
    BY <2>1
  <2> HIDE DEF higher
  <2>6. QED BY <2>3, <2>4, <2>5 DEF Ranked
<1>9. Used(o) = Used(n) \cup {new}
  BY <1>1, <1>2, <1>3 DEF Used
<1>10. Pairs(o) = Pairs(n) \cup {<<k, v>>}
  <2>1. Used(n) \subseteq DOMAIN n
    BY DEF Used
  <2>2. \A b \in Used(n) : o[b].key = n[b].key /\ o[b].value = n[b].value
    BY <1>3, <2>1
  <2>3. Pairs(o) = {<<o[b].key, o[b].value>> : b \in Used(n) \cup {new}}
    BY <1>9 DEF Pairs
  <2>4. QED BY <1>2, <2>2, <2>3 DEF Pairs
<1>11. QED BY <1>4, <1>5, <1>6, <1>7, <1>8, <1>9, <1>10 DEF Shape

\* The nodes of a list are different.
LEMMA Neighbours ==
  ASSUME NEW c, NEW n, Shape(c, n), NEW a \in DOMAIN n, n[a].next # NULL
  PROVE  LET x == n[a].next
         IN /\ x \in DOMAIN n /\ x # a /\ n[x].prev = a /\ x \notin Buckets(c)
            /\ n[a].prev # x
            /\ Home(c, n, x) = Home(c, n, a)
<1>1. PICK bound \in Nat : \E rank \in [DOMAIN n -> 0 .. bound] : Ascends(n, rank)
  BY DEF Shape, Ranked
<1>2. PICK rank \in [DOMAIN n -> 0 .. bound] : Ascends(n, rank)
  BY <1>1
<1> DEFINE x == n[a].next
<1>3. x \in DOMAIN n /\ n[x].prev = a /\ Home(c, n, x) = Home(c, n, a)
  BY DEF Shape, Linked, Placed
<1>4. a # NULL
  BY Numbers DEF Shape, Allocated, Buckets, Heap
<1>5. x \notin Buckets(c)
  BY <1>3, <1>4 DEF Shape, Linked
<1>6. rank[a] < rank[x] /\ rank[a] \in Nat
  BY <1>1, <1>2, <1>3 DEF Ascends
<1>7. n[a].prev # x
  <2>1. SUFFICES ASSUME n[a].prev = x PROVE FALSE
    OBVIOUS
  <2>2. n[x].next = a /\ x # NULL
    BY <1>3, <2>1 DEF Shape, Linked
  <2>3. rank[x] < rank[a] /\ rank[x] \in Nat
    BY <1>1, <1>2, <1>3, <1>4, <2>2 DEF Ascends
  <2>4. QED BY <1>6, <2>3
<1>8. QED BY <1>3, <1>5, <1>6, <1>7

\* The only node of a list is emptied.
LEMMA WithoutOnly ==
  ASSUME NEW c, NEW n, Shape(c, n), NEW a \in Used(n), n[a].prev = NULL, n[a].next = NULL
  PROVE  LET o == Without(n, a)
         IN /\ Shape(c, o)
            /\ Pairs(o) = {<<n[b].key, n[b].value>> : b \in Used(n) \ {a}}
<1> DEFINE o == [n EXCEPT ![a] = EmptyBucket]
<1>1. Without(n, a) = o
  BY DEF Without
<1>2. a \in DOMAIN n /\ EmptyBucket \in Node
  BY DEF Used, EmptyBucket, Node
<1>3. /\ DOMAIN o = DOMAIN n /\ o \in [DOMAIN n -> Node]
      /\ o[a] = EmptyBucket
      /\ \A b \in DOMAIN n \ {a} : o[b] = n[b]
  BY <1>2 DEF Shape, Allocated
<1>4. o[a].key = NULL /\ o[a].prev = NULL /\ o[a].next = NULL
  BY <1>3 DEF EmptyBucket
<1> HIDE DEF o
<1>5. \A b \in DOMAIN n : o[b].prev = n[b].prev /\ o[b].next = n[b].next
  BY <1>3, <1>4
<1>6. Allocated(c, o)
  BY <1>3 DEF Shape, Allocated
<1>7. Linked(c, o)
  BY <1>3, <1>4, <1>5 DEF Shape, Linked
<1>8. Placed(c, o)
  <2>1. a \in Buckets(c)
    BY <1>2 DEF Shape, Linked
  <2>2. \A b \in DOMAIN n : Home(c, o, b) = Home(c, n, b)
    BY <1>2, <1>3, <1>4, <2>1 DEF Home, Shape, Placed
  <2>3. \A b \in DOMAIN n : n[b].next # NULL => n[b].next \in DOMAIN n
    BY DEF Shape, Linked
  <2>4. QED BY <1>3, <1>5, <2>2, <2>3 DEF Shape, Placed
<1>9. Distinct(o)
  BY <1>3, <1>4 DEF Shape, Distinct
<1>10. Ranked(o)
  BY <1>3, <1>5 DEF Shape, Ranked, Ascends
<1>11. Used(o) = Used(n) \ {a}
  BY <1>2, <1>3, <1>4 DEF Used
<1>12. Pairs(o) = {<<n[b].key, n[b].value>> : b \in Used(n) \ {a}}
  <2>1. \A b \in Used(n) \ {a} : o[b] = n[b]
    BY <1>3 DEF Used
  <2>2. QED BY <1>11, <2>1 DEF Pairs
<1>13. QED BY <1>1, <1>6, <1>7, <1>8, <1>9, <1>10, <1>12 DEF Shape

\* The head of a list takes over the node after it.
LEMMA WithoutHead ==
  ASSUME NEW c, NEW n, Shape(c, n), NEW a \in Used(n), n[a].prev = NULL, n[a].next # NULL
  PROVE  LET o == Without(n, a)
         IN /\ Shape(c, o)
            /\ Pairs(o) = {<<n[b].key, n[b].value>> : b \in Used(n) \ {a}}
<1> DEFINE x == n[a].next
           y == n[x].next
           o == Without(n, a)
           D == DOMAIN n \ {x}
<1>1. a \in DOMAIN n /\ n[a].key # NULL /\ a \in Buckets(c) /\ n \in [DOMAIN n -> Node]
  BY DEF Used, Shape, Linked, Allocated
<1>2. x \in DOMAIN n /\ x # a /\ n[x].prev = a /\ x \notin Buckets(c) /\ Home(c, n, x) = Home(c, n, a)
  BY <1>1, Neighbours
<1>3. y # NULL => /\ y \in DOMAIN n /\ y # x /\ y # a /\ n[y].prev = x
                  /\ Home(c, n, y) = Home(c, n, x) /\ y \notin Buckets(c)
  BY <1>2, Neighbours
<1>4. a # NULL /\ x # NULL /\ a \in Nat
  BY <1>1, Numbers DEF Buckets
<1> DEFINE moved == [n[x] EXCEPT !.prev = NULL]
<1>5. /\ moved \in Node
      /\ moved.key = n[x].key /\ moved.value = n[x].value /\ moved.prev = NULL /\ moved.next = y
  BY <1>1, <1>2 DEF Node
<1> DEFINE e == [n EXCEPT ![a] = moved]
           l == LinkBack(e, y, a)
<1>6. o = FreeNode(l, x)
  BY <1>5 DEF Without
<1>7. /\ e \in [DOMAIN n -> Node] /\ e[a] = moved
      /\ \A b \in DOMAIN n \ {a} : e[b] = n[b]
  BY <1>1, <1>5
<1> HIDE DEF e, moved
<1>8. /\ l \in [DOMAIN n -> Node]
      /\ \A b \in DOMAIN n : /\ l[b].key = e[b].key /\ l[b].value = e[b].value
                             /\ l[b].next = e[b].next
                             /\ l[b].prev = IF b = y THEN a ELSE e[b].prev
                             /\ b # y => l[b] = e[b]
  <2>1. CASE y = NULL
    <3>1. \A b \in DOMAIN n : b # y
      BY <2>1, Numbers DEF Shape, Allocated, Buckets, Heap
    <3>2. QED BY <1>7, <2>1, <3>1 DEF LinkBack
  <2>2. CASE y # NULL
    <3>1. l = [e EXCEPT ![y].prev = a]
      BY <2>2 DEF LinkBack
    <3>2. e[y] \in Node
      BY <1>3, <1>7, <2>2
    <3>3. [e[y] EXCEPT !.prev = a] \in Node
      BY <1>4, <3>2 DEF Node
    <3>4. \A b \in DOMAIN n : l[b] = IF b = y THEN [e[y] EXCEPT !.prev = a] ELSE e[b]
      BY <1>7, <3>1
    <3>5. l \in [DOMAIN n -> Node]
      BY <1>7, <3>1, <3>3
    <3>6. /\ [e[y] EXCEPT !.prev = a].key = e[y].key
          /\ [e[y] EXCEPT !.prev = a].value = e[y].value
          /\ [e[y] EXCEPT !.prev = a].next = e[y].next
          /\ [e[y] EXCEPT !.prev = a].prev = a
      BY <3>2 DEF Node
    <3>7. ASSUME NEW b \in DOMAIN n
          PROVE  /\ l[b].key = e[b].key /\ l[b].value = e[b].value
                 /\ l[b].next = e[b].next
                 /\ l[b].prev = IF b = y THEN a ELSE e[b].prev
                 /\ b # y => l[b] = e[b]
      <4>1. CASE b = y
        BY <3>4, <3>6, <4>1
      <4>2. CASE b # y
        BY <3>4, <4>2
      <4>3. QED BY <4>1, <4>2
    <3>8. QED BY <3>5, <3>7
  <2>3. QED BY <2>1, <2>2
<1> HIDE DEF l
<1>9. /\ DOMAIN o = D /\ o \in [D -> Node]
      /\ \A b \in D : o[b] = l[b]
  BY <1>6, <1>8 DEF FreeNode, Restrict
<1> HIDE DEF o
<1>10. /\ o[a].key = n[x].key /\ o[a].value = n[x].value /\ o[a].prev = NULL /\ o[a].next = y
       /\ \A b \in D : b # a => /\ o[b].key = n[b].key /\ o[b].value = n[b].value
                                /\ o[b].next = n[b].next
                                /\ o[b].prev = IF b = y THEN a ELSE n[b].prev
                                /\ b # y => o[b] = n[b]
  BY <1>1, <1>2, <1>3, <1>5, <1>7, <1>8, <1>9
<1>11. \A b \in D : n[b].next # x \/ b = a
  BY <1>2, <1>4 DEF Shape, Linked
<1>12. n[x].key # NULL
  BY <1>2, <1>4, OthersInUse
<1>13. Allocated(c, o)
  BY <1>2, <1>9 DEF Shape, Allocated
<1>14. Linked(c, o)
  <2> SUFFICES ASSUME NEW b \in D
               PROVE  /\ o[b].next # NULL => /\ o[b].next \in D
                                             /\ o[o[b].next].prev = b
                      /\ o[b].prev = NULL <=> b \in Buckets(c)
                      /\ o[b].prev # NULL => /\ o[b].prev \in D
                                             /\ o[o[b].prev].next = b
                      /\ o[b].key = NULL => o[b] = EmptyBucket
    BY <1>9 DEF Linked
  <2>1. CASE b = a
    BY <1>1, <1>2, <1>3, <1>10, <1>12, <2>1
  <2>2. CASE b = y
    <3>1. y # NULL /\ n[y].key # NULL
      BY <1>2, <1>3, <1>4, <2>2, OthersInUse, Numbers DEF Shape, Allocated, Buckets, Heap
    <3>2. n[y].next # a /\ n[y].next # y
      BY <1>3, <1>4, <3>1, Neighbours
    <3>3. QED BY <1>1, <1>2, <1>3, <1>4, <1>10, <1>11, <2>2, <3>1, <3>2, SMTT(30) DEF Shape, Linked
  <2>3. CASE b # a /\ b # y
    <3>1. n[b].prev # x
      BY <1>2, <2>3 DEF Shape, Linked
    <3>2. n[b].next # a /\ (y # NULL => n[b].next # y)
      <4>1. b # NULL /\ b # x /\ b \in DOMAIN n
        BY Numbers DEF Shape, Allocated, Buckets, Heap
      <4>2. QED BY <1>1, <1>2, <1>3, <1>4, <2>3, <4>1 DEF Shape, Linked
    <3>3. n[b].prev # a
      BY <1>4, <2>3 DEF Shape, Linked
    <3>4. QED BY <1>10, <1>11, <2>3, <3>1, <3>2, <3>3 DEF Shape, Linked
  <2>4. QED BY <2>1, <2>2, <2>3
<1>15. Placed(c, o)
  <2>1. Home(c, o, a) = Home(c, n, a)
    BY <1>2, <1>10, <1>12 DEF Home
  <2>2. \A b \in D : Home(c, o, b) = Home(c, n, b)
    BY <1>10, <2>1 DEF Home
  <2>3. \A b \in D : o[b].next # NULL => Home(c, o, o[b].next) = Home(c, o, b)
    <3> SUFFICES ASSUME NEW b \in D, o[b].next # NULL
                 PROVE  Home(c, o, o[b].next) = Home(c, o, b)
      OBVIOUS
    <3>1. CASE b = a
      BY <1>1, <1>2, <1>3, <1>10, <2>1, <2>2, <3>1
    <3>2. CASE b # a
      BY <1>10, <1>11, <2>2, <3>2 DEF Shape, Linked, Placed
    <3>3. QED BY <3>1, <3>2
  <2>4. QED BY <1>9, <2>2, <2>3 DEF Shape, Placed
<1>16. Distinct(o)
  BY <1>2, <1>9, <1>10 DEF Shape, Distinct
<1>17. Ranked(o)
  <2>1. PICK bound \in Nat : \E rank \in [DOMAIN n -> 0 .. bound] : Ascends(n, rank)
    BY DEF Shape, Ranked
  <2>2. PICK rank \in [DOMAIN n -> 0 .. bound] : Ascends(n, rank)
    BY <2>1
  <2> DEFINE lower == [b \in D |-> rank[b]]
  <2>3. lower \in [D -> 0 .. bound]
    BY <2>2
  <2>4. \A b \in D : o[b].next # NULL => lower[b] < lower[o[b].next]
    <3> SUFFICES ASSUME NEW b \in D, o[b].next # NULL
                 PROVE  rank[b] < rank[o[b].next] /\ o[b].next \in D
      OBVIOUS
    <3>1. CASE b = a
      <4>1. rank[a] < rank[x] /\ rank[x] < rank[y] /\ y \in D /\ y \in DOMAIN n
        BY <1>1, <1>2, <1>3, <1>4, <1>10, <2>2, <3>1 DEF Ascends
      <4>2. rank[a] \in Int /\ rank[x] \in Int /\ rank[y] \in Int
        BY <1>1, <1>2, <2>1, <2>2, <4>1
      <4>3. QED BY <1>10, <3>1, <4>1, <4>2
    <3>2. CASE b # a
      BY <1>10, <1>11, <2>2, <3>2 DEF Ascends, Shape, Linked
    <3>3. QED BY <3>1, <3>2
  <2> HIDE DEF lower
  <2>5. QED BY <1>9, <2>1, <2>3, <2>4 DEF Ranked, Ascends
<1>18. Pairs(o) = {<<n[b].key, n[b].value>> : b \in Used(n) \ {a}}
  <2>1. \A b \in Used(o) \ {a} : b \in Used(n) \ {a} /\ b # x /\ o[b].key = n[b].key /\ o[b].value = n[b].value
    BY <1>9, <1>10 DEF Used
  <2>2. \A b \in Used(n) \ {a} : b # x => b \in Used(o) \ {a}
    BY <1>9, <1>10 DEF Used
  <2>3. a \in Used(o) /\ x \in Used(n) \ {a}
    BY <1>1, <1>2, <1>9, <1>10, <1>12 DEF Used
  <2>4. QED BY <1>10, <2>1, <2>2, <2>3 DEF Pairs
<1>19. QED BY <1>13, <1>14, <1>15, <1>16, <1>17, <1>18 DEF Shape, o

\* A node in the middle of a list, or at its end, is taken out.
LEMMA WithoutOther ==
  ASSUME NEW c, NEW n, Shape(c, n), NEW a \in Used(n), n[a].prev # NULL
  PROVE  LET o == Without(n, a)
         IN /\ Shape(c, o)
            /\ Pairs(o) = {<<n[b].key, n[b].value>> : b \in Used(n) \ {a}}
<1> DEFINE p == n[a].prev
           y == n[a].next
           o == Without(n, a)
           D == DOMAIN n \ {a}
<1>1. /\ a \in DOMAIN n /\ n[a].key # NULL /\ a \notin Buckets(c) /\ n \in [DOMAIN n -> Node]
      /\ a # NULL
  BY Numbers DEF Used, Shape, Linked, Allocated, Heap
<1>2. p \in DOMAIN n /\ n[p].next = a
  BY <1>1 DEF Shape, Linked
<1>3. p # a /\ n[p].prev # a /\ Home(c, n, a) = Home(c, n, p)
  BY <1>1, <1>2, Neighbours
<1>4. y # NULL => /\ y \in DOMAIN n /\ y # a /\ y # p /\ n[y].prev = a
                  /\ Home(c, n, y) = Home(c, n, a) /\ y \notin Buckets(c)
  BY <1>1, Neighbours
<1>5. p \in Nat /\ p # NULL
  BY <1>2, Numbers DEF Shape, Allocated, Buckets, Heap
<1>6. \A b \in DOMAIN n : b # NULL
  BY Numbers DEF Shape, Allocated, Buckets, Heap
<1> DEFINE e == [n EXCEPT ![p].next = y]
           l == LinkBack(e, y, p)
<1>7. o = FreeNode(l, a)
  BY DEF Without
<1>8. /\ e \in [DOMAIN n -> Node]
      /\ \A b \in DOMAIN n : /\ e[b].key = n[b].key /\ e[b].value = n[b].value
                             /\ e[b].prev = n[b].prev
                             /\ e[b].next = IF b = p THEN y ELSE n[b].next
                             /\ b # p => e[b] = n[b]
  <2>1. n[p] \in Node /\ n[a] \in Node
    BY <1>1, <1>2
  <2>2. [n[p] EXCEPT !.next = y] \in Node
    BY <2>1 DEF Node
  <2>3. \A b \in DOMAIN n : e[b] = IF b = p THEN [n[p] EXCEPT !.next = y] ELSE n[b]
    BY <1>1
  <2>4. e \in [DOMAIN n -> Node]
    BY <1>1, <2>2
  <2>5. QED BY <2>1, <2>3, <2>4 DEF Node
<1> HIDE DEF e
<1>9. /\ l \in [DOMAIN n -> Node]
      /\ \A b \in DOMAIN n : /\ l[b].key = e[b].key /\ l[b].value = e[b].value
                             /\ l[b].next = e[b].next
                             /\ l[b].prev = IF b = y THEN p ELSE e[b].prev
                             /\ b # y => l[b] = e[b]
  <2>1. CASE y = NULL
    BY <1>6, <1>8, <2>1 DEF LinkBack
  <2>2. CASE y # NULL
    <3>1. l = [e EXCEPT ![y].prev = p]
      BY <2>2 DEF LinkBack
    <3>2. e[y] \in Node
      BY <1>4, <1>8, <2>2
    <3>3. [e[y] EXCEPT !.prev = p] \in Node
      BY <1>5, <3>2 DEF Node
    <3>4. \A b \in DOMAIN n : l[b] = IF b = y THEN [e[y] EXCEPT !.prev = p] ELSE e[b]
      BY <1>8, <3>1
    <3>5. l \in [DOMAIN n -> Node]
      BY <1>8, <3>1, <3>3
    <3>6. QED BY <3>2, <3>4, <3>5 DEF Node
  <2>3. QED BY <2>1, <2>2
<1> HIDE DEF l
<1>10. /\ DOMAIN o = D /\ o \in [D -> Node]
       /\ \A b \in D : o[b] = l[b]
  BY <1>7, <1>9 DEF FreeNode, Restrict
<1> HIDE DEF o
<1>11. \A b \in D : /\ o[b].key = n[b].key /\ o[b].value = n[b].value
                    /\ o[b].next = IF b = p THEN y ELSE n[b].next
                    /\ o[b].prev = IF b = y THEN p ELSE n[b].prev
                    /\ b # p /\ b # y => o[b] = n[b]
  BY <1>8, <1>9, <1>10
<1>12. \A b \in D : (n[b].next = a => b = p) /\ (n[b].prev = a => b = y)
  BY <1>1 DEF Shape, Linked
<1>13. \A b \in D : b # p => n[b].next # y \/ y = NULL
  BY <1>1, <1>4, <1>6 DEF Shape, Linked
<1>14. \A b \in D : b # y => n[b].prev # p
  BY <1>2, <1>5, <1>6 DEF Shape, Linked
<1>15. Allocated(c, o)
  BY <1>1, <1>10 DEF Shape, Allocated
<1>16. Linked(c, o)
  <2> SUFFICES ASSUME NEW b \in D
               PROVE  /\ o[b].next # NULL => /\ o[b].next \in D
                                             /\ o[o[b].next].prev = b
                      /\ o[b].prev = NULL <=> b \in Buckets(c)
                      /\ o[b].prev # NULL => /\ o[b].prev \in D
                                             /\ o[o[b].prev].next = b
                      /\ o[b].key = NULL => o[b] = EmptyBucket
    BY <1>10 DEF Linked
  <2>1. CASE b = p
    <3>1. n[p].key # NULL
      BY <1>1, <1>2, FollowedInUse
    <3>2. n[p].prev # p /\ n[p].prev # a /\ (y # NULL => n[p].prev # y)
      <4>1. n[p].prev # p
        BY <1>2, <1>3, <1>5 DEF Shape, Linked
      <4>2. y # NULL => n[p].prev # y
        <5>1. SUFFICES ASSUME y # NULL, n[p].prev = y PROVE FALSE
          OBVIOUS
        <5>2. n[y].next = p /\ y \in DOMAIN n /\ n[a].next = y
          BY <1>2, <1>4, <5>1 DEF Shape, Linked
        <5>3. PICK bound \in Nat : \E rank \in [DOMAIN n -> 0 .. bound] : Ascends(n, rank)
          BY DEF Shape, Ranked
        <5>4. PICK rank \in [DOMAIN n -> 0 .. bound] : Ascends(n, rank)
          BY <5>3
        <5>5. rank[a] < rank[y] /\ rank[y] < rank[p] /\ rank[p] < rank[a]
          BY <1>1, <1>2, <1>5, <5>1, <5>2, <5>4 DEF Ascends
        <5>6. rank[a] \in Int /\ rank[y] \in Int /\ rank[p] \in Int
          BY <1>1, <1>2, <5>2, <5>3, <5>4
        <5>7. QED BY <5>5, <5>6
      <4>3. QED BY <1>3, <4>1, <4>2
    <3>3. o[p].next = y /\ o[p].prev = n[p].prev /\ o[p].key # NULL
      BY <1>2, <1>3, <1>4, <1>6, <1>11, <3>1
    <3>4. y # NULL => y \in D /\ o[y].prev = p
      BY <1>4, <1>11
    <3>5. n[p].prev = NULL <=> p \in Buckets(c)
      BY <1>2 DEF Shape, Linked
    <3>6. n[p].prev # NULL => n[p].prev \in D /\ o[n[p].prev].next = p
      BY <1>2, <1>3, <1>11, <3>2 DEF Shape, Linked
    <3>7. QED BY <2>1, <3>3, <3>4, <3>5, <3>6
  <2>2. CASE b = y
    <3>1. y # NULL /\ n[y].key # NULL
      BY <1>1, <1>4, <1>6, <2>2, OthersInUse
    <3>2. o[y].prev = p /\ o[y].next = n[y].next /\ o[y].key # NULL
      BY <1>4, <1>11, <3>1
    <3>3. p \in D /\ o[p].next = y
      BY <1>2, <1>3, <1>11
    <3>4. n[y].next # NULL => n[y].next \in D /\ o[n[y].next].prev = y
      <4>1. SUFFICES ASSUME n[y].next # NULL PROVE n[y].next \in D /\ o[n[y].next].prev = y
        OBVIOUS
      <4>2. /\ n[y].next \in DOMAIN n /\ n[n[y].next].prev = y /\ n[y].next # y
            /\ n[y].prev # n[y].next
        BY <1>4, <3>1, <4>1, Neighbours
      <4>3. QED BY <1>4, <1>11, <3>1, <4>2
    <3>5. QED BY <1>4, <1>5, <2>2, <3>1, <3>2, <3>3, <3>4
  <2>3. CASE b # p /\ b # y
    <3>1. n[b].prev # a /\ n[b].next # a
      BY <1>12, <2>3
    <3>2. QED BY <1>11, <1>13, <1>14, <2>3, <3>1 DEF Shape, Linked
  <2>4. QED BY <2>1, <2>2, <2>3
<1>17. Placed(c, o)
  <2>1. \A b \in D : Home(c, o, b) = Home(c, n, b)
    BY <1>11 DEF Home
  <2>2. \A b \in D : o[b].next # NULL => Home(c, o, o[b].next) = Home(c, o, b)
    <3> SUFFICES ASSUME NEW b \in D, o[b].next # NULL
                 PROVE  Home(c, o, o[b].next) = Home(c, o, b)
      OBVIOUS
    <3>1. CASE b = p
      BY <1>2, <1>3, <1>4, <1>11, <2>1, <3>1
    <3>2. CASE b # p
      BY <1>11, <1>12, <2>1, <3>2 DEF Shape, Linked, Placed
    <3>3. QED BY <3>1, <3>2
  <2>3. QED BY <1>10, <2>1, <2>2 DEF Shape, Placed
<1>18. Distinct(o)
  BY <1>10, <1>11 DEF Shape, Distinct
<1>19. Ranked(o)
  <2>1. PICK bound \in Nat : \E rank \in [DOMAIN n -> 0 .. bound] : Ascends(n, rank)
    BY DEF Shape, Ranked
  <2>2. PICK rank \in [DOMAIN n -> 0 .. bound] : Ascends(n, rank)
    BY <2>1
  <2> DEFINE lower == [b \in D |-> rank[b]]
  <2>3. lower \in [D -> 0 .. bound]
    BY <2>2
  <2>4. \A b \in D : o[b].next # NULL => lower[b] < lower[o[b].next]
    <3> SUFFICES ASSUME NEW b \in D, o[b].next # NULL
                 PROVE  rank[b] < rank[o[b].next] /\ o[b].next \in D
      OBVIOUS
    <3>1. CASE b = p
      <4>1. rank[p] < rank[a] /\ rank[a] < rank[y] /\ y \in D
        BY <1>1, <1>2, <1>4, <1>11, <2>2, <3>1 DEF Ascends
      <4>2. rank[a] \in Int /\ rank[p] \in Int /\ rank[y] \in Int
        BY <1>1, <1>2, <2>1, <2>2, <4>1
      <4>3. QED BY <1>11, <3>1, <4>1, <4>2
    <3>2. CASE b # p
      BY <1>11, <1>12, <2>2, <3>2 DEF Ascends, Shape, Linked
    <3>3. QED BY <3>1, <3>2
  <2> HIDE DEF lower
  <2>5. QED BY <1>10, <2>1, <2>3, <2>4 DEF Ranked, Ascends
<1>20. Pairs(o) = {<<n[b].key, n[b].value>> : b \in Used(n) \ {a}}
  <2>1. Used(o) = Used(n) \ {a}
    BY <1>10, <1>11 DEF Used
  <2>2. \A b \in Used(n) \ {a} : o[b].key = n[b].key /\ o[b].value = n[b].value
    BY <1>11 DEF Used
  <2>3. QED BY <2>1, <2>2 DEF Pairs
<1>21. QED BY <1>15, <1>16, <1>17, <1>18, <1>19, <1>20 DEF Shape, o

\* remove_bucket, on all lists.
LEMMA WithoutKeeps ==
  ASSUME NEW c, NEW n, Shape(c, n), NEW a \in Used(n)
  PROVE  LET o == Without(n, a)
         IN /\ Shape(c, o)
            /\ Pairs(o) = {<<n[b].key, n[b].value>> : b \in Used(n) \ {a}}
  BY WithoutOnly, WithoutHead, WithoutOther

-----------------------------------------------------------------------------
\* The names are those of the pairs.
LEMMA NamesOfPairs == ASSUME NEW n
                      PROVE  Names(n) = {p[1] : p \in Pairs(n)}
<1>1. \A a \in Used(n) : <<n[a].key, n[a].value>>[1] = n[a].key
  OBVIOUS
<1>2. QED BY <1>1, ZenonT(60) DEF Names, Pairs

\* There are as many nodes in use as names.
LEMMA AsManyAsNames ==
  ASSUME NEW c, NEW n, Shape(c, n)
  PROVE  /\ Names(n) \subseteq Key /\ IsFiniteSet(Names(n))
         /\ Cardinality(Used(n)) = Cardinality(Names(n)) /\ Cardinality(Names(n)) \in Nat
<1> DEFINE f == [a \in Used(n) |-> n[a].key]
<1>1. Names(n) \subseteq Key
  BY DEF Names, Used, Shape, Allocated, Node
<1>2. IsFiniteSet(Names(n))
  BY <1>1, Numbers, FS_Subset
<1>3. f \in Surjection(Used(n), Names(n))
  BY DEF Names, Surjection
<1>4. f \in Injection(Used(n), Names(n))
  <2>1. f \in [Used(n) -> Names(n)]
    BY DEF Names
  <2>2. \A a, b \in Used(n) : f[a] = f[b] => a = b
    BY DEF Shape, Distinct, Used
  <2>3. QED BY <2>1, <2>2 DEF Injection, IsInjective
<1> HIDE DEF f
<1>5. Cardinality(Used(n)) = Cardinality(Names(n))
  BY <1>2, <1>3, <1>4, FS_Injection
<1>6. QED BY <1>1, <1>2, <1>5, FS_CardinalityType

\* A name has one value.
LEMMA OneValue ==
  ASSUME NEW c, NEW n, Shape(c, n), NEW k, NEW v, NEW w, <<k, v>> \in Pairs(n), <<k, w>> \in Pairs(n)
  PROVE  v = w
  BY DEF Pairs, Used, Shape, Distinct

\* insert_bucket adds the pair, or finds the name.
LEMMA InsertKeeps ==
  ASSUME NEW m, Sound(m), m.capacity # 0, NEW k \in Key, NEW v \in Value \cup {0}
  PROVE  LET o == insert_bucket(m, k, v)
         IN /\ Sound(o) /\ o.capacity = m.capacity
            /\ k \in Names(m.nodes) => o.nodes = m.nodes /\ o.len = m.len
            /\ k \notin Names(m.nodes) => /\ Pairs(o.nodes) = Pairs(m.nodes) \cup {<<k, v>>}
                                          /\ o.len = m.len + 1
<1> DEFINE n == m.nodes
           c == m.capacity
           a == Walk(m, k)
           new == Malloc(m)
           o == insert_bucket(m, k, v)
           filled == CASE n[a].key = NULL -> [n EXCEPT ![a].key = k, ![a].value = v]
                       [] n[a].key = k    -> n
                       [] OTHER -> AddNode([n EXCEPT ![a].next = new], new,
                                           [key |-> k, value |-> v, prev |-> a, next |-> NULL])
<1>1. Shape(c, n) /\ k # NULL /\ n \in [DOMAIN n -> Node]
  BY Numbers DEF Sound, Shape, Allocated
<1>2. /\ a \in DOMAIN n /\ Home(c, n, a) = Hash[k] % c
      /\ n[a].key \in {NULL, k} \/ n[a].next = NULL
      /\ \A b \in DOMAIN n : n[b].key = k => a = b
  BY <1>1, WalkStops
<1>3. new \in Heap /\ new \notin DOMAIN n
  BY <1>1, MallocFinds
<1>4. Found(m, k) <=> k \in Names(n)
  BY <1>1, FoundIsIn
<1>5. Found(m, k) <=> n[a].key = k
  BY DEF Found
<1>6. /\ o = [m EXCEPT !.nodes = filled, !.len = IF Found(m, k) THEN m.len ELSE m.len + 1]
  BY DEF insert_bucket
<1> HIDE DEF filled, a, new, o
<1>7. /\ o = [capacity |-> o.capacity, len |-> o.len, nodes |-> o.nodes]
      /\ o.capacity = c /\ o.nodes = filled
      /\ o.len = IF Found(m, k) THEN m.len ELSE m.len + 1
      /\ o.len \in Nat
  <2> DEFINE l == m.len
  <2>1. m = [capacity |-> c, len |-> l, nodes |-> n] /\ l \in Nat
    BY DEF Sound
  <2>2. o = [m EXCEPT !.nodes = filled, !.len = IF Found(m, k) THEN l ELSE l + 1]
    BY <1>6
  <2> HIDE DEF n, c, l
  <2>3. o = [capacity |-> c, len |-> IF Found(m, k) THEN l ELSE l + 1, nodes |-> filled]
    BY <2>1, <2>2
  <2>4. QED BY <2>1, <2>3 DEF l
<1>8. CASE Found(m, k)
  <2>1. filled = n
    BY <1>1, <1>5, <1>8 DEF filled
  <2>2. QED BY <1>1, <1>4, <1>7, <1>8, <2>1 DEF Sound, o
<1>9. CASE ~Found(m, k)
  <2>1. Shape(c, filled) /\ Pairs(filled) = Pairs(n) \cup {<<k, v>>}
    <3>1. CASE n[a].key = NULL
      <4> DEFINE f == [n EXCEPT ![a].key = k, ![a].value = v]
      <4>1. filled = f
        BY <1>1, <3>1 DEF filled
      <4>2. n[a] \in Node /\ DOMAIN n[a] = {"key", "value", "prev", "next"}
        BY <1>1, <1>2 DEF Node
      <4>3. f[a] = [key |-> k, value |-> v, prev |-> n[a].prev, next |-> n[a].next]
        BY <1>2, <4>2 DEF Node
      <4>4. f[a] \in Node
        BY <1>1, <1>2, <4>2, <4>3 DEF Node
      <4>5. Filled(n, f, a, k, v)
        BY <1>1, <1>2, <4>3, <4>4 DEF Filled
      <4>6. Hash[k] % c = a
        BY <1>2, <3>1 DEF Home
      <4> HIDE DEF f, n, c
      <4>7. QED BY <1>1, <1>2, <1>4, <1>9, <3>1, <4>1, <4>5, <4>6, FillKeeps
    <3>2. CASE n[a].key # NULL
      <4> DEFINE node == [key |-> k, value |-> v, prev |-> a, next |-> NULL]
                 e == [n EXCEPT ![a].next = new]
                 f == AddNode(e, new, node)
      <4>1. filled = f
        BY <1>5, <1>9, <3>2 DEF filled
      <4>2. n[a] \in Node
        BY <1>1, <1>2
      <4>3. a \in Nat /\ new \in Nat
        BY <1>1, <1>2, <1>3, Numbers DEF Shape, Allocated, Buckets, Heap
      <4>4. e[a] = [key |-> n[a].key, value |-> n[a].value, prev |-> n[a].prev, next |-> new]
        BY <1>1, <1>2, <4>2 DEF Node
      <4>5. e[a] \in Node
        BY <4>2, <4>3, <4>4 DEF Node
      <4>6. e \in [DOMAIN n -> Node] /\ \A b \in DOMAIN n \ {a} : e[b] = n[b]
        BY <1>1, <1>2, <4>5
      <4>7. node \in Node
        BY <4>3 DEF Node
      <4> HIDE DEF e, node
      <4>8. /\ f \in [DOMAIN n \cup {new} -> Node]
            /\ f[new] = node /\ f[a] = e[a] /\ \A b \in DOMAIN n \ {a} : f[b] = n[b]
        BY <1>2, <1>3, <4>6, <4>7 DEF AddNode
      <4>9. n[a].next = NULL
        BY <1>2, <1>5, <1>9, <3>2
      <4>10. Appended(n, f, a, new, k, v)
        BY <4>4, <4>8 DEF Appended, node
      <4> HIDE DEF f, n, c
      <4>11. QED BY <1>1, <1>2, <1>3, <1>4, <1>9, <3>2, <4>1, <4>9, <4>10, AppendKeeps
    <3>3. QED BY <3>1, <3>2
  <2>2. QED BY <1>4, <1>7, <1>9, <2>1 DEF Sound, o
<1>10. QED BY <1>8, <1>9

-----------------------------------------------------------------------------
(***************************************************************************)
(* The lists, as sequences.                                                *)
(***************************************************************************)
\* A sequence with an element before it.
LEMMA Preceded ==
  ASSUME NEW T, NEW x \in T, NEW s \in Seq(T)
  PROVE  <<x>> \in Seq(T) /\ <<x>> \o s \in Seq(T) /\ <<x>> \o <<>> = <<x>>
  OBVIOUS

\* A list is its first node and what follows.
LEMMA ChainFollows ==
  ASSUME NEW m, Shape(m.capacity, m.nodes), NEW a \in DOMAIN m.nodes
  PROVE  /\ Chain(m, a) \in Seq(DOMAIN m.nodes)
         /\ Chain(m, a) = IF m.nodes[a].next = NULL THEN <<a>>
                          ELSE <<a>> \o Chain(m, m.nodes[a].next)
<1> DEFINE n == m.nodes
           D == DOMAIN n
           V == Seq(D)
           Stop == {x \in D : n[x].next = NULL}
           next == [x \in D |-> IF n[x].next = NULL THEN x ELSE n[x].next]
           last == [x \in D |-> <<x>>]
           op == [p \in D \X V |-> <<p[1]>> \o p[2]]
           On(w) == [x \in D |-> <<x>> \o (IF n[x].next = NULL THEN <<>> ELSE w[n[x].next])]
<1>1. PICK bound \in Nat : \E rank \in [D -> 0 .. bound] : Ascends(n, rank)
  BY DEF Shape, Ranked
<1>2. PICK rank \in [D -> 0 .. bound] : Ascends(n, rank)
  BY <1>1
<1>3. next \in [D -> D] /\ \A x \in D : n[x].next # NULL => next[x] = n[x].next /\ n[x].next \in D
  BY DEF Shape, Linked
<1>4. Rises(D, rank, Stop, next)
  BY <1>2 DEF Ascends, Rises
<1>5. last \in [D -> V] /\ op \in [D \X V -> V] /\ \A x \in D, s \in V : op[<<x, s>>] = <<x>> \o s
  <2>1. \A x \in D : <<x>> \in V
    BY Preceded, EmptySeq
  <2>2. \A x \in D, s \in V : <<x>> \o s \in V
    BY Preceded
  <2>3. \A p \in D \X V : p[1] \in D /\ p[2] \in V
    OBVIOUS
  <2> HIDE DEF V, D
  <2>4. QED BY <2>1, <2>2, <2>3
<1>6. PICK f \in [D -> V] : Recurs(f, D, Stop, next, last, op)
  <2> HIDE DEF Stop, next, last, op, D, V
  <2>1. QED BY <1>1, <1>2, <1>3, <1>4, <1>5, RecursionExists
<1>7. \A x \in D : f[x] = <<x>> \o (IF n[x].next = NULL THEN <<>> ELSE f[n[x].next])
  <2> SUFFICES ASSUME NEW x \in D
               PROVE  f[x] = <<x>> \o (IF n[x].next = NULL THEN <<>> ELSE f[n[x].next])
    OBVIOUS
  <2>1. CASE x \in Stop
    <3>1. f[x] = <<x>>
      BY <1>6, <2>1 DEF Recurs
    <3>2. <<x>> \o <<>> = <<x>>
      OBVIOUS
    <3>3. QED BY <2>1, <3>1, <3>2
  <2>2. CASE x \notin Stop
    <3>1. next[x] = n[x].next /\ n[x].next \in D
      BY <2>2, <1>3
    <3>2. op[<<x, f[next[x]]>>] = <<x>> \o f[next[x]]
      BY <1>3, <1>5, <1>6
    <3>3. QED BY <1>6, <2>2, <3>1, <3>2 DEF Recurs
  <2>3. QED BY <2>1, <2>2
<1>8. f = On(f)
  <2>1. f = [x \in D |-> f[x]]
    BY <1>6
  <2>2. QED BY <1>7, <2>1
<1> DEFINE chain == CHOOSE w : w = On(w)
<1>9. chain = On(chain) /\ \A x : Chain(m, x) = chain[x]
  BY <1>8 DEF Chain
<1>10. \A x \in D : chain[x] = <<x>> \o (IF n[x].next = NULL THEN <<>> ELSE chain[n[x].next])
  <2> HIDE DEF chain
  <2>1. QED BY <1>9
<1> HIDE DEF chain
<1> DEFINE S == {x \in D : chain[x] \in V}
<1>11. D \subseteq S
  <2>1. FromAbove(D, rank, S)
    <3> SUFFICES ASSUME NEW x \in D, \A b \in D : rank[b] > rank[x] => b \in S
                 PROVE  chain[x] \in V
      BY DEF FromAbove
    <3>1. CASE x \in Stop
      <4>1. chain[x] = <<x>> \o <<>>
        BY <1>10, <3>1
      <4>2. <<x>> \o <<>> = <<x>> /\ <<x>> \in V
        BY Preceded, EmptySeq
      <4>3. QED BY <4>1, <4>2
    <3>2. CASE x \notin Stop
      <4>1. n[x].next \in D /\ rank[n[x].next] > rank[x]
        BY <1>2, <1>3, <3>2 DEF Ascends
      <4>2. chain[n[x].next] \in V
        BY <4>1
      <4>3. chain[x] = <<x>> \o chain[n[x].next]
        BY <1>10, <3>2
      <4>4. \A s \in V : <<x>> \o s \in V
        BY Preceded
      <4>5. QED BY <4>2, <4>3, <4>4
    <3>3. QED BY <3>1, <3>2
  <2> HIDE DEF S, D
  <2>2. QED BY <1>1, <1>2, <2>1, Downwards
<1>12. <<a>> \o <<>> = <<a>>
  OBVIOUS
<1>13. QED BY <1>9, <1>10, <1>11, <1>12

\* All its nodes are of the same bucket, and all but the first are not buckets.
LEMMA ChainNodes ==
  ASSUME NEW m, Shape(m.capacity, m.nodes), NEW a \in DOMAIN m.nodes
  PROVE  LET s == Chain(m, a)
         IN /\ Len(s) > 0 /\ s[1] = a
            /\ \A i \in 1 .. Len(s) :
                 /\ s[i] \in DOMAIN m.nodes
                 /\ Home(m.capacity, m.nodes, s[i]) = Home(m.capacity, m.nodes, a)
                 /\ i # 1 => m.nodes[s[i]].prev # NULL
<1> DEFINE n == m.nodes
           c == m.capacity
           D == DOMAIN n
           Good(x, s) == /\ Len(s) > 0 /\ s[1] = x
                         /\ \A i \in 1 .. Len(s) : /\ s[i] \in D
                                                   /\ Home(c, n, s[i]) = Home(c, n, x)
                                                   /\ i # 1 => n[s[i]].prev # NULL
           S == {x \in D : Good(x, Chain(m, x))}
<1>1. PICK bound \in Nat : \E rank \in [D -> 0 .. bound] : Ascends(n, rank)
  BY DEF Shape, Ranked
<1>2. PICK rank \in [D -> 0 .. bound] : Ascends(n, rank)
  BY <1>1
<1>3. FromAbove(D, rank, S)
  <2> SUFFICES ASSUME NEW x \in D, \A b \in D : rank[b] > rank[x] => b \in S
               PROVE  Good(x, Chain(m, x))
    BY DEF FromAbove
  <2>1. CASE n[x].next = NULL
    <3>1. Chain(m, x) = <<x>>
      BY <2>1, ChainFollows
    <3>2. Good(x, <<x>>)
      OBVIOUS
    <3> HIDE DEF Good
    <3>3. QED BY <3>1, <3>2
  <2>2. CASE n[x].next # NULL
    <3> DEFINE y == n[x].next
               t == Chain(m, y)
    <3>1. y \in D /\ rank[y] > rank[x] /\ Home(c, n, y) = Home(c, n, x) /\ n[y].prev = x
      BY <1>2, <2>2 DEF Ascends, Shape, Linked, Placed
    <3>2. t \in Seq(D) /\ Chain(m, x) = <<x>> \o t
      BY <2>2, <3>1, ChainFollows
    <3>3. y \in S
      BY <3>1
    <3>4. Good(y, t)
      BY <3>3
    <3>5. x # NULL
      BY Numbers DEF Shape, Allocated, Buckets, Heap
    <3> HIDE DEF t, y, n, c
    <3> DEFINE s == <<x>> \o t
    <3>6. Len(s) = Len(t) + 1 /\ s[1] = x /\ \A i \in 2 .. Len(s) : i - 1 \in 1 .. Len(t) /\ s[i] = t[i - 1]
      BY <3>2
    <3> HIDE DEF s
    <3>7. \A i \in 1 .. Len(t) : i = 1 => t[i] = y
      BY <3>4
    <3>8. Good(x, s)
      <4> SUFFICES ASSUME NEW i \in 1 .. Len(s)
                   PROVE  s[i] \in D /\ Home(c, n, s[i]) = Home(c, n, x) /\ (i # 1 => n[s[i]].prev # NULL)
        BY <3>2, <3>4, <3>6
      <4>1. CASE i = 1
        BY <3>6, <4>1
      <4>2. CASE i # 1
        <5>1. i - 1 \in 1 .. Len(t) /\ s[i] = t[i - 1]
          BY <3>2, <3>6, <4>2
        <5>2. QED BY <3>1, <3>4, <3>5, <3>7, <5>1, SMTT(30)
      <4>3. QED BY <4>1, <4>2
    <3>9. QED BY <3>2, <3>8 DEF s
  <2>3. QED BY <2>1, <2>2
<1>4. D \subseteq S
  <2> HIDE DEF S, D
  <2>1. QED BY <1>1, <1>2, <1>3, Downwards
<1>5. QED BY <1>4

\* Every node is in the list of its bucket.
LEMMA ChainReaches ==
  ASSUME NEW m, Shape(m.capacity, m.nodes), NEW a \in DOMAIN m.nodes
  PROVE  LET s == Chain(m, Home(m.capacity, m.nodes, a))
         IN \E i \in 1 .. Len(s) : s[i] = a
<1> DEFINE n == m.nodes
           c == m.capacity
           D == DOMAIN n
           In(b, x) == \E i \in 1 .. Len(Chain(m, x)) : Chain(m, x)[i] = b
           S == {x \in D : In(a, x) => In(a, Home(c, n, x))}
<1>1. PICK bound \in Nat : \E rank \in [D -> 0 .. bound] : Ascends(n, rank)
  BY DEF Shape, Ranked
<1>2. PICK rank \in [D -> 0 .. bound] : Ascends(n, rank)
  BY <1>1
<1>3. FromBelow(D, rank, S)
  <2> SUFFICES ASSUME NEW x \in D, \A b \in D : rank[b] < rank[x] => b \in S, In(a, x)
               PROVE  In(a, Home(c, n, x))
    BY DEF FromBelow
  <2>1. CASE x \in Buckets(c)
    BY <2>1 DEF Shape, Placed
  <2>2. CASE x \notin Buckets(c)
    <3> DEFINE p == n[x].prev
    <3>1. p \in D /\ n[p].next = x /\ x # NULL
      BY <2>2, Numbers DEF Shape, Linked, Allocated, Heap
    <3>2. rank[p] < rank[x] /\ Home(c, n, x) = Home(c, n, p)
      BY <1>2, <3>1 DEF Ascends, Shape, Placed
    <3>3. Chain(m, p) = <<p>> \o Chain(m, x) /\ Chain(m, x) \in Seq(D)
      BY <3>1, ChainFollows
    <3>4. In(a, p)
      <4> HIDE DEF p
      <4> DEFINE t == Chain(m, x)
      <4>1. PICK i \in 1 .. Len(t) : t[i] = a
        OBVIOUS
      <4> HIDE DEF t
      <4>2. i + 1 \in 1 .. Len(<<p>> \o t) /\ (<<p>> \o t)[i + 1] = a
        BY <3>3, <4>1 DEF t
      <4>3. QED BY <3>3, <4>2 DEF t
    <3> HIDE DEF In
    <3>5. QED BY <3>1, <3>2, <3>4
  <2>3. QED BY <2>1, <2>2
<1>4. D \subseteq S
  <2> HIDE DEF S, D
  <2>1. QED BY <1>1, <1>2, <1>3, Upwards
<1>5. In(a, a)
  <2>1. 1 \in 1 .. Len(Chain(m, a)) /\ Chain(m, a)[1] = a
    <3>1. Len(Chain(m, a)) > 0 /\ Chain(m, a)[1] = a /\ Chain(m, a) \in Seq(D)
      BY ChainNodes, ChainFollows
    <3>2. Len(Chain(m, a)) \in Nat
      BY <3>1
    <3>3. QED BY <3>1, <3>2
  <2>2. QED BY <2>1
<1>6. QED BY <1>4, <1>5

\* What a loop over sequences of sequences has collected.
LEMMA FlattenReaches ==
  ASSUME NEW D, NEW s \in Seq(Seq(D))
  PROVE  /\ FlattenSeq(s) \in Seq(D)
         /\ \A i \in 1 .. Len(s) : \A j \in 1 .. Len(s[i]) :
              \E l \in 1 .. Len(FlattenSeq(s)) : FlattenSeq(s)[l] = s[i][j]
<1> DEFINE L == Len(s)
<1>1. CASE L = 0
  <2>1. s = <<>> /\ FlattenSeq(s) = s
    BY <1>1 DEF FlattenSeq
  <2>2. FlattenSeq(s) \in Seq(D)
    BY <2>1, EmptySeq
  <2>3. \A i \in 1 .. Len(s) : FALSE
    BY <1>1
  <2>4. QED BY <2>2, <2>3
<1>2. CASE L # 0
  <2> DEFINE I == 1 .. L
             V == Seq(D)
             rank == [i \in I |-> L - i]
             next == [i \in I |-> IF i = 1 THEN 1 ELSE i - 1]
             last == [i \in I |-> s[i]]
             op == [p \in I \X V |-> p[2] \o s[p[1]]]
             On(w) == [i \in I |-> IF i = 1 THEN s[i] ELSE w[i - 1] \o s[i]]
  <2>1. L \in Nat /\ \A i \in I : s[i] \in V
    OBVIOUS
  <2>2. \A t, u \in V : t \o u \in V
    OBVIOUS
  <2>3. /\ rank \in [I -> 0 .. L] /\ next \in [I -> I] /\ last \in [I -> V]
        /\ Rises(I, rank, {1}, next)
    BY <1>2, <2>1 DEF Rises
  <2>4. /\ op \in [I \X V -> V]
        /\ \A i \in I, t \in V : op[<<i, t>>] = t \o s[i]
    <3>1. \A p \in I \X V : p[1] \in I /\ p[2] \in V
      OBVIOUS
    <3> HIDE DEF I, V
    <3>2. QED BY <2>1, <2>2, <3>1
  <2>5. PICK f \in [I -> V] : Recurs(f, I, {1}, next, last, op)
    <3> HIDE DEF I, V, L, rank, next, last, op
    <3>1. QED BY <2>1, <2>3, <2>4, RecursionExists
  <2>6. \A i \in I : f[i] = IF i = 1 THEN s[i] ELSE f[i - 1] \o s[i]
    <3> SUFFICES ASSUME NEW i \in I
                 PROVE  f[i] = IF i = 1 THEN s[i] ELSE f[i - 1] \o s[i]
      OBVIOUS
    <3>1. CASE i = 1
      BY <2>5, <3>1 DEF Recurs
    <3>2. CASE i # 1
      <4>1. next[i] = i - 1 /\ i - 1 \in I
        BY <2>1, <3>2
      <4>2. f[i] = op[<<i, f[next[i]]>>]
        BY <2>5, <3>2 DEF Recurs
      <4>3. f[i - 1] \in V
        BY <2>5, <4>1
      <4>4. QED BY <2>4, <3>2, <4>1, <4>2, <4>3
    <3>3. QED BY <3>1, <3>2
  <2>7. f = On(f)
    <3>1. f = [i \in I |-> f[i]]
      BY <2>5
    <3>2. QED BY <2>6, <3>1
  <2> DEFINE flatten == CHOOSE w : w = On(w)
  <2>8. flatten = On(flatten) /\ FlattenSeq(s) = flatten[L]
    BY <1>2, <2>7 DEF FlattenSeq
  <2>9. \A i \in I : flatten[i] = IF i = 1 THEN s[i] ELSE flatten[i - 1] \o s[i]
    <3> HIDE DEF flatten
    <3>1. QED BY <2>8
  <2> HIDE DEF flatten
  <2> DEFINE Has(t, x) == \E l \in 1 .. Len(t) : t[l] = x
             Holds(i) == /\ flatten[i] \in V
                         /\ \A h \in 1 .. i : \A j \in 1 .. Len(s[h]) : Has(flatten[i], s[h][j])
             T == {i \in 0 .. L : i = 0 \/ Holds(i)}
  <2>10. \A t, u \in V : \A x : /\ Has(t, x) => Has(t \o u, x)
                                /\ Has(u, x) => Has(t \o u, x)
    <3> SUFFICES ASSUME NEW t \in V, NEW u \in V, NEW x
                 PROVE  (Has(t, x) => Has(t \o u, x)) /\ (Has(u, x) => Has(t \o u, x))
      OBVIOUS
    <3>1. ASSUME NEW l \in 1 .. Len(t), t[l] = x PROVE Has(t \o u, x)
      <4>1. l \in 1 .. Len(t \o u) /\ (t \o u)[l] = x
        BY <3>1
      <4>2. QED BY <4>1
    <3>2. ASSUME NEW l \in 1 .. Len(u), u[l] = x PROVE Has(t \o u, x)
      <4>1. Len(t) + l \in 1 .. Len(t \o u) /\ (t \o u)[Len(t) + l] = x
        BY <3>2
      <4>2. QED BY <4>1
    <3>3. QED BY <3>1, <3>2
  <2>11. 0 \in T
    BY <2>1
  <2>12. ASSUME NEW i \in 0 .. L - 1, i \in T PROVE i + 1 \in T
    <3>1. i + 1 \in I /\ i + 1 \in 0 .. L
      BY <2>1
    <3>2. CASE i = 0
      <4>1. flatten[1] = s[1] /\ s[1] \in V
        BY <2>1, <2>9, <3>1, <3>2
      <4>2. \A h \in 1 .. 1 : \A j \in 1 .. Len(s[h]) : Has(s[1], s[h][j])
        OBVIOUS
      <4>3. Holds(1)
        BY <4>1, <4>2
      <4> HIDE DEF Holds
      <4>4. QED BY <3>1, <3>2, <4>3
    <3>3. CASE i # 0
      <4>1. flatten[i + 1] = flatten[i] \o s[i + 1] /\ s[i + 1] \in V
        <5>1. i + 1 # 1 /\ (i + 1) - 1 = i
          BY <2>1, <3>3
        <5>2. s[i + 1] \in V
          BY <2>1, <3>1
        <5> HIDE DEF I, L
        <5>3. QED BY <2>9, <3>1, <5>1, <5>2
      <4>2. Holds(i)
        BY <2>12, <3>3
      <4>3. \A h \in 1 .. i + 1 : h \in 1 .. i \/ h = i + 1
        BY <3>1
      <4> HIDE DEF Has, V, I
      <4>4. \A h \in 1 .. i + 1 : \A j \in 1 .. Len(s[h]) : Has(flatten[i + 1], s[h][j])
        <5> SUFFICES ASSUME NEW h \in 1 .. i + 1, NEW j \in 1 .. Len(s[h])
                     PROVE  Has(flatten[i] \o s[i + 1], s[h][j])
          BY <4>1
        <5>1. CASE h \in 1 .. i
          BY <2>10, <4>1, <4>2, <5>1
        <5>2. CASE h = i + 1
          <6>1. Has(s[i + 1], s[h][j])
            BY <5>2 DEF Has
          <6>2. QED BY <2>10, <4>1, <4>2, <6>1
        <5>3. QED BY <4>3, <5>1, <5>2
      <4>5. flatten[i + 1] \in V
        BY <2>2, <4>1, <4>2
      <4>6. Holds(i + 1)
        BY <4>4, <4>5
      <4> HIDE DEF Holds
      <4>7. QED BY <3>1, <4>6
    <3>4. QED BY <3>2, <3>3
  <2>13. L \in T
    <3> HIDE DEF T, L
    <3>1. \A i \in 0 .. L - 1 : i \in T => i + 1 \in T
      BY <2>12
    <3>2. \A i \in 0 .. L : i \in T
      BY <2>1, <2>11, <3>1, UpTo
    <3>3. QED BY <2>1, <3>2
  <2>14. Holds(L)
    <3> HIDE DEF Holds
    <3>1. QED BY <1>2, <2>13
  <2>15. FlattenSeq(s) \in Seq(D)
    BY <2>8, <2>14
  <2>16. \A i \in 1 .. L : \A j \in 1 .. Len(s[i]) : Has(FlattenSeq(s), s[i][j])
    <3> HIDE DEF Has, V
    <3>1. QED BY <2>8, <2>14
  <2>17. QED BY <2>15, <2>16
<1>3. QED BY <1>1, <1>2

-----------------------------------------------------------------------------
(***************************************************************************)
(* Growth.                                                                 *)
(***************************************************************************)
\* A new map is empty.
LEMMA NewMapSound ==
  ASSUME NEW c \in 0 .. MaxCapacity
  PROVE  LET m == NewMap(c)
         IN /\ Sound(m) /\ m.capacity = c /\ m.len = 0
            /\ Used(m.nodes) = {} /\ Pairs(m.nodes) = {} /\ Names(m.nodes) = {}
<1> DEFINE n == [b \in 0 .. c - 1 |-> EmptyBucket]
           m == NewMap(c)
<1>1. m = [capacity |-> c, len |-> 0, nodes |-> n]
  BY DEF NewMap
<1>2. EmptyBucket \in Node
  BY DEF EmptyBucket, Node
<1>3. DOMAIN n = Buckets(c) /\ n \in [DOMAIN n -> Node] /\ \A a \in DOMAIN n : n[a] = EmptyBucket
  BY <1>2 DEF Buckets
<1> HIDE DEF n
<1>4. \A a \in DOMAIN n : n[a].key = NULL /\ n[a].prev = NULL /\ n[a].next = NULL
  BY <1>3 DEF EmptyBucket
<1>5. Ranked(n)
  <2> DEFINE rank == [a \in DOMAIN n |-> 0]
  <2>1. rank \in [DOMAIN n -> 0 .. 0] /\ 0 \in Nat
    OBVIOUS
  <2>2. Ascends(n, rank)
    BY <1>4 DEF Ascends
  <2> HIDE DEF rank
  <2>3. QED BY <2>1, <2>2 DEF Ranked
<1>6. Shape(c, n)
  BY <1>3, <1>4, <1>5, Numbers DEF Shape, Allocated, Linked, Placed, Distinct, Home
<1>7. Used(n) = {} /\ Pairs(n) = {} /\ Names(n) = {}
  BY <1>4 DEF Used, Pairs, Names
<1>8. QED BY <1>1, <1>6, <1>7 DEF Sound

\* The sound maps of a capacity, as a set.
Maps(c) == {o \in [capacity : {c}, len : Nat, nodes : UNION {[A -> Node] : A \in SUBSET Nat}] :
              Sound(o)}

\* It holds them all.
LEMMA SoundInMaps == ASSUME NEW o, Sound(o) PROVE o \in Maps(o.capacity)
<1> DEFINE n == o.nodes
           c == o.capacity
           l == o.len
<1>1. o = [capacity |-> c, len |-> l, nodes |-> n] /\ l \in Nat
  BY DEF Sound
<1>2. n \in [DOMAIN n -> Node] /\ DOMAIN n \subseteq Nat
  BY Numbers DEF Sound, Shape, Allocated, Buckets, Heap
<1>3. n \in UNION {[A -> Node] : A \in SUBSET Nat}
  BY <1>2
<1>4. o \in [capacity : {c}, len : Nat, nodes : UNION {[A -> Node] : A \in SUBSET Nat}]
  <2> HIDE DEF n, c, l
  <2>1. QED BY <1>1, <1>3
<1>5. QED BY <1>4 DEF Maps

\* One node of the old map, taken to the new.
Take(o, node) == IF node.key = NULL THEN o ELSE insert_bucket(o, node.key, node.value)

\* What has been taken of n so far, to a map of capacity d, and counted.
PartOf(o, n, d) == /\ Sound(o) /\ o.capacity = d /\ o.len = Cardinality(Names(o.nodes))
                   /\ Pairs(o.nodes) \subseteq Pairs(n)

\* A node that is taken is in the map, and what was there stays.
LEMMA TakeKeeps ==
  ASSUME NEW c, NEW n, Shape(c, n), NEW d, d # 0, NEW o, PartOf(o, n, d), NEW a \in DOMAIN n
  PROVE  LET t == Take(o, n[a])
         IN /\ PartOf(t, n, d)
            /\ Pairs(o.nodes) \subseteq Pairs(t.nodes)
            /\ n[a].key # NULL => <<n[a].key, n[a].value>> \in Pairs(t.nodes)
<1> USE DEF PartOf
<1> DEFINE k == n[a].key
           v == n[a].value
           t == Take(o, n[a])
<1>1. CASE k = NULL
  BY <1>1 DEF Take
<1>2. CASE k # NULL
  <2>1. k \in Key /\ v \in Value \cup {0}
    BY <1>2 DEF Shape, Allocated, Node
  <2>2. t = insert_bucket(o, k, v)
    BY <1>2 DEF Take
  <2>3. <<k, v>> \in Pairs(n)
    BY <1>2 DEF Pairs, Used
  <2> HIDE DEF k, v, t
  <2>4. /\ Sound(t) /\ t.capacity = o.capacity
        /\ k \in Names(o.nodes) => t.nodes = o.nodes /\ t.len = o.len
        /\ k \notin Names(o.nodes) => /\ Pairs(t.nodes) = Pairs(o.nodes) \cup {<<k, v>>}
                                      /\ t.len = o.len + 1
    BY <2>1, <2>2, InsertKeeps
  <2>5. CASE k \in Names(o.nodes)
    <3>1. PICK p \in Pairs(o.nodes) : p[1] = k
      BY <2>5, NamesOfPairs
    <3>2. PICK w : p = <<k, w>>
      BY <3>1 DEF Pairs
    <3>3. w = v
      BY <2>3, <3>1, <3>2, OneValue
    <3>4. QED BY <2>4, <2>5, <3>1, <3>2, <3>3 DEF k, v, t
  <2>6. CASE k \notin Names(o.nodes)
    <3>1. Names(t.nodes) = Names(o.nodes) \cup {k}
      <4>1. <<k, v>>[1] = k
        OBVIOUS
      <4>2. QED BY <2>4, <2>6, <4>1, NamesOfPairs
    <3>2. IsFiniteSet(Names(o.nodes))
      BY AsManyAsNames DEF Sound
    <3>3. Cardinality(Names(t.nodes)) = Cardinality(Names(o.nodes)) + 1
      BY <2>6, <3>1, <3>2, FS_AddElement
    <3>4. QED BY <2>3, <2>4, <2>6, <3>3 DEF k, v, t
  <2>7. QED BY <2>5, <2>6
<1>3. QED BY <1>1, <1>2

\* The larger map holds the same pairs, and counts them.
LEMMA GrownHolds ==
  ASSUME NEW m, Sound(m), m.capacity # 0, 2 * m.capacity <= MaxCapacity
  PROVE  LET o == Grown(m)
         IN /\ Sound(o) /\ o.capacity = 2 * m.capacity
            /\ Pairs(o.nodes) = Pairs(m.nodes) /\ o.len = Cardinality(Names(m.nodes))
<1> DEFINE n == m.nodes
           c == m.capacity
           d == 2 * m.capacity
           D == DOMAIN n
           s == [b \in 1 .. c |-> Chain(m, b - 1)]
           lists == FlattenSeq(s)
           L == Len(lists)
<1>1. Shape(c, n) /\ c \in Nat /\ c > 0
  BY Numbers DEF Sound, Shape
<1>2. s \in Seq(Seq(D)) /\ Len(s) = c /\ \A b \in 1 .. c : s[b] = Chain(m, b - 1)
  <2>1. \A b \in 1 .. c : b - 1 \in D
    BY <1>1 DEF Shape, Allocated, Buckets
  <2>2. \A b \in 1 .. c : Chain(m, b - 1) \in Seq(D)
    BY <1>1, <2>1, ChainFollows
  <2>3. s \in [1 .. c -> Seq(D)]
    BY <2>2
  <2> HIDE DEF D, c
  <2>4. QED BY <1>1, <2>3
<1> HIDE DEF s
<1>3. lists \in Seq(D) /\ L \in Nat
  BY <1>2, FlattenReaches
<1>4. \A a \in D : \E i \in 1 .. L : lists[i] = a
  <2> SUFFICES ASSUME NEW a \in D PROVE \E i \in 1 .. L : lists[i] = a
    OBVIOUS
  <2> DEFINE h == Home(c, n, a)
  <2>1. h + 1 \in 1 .. c /\ (h + 1) - 1 = h
    BY <1>1 DEF Shape, Placed, Buckets
  <2>2. PICK j \in 1 .. Len(Chain(m, h)) : Chain(m, h)[j] = a
    BY <1>1, ChainReaches
  <2> HIDE DEF h
  <2>3. s[h + 1] = Chain(m, h)
    BY <1>2, <2>1
  <2>4. h + 1 \in 1 .. Len(s) /\ j \in 1 .. Len(s[h + 1]) /\ s[h + 1][j] = a
    BY <1>2, <2>1, <2>2, <2>3
  <2>5. QED BY <1>2, <2>4, FlattenReaches
<1> HIDE DEF lists, L
<1>5. \A i \in 1 .. L : lists[i] \in D
  BY <1>3 DEF L
<1> DEFINE Good(t) == PartOf(t, n, d)
           G == {t \in Maps(d) : Good(t)}
           round == [i \in 1 .. L |-> [t \in G |-> Take(t, n[lists[i]])]]
           On(w) == [i \in 0 .. L |-> IF i = 0 THEN NewMap(d)
                                      ELSE Take(w[i - 1], n[lists[i]])]
<1>6. d \in 0 .. MaxCapacity /\ d # 0
  BY <1>1, Numbers
<1>7. NewMap(d) \in G
  <2> HIDE DEF d
  <2>1. Good(NewMap(d))
    BY <1>6, NewMapSound, FS_EmptySet DEF PartOf
  <2>2. NewMap(d) \in Maps(d)
    BY <2>1, SoundInMaps DEF PartOf
  <2>3. QED BY <2>1, <2>2
<1>8. \A t \in G : \A i \in 1 .. L : Take(t, n[lists[i]]) \in G
  <2>1. ASSUME NEW t, PartOf(t, n, d), NEW a \in D PROVE PartOf(Take(t, n[a]), n, d)
    <3> HIDE DEF d, n, c
    <3>1. QED BY <1>1, <1>6, <2>1, TakeKeeps
  <2> HIDE DEF d, n, D
  <2> SUFFICES ASSUME NEW t \in G, NEW i \in 1 .. L PROVE Take(t, n[lists[i]]) \in G
    OBVIOUS
  <2> DEFINE u == Take(t, n[lists[i]])
  <2>2. Good(u)
    BY <1>5, <2>1
  <2>3. u \in Maps(d)
    BY <2>2, SoundInMaps DEF PartOf
  <2> HIDE DEF u
  <2>4. QED BY <2>2, <2>3 DEF u
<1>9. PICK f : Runs(f, L, G, NewMap(d), round)
  <2>1. round \in Rounds(L, G)
    BY <1>8 DEF Rounds
  <2>2. L \in Nat
    BY <1>3
  <2> HIDE DEF round, G, d
  <2>3. QED BY <1>7, <2>1, <2>2, LoopExists
<1>10. f = On(f)
  <2> HIDE DEF G, n, d
  <2>1. f \in [0 .. L -> G] /\ f[0] = NewMap(d)
    BY <1>9 DEF Runs
  <2>2. ASSUME NEW i \in 1 .. L PROVE f[i] = Take(f[i - 1], n[lists[i]])
    <3>1. i - 1 \in 0 .. L
      BY <1>3
    <3>2. f[i - 1] \in G
      BY <2>1, <3>1
    <3>3. f[i] = round[i][f[i - 1]]
      BY <1>9 DEF Runs
    <3>4. QED BY <3>2, <3>3
  <2>3. f = [i \in 0 .. L |-> f[i]]
    BY <2>1
  <2>4. \A i \in 0 .. L : i = 0 \/ i \in 1 .. L
    BY <1>3
  <2>5. QED BY <2>1, <2>2, <2>3, <2>4
<1> DEFINE taken == CHOOSE w : w = On(w)
<1>11. taken = On(taken)
  BY <1>10
<1>12. Grown(m) = taken[L]
  BY DEF Grown, Take, lists, L, s
<1> HIDE DEF taken
<1>13. taken[0] = NewMap(d) /\ \A i \in 1 .. L : taken[i] = Take(taken[i - 1], n[lists[i]])
  <2> HIDE DEF n, d
  <2>1. 0 \in 0 .. L /\ \A i \in 1 .. L : i \in 0 .. L /\ i # 0
    BY <1>3
  <2>2. \A i \in 0 .. L : taken[i] = IF i = 0 THEN NewMap(d) ELSE Take(taken[i - 1], n[lists[i]])
    BY <1>11
  <2>3. QED BY <2>1, <2>2
<1> DEFINE Pair(a) == <<n[a].key, n[a].value>>
           Has(i) == /\ Good(taken[i])
                     /\ \A j \in 1 .. i : n[lists[j]].key # NULL => Pair(lists[j]) \in Pairs(taken[i].nodes)
           T == {i \in 0 .. L : Has(i)}
<1>14. 0 \in T
  <2>1. 0 \in 0 .. L /\ \A j \in 1 .. 0 : FALSE
    BY <1>3
  <2> HIDE DEF Good, n, d
  <2>2. Good(taken[0])
    BY <1>7, <1>13
  <2>3. QED BY <2>1, <2>2
<1>15. ASSUME NEW i \in 0 .. L - 1, i \in T PROVE i + 1 \in T
  <2> DEFINE x == lists[i + 1]
             t == taken[i]
             u == taken[i + 1]
  <2>1. i + 1 \in 1 .. L /\ i + 1 \in 0 .. L /\ (i + 1) - 1 = i /\ \A j \in 1 .. i + 1 : j \in 1 .. i \/ j = i + 1
    BY <1>3
  <2>2. u = Take(t, n[x]) /\ x \in D
    BY <1>5, <1>13, <2>1
  <2>3. Has(i)
    BY <1>15
  <2> HIDE DEF x, u, t, n, d, c
  <2>4. /\ PartOf(u, n, d)
        /\ Pairs(t.nodes) \subseteq Pairs(u.nodes)
        /\ n[x].key # NULL => Pair(x) \in Pairs(u.nodes)
    <3>1. PartOf(t, n, d) /\ x \in DOMAIN n /\ Shape(c, n) /\ d # 0
      BY <1>1, <1>6, <2>2, <2>3 DEF t
    <3>2. QED BY <2>2, <3>1, TakeKeeps
  <2>5. Good(u)
    BY <2>3, <2>4 DEF t
  <2> HIDE DEF Good, Pair
  <2>6. \A j \in 1 .. i + 1 : n[lists[j]].key # NULL => Pair(lists[j]) \in Pairs(u.nodes)
    BY <2>1, <2>3, <2>4 DEF t, x
  <2>7. QED BY <2>1, <2>5, <2>6 DEF u
<1>16. Has(L)
  <2>1. \A i \in 0 .. L - 1 : i \in T => i + 1 \in T
    <3> HIDE DEF T
    <3>1. QED BY <1>15
  <2>2. L \in T
    <3> HIDE DEF T
    <3>1. \A i \in 0 .. L : i \in T
      BY <1>3, <1>14, <2>1, UpTo
    <3>2. QED BY <1>3, <3>1
  <2> HIDE DEF Has
  <2>3. QED BY <2>2
<1> DEFINE o == Grown(m)
<1>17. Pairs(n) \subseteq Pairs(o.nodes)
  <2>1. \A p \in Pairs(n) : \E a \in D : p = Pair(a) /\ n[a].key # NULL
    BY DEF Pairs, Used
  <2> HIDE DEF n, D, Pair, Good
  <2>2. QED BY <1>4, <1>12, <1>16, <2>1
<1>18. Pairs(o.nodes) = Pairs(n) /\ Sound(o) /\ o.capacity = d /\ o.len = Cardinality(Names(o.nodes))
  <2> HIDE DEF n, d
  <2>1. QED BY <1>12, <1>16, <1>17 DEF PartOf
<1>19. Names(o.nodes) = Names(n)
  <2> HIDE DEF n
  <2>1. QED BY <1>18, NamesOfPairs
<1>20. QED BY <1>18, <1>19

-----------------------------------------------------------------------------
(***************************************************************************)
(* The invariant: besides what the runs check of them, the lists have no   *)
(* cycles and no name twice, and the iterator is within a list.            *)
(***************************************************************************)
Room(c) == (c \div 4) * 3

Counted(m) == m.capacity > 0 => /\ Cardinality(Used(m.nodes)) <= m.len
                                /\ m.len <= Room(m.capacity) + 1

Pointing(m, i) == /\ i \in [ptr : Buckets(m.capacity), bucket_idx : Nat]
                  /\ i.bucket_idx < Len(Chain(m, FirstInUse(m, i.ptr)))

Inv == /\ Sound(map) /\ map.capacity % 4 = 0 /\ Counted(map)
       /\ iter = NULL \/ Pointing(map, iter)

\* The first bucket in use, or the last one.
LEMMA FirstIsBucket ==
  ASSUME NEW m, Sound(m), NEW b \in Buckets(m.capacity)
  PROVE  LET f == FirstInUse(m, b)
         IN /\ f \in b .. m.capacity - 1 /\ f \in DOMAIN m.nodes
            /\ m.nodes[f].key # NULL \/ f = m.capacity - 1
<1> DEFINE c == m.capacity
           n == m.nodes
           T == {f \in b .. c - 1 : n[f].key # NULL \/ f = c - 1}
<1>1. c \in Nat /\ b \in Nat /\ b <= c - 1 /\ \A f \in b .. c - 1 : f \in DOMAIN n
  BY Numbers DEF Sound, Shape, Allocated, Buckets
<1>2. T \subseteq Nat /\ c - 1 \in T
  BY <1>1
<1>3. PICK f \in T : \A g \in T : f <= g
  <2> HIDE DEF T
  <2>1. QED BY <1>2, LeastNumber
<1>4. \A g \in b .. f - 1 : n[g].key = NULL
  <2> SUFFICES ASSUME NEW g \in b .. f - 1 PROVE n[g].key = NULL
    OBVIOUS
  <2>1. g \in b .. c - 1 /\ ~(f <= g)
    BY <1>1, <1>3
  <2>2. QED BY <1>3, <2>1
<1>5. \E h \in b .. c - 1 : /\ n[h].key # NULL \/ h = c - 1
                            /\ \A g \in b .. h - 1 : n[g].key = NULL
  BY <1>3, <1>4
<1>6. /\ FirstInUse(m, b) \in b .. c - 1
      /\ n[FirstInUse(m, b)].key # NULL \/ FirstInUse(m, b) = c - 1
  BY <1>5 DEF FirstInUse
<1>7. QED BY <1>1, <1>6

\* The list that the iterator is in, or may start.
LEMMA ChainOfBucket ==
  ASSUME NEW m, Sound(m), NEW b \in Buckets(m.capacity)
  PROVE  LET s == Chain(m, FirstInUse(m, b))
         IN Len(s) \in Nat /\ 0 < Len(s)
<1> DEFINE f == FirstInUse(m, b)
<1>1. f \in DOMAIN m.nodes /\ Shape(m.capacity, m.nodes)
  BY FirstIsBucket DEF Sound
<1> HIDE DEF f
<1>2. Chain(m, f) \in Seq(DOMAIN m.nodes) /\ Len(Chain(m, f)) > 0
  BY <1>1, ChainFollows, ChainNodes
<1>3. QED BY <1>2 DEF f

\* insert_map's map, before the name is put there: it has room for one more.
LEMMA RoomMade ==
  ASSUME Inv, map.capacity > 0, MustGrow(map) => 2 * map.capacity <= MaxCapacity
  PROVE  LET m == IF MustGrow(map) THEN Grown(map) ELSE map
         IN /\ Sound(m) /\ m.capacity > 0 /\ m.capacity % 4 = 0
            /\ Pairs(m.nodes) = Pairs(map.nodes)
            /\ Cardinality(Used(m.nodes)) <= m.len /\ m.len <= Room(m.capacity)
<1>1. /\ Sound(map) /\ map.capacity \in Nat /\ map.len \in Nat
      /\ map.capacity % 4 = 0 /\ Shape(map.capacity, map.nodes)
      /\ Cardinality(Used(map.nodes)) <= map.len /\ map.len <= Room(map.capacity) + 1
  BY Numbers DEF Inv, Sound, Shape, Counted
<1>2. CASE ~MustGrow(map)
  <2>1. Room(map.capacity) \in Nat
    BY <1>1 DEF Room
  <2>2. map.len <= Room(map.capacity)
    BY <1>1, <1>2, <2>1 DEF MustGrow, Room
  <2>3. QED BY <1>1, <1>2, <2>2
<1>3. CASE MustGrow(map)
  <2> DEFINE o == Grown(map)
             c == map.capacity
  <2>1. /\ Sound(o) /\ o.capacity = 2 * c
        /\ Pairs(o.nodes) = Pairs(map.nodes) /\ o.len = Cardinality(Names(map.nodes))
    BY <1>1, <1>3, GrownHolds
  <2>2. Cardinality(Used(map.nodes)) = Cardinality(Names(map.nodes))
    BY <1>1, AsManyAsNames
  <2>3. Shape(o.capacity, o.nodes)
    BY <2>1 DEF Sound
  <2> HIDE DEF o
  <2>4. Cardinality(Used(o.nodes)) = Cardinality(Names(o.nodes)) /\ Cardinality(Names(o.nodes)) \in Nat
    BY <2>3, AsManyAsNames
  <2>5. Names(o.nodes) = Names(map.nodes)
    BY <2>1, NamesOfPairs
  <2>6. Room(c) + 1 <= Room(2 * c) /\ (2 * c) % 4 = 0 /\ Room(c) \in Nat /\ Room(2 * c) \in Nat
    BY <1>1 DEF Room
  <2>7. o.len <= Room(2 * c)
    BY <1>1, <2>1, <2>2, <2>4, <2>5, <2>6
  <2>8. QED BY <1>1, <1>3, <2>1, <2>4, <2>5, <2>6, <2>7 DEF o
<1>4. QED BY <1>2, <1>3

\* What insert_map does.
LEMMA InsertMap ==
  ASSUME Inv, NEW k \in Key, NEW v \in Value, insert_map(k, v)
  PROVE  /\ Inv' /\ map'.capacity > 0
         /\ IF k \in Names(map.nodes)
            THEN Pairs(map'.nodes) = Pairs(map.nodes) /\ call' = <<"insert", k, FALSE>>
            ELSE /\ Pairs(map'.nodes) = Pairs(map.nodes) \cup {<<k, v>>}
                 /\ call' = <<"insert", k, TRUE>>
<1> DEFINE m == IF MustGrow(map) THEN Grown(map) ELSE map
           o == insert_bucket(m, k, v)
<1>1. map' = o /\ iter' = NULL /\ call' = <<"insert", k, ~Found(m, k)>>
  BY DEF insert_map
<1>2. /\ Sound(m) /\ m.capacity > 0 /\ m.capacity % 4 = 0
      /\ Pairs(m.nodes) = Pairs(map.nodes)
      /\ Cardinality(Used(m.nodes)) <= m.len /\ m.len <= Room(m.capacity)
  BY RoomMade DEF insert_map
<1> HIDE DEF m
<1>3. Names(m.nodes) = Names(map.nodes)
  BY <1>2, NamesOfPairs
<1>4. /\ m.capacity \in Nat /\ m.capacity # 0 /\ Shape(m.capacity, m.nodes)
      /\ m.len \in Nat /\ Room(m.capacity) \in Nat
  BY <1>2, Numbers DEF Sound, Shape, Room
<1>5. Found(m, k) <=> k \in Names(m.nodes)
  BY <1>4, FoundIsIn
<1>6. /\ Sound(o) /\ o.capacity = m.capacity
      /\ k \in Names(m.nodes) => o.nodes = m.nodes /\ o.len = m.len
      /\ k \notin Names(m.nodes) => /\ Pairs(o.nodes) = Pairs(m.nodes) \cup {<<k, v>>}
                                    /\ o.len = m.len + 1
  BY <1>2, <1>4, InsertKeeps
<1> HIDE DEF o
<1>7. Counted(o)
  <2>1. CASE k \in Names(m.nodes)
    BY <1>2, <1>4, <1>6, <2>1 DEF Counted
  <2>2. CASE k \notin Names(m.nodes)
    <3>1. Shape(o.capacity, o.nodes)
      BY <1>6 DEF Sound
    <3>2. Cardinality(Used(o.nodes)) = Cardinality(Names(o.nodes)) /\ Cardinality(Names(o.nodes)) \in Nat
      BY <3>1, AsManyAsNames
    <3>3. Cardinality(Used(m.nodes)) = Cardinality(Names(m.nodes)) /\ IsFiniteSet(Names(m.nodes))
      BY <1>4, AsManyAsNames
    <3>4. Names(o.nodes) = Names(m.nodes) \cup {k}
      <4>1. <<k, v>>[1] = k
        OBVIOUS
      <4>2. QED BY <1>6, <2>2, <4>1, NamesOfPairs
    <3>5. Cardinality(Names(o.nodes)) = Cardinality(Names(m.nodes)) + 1
      BY <2>2, <3>3, <3>4, FS_AddElement
    <3>6. Cardinality(Used(m.nodes)) \in Nat
      BY <3>3, FS_CardinalityType
    <3>7. QED BY <1>2, <1>4, <1>6, <2>2, <3>2, <3>3, <3>5, <3>6 DEF Counted
  <2>3. QED BY <2>1, <2>2
<1>8. Inv'
  BY <1>1, <1>2, <1>6, <1>7 DEF Inv
<1>9. QED BY <1>1, <1>2, <1>3, <1>5, <1>6, <1>8

\* What remove_map does.
LEMMA RemoveMap ==
  ASSUME Inv, NEW k \in Key, remove_map(k)
  PROVE  /\ Inv' /\ map.capacity > 0 /\ map'.capacity > 0
         /\ IF k \in Names(map.nodes)
            THEN /\ Pairs(map'.nodes) = {p \in Pairs(map.nodes) : p[1] # k}
                 /\ call' = <<"remove", k, TRUE>>
            ELSE map' = map /\ call' = <<"remove", k, FALSE>>
<1> DEFINE n == map.nodes
           c == map.capacity
           l == map.len
           a == Walk(map, k)
           o == Without(n, a)
<1>1. /\ Sound(map) /\ c \in Nat /\ c > 0 /\ c # 0 /\ l \in Nat /\ Shape(c, n)
      /\ map = [capacity |-> c, len |-> l, nodes |-> n]
  BY Numbers DEF Inv, Sound, Shape, remove_map
<1>2. Found(map, k) <=> k \in Names(n)
  BY <1>1, FoundIsIn
<1>3. CASE ~Found(map, k)
  <2>1. map' = map /\ iter' = NULL /\ call' = <<"remove", k, FALSE>>
    BY <1>3 DEF remove_map, Found
  <2>2. QED BY <1>1, <1>2, <1>3, <2>1 DEF Inv
<1>4. CASE Found(map, k)
  <2>1. a \in Used(n) /\ n[a].key = k
    BY <1>1, <1>4, WalkStops, Numbers DEF Found, Used
  <2>2. map' = [map EXCEPT !.nodes = o] /\ iter' = NULL /\ call' = <<"remove", k, TRUE>>
    BY <1>4 DEF remove_map
  <2> HIDE DEF n, c, l, a, o
  <2>3. map' = [capacity |-> c, len |-> l, nodes |-> o]
    BY <1>1, <2>2
  <2>4. Shape(c, o) /\ Pairs(o) = {<<n[b].key, n[b].value>> : b \in Used(n) \ {a}}
    BY <1>1, <2>1, WithoutKeeps DEF o
  <2>5. Pairs(o) = {p \in Pairs(n) : p[1] # k}
    <3>1. \A b \in Used(n) : <<n[b].key, n[b].value>>[1] = n[b].key
      OBVIOUS
    <3>2. \A b \in Used(n) : n[b].key = k <=> b = a
      BY <1>1, <2>1 DEF Used, Shape, Distinct
    <3>3. QED BY <2>1, <2>4, <3>1, <3>2 DEF Pairs
  <2>6. Sound(map') /\ map'.capacity = c /\ map'.len = l /\ map'.nodes = o
    BY <1>1, <2>3, <2>4 DEF Sound
  <2>7. Cardinality(Used(o)) <= Cardinality(Used(n)) /\ Cardinality(Used(o)) \in Nat
        /\ Cardinality(Used(n)) \in Nat
    <3>1. Names(o) \subseteq Names(n)
      BY <2>5, NamesOfPairs
    <3>2. IsFiniteSet(Names(n)) /\ Cardinality(Used(n)) = Cardinality(Names(n))
      BY <1>1, AsManyAsNames
    <3>3. Cardinality(Used(o)) = Cardinality(Names(o))
      BY <2>4, AsManyAsNames
    <3>4. QED BY <1>1, <2>4, <3>1, <3>2, <3>3, FS_Subset, AsManyAsNames
  <2>8. Counted(map)' /\ (map.capacity % 4 = 0)'
    <3>1. Cardinality(Used(n)) <= l /\ l <= Room(c) + 1 /\ c % 4 = 0
      BY <1>1 DEF Inv, Counted, n, l, c
    <3>2. QED BY <1>1, <2>6, <2>7, <3>1 DEF Counted
  <2>9. Inv'
    BY <2>2, <2>6, <2>8 DEF Inv
  <2>10. QED BY <1>1, <1>2, <1>4, <2>2, <2>5, <2>6, <2>9 DEF n, c
<1>5. QED BY <1>3, <1>4

\* What clear_map, free_map and the first new_map do.
LEMMA EmptyMap ==
  ASSUME NEW c \in 0 .. MaxCapacity, c % 4 = 0, NEW m, m = NewMap(c)
  PROVE  /\ Sound(m) /\ m.capacity = c /\ m.capacity % 4 = 0 /\ Counted(m)
         /\ Pairs(m.nodes) = {}
<1>1. /\ Sound(m) /\ m.capacity = c /\ m.len = 0
      /\ Used(m.nodes) = {} /\ Pairs(m.nodes) = {}
  BY NewMapSound
<1>2. Cardinality(Used(m.nodes)) = 0
  BY <1>1, FS_EmptySet
<1>3. Counted(m)
  BY <1>1, <1>2 DEF Counted, Room
<1>4. QED BY <1>1, <1>3

\* What map_iter_next does: it ends, or it is at an entry and goes on.
LEMMA MapIterNext ==
  ASSUME Inv, map_iter_next
  PROVE  /\ Inv' /\ map' = map /\ map.capacity > 0
         /\ \/ call' = <<"next", NULL, 0>>
            \/ \E p \in Pairs(map.nodes) : call' = <<"next", p[1], p[2]>>
<1> DEFINE c == map.capacity
           end == c - 1
           first == FirstInUse(map, iter.ptr)
           chain == Chain(map, first)
           a == chain[iter.bucket_idx + 1]
           node == map.nodes[a]
<1>1. /\ Sound(map) /\ c \in Nat /\ Shape(c, map.nodes)
      /\ map' = map
      /\ iter \in [ptr : Buckets(c), bucket_idx : Nat]
      /\ iter.bucket_idx < Len(chain)
  BY Numbers DEF Inv, Sound, Shape, Pointing, map_iter_next
<1>2. /\ iter = [ptr |-> iter.ptr, bucket_idx |-> iter.bucket_idx]
      /\ iter.ptr \in Buckets(c) /\ iter.bucket_idx \in Nat
  BY <1>1
<1>3. c > 0 /\ iter.ptr \in Nat /\ iter.ptr <= end
  BY <1>1, <1>2 DEF Buckets
<1>4. /\ first \in iter.ptr .. end /\ first \in DOMAIN map.nodes
      /\ map.nodes[first].key # NULL \/ first = end
  BY <1>1, <1>2, FirstIsBucket
<1>5. /\ chain \in Seq(DOMAIN map.nodes) /\ Len(chain) \in Nat
      /\ chain[1] = first
      /\ \A i \in 1 .. Len(chain) : /\ chain[i] \in DOMAIN map.nodes
                                    /\ i # 1 => map.nodes[chain[i]].prev # NULL
  <2>1. chain \in Seq(DOMAIN map.nodes)
    BY <1>1, <1>4, ChainFollows
  <2>2. /\ chain[1] = first
        /\ \A i \in 1 .. Len(chain) : /\ chain[i] \in DOMAIN map.nodes
                                      /\ i # 1 => map.nodes[chain[i]].prev # NULL
    BY <1>1, <1>4, ChainNodes
  <2>3. Len(chain) \in Nat
    BY <2>1
  <2>4. QED BY <2>1, <2>2, <2>3
<1>6. /\ first = end => call' = <<"next", NULL, 0>> /\ iter' = iter
      /\ first # end => call' = <<"next", node.key, node.value>> /\ iter' = Advanced(chain)
  BY <1>1 DEF map_iter_next
<1> HIDE DEF first, chain
<1>7. ASSUME first # end PROVE <<node.key, node.value>> \in Pairs(map.nodes)
  <2>1. iter.bucket_idx + 1 \in 1 .. Len(chain)
    BY <1>1, <1>2, <1>5
  <2>2. a \in DOMAIN map.nodes
    BY <1>5, <2>1
  <2>3. node.key # NULL
    <3>1. CASE iter.bucket_idx + 1 = 1
      BY <1>4, <1>5, <1>7, <3>1
    <3>2. CASE iter.bucket_idx + 1 # 1
      <4>1. node.prev # NULL
        BY <1>5, <2>1, <3>2
      <4> HIDE DEF a, c
      <4>2. QED BY <1>1, <2>2, <4>1, OthersInUse
    <3>3. QED BY <3>1, <3>2
  <2> HIDE DEF a
  <2>4. QED BY <2>2, <2>3 DEF Pairs, Used
<1>8. ASSUME first # end PROVE Pointing(map, Advanced(chain))
  <2> DEFINE i == Advanced(chain)
  <2>1. CASE iter.bucket_idx + 1 < Len(chain)
    <3>1. i = [ptr |-> iter.ptr, bucket_idx |-> iter.bucket_idx + 1]
      BY <1>2, <2>1 DEF Advanced
    <3>2. i.ptr = iter.ptr /\ i.bucket_idx = iter.bucket_idx + 1
      BY <3>1
    <3>3. i \in [ptr : Buckets(c), bucket_idx : Nat]
      BY <1>2, <3>1
    <3> HIDE DEF i
    <3>4. QED BY <2>1, <3>2, <3>3 DEF Pointing, chain, first, i
  <2>2. CASE ~(iter.bucket_idx + 1 < Len(chain))
    <3>1. i = [ptr |-> iter.ptr + 1, bucket_idx |-> 0]
      BY <2>2 DEF Advanced
    <3>2. iter.ptr + 1 \in Buckets(c)
      <4>1. iter.ptr <= first /\ first <= end /\ first \in Int /\ iter.ptr + 1 <= end
        BY <1>1, <1>3, <1>4, <1>8
      <4>2. QED BY <1>1, <1>3, <4>1 DEF Buckets
    <3>3. i.ptr = iter.ptr + 1 /\ i.bucket_idx = 0 /\ i \in [ptr : Buckets(c), bucket_idx : Nat]
      BY <3>1, <3>2
    <3> HIDE DEF i
    <3>4. 0 < Len(Chain(map, FirstInUse(map, i.ptr)))
      BY <1>1, <3>2, <3>3, ChainOfBucket
    <3>5. QED BY <3>3, <3>4 DEF Pointing, i
  <2>3. QED BY <2>1, <2>2
<1>9. Inv'
  <2>1. iter' = iter \/ Pointing(map, iter')
    BY <1>6, <1>8
  <2>2. Pointing(map, iter)' <=> Pointing(map, iter')
    BY <1>1
  <2>3. iter' = NULL \/ Pointing(map, iter')
    BY <2>1 DEF Inv
  <2>4. QED BY <1>1, <2>2, <2>3 DEF Inv
<1>10. ASSUME first # end PROVE \E p \in Pairs(map.nodes) : call' = <<"next", p[1], p[2]>>
  <2> DEFINE p == <<node.key, node.value>>
  <2>1. p \in Pairs(map.nodes) /\ p[1] = node.key /\ p[2] = node.value
    BY <1>7, <1>10
  <2>2. call' = <<"next", node.key, node.value>>
    BY <1>6, <1>10
  <2> HIDE DEF p, node
  <2>3. QED BY <2>1, <2>2
<1>11. QED BY <1>1, <1>3, <1>6, <1>9, <1>10

\* It holds at first, and every call keeps it.
LEMMA InitInv == Init => Inv
<1> SUFFICES ASSUME Init PROVE Inv
  OBVIOUS
<1>1. DEFAULT_MAP_CAPACITY \in 0 .. MaxCapacity /\ DEFAULT_MAP_CAPACITY % 4 = 0
  BY CapacityAssumption
<1>2. map = NewMap(DEFAULT_MAP_CAPACITY) /\ iter = NULL
  BY DEF Init
<1>3. QED BY <1>1, <1>2, EmptyMap DEF Inv

\* What the calls do that leave nothing in the map.
LEMMA Emptied ==
  ASSUME NEW c \in 0 .. MaxCapacity, c % 4 = 0, map' = NewMap(c), iter' = NULL
  PROVE  Inv' /\ map'.capacity = c /\ Pairs(map'.nodes) = {}
<1>1. /\ Sound(map') /\ map'.capacity = c /\ map'.capacity % 4 = 0 /\ Counted(map')
      /\ Pairs(map'.nodes) = {}
  BY EmptyMap
<1>2. QED BY <1>1 DEF Inv

\* Every call and every step of the iterator keeps the invariant.
LEMMA NextInv == Inv /\ [Next]_vars => Inv'
<1> SUFFICES ASSUME Inv, [Next]_vars PROVE Inv'
  OBVIOUS
<1>1. ASSUME NEW k \in Key, get_map(k) PROVE Inv'
  BY <1>1 DEF get_map, Inv
<1>2. ASSUME NEW k \in Key, remove_map(k) PROVE Inv'
  BY <1>2, RemoveMap
<1>3. ASSUME NEW k \in Key, NEW v \in Value, insert_map(k, v) PROVE Inv'
  BY <1>3, InsertMap
<1>4. CASE clear_map
  BY <1>4, CapacityAssumption, Emptied DEF clear_map
<1>5. CASE free_map
  <2>1. 0 \in 0 .. MaxCapacity /\ 0 % 4 = 0
    BY Numbers
  <2>2. QED BY <1>5, <2>1, Emptied DEF free_map
<1>6. CASE iter_from_map
  <2>1. 0 \in Buckets(map.capacity) /\ Sound(map)
    BY <1>6, Numbers DEF iter_from_map, Inv, Sound, Shape, Buckets
  <2> DEFINE i == [ptr |-> 0, bucket_idx |-> 0]
  <2>2. i \in [ptr : Buckets(map.capacity), bucket_idx : Nat] /\ i.ptr = 0 /\ i.bucket_idx = 0
    BY <2>1
  <2>3. 0 < Len(Chain(map, FirstInUse(map, 0)))
    BY <2>1, ChainOfBucket
  <2>4. iter' = i /\ map' = map
    BY <1>6 DEF iter_from_map
  <2> HIDE DEF i
  <2>5. Pointing(map, i)
    BY <2>2, <2>3 DEF Pointing
  <2>6. QED BY <2>4, <2>5 DEF Inv
<1>7. CASE map_iter_next
  BY <1>7, MapIterNext
<1>8. CASE UNCHANGED vars
  BY <1>8 DEF vars, Inv
<1>9. QED BY <1>1, <1>2, <1>3, <1>4, <1>5, <1>6, <1>7, <1>8 DEF Next

\* The invariant holds.
LEMMA Invariance == Spec => []Inv
  BY InitInv, NextInv, PTL DEF Spec

-----------------------------------------------------------------------------
(***************************************************************************)
(* What follows.                                                           *)
(***************************************************************************)
\* The buckets are all there, and every pointer is NULL or an address: TypeOK of
\* si_map_t, after any calls.
THEOREM TypesHold == Spec => []TypeOK
<1>1. Inv => TypeOK
  <2> SUFFICES ASSUME Inv PROVE TypeOK
    OBVIOUS
  <2>1. /\ map.capacity \in 0 .. MaxCapacity /\ map.len \in Nat
        /\ Heads \subseteq DOMAIN map.nodes
        /\ \A a \in DOMAIN map.nodes : map.nodes[a] \in Node
    BY DEF Inv, Sound, Shape, Allocated, Heads, Buckets
  <2>2. iter = NULL \/ iter \in [ptr : Heads, bucket_idx : Nat]
    BY DEF Inv, Pointing, Heads, Buckets
  <2>3. QED BY <2>1, <2>2 DEF TypeOK, Node
<1>2. QED BY <1>1, Invariance, PTL

\* insert_bucket, remove_bucket and free_bucket keep the doubly linked lists sound:
\* nothing dangles, nothing leaks.
THEOREM ListsStayIntact == Spec => []ListsIntact
<1>1. Inv => ListsIntact
  BY DEF Inv, Sound, Shape, Linked, ListsIntact, Heads, Buckets
<1>2. QED BY <1>1, Invariance, PTL

\* get_map finds every name that is in the map, wherever growth and removals have
\* moved it.
THEOREM NamesStayFindable == Spec => []NamesFindable
<1>1. Inv => NamesFindable
  <2> SUFFICES ASSUME Inv, NEW a \in Entries PROVE Walk(map, map.nodes[a].key) = a
    BY DEF NamesFindable
  <2> DEFINE k == map.nodes[a].key
  <2>1. Shape(map.capacity, map.nodes) /\ a \in DOMAIN map.nodes
    BY DEF Inv, Sound, Entries
  <2>2. k \in Key
    BY <2>1 DEF Shape, Allocated, Node, Entries
  <2>3. map.capacity # 0
    BY <2>1 DEF Shape, Placed, Buckets
  <2>4. QED BY <2>1, <2>2, <2>3, WalkStops
<1>2. QED BY <1>1, Invariance, PTL

\* len stays a bound on the number of names, though remove_map does not lower it, and
\* growth keeps it below what the next array takes without growing.
THEOREM LenStaysBound == Spec => []LenIsBound
<1>1. Inv => LenIsBound
  BY DEF Inv, Counted, Room, LenIsBound, Entries, Used
<1>2. QED BY <1>1, Invariance, PTL

-----------------------------------------------------------------------------
(***************************************************************************)
(* The calls are those of a partial function.                              *)
(***************************************************************************)
ContentsOf(n) == [k \in Names(n) |-> n[CHOOSE a \in Used(n) : n[a].key = k].value]

\* The function and the pairs are the same thing.
LEMMA PairsOfContents ==
  ASSUME NEW c, NEW n, Shape(c, n)
  PROVE  /\ DOMAIN ContentsOf(n) = Names(n)
         /\ ContentsOf(n) = [k \in Names(n) |-> ContentsOf(n)[k]]
         /\ \A p \in Pairs(n) : p[1] \in Names(n) /\ ContentsOf(n)[p[1]] = p[2]
         /\ \A k \in Names(n) : \E p \in Pairs(n) : p[1] = k /\ p[2] = ContentsOf(n)[k]
<1> DEFINE at(k) == CHOOSE a \in Used(n) : n[a].key = k
<1>1. \A a \in Used(n) : at(n[a].key) = a
  <2> SUFFICES ASSUME NEW a \in Used(n) PROVE at(n[a].key) = a
    OBVIOUS
  <2>1. \A b \in Used(n) : n[b].key = n[a].key => b = a
    BY DEF Used, Shape, Distinct
  <2>2. QED BY <2>1
<1> HIDE DEF at
<1>2. ContentsOf(n) = [k \in Names(n) |-> n[at(k)].value]
  BY DEF ContentsOf, at
<1>3. \A a \in Used(n) : n[a].key \in Names(n) /\ ContentsOf(n)[n[a].key] = n[a].value
  BY <1>1, <1>2 DEF Names
<1>4. \A a \in Used(n) : /\ <<n[a].key, n[a].value>> \in Pairs(n)
                         /\ <<n[a].key, n[a].value>>[1] = n[a].key
                         /\ <<n[a].key, n[a].value>>[2] = n[a].value
  BY DEF Pairs
<1>5. \A p \in Pairs(n) : p[1] \in Names(n) /\ ContentsOf(n)[p[1]] = p[2]
  BY <1>3, <1>4 DEF Pairs
<1>6. \A k \in Names(n) : \E p \in Pairs(n) : p[1] = k /\ p[2] = ContentsOf(n)[k]
  BY <1>3, <1>4 DEF Names
<1>7. QED BY <1>2, <1>5, <1>6

\* A function whose pairs are those of n.
LEMMA ContentsAre ==
  ASSUME NEW c, NEW n, Shape(c, n), NEW D, NEW f, f = [k \in D |-> f[k]], D = Names(n),
         \A p \in Pairs(n) : f[p[1]] = p[2]
  PROVE  ContentsOf(n) = f
<1>1. \A k \in Names(n) : ContentsOf(n)[k] = f[k]
  <2> SUFFICES ASSUME NEW k \in Names(n) PROVE ContentsOf(n)[k] = f[k]
    OBVIOUS
  <2>1. PICK p \in Pairs(n) : p[1] = k /\ p[2] = ContentsOf(n)[k]
    BY PairsOfContents
  <2>2. QED BY <2>1
<1>2. ContentsOf(n) = [k \in Names(n) |-> ContentsOf(n)[k]]
  BY PairsOfContents
<1>3. QED BY <1>1, <1>2

\* What the abstract state is.
LEMMA ContentsIs == /\ Contents = ContentsOf(map.nodes)
                    /\ Contents' = ContentsOf(map'.nodes)
  BY DEF Contents, ContentsOf, Names, Used, Entries

\* No pairs, no function.
LEMMA NoContents ==
  ASSUME NEW c, NEW n, Shape(c, n), Pairs(n) = {}
  PROVE  ContentsOf(n) = <<>>
<1>1. Names(n) = {}
  BY NamesOfPairs
<1>2. ContentsOf(n) = [k \in {} |-> ContentsOf(n)[k]]
  BY <1>1, PairsOfContents
<1>3. QED BY <1>2

\* insert_map.
LEMMA InsertRefines ==
  ASSUME Inv, NEW k \in Key, NEW v \in Value, insert_map(k, v)
  PROVE  Labels!Insert(k, v)
<1> DEFINE n == map.nodes
           o == map'.nodes
           C == ContentsOf(n)
           f == [x \in Names(n) \cup {k} |-> IF x \in Names(n) THEN C[x] ELSE v]
<1>1. /\ Inv' /\ map'.capacity > 0 /\ map.capacity > 0
      /\ IF k \in Names(n)
         THEN Pairs(o) = Pairs(n) /\ call' = <<"insert", k, FALSE>>
         ELSE /\ Pairs(o) = Pairs(n) \cup {<<k, v>>}
              /\ call' = <<"insert", k, TRUE>>
  BY InsertMap DEF insert_map
<1>2. Shape(map.capacity, n) /\ Shape(map'.capacity, o)
  BY <1>1 DEF Inv, Sound
<1>3. /\ DOMAIN C = Names(n)
      /\ \A p \in Pairs(n) : p[1] \in Names(n) /\ C[p[1]] = p[2]
  BY <1>2, PairsOfContents
<1> HIDE DEF n, o, C
<1>4. Names(o) = Names(n) \cup {k}
  <2>1. <<k, v>>[1] = k
    OBVIOUS
  <2>2. CASE k \in Names(n)
    BY <1>1, <2>2, NamesOfPairs
  <2>3. CASE k \notin Names(n)
    BY <1>1, <2>1, <2>3, NamesOfPairs
  <2>4. QED BY <2>2, <2>3
<1>5. \A p \in Pairs(o) : f[p[1]] = p[2]
  <2> SUFFICES ASSUME NEW p \in Pairs(o) PROVE f[p[1]] = p[2]
    OBVIOUS
  <2>1. CASE p \in Pairs(n)
    BY <1>3, <2>1
  <2>2. CASE p \notin Pairs(n)
    <3>1. k \notin Names(n) /\ p = <<k, v>>
      BY <1>1, <2>2
    <3>2. p[1] = k /\ p[2] = v
      BY <3>1
    <3>3. QED BY <3>1, <3>2
  <2>3. QED BY <2>1, <2>2
<1>6. f = [x \in Names(n) \cup {k} |-> f[x]]
  OBVIOUS
<1> HIDE DEF f
<1>7. ContentsOf(o) = f
  BY <1>2, <1>4, <1>5, <1>6, ContentsAre
<1>8. Contents = C /\ Contents' = f
  BY <1>7, ContentsIs DEF C, n, o
<1>9. call' = <<"insert", k, k \notin DOMAIN C>>
  BY <1>1, <1>3
<1>10. QED BY <1>1, <1>3, <1>8, <1>9 DEF Labels!Insert, f

\* remove_map.
LEMMA RemoveRefines ==
  ASSUME Inv, NEW k \in Key, remove_map(k)
  PROVE  Labels!Remove(k)
<1> DEFINE n == map.nodes
           o == map'.nodes
           C == ContentsOf(n)
           f == [x \in Names(n) \ {k} |-> C[x]]
<1>1. /\ Inv' /\ map'.capacity > 0 /\ map.capacity > 0
      /\ IF k \in Names(n)
         THEN /\ Pairs(o) = {p \in Pairs(n) : p[1] # k}
              /\ call' = <<"remove", k, TRUE>>
         ELSE map' = map /\ call' = <<"remove", k, FALSE>>
  BY RemoveMap
<1>2. Shape(map.capacity, n) /\ Shape(map'.capacity, o)
  BY <1>1 DEF Inv, Sound
<1>3. /\ DOMAIN C = Names(n)
      /\ \A p \in Pairs(n) : p[1] \in Names(n) /\ C[p[1]] = p[2]
  BY <1>2, PairsOfContents
<1>4. Pairs(o) = {p \in Pairs(n) : p[1] # k}
  <2>1. CASE k \in Names(n)
    BY <1>1, <2>1
  <2>2. CASE k \notin Names(n)
    <3>1. o = n
      BY <1>1, <2>2
    <3>2. \A p \in Pairs(n) : p[1] # k
      BY <1>3, <2>2
    <3> HIDE DEF n, o
    <3>3. QED BY <3>1, <3>2
  <2>3. QED BY <2>1, <2>2
<1> HIDE DEF n, o, C
<1>5. Names(o) = Names(n) \ {k}
  BY <1>4, NamesOfPairs
<1>6. \A p \in Pairs(o) : f[p[1]] = p[2]
  BY <1>3, <1>4
<1>7. f = [x \in Names(n) \ {k} |-> f[x]]
  OBVIOUS
<1> HIDE DEF f
<1>8. ContentsOf(o) = f
  BY <1>2, <1>5, <1>6, <1>7, ContentsAre
<1>9. Contents = C /\ Contents' = f
  BY <1>8, ContentsIs DEF C, n, o
<1>10. call' = <<"remove", k, k \in DOMAIN C>>
  <2>1. CASE k \in Names(n)
    <3>1. call' = <<"remove", k, TRUE>> /\ (k \in DOMAIN C) = TRUE
      BY <1>1, <1>3, <2>1
    <3>2. QED BY <3>1
  <2>2. CASE k \notin Names(n)
    <3>1. call' = <<"remove", k, FALSE>>
      BY <1>1, <2>2, Zenon
    <3>2. (k \in DOMAIN C) = FALSE
      BY <1>3, <2>2
    <3>3. QED BY <3>1, <3>2
  <2>3. QED BY <2>1, <2>2
<1>11. QED BY <1>1, <1>3, <1>9, <1>10 DEF Labels!Remove, f

\* get_map.
LEMMA GetRefines ==
  ASSUME Inv, NEW k \in Key, get_map(k)
  PROVE  Labels!Get(k)
<1> DEFINE n == map.nodes
           C == ContentsOf(n)
           a == Walk(map, k)
<1>1. /\ Shape(map.capacity, n) /\ map.capacity > 0 /\ map.capacity # 0 /\ k # NULL
      /\ map' = map
      /\ call' = <<"get", k, IF Found(map, k) THEN n[a].value ELSE NULL>>
  BY Numbers DEF Inv, Sound, Shape, get_map
<1>2. /\ DOMAIN C = Names(n)
      /\ \A p \in Pairs(n) : p[1] \in Names(n) /\ C[p[1]] = p[2]
  BY <1>1, PairsOfContents
<1>3. (Found(map, k) <=> k \in Names(n)) /\ (Found(map, k) <=> n[a].key = k) /\ a \in DOMAIN n
  BY <1>1, FoundIsIn, WalkStops DEF Found
<1>4. ASSUME Found(map, k) PROVE C[k] = n[a].value
  <2>1. <<k, n[a].value>> \in Pairs(n)
    <3>1. a \in Used(n) /\ n[a].key = k
      BY <1>1, <1>3, <1>4 DEF Used
    <3> HIDE DEF a, n
    <3>2. QED BY <3>1 DEF Pairs
  <2>2. <<k, n[a].value>>[1] = k /\ <<k, n[a].value>>[2] = n[a].value
    OBVIOUS
  <2> HIDE DEF C, n, a
  <2>3. QED BY <1>2, <2>1, <2>2
<1>5. Contents = C /\ Contents' = C
  BY <1>1, ContentsIs
<1> HIDE DEF C, n, a
<1>6. call' = <<"get", k, IF k \in DOMAIN C THEN C[k] ELSE NULL>>
  BY <1>1, <1>2, <1>3, <1>4
<1>7. QED BY <1>1, <1>5, <1>6 DEF Labels!Get

\* map_iter_next.
LEMMA IterateRefines == ASSUME Inv, map_iter_next PROVE Labels!Iterate
<1> DEFINE n == map.nodes
           C == ContentsOf(n)
<1>1. /\ map' = map /\ map.capacity > 0
      /\ \/ call' = <<"next", NULL, 0>>
         \/ \E p \in Pairs(n) : call' = <<"next", p[1], p[2]>>
  BY MapIterNext
<1>2. /\ DOMAIN C = Names(n)
      /\ \A p \in Pairs(n) : p[1] \in Names(n) /\ C[p[1]] = p[2]
  BY PairsOfContents DEF Inv, Sound
<1>3. Contents = C /\ Contents' = C
  BY <1>1, ContentsIs
<1> HIDE DEF C, n
<1>4. \/ call' = <<"next", NULL, 0>>
      \/ \E k \in DOMAIN C : call' = <<"next", k, C[k]>>
  BY <1>1, <1>2
<1>5. QED BY <1>1, <1>3, <1>4 DEF Labels!Iterate

\* The label map is a partial function from names to integers: a call changes what
\* it says it changes, returns what is there, and the iterator returns only entries
\* and never leaves a list.
THEOREM IsPartialFunction == Spec => IsNameMap
<1>1. Init => Labels!Init
  <2> SUFFICES ASSUME Init PROVE Labels!Init
    OBVIOUS
  <2>1. /\ map.capacity = DEFAULT_MAP_CAPACITY /\ DEFAULT_MAP_CAPACITY > 0
        /\ Shape(map.capacity, map.nodes) /\ Pairs(map.nodes) = {}
        /\ call = <<"new">>
    BY CapacityAssumption, EmptyMap DEF Init, Sound
  <2>2. Contents = <<>>
    BY <2>1, NoContents, ContentsIs
  <2>3. QED BY <2>1, <2>2 DEF Labels!Init
<1>2. Inv /\ [Next]_vars => [Labels!Next]_(Labels!vars)
  <2> SUFFICES ASSUME Inv, [Next]_vars PROVE [Labels!Next]_(Labels!vars)
    OBVIOUS
  <2>1. ASSUME NEW k \in Key, get_map(k) PROVE Labels!Next
    BY <2>1, GetRefines DEF Labels!Next
  <2>2. ASSUME NEW k \in Key, remove_map(k) PROVE Labels!Next
    BY <2>2, RemoveRefines DEF Labels!Next
  <2>3. ASSUME NEW k \in Key, NEW v \in Value, insert_map(k, v) PROVE Labels!Next
    BY <2>3, InsertRefines DEF Labels!Next
  <2>4. CASE clear_map
    <3>1. /\ map'.capacity = DEFAULT_MAP_CAPACITY /\ DEFAULT_MAP_CAPACITY > 0
          /\ Shape(map'.capacity, map'.nodes) /\ Pairs(map'.nodes) = {}
          /\ call' = <<"clear">>
      BY <2>4, CapacityAssumption, EmptyMap DEF clear_map, Sound
    <3>2. Contents' = <<>>
      BY <3>1, NoContents, ContentsIs
    <3>3. Labels!Clear
      BY <3>1, <3>2 DEF Labels!Clear
    <3>4. QED BY <3>3 DEF Labels!Next
  <2>5. CASE free_map
    <3>1. 0 \in 0 .. MaxCapacity /\ 0 % 4 = 0
      BY Numbers
    <3>2. /\ map'.capacity = 0 /\ Shape(map'.capacity, map'.nodes) /\ Pairs(map'.nodes) = {}
          /\ call' = <<"free">>
      BY <2>5, <3>1, EmptyMap DEF free_map, Sound
    <3>3. Contents' = <<>>
      BY <3>2, NoContents, ContentsIs
    <3>4. Labels!Free
      BY <3>2, <3>3 DEF Labels!Free
    <3>5. QED BY <3>4 DEF Labels!Next
  <2>6. CASE iter_from_map
    <3>1. map' = map /\ call' = call
      BY <2>6 DEF iter_from_map
    <3>2. Contents' = Contents
      BY <3>1, ContentsIs
    <3>3. QED BY <3>1, <3>2 DEF Labels!vars
  <2>7. CASE map_iter_next
    BY <2>7, IterateRefines DEF Labels!Next
  <2>8. CASE UNCHANGED vars
    <3>1. map' = map /\ call' = call
      BY <2>8 DEF vars
    <3>2. Contents' = Contents
      BY <3>1, ContentsIs
    <3>3. QED BY <3>1, <3>2 DEF Labels!vars
  <2>9. QED BY <2>1, <2>2, <2>3, <2>4, <2>5, <2>6, <2>7, <2>8 DEF Next
<1>3. QED BY <1>1, <1>2, Invariance, PTL DEF Spec, IsNameMap, Labels!Spec
=============================================================================
