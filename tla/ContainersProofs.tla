---------------------------- MODULE ContainersProofs ----------------------------
(***************************************************************************)
(* The containers do what a sequence would, for blocks of every size.      *)
(***************************************************************************)
EXTENDS Containers, Loops, SequenceTheorems

(***************************************************************************)
(* The structures.  len may be past the capacity within an operation; it   *)
(* never is between two of them, and then the structure is sound.          *)
(***************************************************************************)
Cell      == Elem \cup {NULL, Junk}
Blocks    == UNION {[0 .. n - 1 -> Cell] : n \in Nat}
Structure == {l \in [len : Nat, capacity : Nat, null : BOOLEAN, ptr : Blocks] :
                /\ l.ptr \in [0 .. l.capacity - 1 -> Cell]
                /\ l.null => l.capacity = 0}
Sound(l)  == l \in Structure /\ l.len <= l.capacity

\* A structure from its four fields.
LEMMA StructureOf ==
  ASSUME NEW len \in Nat, NEW capacity \in Nat, NEW null \in BOOLEAN,
         NEW ptr \in [0 .. capacity - 1 -> Cell], null => capacity = 0
  PROVE  [len |-> len, capacity |-> capacity, null |-> null, ptr |-> ptr] \in Structure
  BY DEF Structure, Blocks

\* ... and back.
LEMMA Fields ==
  ASSUME NEW l \in Structure
  PROVE  /\ l.len \in Nat /\ l.capacity \in Nat /\ l.null \in BOOLEAN
         /\ l.ptr \in [0 .. l.capacity - 1 -> Cell]
         /\ DOMAIN l.ptr = 0 .. l.capacity - 1
         /\ l.null => l.capacity = 0
         /\ l = [len |-> l.len, capacity |-> l.capacity, null |-> l.null, ptr |-> l.ptr]
  BY DEF Structure

\* A structure whose len has been set.
LEMMA WithLen ==
  ASSUME NEW l \in Structure, NEW n \in Nat
  PROVE  LET m == [l EXCEPT !.len = n]
         IN /\ m \in Structure /\ m.len = n /\ m.capacity = l.capacity
            /\ m.null = l.null /\ m.ptr = l.ptr
  BY DEF Structure

\* A structure whose ptr has been set.
LEMMA WithPtr ==
  ASSUME NEW l \in Structure, NEW p \in [0 .. l.capacity - 1 -> Cell]
  PROVE  LET m == [l EXCEPT !.ptr = p]
         IN /\ m \in Structure /\ m.len = l.len /\ m.capacity = l.capacity
            /\ m.null = l.null /\ m.ptr = p
  BY DEF Structure, Blocks

\* Writing a cell.
LEMMA PutCell ==
  ASSUME NEW l \in Structure, NEW i, NEW e \in Cell
  PROVE  /\ Put(l, i, e) \in Structure
         /\ Put(l, i, e).len = l.len /\ Put(l, i, e).capacity = l.capacity
         /\ Put(l, i, e).null = l.null
         /\ \A j \in 0 .. l.capacity - 1 : Put(l, i, e).ptr[j] = IF j = i THEN e ELSE l.ptr[j]
<1> DEFINE p == [l.ptr EXCEPT ![i] = e]
<1>1. Put(l, i, e) = [l EXCEPT !.ptr = p]
  BY DEF Put
<1>2. p \in [0 .. l.capacity - 1 -> Cell]
  BY Fields
<1>3. \A j \in 0 .. l.capacity - 1 : p[j] = IF j = i THEN e ELSE l.ptr[j]
  BY Fields
<1> HIDE DEF p
<1>4. QED BY <1>1, <1>2, <1>3, WithPtr

\* realloc keeps what fits.
LEMMA ReallocKeeps ==
  ASSUME NEW l \in Structure, NEW n \in Nat
  PROVE  LET m == realloc(l, n)
         IN /\ m \in Structure /\ m.len = l.len /\ m.capacity = n
            /\ m.null => n = 0
            /\ \A j \in 0 .. n - 1 : j < l.capacity => m.ptr[j] = l.ptr[j]
<1> DEFINE p == [i \in 0 .. n - 1 |-> IF i < l.capacity THEN l.ptr[i] ELSE Junk]
           m == realloc(l, n)
<1>1. p \in [0 .. n - 1 -> Cell]
  BY Fields DEF Cell
<1>2. /\ m.len = l.len /\ m.capacity = n /\ m.ptr = p
      /\ m.null => n = 0
  BY DEF realloc, Structure
<1>3. m \in [len : Nat, capacity : Nat, null : BOOLEAN, ptr : Blocks]
  <2>1. p \in Blocks
    BY <1>1 DEF Blocks
  <2> DEFINE null == n = 0 /\ ~l.null
  <2>2. null \in BOOLEAN
    OBVIOUS
  <2>3. m = [l EXCEPT !.capacity = n, !.null = null, !.ptr = p]
    BY DEF realloc
  <2> HIDE DEF p, null, m
  <2>4. QED BY <2>1, <2>2, <2>3 DEF Structure
<1>4. \A j \in 0 .. n - 1 : j < l.capacity => p[j] = l.ptr[j]
  OBVIOUS
<1> HIDE DEF p, m
<1>5. m \in Structure
  BY <1>1, <1>2, <1>3 DEF Structure
<1>6. QED BY <1>2, <1>4, <1>5 DEF m

\* After grow there is a cell to push to.
LEMMA GrowMakesRoom ==
  ASSUME NEW l \in Structure, l.len <= l.capacity + 1
  PROVE  /\ grow(l) \in Structure /\ grow(l).len = l.len
         /\ l.len < grow(l).capacity /\ l.capacity <= grow(l).capacity
         /\ grow(l).null => l.null
         /\ \A j \in 0 .. l.capacity - 1 : grow(l).ptr[j] = l.ptr[j]
<1>1. l.len \in Nat /\ l.capacity \in Nat
  BY Fields
<1>2. CASE l.len < l.capacity
  BY <1>1, <1>2 DEF grow
<1>3. CASE l.len >= l.capacity
  <2>1. grow(l) = realloc(l, (l.capacity + 1) * 2)
    BY <1>3 DEF grow
  <2>2. (l.capacity + 1) * 2 \in Nat /\ (l.capacity + 1) * 2 > l.len /\ (l.capacity + 1) * 2 # 0
    BY <1>1
  <2>3. \A j \in 0 .. l.capacity - 1 : j \in 0 .. (l.capacity + 1) * 2 - 1 /\ j < l.capacity
    BY <1>1
  <2> DEFINE n == (l.capacity + 1) * 2
  <2> HIDE DEF n
  <2>4. LET m == realloc(l, n)
        IN /\ m \in Structure /\ m.len = l.len /\ m.capacity = n
           /\ m.null => n = 0
           /\ \A j \in 0 .. n - 1 : j < l.capacity => m.ptr[j] = l.ptr[j]
    BY <2>2, ReallocKeeps DEF n
  <2>5. grow(l) = realloc(l, n) /\ n > l.len /\ n # 0 /\ n >= l.capacity
    BY <1>1, <2>1, <2>2 DEF n
  <2>6. \A j \in 0 .. l.capacity - 1 : j \in 0 .. n - 1 /\ j < l.capacity
    BY <2>3 DEF n
  <2>7. QED BY <2>4, <2>5, <2>6
<1>4. QED BY <1>1, <1>2, <1>3

\* What memmove has left.
LEMMA MoveCells ==
  ASSUME NEW l \in Structure, NEW dst \in Nat, NEW src \in Nat, NEW n \in Int
  PROVE  LET m == Move(l, dst, src, n)
         IN /\ m \in Structure /\ m.len = l.len /\ m.capacity = l.capacity /\ m.null = l.null
            /\ \A j \in 0 .. l.capacity - 1 :
                 /\ j \notin dst .. dst + n - 1 => m.ptr[j] = l.ptr[j]
                 /\ j \in dst .. dst + n - 1 /\ j - dst + src < l.capacity
                      => m.ptr[j] = l.ptr[j - dst + src]
<1> DEFINE p == [i \in DOMAIN l.ptr |->
                   IF i \notin dst .. dst + n - 1     THEN l.ptr[i]
                   ELSE IF i - dst + src < l.capacity THEN l.ptr[i - dst + src]
                   ELSE Junk]
<1>1. Move(l, dst, src, n) = [l EXCEPT !.ptr = p]
  BY DEF Move
<1>2. p \in [0 .. l.capacity - 1 -> Cell]
  BY Fields, SMTT(30) DEF Cell
<1>3. \A j \in 0 .. l.capacity - 1 :
        /\ j \notin dst .. dst + n - 1 => p[j] = l.ptr[j]
        /\ j \in dst .. dst + n - 1 /\ j - dst + src < l.capacity => p[j] = l.ptr[j - dst + src]
  BY Fields
<1> HIDE DEF p
<1>4. QED BY <1>1, <1>2, <1>3, WithPtr

\* What may be left of a memcpy over cells that overlap: those before are as they were.
LEMMA OverlappingCells ==
  ASSUME NEW l \in Structure, NEW dst \in Nat, NEW n \in Nat, n > 1,
         NEW m \in memcpy(l, dst, dst + 1, n)
  PROVE  /\ m \in Structure /\ m.len = l.len /\ m.capacity = l.capacity
         /\ \A j \in 0 .. l.capacity - 1 : j < dst => m.ptr[j] = l.ptr[j]
<1> DEFINE to    == dst .. dst + n - 1
           among == {l.ptr[i] : i \in (dst .. dst + 1 + n - 1) \cap DOMAIN l.ptr} \cup {Junk}
           p(f)  == [i \in DOMAIN l.ptr |-> IF i \in to THEN f[i] ELSE l.ptr[i]]
<1>1. dst + 1 \in to
  OBVIOUS
<1>2. memcpy(l, dst, dst + 1, n) = {[l EXCEPT !.ptr = p(f)] : f \in [to -> among]}
  BY <1>1 DEF memcpy
<1>3. PICK f \in [to -> among] : m = [l EXCEPT !.ptr = p(f)]
  BY <1>2
<1>4. among \subseteq Cell
  BY Fields DEF Cell
<1> HIDE DEF among
<1>5. p(f) \in [0 .. l.capacity - 1 -> Cell]
  <2>1. DOMAIN l.ptr = 0 .. l.capacity - 1 /\ \A i \in DOMAIN l.ptr : l.ptr[i] \in Cell
    BY Fields
  <2>2. \A i \in DOMAIN l.ptr : (IF i \in to THEN f[i] ELSE l.ptr[i]) \in Cell
    <3> HIDE DEF to
    <3>1. QED BY <1>4, <2>1
  <2> HIDE DEF to
  <2>3. QED BY <2>1, <2>2
<1>6. \A j \in 0 .. l.capacity - 1 : j < dst => p(f)[j] = l.ptr[j]
  BY Fields
<1> DEFINE q == p(f)
<1>7. m = [l EXCEPT !.ptr = q] /\ q \in [0 .. l.capacity - 1 -> Cell]
      /\ \A j \in 0 .. l.capacity - 1 : j < dst => q[j] = l.ptr[j]
  BY <1>3, <1>5, <1>6
<1> HIDE DEF q
<1>8. QED BY <1>7, WithPtr

\* What memcpy of a sequence has left.
LEMMA CopyCells ==
  ASSUME NEW l \in Structure, NEW dst \in Nat, NEW s \in Seq(Elem)
  PROVE  LET m == Copy(l, dst, s)
         IN /\ m \in Structure /\ m.len = l.len /\ m.capacity = l.capacity /\ m.null = l.null
            /\ \A j \in 0 .. l.capacity - 1 :
                 m.ptr[j] = IF j \in dst .. dst + Len(s) - 1 THEN s[j - dst + 1] ELSE l.ptr[j]
<1> DEFINE p == [i \in DOMAIN l.ptr |->
                   IF i \in dst .. dst + Len(s) - 1 THEN s[i - dst + 1] ELSE l.ptr[i]]
<1>1. Copy(l, dst, s) = [l EXCEPT !.ptr = p]
  BY DEF Copy
<1>2. p \in [0 .. l.capacity - 1 -> Cell]
  BY Fields DEF Cell
<1>3. \A j \in 0 .. l.capacity - 1 :
        p[j] = IF j \in dst .. dst + Len(s) - 1 THEN s[j - dst + 1] ELSE l.ptr[j]
  BY Fields
<1> HIDE DEF p
<1>4. QED BY <1>1, <1>2, <1>3, WithPtr

-----------------------------------------------------------------------------
(***************************************************************************)
(* The sequence that a structure stands for, before and after: l and m are *)
(* the two structures.                                                     *)
(***************************************************************************)
Same(l, m, n) == \A j \in 0 .. n - 1 : m.ptr[j] = l.ptr[j]

\* As many elements as len says, in the order of the cells.
LEMMA ItemsOf ==
  ASSUME NEW l, Sound(l)
  PROVE  /\ Items(l) \in Seq(Cell) /\ Len(Items(l)) = l.len
         /\ \A k \in 1 .. l.len : Items(l)[k] = l.ptr[k - 1]
<1>1. l.len \in Nat /\ l.capacity \in Nat
  BY Fields DEF Sound
<1>2. \A k \in 1 .. l.len : l.ptr[k - 1] \in Cell
  BY <1>1, Fields DEF Sound
<1> DEFINE n == l.len
           s == Items(l)
<1>3. s \in [1 .. n -> Cell] /\ \A k \in 1 .. n : s[k] = l.ptr[k - 1]
  BY <1>2 DEF Items
<1> HIDE DEF n, s
<1>4. s \in Seq(Cell) /\ Len(s) = n
  BY <1>1, <1>3, SeqDef DEF n
<1>5. QED BY <1>3, <1>4 DEF n, s

\* A sequence that agrees with the cells is the one.
LEMMA ItemsAre ==
  ASSUME NEW m, Sound(m), NEW s \in Seq(Cell), Len(s) = m.len,
         \A k \in 1 .. m.len : s[k] = m.ptr[k - 1]
  PROVE  Items(m) = s
<1>1. m.len \in Nat
  BY Fields DEF Sound
<1>2. /\ Items(m) \in Seq(Cell) /\ Len(Items(m)) = m.len
      /\ \A k \in 1 .. m.len : Items(m)[k] = m.ptr[k - 1]
  BY ItemsOf
<1>3. QED BY <1>1, <1>2, SeqEqual

\* The first n are left.
LEMMA ItemsCut ==
  ASSUME NEW l, Sound(l), NEW m, Sound(m), m.len <= l.len, Same(l, m, m.len)
  PROVE  Items(m) = SubSeq(Items(l), 1, m.len)
<1> DEFINE s == Items(l)
<1>1. /\ s \in Seq(Cell) /\ Len(s) = l.len
      /\ \A k \in 1 .. l.len : s[k] = l.ptr[k - 1]
  BY ItemsOf
<1> HIDE DEF s
<1>2. m.len \in Nat /\ l.len \in Nat
  BY Fields DEF Sound
<1>3. \A k \in 1 .. m.len : s[k] = m.ptr[k - 1] /\ s[k] \in Cell
  <2>1. \A k \in 1 .. m.len : k \in 1 .. l.len /\ k - 1 \in 0 .. m.len - 1
    BY <1>2
  <2>2. QED BY <1>1, <2>1, ElementOfSeq DEF Same
<1> DEFINE t == SubSeq(s, 1, m.len)
<1>4. /\ t \in Seq(Cell) /\ Len(t) = m.len
      /\ \A k \in 1 .. m.len : t[k] = s[k]
  <2>1. 1 \in Int /\ m.len \in Int
    BY <1>2
  <2>2. /\ t \in Seq(Cell) /\ Len(t) = IF 1 <= m.len THEN m.len - 1 + 1 ELSE 0
        /\ \A k \in 1 .. m.len - 1 + 1 : t[k] = s[1 + k - 1]
    BY <1>3, <2>1, SubSeqProperties
  <2> HIDE DEF t
  <2>3. QED BY <1>2, <2>2
<1> HIDE DEF t
<1>5. Items(m) = t
  BY <1>3, <1>4, ItemsAre
<1>6. QED BY <1>5 DEF s, t

\* Nothing has changed.
LEMMA ItemsStay ==
  ASSUME NEW l, Sound(l), NEW m, Sound(m), m.len = l.len, Same(l, m, l.len)
  PROVE  Items(m) = Items(l)
<1>1. m.len \in Nat /\ l.len \in Nat
  BY Fields DEF Sound
<1>2. Items(m) = SubSeq(Items(l), 1, m.len)
  BY <1>1, ItemsCut
<1>3. QED BY <1>2, ItemsOf, SubSeqFull

\* One more at the end.
LEMMA ItemsPushed ==
  ASSUME NEW l, Sound(l), NEW m, Sound(m), NEW e \in Cell,
         m.len = l.len + 1, m.ptr[l.len] = e, Same(l, m, l.len)
  PROVE  Items(m) = Append(Items(l), e)
<1> DEFINE s == Items(l)
           t == Append(s, e)
<1>1. /\ s \in Seq(Cell) /\ Len(s) = l.len
      /\ \A k \in 1 .. l.len : s[k] = l.ptr[k - 1]
  BY ItemsOf
<1>2. m.len \in Nat /\ l.len \in Nat
  BY Fields DEF Sound
<1> HIDE DEF s
<1>3. /\ t \in Seq(Cell) /\ Len(t) = Len(s) + 1 /\ t[Len(s) + 1] = e
      /\ \A k \in 1 .. Len(s) : t[k] = s[k]
  BY <1>1, AppendProperties
<1> HIDE DEF t
<1>4. ASSUME NEW k \in 1 .. m.len PROVE t[k] = m.ptr[k - 1]
  <2>1. CASE k = l.len + 1
    BY <1>1, <1>2, <1>3, <2>1
  <2>2. CASE k \in 1 .. l.len
    <3>1. k - 1 \in 0 .. l.len - 1
      BY <1>2, <2>2
    <3>2. QED BY <1>1, <1>3, <2>2, <3>1 DEF Same
  <2>3. QED BY <1>2, <2>1, <2>2
<1>5. QED BY <1>1, <1>3, <1>4, ItemsAre, ZenonT(60) DEF s, t

\* One is another.
LEMMA ItemsSet ==
  ASSUME NEW l, Sound(l), NEW m, Sound(m), NEW i \in 0 .. l.len - 1, NEW e \in Cell,
         m.len = l.len, \A j \in 0 .. l.len - 1 : m.ptr[j] = IF j = i THEN e ELSE l.ptr[j]
  PROVE  Items(m) = [Items(l) EXCEPT ![i + 1] = e]
<1> DEFINE s == Items(l)
           t == [s EXCEPT ![i + 1] = e]
<1>1. /\ s \in Seq(Cell) /\ Len(s) = l.len
      /\ \A k \in 1 .. l.len : s[k] = l.ptr[k - 1]
  BY ItemsOf
<1>2. m.len \in Nat /\ l.len \in Nat
  BY Fields DEF Sound
<1> HIDE DEF s
<1>3. /\ t \in Seq(Cell) /\ Len(t) = Len(s)
      /\ \A k \in 1 .. Len(s) : t[k] = IF k = i + 1 THEN e ELSE s[k]
  <2>1. i + 1 \in 1 .. Len(s)
    BY <1>1, <1>2
  <2>2. QED BY <1>1, <2>1, ExceptSeq
<1> HIDE DEF t
<1>4. ASSUME NEW k \in 1 .. m.len PROVE t[k] = m.ptr[k - 1]
  <2>1. k - 1 \in 0 .. l.len - 1 /\ (k = i + 1 <=> k - 1 = i)
    BY <1>2
  <2>2. QED BY <1>1, <1>3, <2>1
<1>5. QED BY <1>1, <1>3, <1>4, ItemsAre DEF s, t

\* One more at the index, those from there on one further.
LEMMA ItemsInserted ==
  ASSUME NEW l, Sound(l), NEW m, Sound(m), NEW i \in 0 .. l.len, NEW e \in Cell,
         m.len = l.len + 1,
         \A j \in 0 .. l.len : m.ptr[j] = IF j < i THEN l.ptr[j] ELSE IF j = i THEN e ELSE l.ptr[j - 1]
  PROVE  Items(m) = InsertAt(Items(l), i + 1, e)
<1> DEFINE s == Items(l)
           a == SubSeq(s, 1, i)
           b == SubSeq(s, i + 1, l.len)
<1>1. /\ s \in Seq(Cell) /\ Len(s) = l.len
      /\ \A k \in 1 .. l.len : s[k] = l.ptr[k - 1]
  BY ItemsOf
<1>2. m.len \in Nat /\ l.len \in Nat /\ i \in Nat
  BY Fields DEF Sound
<1>3. InsertAt(s, i + 1, e) = (a \o <<e>>) \o b
  <2>1. (i + 1) - 1 = i
    BY <1>2
  <2>2. QED BY <1>1, <2>1 DEF InsertAt
<1> HIDE DEF s
<1>4. \A k \in 1 .. l.len : s[k] \in Cell
  BY <1>1, ElementOfSeq
<1>5. a \in Seq(Cell) /\ Len(a) = i /\ \A k \in 1 .. i : a[k] = s[k]
  <2>1. \A k \in 1 .. i : s[k] \in Cell
    BY <1>2, <1>4
  <2>2. /\ a \in Seq(Cell) /\ Len(a) = IF 1 <= i THEN i - 1 + 1 ELSE 0
        /\ \A k \in 1 .. i - 1 + 1 : a[k] = s[1 + k - 1]
    BY <1>2, <2>1, SubSeqProperties
  <2> HIDE DEF a
  <2>3. QED BY <1>2, <2>2
<1>6. /\ b \in Seq(Cell) /\ Len(b) = l.len - i
      /\ \A k \in 1 .. l.len - i : b[k] = s[i + k]
  <2>1. \A k \in i + 1 .. l.len : s[k] \in Cell
    BY <1>2, <1>4
  <2>2. /\ b \in Seq(Cell) /\ Len(b) = IF i + 1 <= l.len THEN l.len - (i + 1) + 1 ELSE 0
        /\ \A k \in 1 .. l.len - (i + 1) + 1 : b[k] = s[(i + 1) + k - 1]
    BY <1>2, <2>1, SubSeqProperties
  <2> HIDE DEF b
  <2>3. \A k \in 1 .. l.len - i : k \in 1 .. l.len - (i + 1) + 1 /\ (i + 1) + k - 1 = i + k
    BY <1>2
  <2>4. QED BY <1>2, <2>2, <2>3
<1> HIDE DEF a, b
<1> DEFINE c == a \o <<e>>
           t == c \o b
<1>7. c \in Seq(Cell) /\ Len(c) = i + 1 /\ c[i + 1] = e /\ \A k \in 1 .. i : c[k] = s[k]
  <2>1. <<e>> \in Seq(Cell) /\ Len(<<e>>) = 1 /\ <<e>>[1] = e
    OBVIOUS
  <2> DEFINE u == <<e>>
  <2> HIDE DEF u
  <2>2. /\ a \o u \in Seq(Cell) /\ Len(a \o u) = Len(a) + Len(u)
        /\ \A k \in 1 .. Len(a) + Len(u) : (a \o u)[k] = IF k <= Len(a) THEN a[k] ELSE u[k - Len(a)]
    BY <1>5, <2>1, ConcatProperties DEF u
  <2>3. Len(u) = 1 /\ u[1] = e /\ c = a \o u
    BY DEF u
  <2> HIDE DEF c
  <2>4. i + 1 \in 1 .. i + 1 /\ ~(i + 1 <= i) /\ (i + 1) - i = 1 /\ \A k \in 1 .. i : k \in 1 .. i + 1 /\ k <= i
    BY <1>2
  <2>5. QED BY <1>5, <2>2, <2>3, <2>4
<1> HIDE DEF c
<1>8. /\ t \in Seq(Cell) /\ Len(t) = l.len + 1
      /\ \A k \in 1 .. l.len + 1 : t[k] = IF k <= i + 1 THEN c[k] ELSE b[k - (i + 1)]
  <2>1. /\ t \in Seq(Cell) /\ Len(t) = Len(c) + Len(b)
        /\ \A k \in 1 .. Len(c) + Len(b) : t[k] = IF k <= Len(c) THEN c[k] ELSE b[k - Len(c)]
    BY <1>6, <1>7, ConcatProperties
  <2>2. Len(c) + Len(b) = l.len + 1
    BY <1>2, <1>6, <1>7
  <2> HIDE DEF t
  <2>3. QED BY <1>7, <2>1, <2>2
<1> HIDE DEF t
<1>9. ASSUME NEW k \in 1 .. m.len PROVE t[k] = m.ptr[k - 1]
  <2>1. CASE k <= i
    <3>1. k \in 1 .. i /\ k - 1 \in 0 .. l.len /\ k - 1 < i /\ k \in 1 .. l.len /\ k <= i + 1
          /\ k \in 1 .. l.len + 1
      BY <1>2, <2>1
    <3>2. QED BY <1>1, <1>7, <1>8, <3>1
  <2>2. CASE k = i + 1
    <3>1. k - 1 = i /\ i \in 0 .. l.len /\ ~(i < i) /\ k <= i + 1 /\ k \in 1 .. l.len + 1
      BY <1>2, <2>2
    <3>2. QED BY <1>7, <1>8, <2>2, <3>1
  <2>3. CASE k > i + 1
    <3>1. /\ k \in 1 .. l.len + 1 /\ ~(k <= i + 1) /\ k - (i + 1) \in 1 .. l.len - i
          /\ i + (k - (i + 1)) = k - 1 /\ k - 1 \in 1 .. l.len /\ k - 1 \in 0 .. l.len
          /\ ~(k - 1 < i) /\ k - 1 # i
      BY <1>2, <2>3
    <3>2. QED BY <1>1, <1>6, <1>8, <3>1
  <2>4. QED BY <1>2, <2>1, <2>2, <2>3
<1>10. Items(m) = t
  BY <1>8, <1>9, ItemsAre
<1>11. QED BY <1>3, <1>10 DEF s, c, t

\* One less, those behind it one nearer.
LEMMA ItemsRemoved ==
  ASSUME NEW l, Sound(l), NEW m, Sound(m), NEW i \in 0 .. l.len - 1,
         m.len = l.len - 1,
         \A j \in 0 .. l.len - 2 : m.ptr[j] = IF j < i THEN l.ptr[j] ELSE l.ptr[j + 1]
  PROVE  Items(m) = RemoveAt(Items(l), i + 1)
<1> DEFINE s == Items(l)
           a == SubSeq(s, 1, i)
           b == SubSeq(s, i + 2, l.len)
           t == a \o b
<1>1. /\ s \in Seq(Cell) /\ Len(s) = l.len
      /\ \A k \in 1 .. l.len : s[k] = l.ptr[k - 1]
  BY ItemsOf
<1>2. m.len \in Nat /\ l.len \in Nat /\ i \in Nat
  BY Fields DEF Sound
<1>3. RemoveAt(s, i + 1) = t
  <2>1. (i + 1) - 1 = i /\ (i + 1) + 1 = i + 2
    BY <1>2
  <2>2. QED BY <1>1, <2>1 DEF RemoveAt
<1> HIDE DEF s
<1>4. \A k \in 1 .. l.len : s[k] \in Cell
  BY <1>1, ElementOfSeq
<1>5. a \in Seq(Cell) /\ Len(a) = i /\ \A k \in 1 .. i : a[k] = s[k]
  <2>1. \A k \in 1 .. i : s[k] \in Cell
    BY <1>2, <1>4
  <2>2. /\ a \in Seq(Cell) /\ Len(a) = IF 1 <= i THEN i - 1 + 1 ELSE 0
        /\ \A k \in 1 .. i - 1 + 1 : a[k] = s[1 + k - 1]
    BY <1>2, <2>1, SubSeqProperties
  <2> HIDE DEF a
  <2>3. QED BY <1>2, <2>2
<1>6. /\ b \in Seq(Cell) /\ Len(b) = l.len - i - 1
      /\ \A k \in 1 .. l.len - i - 1 : b[k] = s[i + k + 1]
  <2>1. \A k \in i + 2 .. l.len : s[k] \in Cell
    BY <1>2, <1>4
  <2>2. /\ b \in Seq(Cell) /\ Len(b) = IF i + 2 <= l.len THEN l.len - (i + 2) + 1 ELSE 0
        /\ \A k \in 1 .. l.len - (i + 2) + 1 : b[k] = s[(i + 2) + k - 1]
    BY <1>2, <2>1, SubSeqProperties
  <2> HIDE DEF b
  <2>3. \A k \in 1 .. l.len - i - 1 : k \in 1 .. l.len - (i + 2) + 1 /\ (i + 2) + k - 1 = i + k + 1
    BY <1>2
  <2>4. QED BY <1>2, <2>2, <2>3
<1> HIDE DEF a, b
<1>7. /\ t \in Seq(Cell) /\ Len(t) = l.len - 1
      /\ \A k \in 1 .. l.len - 1 : t[k] = IF k <= i THEN a[k] ELSE b[k - i]
  <2>1. /\ t \in Seq(Cell) /\ Len(t) = Len(a) + Len(b)
        /\ \A k \in 1 .. Len(a) + Len(b) : t[k] = IF k <= Len(a) THEN a[k] ELSE b[k - Len(a)]
    BY <1>5, <1>6, ConcatProperties, ZenonT(60)
  <2>2. Len(a) + Len(b) = l.len - 1
    BY <1>2, <1>5, <1>6
  <2> HIDE DEF t
  <2>3. QED BY <1>5, <2>1, <2>2
<1> HIDE DEF t
<1>8. ASSUME NEW k \in 1 .. m.len PROVE t[k] = m.ptr[k - 1]
  <2>1. CASE k <= i
    <3>1. /\ k \in 1 .. i /\ k \in 1 .. l.len - 1 /\ k - 1 \in 0 .. l.len - 2
          /\ k - 1 < i /\ k \in 1 .. l.len
      BY <1>2, <2>1
    <3>2. QED BY <1>1, <1>5, <1>7, <3>1
  <2>2. CASE k > i
    <3>1. /\ k \in 1 .. l.len - 1 /\ ~(k <= i) /\ k - i \in 1 .. l.len - i - 1
          /\ i + (k - i) + 1 = k + 1 /\ k + 1 \in 1 .. l.len /\ k - 1 \in 0 .. l.len - 2
          /\ ~(k - 1 < i) /\ (k - 1) + 1 = k /\ (k + 1) - 1 = k
      BY <1>2, <2>2
    <3>2. QED BY <1>1, <1>6, <1>7, <3>1
  <2>3. QED BY <1>2, <2>1, <2>2
<1>9. Items(m) = t
  BY <1>7, <1>8, ItemsAre
<1>10. QED BY <1>3, <1>9 DEF s, t

\* A whole sequence at the end.
LEMMA ItemsExtended ==
  ASSUME NEW l, Sound(l), NEW m, Sound(m), NEW s \in Seq(Elem),
         m.len = l.len + Len(s), Same(l, m, l.len),
         \A k \in 1 .. Len(s) : m.ptr[l.len + k - 1] = s[k]
  PROVE  Items(m) = Items(l) \o s
<1> DEFINE r == Items(l)
           t == r \o s
<1>1. /\ r \in Seq(Cell) /\ Len(r) = l.len
      /\ \A k \in 1 .. l.len : r[k] = l.ptr[k - 1]
  BY ItemsOf
<1>2. m.len \in Nat /\ l.len \in Nat /\ Len(s) \in Nat
  BY Fields, LenProperties DEF Sound
<1>3. s \in Seq(Cell)
  BY SeqMonotonic DEF Cell
<1> HIDE DEF r
<1>4. /\ t \in Seq(Cell) /\ Len(t) = Len(r) + Len(s)
      /\ \A k \in 1 .. Len(r) + Len(s) : t[k] = IF k <= Len(r) THEN r[k] ELSE s[k - Len(r)]
  BY <1>1, <1>3, ConcatProperties
<1> HIDE DEF t
<1>5. ASSUME NEW k \in 1 .. m.len PROVE t[k] = m.ptr[k - 1]
  <2>1. CASE k <= l.len
    <3>1. k \in 1 .. l.len /\ k - 1 \in 0 .. l.len - 1 /\ k \in 1 .. l.len + Len(s)
      BY <1>2, <2>1
    <3>2. QED BY <1>1, <1>4, <2>1, <3>1 DEF Same
  <2>2. CASE k > l.len
    <3>1. /\ k \in 1 .. l.len + Len(s) /\ ~(k <= l.len) /\ k - l.len \in 1 .. Len(s)
          /\ l.len + (k - l.len) - 1 = k - 1
      BY <1>2, <2>2
    <3>2. QED BY <1>1, <1>4, <3>1
  <2>3. QED BY <1>2, <2>1, <2>2
<1>6. QED BY <1>1, <1>4, <1>5, ItemsAre, ZenonT(60) DEF r, t

\* All in the opposite order.
LEMMA ItemsReversed ==
  ASSUME NEW l, Sound(l), NEW m, Sound(m), m.len = l.len,
         \A j \in 0 .. l.len - 1 : m.ptr[j] = l.ptr[l.len - 1 - j]
  PROVE  Items(m) = Reverse(Items(l))
<1> DEFINE s == Items(l)
           t == Reverse(s)
<1>1. /\ s \in Seq(Cell) /\ Len(s) = l.len
      /\ \A k \in 1 .. l.len : s[k] = l.ptr[k - 1]
  BY ItemsOf
<1>2. m.len \in Nat /\ l.len \in Nat
  BY Fields DEF Sound
<1> HIDE DEF s
<1>3. t = [k \in 1 .. l.len |-> s[(l.len - k) + 1]]
  BY <1>1 DEF Reverse
<1>4. ASSUME NEW k \in 1 .. l.len
      PROVE  s[(l.len - k) + 1] = m.ptr[k - 1] /\ s[(l.len - k) + 1] \in Cell
  <2>1. /\ (l.len - k) + 1 \in 1 .. l.len /\ ((l.len - k) + 1) - 1 = l.len - 1 - (k - 1)
        /\ k - 1 \in 0 .. l.len - 1
    BY <1>2
  <2>2. QED BY <1>1, <2>1, ElementOfSeq
<1>5. t \in [1 .. l.len -> Cell] /\ \A k \in 1 .. l.len : t[k] = m.ptr[k - 1]
  BY <1>3, <1>4
<1>6. t \in Seq(Cell) /\ Len(t) = l.len
  BY <1>2, <1>5, SeqDef
<1> HIDE DEF t
<1>7. QED BY <1>5, <1>6, ItemsAre DEF s, t

\* A block made for a sequence stands for it.
LEMMA ItemsExact ==
  ASSUME NEW s \in Seq(Cell)
  PROVE  Sound(Exact(s)) /\ Items(Exact(s)) = s
<1> DEFINE n == Len(s)
           p == [i \in 0 .. n - 1 |-> s[i + 1]]
           m == Exact(s)
<1>1. n \in Nat
  BY LenProperties
<1>2. \A i \in 0 .. n - 1 : s[i + 1] \in Cell
  <2>1. \A i \in 0 .. n - 1 : i + 1 \in 1 .. n
    BY <1>1
  <2>2. QED BY <2>1, ElementOfSeq
<1>3. m = [len |-> n, capacity |-> n, null |-> FALSE, ptr |-> p]
  BY DEF Exact
<1>4. p \in [0 .. n - 1 -> Cell] /\ \A k \in 1 .. n : s[k] = p[k - 1]
  BY <1>1, <1>2
<1>5. m.len = n /\ m.capacity = n /\ m.ptr = p
  BY <1>3
<1> HIDE DEF n, p, m
<1>6. Sound(m)
  <2>1. FALSE \in BOOLEAN /\ (FALSE => n = 0)
    OBVIOUS
  <2>2. m \in Structure
    BY <1>1, <1>3, <1>4, <2>1, StructureOf
  <2>3. QED BY <1>1, <1>5, <2>2 DEF Sound
<1>7. Items(m) = s
  BY <1>4, <1>5, <1>6, ItemsAre DEF n
<1>8. QED BY <1>6, <1>7 DEF m

-----------------------------------------------------------------------------
(***************************************************************************)
(* The loops.                                                              *)
(***************************************************************************)
Roomy == {l \in Structure : l.len < l.capacity}

\* push_str, where there is room, leaves room.
LEMMA AppendedChar ==
  ASSUME NEW l \in Roomy, NEW c \in Cell
  PROVE  LET m == Appended(l, c)
         IN /\ m \in Roomy /\ m.len = l.len + 1 /\ m.ptr[l.len] = c
            /\ \A j \in 0 .. l.len - 1 : m.ptr[j] = l.ptr[j]
<1> DEFINE p == Put(l, l.len, c)
           q == [p EXCEPT !.len = l.len + 1]
<1>1. /\ l.len \in Nat /\ l.capacity \in Nat /\ l.len + 1 <= l.capacity
      /\ l \in Structure
  BY Fields DEF Roomy
<1>2. /\ p \in Structure /\ p.len = l.len /\ p.capacity = l.capacity
      /\ \A j \in 0 .. l.capacity - 1 : p.ptr[j] = IF j = l.len THEN c ELSE l.ptr[j]
  BY <1>1, PutCell
<1>3. Appended(l, c) = grow(q)
  BY <1>2 DEF Appended
<1> HIDE DEF p
<1>4. q \in Structure /\ q.len = l.len + 1 /\ q.capacity = l.capacity /\ q.ptr = p.ptr
  <2>1. l.len + 1 \in Nat
    BY <1>1
  <2>2. QED BY <1>2, <2>1, WithLen
<1> HIDE DEF q
<1>5. /\ grow(q) \in Structure /\ grow(q).len = l.len + 1 /\ l.len + 1 < grow(q).capacity
      /\ \A j \in 0 .. l.capacity - 1 : grow(q).ptr[j] = p.ptr[j]
  BY <1>1, <1>4, GrowMakesRoom
<1>6. grow(q).ptr[l.len] = c /\ \A j \in 0 .. l.len - 1 : grow(q).ptr[j] = l.ptr[j]
  <2>1. l.len \in 0 .. l.capacity - 1 /\ \A j \in 0 .. l.len - 1 : j \in 0 .. l.capacity - 1 /\ j # l.len
    BY <1>1
  <2>2. QED BY <1>2, <1>5, <2>1
<1>7. QED BY <1>3, <1>5, <1>6 DEF Roomy

\* The loop of read_file_to_str.
LEMMA AppendedAll ==
  ASSUME NEW l \in Roomy, NEW s, NEW n \in Nat, \A i \in 1 .. n : s[i] \in Cell
  PROVE  LET m == AllAppended(l, s, n)
         IN /\ m \in Roomy /\ m.len = l.len + n
            /\ \A j \in 0 .. l.len - 1 : m.ptr[j] = l.ptr[j]
            /\ \A k \in 1 .. n : m.ptr[l.len + k - 1] = s[k]
<1> DEFINE after[i \in 0 .. n] == IF i = 0 THEN l ELSE Appended(after[i - 1], s[i])
           round == [i \in 1 .. n |-> [m \in Roomy |-> Appended(m, s[i])]]
<1>1. n \in Nat /\ l.len \in Nat /\ \A i \in 1 .. n : s[i] \in Cell
  BY Fields DEF Roomy
<1>2. after = [i \in 0 .. n |-> IF i = 0 THEN l ELSE Appended(after[i - 1], s[i])]
  <2>1. round \in Rounds(n, Roomy)
    BY <1>1, AppendedChar DEF Rounds
  <2>2. PICK g : Runs(g, n, Roomy, l, round)
    <3> HIDE DEF round
    <3>1. QED BY <1>1, <2>1, LoopExists
  <2> USE DEF Runs
  <2>3. \A i \in 1 .. n : g[i - 1] \in Roomy
    BY <1>1, <2>2
  <2>4. \A i \in 1 .. n : g[i] = Appended(g[i - 1], s[i])
    BY <2>2, <2>3
  <2>5. g = [i \in 0 .. n |-> IF i = 0 THEN l ELSE Appended(g[i - 1], s[i])]
    BY <1>1, <2>2, <2>4
  <2>6. QED BY <2>5
<1> HIDE DEF after
<1> DEFINE Done(i) == /\ after[i] \in Roomy /\ after[i].len = l.len + i
                      /\ \A j \in 0 .. l.len - 1 : after[i].ptr[j] = l.ptr[j]
                      /\ \A k \in 1 .. i : after[i].ptr[l.len + k - 1] = s[k]
           T == {i \in 0 .. n : Done(i)}
<1>3. 0 \in T
  <2>1. after[0] = l
    BY <1>1, <1>2
  <2>2. QED BY <1>1, <2>1
<1>4. ASSUME NEW i \in 0 .. n - 1, i \in T PROVE i + 1 \in T
  <2>1. after[i + 1] = Appended(after[i], s[i + 1])
    BY <1>1, <1>2
  <2>2. s[i + 1] \in Cell /\ Done(i)
    BY <1>1, <1>4
  <2> i \in Nat /\ l.len \in Nat
    BY <1>1
  <2>3. /\ after[i + 1] \in Roomy /\ after[i + 1].len = l.len + (i + 1)
        /\ after[i + 1].ptr[l.len + i] = s[i + 1]
        /\ \A j \in 0 .. l.len + i - 1 : after[i + 1].ptr[j] = after[i].ptr[j]
    <3> DEFINE was == after[i]
    <3>1. was \in Roomy /\ was.len = l.len + i
      BY <2>2
    <3> HIDE DEF was
    <3>2. LET m == Appended(was, s[i + 1])
          IN /\ m \in Roomy /\ m.len = was.len + 1 /\ m.ptr[was.len] = s[i + 1]
             /\ \A j \in 0 .. was.len - 1 : m.ptr[j] = was.ptr[j]
      BY <2>2, <3>1, AppendedChar
    <3>3. l.len + i + 1 = l.len + (i + 1)
      OBVIOUS
    <3>4. QED BY <2>1, <3>1, <3>2, <3>3 DEF was
  <2>4. \A j \in 0 .. l.len - 1 : after[i + 1].ptr[j] = l.ptr[j]
    BY <1>1, <2>2, <2>3
  <2>5. ASSUME NEW k \in 1 .. i + 1 PROVE after[i + 1].ptr[l.len + k - 1] = s[k]
    <3>1. CASE k = i + 1
      BY <1>1, <2>2, <2>3, <3>1
    <3>2. CASE k \in 1 .. i
      <4>1. l.len + k - 1 \in 0 .. l.len + i - 1
        BY <1>1, <2>2, <3>2
      <4>2. QED BY <2>2, <2>3, <3>2, <4>1
    <3>3. QED BY <2>2, <3>1, <3>2
  <2>6. Done(i + 1)
    BY <2>3, <2>4, <2>5
  <2> HIDE DEF Done
  <2>7. QED BY <2>2, <2>6
<1>5. Done(n)
  <2>1. \A i \in 0 .. n : i \in T
    <3>1. \A i \in 0 .. n - 1 : i \in T => i + 1 \in T
      BY <1>4
    <3> HIDE DEF T
    <3>2. QED BY <1>1, <1>3, <3>1, UpTo
  <2> HIDE DEF Done
  <2>2. QED BY <1>1, <2>1
<1>6. AllAppended(l, s, n) = after[n]
  BY DEF AllAppended, after
<1>7. QED BY <1>5, <1>6

\* The loop of reverse_cstr.  After i rounds the first and the last i characters
\* have changed places.
LEMMA SwappedAll ==
  ASSUME NEW l \in Structure, l.len <= l.capacity
  PROVE  LET m == Swapped(l)
         IN /\ m \in Structure /\ m.len = l.len /\ m.capacity = l.capacity /\ m.null = l.null
            /\ \A j \in 0 .. l.len - 1 : m.ptr[j] = l.ptr[l.len - 1 - j]
<1> DEFINE last == l.len - 1
           n == l.len \div 2
           Swap(m, i) == Put(Put(m, i - 1, m.ptr[last - (i - 1)]), last - (i - 1), m.ptr[i - 1])
           after[i \in 0 .. n] == IF i = 0 THEN l ELSE Swap(after[i - 1], i)
           S == {m \in Structure : m.len = l.len /\ m.capacity = l.capacity /\ m.null = l.null}
           round == [i \in 1 .. n |-> [m \in S |-> Swap(m, i)]]
<1>1. /\ l.len \in Nat /\ l.capacity \in Nat /\ n \in Nat /\ 2 * n <= l.len /\ l.len <= 2 * n + 1
  BY Fields
<1> HIDE DEF n
<1>2. ASSUME NEW m \in S, NEW i \in 1 .. n
      PROVE  /\ Swap(m, i) \in S
             /\ \A j \in 0 .. l.len - 1 :
                  Swap(m, i).ptr[j] = IF j = i - 1 \/ j = last - (i - 1) THEN m.ptr[last - j]
                                      ELSE m.ptr[j]
  <2> DEFINE a == i - 1
             b == last - (i - 1)
             p == Put(m, a, m.ptr[b])
  <2>1. /\ a \in 0 .. m.capacity - 1 /\ b \in 0 .. m.capacity - 1 /\ a # b
        /\ last - a = b /\ last - b = a /\ m \in Structure
    BY <1>1
  <2>2. m.ptr[a] \in Cell /\ m.ptr[b] \in Cell
    BY <2>1, Fields
  <2> HIDE DEF a, b
  <2>3. /\ p \in Structure /\ p.len = m.len /\ p.capacity = m.capacity /\ p.null = m.null
        /\ \A j \in 0 .. m.capacity - 1 : p.ptr[j] = IF j = a THEN m.ptr[b] ELSE m.ptr[j]
    BY <2>1, <2>2, PutCell
  <2> HIDE DEF p
  <2> DEFINE q == Put(p, b, m.ptr[a])
  <2>4. /\ q \in Structure /\ q.len = p.len /\ q.capacity = p.capacity /\ q.null = p.null
        /\ \A j \in 0 .. p.capacity - 1 : q.ptr[j] = IF j = b THEN m.ptr[a] ELSE p.ptr[j]
    BY <2>1, <2>2, <2>3, PutCell
  <2>5. Swap(m, i) = q
    BY DEF a, b, p
  <2> HIDE DEF q
  <2>6. \A j \in 0 .. l.len - 1 :
          q.ptr[j] = IF j = a \/ j = b THEN m.ptr[last - j] ELSE m.ptr[j]
    <3>1. \A j \in 0 .. l.len - 1 : j \in 0 .. m.capacity - 1
      BY <1>1
    <3>2. QED BY <2>1, <2>3, <2>4, <3>1
  <2>7. q \in S
    BY <2>3, <2>4
  <2>8. QED BY <2>5, <2>6, <2>7 DEF a, b
<1> HIDE DEF Swap
<1>3. after = [i \in 0 .. n |-> IF i = 0 THEN l ELSE Swap(after[i - 1], i)]
  <2>1. round \in Rounds(n, S)
    BY <1>2 DEF Rounds
  <2>2. l \in S
    OBVIOUS
  <2>3. PICK g : Runs(g, n, S, l, round)
    <3> HIDE DEF round, S
    <3>1. QED BY <1>1, <2>1, <2>2, LoopExists
  <2> HIDE DEF S
  <2>4. \A i \in 1 .. n : g[i - 1] \in S
    BY <1>1, <2>3 DEF Runs
  <2>5. \A i \in 1 .. n : g[i] = Swap(g[i - 1], i)
    BY <2>3, <2>4 DEF Runs
  <2>6. g = [i \in 0 .. n |-> IF i = 0 THEN l ELSE Swap(g[i - 1], i)]
    BY <1>1, <2>3, <2>5 DEF Runs
  <2>7. QED BY <2>6
<1> HIDE DEF after
<1> DEFINE Done(i) ==
             /\ after[i] \in S
             /\ \A j \in 0 .. l.len - 1 :
                  after[i].ptr[j] = IF j < i \/ j > last - i THEN l.ptr[last - j] ELSE l.ptr[j]
           T == {i \in 0 .. n : Done(i)}
<1>4. 0 \in T
  <2>1. after[0] = l
    BY <1>1, <1>3
  <2>2. QED BY <1>1, <2>1
<1>5. ASSUME NEW i \in 0 .. n - 1, i \in T PROVE i + 1 \in T
  <2> DEFINE was == after[i]
  <2> i \in Nat /\ i + 1 \in 1 .. n /\ (i + 1) - 1 = i
    BY <1>1
  <2>1. after[i + 1] = Swap(was, i + 1)
    BY <1>1, <1>3
  <2>2. /\ was \in S
        /\ \A j \in 0 .. l.len - 1 :
             was.ptr[j] = IF j < i \/ j > last - i THEN l.ptr[last - j] ELSE l.ptr[j]
    BY <1>5
  <2> HIDE DEF was, S
  <2>3. /\ after[i + 1] \in S
        /\ \A j \in 0 .. l.len - 1 :
             after[i + 1].ptr[j] = IF j = i \/ j = last - i THEN was.ptr[last - j] ELSE was.ptr[j]
    BY <1>2, <2>1, <2>2
  <2>4. ASSUME NEW j \in 0 .. l.len - 1
        PROVE  after[i + 1].ptr[j] = IF j < i + 1 \/ j > last - (i + 1) THEN l.ptr[last - j] ELSE l.ptr[j]
    <3>1. CASE j = i \/ j = last - i
      <4>1. last - j \in 0 .. l.len - 1 /\ ~(last - j < i \/ last - j > last - i)
        BY <1>1, <3>1
      <4>2. was.ptr[last - j] = l.ptr[last - j]
        BY <2>2, <4>1
      <4>3. QED BY <1>1, <2>3, <3>1, <4>2
    <3>2. CASE ~(j = i \/ j = last - i)
      <4>1. (j < i + 1 \/ j > last - (i + 1)) <=> (j < i \/ j > last - i)
        BY <1>1, <3>2
      <4>2. QED BY <2>2, <2>3, <3>2, <4>1
    <3>3. QED BY <3>1, <3>2
  <2>5. Done(i + 1)
    BY <2>3, <2>4
  <2> HIDE DEF Done
  <2>6. QED BY <2>5
<1>6. Done(n)
  <2>1. \A i \in 0 .. n - 1 : i \in T => i + 1 \in T
    BY <1>5
  <2>2. \A i \in 0 .. n : i \in T
    <3> HIDE DEF T
    <3>1. QED BY <1>1, <1>4, <2>1, UpTo
  <2> HIDE DEF Done
  <2>3. QED BY <1>1, <2>2
<1>7. \A j \in 0 .. l.len - 1 : after[n].ptr[j] = l.ptr[last - j]
  <2>1. ASSUME NEW j \in 0 .. l.len - 1 PROVE j < n \/ j > last - n \/ last - j = j
    BY <1>1
  <2> HIDE DEF S
  <2>2. QED BY <1>6, <2>1
<1>8. Swapped(l) = after[n]
  BY DEF Swapped, after, n, Swap
<1>9. QED BY <1>6, <1>7, <1>8

\* push_vec never strays: the block has grown first.
LEMMA PushedCell ==
  ASSUME NEW l \in Structure, l.len <= l.capacity, NEW e \in Cell
  PROVE  LET m == Pushed(l, e)
         IN /\ grow(l).len < grow(l).capacity
            /\ m \in Structure /\ m.len = l.len + 1 /\ m.len <= m.capacity /\ m.ptr[l.len] = e
            /\ \A j \in 0 .. l.len - 1 : m.ptr[j] = l.ptr[j]
<1> DEFINE g == grow(l)
           p == Put(g, g.len, e)
<1>1. l.len \in Nat /\ l.capacity \in Nat
  BY Fields
<1>2. /\ g \in Structure /\ g.len = l.len /\ l.len < g.capacity /\ l.capacity <= g.capacity
      /\ \A j \in 0 .. l.capacity - 1 : g.ptr[j] = l.ptr[j]
  BY <1>1, GrowMakesRoom
<1>3. Pushed(l, e) = [p EXCEPT !.len = p.len + 1]
  BY DEF Pushed
<1> HIDE DEF g
<1>4. /\ p \in Structure /\ p.len = l.len /\ p.capacity = g.capacity
      /\ \A j \in 0 .. g.capacity - 1 : p.ptr[j] = IF j = l.len THEN e ELSE g.ptr[j]
  BY <1>2, PutCell
<1> HIDE DEF p
<1> DEFINE m == [p EXCEPT !.len = p.len + 1]
<1>5. m \in Structure /\ m.len = l.len + 1 /\ m.capacity = g.capacity /\ m.ptr = p.ptr
  <2>1. p.len + 1 \in Nat /\ p.len + 1 = l.len + 1
    BY <1>1, <1>4
  <2>2. QED BY <1>4, <2>1, WithLen
<1> HIDE DEF m
<1>6. g.capacity \in Nat
  BY <1>2, Fields
<1>7. m.ptr[l.len] = e /\ \A j \in 0 .. l.len - 1 : m.ptr[j] = l.ptr[j]
  <2>1. /\ l.len \in 0 .. g.capacity - 1
        /\ \A j \in 0 .. l.len - 1 : j # l.len /\ j \in 0 .. l.capacity - 1 /\ j \in 0 .. g.capacity - 1
    BY <1>1, <1>2, <1>6
  <2>2. QED BY <1>2, <1>4, <1>5, <2>1
<1>8. QED BY <1>1, <1>2, <1>3, <1>5, <1>6, <1>7 DEF g, m

\* The loop of append_vec: as many elements more, wherever they come from.
LEMMA PushedAgainAll ==
  ASSUME NEW l \in Structure, l.len <= l.capacity, NEW n \in Nat, n = 0 \/ l.len > 0,
         NEW moved \in BOOLEAN
  PROVE  LET m == PushedAgain(l, n, moved)
         IN m \in Structure /\ m.len = l.len + n /\ m.len <= m.capacity
<1> DEFINE Elt(was, i) == IF moved /\ was.len >= was.capacity THEN Junk ELSE was.ptr[i - 1]
           after[i \in 0 .. n] == IF i = 0 THEN l ELSE Pushed(after[i - 1], Elt(after[i - 1], i))
           S == {m \in Structure : m.len <= m.capacity}
           round == [i \in 1 .. n |-> [m \in S |-> IF i <= m.len THEN Pushed(m, Elt(m, i)) ELSE m]]
<1>1. l.len \in Nat
  BY Fields
<1>2. ASSUME NEW m \in S, NEW i \in 1 .. n, i <= m.len
      PROVE  Pushed(m, Elt(m, i)) \in S /\ Pushed(m, Elt(m, i)).len = m.len + 1
  <2>1. i - 1 \in 0 .. m.capacity - 1
    BY <1>2, Fields
  <2>2. Elt(m, i) \in Cell
    BY <2>1, Fields DEF Cell
  <2> HIDE DEF Elt
  <2>3. QED BY <2>2, PushedCell
<1> HIDE DEF Elt
<1>3. PICK g : Runs(g, n, S, l, round)
  <2>1. round \in Rounds(n, S)
    BY <1>2 DEF Rounds
  <2>2. l \in S
    OBVIOUS
  <2> HIDE DEF round, S
  <2>3. QED BY <2>1, <2>2, LoopExists
<1> DEFINE T == {i \in 0 .. n : g[i].len = l.len + i}
<1>4. \A i \in 0 .. n : g[i] \in S
  BY <1>3 DEF Runs
<1>5. ASSUME NEW i \in 0 .. n - 1, i \in T
      PROVE  g[i + 1] = Pushed(g[i], Elt(g[i], i + 1)) /\ i + 1 \in T
  <2>1. i + 1 \in 1 .. n /\ (i + 1) - 1 = i /\ i + 1 \in 0 .. n /\ i \in 0 .. n /\ i \in Nat
    OBVIOUS
  <2>2. g[i] \in S /\ g[i].len = l.len + i /\ i + 1 <= g[i].len
    BY <1>1, <1>4, <1>5, <2>1
  <2>3. g[i + 1] = Pushed(g[i], Elt(g[i], i + 1))
    <3>1. g[i + 1] = round[i + 1][g[i]]
      <4> HIDE DEF round, S
      <4>1. QED BY <1>3, <2>1 DEF Runs
    <3>2. QED BY <2>1, <2>2, <3>1
  <2>4. g[i + 1].len = l.len + (i + 1)
    <3>1. g[i + 1].len = g[i].len + 1
      <4> HIDE DEF S
      <4>1. QED BY <1>2, <2>1, <2>2, <2>3
    <3>2. QED BY <1>1, <2>1, <2>2, <3>1
  <2>5. QED BY <2>1, <2>3, <2>4
<1> HIDE DEF round, S
<1>6. \A i \in 0 .. n : i \in T
  <2>1. 0 \in T
    BY <1>1, <1>3 DEF Runs
  <2>2. \A i \in 0 .. n - 1 : i \in T => i + 1 \in T
    BY <1>5
  <2> HIDE DEF T
  <2>3. QED BY <2>1, <2>2, UpTo
<1>7. after = [i \in 0 .. n |-> IF i = 0 THEN l ELSE Pushed(after[i - 1], Elt(after[i - 1], i))]
  <2>1. ASSUME NEW i \in 1 .. n PROVE g[i] = Pushed(g[i - 1], Elt(g[i - 1], i))
    <3>1. i - 1 \in 0 .. n - 1 /\ (i - 1) + 1 = i /\ i - 1 \in 0 .. n
      OBVIOUS
    <3> HIDE DEF T
    <3>2. QED BY <1>5, <1>6, <3>1
  <2>2. g = [i \in 0 .. n |-> IF i = 0 THEN l ELSE Pushed(g[i - 1], Elt(g[i - 1], i))]
    BY <1>3, <2>1 DEF Runs
  <2>3. QED BY <2>2
<1>8. \A i \in 0 .. n : after[i] = g[i]
  <2> HIDE DEF after
  <2> DEFINE U == {i \in 0 .. n : after[i] = g[i]}
  <2>1. 0 \in U
    BY <1>3, <1>7 DEF Runs
  <2>2. \A i \in 0 .. n - 1 : i \in U => i + 1 \in U
    <3> SUFFICES ASSUME NEW i \in 0 .. n - 1, i \in U PROVE i + 1 \in U
      OBVIOUS
    <3>1. i + 1 \in 1 .. n /\ (i + 1) - 1 = i /\ i + 1 \in 0 .. n
      OBVIOUS
    <3>2. g[i + 1] = Pushed(g[i], Elt(g[i], i + 1))
      <4> HIDE DEF T
      <4>1. QED BY <1>5, <1>6
    <3>3. after[i + 1] = Pushed(after[i], Elt(after[i], i + 1))
      BY <1>7, <3>1
    <3>4. QED BY <3>1, <3>2, <3>3
  <2>3. \A i \in 0 .. n : i \in U
    <3> HIDE DEF U
    <3>1. QED BY <2>1, <2>2, UpTo
  <2>4. QED BY <2>3
<1>9. PushedAgain(l, n, moved) = g[n]
  <2>1. PushedAgain(l, n, moved) = after[n]
    BY DEF PushedAgain, after, Elt
  <2> HIDE DEF after
  <2>2. QED BY <1>8, <2>1
<1>10. QED BY <1>4, <1>6, <1>9 DEF S

-----------------------------------------------------------------------------
(***************************************************************************)
(* The invariant, and what every step does.                                *)
(***************************************************************************)
Chars(l) == \A j \in 0 .. l.len - 1 : l.ptr[j] \in Elem
Outside  == {"no", "read", "freed", "write", "null", "assert"}

\* The structure is sound, and no NUL is among the characters of a string: as_cstr
\* relies on it.
Inv == /\ type \in {"vec_t", "string_t"}
       /\ Sound(list)
       /\ type = "string_t" => Chars(list)
       /\ outside \in Outside

Kept      == Inv' /\ call'[1] # "file"
Promised  == L!Next \/ AppendsItself \/ CopiesOver \/ Misplaces \/ ShowsLeftover \/ ~Alive'
Inside    == /\ outside' = "write" => /\ type = "string_t"
                                      /\ \/ ~Room(list) /\ call'[1] \in {"push", "cstr", "insert"}
                                         \/ Misplaces
             /\ outside' = "read" => call'[1] = "remove" /\ ~Room(list)
             /\ outside' = "freed" => /\ type = "vec_t" /\ call'[1] = "append"
                                      /\ list.len + Len(call'[2]) > list.capacity
             /\ outside' = "null" => type = "string_t" /\ call' = <<"iterate">> /\ list.capacity = 0
KeepsRoom == type = "string_t" /\ Room(list) /\ ~Room(list')
               => call'[1] \in {"from", "clone", "resize", "append"}

\* The structure of the invariant.
LEMMA ListFacts ==
  ASSUME Inv
  PROVE  /\ list \in Structure /\ list.len \in Nat /\ list.capacity \in Nat
         /\ list.len <= list.capacity
         /\ \A j \in 0 .. list.len - 1 : list.ptr[j] \in Cell
         /\ Items(list) \in Seq(Cell) /\ Len(Items(list)) = list.len
         /\ \A k \in 1 .. list.len : Items(list)[k] = list.ptr[k - 1]
<1>1. Sound(list)
  BY DEF Inv
<1>2. /\ list \in Structure /\ list.len \in Nat /\ list.capacity \in Nat
      /\ list.len <= list.capacity /\ list.ptr \in [0 .. list.capacity - 1 -> Cell]
  BY <1>1, Fields DEF Sound
<1>3. \A j \in 0 .. list.len - 1 : list.ptr[j] \in Cell
  <2>1. \A j \in 0 .. list.len - 1 : j \in 0 .. list.capacity - 1
    BY <1>2
  <2>2. QED BY <1>2, <2>1
<1>4. QED BY <1>1, <1>2, <1>3, ItemsOf

\* A call that returns does so from inside the block.
LEMMA Returned ==
  ASSUME Inv, Alive, NEW m, NEW c, Returns(m, c), Sound(m), type = "string_t" => Chars(m),
         c[1] # "file",
         \/ type = "vec_t"
         \/ Room(list) => Room(m)
         \/ c[1] \in {"from", "clone", "resize", "append"}
  PROVE  Kept /\ Inside /\ KeepsRoom
<1>1. list' = m /\ call' = c /\ type' = type /\ outside' = "no"
  BY DEF Returns
<1>2. Inv'
  BY <1>1 DEF Inv, Outside
<1>3. QED BY <1>1, <1>2 DEF Kept, Inside, KeepsRoom, Inv

\* A call that ends the program.
LEMMA Strayed ==
  ASSUME Inv, NEW how \in {"write", "null", "assert"}, NEW c, Strays(how, list, c), c[1] # "file",
         how = "write" => /\ type = "string_t"
                          /\ \/ ~Room(list) /\ c[1] \in {"push", "cstr", "insert"}
                             \/ c[1] = "insert" /\ c[2] \in 1 .. list.len - 1,
         how = "null" => type = "string_t" /\ c = <<"iterate">> /\ list.capacity = 0
  PROVE  Kept /\ Promised /\ Inside /\ KeepsRoom
<1>1. list' = list /\ call' = c /\ type' = type /\ outside' = how
  BY DEF Strays
<1>2. Inv'
  BY <1>1 DEF Inv, Outside
<1>3. ~Alive'
  BY <1>1 DEF Alive
<1>4. Inside
  BY <1>1 DEF Inside, Misplaces
<1>5. KeepsRoom
  BY <1>1 DEF KeepsRoom, Room
<1>6. QED BY <1>1, <1>2, <1>3, <1>4, <1>5 DEF Kept, Promised

-----------------------------------------------------------------------------
(***************************************************************************)
(* The operations that both have.                                          *)
(***************************************************************************)
\* get_vec and get_str leave everything as it is.
LEMMA GetVecStep ==
  ASSUME Inv, NEW i \in Size, get_vec(i)
  PROVE  Kept /\ Promised /\ Inside /\ KeepsRoom
<1> DEFINE c == <<"get", i, IF i < list.len THEN list.ptr[i] ELSE NULL>>
<1>1. Alive /\ type = "vec_t" /\ Returns(list, c)
  BY DEF get_vec, Of
<1>2. Kept /\ Inside /\ KeepsRoom
  <2>1. c[1] # "file"
    OBVIOUS
  <2> HIDE DEF c
  <2>2. QED BY <1>1, <2>1, Returned DEF Inv
<1>3. L!Get(i)
  <2>1. list' = list /\ call' = c
    BY <1>1 DEF Returns
  <2>2. i \in Nat
    BY ElemAssumption DEF Size
  <2>3. i < list.len => Items(list)[i + 1] = list.ptr[i]
    BY <2>2, ListFacts
  <2>4. Len(Items(list)) = list.len
    BY ListFacts
  <2>5. QED BY <2>1, <2>3, <2>4 DEF L!Get
<1>4. QED BY <1>2, <1>3 DEF Promised, L!Next

\* SetCell changes the one element.
LEMMA SetStep ==
  ASSUME Inv, Alive, NEW i \in Size, NEW e \in Elem, SetCell(i, e)
  PROVE  Kept /\ Promised /\ Inside /\ KeepsRoom
<1> DEFINE m == Put(list, i, e)
           c == <<"set", i, e>>
<1>1. i \in 0 .. list.len - 1 /\ Returns(m, c)
  BY ElemAssumption, ListFacts DEF SetCell, Size
<1>2. /\ m \in Structure /\ m.len = list.len /\ m.capacity = list.capacity
      /\ \A j \in 0 .. list.len - 1 : m.ptr[j] = IF j = i THEN e ELSE list.ptr[j]
  BY PutCell, ListFacts DEF Cell
<1> HIDE DEF m
<1>3. Sound(m) /\ Chars(list) => Chars(m)
  BY <1>2, ListFacts DEF Sound, Chars
<1>4. Sound(m)
  BY <1>2, ListFacts DEF Sound
<1>5. Kept /\ Inside /\ KeepsRoom
  <2>1. c[1] # "file" /\ (Room(list) => Room(m))
    BY <1>2 DEF Room
  <2> HIDE DEF c
  <2>2. QED BY <1>1, <1>3, <1>4, <2>1, Returned DEF Inv
<1>6. L!Set(i, e)
  <2>1. Items(m) = [Items(list) EXCEPT ![i + 1] = e]
    BY <1>1, <1>2, <1>4, ItemsSet DEF Cell, Inv
  <2>2. list' = m /\ call' = c
    BY <1>1 DEF Returns
  <2>3. i < Len(Items(list))
    BY <1>1, ListFacts
  <2>4. QED BY <2>1, <2>2, <2>3 DEF L!Set
<1>7. QED BY <1>5, <1>6 DEF Promised, L!Next

\* PopCell cuts the last element off and returns it.
LEMMA PopStep ==
  ASSUME Inv, Alive, PopCell
  PROVE  Kept /\ Promised /\ Inside /\ KeepsRoom
<1>1. CASE list.len = 0
  <2> DEFINE c == <<"pop", NULL>>
  <2>1. Returns(list, c)
    BY <1>1 DEF PopCell
  <2>2. list' = list /\ call' = c
    BY <2>1 DEF Returns
  <2>3. Items(list) = <<>>
    BY <1>1, ListFacts, EmptySeq
  <2>4. L!Pop
    BY <2>2, <2>3 DEF L!Pop
  <2>5. c[1] # "file"
    OBVIOUS
  <2> HIDE DEF c
  <2>6. Kept /\ Inside /\ KeepsRoom
    BY <2>1, <2>5, Returned DEF Inv
  <2>7. QED BY <2>4, <2>6 DEF Promised, L!Next
<1>2. CASE list.len # 0
  <2> DEFINE m == [list EXCEPT !.len = list.len - 1]
             c == <<"pop", list.ptr[list.len - 1]>>
  <2>1. Returns(m, c)
    BY <1>2 DEF PopCell
  <2>2. list.len \in Nat /\ list.len - 1 \in Nat /\ list.capacity \in Nat /\ list.len <= list.capacity
    BY <1>2, ListFacts
  <2>3. m \in Structure /\ m.len = list.len - 1 /\ m.capacity = list.capacity /\ m.ptr = list.ptr
    BY <2>2, WithLen, ListFacts
  <2> HIDE DEF m
  <2>4. Sound(m) /\ (Chars(list) => Chars(m)) /\ Same(list, m, m.len) /\ m.len <= list.len
    BY <2>2, <2>3 DEF Sound, Chars, Same
  <2>5. Items(m) = SubSeq(Items(list), 1, list.len - 1)
    BY <2>3, <2>4, ItemsCut DEF Inv
  <2>6. L!Pop
    <3>1. Items(list) # <<>> /\ Len(Items(list)) = list.len
      BY <1>2, ListFacts, EmptySeq
    <3>2. Items(list)[list.len] = list.ptr[list.len - 1]
      BY <1>2, <2>2, ListFacts
    <3>3. list' = m /\ call' = c
      BY <2>1 DEF Returns
    <3>4. L!Last(Items(list)) = list.ptr[list.len - 1] /\ Items(m) = L!Front(Items(list))
      BY <2>5, <3>1, <3>2 DEF L!Last, L!Front
    <3> HIDE DEF c
    <3>5. c = <<"pop", L!Last(Items(list))>>
      BY <3>4 DEF c
    <3>6. QED BY <3>1, <3>3, <3>4, <3>5 DEF L!Pop
  <2>7. c[1] # "file" /\ (Room(list) => Room(m))
    BY <2>2, <2>3 DEF Room
  <2> HIDE DEF c
  <2>8. Kept /\ Inside /\ KeepsRoom
    BY <2>1, <2>4, <2>7, Returned DEF Inv
  <2>9. QED BY <2>6, <2>8 DEF Promised, L!Next
<1>3. QED BY <1>1, <1>2

\* RemoveCell, where the block is full too, shortens what the move has left.
LEMMA RemoveStep ==
  ASSUME Inv, Alive, NEW i \in Size, NEW M, RemoveCell(i, M),
         i < list.len =>
           \A k \in M : /\ k \in Structure /\ k.len = list.len /\ k.capacity = list.capacity
                        /\ type = "string_t" => \A j \in 0 .. list.len - 2 : k.ptr[j] \in Elem
  PROVE  /\ Kept /\ Inside /\ KeepsRoom
         /\ call' = <<"remove", i>> /\ type' = type
         /\ i >= list.len => L!Delete(i)
         /\ i < list.len => \E k \in M : list'.ptr = k.ptr /\ list'.len = list.len - 1 /\ Sound(list')
<1> DEFINE c == <<"remove", i>>
<1>1. i \in Nat /\ list.len \in Nat /\ list.capacity \in Nat /\ list.len <= list.capacity
  BY ElemAssumption, ListFacts DEF Size
<1>2. CASE i >= list.len
  <2>1. Returns(list, c)
    BY <1>2 DEF RemoveCell
  <2>2. list' = list /\ call' = c /\ type' = type
    BY <2>1 DEF Returns
  <2>3. L!Delete(i)
    <3>1. ~(i < Len(Items(list)))
      BY <1>1, <1>2, ListFacts
    <3>2. QED BY <2>2, <3>1 DEF L!Delete
  <2>4. c[1] # "file"
    OBVIOUS
  <2>5. ~(i < list.len)
    BY <1>1, <1>2
  <2> HIDE DEF c
  <2>6. Kept /\ Inside /\ KeepsRoom
    BY <2>1, <2>4, Returned DEF Inv
  <2>7. QED BY <2>2, <2>3, <2>5, <2>6 DEF c
<1>3. CASE i < list.len
  <2>1. ~(i >= list.len)
    BY <1>1, <1>3
  <2>2. PICK k \in M : \/ Returns([k EXCEPT !.len = k.len - 1], c)
                       \/ /\ ~(list.len < list.capacity)
                          /\ Strays("read", [k EXCEPT !.len = k.len - 1], c)
    BY <2>1 DEF RemoveCell
  <2> DEFINE m == [k EXCEPT !.len = k.len - 1]
  <2>3. /\ k \in Structure /\ k.len = list.len /\ k.capacity = list.capacity
        /\ type = "string_t" => \A j \in 0 .. list.len - 2 : k.ptr[j] \in Elem
    BY <1>3
  <2>4. m \in Structure /\ m.len = list.len - 1 /\ m.capacity = list.capacity /\ m.ptr = k.ptr
    <3>1. k.len - 1 \in Nat
      BY <1>1, <1>3, <2>3
    <3>2. QED BY <2>3, <3>1, WithLen
  <2>5. \/ Returns(m, c)
        \/ ~Room(list) /\ Strays("read", m, c)
    BY <2>2 DEF Room
  <2> HIDE DEF m
  <2>6. Sound(m) /\ (Room(list) => Room(m))
    BY <1>1, <2>4 DEF Sound, Room
  <2>7. type = "string_t" => Chars(m)
    <3>1. m.len - 1 = list.len - 2
      BY <1>1, <2>4
    <3>2. QED BY <2>3, <2>4, <3>1 DEF Chars
  <2>8. list' = m /\ call' = c /\ type' = type
    BY <2>5 DEF Returns, Strays
  <2>9. c[1] # "file" /\ c[1] = "remove"
    OBVIOUS
  <2> HIDE DEF c
  <2>10. Kept /\ Inside /\ KeepsRoom
    <3>1. CASE Returns(m, c)
      BY <2>6, <2>7, <2>9, <3>1, Returned DEF Inv
    <3>2. CASE ~Room(list) /\ Strays("read", m, c)
      <4>1. Inv'
        BY <2>6, <2>7, <2>8, <3>2 DEF Inv, Outside, Strays
      <4>2. QED BY <2>6, <2>8, <2>9, <3>2, <4>1 DEF Kept, Inside, KeepsRoom, Strays
    <3>3. QED BY <2>5, <3>1, <3>2
  <2>11. \E n \in M : list'.ptr = n.ptr /\ list'.len = list.len - 1 /\ Sound(list')
    BY <2>4, <2>6, <2>8
  <2>12. QED BY <2>1, <2>8, <2>10, <2>11 DEF c
<1>4. QED BY <1>1, <1>2, <1>3

\* memmove brings the cells behind the index one nearer, where the block is full too.
LEMMA OneNearer ==
  ASSUME Inv, NEW i \in Nat, i < list.len
  PROVE  LET k == Move(list, i, i + 1, list.len - i)
         IN /\ k \in Structure /\ k.len = list.len /\ k.capacity = list.capacity
            /\ \A j \in 0 .. list.len - 2 :
                 k.ptr[j] = IF j < i THEN list.ptr[j] ELSE list.ptr[j + 1]
<1> DEFINE k == Move(list, i, i + 1, list.len - i)
<1>1. list.len \in Nat /\ list.capacity \in Nat /\ list.len <= list.capacity
  BY ListFacts
<1>2. /\ k \in Structure /\ k.len = list.len /\ k.capacity = list.capacity
      /\ \A j \in 0 .. list.capacity - 1 :
           /\ j \notin i .. i + (list.len - i) - 1 => k.ptr[j] = list.ptr[j]
           /\ j \in i .. i + (list.len - i) - 1 /\ j - i + (i + 1) < list.capacity
                => k.ptr[j] = list.ptr[j - i + (i + 1)]
  <2>1. i + 1 \in Nat /\ list.len - i \in Int
    BY <1>1
  <2>2. list \in Structure
    BY ListFacts
  <2> HIDE DEF k
  <2>3. LET n == Move(list, i, i + 1, list.len - i)
        IN /\ n \in Structure /\ n.len = list.len /\ n.capacity = list.capacity /\ n.null = list.null
           /\ \A j \in 0 .. list.capacity - 1 :
                /\ j \notin i .. i + (list.len - i) - 1 => n.ptr[j] = list.ptr[j]
                /\ j \in i .. i + (list.len - i) - 1 /\ j - i + (i + 1) < list.capacity
                     => n.ptr[j] = list.ptr[j - i + (i + 1)]
    BY <2>1, <2>2, MoveCells, ZenonT(60)
  <2>4. QED BY <2>3 DEF k
<1> HIDE DEF k
<1>3. ASSUME NEW j \in 0 .. list.len - 2
      PROVE  k.ptr[j] = IF j < i THEN list.ptr[j] ELSE list.ptr[j + 1]
  <2>1. j \in 0 .. list.capacity - 1
    BY <1>1
  <2>2. CASE j < i
    <3>1. j \notin i .. i + (list.len - i) - 1
      BY <1>1, <2>2
    <3>2. QED BY <1>2, <2>1, <2>2, <3>1
  <2>3. CASE j >= i
    <3>1. /\ j \in i .. i + (list.len - i) - 1 /\ j - i + (i + 1) < list.capacity
          /\ j - i + (i + 1) = j + 1
      BY <1>1, <2>3
    <3>2. k.ptr[j] = list.ptr[j + 1]
      BY <1>2, <2>1, <3>1
    <3>3. QED BY <1>1, <2>3, <3>2
  <2>4. QED BY <1>1, <2>2, <2>3
<1>4. QED BY <1>2, <1>3 DEF k

\* Where they have come one nearer, the element at the index is removed.
LEMMA Removed ==
  ASSUME Inv, NEW i \in Nat, i < list.len, Sound(list'), list'.len = list.len - 1,
         \A j \in 0 .. list.len - 2 :
           list'.ptr[j] = IF j < i THEN list.ptr[j] ELSE list.ptr[j + 1],
         call' = <<"remove", i>>
  PROVE  L!Delete(i)
<1>1. i \in 0 .. list.len - 1 /\ i < Len(Items(list))
  BY ListFacts
<1> DEFINE m == list'
<1>2. Items(list)' = Items(m)
  BY DEF Items
<1>3. Sound(m) /\ m.len = list.len - 1
      /\ \A j \in 0 .. list.len - 2 : m.ptr[j] = IF j < i THEN list.ptr[j] ELSE list.ptr[j + 1]
  OBVIOUS
<1> HIDE DEF m
<1>4. Items(m) = RemoveAt(Items(list), i + 1)
  BY <1>1, <1>3, ItemsRemoved DEF Inv
<1>5. Items(list)' = L!RemoveAt(Items(list), i + 1)
  BY <1>2, <1>4 DEF RemoveAt, L!RemoveAt
<1>6. QED BY <1>1, <1>5 DEF L!Delete

\* remove_vec removes the last element; of others it only keeps those before them.
LEMMA RemoveVecIs ==
  ASSUME Inv, NEW i \in Size, remove_vec(i)
  PROVE  Kept /\ Promised /\ Inside /\ KeepsRoom
<1> DEFINE n == list.len - i
           M == memcpy(list, i, i + 1, n)
<1>1. Alive /\ type = "vec_t" /\ RemoveCell(i, M)
  BY DEF remove_vec, Of
<1>2. /\ i \in Nat /\ list.len \in Nat /\ list.capacity \in Nat /\ list.len <= list.capacity
      /\ list \in Structure
  BY ElemAssumption, ListFacts DEF Size
<1>3. n \in Int /\ (i < list.len => n \in Nat /\ n >= 1) /\ (n > 1 => n \in Nat)
  BY <1>2
<1>4. ASSUME n = 1 PROVE M = {Move(list, i, i + 1, n)}
  <2>1. i + 1 \notin i .. i + n - 1
    BY <1>2, <1>4
  <2> HIDE DEF n
  <2>2. QED BY <2>1 DEF memcpy
<1> HIDE DEF M
<1>5. ASSUME n > 1, NEW k \in M
      PROVE  /\ k \in Structure /\ k.len = list.len /\ k.capacity = list.capacity
             /\ \A j \in 0 .. list.capacity - 1 : j < i => k.ptr[j] = list.ptr[j]
  <2> HIDE DEF n
  <2>1. QED BY <1>2, <1>3, <1>5, OverlappingCells DEF M
<1>6. ASSUME i < list.len, NEW k \in M
      PROVE  k \in Structure /\ k.len = list.len /\ k.capacity = list.capacity
  <2>1. CASE n > 1
    BY <1>5, <2>1
  <2>2. CASE n = 1
    BY <1>2, <1>4, <1>6, <2>2, OneNearer
  <2>3. QED BY <1>3, <1>6, <2>1, <2>2
<1>7. /\ Kept /\ Inside /\ KeepsRoom
      /\ call' = <<"remove", i>> /\ type' = type
      /\ i >= list.len => L!Delete(i)
      /\ i < list.len => \E k \in M : list'.ptr = k.ptr /\ list'.len = list.len - 1 /\ Sound(list')
  BY <1>1, <1>6, RemoveStep
<1>8. CASE i >= list.len
  BY <1>7, <1>8 DEF Promised, L!Next
<1>9. CASE i < list.len
  <2>1. PICK k \in M : list'.ptr = k.ptr /\ list'.len = list.len - 1 /\ Sound(list')
    BY <1>7, <1>9
  <2>2. CASE n = 1
    <3>1. k = Move(list, i, i + 1, list.len - i)
      BY <1>4, <2>2
    <3>2. \A j \in 0 .. list.len - 2 : list'.ptr[j] = IF j < i THEN list.ptr[j] ELSE list.ptr[j + 1]
      BY <1>2, <1>9, <2>1, <3>1, OneNearer
    <3>3. L!Delete(i)
      BY <1>2, <1>7, <1>9, <2>1, <3>2, Removed
    <3>4. QED BY <1>7, <3>3 DEF Promised, L!Next
  <2>3. CASE n > 1
    <3>1. \A j \in 0 .. i - 1 : list'.ptr[j] = list.ptr[j]
      <4>1. \A j \in 0 .. i - 1 : j \in 0 .. list.capacity - 1 /\ j < i
        BY <1>2, <1>9
      <4>2. QED BY <1>5, <2>1, <2>3, <4>1
    <3>2. \A x \in 1 .. i : Items(list)'[x] = Items(list)[x]
      <4>1. ASSUME NEW x \in 1 .. i PROVE Items(list)'[x] = Items(list)[x]
        <5>1. x \in 1 .. list.len /\ x \in 1 .. list.len - 1 /\ x - 1 \in 0 .. i - 1
          BY <1>2, <1>9, <4>1
        <5>2. Items(list)[x] = list.ptr[x - 1] /\ Items(list)'[x] = list'.ptr[x - 1]
          BY <2>1, <5>1 DEF Items
        <5>3. QED BY <3>1, <5>1, <5>2
      <4>2. QED BY <4>1
    <3>3. i + 1 < list.len
      BY <1>2, <2>3
    <3>4. CopiesOver
      <4> DEFINE c == <<"remove", i>>
      <4>1. c[1] = "remove" /\ c[2] = i /\ call' = c
        BY <1>7
      <4> HIDE DEF c
      <4>2. QED BY <1>1, <2>1, <3>2, <3>3, <4>1 DEF CopiesOver
    <3>5. QED BY <1>7, <3>4 DEF Promised
  <2>4. QED BY <1>3, <1>9, <2>2, <2>3
<1>10. QED BY <1>2, <1>8, <1>9

\* remove_str removes the character, and keeps the others in their order.
LEMMA RemoveStrIs ==
  ASSUME Inv, NEW i \in Size, remove_str(i)
  PROVE  Kept /\ Promised /\ Inside /\ KeepsRoom
<1> DEFINE k == Move(list, i, i + 1, list.len - i)
           M == {k}
<1>1. Alive /\ type = "string_t" /\ RemoveCell(i, M)
  BY DEF remove_str, Of
<1>2. i \in Nat /\ list.len \in Nat
  BY ElemAssumption, ListFacts DEF Size
<1>3. ASSUME i < list.len
      PROVE  /\ k \in Structure /\ k.len = list.len /\ k.capacity = list.capacity
             /\ \A j \in 0 .. list.len - 2 :
                  k.ptr[j] = IF j < i THEN list.ptr[j] ELSE list.ptr[j + 1]
  BY <1>2, <1>3, OneNearer
<1> HIDE DEF k
<1>4. ASSUME i < list.len PROVE \A j \in 0 .. list.len - 2 : k.ptr[j] \in Elem
  <2>1. \A j \in 0 .. list.len - 2 : j \in 0 .. list.len - 1 /\ j + 1 \in 0 .. list.len - 1
    BY <1>2
  <2>2. Chars(list)
    BY <1>1 DEF Inv
  <2>3. QED BY <1>3, <1>4, <2>1, <2>2 DEF Chars
<1>5. i < list.len =>
        \A x \in M : /\ x \in Structure /\ x.len = list.len /\ x.capacity = list.capacity
                     /\ type = "string_t" => \A j \in 0 .. list.len - 2 : x.ptr[j] \in Elem
  BY <1>3, <1>4
<1> HIDE DEF M
<1>6. /\ Kept /\ Inside /\ KeepsRoom
      /\ call' = <<"remove", i>> /\ type' = type
      /\ i >= list.len => L!Delete(i)
      /\ i < list.len => \E x \in M : list'.ptr = x.ptr /\ list'.len = list.len - 1 /\ Sound(list')
  BY <1>1, <1>5, RemoveStep
<1>7. CASE i < list.len
  <2>1. list'.ptr = k.ptr /\ list'.len = list.len - 1 /\ Sound(list')
    BY <1>6, <1>7 DEF M
  <2>2. L!Delete(i)
    BY <1>2, <1>3, <1>6, <1>7, <2>1, Removed
  <2>3. QED BY <1>6, <2>2 DEF Promised, L!Next
<1>8. CASE i >= list.len
  BY <1>6, <1>8 DEF Promised, L!Next
<1>9. QED BY <1>2, <1>7, <1>8

\* resize keeps the first n elements, and fills a block that is smaller than before.
LEMMA ResizeCells ==
  ASSUME NEW l, Sound(l), NEW n \in Nat
  PROVE  LET m == resize(l, n)
         IN /\ Sound(m) /\ m.len = (IF n < l.len THEN n ELSE l.len)
            /\ Same(l, m, m.len)
            /\ n > l.len => Room(m)
<1> DEFINE r == realloc(l, n)
           k == IF n < l.len THEN n ELSE l.len
           m == [r EXCEPT !.len = k]
<1>1. l \in Structure /\ l.len \in Nat /\ l.capacity \in Nat /\ l.len <= l.capacity
  BY Fields DEF Sound
<1>2. CASE n = l.len
  BY <1>1, <1>2 DEF resize, Same
<1>3. CASE n # l.len
  <2>1. resize(l, n) = m
    BY <1>3 DEF resize
  <2>2. /\ r \in Structure /\ r.len = l.len /\ r.capacity = n
        /\ \A j \in 0 .. n - 1 : j < l.capacity => r.ptr[j] = l.ptr[j]
    BY <1>1, ReallocKeeps
  <2>3. k \in Nat /\ k <= n /\ k <= l.len /\ (n > l.len => k < n)
    BY <1>1
  <2> HIDE DEF r, k
  <2>4. m \in Structure /\ m.len = k /\ m.capacity = n /\ m.ptr = r.ptr
    BY <2>2, <2>3, WithLen
  <2> HIDE DEF m
  <2>5. Same(l, m, k)
    <3>1. \A j \in 0 .. k - 1 : j \in 0 .. n - 1 /\ j < l.capacity
      BY <1>1, <2>3
    <3>2. QED BY <2>2, <2>4, <3>1 DEF Same
  <2>6. QED BY <2>1, <2>3, <2>4, <2>5 DEF Sound, Room, k
<1>4. QED BY <1>2, <1>3

\* reserve keeps them all, and the room there was.
LEMMA ReserveCells ==
  ASSUME NEW l, Sound(l), NEW n \in Nat
  PROVE  LET m == reserve(l, n)
         IN /\ Sound(m) /\ m.len = l.len /\ Same(l, m, l.len)
            /\ Room(l) => Room(m)
<1>1. l.len \in Nat
  BY Fields DEF Sound
<1>2. CASE n <= l.len
  BY <1>2 DEF reserve, Same
<1>3. CASE ~(n <= l.len)
  <2> DEFINE k == IF n < l.len * 2 THEN l.len * 2 ELSE n
             m == resize(l, k)
  <2>1. k \in Nat /\ k > l.len /\ ~(k < l.len)
    BY <1>1, <1>3
  <2>2. reserve(l, n) = m
    BY <1>3 DEF reserve
  <2> HIDE DEF k
  <2>3. /\ Sound(m) /\ m.len = (IF k < l.len THEN k ELSE l.len)
        /\ Same(l, m, m.len)
        /\ k > l.len => Room(m)
    BY <2>1, ResizeCells
  <2> HIDE DEF m
  <2>4. QED BY <2>1, <2>2, <2>3
<1>4. QED BY <1>2, <1>3

\* A structure whose first cells stay has the same elements: the operations that
\* only handle the block.
LEMMA SameStep ==
  ASSUME Inv, NEW m, Sound(m), m.len = list.len, Same(list, m, list.len), list' = m
  PROVE  Items(list)' = Items(list) /\ (Chars(list) => Chars(m))
<1>1. Items(m) = Items(list)
  BY ItemsStay DEF Inv
<1>2. Chars(list) => Chars(m)
  BY DEF Chars, Same
<1>3. QED BY <1>1, <1>2

\* A smaller size cuts the sequence.
LEMMA ResizeStep ==
  ASSUME Inv, Alive, NEW n \in Size, Returns(resize(list, n), <<"resize", n>>)
  PROVE  Kept /\ Promised /\ Inside /\ KeepsRoom
<1> DEFINE m == resize(list, n)
           c == <<"resize", n>>
<1>1. n \in Nat /\ list.len \in Nat
  BY ElemAssumption, ListFacts DEF Size
<1>2. Sound(m) /\ m.len = (IF n < list.len THEN n ELSE list.len) /\ Same(list, m, m.len)
  BY <1>1, ResizeCells DEF Inv
<1>3. list' = m /\ call' = c
  BY DEF Returns
<1>4. Returns(m, c)
  OBVIOUS
<1> HIDE DEF m
<1>5. m.len <= list.len
  BY <1>1, <1>2
<1>6. Chars(list) => Chars(m)
  <2>1. \A j \in 0 .. m.len - 1 : j \in 0 .. list.len - 1
    BY <1>1, <1>2
  <2>2. QED BY <1>2, <2>1 DEF Chars, Same
<1>7. L!Resize(n)
  <2>1. Items(m) = SubSeq(Items(list), 1, m.len)
    BY <1>2, <1>5, ItemsCut DEF Inv
  <2>2. Len(Items(list)) = list.len
    BY ListFacts
  <2>3. m.len = L!Least(n, Len(Items(list)))
    BY <1>2, <2>2 DEF L!Least
  <2>4. QED BY <1>3, <2>1, <2>3 DEF L!Resize
<1>8. Kept /\ Inside /\ KeepsRoom
  <2>1. c[1] # "file" /\ c[1] \in {"from", "clone", "resize", "append"}
    OBVIOUS
  <2> HIDE DEF c
  <2>2. QED BY <1>2, <1>4, <1>6, <2>1, Returned DEF Inv
<1>9. QED BY <1>7, <1>8 DEF Promised, L!Next

\* Reserving is not seen.
LEMMA ReserveStep ==
  ASSUME Inv, Alive, NEW n \in Size, Returns(reserve(list, n), <<"reserve", n>>)
  PROVE  Kept /\ Promised /\ Inside /\ KeepsRoom
<1> DEFINE m == reserve(list, n)
           c == <<"reserve", n>>
<1>1. n \in Nat
  BY ElemAssumption DEF Size
<1>2. Sound(m) /\ m.len = list.len /\ Same(list, m, list.len) /\ (Room(list) => Room(m))
  BY <1>1, ReserveCells DEF Inv
<1>3. list' = m /\ call' = c
  BY DEF Returns
<1>4. Returns(m, c)
  OBVIOUS
<1> HIDE DEF m
<1>5. Items(list)' = Items(list) /\ (Chars(list) => Chars(m))
  BY <1>2, <1>3, SameStep
<1>6. L!Reserve(n)
  BY <1>3, <1>5 DEF L!Reserve
<1>7. Kept /\ Inside /\ KeepsRoom
  <2>1. c[1] # "file"
    OBVIOUS
  <2> HIDE DEF c
  <2>2. QED BY <1>2, <1>4, <1>5, <2>1, Returned DEF Inv
<1>8. QED BY <1>6, <1>7 DEF Promised, L!Next

\* Clearing leaves the block as it is.
LEMMA ClearStep ==
  ASSUME Inv, Alive, Returns([list EXCEPT !.len = 0], <<"clear">>)
  PROVE  Kept /\ Promised /\ Inside /\ KeepsRoom
<1> DEFINE m == [list EXCEPT !.len = 0]
           c == <<"clear">>
<1>1. m \in Structure /\ m.len = 0 /\ m.capacity = list.capacity
  BY ListFacts, WithLen
<1>2. list' = m /\ call' = c
  BY DEF Returns
<1>3. Returns(m, c)
  OBVIOUS
<1> HIDE DEF m
<1>4. Sound(m) /\ Chars(m) /\ (Room(list) => Room(m))
  BY <1>1, ListFacts DEF Sound, Chars, Room
<1>5. L!Clear
  <2>1. Items(m) = <<>>
    BY <1>1, <1>4, ItemsOf, EmptySeq
  <2>2. QED BY <1>2, <2>1 DEF L!Clear
<1>6. Kept /\ Inside /\ KeepsRoom
  <2>1. c[1] # "file"
    OBVIOUS
  <2> HIDE DEF c
  <2>2. QED BY <1>3, <1>4, <2>1, Returned DEF Inv
<1>7. QED BY <1>5, <1>6 DEF Promised, L!Next

\* The iterator visits the elements.
LEMMA VisitedItems == ASSUME Inv PROVE Visited = Items(list)
<1>1. (list.len - 1) + 1 = list.len
  BY ListFacts
<1>2. QED BY <1>1 DEF Visited, Items

\* A call that returns what it does of the elements, and leaves the structure alone.
LEMMA VisitStep ==
  ASSUME Inv, Alive, Returns(list, <<"iterate", Visited>>)
  PROVE  Kept /\ Promised /\ Inside /\ KeepsRoom
<1> DEFINE c == <<"iterate", Visited>>
<1>1. list' = list /\ call' = c
  BY DEF Returns
<1>2. L!Visit
  BY <1>1, VisitedItems DEF L!Visit
<1>3. Kept /\ Inside /\ KeepsRoom
  <2>1. c[1] # "file" /\ Returns(list, c)
    OBVIOUS
  <2> HIDE DEF c
  <2>2. QED BY <2>1, Returned DEF Inv
<1>4. QED BY <1>2, <1>3 DEF Promised, L!Next

-----------------------------------------------------------------------------
(***************************************************************************)
(* The operations of vectors.                                              *)
(***************************************************************************)
\* Pushing, also by insert_vec at the end, never writes outside the block.
LEMMA PushVecStep ==
  ASSUME Inv, Alive, type = "vec_t", NEW e \in Elem, NEW c, c[1] # "file", PushVec(e, c)
  PROVE  Kept /\ Inside /\ KeepsRoom /\ call' = c /\ Items(list)' = Append(Items(list), e)
<1> DEFINE m == Pushed(list, e)
<1>1. e \in Cell
  BY DEF Cell
<1>2. /\ grow(list).len < grow(list).capacity
      /\ m \in Structure /\ m.len = list.len + 1 /\ m.len <= m.capacity /\ m.ptr[list.len] = e
      /\ \A j \in 0 .. list.len - 1 : m.ptr[j] = list.ptr[j]
  BY <1>1, ListFacts, PushedCell
<1>3. Returns(m, c)
  BY <1>2 DEF PushVec
<1> HIDE DEF m
<1>4. Sound(m) /\ Same(list, m, list.len)
  BY <1>2 DEF Sound, Same
<1>5. Items(m) = Append(Items(list), e)
  BY <1>1, <1>2, <1>4, ItemsPushed DEF Inv
<1>6. type = "string_t" => Chars(m)
  OBVIOUS
<1>7. Kept /\ Inside /\ KeepsRoom
  BY <1>3, <1>4, <1>6, Returned
<1>8. QED BY <1>3, <1>5, <1>7 DEF Returns

\* push_vec
LEMMA PushVecIs ==
  ASSUME Inv, NEW e \in Elem, push_vec(e)
  PROVE  Kept /\ Promised /\ Inside /\ KeepsRoom
<1> DEFINE c == <<"push", e>>
<1>1. Alive /\ type = "vec_t" /\ PushVec(e, c) /\ c[1] # "file"
  BY DEF push_vec, Of
<1> HIDE DEF c
<1>2. Kept /\ Inside /\ KeepsRoom /\ call' = c /\ Items(list)' = Append(Items(list), e)
  BY <1>1, PushVecStep
<1>3. L!Push(e)
  BY <1>2 DEF L!Push, c
<1>4. QED BY <1>2, <1>3 DEF Promised, L!Next

\* Inserting at the end is appending.
LEMMA InsertAtEnd ==
  ASSUME Inv, NEW e \in Cell
  PROVE  L!InsertAt(Items(list), list.len + 1, e) = Append(Items(list), e)
<1> DEFINE s == Items(list)
           u == <<e>>
           i == list.len
<1>1. s \in Seq(Cell) /\ Len(s) = i /\ i \in Nat
  BY ListFacts
<1> HIDE DEF s, i
<1>2. SubSeq(s, i + 1, Len(s)) = <<>> /\ SubSeq(s, 1, (i + 1) - 1) = s
  BY <1>1, SubSeqEmpty, SubSeqFull
<1>3. u \in Seq(Cell) /\ Append(s, e) = s \o u
  BY <1>1, AppendIsConcat
<1>4. (s \o u) \o <<>> = s \o u
  <2> HIDE DEF u
  <2>1. s \o u \in Seq(Cell)
    BY <1>1, <1>3, ConcatProperties
  <2>2. QED BY <2>1, ConcatEmptySeq
<1>5. L!InsertAt(s, i + 1, e) = (s \o u) \o <<>>
  BY <1>2 DEF L!InsertAt
<1>6. QED BY <1>3, <1>4, <1>5 DEF s, i

\* insert_vec: the block has grown early enough for the cell beyond the last.
LEMMA InsertVecIs ==
  ASSUME Inv, NEW i \in Size, NEW e \in Elem, insert_vec(i, e)
  PROVE  Kept /\ Promised /\ Inside /\ KeepsRoom
<1> DEFINE c == <<"insert", i, e>>
           h == [list EXCEPT !.len = list.len + 1]
           g == grow(h)
           k == Move(g, i + 1, i, g.len - i)
           m == Put(k, i, e)
<1>1. /\ Alive /\ type = "vec_t" /\ i <= list.len /\ c[1] # "file"
      /\ i \in Nat /\ list.len \in Nat /\ list.capacity \in Nat /\ list.len <= list.capacity
      /\ list \in Structure /\ e \in Cell
  BY ListFacts, ElemAssumption DEF insert_vec, Of, Size, Cell
<1>2. CASE i = list.len
  <2>1. PushVec(e, c)
    BY <1>2 DEF insert_vec
  <2> HIDE DEF c
  <2>2. Kept /\ Inside /\ KeepsRoom /\ call' = c /\ Items(list)' = Append(Items(list), e)
    BY <1>1, <2>1, PushVecStep
  <2>3. L!InsertAt(Items(list), i + 1, e) = Append(Items(list), e)
    BY <1>1, <1>2, InsertAtEnd
  <2>4. L!Insert(i, e)
    <3>1. i <= Len(Items(list))
      BY <1>1, ListFacts
    <3>2. QED BY <2>2, <2>3, <3>1 DEF L!Insert, c
  <2>5. QED BY <2>2, <2>4 DEF Promised, L!Next
<1>3. CASE i # list.len
  <2>1. h \in Structure /\ h.len = list.len + 1 /\ h.capacity = list.capacity /\ h.ptr = list.ptr
    BY <1>1, WithLen
  <2>2. h.len <= h.capacity + 1
    BY <1>1, <2>1
  <2> HIDE DEF h
  <2>3. /\ g \in Structure /\ g.len = list.len + 1 /\ list.len + 1 < g.capacity
        /\ \A j \in 0 .. list.capacity - 1 : g.ptr[j] = list.ptr[j]
    BY <2>1, <2>2, GrowMakesRoom
  <2> HIDE DEF g
  <2>4. i + 1 \in Nat /\ g.len - i \in Int /\ g.capacity \in Nat
    BY <1>1, <2>3, Fields
  <2>5. /\ k \in Structure /\ k.len = g.len /\ k.capacity = g.capacity
        /\ \A j \in 0 .. g.capacity - 1 :
             /\ j \notin i + 1 .. (i + 1) + (g.len - i) - 1 => k.ptr[j] = g.ptr[j]
             /\ j \in i + 1 .. (i + 1) + (g.len - i) - 1 /\ j - (i + 1) + i < g.capacity
                  => k.ptr[j] = g.ptr[j - (i + 1) + i]
    <3> DEFINE dst == i + 1
               n == g.len - i
               x == Move(g, dst, i, n)
    <3>1. dst \in Nat /\ n \in Int /\ i \in Nat /\ g \in Structure
      BY <1>1, <2>3, <2>4
    <3> HIDE DEF dst, n
    <3>2. /\ x \in Structure /\ x.len = g.len /\ x.capacity = g.capacity
          /\ \A j \in 0 .. g.capacity - 1 :
               /\ j \notin dst .. dst + n - 1 => x.ptr[j] = g.ptr[j]
               /\ j \in dst .. dst + n - 1 /\ j - dst + i < g.capacity
                    => x.ptr[j] = g.ptr[j - dst + i]
      BY <3>1, MoveCells, ZenonT(60)
    <3>3. QED BY <3>2 DEF dst, n
  <2> HIDE DEF k
  <2>6. /\ m \in Structure /\ m.len = k.len /\ m.capacity = k.capacity
        /\ \A j \in 0 .. k.capacity - 1 : m.ptr[j] = IF j = i THEN e ELSE k.ptr[j]
    BY <1>1, <2>5, PutCell
  <2>7. Returns(m, c)
    <3>1. g.len < g.capacity
      BY <2>3
    <3>2. QED BY <1>3, <3>1 DEF insert_vec, h, g, k
  <2> HIDE DEF m
  <2>8. ASSUME NEW j \in 0 .. list.len
        PROVE  m.ptr[j] = IF j < i THEN list.ptr[j] ELSE IF j = i THEN e ELSE list.ptr[j - 1]
    <3>1. j \in 0 .. g.capacity - 1
      BY <1>1, <2>3, <2>4
    <3>2. CASE j < i
      <4>1. j \notin i + 1 .. (i + 1) + (g.len - i) - 1 /\ j # i /\ j \in 0 .. list.capacity - 1
        BY <1>1, <2>4, <3>2
      <4>2. QED BY <2>3, <2>5, <2>6, <3>1, <3>2, <4>1
    <3>3. CASE j = i
      BY <1>1, <2>5, <2>6, <3>1, <3>3
    <3>4. CASE j > i
      <4>1. /\ j \in i + 1 .. (i + 1) + (g.len - i) - 1 /\ j - (i + 1) + i < g.capacity
            /\ j - (i + 1) + i = j - 1 /\ j # i /\ ~(j < i) /\ j - 1 \in 0 .. list.capacity - 1
        BY <1>1, <2>3, <2>4, <3>1, <3>4
      <4>2. QED BY <2>3, <2>5, <2>6, <3>1, <4>1
    <3>5. QED BY <1>1, <3>2, <3>3, <3>4
  <2>9. Sound(m)
    BY <1>1, <2>3, <2>4, <2>5, <2>6 DEF Sound
  <2>10. L!Insert(i, e)
    <3>1. m.len = list.len + 1 /\ i \in 0 .. list.len
      BY <1>1, <2>3, <2>5, <2>6
    <3>2. Items(m) = InsertAt(Items(list), i + 1, e)
      BY <1>1, <2>8, <2>9, <3>1, ItemsInserted DEF Inv
    <3>3. Items(m) = L!InsertAt(Items(list), i + 1, e)
      BY <3>2 DEF InsertAt, L!InsertAt
    <3>4. i <= Len(Items(list)) /\ list' = m /\ call' = c
      BY <1>1, <2>7, ListFacts DEF Returns
    <3>5. QED BY <3>3, <3>4 DEF L!Insert
  <2> HIDE DEF c
  <2>11. Kept /\ Inside /\ KeepsRoom
    BY <1>1, <2>7, <2>9, Returned
  <2>12. QED BY <2>10, <2>11 DEF Promised, L!Next
<1>4. QED BY <1>2, <1>3

\* append_vec stops at an assertion, or appends the vector to itself.
LEMMA AppendVecIs ==
  ASSUME Inv, NEW s \in Lists, append_vec(s)
  PROVE  Kept /\ Promised /\ Inside /\ KeepsRoom
<1> DEFINE c == <<"append", s>>
<1>1. /\ Alive /\ type = "vec_t" /\ c[1] # "file" /\ c[1] = "append"
      /\ list \in Structure /\ list.len <= list.capacity /\ list.len \in Nat
  BY ListFacts DEF append_vec, Of
<1>2. CASE Strays("assert", list, c)
  <2> HIDE DEF c
  <2>1. QED BY <1>1, <1>2, Strayed
<1>3. CASE /\ list.len > 0 \/ s = <<>>
           /\ \E moved \in BOOLEAN :
                LET m == PushedAgain(list, Len(s), moved)
                IN \/ Returns(m, c)
                   \/ list.len + Len(s) > list.capacity /\ Strays("freed", m, c)
  <2>1. s \in Seq(Elem)
    BY ElemAssumption
  <2>2. Len(s) \in Nat /\ (Len(s) = 0 \/ list.len > 0)
    BY <1>3, <2>1, LenProperties, EmptySeq
  <2>3. PICK moved \in BOOLEAN :
          LET m == PushedAgain(list, Len(s), moved)
          IN \/ Returns(m, c)
             \/ list.len + Len(s) > list.capacity /\ Strays("freed", m, c)
    BY <1>3
  <2> DEFINE m == PushedAgain(list, Len(s), moved)
  <2>4. Sound(m)
    BY <1>1, <2>2, PushedAgainAll DEF Sound
  <2>5. Returns(m, c) \/ (list.len + Len(s) > list.capacity /\ Strays("freed", m, c))
    BY <2>3
  <2>6. c[2] = s
    OBVIOUS
  <2> HIDE DEF m, c
  <2>7. Kept /\ Inside /\ KeepsRoom
    <3>1. CASE Returns(m, c)
      BY <1>1, <2>4, <3>1, Returned
    <3>2. CASE list.len + Len(s) > list.capacity /\ Strays("freed", m, c)
      <4>1. list' = m /\ call' = c /\ type' = type /\ outside' = "freed"
        BY <3>2 DEF Strays
      <4>2. Inv'
        BY <1>1, <2>4, <4>1 DEF Inv, Outside
      <4>3. QED BY <1>1, <2>6, <3>2, <4>1, <4>2 DEF Kept, Inside, KeepsRoom
    <3>3. QED BY <2>5, <3>1, <3>2
  <2>8. AppendsItself
    BY <1>1, <2>5 DEF AppendsItself, Returns, Strays
  <2>9. QED BY <2>7, <2>8 DEF Promised
<1>4. QED BY <1>2, <1>3 DEF append_vec

\* clone_vec copies the elements, and zeroes what follows them.
LEMMA CloneVecIs ==
  ASSUME Inv, clone_vec
  PROVE  Kept /\ Promised /\ Inside /\ KeepsRoom
<1> DEFINE c == <<"clone">>
           p == [i \in DOMAIN list.ptr |-> IF i < list.len THEN list.ptr[i] ELSE NULL]
           m == [list EXCEPT !.null = FALSE, !.ptr = p]
<1>1. /\ Alive /\ type = "vec_t" /\ Returns(m, c) /\ c[1] # "file" /\ call' = c /\ list' = m
  BY DEF clone_vec, Of, Returns
<1>2. /\ list \in Structure /\ list.len \in Nat /\ list.capacity \in Nat
      /\ list.len <= list.capacity
  BY ListFacts
<1>3. p \in [0 .. list.capacity - 1 -> Cell] /\ \A j \in 0 .. list.len - 1 : p[j] = list.ptr[j]
  BY <1>2, Fields DEF Cell
<1> HIDE DEF p
<1>4. /\ m \in [len : Nat, capacity : Nat, null : BOOLEAN, ptr : Blocks]
      /\ m.len = list.len /\ m.capacity = list.capacity /\ m.null = FALSE /\ m.ptr = p
  <2>1. p \in Blocks
    BY <1>2, <1>3 DEF Blocks
  <2>2. QED BY <1>2, <2>1 DEF Structure
<1>5. m \in Structure /\ m.len = list.len /\ m.ptr = p
  <2> HIDE DEF m
  <2>1. QED BY <1>3, <1>4 DEF Structure
<1>6. m.capacity = list.capacity
  BY <1>4
<1> HIDE DEF m, c
<1>7. Sound(m) /\ Same(list, m, list.len)
  BY <1>2, <1>3, <1>5, <1>6 DEF Sound, Same
<1>8. Items(list)' = Items(list)
  BY <1>1, <1>5, <1>7, SameStep
<1>9. L!Clone
  BY <1>1, <1>8 DEF L!Clone, c
<1>10. Kept /\ Inside /\ KeepsRoom
  BY <1>1, <1>7, Returned
<1>11. QED BY <1>9, <1>10 DEF Promised, L!Next

\* Every step of a vector.
LEMMA VecStep ==
  ASSUME Inv, NextVec
  PROVE  Kept /\ Promised /\ Inside /\ KeepsRoom
<1>1. ASSUME NEW e \in Elem, push_vec(e) PROVE Kept /\ Promised /\ Inside /\ KeepsRoom
  BY <1>1, PushVecIs
<1>2. ASSUME NEW e \in Elem, NEW i \in Size, set_vec(i, e)
      PROVE  Kept /\ Promised /\ Inside /\ KeepsRoom
  BY <1>2, SetStep DEF set_vec, Of
<1>3. ASSUME NEW e \in Elem, NEW i \in Size, insert_vec(i, e)
      PROVE  Kept /\ Promised /\ Inside /\ KeepsRoom
  BY <1>3, InsertVecIs
<1>4. ASSUME NEW i \in Size, get_vec(i) PROVE Kept /\ Promised /\ Inside /\ KeepsRoom
  BY <1>4, GetVecStep
<1>5. ASSUME NEW i \in Size, remove_vec(i) PROVE Kept /\ Promised /\ Inside /\ KeepsRoom
  BY <1>5, RemoveVecIs
<1>6. ASSUME NEW i \in Size, resize_vec(i) PROVE Kept /\ Promised /\ Inside /\ KeepsRoom
  BY <1>6, ResizeStep DEF resize_vec, Of
<1>7. ASSUME NEW i \in Size, reserve_vec(i) PROVE Kept /\ Promised /\ Inside /\ KeepsRoom
  BY <1>7, ReserveStep DEF reserve_vec, Of
<1>8. ASSUME NEW s \in Lists, append_vec(s) PROVE Kept /\ Promised /\ Inside /\ KeepsRoom
  BY <1>8, AppendVecIs
<1>9. CASE pop_vec
  BY <1>9, PopStep DEF pop_vec, Of
<1>10. CASE clear_vec
  BY <1>10, ClearStep DEF clear_vec, Of
<1>11. CASE clone_vec
  BY <1>11, CloneVecIs
<1>12. CASE iterate_vec
  BY <1>12, VisitStep DEF iterate_vec, Of
<1>13. QED
  BY <1>1, <1>2, <1>3, <1>4, <1>5, <1>6, <1>7, <1>8, <1>9, <1>10, <1>11, <1>12 DEF NextVec

-----------------------------------------------------------------------------
(***************************************************************************)
(* The operations of strings.                                              *)
(***************************************************************************)
\* Pushing, also by insert_str at the end, stays in the block where there is room.
LEMMA PushStrStep ==
  ASSUME Inv, Alive, type = "string_t", NEW e \in Elem,
         NEW c, c[1] \in {"push", "insert"}, PushStr(e, c)
  PROVE  /\ Kept /\ Inside /\ KeepsRoom
         /\ ~Alive' \/ (call' = c /\ Items(list)' = Append(Items(list), e))
<1>1. CASE ~Room(list)
  <2>1. Strays("write", list, c) /\ c[1] # "file"
    BY <1>1 DEF PushStr
  <2>2. Kept /\ Inside /\ KeepsRoom
    BY <1>1, <2>1, Strayed
  <2>3. ~Alive'
    BY <2>1 DEF Strays, Alive
  <2>4. QED BY <2>2, <2>3
<1>2. CASE Room(list)
  <2> DEFINE m == Appended(list, e)
  <2>1. e \in Cell /\ list \in Roomy
    BY <1>2, ListFacts DEF Cell, Roomy, Room
  <2>2. /\ m \in Roomy /\ m.len = list.len + 1 /\ m.ptr[list.len] = e
        /\ \A j \in 0 .. list.len - 1 : m.ptr[j] = list.ptr[j]
    BY <2>1, AppendedChar
  <2>3. Returns(m, c) /\ c[1] # "file"
    BY <1>2 DEF PushStr
  <2> HIDE DEF m
  <2>4. Sound(m) /\ Room(m) /\ Same(list, m, list.len)
    BY <2>2, Fields DEF Roomy, Sound, Room, Same
  <2>5. Items(m) = Append(Items(list), e)
    BY <2>1, <2>2, <2>4, ItemsPushed DEF Inv
  <2>6. Chars(m)
    <3>1. \A j \in 0 .. m.len - 1 : j = list.len \/ j \in 0 .. list.len - 1
      BY <2>2, ListFacts
    <3>2. QED BY <2>2, <3>1 DEF Inv, Chars
  <2>7. Kept /\ Inside /\ KeepsRoom
    BY <2>3, <2>4, <2>6, Returned
  <2>8. QED BY <2>3, <2>5, <2>7 DEF Returns
<1>3. QED BY <1>1, <1>2

\* push_str
LEMMA PushStrIs ==
  ASSUME Inv, NEW e \in Elem, push_str(e)
  PROVE  Kept /\ Promised /\ Inside /\ KeepsRoom
<1> DEFINE c == <<"push", e>>
<1>1. Alive /\ type = "string_t" /\ PushStr(e, c) /\ c[1] \in {"push", "insert"}
  BY DEF push_str, Of
<1> HIDE DEF c
<1>2. /\ Kept /\ Inside /\ KeepsRoom
      /\ ~Alive' \/ (call' = c /\ Items(list)' = Append(Items(list), e))
  BY <1>1, PushStrStep
<1>3. ~Alive' \/ L!Push(e)
  BY <1>2 DEF L!Push, c
<1>4. QED BY <1>2, <1>3 DEF Promised, L!Next

\* as_cstr: the first NUL is the one just pushed, so that C sees the whole string.
LEMMA AsCstrIs ==
  ASSUME Inv, as_cstr
  PROVE  Kept /\ Promised /\ Inside /\ KeepsRoom
<1>1. /\ Alive /\ type = "string_t" /\ Chars(list)
      /\ list.len \in Nat /\ list.capacity \in Nat /\ list \in Structure
  BY ListFacts DEF as_cstr, Of, Inv
<1>2. CASE ~Room(list)
  <2> DEFINE c == <<"cstr">>
  <2>1. Strays("write", list, c) /\ c[1] # "file" /\ c[1] = "cstr"
    BY <1>2 DEF as_cstr
  <2> HIDE DEF c
  <2>2. QED BY <1>1, <1>2, <2>1, Strayed
<1>3. CASE Room(list)
  <2> DEFINE a == Appended(list, NULL)
             m == [a EXCEPT !.len = a.len - 1]
             ends == CHOOSE i \in 0 .. m.len : m.ptr[i] = NULL /\ \A j \in 0 .. i - 1 : m.ptr[j] # NULL
             c == <<"cstr", [i \in 1 .. ends |-> m.ptr[i - 1]]>>
  <2>1. Returns(m, c)
    BY <1>3 DEF as_cstr
  <2>2. NULL \in Cell /\ list \in Roomy
    BY <1>1, <1>3 DEF Cell, Roomy, Room
  <2>3. /\ a \in Roomy /\ a.len = list.len + 1 /\ a.ptr[list.len] = NULL
        /\ \A j \in 0 .. list.len - 1 : a.ptr[j] = list.ptr[j]
    BY <2>2, AppendedChar
  <2> HIDE DEF a
  <2>4. /\ m \in Structure /\ m.len = list.len /\ m.capacity = a.capacity /\ m.ptr = a.ptr
        /\ a.capacity \in Nat /\ list.len + 1 < a.capacity
    <3>1. a \in Structure /\ a.capacity \in Nat /\ a.len - 1 \in Nat /\ a.len - 1 = list.len
          /\ list.len + 1 < a.capacity
      BY <1>1, <2>3, Fields DEF Roomy
    <3>2. QED BY <3>1, WithLen
  <2> HIDE DEF m
  <2>5. Sound(m) /\ Room(m) /\ Same(list, m, list.len)
    BY <1>1, <2>3, <2>4 DEF Sound, Room, Same
  <2>6. \A j \in 0 .. list.len - 1 : m.ptr[j] \in Elem /\ m.ptr[j] # NULL
    BY <1>1, <2>5, ElemAssumption DEF Chars, Same
  <2>7. ends = list.len
    <3>1. m.ptr[list.len] = NULL /\ list.len \in 0 .. m.len
      BY <1>1, <2>3, <2>4
    <3>2. \A i \in 0 .. m.len : m.ptr[i] = NULL => i = list.len
      BY <1>1, <2>4, <2>6
    <3>3. \E i \in 0 .. m.len : m.ptr[i] = NULL /\ \A j \in 0 .. i - 1 : m.ptr[j] # NULL
      BY <2>6, <3>1
    <3>4. QED BY <3>2, <3>3
  <2> HIDE DEF ends
  <2>8. c = <<"cstr", Items(m)>>
    BY <2>4, <2>7 DEF Items
  <2>9. list' = m /\ call' = c
    BY <2>1 DEF Returns
  <2>10. c[1] # "file"
    OBVIOUS
  <2> HIDE DEF c
  <2>11. Items(list)' = Items(list) /\ Chars(m)
    BY <1>1, <2>4, <2>5, <2>9, SameStep
  <2>12. L!AsCstr
    BY <2>8, <2>9, <2>11 DEF L!AsCstr
  <2>13. Kept /\ Inside /\ KeepsRoom
    BY <1>1, <2>1, <2>5, <2>10, <2>11, Returned
  <2>14. QED BY <2>12, <2>13 DEF Promised, L!Next
<1>4. QED BY <1>2, <1>3

\* get_str: where the index is past the last character, it shows a leftover.
LEMMA GetStrIs ==
  ASSUME Inv, NEW i \in Size, get_str(i)
  PROVE  Kept /\ Promised /\ Inside /\ KeepsRoom
<1> DEFINE c == <<"get", i, IF i < list.capacity THEN list.ptr[i] ELSE NULL>>
<1>1. /\ Alive /\ type = "string_t" /\ Returns(list, c) /\ list' = list /\ call' = c
      /\ c[1] # "file" /\ c[1] = "get" /\ c[2] = i
  BY DEF get_str, Of, Returns
<1>2. /\ i \in Nat /\ list.len \in Nat /\ list.capacity \in Nat /\ list.len <= list.capacity
      /\ Len(Items(list)) = list.len
  BY ElemAssumption, ListFacts DEF Size
<1>3. Kept /\ Inside /\ KeepsRoom
  <2> HIDE DEF c
  <2>1. QED BY <1>1, Returned DEF Inv
<1>4. CASE i < list.len
  <2>1. Items(list)[i + 1] = list.ptr[i] /\ i < list.capacity
    BY <1>2, <1>4, ListFacts
  <2>2. c = <<"get", i, Items(list)[i + 1]>>
    BY <2>1
  <2> HIDE DEF c
  <2>3. L!Get(i)
    BY <1>1, <1>2, <1>4, <2>2 DEF L!Get
  <2>4. QED BY <1>3, <2>3 DEF Promised, L!Next
<1>5. CASE i >= list.len
  <2> HIDE DEF c
  <2>1. ShowsLeftover
    BY <1>1, <1>5 DEF ShowsLeftover
  <2>2. QED BY <1>3, <2>1 DEF Promised
<1>6. QED BY <1>2, <1>4, <1>5

\* insert_str is right at both ends; between them it misplaces the character, and
\* may write outside the block.
LEMMA InsertStrIs ==
  ASSUME Inv, NEW i \in Size, NEW e \in Elem, insert_str(i, e)
  PROVE  Kept /\ Promised /\ Inside /\ KeepsRoom
<1> DEFINE c == <<"insert", i, e>>
           h == [list EXCEPT !.len = list.len + 1]
           g == grow(h)
           k == Move(g, i + 1, i, g.len - i)
           m == Put(k, 2 * i, e)
<1>1. /\ Alive /\ type = "string_t" /\ i <= list.len
      /\ c[1] # "file" /\ c[1] = "insert" /\ c[2] = i /\ c[1] \in {"push", "insert"}
      /\ i \in Nat /\ list.len \in Nat /\ list.capacity \in Nat /\ list.len <= list.capacity
      /\ list \in Structure /\ e \in Cell
  BY ListFacts, ElemAssumption DEF insert_str, Of, Size, Cell
<1>2. CASE i = list.len
  <2>1. PushStr(e, c)
    BY <1>2 DEF insert_str
  <2> HIDE DEF c
  <2>2. /\ Kept /\ Inside /\ KeepsRoom
        /\ ~Alive' \/ (call' = c /\ Items(list)' = Append(Items(list), e))
    BY <1>1, <2>1, PushStrStep
  <2>3. L!InsertAt(Items(list), i + 1, e) = Append(Items(list), e)
    BY <1>1, <1>2, InsertAtEnd
  <2>4. ~Alive' \/ L!Insert(i, e)
    <3>1. i <= Len(Items(list))
      BY <1>1, ListFacts
    <3>2. QED BY <2>2, <2>3, <3>1 DEF L!Insert, c
  <2>5. QED BY <2>2, <2>4 DEF Promised, L!Next
<1>3. CASE i # list.len
  <2>1. h \in Structure /\ h.len = list.len + 1 /\ h.capacity = list.capacity /\ h.ptr = list.ptr
    BY <1>1, WithLen
  <2>2. h.len <= h.capacity + 1
    BY <1>1, <2>1
  <2> HIDE DEF h
  <2>3. /\ g \in Structure /\ g.len = list.len + 1 /\ list.len + 1 < g.capacity
        /\ \A j \in 0 .. list.capacity - 1 : g.ptr[j] = list.ptr[j]
    BY <2>1, <2>2, GrowMakesRoom
  <2> HIDE DEF g
  <2>4. i + 1 \in Nat /\ g.len - i \in Int /\ g.capacity \in Nat
    BY <1>1, <2>3, Fields
  <2>5. /\ k \in Structure /\ k.len = g.len /\ k.capacity = g.capacity
        /\ \A j \in 0 .. g.capacity - 1 :
             /\ j \notin i + 1 .. (i + 1) + (g.len - i) - 1 => k.ptr[j] = g.ptr[j]
             /\ j \in i + 1 .. (i + 1) + (g.len - i) - 1 /\ j - (i + 1) + i < g.capacity
                  => k.ptr[j] = g.ptr[j - (i + 1) + i]
    <3> DEFINE dst == i + 1
               n == g.len - i
               x == Move(g, dst, i, n)
    <3>1. dst \in Nat /\ n \in Int /\ i \in Nat /\ g \in Structure
      BY <1>1, <2>3, <2>4
    <3> HIDE DEF dst, n
    <3>2. /\ x \in Structure /\ x.len = g.len /\ x.capacity = g.capacity
          /\ \A j \in 0 .. g.capacity - 1 :
               /\ j \notin dst .. dst + n - 1 => x.ptr[j] = g.ptr[j]
               /\ j \in dst .. dst + n - 1 /\ j - dst + i < g.capacity
                    => x.ptr[j] = g.ptr[j - dst + i]
      BY <3>1, MoveCells, ZenonT(60)
    <3>3. QED BY <3>2 DEF dst, n
  <2>6. \/ 2 * i < g.capacity /\ Returns(m, c)
        \/ ~(2 * i < g.capacity) /\ Strays("write", list, c)
    <3>1. k.capacity = g.capacity
      BY <2>5
    <3>2. QED BY <1>3, <3>1 DEF insert_str, h, g, k
  <2> HIDE DEF k
  <2>7. CASE ~(2 * i < g.capacity) /\ Strays("write", list, c)
    <3>1. c[2] \in 1 .. list.len - 1
      BY <1>1, <1>3, <2>3, <2>4, <2>7
    <3> HIDE DEF c
    <3>2. QED BY <1>1, <2>7, <3>1, Strayed
  <2>8. CASE 2 * i < g.capacity /\ Returns(m, c)
    <3>1. /\ m \in Structure /\ m.len = list.len + 1 /\ m.capacity = g.capacity
          /\ \A j \in 0 .. g.capacity - 1 : m.ptr[j] = IF j = 2 * i THEN e ELSE k.ptr[j]
      BY <1>1, <2>3, <2>5, PutCell
    <3> HIDE DEF m
    <3>2. Sound(m) /\ Room(m)
      BY <1>1, <2>3, <2>4, <3>1 DEF Sound, Room
    <3>3. ASSUME NEW j \in 0 .. list.len
          PROVE  k.ptr[j] = IF j <= i THEN list.ptr[j] ELSE list.ptr[j - 1]
      <4>1. j \in 0 .. g.capacity - 1
        BY <1>1, <2>3, <2>4
      <4>2. CASE j <= i
        <5>1. j \notin i + 1 .. (i + 1) + (g.len - i) - 1 /\ j \in 0 .. list.capacity - 1
          BY <1>1, <1>3, <2>4, <4>2
        <5>2. QED BY <2>3, <2>5, <4>1, <4>2, <5>1
      <4>3. CASE j > i
        <5>1. /\ j \in i + 1 .. (i + 1) + (g.len - i) - 1 /\ j - (i + 1) + i < g.capacity
              /\ j - (i + 1) + i = j - 1 /\ ~(j <= i) /\ j - 1 \in 0 .. list.capacity - 1
          BY <1>1, <2>3, <2>4, <4>1, <4>3
        <5>2. QED BY <2>3, <2>5, <4>1, <5>1
      <4>4. QED BY <1>1, <4>2, <4>3
    <3>4. Chars(m)
      <4>1. Chars(list)
        BY <1>1 DEF Inv
      <4>2. ASSUME NEW j \in 0 .. m.len - 1 PROVE m.ptr[j] \in Elem
        <5>1. j \in 0 .. list.len /\ j \in 0 .. g.capacity - 1
          BY <1>1, <2>3, <2>4, <3>1
        <5>2. k.ptr[j] \in Elem
          <6>1. IF j <= i THEN j \in 0 .. list.len - 1 ELSE j - 1 \in 0 .. list.len - 1
            BY <1>1, <1>3, <5>1
          <6>2. QED BY <3>3, <4>1, <5>1, <6>1 DEF Chars
        <5>3. QED BY <3>1, <5>1, <5>2
      <4>3. QED BY <4>2 DEF Chars
    <3>5. Kept /\ Inside /\ KeepsRoom
      <4> HIDE DEF c
      <4>1. QED BY <1>1, <2>8, <3>2, <3>4, Returned
    <3>6. list' = m /\ call' = c
      BY <2>8 DEF Returns
    <3>7. CASE i = 0
      <4>1. \A j \in 0 .. list.len :
              m.ptr[j] = IF j < i THEN list.ptr[j] ELSE IF j = i THEN e ELSE list.ptr[j - 1]
        <5>1. ASSUME NEW j \in 0 .. list.len
              PROVE  m.ptr[j] = IF j < i THEN list.ptr[j] ELSE IF j = i THEN e ELSE list.ptr[j - 1]
          <6>1. j \in 0 .. g.capacity - 1 /\ (j = 2 * i <=> j = i) /\ ~(j < i) /\ (j <= i <=> j = i)
            BY <1>1, <2>3, <2>4, <3>7
          <6>2. QED BY <3>1, <3>3, <6>1
        <5>2. QED BY <5>1
      <4>2. i \in 0 .. list.len /\ i <= Len(Items(list))
        BY <1>1, ListFacts
      <4>3. Items(m) = InsertAt(Items(list), i + 1, e)
        BY <1>1, <3>1, <3>2, <4>1, <4>2, ItemsInserted DEF Inv
      <4>4. Items(m) = L!InsertAt(Items(list), i + 1, e)
        BY <4>3 DEF InsertAt, L!InsertAt
      <4>5. L!Insert(i, e)
        BY <3>6, <4>2, <4>4 DEF L!Insert
      <4>6. QED BY <3>5, <4>5 DEF Promised, L!Next
    <3>8. CASE i # 0
      <4>1. i \in 1 .. list.len - 1
        BY <1>1, <1>3, <3>8
      <4> HIDE DEF c
      <4>2. Misplaces
        BY <1>1, <3>6, <4>1 DEF Misplaces
      <4>3. QED BY <3>5, <4>2 DEF Promised
    <3>9. QED BY <3>7, <3>8
  <2>9. QED BY <2>6, <2>7, <2>8
<1>4. QED BY <1>2, <1>3

\* push_cstr_str always makes enough room for what it copies.
LEMMA PushCstrIs ==
  ASSUME Inv, NEW s \in Lists, push_cstr_str(s)
  PROVE  Kept /\ Promised /\ Inside /\ KeepsRoom
<1> DEFINE c == <<"append", s>>
           n == Len(s)
           kept == IF list.len * 2 < list.capacity THEN list.len * 2 ELSE list.capacity
           l == IF list.capacity <= list.len + n THEN realloc(list, kept + n) ELSE list
           k == Copy(l, list.len, s)
           m == [k EXCEPT !.len = k.len + n]
<1>1. /\ Alive /\ type = "string_t" /\ Chars(list) /\ s \in Seq(Elem)
      /\ list.len \in Nat /\ list.capacity \in Nat /\ list.len <= list.capacity /\ list \in Structure
      /\ c[1] # "file" /\ c[1] \in {"from", "clone", "resize", "append"}
  BY ElemAssumption, ListFacts DEF push_cstr_str, Of, Inv
<1>2. n \in Nat /\ \A j \in 1 .. n : s[j] \in Elem
  BY <1>1, LenProperties, ElementOfSeq
<1>3. kept \in Nat /\ list.len <= kept
  BY <1>1
<1>4. \/ list.len + n > l.capacity /\ Strays("write", list, c)
      \/ ~(list.len + n > l.capacity) /\ Returns(m, c)
  BY DEF push_cstr_str
<1>5. /\ l \in Structure /\ l.len = list.len /\ list.len + n <= l.capacity
      /\ \A j \in 0 .. list.len - 1 : l.ptr[j] = list.ptr[j]
  <2>1. CASE list.capacity <= list.len + n
    <3> DEFINE x == kept + n
               r == realloc(list, x)
    <3>1. x \in Nat /\ list.len + n <= x
      BY <1>1, <1>2, <1>3
    <3>2. l = r
      BY <2>1
    <3> HIDE DEF l, x, kept, n
    <3>3. /\ r \in Structure /\ r.len = list.len /\ r.capacity = x
          /\ \A j \in 0 .. x - 1 : j < list.capacity => r.ptr[j] = list.ptr[j]
      BY <1>1, <3>1, ReallocKeeps, ZenonT(60)
    <3>4. \A j \in 0 .. list.len - 1 : j \in 0 .. x - 1 /\ j < list.capacity
      BY <1>1, <1>2, <3>1
    <3> HIDE DEF r
    <3>5. QED BY <3>1, <3>2, <3>3, <3>4
  <2>2. CASE ~(list.capacity <= list.len + n)
    BY <1>1, <1>2, <2>2
  <2>3. QED BY <2>1, <2>2
<1> HIDE DEF l, kept
<1>6. l.capacity \in Nat
  BY <1>5, Fields
<1>7. Returns(m, c)
  BY <1>1, <1>2, <1>4, <1>5, <1>6
<1>8. /\ k \in Structure /\ k.len = list.len /\ k.capacity = l.capacity
      /\ \A j \in 0 .. l.capacity - 1 :
           k.ptr[j] = IF j \in list.len .. list.len + n - 1 THEN s[j - list.len + 1] ELSE l.ptr[j]
  BY <1>1, <1>5, CopyCells, ZenonT(60)
<1> HIDE DEF k
<1>9. m \in Structure /\ m.len = list.len + n /\ m.capacity = l.capacity /\ m.ptr = k.ptr
  <2>1. k.len + n \in Nat /\ k.len + n = list.len + n
    BY <1>1, <1>2, <1>8
  <2>2. QED BY <1>8, <2>1, WithLen
<1> HIDE DEF m
<1>10. Same(list, m, list.len)
  <2>1. \A j \in 0 .. list.len - 1 : j \in 0 .. l.capacity - 1 /\ j \notin list.len .. list.len + n - 1
    BY <1>1, <1>2, <1>5, <1>6
  <2>2. QED BY <1>5, <1>8, <1>9, <2>1 DEF Same
<1>11. \A i \in 1 .. n : m.ptr[list.len + i - 1] = s[i]
  <2>1. ASSUME NEW i \in 1 .. n PROVE m.ptr[list.len + i - 1] = s[i]
    <3>1. /\ list.len + i - 1 \in 0 .. l.capacity - 1
          /\ list.len + i - 1 \in list.len .. list.len + n - 1
          /\ (list.len + i - 1) - list.len + 1 = i
      BY <1>1, <1>2, <1>5, <1>6
    <3>2. QED BY <1>8, <1>9, <3>1
  <2>2. QED BY <2>1
<1>12. Sound(m)
  BY <1>5, <1>9 DEF Sound
<1>13. Chars(m)
  <2>1. ASSUME NEW j \in 0 .. m.len - 1 PROVE m.ptr[j] \in Elem
    <3>1. CASE j < list.len
      BY <1>1, <1>10, <3>1 DEF Chars, Same
    <3>2. CASE j >= list.len
      <4>1. j - list.len + 1 \in 1 .. n /\ list.len + (j - list.len + 1) - 1 = j
        BY <1>1, <1>2, <1>9, <3>2
      <4>2. QED BY <1>2, <1>11, <4>1
    <3>3. QED BY <1>1, <3>1, <3>2
  <2>2. QED BY <2>1 DEF Chars
<1>14. L!Extend(s)
  <2>1. Items(m) = Items(list) \o s
    BY <1>1, <1>9, <1>10, <1>11, <1>12, ItemsExtended DEF Inv
  <2>2. list' = m /\ call' = c
    BY <1>7 DEF Returns
  <2>3. QED BY <2>1, <2>2 DEF L!Extend
<1> HIDE DEF c
<1>15. Kept /\ Inside /\ KeepsRoom
  BY <1>1, <1>7, <1>12, <1>13, Returned
<1>16. QED BY <1>14, <1>15 DEF Promised, L!Next

\* A string made of the elements of a sequence holds characters, if they are.
LEMMA ExactChars ==
  ASSUME NEW s \in Seq(Elem)
  PROVE  Sound(Exact(s)) /\ Chars(Exact(s)) /\ Items(Exact(s)) = s
<1>1. s \in Seq(Cell)
  BY SeqMonotonic DEF Cell
<1>2. Exact(s).len = Len(s) /\ \A j \in 0 .. Len(s) - 1 : Exact(s).ptr[j] = s[j + 1]
  BY DEF Exact
<1>3. \A j \in 0 .. Len(s) - 1 : s[j + 1] \in Elem
  <2>1. Len(s) \in Nat
    BY LenProperties
  <2>2. \A j \in 0 .. Len(s) - 1 : j + 1 \in 1 .. Len(s)
    BY <2>1
  <2>3. QED BY <2>2, ElementOfSeq
<1>4. QED BY <1>1, <1>2, <1>3, ItemsExact DEF Chars

\* from_cstr_str
LEMMA FromCstrIs ==
  ASSUME Inv, NEW s \in Lists, from_cstr_str(s)
  PROVE  Kept /\ Promised /\ Inside /\ KeepsRoom
<1> DEFINE c == <<"from", s>>
<1>1. /\ Alive /\ type = "string_t" /\ Returns(Exact(s), c) /\ s \in Seq(Elem)
      /\ c[1] # "file" /\ c[1] \in {"from", "clone", "resize", "append"}
      /\ list' = Exact(s) /\ call' = c
  BY ElemAssumption DEF from_cstr_str, Of, Returns
<1>2. Sound(Exact(s)) /\ Chars(Exact(s)) /\ Items(Exact(s)) = s
  BY <1>1, ExactChars
<1>3. L!Become(s)
  BY <1>1, <1>2 DEF L!Become
<1> HIDE DEF c
<1>4. Kept /\ Inside /\ KeepsRoom
  BY <1>1, <1>2, Returned
<1>5. QED BY <1>3, <1>4 DEF Promised, L!Next

\* clone_str
LEMMA CloneStrIs ==
  ASSUME Inv, clone_str
  PROVE  Kept /\ Promised /\ Inside /\ KeepsRoom
<1> DEFINE c == <<"clone">>
           m == Exact(Items(list))
<1>1. /\ Alive /\ type = "string_t" /\ Chars(list) /\ Returns(m, c)
      /\ c[1] # "file" /\ c[1] \in {"from", "clone", "resize", "append"}
      /\ list' = m /\ call' = c
  BY DEF clone_str, Of, Returns, Inv
<1>2. Items(list) \in Seq(Elem)
  <2> DEFINE s == Items(list)
             n == list.len
  <2>1. n \in Nat /\ s \in Seq(Cell) /\ Len(s) = n /\ \A i \in 1 .. n : s[i] = list.ptr[i - 1]
    BY ListFacts
  <2>2. \A i \in 1 .. n : s[i] \in Elem
    <3>1. \A i \in 1 .. n : i - 1 \in 0 .. n - 1
      BY <2>1
    <3>2. QED BY <1>1, <2>1, <3>1 DEF Chars
  <2> HIDE DEF s, n
  <2>3. s \in [1 .. n -> Elem]
    BY <2>1, <2>2, LenProperties
  <2>4. s \in Seq(Elem)
    BY <2>1, <2>3, SeqDef
  <2>5. QED BY <2>4 DEF s
<1>3. Sound(m) /\ Chars(m) /\ Items(m) = Items(list)
  BY <1>2, ExactChars
<1> HIDE DEF m
<1>4. L!Clone
  BY <1>1, <1>3 DEF L!Clone
<1> HIDE DEF c
<1>5. Kept /\ Inside /\ KeepsRoom
  BY <1>1, <1>3, Returned
<1>6. QED BY <1>4, <1>5 DEF Promised, L!Next

\* reverse_str
LEMMA ReverseIs ==
  ASSUME Inv, reverse_str
  PROVE  Kept /\ Promised /\ Inside /\ KeepsRoom
<1> DEFINE c == <<"reverse">>
           m == Swapped(list)
<1>1. /\ Alive /\ type = "string_t" /\ Chars(list) /\ Returns(m, c) /\ c[1] # "file"
      /\ list' = m /\ call' = c
      /\ list.len \in Nat /\ list.capacity \in Nat /\ list.len <= list.capacity /\ list \in Structure
  BY ListFacts DEF reverse_str, Of, Returns, Inv
<1>2. /\ m \in Structure /\ m.len = list.len /\ m.capacity = list.capacity
      /\ \A j \in 0 .. list.len - 1 : m.ptr[j] = list.ptr[list.len - 1 - j]
  BY <1>1, SwappedAll
<1> HIDE DEF m
<1>3. Sound(m) /\ (Room(list) => Room(m))
  BY <1>1, <1>2 DEF Sound, Room
<1>4. Chars(m)
  <2>1. \A j \in 0 .. list.len - 1 : list.len - 1 - j \in 0 .. list.len - 1
    BY <1>1
  <2>2. QED BY <1>1, <1>2, <2>1 DEF Chars
<1>5. L!Turn
  <2>1. Items(m) = Reverse(Items(list))
    BY <1>2, <1>3, ItemsReversed DEF Inv
  <2>2. Items(m) = L!Reverse(Items(list))
    BY <2>1 DEF Reverse, L!Reverse
  <2>3. QED BY <1>1, <2>2 DEF L!Turn
<1> HIDE DEF c
<1>6. Kept /\ Inside /\ KeepsRoom
  BY <1>1, <1>3, <1>4, Returned
<1>7. QED BY <1>5, <1>6 DEF Promised, L!Next

\* iterate_str
LEMMA IterateStrIs ==
  ASSUME Inv, iterate_str
  PROVE  Kept /\ Promised /\ Inside /\ KeepsRoom
<1> DEFINE c == <<"iterate">>
<1>1. Alive /\ type = "string_t" /\ c[1] # "file" /\ c = <<"iterate">>
  BY DEF iterate_str, Of
<1>2. CASE list.null
  <2>1. Strays("null", list, c) /\ list.capacity = 0
    BY <1>2, ListFacts, Fields DEF iterate_str
  <2> HIDE DEF c
  <2>2. QED BY <1>1, <2>1, Strayed
<1>3. CASE ~list.null
  BY <1>1, <1>3, VisitStep DEF iterate_str
<1>4. QED BY <1>2, <1>3

\* Every step of a string.
LEMMA StrStep ==
  ASSUME Inv, NextStr
  PROVE  Kept /\ Promised /\ Inside /\ KeepsRoom
<1>1. ASSUME NEW e \in Elem, push_str(e) PROVE Kept /\ Promised /\ Inside /\ KeepsRoom
  BY <1>1, PushStrIs
<1>2. ASSUME NEW e \in Elem, NEW i \in Size, set_str(i, e)
      PROVE  Kept /\ Promised /\ Inside /\ KeepsRoom
  BY <1>2, SetStep DEF set_str, Of
<1>3. ASSUME NEW e \in Elem, NEW i \in Size, insert_str(i, e)
      PROVE  Kept /\ Promised /\ Inside /\ KeepsRoom
  BY <1>3, InsertStrIs
<1>4. ASSUME NEW i \in Size, get_str(i) PROVE Kept /\ Promised /\ Inside /\ KeepsRoom
  BY <1>4, GetStrIs
<1>5. ASSUME NEW i \in Size, remove_str(i) PROVE Kept /\ Promised /\ Inside /\ KeepsRoom
  BY <1>5, RemoveStrIs
<1>6. ASSUME NEW i \in Size, resize_str(i) PROVE Kept /\ Promised /\ Inside /\ KeepsRoom
  BY <1>6, ResizeStep DEF resize_str, Of
<1>7. ASSUME NEW i \in Size, reserve_str(i) PROVE Kept /\ Promised /\ Inside /\ KeepsRoom
  BY <1>7, ReserveStep DEF reserve_str, Of
<1>8. ASSUME NEW s \in Lists, push_cstr_str(s) PROVE Kept /\ Promised /\ Inside /\ KeepsRoom
  BY <1>8, PushCstrIs
<1>9. ASSUME NEW s \in Lists, from_cstr_str(s) PROVE Kept /\ Promised /\ Inside /\ KeepsRoom
  BY <1>9, FromCstrIs
<1>10. CASE as_cstr
  BY <1>10, AsCstrIs
<1>11. CASE pop_str
  BY <1>11, PopStep DEF pop_str, Of
<1>12. CASE clear_str
  BY <1>12, ClearStep DEF clear_str, Of
<1>13. CASE clone_str
  BY <1>13, CloneStrIs
<1>14. CASE reverse_str
  BY <1>14, ReverseIs
<1>15. CASE iterate_str
  BY <1>15, IterateStrIs
<1>16. QED
  BY <1>1, <1>2, <1>3, <1>4, <1>5, <1>6, <1>7, <1>8, <1>9, <1>10, <1>11, <1>12, <1>13, <1>14,
     <1>15 DEF NextStr

-----------------------------------------------------------------------------
(***************************************************************************)
(* Reading a file.                                                         *)
(***************************************************************************)
\* The first end byte, if there is one: what SelectInSeq finds.
LEMMA EndFound ==
  ASSUME NEW s \in Seq(Elem \cup {EndByte})
  PROVE  \/ EndIn(s) = 0 /\ \A i \in 1 .. Len(s) : s[i] # EndByte
         \/ /\ EndIn(s) \in 1 .. Len(s) /\ s[EndIn(s)] = EndByte
            /\ \A i \in 1 .. EndIn(s) - 1 : s[i] # EndByte
<1> DEFINE I == {i \in 1 .. Len(s) : s[i] = EndByte}
<1>1. EndIn(s) = IF I # {} THEN Min(I) ELSE 0
  BY DEF EndIn, SelectInSeq
<1>2. Len(s) \in Nat
  BY LenProperties
<1>3. CASE I = {}
  BY <1>1, <1>3
<1>4. CASE I # {}
  <2>1. I \subseteq Nat
    OBVIOUS
  <2>2. \E x \in I : \A y \in I : x <= y
    <3> HIDE DEF I
    <3>1. QED BY <1>4, <2>1, LeastNumber
  <2>3. Min(I) \in I /\ \A y \in I : Min(I) <= y
    <3> HIDE DEF I
    <3>1. QED BY <2>2 DEF Min
  <2>4. EndIn(s) \in I /\ \A y \in I : EndIn(s) <= y
    BY <1>1, <1>4, <2>3
  <2>5. QED BY <1>2, <2>4
<1>5. QED BY <1>3, <1>4

\* read_file_to_str, from a string without characters that has room for one.
LEMMA FileRead ==
  ASSUME NEW f \in Files
  PROVE  LET m == ReadFile(f)
         IN /\ Sound(m) /\ Chars(m) /\ Room(m)
            /\ Items(m) = SubSeq(f, 1, m.len)
            /\ m.len = Len(f) \/ f[m.len + 1] = EndByte
<1> DEFINE ends == EndIn(f)
           n == IF ends = 0 THEN Len(f) ELSE ends - 1
           l == NewStr(2)
           m == AllAppended(l, f, n)
<1>1. f \in Seq(Elem \cup {EndByte})
  BY FilesAssumption
<1>2. Len(f) \in Nat /\ \A i \in 1 .. Len(f) : f[i] \in Elem \cup {EndByte}
  BY <1>1, LenProperties, ElementOfSeq
<1>3. \/ ends = 0 /\ \A i \in 1 .. Len(f) : f[i] # EndByte
      \/ /\ ends \in 1 .. Len(f) /\ f[ends] = EndByte
         /\ \A i \in 1 .. ends - 1 : f[i] # EndByte
  BY <1>1, EndFound
<1> HIDE DEF ends
<1>4. /\ n \in Nat /\ n <= Len(f)
      /\ \A i \in 1 .. n : f[i] # EndByte
      /\ n = Len(f) \/ f[n + 1] = EndByte
  BY <1>2, <1>3
<1>5. \A i \in 1 .. n : f[i] \in Elem /\ f[i] \in Cell
  BY <1>2, <1>4 DEF Cell
<1>6. ReadFile(f) = m
  BY DEF ReadFile, ends
<1> HIDE DEF n
<1>7. l \in Roomy /\ l.len = 0
  <2>1. /\ Cells(2, Junk) \in [0 .. 2 - 1 -> Cell] /\ FALSE \in BOOLEAN /\ (FALSE => 2 = 0)
        /\ 0 \in Nat /\ 2 \in Nat
    BY DEF Cells, Cell
  <2>2. [len |-> 0, capacity |-> 2, null |-> FALSE, ptr |-> Cells(2, Junk)] \in Structure
    BY <2>1, StructureOf
  <2>3. QED BY <2>2 DEF Roomy, NewStr
<1> HIDE DEF l
<1>8. m \in Roomy /\ m.len = l.len + n /\ \A k \in 1 .. n : m.ptr[l.len + k - 1] = f[k]
  BY <1>4, <1>5, <1>7, AppendedAll
<1> HIDE DEF m
<1>9. m.len = n /\ Sound(m) /\ Room(m) /\ \A k \in 1 .. n : m.ptr[k - 1] = f[k]
  <2>1. l.len + n = n /\ \A k \in 1 .. n : l.len + k - 1 = k - 1
    BY <1>4, <1>7
  <2>2. m \in Structure /\ m.len < m.capacity /\ m.len \in Nat /\ m.capacity \in Nat
    BY <1>8, Fields DEF Roomy
  <2>3. QED BY <1>8, <2>1, <2>2 DEF Sound, Room
<1>10. Chars(m)
  <2>1. \A j \in 0 .. n - 1 : j + 1 \in 1 .. n /\ (j + 1) - 1 = j
    BY <1>4
  <2>2. QED BY <1>5, <1>9, <2>1 DEF Chars
<1>11. Items(m) = SubSeq(f, 1, n)
  <2> DEFINE t == SubSeq(f, 1, n)
  <2>1. /\ t \in Seq(Cell) /\ Len(t) = IF 1 <= n THEN n - 1 + 1 ELSE 0
        /\ \A k \in 1 .. n - 1 + 1 : t[k] = f[1 + k - 1]
    BY <1>4, <1>5, SubSeqProperties
  <2> HIDE DEF t
  <2>2. Len(t) = n /\ \A k \in 1 .. n : t[k] = m.ptr[k - 1]
    BY <1>4, <1>9, <2>1
  <2>3. Items(m) = t
    BY <1>9, <2>1, <2>2, ItemsAre
  <2>4. QED BY <2>3 DEF t
<1>12. QED BY <1>4, <1>6, <1>9, <1>10, <1>11

-----------------------------------------------------------------------------
(***************************************************************************)
(* The theorems.                                                           *)
(***************************************************************************)
\* A vector or a string is made with a sound structure.
LEMMA InitInv == ASSUME Init PROVE Inv /\ FileIsRead
<1>1. CASE InitVec
  <2>1. PICK n \in 0 .. 2 : list = [len |-> 0, capacity |-> n, null |-> FALSE, ptr |-> Cells(n, NULL)]
    BY <1>1 DEF InitVec
  <2>2. list \in Structure
    <3>1. /\ Cells(n, NULL) \in [0 .. n - 1 -> Cell] /\ FALSE \in BOOLEAN /\ (FALSE => n = 0)
          /\ 0 \in Nat /\ n \in Nat
      BY DEF Cells, Cell
    <3>2. QED BY <2>1, <3>1, StructureOf
  <2>3. Sound(list)
    BY <2>1, <2>2 DEF Sound
  <2>4. QED BY <1>1, <2>3 DEF InitVec, Inv, Outside, FileIsRead
<1>2. CASE type = "string_t" /\ outside = "no" /\ list = NewStr(0) /\ call = <<"new">>
  <2>1. list \in Structure /\ list.len = 0 /\ list.capacity = 0
    <3>1. /\ Cells(0, Junk) \in [0 .. 0 - 1 -> Cell] /\ FALSE \in BOOLEAN /\ (FALSE => 0 = 0)
          /\ 0 \in Nat
      BY DEF Cells, Cell
    <3>2. list = [len |-> 0, capacity |-> 0, null |-> FALSE, ptr |-> Cells(0, Junk)]
      BY <1>2 DEF NewStr
    <3>3. QED BY <3>1, <3>2, StructureOf
  <2>2. Sound(list) /\ Chars(list)
    BY <2>1 DEF Sound, Chars
  <2>3. QED BY <1>2, <2>2 DEF Inv, Outside, FileIsRead
<1>3. ASSUME NEW f \in Files, type = "string_t", outside = "no", list = ReadFile(f),
             call = <<"file", f>>
      PROVE  Inv /\ FileIsRead
  <2>1. /\ Sound(list) /\ Chars(list) /\ Room(list)
        /\ Items(list) = SubSeq(f, 1, list.len)
        /\ list.len = Len(f) \/ f[list.len + 1] = EndByte
    BY <1>3, FileRead
  <2>2. QED BY <1>3, <2>1 DEF Inv, Outside, FileIsRead
<1>4. QED BY <1>1, <1>2, <1>3 DEF Init, InitStr

\* What every step does.
LEMMA Step == ASSUME Inv, Next PROVE Kept /\ Promised /\ Inside /\ KeepsRoom
  BY VecStep, StrStep DEF Next

\* The invariant holds throughout, and what has been read of a file stays read until
\* the first call.
LEMMA Invariance == Spec => [](Inv /\ FileIsRead)
<1>1. Init => Inv /\ FileIsRead
  BY InitInv
<1>2. Inv /\ FileIsRead /\ [Next]_vars => (Inv /\ FileIsRead)'
  <2>1. ASSUME Inv, FileIsRead, Next PROVE (Inv /\ FileIsRead)'
    <3>1. Inv' /\ call'[1] # "file"
      BY <2>1, Step DEF Kept
    <3>2. QED BY <3>1 DEF FileIsRead
  <2>2. ASSUME Inv, FileIsRead, UNCHANGED vars PROVE (Inv /\ FileIsRead)'
    BY <2>2 DEF vars, Inv, FileIsRead
  <2>3. QED BY <2>1, <2>2
<1>3. QED BY <1>1, <1>2, PTL DEF Spec

\* The length stays within the block, and the block has as many cells as the structure
\* says, whatever sequence of calls.
THEOREM TypesHold == Spec => []TypeOK
<1>1. Inv => TypeOK
  BY Fields DEF Inv, Sound, Outside, TypeOK, Cell
<1>2. QED BY <1>1, Invariance, PTL

\* read_file_to_str reads a file to its end or to the first byte that is taken for it,
\* and leaves a string that is safe to push to.
THEOREM FilesAreRead == Spec => []FileIsRead
  BY Invariance, PTL

\* Both containers do what a sequence would, apart from the four operations named.
THEOREM Refines == Spec => ListsAreSequences
<1>1. Inv /\ [Next]_vars => [L!Next \/ AppendsItself \/ CopiesOver \/ Misplaces \/ ShowsLeftover \/ ~Alive']_(L!vars)
  <2>1. ASSUME Inv, Next PROVE L!Next \/ AppendsItself \/ CopiesOver \/ Misplaces \/ ShowsLeftover \/ ~Alive'
    BY <2>1, Step DEF Promised
  <2>2. ASSUME UNCHANGED vars PROVE UNCHANGED L!vars
    BY <2>2 DEF vars, L!vars
  <2>3. QED BY <2>1, <2>2
<1>2. QED BY <1>1, Invariance, PTL DEF Spec, ListsAreSequences

\* No operation goes outside the block but those named, where they are said to.
THEOREM StaysInside == Spec => AccessesStayInside
<1>1. Inv /\ [Next]_vars => [Inside]_vars
  BY Step
<1>2. QED BY <1>1, Invariance, PTL DEF Spec, AccessesStayInside, Inside

\* Only a copy, a smaller size and push_cstr_str take the room for one character more.
THEOREM RoomStays == Spec => RoomIsKept
<1>1. Inv /\ [Next]_vars => [KeepsRoom]_vars
  BY Step
<1>2. QED BY <1>1, Invariance, PTL DEF Spec, RoomIsKept, KeepsRoom
=============================================================================
