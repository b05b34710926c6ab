---------------------------------- MODULE Loops ----------------------------------
(***************************************************************************)
(* Induction in the form that the proofs about loops and lists use: what   *)
(* is to be shown is that a set holds everything, so that nothing but sets *)
(* has to be instantiated.                                                 *)
(***************************************************************************)
EXTENDS Integers, TLAPS, WellFoundedInduction, FiniteSetTheorems

\* Every set of natural numbers has a least element.
LEMMA LeastNumber == ASSUME NEW T, T \subseteq Nat, T # {}
                     PROVE  \E x \in T : \A y \in T : x <= y
<1> DEFINE R == OpToRel(<, Nat)
<1>1. IsWellFoundedOn(R, Nat)
  BY NatLessThanWellFounded
<1>2. \E x \in T : \A y \in T : <<y, x>> \notin R
  <2> HIDE DEF R
  <2>1. QED BY <1>1, WFMin
<1>3. \A x, y \in T : y < x => <<y, x>> \in R
  BY DEF OpToRel
<1>4. PICK x \in T : \A y \in T : <<y, x>> \notin R
  BY <1>2
<1>5. \A y \in T : ~(y < x)
  <2> HIDE DEF R
  <2>1. QED BY <1>3, <1>4
<1>6. QED BY <1>5

\* What holds at 0 and goes from each number to the next, holds up to n.
LEMMA UpTo ==
  ASSUME NEW n \in Nat, NEW S, 0 \in S, \A i \in 0 .. n - 1 : i \in S => i + 1 \in S
  PROVE  \A i \in 0 .. n : i \in S
<1> DEFINE T == {i \in 0 .. n : i \notin S}
<1>1. SUFFICES ASSUME T # {} PROVE FALSE
  OBVIOUS
<1>2. PICK i \in T : \A j \in T : i <= j
  <2>1. T \subseteq Nat
    OBVIOUS
  <2> HIDE DEF T
  <2>2. QED BY <1>1, <2>1, LeastNumber
<1>3. i # 0 /\ i - 1 \in 0 .. n - 1
  BY <1>2
<1>4. i - 1 \in S
  BY <1>2, <1>3
<1>5. (i - 1) + 1 = i
  BY <1>2
<1>6. QED BY <1>2, <1>3, <1>4, <1>5

\* A loop of n rounds over the states of S, and the states it goes through.
Rounds(n, S) == [1 .. n -> [S -> S]]
Runs(after, n, S, first, round) ==
  /\ after \in [0 .. n -> S]
  /\ after[0] = first
  /\ \A i \in 1 .. n : after[i] = round[i][after[i - 1]]

\* There is a function that goes through them.
LEMMA LoopExists ==
  ASSUME NEW n \in Nat, NEW S, NEW first \in S, NEW round \in Rounds(n, S)
  PROVE  \E after : Runs(after, n, S, first, round)
<1> USE DEF Rounds
<1> DEFINE Goes(m, g) == /\ g[0] = first
                         /\ \A i \in 1 .. m : g[i] = round[i][g[i - 1]]
           T == {m \in 0 .. n : \E g \in [0 .. m -> S] : Goes(m, g)}
<1>1. 0 \in T
  <2>1. [i \in 0 .. 0 |-> first] \in [0 .. 0 -> S]
    OBVIOUS
  <2>2. Goes(0, [i \in 0 .. 0 |-> first])
    OBVIOUS
  <2> HIDE DEF Goes
  <2>3. QED BY <2>1, <2>2
<1>2. ASSUME NEW m \in 0 .. n - 1, m \in T PROVE m + 1 \in T
  <2>1. PICK g \in [0 .. m -> S] : Goes(m, g)
    BY <1>2
  <2> DEFINE h == [i \in 0 .. m + 1 |-> IF i = m + 1 THEN round[m + 1][g[m]] ELSE g[i]]
  <2>2. g[m] \in S /\ m + 1 \in 1 .. n
    BY <2>1
  <2>3. h \in [0 .. m + 1 -> S]
    BY <2>2
  <2>4. h[0] = first
    BY <2>1
  <2>5. ASSUME NEW i \in 1 .. m + 1 PROVE h[i] = round[i][h[i - 1]]
    <3>1. CASE i = m + 1
      <4>1. h[i - 1] = g[m] /\ h[m + 1] = round[m + 1][g[m]]
        BY <3>1
      <4>2. QED BY <3>1, <4>1
    <3>2. CASE i # m + 1
      <4>1. i \in 1 .. m /\ h[i] = g[i] /\ h[i - 1] = g[i - 1]
        BY <3>2
      <4>2. QED BY <2>1, <4>1
    <3>3. QED BY <3>1, <3>2
  <2>6. Goes(m + 1, h)
    BY <2>4, <2>5
  <2> HIDE DEF Goes, h
  <2>7. QED BY <2>2, <2>3, <2>6
<1>3. n \in T
  <2> HIDE DEF T
  <2>1. \A m \in 0 .. n - 1 : m \in T => m + 1 \in T
    BY <1>2
  <2>2. \A m \in 0 .. n : m \in T
    BY <1>1, <2>1, UpTo
  <2>3. QED BY <2>2
<1>4. QED BY <1>3 DEF Runs

-----------------------------------------------------------------------------
(***************************************************************************)
(* What is ranked from 0 to a bound, like the nodes of lists without a     *)
(* cycle.                                                                  *)
(***************************************************************************)
FromBelow(D, rank, S) == \A a \in D : (\A b \in D : rank[b] < rank[a] => b \in S) => a \in S
FromAbove(D, rank, S) == \A a \in D : (\A b \in D : rank[b] > rank[a] => b \in S) => a \in S

\* From the lower ranks to the higher.
LEMMA Upwards ==
  ASSUME NEW D, NEW bound \in Nat, NEW rank \in [D -> 0 .. bound], NEW S, FromBelow(D, rank, S)
  PROVE  D \subseteq S
<1> DEFINE T == {rank[a] : a \in D \ S}
<1>1. SUFFICES ASSUME T # {} PROVE FALSE
  OBVIOUS
<1>2. T \subseteq Nat
  OBVIOUS
<1>3. PICK r \in T : \A x \in T : r <= x
  <2> HIDE DEF T
  <2>1. QED BY <1>1, <1>2, LeastNumber
<1>4. PICK a \in D \ S : r = rank[a]
  BY <1>3
<1>5. ASSUME NEW b \in D, rank[b] < rank[a] PROVE b \in S
  <2>1. SUFFICES ASSUME b \notin S PROVE FALSE
    OBVIOUS
  <2>2. rank[b] \in T /\ rank[b] \in Nat /\ r \in Nat
    BY <1>2, <2>1
  <2>3. r <= rank[b]
    BY <1>3, <2>2
  <2>4. QED BY <1>4, <1>5, <2>2, <2>3
<1>6. QED BY <1>4, <1>5 DEF FromBelow

\* ... and from the higher to the lower.
LEMMA Downwards ==
  ASSUME NEW D, NEW bound \in Nat, NEW rank \in [D -> 0 .. bound], NEW S, FromAbove(D, rank, S)
  PROVE  D \subseteq S
<1> DEFINE down == [a \in D |-> bound - rank[a]]
<1>1. down \in [D -> 0 .. bound]
  OBVIOUS
<1>2. \A a, b \in D : down[b] < down[a] <=> rank[b] > rank[a]
  OBVIOUS
<1>3. FromBelow(D, down, S)
  <2> HIDE DEF down
  <2>1. QED BY <1>2 DEF FromBelow, FromAbove
<1> HIDE DEF down
<1>4. QED BY <1>1, <1>3, Upwards

\* Recursion along a list: where it does not stop it goes on to a higher rank, and
\* there is a function that it defines.
Rises(D, rank, Stop, next) == \A a \in D \ Stop : rank[a] < rank[next[a]]
Recurs(f, D, Stop, next, last, op) ==
  \A a \in D : f[a] = IF a \in Stop THEN last[a] ELSE op[<<a, f[next[a]]>>]

\* There is one.
LEMMA RecursionExists ==
  ASSUME NEW D, NEW V, NEW bound \in Nat, NEW rank \in [D -> 0 .. bound],
         NEW Stop, NEW next \in [D -> D], Rises(D, rank, Stop, next),
         NEW last \in [D -> V], NEW op \in [D \X V -> V]
  PROVE  \E f \in [D -> V] : Recurs(f, D, Stop, next, last, op)
<1> USE DEF Rises
<1> DEFINE S == [D -> V]
           On(f) == [a \in D |-> IF a \in Stop THEN last[a] ELSE op[<<a, f[next[a]]>>]]
           n == bound + 2
           round == [i \in 1 .. n |-> [f \in S |-> On(f)]]
<1>1. \A f \in S : On(f) \in S
  OBVIOUS
<1>2. PICK after : Runs(after, n, S, last, round)
  <2>1. round \in Rounds(n, S)
    BY <1>1 DEF Rounds
  <2>2. n \in Nat /\ last \in S
    OBVIOUS
  <2> HIDE DEF round, S, n
  <2>3. QED BY <2>1, <2>2, LoopExists
<1>3. \A i \in 0 .. n : after[i] \in S
  BY <1>2 DEF Runs
<1>4. \A i \in 1 .. n : after[i] = On(after[i - 1])
  <2>1. \A i \in 1 .. n : i - 1 \in 0 .. n
    OBVIOUS
  <2>2. QED BY <1>2, <1>3, <2>1 DEF Runs
<1>5. \A f : \A a \in D : On(f)[a] = IF a \in Stop THEN last[a] ELSE op[<<a, f[next[a]]>>]
  OBVIOUS
<1> HIDE DEF round, S, On
<1>6. \A i \in 1 .. n : \A a \in D :
        after[i][a] = IF a \in Stop THEN last[a] ELSE op[<<a, after[i - 1][next[a]]>>]
  BY <1>4, <1>5
\* After i rounds the values of the highest ranks do not change any more.
<1> DEFINE Same(i) == \A a \in D : rank[a] > bound - i => after[i][a] = after[i + 1][a]
           T == {i \in 0 .. bound + 1 : Same(i)}
<1>7. 0 \in T
  OBVIOUS
<1>8. ASSUME NEW i \in 0 .. bound, i \in T PROVE i + 1 \in T
  <2>1. i + 1 \in 1 .. n /\ i + 2 \in 1 .. n /\ (i + 1) - 1 = i /\ (i + 2) - 1 = i + 1
    OBVIOUS
  <2>2. ASSUME NEW a \in D, rank[a] > bound - (i + 1) PROVE after[i + 1][a] = after[i + 2][a]
    <3>1. CASE a \in Stop
      BY <1>6, <2>1, <3>1
    <3>2. CASE a \notin Stop
      <4>1. rank[next[a]] > bound - i /\ next[a] \in D
        BY <2>2, <3>2
      <4>2. after[i][next[a]] = after[i + 1][next[a]]
        BY <1>8, <4>1
      <4>3. after[i + 1][a] = op[<<a, after[i][next[a]]>>]
        BY <1>6, <2>1, <3>2
      <4>4. after[i + 2][a] = op[<<a, after[i + 1][next[a]]>>]
        BY <1>6, <2>1, <3>2
      <4>5. QED BY <4>2, <4>3, <4>4
    <3>3. QED BY <3>1, <3>2
  <2>3. (i + 1) + 1 = i + 2 /\ i + 1 \in 0 .. bound + 1
    OBVIOUS
  <2>4. Same(i + 1)
    BY <2>2, <2>3
  <2> HIDE DEF Same
  <2>5. QED BY <2>3, <2>4
<1>9. bound + 1 \in T
  <2>1. \A i \in 0 .. (bound + 1) - 1 : i \in T => i + 1 \in T
    <3>1. (bound + 1) - 1 = bound
      OBVIOUS
    <3> HIDE DEF T
    <3>2. QED BY <1>8, <3>1
  <2>2. bound + 1 \in Nat
    OBVIOUS
  <2> HIDE DEF T
  <2>3. \A i \in 0 .. bound + 1 : i \in T
    BY <1>7, <2>1, <2>2, UpTo
  <2>4. QED BY <2>3
<1> DEFINE f == after[bound + 1]
           g == after[bound + 2]
<1>10. f \in [D -> V] /\ \A a \in D : f[a] = g[a]
  <2>1. \A a \in D : rank[a] > bound - (bound + 1)
    OBVIOUS
  <2>2. (bound + 1) + 1 = bound + 2 /\ bound + 1 \in 0 .. n
    OBVIOUS
  <2>3. QED BY <1>3, <1>9, <2>1, <2>2 DEF S
<1>11. \A a \in D : g[a] = IF a \in Stop THEN last[a] ELSE op[<<a, f[next[a]]>>]
  <2>1. bound + 2 \in 1 .. n /\ (bound + 2) - 1 = bound + 1
    OBVIOUS
  <2>2. QED BY <1>6, <2>1
<1> HIDE DEF f, g
<1>12. QED BY <1>10, <1>11 DEF Recurs

-----------------------------------------------------------------------------
(***************************************************************************)
(* The sum of the values of a function over a finite set, in whatever      *)
(* order the elements are taken.                                           *)
(***************************************************************************)
First(s) == CHOOSE x \in s : TRUE

\* F is it for every subset of D, and it for the subsets of S is computed as the
\* folds of the community modules do.
Sums(F, g, D) == /\ F \in [SUBSET D -> Int]
                 /\ F[{}] = 0
                 /\ \A S \in SUBSET D : \A x \in S : F[S] = g[x] + F[S \ {x}]
IsFold(it, g, S) ==
  /\ it[{}] = 0
  /\ \A s \in SUBSET S : s # {} => it[s] = g[First(s)] + it[s \ {First(s)}]

\* Subsets of a finite set, by their size.
LEMMA Sizes ==
  ASSUME NEW D, IsFiniteSet(D), NEW S \in SUBSET D
  PROVE  /\ IsFiniteSet(S) /\ Cardinality(S) \in 0 .. Cardinality(D)
         /\ Cardinality(D) \in Nat
         /\ Cardinality(S) = 0 <=> S = {}
         /\ \A x \in S : S \ {x} \in SUBSET D /\ Cardinality(S \ {x}) = Cardinality(S) - 1
         /\ S # {} => First(S) \in S
<1>1. IsFiniteSet(S) /\ Cardinality(S) <= Cardinality(D)
  BY FS_Subset
<1>2. Cardinality(S) \in Nat /\ Cardinality(D) \in Nat
  BY <1>1, FS_CardinalityType
<1>3. Cardinality(S) = 0 <=> S = {}
  BY <1>1, FS_EmptySet
<1>4. \A x \in S : S \ {x} \in SUBSET D /\ Cardinality(S \ {x}) = Cardinality(S) - 1
  BY <1>1, FS_RemoveElement
<1>5. S # {} => First(S) \in S
  BY DEF First
<1>6. QED BY <1>1, <1>2, <1>3, <1>4, <1>5

\* A fold over a finite set exists.
LEMMA FoldExists ==
  ASSUME NEW D, IsFiniteSet(D), NEW g \in [D -> Int]
  PROVE  \E F \in [SUBSET D -> Int] : IsFold(F, g, D)
<1> DEFINE Q == SUBSET D
           n == Cardinality(D)
           rank == [s \in Q |-> n - Cardinality(s)]
           next == [s \in Q |-> s \ {First(s)}]
           last == [s \in Q |-> 0]
           op   == [p \in Q \X Int |-> IF p[1] = {} THEN 0 ELSE g[First(p[1])] + p[2]]
<1>1. \A s \in Q : /\ Cardinality(s) \in 0 .. n /\ n \in Nat
                   /\ s # {} => First(s) \in s /\ s \ {First(s)} \in Q
                                /\ Cardinality(s \ {First(s)}) = Cardinality(s) - 1
  BY Sizes
<1>2. n \in Nat
  BY FS_CardinalityType
<1>3. rank \in [Q -> 0 .. n]
  <2>1. ASSUME NEW s \in Q PROVE n - Cardinality(s) \in 0 .. n
    <3>1. Cardinality(s) \in 0 .. n
      BY <1>1
    <3> HIDE DEF n
    <3>2. QED BY <1>2, <3>1
  <2> HIDE DEF n, Q
  <2>2. QED BY <2>1
<1>4. next \in [Q -> Q] /\ last \in [Q -> Int]
  OBVIOUS
<1>5. Rises(Q, rank, {{}}, next)
  <2>1. ASSUME NEW s \in Q \ {{}} PROVE rank[s] < rank[next[s]]
    <3>1. /\ Cardinality(s) \in 0 .. n /\ s \ {First(s)} \in Q
          /\ Cardinality(s \ {First(s)}) = Cardinality(s) - 1
      BY <1>1
    <3>2. rank[s] = n - Cardinality(s) /\ rank[next[s]] = n - (Cardinality(s) - 1)
      BY <3>1
    <3> HIDE DEF rank, next, n
    <3>3. QED BY <1>2, <3>1, <3>2
  <2> HIDE DEF rank, next, Q
  <2>2. QED BY <2>1 DEF Rises
<1>6. op \in [Q \X Int -> Int]
  <2>1. ASSUME NEW p \in Q \X Int PROVE (IF p[1] = {} THEN 0 ELSE g[First(p[1])] + p[2]) \in Int
    <3>1. p[1] \in Q /\ p[2] \in Int
      OBVIOUS
    <3>2. CASE p[1] # {}
      <4>1. First(p[1]) \in D
        BY <1>1, <3>1, <3>2
      <4>2. g[First(p[1])] \in Int
        BY <4>1
      <4>3. QED BY <3>1, <3>2, <4>2
    <3>3. QED BY <3>2
  <2> HIDE DEF Q
  <2>2. QED BY <2>1
<1>7. PICK F \in [Q -> Int] : Recurs(F, Q, {{}}, next, last, op)
  <2> HIDE DEF Q, n, rank, next, last, op
  <2>1. QED BY <1>2, <1>3, <1>4, <1>5, <1>6, RecursionExists
<1>8. F[{}] = 0
  <2>1. {} \in Q /\ last[{}] = 0 /\ {} \in {{}}
    OBVIOUS
  <2> HIDE DEF Q, last, op, next
  <2>2. QED BY <1>7, <2>1 DEF Recurs
<1>9. ASSUME NEW s \in Q, s # {} PROVE F[s] = g[First(s)] + F[s \ {First(s)}]
  <2>1. next[s] = s \ {First(s)} /\ next[s] \in Q
    OBVIOUS
  <2>2. F[s] = op[<<s, F[next[s]]>>]
    <3> HIDE DEF Q, last, op, next
    <3>1. QED BY <1>7, <1>9 DEF Recurs
  <2>3. F[next[s]] \in Int
    <3> HIDE DEF next, Q
    <3>1. QED BY <1>7, <2>1
  <2>4. \A v \in Int : op[<<s, v>>] = g[First(s)] + v
    BY <1>9
  <2> HIDE DEF op, next, Q
  <2>5. QED BY <2>1, <2>2, <2>3, <2>4
<1>10. IsFold(F, g, D)
  BY <1>8, <1>9 DEF IsFold
<1>11. QED BY <1>7, <1>10

\* The order does not matter.
LEMMA FoldsAreSums ==
  ASSUME NEW D, IsFiniteSet(D), NEW g \in [D -> Int],
         NEW F \in [SUBSET D -> Int], IsFold(F, g, D)
  PROVE  Sums(F, g, D)
<1> DEFINE n == Cardinality(D)
           Any(S) == \A x \in S : F[S] = g[x] + F[S \ {x}]
           T == {m \in 0 .. n : \A S \in SUBSET D : Cardinality(S) = m => Any(S)}
<1>1. n \in Nat
  BY FS_CardinalityType
<1>2. \A S \in SUBSET D : /\ Cardinality(S) \in 0 .. n /\ (Cardinality(S) = 0 <=> S = {})
                          /\ \A x \in S : S \ {x} \in SUBSET D
                                          /\ Cardinality(S \ {x}) = Cardinality(S) - 1
                          /\ S # {} => First(S) \in S
  BY Sizes
<1>3. 0 \in T
  BY <1>1, <1>2
<1>4. ASSUME NEW m \in 0 .. n - 1, m \in T PROVE m + 1 \in T
  <2>1. SUFFICES ASSUME NEW S \in SUBSET D, Cardinality(S) = m + 1, NEW x \in S
                 PROVE  F[S] = g[x] + F[S \ {x}]
    BY <1>1
  <2> DEFINE y == First(S)
  <2>2. y \in S /\ F[S] = g[y] + F[S \ {y}]
    BY <1>2 DEF IsFold
  <2> HIDE DEF y
  <2>3. CASE x = y
    BY <2>2, <2>3
  <2>4. CASE x # y
    <3>1. /\ S \ {x} \in SUBSET D /\ Cardinality(S \ {x}) = m
          /\ S \ {y} \in SUBSET D /\ Cardinality(S \ {y}) = m
      <4>1. (m + 1) - 1 = m
        OBVIOUS
      <4>2. QED BY <1>2, <2>1, <2>2, <4>1
    <3>2. Any(S \ {x}) /\ Any(S \ {y})
      BY <1>4, <3>1
    <3>3. y \in S \ {x} /\ x \in S \ {y} /\ (S \ {x}) \ {y} = (S \ {y}) \ {x}
      BY <2>2, <2>4
    <3> DEFINE R == (S \ {y}) \ {x}
    <3>4. F[S \ {x}] = g[y] + F[R] /\ F[S \ {y}] = g[x] + F[R]
      BY <3>2, <3>3
    <3>5. F[R] \in Int /\ g[x] \in Int /\ g[y] \in Int
      <4>1. R \in SUBSET D /\ x \in D /\ y \in D
        BY <2>2
      <4>2. QED BY <4>1
    <3> HIDE DEF R
    <3>6. QED BY <2>2, <3>4, <3>5
  <2>5. QED BY <2>3, <2>4
<1>5. \A m \in 0 .. n : m \in T
  <2> HIDE DEF T, n
  <2>1. QED BY <1>1, <1>3, <1>4, UpTo
<1>6. \A S \in SUBSET D : Any(S)
  BY <1>2, <1>5
<1>7. F[{}] = 0
  BY DEF IsFold
<1>8. QED BY <1>6, <1>7 DEF Sums

\* Whatever folds the values over S, its result is the sum.
LEMMA FoldIsSum ==
  ASSUME NEW D, IsFiniteSet(D), NEW g, NEW F, Sums(F, g, D),
         NEW S \in SUBSET D, NEW it, IsFold(it, g, S)
  PROVE  it[S] = F[S]
<1> DEFINE n == Cardinality(D)
           T == {m \in 0 .. n : \A s \in SUBSET S : Cardinality(s) = m => it[s] = F[s]}
<1>1. n \in Nat
  BY FS_CardinalityType
<1>2. \A s \in SUBSET S : /\ s \in SUBSET D
                          /\ Cardinality(s) \in 0 .. n /\ (Cardinality(s) = 0 <=> s = {})
                          /\ s # {} => /\ First(s) \in s /\ s \ {First(s)} \in SUBSET S
                                       /\ Cardinality(s \ {First(s)}) = Cardinality(s) - 1
  <2>1. SUFFICES ASSUME NEW s \in SUBSET S
                 PROVE  /\ s \in SUBSET D
                        /\ Cardinality(s) \in 0 .. n /\ (Cardinality(s) = 0 <=> s = {})
                        /\ s # {} => /\ First(s) \in s /\ s \ {First(s)} \in SUBSET S
                                     /\ Cardinality(s \ {First(s)}) = Cardinality(s) - 1
    OBVIOUS
  <2>2. s \in SUBSET D
    OBVIOUS
  <2>3. QED BY <2>2, Sizes
<1>3. 0 \in T
  BY <1>1, <1>2 DEF IsFold, Sums
<1>4. ASSUME NEW m \in 0 .. n - 1, m \in T PROVE m + 1 \in T
  <2>1. SUFFICES ASSUME NEW s \in SUBSET S, Cardinality(s) = m + 1 PROVE it[s] = F[s]
    BY <1>1
  <2>2. s # {} /\ (m + 1) - 1 = m
    <3>1. m + 1 # 0 /\ (m + 1) - 1 = m
      OBVIOUS
    <3>2. QED BY <1>2, <2>1, <3>1
  <2>3. /\ First(s) \in s /\ s \ {First(s)} \in SUBSET S /\ s \in SUBSET D
        /\ Cardinality(s \ {First(s)}) = m
    BY <1>2, <2>1, <2>2
  <2>4. it[s \ {First(s)}] = F[s \ {First(s)}]
    BY <1>4, <2>3
  <2>5. it[s] = g[First(s)] + it[s \ {First(s)}]
    BY <2>2 DEF IsFold
  <2>6. F[s] = g[First(s)] + F[s \ {First(s)}]
    BY <2>3 DEF Sums
  <2>7. QED BY <2>4, <2>5, <2>6
<1>5. \A m \in 0 .. n : m \in T
  <2> HIDE DEF T, n
  <2>1. QED BY <1>1, <1>3, <1>4, UpTo
<1>6. S \in SUBSET S
  OBVIOUS
<1>7. QED BY <1>2, <1>5, <1>6
=============================================================================
