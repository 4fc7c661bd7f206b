-------------------------- MODULE TextUpdateProofs --------------------------
(***************************************************************************)
(* The update of one text is right for every pair of values: what          *)
(* XyStrDiff makes of two texts, and the invariant of the whole run from   *)
(* the comparison to the stored text.                                      *)
(*                                                                         *)
(* The recursive tables have the values their bodies say (CommonTable,     *)
(* PathsTable).  The way read from them leads through all of both texts    *)
(* and never deletes right after an insertion (PathIsWay), which           *)
(* registerBuffer relies on: of a deletion behind an insertion it would    *)
(* forget the insertion.  With that, registerBuffer and flushBuffers keep  *)
(* the delta aligned with both texts (Flushed, Registered).                *)
(*                                                                         *)
(* The table has the length of the longest common subsequence in every     *)
(* cell (CommonIsLongest), and the way drops a character only where that   *)
(* stays the same (NothingLost), so the delta leaves as much of the old    *)
(* text as can be left (RegisteredLeavesMost, MostIsLeft).                 *)
(*                                                                         *)
(* While the way is registered, the buffers stand for what has been passed *)
(* of both texts (Registering).  Then the delta aligns the two values, and *)
(* since it is done from the last operation on, the text is the old one up *)
(* to the last operation that is not done yet and the new one behind it    *)
(* (Applying, Restored).                                                   *)
(*                                                                         *)
(* With annotations the same is read from the children of the parent:      *)
(* the old text from the texts and the d elements, the new one from the    *)
(* texts and the i elements.  Everything in front of the operations that   *)
(* are done is still one text, the first child (Marked), so the tree       *)
(* walker finds its place there (InsertInto, RemovesFromFirst), and what   *)
(* normalize and the merging loops do to the nodes changes nothing of what *)
(* is read (NormalizedReads, MergeReads, JoinReads).                       *)
(***************************************************************************)
EXTENDS TextUpdate, NumberInduction, SequenceTheorems

(* The bodies of the two recursive tables. *)
CommonAt(x, y, c, i, j) ==
  IF i = 0 \/ j = 0 THEN 0
  ELSE IF x[i] = y[j] THEN c[<<i - 1, j - 1>>] + 1
  ELSE Max({c[<<i, j - 1>>], c[<<i - 1, j>>]})

PathAt(x, y, paths, i, j) ==
  IF i > 0 /\ j > 0 /\ x[i] = y[j]
  THEN Append(paths[<<i - 1, j - 1>>], KeepOld(x, i))
  ELSE IF DropOld(Common(x, y), i, j)
  THEN Append(paths[<<i - 1, j>>], DeleteOld(x, i, i = Len(x) /\ j = Len(y)))
  ELSE IF j > 0 THEN Append(paths[<<i, j - 1>>], InsertNew(y, i, j))
  ELSE <<>>

Rank(x, y) == [p \in Cells(x, y) |-> p[1] + p[2]]

-----------------------------------------------------------------------------

(* The larger of two numbers. *)
LEMMA MaxOfTwo ==
  ASSUME NEW a \in Int, NEW b \in Int
  PROVE  Max({a, b}) = IF a <= b THEN b ELSE a
PROOF
  <1>1. \E m \in {a, b} : \A n \in {a, b} : m >= n
    OBVIOUS
  <1> DEFINE m == Max({a, b})
  <1>2. m \in {a, b} /\ \A n \in {a, b} : m >= n
    BY <1>1 DEF Max
  <1> QED
    BY <1>2

(* A cell is a pair: how much is taken of x, how much of y. *)
LEMMA CellParts ==
  ASSUME NEW x, NEW y, Len(x) \in Nat, Len(y) \in Nat, NEW p \in Cells(x, y)
  PROVE  /\ p = <<p[1], p[2]>> /\ p[1] \in 0 .. Len(x) /\ p[2] \in 0 .. Len(y)
         /\ Rank(x, y)[p] = p[1] + p[2]
PROOF
  BY DEF Cells, Rank

(* Every pair of lengths is a cell; its rank is their sum. *)
LEMMA CellsRanked ==
  ASSUME NEW x, NEW y, Len(x) \in Nat, Len(y) \in Nat
  PROVE  /\ Rank(x, y) \in [Cells(x, y) -> Nat]
         /\ \A i \in 0 .. Len(x), j \in 0 .. Len(y) :
              <<i, j>> \in Cells(x, y) /\ Rank(x, y)[<<i, j>>] = i + j
PROOF
  <1>1. ASSUME NEW p \in Cells(x, y)
        PROVE  p[1] + p[2] \in Nat
    BY CellParts
  <1> QED
    BY <1>1 DEF Cells, Rank

(***************************************************************************)
(* LevenshteinDistance's table has a number in every cell, the one its     *)
(* body says: the recursion ends, for every cell looks at cells of a lower *)
(* rank only.                                                              *)
(***************************************************************************)
LEMMA CommonTable ==
  ASSUME NEW x, NEW y, Len(x) \in Nat, Len(y) \in Nat
  PROVE  /\ Common(x, y) \in [Cells(x, y) -> Nat]
         /\ \A i \in 0 .. Len(x), j \in 0 .. Len(y) :
              Common(x, y)[<<i, j>>] = CommonAt(x, y, Common(x, y), i, j)
PROOF
  <1> DEFINE G == Cells(x, y)
             rank == Rank(x, y)
             N == Len(x) + Len(y) + 1
             Body(c) == [p \in G |-> CommonAt(x, y, c, p[1], p[2])]
             Step == [c \in [G -> Nat] |-> Body(c)]
  <1>1. Common(x, y) = CHOOSE c : c = Body(c)
    BY Zenon DEF Common, CommonAt
  <1>2. ASSUME NEW p \in G, p[1] # 0, p[2] # 0
        PROVE  /\ <<p[1] - 1, p[2] - 1>> \in G /\ rank[<<p[1] - 1, p[2] - 1>>] < rank[p]
               /\ <<p[1], p[2] - 1>> \in G /\ rank[<<p[1], p[2] - 1>>] < rank[p]
               /\ <<p[1] - 1, p[2]>> \in G /\ rank[<<p[1] - 1, p[2]>>] < rank[p]
    <2>1. PICK i \in 0 .. Len(x), j \in 0 .. Len(y) : i = p[1] /\ j = p[2] /\ rank[p] = i + j
      BY CellParts
    <2>2. i - 1 \in 0 .. Len(x) /\ j - 1 \in 0 .. Len(y)
      BY <1>2, <2>1
    <2>3. /\ <<i - 1, j - 1>> \in G /\ rank[<<i - 1, j - 1>>] = (i - 1) + (j - 1)
          /\ <<i, j - 1>> \in G /\ rank[<<i, j - 1>>] = i + (j - 1)
          /\ <<i - 1, j>> \in G /\ rank[<<i - 1, j>>] = (i - 1) + j
      BY <2>2, CellsRanked
    <2> HIDE DEF G, rank
    <2> QED
      BY <2>1, <2>3
  <1>3. ASSUME NEW c, NEW p \in G, \A q \in G : rank[q] < rank[p] => c[q] \in Nat
        PROVE  CommonAt(x, y, c, p[1], p[2]) \in Nat
    <2> HIDE DEF G, rank
    <2>1. CASE p[1] = 0 \/ p[2] = 0
      BY <2>1 DEF CommonAt
    <2>2. CASE p[1] # 0 /\ p[2] # 0
      <3> DEFINE q1 == <<p[1] - 1, p[2] - 1>>
                 q2 == <<p[1], p[2] - 1>>
                 q3 == <<p[1] - 1, p[2]>>
      <3>1. q1 \in G /\ rank[q1] < rank[p] /\ q2 \in G /\ rank[q2] < rank[p]
            /\ q3 \in G /\ rank[q3] < rank[p]
        BY <1>2, <2>2
      <3>2. c[q1] \in Nat /\ c[q2] \in Nat /\ c[q3] \in Nat
        <4> HIDE DEF q1, q2, q3
        <4> QED
          BY <1>3, <3>1
      <3>3. Max({c[q2], c[q3]}) \in Nat
        <4> HIDE DEF q1, q2, q3
        <4> QED
          BY <3>2, MaxOfTwo
      <3> QED
        BY <2>2, <3>2, <3>3 DEF CommonAt
    <2> QED
      BY <2>1, <2>2
  <1>4. ASSUME NEW c \in [G -> Nat]
        PROVE  Body(c) \in [G -> Nat]
    BY <1>3
  <1>5. ASSUME NEW c, NEW d, NEW p \in G, \A q \in G : rank[q] < rank[p] => c[q] = d[q]
        PROVE  CommonAt(x, y, c, p[1], p[2]) = CommonAt(x, y, d, p[1], p[2])
    <2> HIDE DEF G, rank
    <2>1. CASE p[1] = 0 \/ p[2] = 0
      BY <2>1 DEF CommonAt
    <2>2. CASE p[1] # 0 /\ p[2] # 0
      BY <1>2, <1>5, <2>2 DEF CommonAt
    <2> QED
      BY <2>1, <2>2
  <1>6. \E c : c = Body(c)
    <2>1. rank \in [G -> Nat] /\ \A p \in G : rank[p] < N
      BY CellParts, CellsRanked
    <2>2. N \in Nat /\ Nat # {}
      OBVIOUS
    <2>3. \A c, d : \A p \in G :
            (\A q \in G : rank[q] < rank[p] => c[q] = d[q]) => Body(c)[p] = Body(d)[p]
      BY <1>5
    <2> HIDE DEF G, rank, Body, N
    <2>4. Step \in [[G -> Nat] -> [G -> Nat]]
      BY <1>4
    <2>5. \A c \in [G -> Nat] : Step[c] = Body(c)
      OBVIOUS
    <2> HIDE DEF Step
    <2>6. ASSUME NEW f \in [G -> Nat], NEW g \in [G -> Nat], NEW p \in G,
                 \A q \in G : rank[q] < rank[p] => f[q] = g[q]
          PROVE  Step[f][p] = Step[g][p]
      <3>1. Body(f)[p] = Body(g)[p]
        BY <2>3, <2>6
      <3> QED
        BY <2>5, <3>1
    <2>7. \A f, g \in [G -> Nat] : \A p \in G :
            (\A q \in G : rank[q] < rank[p] => f[q] = g[q]) => Step[f][p] = Step[g][p]
      BY <2>6
    <2>8. Descends(Step, G, Nat, rank, N)
      BY <2>1, <2>2, <2>4, <2>7 DEF Descends
    <2>9. \E f \in [G -> Nat] : f = Step[f]
      BY <2>8, RankRecursion
    <2> QED
      BY <2>5, <2>9
  <1>7. Common(x, y) = Body(Common(x, y))
    <2> HIDE DEF Body
    <2> QED
      BY <1>1, <1>6
  <1>8. \A p \in G : Common(x, y)[p] = CommonAt(x, y, Common(x, y), p[1], p[2])
    BY <1>7
  <1>9. \A p \in G : Common(x, y)[p] \in Nat
    <2> DEFINE T == {p \in G : Common(x, y)[p] \in Nat}
    <2>1. \A p \in G : (\A q \in G : rank[q] < rank[p] => q \in T) => p \in T
      BY <1>3, <1>8
    <2>2. rank \in [G -> Nat]
      BY CellsRanked
    <2> HIDE DEF T
    <2>3. \A p \in G : p \in T
      BY <2>1, <2>2, RankInduction
    <2> QED
      BY <2>3 DEF T
  <1>10. Common(x, y) \in [G -> Nat]
    BY <1>7, <1>9
  <1>11. \A i \in 0 .. Len(x), j \in 0 .. Len(y) : <<i, j>> \in G
    BY CellsRanked
  <1> QED
    BY <1>8, <1>10, <1>11

(* The three cells a cell may be reached from. *)
LEMMA CellsBefore ==
  ASSUME NEW x, NEW y, Len(x) \in Nat, Len(y) \in Nat, NEW p \in Cells(x, y)
  PROVE  /\ p[1] # 0 => /\ <<p[1] - 1, p[2]>> \in Cells(x, y)
                        /\ Rank(x, y)[<<p[1] - 1, p[2]>>] < Rank(x, y)[p]
         /\ p[2] # 0 => /\ <<p[1], p[2] - 1>> \in Cells(x, y)
                        /\ Rank(x, y)[<<p[1], p[2] - 1>>] < Rank(x, y)[p]
         /\ p[1] # 0 /\ p[2] # 0 => /\ <<p[1] - 1, p[2] - 1>> \in Cells(x, y)
                                    /\ Rank(x, y)[<<p[1] - 1, p[2] - 1>>] < Rank(x, y)[p]
PROOF
  <1>1. PICK i \in 0 .. Len(x), j \in 0 .. Len(y) :
          i = p[1] /\ j = p[2] /\ Rank(x, y)[p] = i + j
    BY CellParts
  <1>2. ASSUME NEW a \in 0 .. Len(x), NEW b \in 0 .. Len(y), a + b < i + j
        PROVE  <<a, b>> \in Cells(x, y) /\ Rank(x, y)[<<a, b>>] < i + j
    BY <1>2, CellsRanked
  <1>3. i # 0 => i - 1 \in 0 .. Len(x) /\ (i - 1) + j < i + j
    OBVIOUS
  <1>4. j # 0 => j - 1 \in 0 .. Len(y) /\ i + (j - 1) < i + j
    OBVIOUS
  <1>5. i # 0 /\ j # 0 => (i - 1) + (j - 1) < i + j
    OBVIOUS
  <1> QED
    BY <1>1, <1>2, <1>3, <1>4, <1>5

(***************************************************************************)
(* One more character of x never makes the common part smaller, one more   *)
(* of y makes it longer by one at most.                                    *)
(***************************************************************************)
LEMMA CommonGrows ==
  ASSUME NEW x, NEW y, Len(x) \in Nat, Len(y) \in Nat,
         NEW i \in 0 .. Len(x), NEW j \in 0 .. Len(y)
  PROVE  /\ i > 0 => Common(x, y)[<<i - 1, j>>] <= Common(x, y)[<<i, j>>]
         /\ j > 0 => Common(x, y)[<<i, j>>] <= Common(x, y)[<<i, j - 1>>] + 1
PROOF
  <1> DEFINE c == Common(x, y)
             G == Cells(x, y)
             Grows(a, b) == /\ a > 0 => c[<<a - 1, b>>] <= c[<<a, b>>]
                            /\ b > 0 => c[<<a, b>>] <= c[<<a, b - 1>>] + 1
             T == {p \in G : Grows(p[1], p[2])}
  <1>1. ASSUME NEW p \in G, \A q \in G : Rank(x, y)[q] < Rank(x, y)[p] => q \in T
        PROVE  p \in T
    <2>1. PICK a \in 0 .. Len(x), b \in 0 .. Len(y) : a = p[1] /\ b = p[2] /\ p = <<a, b>>
      BY CellParts
    <2>2. /\ a # 0 => Grows(a - 1, b)
          /\ b # 0 => Grows(a, b - 1)
      <3>1. /\ a # 0 => <<a - 1, b>> \in T
            /\ b # 0 => <<a, b - 1>> \in T
        <4> HIDE DEF T
        <4> QED
          BY <1>1, <2>1, CellsBefore
      <3>2. \A d, e : <<d, e>> \in T => Grows(d, e)
        OBVIOUS
      <3> HIDE DEF T, Grows
      <3> QED
        BY <3>1, <3>2
    <2> DEFINE u == c[<<a, b>>]
               v == c[<<a - 1, b>>]
               w == c[<<a, b - 1>>]
               z == c[<<a - 1, b - 1>>]
    <2>3. \A d \in 0 .. Len(x), e \in 0 .. Len(y) :
            c[<<d, e>>] \in Nat /\ c[<<d, e>>] = CommonAt(x, y, c, d, e)
      BY CommonTable, CellsRanked
    <2>4. /\ u \in Nat
          /\ a # 0 => v \in Nat
          /\ b # 0 => w \in Nat
          /\ a # 0 /\ b # 0 => z \in Nat
      BY <2>3
    <2>5. CASE a = 0
      <3>1. u = 0
        BY <2>3, <2>5 DEF CommonAt
      <3> QED
        BY <2>1, <2>4, <2>5, <3>1
    <2>6. CASE a # 0 /\ b = 0
      <3>1. u = 0 /\ v = 0
        <4>1. a - 1 \in 0 .. Len(x) /\ b \in 0 .. Len(y)
          BY <2>6
        <4>2. u = CommonAt(x, y, c, a, b) /\ v = CommonAt(x, y, c, a - 1, b)
          BY <2>3, <4>1
        <4> QED
          BY <2>6, <4>2 DEF CommonAt
      <3> QED
        BY <2>1, <2>6, <3>1
    <2>7. CASE a # 0 /\ b # 0
      <3>1. z <= w /\ v <= z + 1
        BY <2>2, <2>7
      <3>2. /\ x[a] = y[b] => u = z + 1
            /\ x[a] # y[b] => u = Max({w, v})
        BY <2>3, <2>7 DEF CommonAt
      <3>3. v <= u /\ u <= w + 1
        <4> HIDE DEF u, v, w, z
        <4> QED
          BY <2>4, <2>7, <3>1, <3>2, MaxOfTwo
      <3> QED
        BY <2>1, <3>3
    <2> QED
      BY <2>5, <2>6, <2>7
  <1>2. \A p \in G : p \in T
    <2>1. Rank(x, y) \in [G -> Nat]
      BY CellsRanked
    <2> HIDE DEF T, G
    <2> QED
      BY <1>1, <2>1, RankInduction
  <1>3. <<i, j>> \in T
    BY <1>2, CellsRanked
  <1> QED
    BY <1>3

(***************************************************************************)
(* g finds what stands at the places S, among the first i of x, among the  *)
(* first j characters of y again, in the same order.                       *)
(***************************************************************************)
Choice(x, y, S, g, i, j) ==
  /\ S \subseteq 1 .. i /\ g \in [S -> 1 .. j]
  /\ \A s \in S : x[s] = y[g[s]]
  /\ \A s, t \in S : s < t => g[s] < g[t]

(* No choice among the first i characters of x and j of y has more than n. *)
AtMost(x, y, n, i, j) ==
  \A S : (\E g : Choice(x, y, S, g, i, j)) => IsFiniteSet(S) /\ Cardinality(S) <= n

(* A choice that leaves the last characters out is one of the shorter texts. *)
LEMMA ChoiceWithin ==
  ASSUME NEW x, NEW y, NEW i \in Nat, NEW j \in Nat, NEW i1 \in Nat, NEW j1 \in Nat,
         NEW S, NEW g, Choice(x, y, S, g, i, j), NEW R \in SUBSET S,
         \A s \in R : s <= i1 /\ g[s] <= j1
  PROVE  \E h : Choice(x, y, R, h, i1, j1)
PROOF
  <1> DEFINE h == [s \in R |-> g[s]]
  <1>1. /\ S \subseteq 1 .. i /\ g \in [S -> 1 .. j]
        /\ \A s \in S : x[s] = y[g[s]]
        /\ \A s, t \in S : s < t => g[s] < g[t]
    BY DEF Choice
  <1>2. ASSUME NEW s \in R
        PROVE  s \in 1 .. i1 /\ g[s] \in 1 .. j1
    <2>1. s \in 1 .. i /\ g[s] \in 1 .. j
      BY <1>1
    <2> QED
      BY <2>1
  <1>3. R \subseteq 1 .. i1 /\ h \in [R -> 1 .. j1]
    BY <1>2
  <1>4. \A s \in R : h[s] = g[s]
    OBVIOUS
  <1> HIDE DEF h
  <1>5. Choice(x, y, R, h, i1, j1)
    BY <1>1, <1>3, <1>4 DEF Choice
  <1> QED
    BY <1>5

(* A choice from less of both texts is one from more. *)
LEMMA ChoiceGrows ==
  ASSUME NEW x, NEW y, NEW i \in Nat, NEW j \in Nat, NEW i1 \in Nat, NEW j1 \in Nat,
         i <= i1, j <= j1, NEW S, NEW g, Choice(x, y, S, g, i, j)
  PROVE  Choice(x, y, S, g, i1, j1)
PROOF
  <1>1. 1 .. i \subseteq 1 .. i1 /\ 1 .. j \subseteq 1 .. j1
    OBVIOUS
  <1>2. S \subseteq 1 .. i /\ g \in [S -> 1 .. j]
    BY DEF Choice
  <1>3. S \subseteq 1 .. i1 /\ g \in [S -> 1 .. j1]
    BY <1>1, <1>2
  <1> QED
    BY <1>3 DEF Choice

(***************************************************************************)
(* The table of LevenshteinDistance has in every cell the length of the    *)
(* longest common subsequence: nothing longer is in both texts up to       *)
(* there.                                                                  *)
(***************************************************************************)
LEMMA CommonIsLongest ==
  ASSUME NEW x, NEW y, Len(x) \in Nat, Len(y) \in Nat,
         NEW i0 \in 0 .. Len(x), NEW j0 \in 0 .. Len(y)
  PROVE  AtMost(x, y, Common(x, y)[<<i0, j0>>], i0, j0)
PROOF
  <1> DEFINE c == Common(x, y)
             G == Cells(x, y)
             T == {p \in G : AtMost(x, y, c[p], p[1], p[2])}
  <1>1. \A a \in 0 .. Len(x), b \in 0 .. Len(y) :
          /\ <<a, b>> \in G
          /\ c[<<a, b>>] \in Nat /\ c[<<a, b>>] = CommonAt(x, y, c, a, b)
    BY CommonTable, CellsRanked
  <1>2. ASSUME NEW p \in G, \A q \in G : Rank(x, y)[q] < Rank(x, y)[p] => q \in T
        PROVE  p \in T
    <2>1. PICK i \in 0 .. Len(x), j \in 0 .. Len(y) : i = p[1] /\ j = p[2] /\ p = <<i, j>>
      BY CellParts
    <2>2. /\ i # 0 => <<i - 1, j>> \in T
          /\ j # 0 => <<i, j - 1>> \in T
          /\ i # 0 /\ j # 0 => <<i - 1, j - 1>> \in T
      <3> HIDE DEF T
      <3> QED
        BY <1>2, <2>1, CellsBefore
    <2>3. \A d, e : <<d, e>> \in T => AtMost(x, y, c[<<d, e>>], d, e)
      OBVIOUS
    <2>4. /\ i # 0 => AtMost(x, y, c[<<i - 1, j>>], i - 1, j)
          /\ j # 0 => AtMost(x, y, c[<<i, j - 1>>], i, j - 1)
          /\ i # 0 /\ j # 0 => AtMost(x, y, c[<<i - 1, j - 1>>], i - 1, j - 1)
      <3> HIDE DEF T
      <3> QED
        BY <2>2, <2>3
    <2> HIDE DEF T
    <2>5. /\ c[<<i, j>>] \in Nat /\ c[<<i, j>>] = CommonAt(x, y, c, i, j)
          /\ i # 0 => i - 1 \in 0 .. Len(x) /\ c[<<i - 1, j>>] \in Nat
          /\ j # 0 => j - 1 \in 0 .. Len(y) /\ c[<<i, j - 1>>] \in Nat
          /\ i # 0 /\ j # 0 => c[<<i - 1, j - 1>>] \in Nat
      <3>1. /\ i # 0 => i - 1 \in 0 .. Len(x)
            /\ j # 0 => j - 1 \in 0 .. Len(y)
        OBVIOUS
      <3> QED
        BY <1>1, <3>1
    <2> HIDE DEF c
    <2>6. ASSUME NEW S, NEW g, Choice(x, y, S, g, i, j)
          PROVE  IsFiniteSet(S) /\ Cardinality(S) <= c[<<i, j>>]
      <3>1. /\ S \subseteq 1 .. i /\ g \in [S -> 1 .. j]
            /\ \A s \in S : x[s] = y[g[s]]
            /\ \A s, t \in S : s < t => g[s] < g[t]
        BY <2>6 DEF Choice
      <3>2. i \in Nat /\ j \in Nat
        OBVIOUS
      <3>3. IsFiniteSet(S)
        <4>1. IsFiniteSet(1 .. i)
          BY <3>2, FS_Interval
        <4> QED
          BY <3>1, <4>1, FS_Subset
      <3>4. CASE i = 0 \/ j = 0
        <4>1. S = {}
          BY <3>1, <3>4
        <4>2. Cardinality(S) = 0
          BY <4>1, FS_EmptySet
        <4> QED
          BY <2>5, <3>3, <4>2
      <3>5. CASE i # 0 /\ j # 0 /\ x[i] = y[j]
        <4>1. c[<<i, j>>] = c[<<i - 1, j - 1>>] + 1
          BY <2>5, <3>5 DEF CommonAt
        <4>2. i - 1 \in Nat /\ j - 1 \in Nat
          BY <3>2, <3>5
        <4>3. PICK e \in 1 .. i : \A s \in S : s # e => s <= i - 1 /\ g[s] <= j - 1
          <5>1. CASE i \in S
            <6>1. ASSUME NEW s \in S, s # i
                  PROVE  s <= i - 1 /\ g[s] <= j - 1
              <7>1. s \in 1 .. i /\ g[s] \in 1 .. j /\ g[i] \in 1 .. j
                BY <3>1, <5>1
              <7>2. s < i
                BY <6>1, <7>1
              <7>3. g[s] < g[i]
                BY <3>1, <5>1, <7>2
              <7> QED
                BY <7>1, <7>2, <7>3
            <6> QED
              BY <3>2, <3>5, <6>1
          <5>2. CASE i \notin S /\ \E t \in S : g[t] = j
            <6>1. PICK t \in S : g[t] = j
              BY <5>2
            <6>2. ASSUME NEW s \in S, s # t
                  PROVE  s <= i - 1 /\ g[s] <= j - 1
              <7>1. s \in 1 .. i /\ t \in 1 .. i /\ g[s] \in 1 .. j /\ s # i
                BY <3>1, <5>2
              <7>2. ~(t < s)
                <8>1. t < s => g[t] < g[s]
                  BY <3>1
                <8> QED
                  BY <6>1, <7>1, <8>1
              <7>3. s < t
                BY <6>2, <7>1, <7>2
              <7>4. g[s] < g[t]
                BY <3>1, <7>3
              <7> QED
                BY <6>1, <7>1, <7>4
            <6> QED
              BY <3>1, <6>2
          <5>3. CASE i \notin S /\ \A t \in S : g[t] # j
            <6>1. ASSUME NEW s \in S
                  PROVE  s <= i - 1 /\ g[s] <= j - 1
              <7>1. s \in 1 .. i /\ g[s] \in 1 .. j /\ s # i /\ g[s] # j
                BY <3>1, <5>3
              <7> QED
                BY <7>1
            <6>2. i \in 1 .. i
              BY <3>2, <3>5
            <6> QED
              BY <6>1, <6>2
          <5> QED
            BY <5>1, <5>2, <5>3
        <4> DEFINE R == S \ {e}
        <4>4. \E h : Choice(x, y, R, h, i - 1, j - 1)
          <5>1. R \in SUBSET S /\ \A s \in R : s <= i - 1 /\ g[s] <= j - 1
            BY <4>3
          <5> HIDE DEF R
          <5> QED
            BY <2>6, <3>2, <4>2, <5>1, ChoiceWithin
        <4>5. IsFiniteSet(R) /\ Cardinality(R) <= c[<<i - 1, j - 1>>]
          <5> HIDE DEF R
          <5> QED
            BY <2>4, <3>5, <4>4 DEF AtMost
        <4>6. /\ Cardinality(S) \in Nat /\ Cardinality(R) \in Nat
              /\ Cardinality(S) <= Cardinality(R) + 1
          <5>1. /\ Cardinality(S) \in Nat
                /\ Cardinality(R) = IF e \in S THEN Cardinality(S) - 1 ELSE Cardinality(S)
            BY <3>3, FS_RemoveElement, FS_CardinalityType
          <5>2. Cardinality(R) \in Nat
            BY <4>5, FS_CardinalityType
          <5> HIDE DEF R
          <5> QED
            BY <5>1, <5>2
        <4> HIDE DEF R
        <4> QED
          BY <2>5, <3>3, <3>5, <4>1, <4>5, <4>6
      <3>6. CASE i # 0 /\ j # 0 /\ x[i] # y[j]
        <4>1. /\ c[<<i - 1, j>>] <= c[<<i, j>>]
              /\ c[<<i, j - 1>>] <= c[<<i, j>>]
          <5>1. c[<<i, j>>] = Max({c[<<i, j - 1>>], c[<<i - 1, j>>]})
            BY <2>5, <3>6 DEF CommonAt
          <5>2. \A a, b \in Nat : a <= Max({a, b}) /\ b <= Max({a, b})
            BY MaxOfTwo
          <5> QED
            BY <2>5, <3>6, <5>1, <5>2
        <4>2. i - 1 \in Nat /\ j - 1 \in Nat
          BY <3>2, <3>6
        <4>3. Cardinality(S) \in Nat
          BY <3>3, FS_CardinalityType
        <4>4. CASE i \notin S
          <5>1. ASSUME NEW s \in S
                PROVE  s <= i - 1 /\ g[s] <= j
            <6>1. s \in 1 .. i /\ g[s] \in 1 .. j /\ s # i
              BY <3>1, <4>4
            <6> QED
              BY <6>1
          <5>2. \E h : Choice(x, y, S, h, i - 1, j)
            BY <2>6, <3>2, <4>2, <5>1, ChoiceWithin
          <5>3. Cardinality(S) <= c[<<i - 1, j>>]
            BY <2>4, <3>6, <5>2 DEF AtMost
          <5> QED
            BY <2>5, <3>3, <3>6, <4>1, <4>3, <5>3
        <4>5. CASE i \in S
          <5>1. ASSUME NEW s \in S
                PROVE  s <= i /\ g[s] <= j - 1
            <6>1. s \in 1 .. i /\ g[s] \in 1 .. j /\ g[i] \in 1 .. j
              BY <3>1, <4>5
            <6>2. g[i] # j
              BY <3>1, <3>6, <4>5
            <6>3. s # i => g[s] < g[i]
              <7>1. s # i => s < i
                BY <6>1
              <7> QED
                BY <3>1, <4>5, <7>1
            <6> QED
              BY <6>1, <6>2, <6>3
          <5>2. \E h : Choice(x, y, S, h, i, j - 1)
            BY <2>6, <3>2, <4>2, <5>1, ChoiceWithin
          <5>3. Cardinality(S) <= c[<<i, j - 1>>]
            BY <2>4, <3>6, <5>2 DEF AtMost
          <5> QED
            BY <2>5, <3>3, <3>6, <4>1, <4>3, <5>3
        <4> QED
          BY <4>4, <4>5
      <3> QED
        BY <3>4, <3>5, <3>6
    <2>7. AtMost(x, y, c[<<i, j>>], i, j)
      BY <2>6 DEF AtMost
    <2> QED
      BY <2>1, <2>7 DEF T, c
  <1>3. \A p \in G : p \in T
    <2>1. Rank(x, y) \in [G -> Nat]
      BY CellsRanked
    <2> HIDE DEF T, G
    <2> QED
      BY <1>2, <2>1, RankInduction
  <1>4. <<i0, j0>> \in T
    <2> HIDE DEF T, c
    <2> QED
      BY <1>1, <1>3
  <1> QED
    BY <1>4

(***************************************************************************)
(* The steps registerBuffer may get.                                       *)
(***************************************************************************)
StepsOver(chars) == [op : {"noop", "del", "ins"}, at : Nat, chr : chars]

(* A sequence with one element more. *)
LEMMA AppendMore ==
  ASSUME NEW S, NEW s \in Seq(S), NEW e \in S
  PROVE  /\ Append(s, e) \in Seq(S) /\ Len(Append(s, e)) = Len(s) + 1
         /\ Append(s, e)[Len(s) + 1] = e
         /\ \A n \in 1 .. Len(s) : Append(s, e)[n] = s[n]
PROOF
  OBVIOUS

(***************************************************************************)
(* calculatePath's table has a sequence of calls in every cell, the one    *)
(* its body says.                                                          *)
(***************************************************************************)
LEMMA PathsTable ==
  ASSUME NEW chars, NEW x \in Seq(chars), NEW y \in Seq(chars)
  PROVE  /\ Paths(x, y) \in [Cells(x, y) -> Seq(StepsOver(chars))]
         /\ \A i \in 0 .. Len(x), j \in 0 .. Len(y) :
              Paths(x, y)[<<i, j>>] = PathAt(x, y, Paths(x, y), i, j)
PROOF
  <1> DEFINE G == Cells(x, y)
             V == Seq(StepsOver(chars))
             rank == Rank(x, y)
             N == Len(x) + Len(y) + 1
             Body(f) == [p \in G |-> PathAt(x, y, f, p[1], p[2])]
             Step == [f \in [G -> V] |-> Body(f)]
  <1>0. Len(x) \in Nat /\ Len(y) \in Nat
    OBVIOUS
  <1>1. Paths(x, y) = CHOOSE f : f = Body(f)
    BY Zenon DEF Paths, PathAt
  <1>2. ASSUME NEW i \in 0 .. Len(x), NEW j \in 0 .. Len(y)
        PROVE  /\ i # 0 => KeepOld(x, i) \in StepsOver(chars)
               /\ i # 0 => \A last : DeleteOld(x, i, last) \in StepsOver(chars)
               /\ j # 0 => InsertNew(y, i, j) \in StepsOver(chars)
    BY DEF KeepOld, DeleteOld, InsertNew, StepsOver
  <1>3. ASSUME NEW f, NEW p \in G, \A q \in G : rank[q] < rank[p] => f[q] \in V
        PROVE  PathAt(x, y, f, p[1], p[2]) \in V
    <2>1. /\ p[1] # 0 => f[<<p[1] - 1, p[2]>>] \in V
          /\ p[2] # 0 => f[<<p[1], p[2] - 1>>] \in V
          /\ p[1] # 0 /\ p[2] # 0 => f[<<p[1] - 1, p[2] - 1>>] \in V
      <3> HIDE DEF G, V, rank
      <3> QED
        BY <1>0, <1>3, CellsBefore DEF G, rank
    <2>2. p[1] \in 0 .. Len(x) /\ p[2] \in 0 .. Len(y)
      BY <1>0, CellParts
    <2>3. <<>> \in V
      OBVIOUS
    <2> HIDE DEF V
    <2>4. \A s \in V : \A e \in StepsOver(chars) : Append(s, e) \in V
      BY AppendMore DEF V
    <2> QED
      BY <1>2, <2>1, <2>2, <2>3, <2>4 DEF PathAt, DropOld
  <1>4. ASSUME NEW f \in [G -> V]
        PROVE  Body(f) \in [G -> V]
    BY <1>3
  <1>5. ASSUME NEW f, NEW g, NEW p \in G, \A q \in G : rank[q] < rank[p] => f[q] = g[q]
        PROVE  PathAt(x, y, f, p[1], p[2]) = PathAt(x, y, g, p[1], p[2])
    <2>1. /\ p[1] # 0 => f[<<p[1] - 1, p[2]>>] = g[<<p[1] - 1, p[2]>>]
          /\ p[2] # 0 => f[<<p[1], p[2] - 1>>] = g[<<p[1], p[2] - 1>>]
          /\ p[1] # 0 /\ p[2] # 0 => f[<<p[1] - 1, p[2] - 1>>] = g[<<p[1] - 1, p[2] - 1>>]
      <3> HIDE DEF G, rank
      <3> QED
        BY <1>0, <1>5, CellsBefore DEF G, rank
    <2>2. p[1] \in 0 .. Len(x) /\ p[2] \in 0 .. Len(y)
      BY <1>0, CellParts
    <2> QED
      BY <2>1, <2>2 DEF PathAt, DropOld
  <1>6. \E f : f = Body(f)
    <2>1. rank \in [G -> Nat] /\ \A p \in G : rank[p] < N
      BY <1>0, CellParts, CellsRanked
    <2>2. N \in Nat /\ <<>> \in V
      OBVIOUS
    <2>3. \A f, g : \A p \in G :
            (\A q \in G : rank[q] < rank[p] => f[q] = g[q]) => Body(f)[p] = Body(g)[p]
      BY <1>5
    <2> HIDE DEF G, V, rank, Body, N
    <2>4. Step \in [[G -> V] -> [G -> V]]
      BY <1>4
    <2>5. \A f \in [G -> V] : Step[f] = Body(f)
      OBVIOUS
    <2> HIDE DEF Step
    <2>6. ASSUME NEW f \in [G -> V], NEW g \in [G -> V], NEW p \in G,
                 \A q \in G : rank[q] < rank[p] => f[q] = g[q]
          PROVE  Step[f][p] = Step[g][p]
      <3>1. Body(f)[p] = Body(g)[p]
        BY <2>3, <2>6
      <3> QED
        BY <2>5, <3>1
    <2>7. \A f, g \in [G -> V] : \A p \in G :
            (\A q \in G : rank[q] < rank[p] => f[q] = g[q]) => Step[f][p] = Step[g][p]
      BY <2>6
    <2>8. Descends(Step, G, V, rank, N)
      BY <2>1, <2>2, <2>4, <2>7 DEF Descends
    <2>9. \E f \in [G -> V] : f = Step[f]
      BY <2>8, RankRecursion
    <2> QED
      BY <2>5, <2>9
  <1>7. Paths(x, y) = Body(Paths(x, y))
    <2> HIDE DEF Body
    <2> QED
      BY <1>1, <1>6
  <1>8. \A p \in G : Paths(x, y)[p] = PathAt(x, y, Paths(x, y), p[1], p[2])
    BY <1>7
  <1>9. \A p \in G : Paths(x, y)[p] \in V
    <2> DEFINE T == {p \in G : Paths(x, y)[p] \in V}
    <2>1. \A p \in G : (\A q \in G : rank[q] < rank[p] => q \in T) => p \in T
      BY <1>3, <1>8
    <2>2. rank \in [G -> Nat]
      BY <1>0, CellsRanked
    <2> HIDE DEF T
    <2>3. \A p \in G : p \in T
      BY <2>1, <2>2, RankInduction
    <2> QED
      BY <2>3 DEF T
  <1>10. Paths(x, y) \in [G -> V]
    BY <1>7, <1>9
  <1>11. \A i \in 0 .. Len(x), j \in 0 .. Len(y) : <<i, j>> \in G
    BY <1>0, CellsRanked
  <1> QED
    BY <1>8, <1>10, <1>11

-----------------------------------------------------------------------------
(***************************************************************************)
(* A step of the path that leads from the cell p to the cell q.  Where no  *)
(* character is kept the two cells have as much in common.                 *)
(***************************************************************************)
StepTo(x, y, step, p, q) ==
  \/ /\ q[1] = p[1] + 1 /\ q[2] = p[2] + 1
     /\ step = KeepOld(x, q[1]) /\ x[q[1]] = y[q[2]]
  \/ /\ q[1] = p[1] + 1 /\ q[2] = p[2]
     /\ step = DeleteOld(x, q[1], q[1] = Len(x) /\ q[2] = Len(y))
     /\ Common(x, y)[q] = Common(x, y)[p]
  \/ /\ q[1] = p[1] /\ q[2] = p[2] + 1
     /\ step = InsertNew(y, q[1], q[2])
     /\ Common(x, y)[q] = Common(x, y)[p]

(***************************************************************************)
(* The steps lead through the cells of w, and none deletes right after an  *)
(* insertion.                                                              *)
(***************************************************************************)
IsWay(x, y, steps, w) ==
  /\ w \in [0 .. Len(steps) -> Cells(x, y)]
  /\ \A n \in 1 .. Len(steps) : StepTo(x, y, steps[n], w[n - 1], w[n])
  /\ \A n \in 2 .. Len(steps) : steps[n].op = "del" => steps[n - 1].op # "ins"

(* Where a character is dropped the table stays the same. *)
SameWhereDropped(c, i, j) ==
  /\ DropOld(c, i, j) => c[<<i, j>>] = c[<<i - 1, j>>]
  /\ ~DropOld(c, i, j) /\ j > 0 => c[<<i, j>>] = c[<<i, j - 1>>]

(***************************************************************************)
(* calculatePath drops a character only where the table stays the same.    *)
(***************************************************************************)
LEMMA NothingLost ==
  ASSUME NEW x, NEW y, Len(x) \in Nat, Len(y) \in Nat,
         NEW i \in 0 .. Len(x), NEW j \in 0 .. Len(y),
         ~(i > 0 /\ j > 0 /\ x[i] = y[j])
  PROVE  SameWhereDropped(Common(x, y), i, j)
PROOF
  <1> DEFINE c == Common(x, y)
  <1>1. \A a \in 0 .. Len(x), b \in 0 .. Len(y) :
          c[<<a, b>>] \in Nat /\ c[<<a, b>>] = CommonAt(x, y, c, a, b)
    BY CommonTable, CellsRanked
  <1>2. /\ i # 0 => i - 1 \in 0 .. Len(x)
        /\ j # 0 => j - 1 \in 0 .. Len(y)
    OBVIOUS
  <1> HIDE DEF c
  <1>3. CASE i = 0 \/ j = 0
    <2>1. \A a \in 0 .. Len(x), b \in 0 .. Len(y) : a = 0 \/ b = 0 => c[<<a, b>>] = 0
      BY <1>1 DEF CommonAt
    <2> QED
      BY <1>2, <1>3, <2>1 DEF SameWhereDropped, DropOld, c
  <1>4. CASE i # 0 /\ j # 0
    <2>1. c[<<i, j>>] = Max({c[<<i, j - 1>>], c[<<i - 1, j>>]})
      <3>1. c[<<i, j>>] = CommonAt(x, y, c, i, j)
        BY <1>1
      <3>2. x[i] # y[j]
        BY <1>4
      <3> QED
        BY <1>4, <3>1, <3>2 DEF CommonAt
    <2>2. c[<<i, j - 1>>] \in Nat /\ c[<<i - 1, j>>] \in Nat
      BY <1>1, <1>2, <1>4
    <2>3. c[<<i, j>>] = IF c[<<i, j - 1>>] <= c[<<i - 1, j>>] THEN c[<<i - 1, j>>]
                        ELSE c[<<i, j - 1>>]
      BY <2>1, <2>2, MaxOfTwo
    <2> QED
      BY <1>4, <2>2, <2>3 DEF SameWhereDropped, DropOld, c
  <1> QED
    BY <1>3, <1>4

(* A way to one cell and a step to the next make a way to that one. *)
LEMMA WayExtended ==
  ASSUME NEW S, NEW x, NEW y, NEW steps \in Seq(S), NEW w, IsWay(x, y, steps, w),
         NEW e \in S, NEW q \in Cells(x, y), StepTo(x, y, e, w[Len(steps)], q),
         Len(steps) > 0 /\ e.op = "del" => steps[Len(steps)].op # "ins"
  PROVE  \E v : /\ IsWay(x, y, Append(steps, e), v)
                /\ v[0] = w[0] /\ v[Len(steps) + 1] = q
PROOF
  <1> DEFINE more == Append(steps, e)
             l == Len(steps)
             v == [n \in 0 .. (l + 1) |-> IF n = l + 1 THEN q ELSE w[n]]
  <1>1. /\ l \in Nat /\ Len(more) = l + 1 /\ more[l + 1] = e
        /\ \A n \in 1 .. l : more[n] = steps[n]
    BY AppendMore
  <1>2. /\ w \in [0 .. l -> Cells(x, y)]
        /\ \A n \in 1 .. l : StepTo(x, y, steps[n], w[n - 1], w[n])
        /\ \A n \in 2 .. l : steps[n].op = "del" => steps[n - 1].op # "ins"
    BY DEF IsWay
  <1>3. v \in [0 .. (l + 1) -> Cells(x, y)] /\ v[0] = w[0] /\ v[l + 1] = q
    BY <1>1, <1>2
  <1>4. \A n \in 0 .. l : v[n] = w[n]
    BY <1>1
  <1> HIDE DEF v, l, more
  <1>5. ASSUME NEW n \in 1 .. (l + 1)
        PROVE  StepTo(x, y, more[n], v[n - 1], v[n])
    <2>1. CASE n = l + 1
      <3>1. n - 1 = l /\ l \in 0 .. l
        BY <1>1, <2>1
      <3> QED
        BY <1>1, <1>3, <1>4, <2>1, <3>1 DEF l
    <2>2. CASE n \in 1 .. l
      <3>1. n - 1 \in 0 .. l /\ n \in 0 .. l
        BY <1>1, <2>2
      <3> QED
        BY <1>1, <1>2, <1>4, <2>2, <3>1
    <2> QED
      BY <1>1, <2>1, <2>2
  <1>6. ASSUME NEW n \in 2 .. (l + 1), more[n].op = "del"
        PROVE  more[n - 1].op # "ins"
    <2>1. CASE n = l + 1
      <3>1. l > 0 /\ n - 1 = l /\ l \in 1 .. l
        BY <1>1, <2>1
      <3> QED
        BY <1>1, <1>6, <2>1, <3>1 DEF l
    <2>2. CASE n \in 2 .. l
      <3>1. n - 1 \in 1 .. l /\ n \in 1 .. l
        BY <1>1, <2>2
      <3> QED
        BY <1>1, <1>2, <1>6, <2>2, <3>1
    <2> QED
      BY <1>1, <2>1, <2>2
  <1>7. IsWay(x, y, more, v)
    BY <1>1, <1>3, <1>5, <1>6 DEF IsWay
  <1> QED
    BY <1>3, <1>7 DEF more, l

(***************************************************************************)
(* calculatePath makes a way through all of both texts.  An insertion is   *)
(* never followed by a deletion: the table would have to fall.             *)
(***************************************************************************)
LEMMA PathIsWay ==
  ASSUME NEW chars, NEW x \in Seq(chars), NEW y \in Seq(chars)
  PROVE  /\ Path(x, y) \in Seq(StepsOver(chars))
         /\ \E w : /\ IsWay(x, y, Path(x, y), w) /\ w[0] = <<0, 0>>
                   /\ w[Len(Path(x, y))] = <<Len(x), Len(y)>>
PROOF
  <1> DEFINE G == Cells(x, y)
             c == Common(x, y)
             P == Paths(x, y)
             rank == Rank(x, y)
             Inserts(p) == /\ p[2] > 0 /\ ~DropOld(c, p[1], p[2])
                           /\ ~(p[1] > 0 /\ x[p[1]] = y[p[2]])
             Good(p) == /\ \E w : IsWay(x, y, P[p], w) /\ w[0] = <<0, 0>> /\ w[Len(P[p])] = p
                        /\ Len(P[p]) > 0 /\ P[p][Len(P[p])].op = "ins" => Inserts(p)
             T == {p \in G : Good(p)}
  <1>0. Len(x) \in Nat /\ Len(y) \in Nat
    OBVIOUS
  <1>1. /\ P \in [G -> Seq(StepsOver(chars))]
        /\ \A i \in 0 .. Len(x), j \in 0 .. Len(y) : P[<<i, j>>] = PathAt(x, y, P, i, j)
    BY PathsTable
  <1>2. ASSUME NEW p \in G, \A q \in G : rank[q] < rank[p] => q \in T
        PROVE  Good(p)
    <2>1. PICK i \in 0 .. Len(x), j \in 0 .. Len(y) :
            p = <<i, j>> /\ p[1] = i /\ p[2] = j /\ P[p] = PathAt(x, y, P, i, j)
      BY <1>0, <1>1, CellParts
    <2>2. /\ i # 0 => <<i - 1, j>> \in T
          /\ j # 0 => <<i, j - 1>> \in T
          /\ i # 0 /\ j # 0 => <<i - 1, j - 1>> \in T
      <3> HIDE DEF T
      <3> QED
        BY <1>0, <1>2, <2>1, CellsBefore
    <2>3. ASSUME NEW q \in T, NEW e \in StepsOver(chars), StepTo(x, y, e, q, p),
                 P[p] = Append(P[q], e), e.op = "ins" => Inserts(p),
                 e.op = "del" /\ Len(P[q]) > 0 => P[q][Len(P[q])].op # "ins"
          PROVE  Good(p)
      <3>1. PICK w : IsWay(x, y, P[q], w) /\ w[0] = <<0, 0>> /\ w[Len(P[q])] = q
        OBVIOUS
      <3>2. P[q] \in Seq(StepsOver(chars))
        BY <1>1
      <3>3. \E v : IsWay(x, y, P[p], v) /\ v[0] = <<0, 0>> /\ v[Len(P[q]) + 1] = p
        <4> DEFINE s == P[q]
                   S == StepsOver(chars)
        <4>1. /\ StepTo(x, y, e, w[Len(s)], p) /\ p \in Cells(x, y)
              /\ Len(s) > 0 /\ e.op = "del" => s[Len(s)].op # "ins"
          BY <2>3, <3>1
        <4>2. s \in Seq(S) /\ e \in S /\ IsWay(x, y, s, w) /\ P[p] = Append(s, e)
          BY <2>3, <3>1, <3>2
        <4>3. \E v : IsWay(x, y, Append(s, e), v) /\ v[0] = w[0] /\ v[Len(s) + 1] = p
          <5> HIDE DEF s, S
          <5> QED
            BY <4>1, <4>2, WayExtended
        <4> QED
          BY <3>1, <4>2, <4>3
      <3>4. Len(P[p]) = Len(P[q]) + 1 /\ P[p][Len(P[q]) + 1] = e
        BY <2>3, <3>2, AppendMore
      <3> QED
        BY <2>3, <3>3, <3>4
    <2>4. CASE i > 0 /\ j > 0 /\ x[i] = y[j]
      <3> DEFINE q == <<i - 1, j - 1>>
                 e == KeepOld(x, i)
      <3>1. e \in StepsOver(chars) /\ e.op = "noop"
        BY <2>4 DEF KeepOld, StepsOver
      <3>2. P[p] = Append(P[q], e)
        BY <2>1, <2>4 DEF PathAt
      <3>3. StepTo(x, y, e, q, p)
        BY <2>1, <2>4 DEF StepTo
      <3>4. q \in T
        <4> HIDE DEF T
        <4> QED
          BY <2>2, <2>4
      <3> HIDE DEF T, P, Good, Inserts, q, e
      <3> QED
        BY <2>3, <3>1, <3>2, <3>3, <3>4
    <2>5. CASE ~(i > 0 /\ j > 0 /\ x[i] = y[j]) /\ DropOld(c, i, j)
      <3> DEFINE q == <<i - 1, j>>
                 e == DeleteOld(x, i, i = Len(x) /\ j = Len(y))
      <3>1. e \in StepsOver(chars) /\ e.op = "del"
        BY <2>5 DEF DeleteOld, StepsOver, DropOld
      <3>2. P[p] = Append(P[q], e)
        BY <2>1, <2>5 DEF PathAt
      <3>3. StepTo(x, y, e, q, p)
        <4>0. SameWhereDropped(c, i, j)
          BY <1>0, <2>5, NothingLost
        <4>1. c[<<i, j>>] = c[<<i - 1, j>>]
          BY <2>5, <4>0 DEF SameWhereDropped
        <4> QED
          BY <2>1, <2>5, <4>1 DEF StepTo, DropOld
      <3>4. q \in T
        <4> HIDE DEF T
        <4> QED
          BY <2>2, <2>5 DEF DropOld
      <3>5. ASSUME Len(P[q]) > 0, P[q][Len(P[q])].op = "ins"
            PROVE  FALSE
        <4>1. j > 0 /\ ~DropOld(c, i - 1, j) /\ ~(i - 1 > 0 /\ x[i - 1] = y[j])
          BY <3>4, <3>5
        <4>2. i > 0 /\ c[<<i, j - 1>>] < c[<<i - 1, j>>]
          BY <2>5, <4>1 DEF DropOld
        <4>3. /\ i - 1 \in 0 .. Len(x) /\ j - 1 \in 0 .. Len(y)
              /\ i - 1 # 0 => i - 2 \in 0 .. Len(x)
          BY <4>1, <4>2
        <4>4. \A a \in 0 .. Len(x), b \in 0 .. Len(y) :
                c[<<a, b>>] \in Nat /\ c[<<a, b>>] = CommonAt(x, y, c, a, b)
          BY <1>0, CommonTable, CellsRanked
        <4>5. c[<<i - 1, j>>] \in Nat /\ c[<<i, j - 1>>] \in Nat /\ c[<<i - 1, j - 1>>] \in Nat
          BY <4>3, <4>4
        <4>6. CASE i - 1 = 0
          <5>1. c[<<i - 1, j>>] = 0
            BY <4>3, <4>4, <4>6 DEF CommonAt
          <5> QED
            BY <4>2, <4>5, <5>1
        <4>7. CASE i - 1 # 0
          <5>1. c[<<i - 2, j>>] \in Nat
            BY <4>3, <4>4, <4>7
          <5>2. c[<<i - 1, j>>] = Max({c[<<i - 1, j - 1>>], c[<<i - 2, j>>]})
            <6>1. c[<<i - 1, j>>] = CommonAt(x, y, c, i - 1, j)
              BY <4>3, <4>4
            <6>2. (i - 1) - 1 = i - 2 /\ i - 1 > 0 /\ j # 0 /\ x[i - 1] # y[j]
              BY <4>1, <4>3, <4>7
            <6> QED
              BY <6>1, <6>2 DEF CommonAt
          <5>3. c[<<i - 1, j - 1>>] >= c[<<i - 2, j>>]
            <6>1. (i - 1) - 1 = i - 2 /\ i - 1 > 0
              BY <4>3, <4>7
            <6>2. ~(c[<<i - 1, j - 1>>] < c[<<i - 2, j>>])
              BY <4>1, <6>1 DEF DropOld
            <6> QED
              BY <4>5, <5>1, <6>2
          <5>4. c[<<i - 1, j>>] = c[<<i - 1, j - 1>>]
            <6>1. \A a, b \in Nat : a >= b => Max({a, b}) = a
              BY MaxOfTwo
            <6> QED
              BY <4>5, <5>1, <5>2, <5>3, <6>1
          <5>5. c[<<i - 1, j - 1>>] <= c[<<i, j - 1>>]
            BY <1>0, <4>2, <4>3, CommonGrows
          <5> QED
            BY <4>2, <4>5, <5>4, <5>5
        <4> QED
          BY <4>6, <4>7
      <3> HIDE DEF T, P, Good, Inserts, q, e
      <3> QED
        BY <2>3, <3>1, <3>2, <3>3, <3>4, <3>5
    <2>6. CASE ~(i > 0 /\ j > 0 /\ x[i] = y[j]) /\ ~DropOld(c, i, j) /\ j > 0
      <3> DEFINE q == <<i, j - 1>>
                 e == InsertNew(y, i, j)
      <3>1. e \in StepsOver(chars) /\ e.op = "ins"
        BY <2>6 DEF InsertNew, StepsOver
      <3>2. P[p] = Append(P[q], e)
        BY <2>1, <2>6 DEF PathAt
      <3>3. StepTo(x, y, e, q, p)
        <4>0. SameWhereDropped(c, i, j)
          BY <1>0, <2>6, NothingLost
        <4>1. c[<<i, j>>] = c[<<i, j - 1>>]
          BY <2>6, <4>0 DEF SameWhereDropped
        <4> QED
          BY <2>1, <2>6, <4>1 DEF StepTo
      <3>4. q \in T
        <4> HIDE DEF T
        <4> QED
          BY <2>2, <2>6
      <3>5. Inserts(p)
        BY <2>1, <2>6
      <3> HIDE DEF T, P, Good, Inserts, q, e
      <3> QED
        BY <2>3, <3>1, <3>2, <3>3, <3>4, <3>5
    <2>7. CASE i = 0 /\ j = 0
      <3>1. P[p] = <<>>
        BY <2>1, <2>7 DEF PathAt, DropOld
      <3>2. IsWay(x, y, <<>>, [n \in 0 .. 0 |-> p])
        BY <2>1, <2>7 DEF IsWay
      <3>3. [n \in 0 .. 0 |-> p][0] = <<0, 0>> /\ [n \in 0 .. 0 |-> p][Len(<<>>)] = p
        BY <2>1, <2>7
      <3>4. \E w : IsWay(x, y, P[p], w) /\ w[0] = <<0, 0>> /\ w[Len(P[p])] = p
        BY <3>1, <3>2, <3>3
      <3> QED
        BY <3>1, <3>4
    <2>8. i > 0 /\ j = 0 => DropOld(c, i, j)
      BY DEF DropOld
    <2> QED
      BY <2>4, <2>5, <2>6, <2>7, <2>8
  <1>3. \A p \in G : p \in T
    <2>1. rank \in [G -> Nat]
      BY <1>0, CellsRanked
    <2>2. ASSUME NEW p \in G, \A q \in G : rank[q] < rank[p] => q \in T
          PROVE  p \in T
      <3>1. Good(p)
        BY <1>2, <2>2
      <3> HIDE DEF Good
      <3> QED
        BY <3>1
    <2> HIDE DEF T, G, rank
    <2> QED
      BY <2>1, <2>2, RankInduction
  <1>4. <<Len(x), Len(y)>> \in G
    BY <1>0, CellsRanked
  <1>5. <<Len(x), Len(y)>> \in T
    <2> HIDE DEF T
    <2> QED
      BY <1>3, <1>4
  <1> QED
    BY <1>1, <1>4, <1>5 DEF Path

-----------------------------------------------------------------------------
(***************************************************************************)
(* The operations of a delta over some characters: an insertion takes      *)
(* nothing away, the others do, and a deletion brings nothing.             *)
(***************************************************************************)
OperationsOver(chars) ==
  {op \in [kind : {"td", "ti", "tr"}, pos : Nat, len : Nat, text : Seq(chars)] :
     /\ (op.kind = "ti") = (op.len = 0)
     /\ op.kind = "td" => op.text = <<>>}

(* Where the operation numbered n ends in the old text. *)
EndOf(made, n) == IF n = 0 THEN 0 ELSE made[n].pos + made[n].len

(* x from i0 to i1 is the same as y from j0 to j1. *)
Kept(x, y, i0, i1, j0, j1) ==
  /\ i0 <= i1 /\ i1 - i0 = j1 - j0
  /\ \A d \in 1 .. (i1 - i0) : x[i0 + d] = y[j0 + d]

(***************************************************************************)
(* The operation numbered n brings the text of y that ends at f[n]; before *)
(* it the two texts are the same since the operation before.               *)
(***************************************************************************)
Fits(x, y, made, f, n) ==
  LET from == f[n] - Len(made[n].text) IN
  /\ Kept(x, y, EndOf(made, n - 1), made[n].pos, f[n - 1], from)
  /\ \A d \in 1 .. Len(made[n].text) : made[n].text[d] = y[from + d]
  /\ made[n].len > 0 \/ made[n].text # <<>>
  /\ n > 1 => EndOf(made, n - 1) < made[n].pos
  /\ EndOf(made, n) <= Len(x)

(***************************************************************************)
(* The operations turn the first i characters of x into the first j of y;  *)
(* f tells how much of y there is after each of them.                      *)
(***************************************************************************)
Aligned(x, y, made, f, i, j) ==
  /\ f \in [0 .. Len(made) -> 0 .. Len(y)] /\ f[0] = 0
  /\ \A n \in 1 .. Len(made) : Fits(x, y, made, f, n)
  /\ Kept(x, y, EndOf(made, Len(made)), i, f[Len(made)], j)
  /\ i \in 0 .. Len(x) /\ j \in 0 .. Len(y)

(* Every operation ends at a place of the old text. *)
LEMMA EndOfNumber ==
  ASSUME NEW chars, NEW made \in Seq(OperationsOver(chars)), NEW n \in 0 .. Len(made)
  PROVE  EndOf(made, n) \in Nat
PROOF
  <1>1. CASE n = 0
    BY <1>1 DEF EndOf
  <1>2. CASE n # 0
    <2>1. made[n] \in OperationsOver(chars)
      BY <1>2
    <2>2. made[n].pos \in Nat /\ made[n].len \in Nat
      BY <2>1 DEF OperationsOver
    <2> QED
      BY <1>2, <2>2 DEF EndOf
  <1> QED
    BY <1>1, <1>2

(* A character that both texts have keeps the delta right as it is. *)
LEMMA AlignedKept ==
  ASSUME NEW x, NEW y, Len(x) \in Nat, Len(y) \in Nat, NEW made, NEW f, NEW i, NEW j,
         Aligned(x, y, made, f, i, j), EndOf(made, Len(made)) \in Nat, Len(made) \in Nat,
         NEW i1 \in 0 .. Len(x), NEW j1 \in 0 .. Len(y),
         i1 = i + 1, j1 = j + 1, x[i1] = y[j1]
  PROVE  Aligned(x, y, made, f, i1, j1)
PROOF
  <1> DEFINE e == EndOf(made, Len(made))
             g == f[Len(made)]
  <1>1. /\ i \in 0 .. Len(x) /\ j \in 0 .. Len(y) /\ g \in 0 .. Len(y)
        /\ e <= i /\ i - e = j - g
        /\ \A d \in 1 .. (i - e) : x[e + d] = y[g + d]
    BY DEF Aligned, Kept
  <1> HIDE DEF e, g
  <1>2. e \in Nat
    BY DEF e
  <1>3. ASSUME NEW d \in 1 .. (i1 - e)
        PROVE  x[e + d] = y[g + d]
    <2>1. CASE d \in 1 .. (i - e)
      BY <1>1, <2>1
    <2>2. CASE d = i1 - e
      <3>1. e + d = i1 /\ g + d = j1
        BY <1>1, <1>2, <2>2
      <3> QED
        BY <3>1
    <2> QED
      BY <1>1, <1>2, <2>1, <2>2
  <1>4. Kept(x, y, e, i1, g, j1)
    <2>1. e <= i1 /\ i1 - e = j1 - g
      BY <1>1, <1>2
    <2> QED
      BY <1>3, <2>1 DEF Kept
  <1> QED
    BY <1>4 DEF Aligned, e, g

(***************************************************************************)
(* The operations made stand for i characters of x and j of y.  The next   *)
(* one, op, comes not at once after them; it takes x to its character i1   *)
(* and brings what y has up to its character j1.                           *)
(***************************************************************************)
Follows(chars, x, y, made, f, op, i, j, i1, j1) ==
  /\ x \in Seq(chars) /\ y \in Seq(chars)
  /\ made \in Seq(OperationsOver(chars)) /\ op \in OperationsOver(chars)
  /\ Aligned(x, y, made, f, i, j)
  /\ op.pos = i /\ i + op.len = i1 /\ j + Len(op.text) = j1
  /\ i1 <= Len(x) /\ j1 <= Len(y)
  /\ op.len > 0 \/ op.text # <<>>
  /\ made # <<>> => EndOf(made, Len(made)) < i
  /\ \A d \in 1 .. Len(op.text) : op.text[d] = y[j + d]

(* One operation more keeps the delta right. *)
LEMMA AlignedMore ==
  ASSUME NEW chars, NEW x, NEW y, NEW made, NEW f, NEW op, NEW i, NEW j, NEW i1, NEW j1,
         Follows(chars, x, y, made, f, op, i, j, i1, j1)
  PROVE  /\ \E g : Aligned(x, y, Append(made, op), g, i1, j1)
         /\ EndOf(Append(made, op), Len(Append(made, op))) = i1
         /\ Append(made, op) \in Seq(OperationsOver(chars))
PROOF
  <1> DEFINE l == Len(made)
             more == Append(made, op)
             size == Len(op.text)
             g == [n \in 0 .. (l + 1) |-> IF n = l + 1 THEN j1 ELSE f[n]]
  <1>1. /\ x \in Seq(chars) /\ y \in Seq(chars)
        /\ made \in Seq(OperationsOver(chars)) /\ op \in OperationsOver(chars)
        /\ op.pos = i /\ i + op.len = i1 /\ j + size = j1
        /\ i1 <= Len(x) /\ j1 <= Len(y)
        /\ op.len > 0 \/ op.text # <<>>
        /\ made # <<>> => EndOf(made, l) < i
        /\ \A d \in 1 .. size : op.text[d] = y[j + d]
    BY DEF Follows
  <1>2. /\ l \in Nat /\ Len(more) = l + 1 /\ more[l + 1] = op
        /\ \A n \in 1 .. l : more[n] = made[n]
        /\ more \in Seq(OperationsOver(chars))
    BY <1>1, AppendMore
  <1>3. /\ size \in Nat /\ op.len \in Nat /\ op.pos \in Nat
        /\ Len(x) \in Nat /\ Len(y) \in Nat
        /\ l # 0 <=> made # <<>>
    BY <1>1 DEF OperationsOver
  <1>4. /\ f \in [0 .. l -> 0 .. Len(y)] /\ f[0] = 0
        /\ \A n \in 1 .. l : Fits(x, y, made, f, n)
        /\ Kept(x, y, EndOf(made, l), i, f[l], j)
        /\ i \in 0 .. Len(x) /\ j \in 0 .. Len(y)
    BY DEF Aligned, Follows
  <1>5. i1 \in 0 .. Len(x) /\ j1 \in 0 .. Len(y) /\ j1 - size = j
    BY <1>1, <1>3, <1>4
  <1>6. /\ g \in [0 .. (l + 1) -> 0 .. Len(y)] /\ g[0] = 0 /\ g[l + 1] = j1
        /\ \A n \in 0 .. l : g[n] = f[n]
    BY <1>2, <1>4, <1>5
  <1> HIDE DEF g, more, l
  <1>7. \A n \in 0 .. l : EndOf(more, n) = EndOf(made, n)
    BY <1>2 DEF EndOf
  <1>8. EndOf(more, l + 1) = i1
    BY <1>1, <1>2 DEF EndOf
  <1>9. ASSUME NEW n \in 1 .. (l + 1)
        PROVE  Fits(x, y, more, g, n)
    <2>1. CASE n = l + 1
      <3>1. n - 1 = l /\ l \in 0 .. l
        BY <1>2, <2>1
      <3>2. /\ more[n] = op /\ g[n] - size = j /\ g[n - 1] = f[l]
            /\ EndOf(more, n - 1) = EndOf(made, l) /\ EndOf(more, n) = i1
        BY <1>2, <1>5, <1>6, <1>7, <1>8, <2>1, <3>1
      <3>3. n > 1 => EndOf(made, l) < i
        BY <1>1, <1>2, <1>3, <2>1
      <3> QED
        BY <1>1, <1>4, <3>2, <3>3 DEF Fits
    <2>2. CASE n \in 1 .. l
      <3>1. n - 1 \in 0 .. l /\ n \in 0 .. l
        BY <1>2, <2>2
      <3>2. /\ more[n] = made[n] /\ g[n] = f[n] /\ g[n - 1] = f[n - 1]
            /\ EndOf(more, n - 1) = EndOf(made, n - 1) /\ EndOf(more, n) = EndOf(made, n)
        BY <1>2, <1>6, <1>7, <2>2, <3>1
      <3>3. Fits(x, y, made, f, n)
        BY <1>4, <2>2
      <3> QED
        BY <3>2, <3>3 DEF Fits
    <2> QED
      BY <1>2, <2>1, <2>2
  <1>10. Kept(x, y, i1, i1, j1, j1)
    BY <1>5 DEF Kept
  <1>11. Aligned(x, y, more, g, i1, j1)
    BY <1>2, <1>5, <1>6, <1>8, <1>9, <1>10 DEF Aligned
  <1> QED
    BY <1>2, <1>8, <1>11 DEF more, l

-----------------------------------------------------------------------------
(* XyStrDiff's buffers over some characters. *)
BuffersOver(chars) ==
  [op : {"none", "noop", "del", "ins", "sub"}, at : Nat,
   del : Seq(chars), ins : Seq(chars), out : Seq(OperationsOver(chars))]

Pending(b) == b.op \in {"del", "ins", "sub"}

(***************************************************************************)
(* The buffers after i characters of x and j of y: what is pending comes   *)
(* last in both texts, and the delta stands for all before it.             *)
(***************************************************************************)
BuffersFit(x, y, b, i, j) ==
  /\ (b.op \in {"del", "sub"}) = (b.del # <<>>)
  /\ (b.op \in {"ins", "sub"}) = (b.ins # <<>>)
  /\ Len(b.del) <= i /\ Len(b.ins) <= j
  /\ \A d \in 1 .. Len(b.ins) : b.ins[d] = y[(j - Len(b.ins)) + d]
  /\ b.out # <<>> => EndOf(b.out, Len(b.out)) < i - Len(b.del)
  /\ \E f : Aligned(x, y, b.out, f, i - Len(b.del), j - Len(b.ins))

(***************************************************************************)
(* flushBuffers brings the delta up to date with both texts and leaves     *)
(* nothing pending.                                                        *)
(***************************************************************************)
LEMMA Flushed ==
  ASSUME NEW chars, NEW x \in Seq(chars), NEW y \in Seq(chars),
         NEW b \in BuffersOver(chars), NEW i \in 0 .. Len(x), NEW j \in 0 .. Len(y),
         BuffersFit(x, y, b, i, j), Pending(b) => b.at = i
  PROVE  /\ FlushBuffers(b) \in BuffersOver(chars)
         /\ FlushBuffers(b).del = <<>> /\ FlushBuffers(b).ins = <<>>
         /\ FlushBuffers(b).op = b.op /\ FlushBuffers(b).at = b.at
         /\ \E f : Aligned(x, y, FlushBuffers(b).out, f, i, j)
         /\ FlushBuffers(b).out # <<>> =>
              EndOf(FlushBuffers(b).out, Len(FlushBuffers(b).out)) <= i
PROOF
  <1> DEFINE kind == IF b.op = "sub" THEN "tr" ELSE IF b.op = "ins" THEN "ti" ELSE "td"
             c == FlushBuffers(b)
  <1>0. Len(x) \in Nat /\ Len(y) \in Nat
    OBVIOUS
  <1>1. /\ b.op \in {"none", "noop", "del", "ins", "sub"} /\ b.at \in Nat
        /\ b.del \in Seq(chars) /\ b.ins \in Seq(chars) /\ b.out \in Seq(OperationsOver(chars))
        /\ Len(b.del) \in Nat /\ Len(b.ins) \in Nat
    BY DEF BuffersOver
  <1>2. PICK f : Aligned(x, y, b.out, f, i - Len(b.del), j - Len(b.ins))
    BY DEF BuffersFit
  <1>3. /\ (b.op \in {"del", "sub"}) = (b.del # <<>>)
        /\ (b.op \in {"ins", "sub"}) = (b.ins # <<>>)
        /\ Len(b.del) <= i /\ Len(b.ins) <= j
        /\ \A d \in 1 .. Len(b.ins) : b.ins[d] = y[(j - Len(b.ins)) + d]
        /\ b.out # <<>> => EndOf(b.out, Len(b.out)) < i - Len(b.del)
    BY DEF BuffersFit
  <1>4. CASE ~Pending(b)
    <2>1. b.del = <<>> /\ b.ins = <<>>
      BY <1>3, <1>4 DEF Pending
    <2>2. c = b
      BY <1>4 DEF FlushBuffers, Pending
    <2>3. i - Len(b.del) = i /\ j - Len(b.ins) = j
      BY <1>0, <2>1
    <2>4. Aligned(x, y, c.out, f, i, j)
      BY <1>2, <2>2, <2>3
    <2>5. EndOf(c.out, Len(c.out)) < i \/ c.out = <<>>
      BY <1>3, <2>2, <2>3
    <2>6. c.out # <<>> => EndOf(c.out, Len(c.out)) <= i
      <3>1. c.out # <<>> => EndOf(c.out, Len(c.out)) \in Int
        BY <1>1, <2>2, EndOfNumber
      <3> QED
        BY <1>0, <2>5, <3>1
    <2> QED
      BY <2>1, <2>2, <2>4, <2>6
  <1>5. CASE Pending(b)
    <2>1. b.at = i
      BY <1>5
    <2> DEFINE size == Len(b.del)
               brings == Len(b.ins)
    <2>2. PICK u \in Nat, v \in Nat : u = i - size /\ v = j - brings
      <3>1. i - size \in Nat /\ j - brings \in Nat
        BY <1>0, <1>1, <1>3
      <3> QED
        BY <3>1
    <2>3. u + size = i /\ v + brings = j
      BY <1>0, <1>1, <2>2
    <2> DEFINE op == Operation(kind, u, size, b.ins)
               more == Append(b.out, op)
    <2>4. op.pos = u /\ op.len = size /\ op.text = b.ins
      BY DEF Operation
    <2>5. op \in OperationsOver(chars)
      <3>1. /\ (kind = "ti") = (b.op = "ins") /\ (kind = "td") => (b.op = "del")
            /\ kind \in {"td", "ti", "tr"}
        BY <1>5 DEF Pending
      <3>2. (kind = "ti") = (size = 0)
        <4>1. (b.del # <<>>) = (size # 0)
          BY <1>1
        <4> QED
          BY <1>3, <1>5, <3>1, <4>1 DEF Pending
      <3>3. kind = "td" => b.ins = <<>>
        BY <1>3, <3>1
      <3> HIDE DEF kind, size
      <3> QED
        BY <1>1, <2>2, <3>1, <3>2, <3>3 DEF Operation, OperationsOver, size
    <2>6. op.len > 0 \/ op.text # <<>>
      BY <1>1, <1>3, <1>5, <2>4 DEF Pending
    <2>7. c = [b EXCEPT !.out = more, !.del = <<>>, !.ins = <<>>]
      <3>1. CASE b.op = "sub"
        BY <1>1, <2>1, <2>2, <3>1 DEF FlushBuffers, Operation
      <3>2. CASE b.op = "ins"
        <4>1. b.del = <<>> /\ size = 0 /\ u = i
          BY <1>0, <1>3, <2>2, <3>2
        <4>2. c = [b EXCEPT !.out = more, !.ins = <<>>]
          BY <1>1, <2>1, <3>2, <4>1 DEF FlushBuffers, Operation
        <4> QED
          BY <4>1, <4>2 DEF BuffersOver
      <3>3. CASE b.op = "del"
        <4>1. b.ins = <<>>
          BY <1>3, <3>3
        <4>2. c = [b EXCEPT !.out = more, !.del = <<>>]
          BY <1>1, <2>1, <2>2, <3>3, <4>1 DEF FlushBuffers, Operation
        <4> QED
          BY <4>1, <4>2 DEF BuffersOver
      <3> QED
        BY <1>5, <3>1, <3>2, <3>3 DEF Pending
    <2>8. Aligned(x, y, b.out, f, u, v)
      BY <1>2, <2>2
    <2>9. /\ b.out # <<>> => EndOf(b.out, Len(b.out)) < u
          /\ u + op.len <= Len(x) /\ v + Len(op.text) <= Len(y)
          /\ \A d \in 1 .. Len(op.text) : op.text[d] = y[v + d]
      <3>1. u + op.len <= Len(x) /\ v + Len(op.text) <= Len(y)
        BY <1>0, <2>3, <2>4
      <3>2. b.out # <<>> => EndOf(b.out, Len(b.out)) < u
        BY <1>3, <2>2
      <3>3. \A d \in 1 .. brings : b.ins[d] = y[v + d]
        BY <1>3, <2>2
      <3> QED
        BY <2>4, <3>1, <3>2, <3>3
    <2>10. Follows(chars, x, y, b.out, f, op, u, v, i, j)
      <3> HIDE DEF op
      <3> QED
        BY <1>0, <1>1, <2>3, <2>4, <2>5, <2>6, <2>8, <2>9 DEF Follows
    <2>11. /\ \E g : Aligned(x, y, more, g, i, j)
           /\ EndOf(more, Len(more)) = i
           /\ more \in Seq(OperationsOver(chars))
      <3> HIDE DEF op
      <3> QED
        BY <2>10, AlignedMore
    <2> HIDE DEF more, c
    <2>12. /\ c.out = more /\ c.del = <<>> /\ c.ins = <<>>
           /\ c.op = b.op /\ c.at = b.at
      BY <2>7 DEF BuffersOver
    <2>13. c \in BuffersOver(chars)
      <3>1. <<>> \in Seq(chars)
        OBVIOUS
      <3> QED
        BY <1>1, <2>7, <2>11, <3>1 DEF BuffersOver
    <2>14. c.out # <<>> => EndOf(c.out, Len(c.out)) <= i
      BY <1>0, <2>11, <2>12
    <2> QED
      BY <2>11, <2>12, <2>13, <2>14 DEF c
  <1> QED
    BY <1>4, <1>5

(***************************************************************************)
(* What registerBuffer is called with: the step leads from cell p to cell  *)
(* q, and no deletion comes while only an insertion is pending.            *)
(***************************************************************************)
Calls(chars, x, y, b, step, p, q) ==
  /\ x \in Seq(chars) /\ y \in Seq(chars) /\ b \in BuffersOver(chars)
  /\ step \in StepsOver(chars) /\ p \in Cells(x, y) /\ q \in Cells(x, y)
  /\ StepTo(x, y, step, p, q)
  /\ BuffersFit(x, y, b, p[1], p[2])
  /\ b.op = "ins" => step.op # "del"

(***************************************************************************)
(* registerBuffer keeps the buffers in step with the way.  Only an         *)
(* insertion leaves an insertion pending, and at the end of both texts a   *)
(* pending operation is at the end of the old one.                         *)
(***************************************************************************)
LEMMA Registered ==
  ASSUME NEW chars, NEW x, NEW y, NEW b, NEW step, NEW p, NEW q,
         Calls(chars, x, y, b, step, p, q)
  PROVE  /\ RegisterBuffer(b, step) \in BuffersOver(chars)
         /\ BuffersFit(x, y, RegisterBuffer(b, step), q[1], q[2])
         /\ RegisterBuffer(b, step).op = "ins" => step.op = "ins"
         /\ Pending(RegisterBuffer(b, step)) /\ q = <<Len(x), Len(y)>> =>
              RegisterBuffer(b, step).at = Len(x)
PROOF
  <1> DEFINE r == RegisterBuffer(b, step)
             seen == [b EXCEPT !.at = step.at]
  <1>1. /\ x \in Seq(chars) /\ y \in Seq(chars) /\ b \in BuffersOver(chars)
        /\ step \in StepsOver(chars) /\ p \in Cells(x, y) /\ q \in Cells(x, y)
        /\ StepTo(x, y, step, p, q) /\ BuffersFit(x, y, b, p[1], p[2])
        /\ b.op = "ins" => step.op # "del"
    BY DEF Calls
  <1>2. /\ b.op \in {"none", "noop", "del", "ins", "sub"} /\ b.at \in Nat
        /\ b.del \in Seq(chars) /\ b.ins \in Seq(chars) /\ b.out \in Seq(OperationsOver(chars))
        /\ Len(b.del) \in Nat /\ Len(b.ins) \in Nat
    BY <1>1 DEF BuffersOver
  <1>3. /\ Len(x) \in Nat /\ Len(y) \in Nat
        /\ p[1] \in 0 .. Len(x) /\ p[2] \in 0 .. Len(y)
        /\ q[1] \in 0 .. Len(x) /\ q[2] \in 0 .. Len(y)
    <2>1. Len(x) \in Nat /\ Len(y) \in Nat
      BY <1>1
    <2> QED
      BY <1>1, <2>1, CellParts
  <1>4. /\ step.op \in {"noop", "del", "ins"} /\ step.at \in Nat /\ step.chr \in chars
    BY <1>1 DEF StepsOver
  <1>5. /\ (b.op \in {"del", "sub"}) = (b.del # <<>>)
        /\ (b.op \in {"ins", "sub"}) = (b.ins # <<>>)
        /\ Len(b.del) <= p[1] /\ Len(b.ins) <= p[2]
        /\ \A d \in 1 .. Len(b.ins) : b.ins[d] = y[(p[2] - Len(b.ins)) + d]
        /\ b.out # <<>> => EndOf(b.out, Len(b.out)) < p[1] - Len(b.del)
        /\ \E f : Aligned(x, y, b.out, f, p[1] - Len(b.del), p[2] - Len(b.ins))
    BY <1>1 DEF BuffersFit
  <1>6. /\ seen \in BuffersOver(chars) /\ seen.at = step.at
        /\ seen.op = b.op /\ seen.del = b.del /\ seen.ins = b.ins /\ seen.out = b.out
    BY <1>1, <1>4 DEF BuffersOver
  <1> HIDE DEF seen
  <1>7. CASE step.op = "noop"
    <2>1. /\ q[1] = p[1] + 1 /\ q[2] = p[2] + 1 /\ step.at = p[1] /\ x[q[1]] = y[q[2]]
      BY <1>1, <1>3, <1>7 DEF StepTo, KeepOld, DeleteOld, InsertNew
    <2> DEFINE c == FlushBuffers(seen)
    <2>2. /\ c \in BuffersOver(chars) /\ c.del = <<>> /\ c.ins = <<>>
          /\ \E f : Aligned(x, y, c.out, f, p[1], p[2])
          /\ c.out # <<>> => EndOf(c.out, Len(c.out)) <= p[1]
      <3>1. BuffersFit(x, y, seen, p[1], p[2])
        BY <1>1, <1>6 DEF BuffersFit
      <3>2. Pending(seen) => seen.at = p[1]
        BY <1>6, <2>1
      <3> QED
        BY <1>1, <1>3, <1>6, <3>1, <3>2, Flushed
    <2>3. PICK f : Aligned(x, y, c.out, f, p[1], p[2])
      BY <2>2
    <2>4. r = [c EXCEPT !.op = "noop"]
      BY <1>7 DEF RegisterBuffer, seen
    <2> HIDE DEF c
    <2>5. /\ r \in BuffersOver(chars) /\ r.op = "noop"
          /\ r.del = <<>> /\ r.ins = <<>> /\ r.out = c.out
      BY <2>2, <2>4 DEF BuffersOver
    <2>6. /\ c.out \in Seq(OperationsOver(chars)) /\ Len(c.out) \in Nat
          /\ EndOf(c.out, Len(c.out)) \in Nat
      <3>1. c.out \in Seq(OperationsOver(chars))
        BY <2>2 DEF BuffersOver
      <3>2. Len(c.out) \in Nat /\ Len(c.out) \in 0 .. Len(c.out)
        BY <3>1
      <3> QED
        BY <3>1, <3>2, EndOfNumber
    <2>7. Aligned(x, y, c.out, f, q[1], q[2])
      BY <1>3, <2>1, <2>3, <2>6, AlignedKept
    <2>8. Len(r.del) = 0 /\ Len(r.ins) = 0
      BY <2>5
    <2>9. BuffersFit(x, y, r, q[1], q[2])
      <3>1. q[1] - Len(r.del) = q[1] /\ q[2] - Len(r.ins) = q[2]
        BY <1>3, <2>8
      <3>2. r.out # <<>> => EndOf(r.out, Len(r.out)) < q[1]
        BY <1>3, <2>1, <2>2, <2>5, <2>6
      <3> HIDE DEF r
      <3> QED
        BY <1>3, <2>5, <2>7, <2>8, <3>1, <3>2 DEF BuffersFit
    <2> HIDE DEF r
    <2>10. r.op # "ins" /\ ~Pending(r)
      BY <2>5 DEF Pending
    <2> QED
      BY <2>5, <2>9, <2>10 DEF r
  <1>8. CASE step.op = "del"
    <2>1. /\ q[1] = p[1] + 1 /\ q[2] = p[2]
          /\ q = <<Len(x), Len(y)>> => step.at = Len(x)
      BY <1>1, <1>3, <1>8 DEF StepTo, KeepOld, DeleteOld, InsertNew
    <2> DEFINE del == Append(b.del, step.chr)
               op == IF b.op = "sub" THEN "sub" ELSE "del"
    <2>2. r = [seen EXCEPT !.del = del, !.op = op]
      BY <1>6, <1>8 DEF RegisterBuffer, seen
    <2>3. del \in Seq(chars) /\ Len(del) = Len(b.del) + 1 /\ del # <<>>
      BY <1>2, <1>4
    <2> HIDE DEF del
    <2>4. /\ r \in BuffersOver(chars) /\ r.op = op /\ r.at = step.at
          /\ r.del = del /\ r.ins = b.ins /\ r.out = b.out
      BY <1>6, <2>2, <2>3 DEF BuffersOver
    <2>5. /\ q[1] - Len(r.del) = p[1] - Len(b.del) /\ q[2] - Len(r.ins) = p[2] - Len(b.ins)
          /\ Len(r.del) <= q[1] /\ Len(r.ins) <= q[2]
      <3>1. Len(r.del) = Len(b.del) + 1 /\ Len(r.ins) = Len(b.ins)
        BY <2>3, <2>4
      <3> HIDE DEF r
      <3> QED
        BY <1>2, <1>3, <1>5, <2>1, <3>1
    <2>6. (op \in {"del", "sub"}) /\ (op \in {"ins", "sub"}) = (b.ins # <<>>)
      BY <1>1, <1>5, <1>8
    <2> HIDE DEF r, op
    <2>7. BuffersFit(x, y, r, q[1], q[2])
      BY <1>5, <2>1, <2>3, <2>4, <2>5, <2>6 DEF BuffersFit
    <2>8. r.op # "ins"
      BY <2>4 DEF op
    <2> QED
      BY <2>1, <2>4, <2>7, <2>8 DEF r
  <1>9. CASE step.op = "ins"
    <2>1. /\ q[1] = p[1] /\ q[2] = p[2] + 1 /\ step.at = q[1] /\ step.chr = y[q[2]]
      BY <1>1, <1>3, <1>9 DEF StepTo, KeepOld, DeleteOld, InsertNew
    <2> DEFINE ins == Append(b.ins, step.chr)
               op == IF b.op \in {"del", "sub"} THEN "sub" ELSE "ins"
    <2>2. r = [seen EXCEPT !.ins = ins, !.op = op]
      BY <1>6, <1>9 DEF RegisterBuffer, seen
    <2>3. /\ ins \in Seq(chars) /\ Len(ins) = Len(b.ins) + 1 /\ ins # <<>>
          /\ ins[Len(b.ins) + 1] = step.chr
          /\ \A d \in 1 .. Len(b.ins) : ins[d] = b.ins[d]
      BY <1>2, <1>4
    <2> HIDE DEF ins
    <2>4. /\ r \in BuffersOver(chars) /\ r.op = op /\ r.at = step.at
          /\ r.del = b.del /\ r.ins = ins /\ r.out = b.out
      BY <1>6, <2>2, <2>3 DEF BuffersOver
    <2>5. /\ q[1] - Len(r.del) = p[1] - Len(b.del) /\ q[2] - Len(r.ins) = p[2] - Len(b.ins)
          /\ Len(r.del) <= q[1] /\ Len(r.ins) <= q[2]
      BY <1>2, <1>3, <1>5, <2>1, <2>3, <2>4
    <2>6. (op \in {"ins", "sub"}) /\ (op \in {"del", "sub"}) = (b.del # <<>>)
      BY <1>2, <1>5
    <2>7. ASSUME NEW d \in 1 .. Len(ins)
          PROVE  ins[d] = y[(q[2] - Len(ins)) + d]
      <3>1. CASE d \in 1 .. Len(b.ins)
        BY <1>5, <2>3, <2>4, <2>5, <3>1
      <3>2. CASE d = Len(b.ins) + 1
        <4>1. (q[2] - Len(ins)) + d = q[2]
          BY <1>2, <1>3, <2>3, <3>2
        <4> QED
          BY <2>1, <2>3, <3>2, <4>1
      <3> QED
        BY <1>2, <2>3, <3>1, <3>2
    <2> HIDE DEF r, op
    <2>8. BuffersFit(x, y, r, q[1], q[2])
      BY <1>5, <2>1, <2>3, <2>4, <2>5, <2>6, <2>7 DEF BuffersFit
    <2>9. q = <<Len(x), Len(y)>> => r.at = Len(x)
      BY <2>1, <2>4
    <2> QED
      BY <1>9, <2>4, <2>8, <2>9 DEF r
  <1> QED
    BY <1>4, <1>7, <1>8, <1>9

-----------------------------------------------------------------------------
(* The first i places of a text that the operations leave alone. *)
LeftOf(made, i) ==
  {m \in 1 .. i : \A n \in DOMAIN made :
                    ~(made[n].pos < m /\ m <= made[n].pos + made[n].len)}

(***************************************************************************)
(* What the operations leave of the first i characters of x is a common    *)
(* part of them and the first j of y, and as long as the table says.       *)
(***************************************************************************)
LeavesMost(x, y, made, i, j, n) ==
  /\ i \in Nat /\ j \in Nat
  /\ \A m \in DOMAIN made : made[m].pos + made[m].len <= i
  /\ \E g : Choice(x, y, LeftOf(made, i), g, i, j)
  /\ Cardinality(LeftOf(made, i)) = n

(* The same of the buffers, what is pending apart. *)
BuffersLeaveMost(x, y, b, p) ==
  LeavesMost(x, y, b.out, p[1] - Len(b.del), p[2] - Len(b.ins), Common(x, y)[p])

(* flushBuffers takes away what is pending and no more. *)
LEMMA FlushedLeavesMost ==
  ASSUME NEW chars, NEW x, NEW y, NEW b \in BuffersOver(chars), NEW i \in Nat, NEW j \in Nat,
         NEW n, LeavesMost(x, y, b.out, i - Len(b.del), j - Len(b.ins), n),
         (b.op \in {"del", "sub"}) = (b.del # <<>>),
         Pending(b) => b.at = i
  PROVE  LeavesMost(x, y, FlushBuffers(b).out, i, j, n)
PROOF
  <1> DEFINE u == i - Len(b.del)
             v == j - Len(b.ins)
             made == FlushBuffers(b).out
  <1>1. /\ b.op \in {"none", "noop", "del", "ins", "sub"} /\ b.at \in Nat
        /\ b.del \in Seq(chars) /\ b.ins \in Seq(chars) /\ b.out \in Seq(OperationsOver(chars))
        /\ Len(b.del) \in Nat /\ Len(b.ins) \in Nat
    BY DEF BuffersOver
  <1>2. /\ u \in Nat /\ v \in Nat
        /\ \A m \in DOMAIN b.out : b.out[m].pos + b.out[m].len <= u
        /\ \E g : Choice(x, y, LeftOf(b.out, u), g, u, v)
        /\ Cardinality(LeftOf(b.out, u)) = n
    BY DEF LeavesMost
  <1>3. u + Len(b.del) = i /\ v + Len(b.ins) = j
    BY <1>1
  <1>4. \/ made = b.out /\ b.del = <<>>
        \/ \E op : made = Append(b.out, op) /\ op.pos = u /\ op.len = Len(b.del)
    <2>1. CASE ~Pending(b)
      BY <1>1, <2>1 DEF FlushBuffers, Pending
    <2>2. CASE b.op = "sub" \/ b.op = "del"
      <3> DEFINE op == IF b.op = "sub" THEN Operation("tr", b.at - Len(b.del), Len(b.del), b.ins)
                       ELSE Operation("td", b.at - Len(b.del), Len(b.del), <<>>)
      <3>1. made = Append(b.out, op)
        BY <1>1, <2>2 DEF FlushBuffers, BuffersOver
      <3>2. op.pos = u /\ op.len = Len(b.del)
        BY <2>2 DEF Operation, Pending
      <3> HIDE DEF op
      <3> QED
        BY <3>1, <3>2
    <2>3. CASE b.op = "ins"
      <3> DEFINE op == Operation("ti", b.at, 0, b.ins)
      <3>1. made = Append(b.out, op)
        BY <1>1, <2>3 DEF FlushBuffers, BuffersOver
      <3>2. b.del = <<>> /\ Len(b.del) = 0
        BY <2>3
      <3>3. op.pos = u /\ op.len = Len(b.del)
        BY <2>3, <3>2 DEF Operation, Pending
      <3> HIDE DEF op
      <3> QED
        BY <3>1, <3>3
    <2> QED
      BY <2>1, <2>2, <2>3 DEF Pending
  <1> HIDE DEF u, v, made
  <1>5. CASE made = b.out /\ b.del = <<>>
    <2>1. u = i
      BY <1>2, <1>3, <1>5
    <2>2. \E g : Choice(x, y, LeftOf(made, i), g, i, j)
      <3>1. PICK g : Choice(x, y, LeftOf(b.out, u), g, u, v)
        BY <1>2
      <3>2. Choice(x, y, LeftOf(b.out, u), g, i, j)
        BY <1>1, <1>2, <1>3, <2>1, <3>1, ChoiceGrows
      <3> QED
        BY <1>5, <2>1, <3>2
    <2> QED
      BY <1>2, <1>5, <2>1, <2>2 DEF LeavesMost, made
  <1>6. CASE \E op : made = Append(b.out, op) /\ op.pos = u /\ op.len = Len(b.del)
    <2>1. PICK op : made = Append(b.out, op) /\ op.pos = u /\ op.len = Len(b.del)
      BY <1>6
    <2>2. /\ DOMAIN b.out = 1 .. Len(b.out) /\ DOMAIN made = 1 .. (Len(b.out) + 1)
          /\ Len(b.out) \in Nat
          /\ made[Len(b.out) + 1] = op
          /\ \A m \in 1 .. Len(b.out) : made[m] = b.out[m]
      BY <1>1, <2>1
    <2>3. \A m \in DOMAIN made : made[m].pos + made[m].len <= i
      <3>1. ASSUME NEW m \in DOMAIN made
            PROVE  made[m].pos + made[m].len <= i
        <4>1. CASE m = Len(b.out) + 1
          BY <1>1, <1>2, <1>3, <2>1, <2>2, <4>1
        <4>2. CASE m \in 1 .. Len(b.out)
          <5>1. b.out[m] \in OperationsOver(chars)
            BY <1>1, <4>2
          <5>2. b.out[m].pos \in Nat /\ b.out[m].len \in Nat
            BY <5>1 DEF OperationsOver
          <5>3. made[m] = b.out[m] /\ b.out[m].pos + b.out[m].len <= u
            BY <1>2, <2>2, <4>2
          <5>4. u \in Nat /\ u <= i
            BY <1>1, <1>2, <1>3
          <5> QED
            BY <5>2, <5>3, <5>4
        <4> QED
          BY <2>2, <4>1, <4>2
      <3> QED
        BY <3>1
    <2>4. LeftOf(made, i) = LeftOf(b.out, u)
      <3>1. ASSUME NEW m \in LeftOf(b.out, u)
            PROVE  m \in LeftOf(made, i)
        <4>1. m \in 1 .. u /\ m \in 1 .. i
          BY <1>1, <1>2, <1>3 DEF LeftOf
        <4>2. ~(op.pos < m /\ m <= op.pos + op.len)
          BY <1>2, <2>1, <4>1
        <4>3. \A n1 \in 1 .. Len(b.out) :
                ~(made[n1].pos < m /\ m <= made[n1].pos + made[n1].len)
          BY <2>2 DEF LeftOf
        <4>4. ASSUME NEW n1 \in DOMAIN made
              PROVE  ~(made[n1].pos < m /\ m <= made[n1].pos + made[n1].len)
          <5>1. n1 = Len(b.out) + 1 \/ n1 \in 1 .. Len(b.out)
            BY <2>2
          <5> QED
            BY <2>2, <4>2, <4>3, <5>1
        <4> QED
          BY <4>1, <4>4 DEF LeftOf
      <3>2. ASSUME NEW m \in LeftOf(made, i)
            PROVE  m \in LeftOf(b.out, u)
        <4>1. /\ m \in 1 .. i
              /\ \A n1 \in DOMAIN made :
                   ~(made[n1].pos < m /\ m <= made[n1].pos + made[n1].len)
          BY DEF LeftOf
        <4>2. ~(op.pos < m /\ m <= op.pos + op.len)
          <5>1. Len(b.out) + 1 \in DOMAIN made
            BY <2>2
          <5> QED
            BY <2>2, <4>1, <5>1
        <4>3. m \in 1 .. u
          BY <1>1, <1>2, <1>3, <2>1, <4>1, <4>2
        <4>4. \A n1 \in DOMAIN b.out :
                ~(b.out[n1].pos < m /\ m <= b.out[n1].pos + b.out[n1].len)
          <5>1. \A n1 \in DOMAIN b.out : n1 \in DOMAIN made /\ made[n1] = b.out[n1]
            BY <2>2
          <5> QED
            BY <4>1, <5>1
        <4> QED
          BY <4>3, <4>4 DEF LeftOf
      <3> QED
        BY <3>1, <3>2
    <2>5. \E g : Choice(x, y, LeftOf(made, i), g, i, j)
      <3>1. PICK g : Choice(x, y, LeftOf(b.out, u), g, u, v)
        BY <1>2
      <3>2. Choice(x, y, LeftOf(b.out, u), g, i, j)
        BY <1>1, <1>2, <1>3, <3>1, ChoiceGrows
      <3> QED
        BY <2>4, <3>2
    <2>6. LeavesMost(x, y, made, i, j, n)
      BY <1>2, <2>3, <2>4, <2>5 DEF LeavesMost
    <2> QED
      BY <2>6 DEF made
  <1> QED
    BY <1>4, <1>5, <1>6

(* One character more that is kept. *)
LEMMA KeptLeavesMost ==
  ASSUME NEW chars, NEW x, NEW y, NEW made \in Seq(OperationsOver(chars)),
         NEW i \in Nat, NEW j \in Nat, NEW n \in Nat, LeavesMost(x, y, made, i, j, n),
         x[i + 1] = y[j + 1]
  PROVE  LeavesMost(x, y, made, i + 1, j + 1, n + 1)
PROOF
  <1> DEFINE S == LeftOf(made, i)
             R == LeftOf(made, i + 1)
  <1>1. /\ \A m \in DOMAIN made : made[m].pos + made[m].len <= i
        /\ \E g : Choice(x, y, S, g, i, j)
        /\ Cardinality(S) = n
    BY DEF LeavesMost
  <1>2. \A m \in DOMAIN made : made[m].pos \in Nat /\ made[m].len \in Nat
    <2>1. \A m \in DOMAIN made : made[m] \in OperationsOver(chars)
      OBVIOUS
    <2> QED
      BY <2>1 DEF OperationsOver
  <1>3. R = S \cup {i + 1} /\ i + 1 \notin S /\ S \subseteq 1 .. i
    <2>1. S \subseteq 1 .. i /\ i + 1 \notin S
      BY DEF LeftOf
    <2>2. ASSUME NEW m \in R
          PROVE  m \in S \cup {i + 1}
      BY DEF LeftOf
    <2>3. ASSUME NEW m \in S
          PROVE  m \in R
      BY DEF LeftOf
    <2>4. i + 1 \in R
      <3>1. \A m \in DOMAIN made : ~(i + 1 <= made[m].pos + made[m].len)
        BY <1>1, <1>2
      <3> QED
        BY <3>1 DEF LeftOf
    <2> HIDE DEF S, R
    <2> QED
      BY <2>1, <2>2, <2>3, <2>4
  <1> HIDE DEF S, R
  <1>4. PICK g : Choice(x, y, S, g, i, j)
    BY <1>1
  <1>5. /\ g \in [S -> 1 .. j]
        /\ \A s \in S : x[s] = y[g[s]]
        /\ \A s, t \in S : s < t => g[s] < g[t]
    BY <1>4 DEF Choice
  <1> DEFINE h == [s \in R |-> IF s = i + 1 THEN j + 1 ELSE g[s]]
  <1>6. h[i + 1] = j + 1 /\ \A s \in S : s # i + 1 /\ h[s] = g[s]
    BY <1>3
  <1>7. ASSUME NEW s \in R
        PROVE  h[s] \in 1 .. (j + 1) /\ s \in 1 .. (i + 1) /\ x[s] = y[h[s]]
    <2>1. CASE s = i + 1
      BY <1>6, <2>1
    <2>2. CASE s \in S
      <3>1. g[s] \in 1 .. j /\ s \in 1 .. i
        BY <1>3, <1>5, <2>2
      <3> HIDE DEF h
      <3> QED
        BY <1>5, <1>6, <2>2, <3>1
    <2> QED
      BY <1>3, <2>1, <2>2
  <1>8. h \in [R -> 1 .. (j + 1)]
    BY <1>7
  <1> HIDE DEF h
  <1>9. ASSUME NEW s \in R, NEW t \in R, s < t
        PROVE  h[s] < h[t]
    <2>1. s \in S
      <3>1. t \in 1 .. (i + 1)
        BY <1>7
      <3> QED
        BY <1>3, <1>9, <3>1
    <2>2. CASE t = i + 1
      <3>1. g[s] \in 1 .. j
        BY <1>5, <2>1
      <3> QED
        BY <1>6, <2>1, <2>2, <3>1
    <2>3. CASE t \in S
      BY <1>5, <1>6, <1>9, <2>1, <2>3
    <2> QED
      BY <1>3, <2>2, <2>3
  <1>10. Choice(x, y, R, h, i + 1, j + 1)
    BY <1>7, <1>8, <1>9 DEF Choice
  <1>11. Cardinality(R) = n + 1
    <2>1. IsFiniteSet(1 .. i)
      BY FS_Interval
    <2>2. IsFiniteSet(S)
      BY <1>3, <2>1, FS_Subset
    <2> QED
      BY <1>1, <1>3, <2>2, FS_AddElement
  <1>12. \A m \in DOMAIN made : made[m].pos + made[m].len <= i + 1
    BY <1>1, <1>2
  <1> QED
    BY <1>10, <1>11, <1>12 DEF LeavesMost, R

(***************************************************************************)
(* registerBuffer leaves as much as can be left: a character that is kept  *)
(* is one more, and no other step of the way makes the common part longer. *)
(***************************************************************************)
LEMMA RegisteredLeavesMost ==
  ASSUME NEW chars, NEW x, NEW y, NEW b, NEW step, NEW p, NEW q,
         Calls(chars, x, y, b, step, p, q), BuffersLeaveMost(x, y, b, p)
  PROVE  BuffersLeaveMost(x, y, RegisterBuffer(b, step), q)
PROOF
  <1> DEFINE r == RegisterBuffer(b, step)
             seen == [b EXCEPT !.at = step.at]
             c == Common(x, y)
  <1>1. /\ x \in Seq(chars) /\ y \in Seq(chars) /\ b \in BuffersOver(chars)
        /\ step \in StepsOver(chars) /\ p \in Cells(x, y) /\ q \in Cells(x, y)
        /\ StepTo(x, y, step, p, q) /\ BuffersFit(x, y, b, p[1], p[2])
    BY DEF Calls
  <1>2. /\ b.del \in Seq(chars) /\ b.ins \in Seq(chars) /\ b.out \in Seq(OperationsOver(chars))
        /\ Len(b.del) \in Nat /\ Len(b.ins) \in Nat
    BY <1>1 DEF BuffersOver
  <1>3. /\ Len(x) \in Nat /\ Len(y) \in Nat
        /\ p[1] \in Nat /\ p[2] \in Nat /\ q[1] \in Nat /\ q[2] \in Nat
        /\ p = <<p[1], p[2]>> /\ q = <<q[1], q[2]>>
        /\ q[1] \in 0 .. Len(x) /\ q[2] \in 0 .. Len(y)
    <2>1. Len(x) \in Nat /\ Len(y) \in Nat
      BY <1>1
    <2>2. /\ p = <<p[1], p[2]>> /\ p[1] \in 0 .. Len(x) /\ p[2] \in 0 .. Len(y)
          /\ q = <<q[1], q[2]>> /\ q[1] \in 0 .. Len(x) /\ q[2] \in 0 .. Len(y)
      BY <1>1, <2>1, CellParts
    <2> QED
      BY <2>1, <2>2
  <1>4. /\ step.op \in {"noop", "del", "ins"} /\ step.at \in Nat /\ step.chr \in chars
    BY <1>1 DEF StepsOver
  <1>5. /\ seen \in BuffersOver(chars) /\ seen.at = step.at
        /\ seen.op = b.op /\ seen.del = b.del /\ seen.ins = b.ins /\ seen.out = b.out
    BY <1>1, <1>4 DEF BuffersOver
  <1>6. LeavesMost(x, y, b.out, p[1] - Len(b.del), p[2] - Len(b.ins), c[p])
    BY DEF BuffersLeaveMost
  <1> HIDE DEF seen, c
  <1>7. CASE step.op = "noop"
    <2>1. /\ q[1] = p[1] + 1 /\ q[2] = p[2] + 1 /\ step.at = p[1] /\ x[q[1]] = y[q[2]]
      BY <1>1, <1>3, <1>7 DEF StepTo, KeepOld, DeleteOld, InsertNew
    <2> DEFINE d == FlushBuffers(seen)
    <2>2. /\ (seen.op \in {"del", "sub"}) = (seen.del # <<>>)
          /\ Pending(seen) => seen.at = p[1]
      BY <1>1, <1>5, <2>1 DEF BuffersFit
    <2>3. LeavesMost(x, y, d.out, p[1], p[2], c[p])
      BY <1>3, <1>5, <1>6, <2>2, FlushedLeavesMost
    <2>4. d \in BuffersOver(chars) /\ d.del = <<>> /\ d.ins = <<>>
      <3>1. BuffersFit(x, y, seen, p[1], p[2])
        BY <1>1, <1>5 DEF BuffersFit
      <3>2. p[1] \in 0 .. Len(x) /\ p[2] \in 0 .. Len(y)
        BY <1>3, <2>1
      <3> QED
        BY <1>1, <1>5, <2>2, <3>1, <3>2, Flushed
    <2>5. c[q] = c[p] + 1 /\ c[p] \in Nat
      <3> DEFINE i == p[1]
                 j == p[2]
      <3>1. /\ c[<<i + 1, j + 1>>] = CommonAt(x, y, c, i + 1, j + 1)
            /\ c[<<i, j>>] \in Nat
        <4>1. /\ i + 1 \in 0 .. Len(x) /\ j + 1 \in 0 .. Len(y)
              /\ i \in 0 .. Len(x) /\ j \in 0 .. Len(y)
          BY <1>3, <2>1
        <4> QED
          BY <1>3, <4>1, CommonTable, CellsRanked DEF c
      <3>2. /\ (i + 1) - 1 = i /\ (j + 1) - 1 = j /\ i + 1 # 0 /\ j + 1 # 0
            /\ x[i + 1] = y[j + 1]
        BY <1>3, <2>1
      <3>3. c[<<i + 1, j + 1>>] = c[<<i, j>>] + 1
        BY <3>1, <3>2 DEF CommonAt
      <3> QED
        BY <1>3, <2>1, <3>1, <3>3
    <2>6. r = [d EXCEPT !.op = "noop"]
      BY <1>7 DEF RegisterBuffer, seen
    <2> HIDE DEF d
    <2>7. /\ r.del = <<>> /\ r.ins = <<>> /\ r.out = d.out
          /\ d.out \in Seq(OperationsOver(chars))
      BY <2>4, <2>6 DEF BuffersOver
    <2>8. LeavesMost(x, y, d.out, q[1], q[2], c[q])
      <3>1. LeavesMost(x, y, d.out, p[1] + 1, p[2] + 1, c[p] + 1)
        <4>1. x[p[1] + 1] = y[p[2] + 1]
          BY <2>1
        <4> QED
          BY <1>3, <2>3, <2>5, <2>7, <4>1, KeptLeavesMost
      <3> QED
        BY <2>1, <2>5, <3>1
    <2>9. q[1] - Len(r.del) = q[1] /\ q[2] - Len(r.ins) = q[2]
      <3>1. Len(r.del) = 0 /\ Len(r.ins) = 0
        BY <2>7
      <3> HIDE DEF r
      <3> QED
        BY <1>3, <3>1
    <2> HIDE DEF r
    <2> QED
      BY <2>7, <2>8, <2>9 DEF BuffersLeaveMost, r, c
  <1>8. CASE step.op = "del"
    <2>1. q[1] = p[1] + 1 /\ q[2] = p[2] /\ c[q] = c[p]
      BY <1>1, <1>3, <1>8 DEF StepTo, KeepOld, DeleteOld, InsertNew, c
    <2>2. r = [seen EXCEPT !.del = Append(b.del, step.chr),
                           !.op = IF b.op = "sub" THEN "sub" ELSE "del"]
      BY <1>5, <1>8 DEF RegisterBuffer, seen
    <2>3. /\ r.del = Append(b.del, step.chr) /\ r.ins = b.ins /\ r.out = b.out
      BY <1>5, <2>2 DEF BuffersOver
    <2>4. Len(r.del) = Len(b.del) + 1
      BY <1>2, <1>4, <2>3
    <2> HIDE DEF r
    <2>5. q[1] - Len(r.del) = p[1] - Len(b.del) /\ q[2] - Len(r.ins) = p[2] - Len(b.ins)
      BY <1>2, <1>3, <2>1, <2>3, <2>4
    <2> QED
      BY <1>6, <2>1, <2>3, <2>5 DEF BuffersLeaveMost, r, c
  <1>9. CASE step.op = "ins"
    <2>1. q[1] = p[1] /\ q[2] = p[2] + 1 /\ c[q] = c[p]
      BY <1>1, <1>3, <1>9 DEF StepTo, KeepOld, DeleteOld, InsertNew, c
    <2>2. r = [seen EXCEPT !.ins = Append(b.ins, step.chr),
                           !.op = IF b.op \in {"del", "sub"} THEN "sub" ELSE "ins"]
      BY <1>5, <1>9 DEF RegisterBuffer, seen
    <2>3. /\ r.ins = Append(b.ins, step.chr) /\ r.del = b.del /\ r.out = b.out
      BY <1>5, <2>2 DEF BuffersOver
    <2>4. Len(r.ins) = Len(b.ins) + 1 /\ Len(r.del) = Len(b.del)
      BY <1>2, <1>4, <2>3
    <2> HIDE DEF r
    <2>5. q[1] - Len(r.del) = p[1] - Len(b.del) /\ q[2] - Len(r.ins) = p[2] - Len(b.ins)
      <3>1. p[1] \in Nat /\ p[2] \in Nat /\ Len(b.ins) \in Nat
        BY <1>2, <1>3
      <3>2. q[1] - Len(r.del) = p[1] - Len(b.del)
        BY <2>1, <2>4
      <3>3. q[2] - Len(r.ins) = p[2] - Len(b.ins)
        BY <2>1, <2>4, <3>1
      <3> QED
        BY <3>2, <3>3
    <2> QED
      BY <1>6, <2>1, <2>3, <2>5 DEF BuffersLeaveMost, r, c
  <1> QED
    BY <1>4, <1>7, <1>8, <1>9

(* Nothing larger than what the operations leave of x is in y as well. *)
LeavesNoLess(x, y, made) ==
  LET left == LeftOf(made, Len(x)) IN
  /\ \E g \in [left -> 1 .. Len(y)] :
       /\ \A s \in left : x[s] = y[g[s]]
       /\ \A s, t \in left : s < t => g[s] < g[t]
  /\ \A S \in SUBSET (1 .. Len(x)) :
       Cardinality(S) > Cardinality(left) =>
         ~ \E g \in [S -> 1 .. Len(y)] :
             /\ \A s \in S : x[s] = y[g[s]]
             /\ \A s, t \in S : s < t => g[s] < g[t]

(* A delta that leaves as much as the table says leaves the most. *)
LEMMA MostIsLeft ==
  ASSUME NEW x, NEW y, Len(x) \in Nat, Len(y) \in Nat, NEW made,
         LeavesMost(x, y, made, Len(x), Len(y), Common(x, y)[<<Len(x), Len(y)>>])
  PROVE  LeavesNoLess(x, y, made)
PROOF
  <1> DEFINE left == LeftOf(made, Len(x))
             n == Common(x, y)[<<Len(x), Len(y)>>]
  <1>1. PICK g : Choice(x, y, left, g, Len(x), Len(y))
    BY DEF LeavesMost
  <1>2. Cardinality(left) = n
    BY DEF LeavesMost
  <1>3. n \in Nat /\ AtMost(x, y, n, Len(x), Len(y))
    <2>1. Len(x) \in 0 .. Len(x) /\ Len(y) \in 0 .. Len(y)
      OBVIOUS
    <2> QED
      BY <2>1, CommonTable, CellsRanked, CommonIsLongest
  <1> HIDE DEF left, n
  <1>4. ASSUME NEW S \in SUBSET (1 .. Len(x)), NEW h \in [S -> 1 .. Len(y)],
               \A s \in S : x[s] = y[h[s]],
               \A s, t \in S : s < t => h[s] < h[t]
        PROVE  ~(Cardinality(S) > Cardinality(left))
    <2>1. Choice(x, y, S, h, Len(x), Len(y))
      BY <1>4 DEF Choice
    <2>2. IsFiniteSet(S) /\ Cardinality(S) <= n
      BY <1>3, <2>1 DEF AtMost
    <2>3. Cardinality(S) \in Nat
      BY <2>2, FS_CardinalityType
    <2> QED
      BY <1>2, <1>3, <2>2, <2>3
  <1>5. /\ g \in [left -> 1 .. Len(y)]
        /\ \A s \in left : x[s] = y[g[s]]
        /\ \A s, t \in left : s < t => g[s] < g[t]
    BY <1>1 DEF Choice
  <1> QED
    BY <1>4, <1>5 DEF LeavesNoLess, left

-----------------------------------------------------------------------------
(* The characters of all texts. *)
Letters == UNION {Range(t[1]) \cup Range(t[2]) : t \in Texts}

-----------------------------------------------------------------------------
(***************************************************************************)
(* After the operations behind the one numbered m are done: the text is    *)
(* old up to the end of that operation, and new from there on.             *)
(***************************************************************************)
Restored(x, y, operations, f, m, text) ==
  LET end == EndOf(operations, m) IN
  /\ Len(text) = end + (Len(y) - f[m])
  /\ \A i \in 1 .. end : text[i] = x[i]
  /\ \A i \in 1 .. (Len(y) - f[m]) : text[end + i] = y[f[m] + i]

(* A part of a sequence. *)
LEMMA PartOf ==
  ASSUME NEW S, NEW s \in Seq(S), NEW a \in 1 .. (Len(s) + 1), NEW b \in (a - 1) .. Len(s)
  PROVE  /\ SubSeq(s, a, b) \in Seq(S)
         /\ Len(SubSeq(s, a, b)) = (b + 1) - a
         /\ \A i \in 1 .. ((b + 1) - a) : SubSeq(s, a, b)[i] = s[(a - 1) + i]
PROOF
  OBVIOUS

(* Three sequences behind each other. *)
LEMMA ThreeParts ==
  ASSUME NEW S, NEW s \in Seq(S), NEW t \in Seq(S), NEW u \in Seq(S)
  PROVE  /\ s \o t \o u \in Seq(S)
         /\ Len(s \o t \o u) = Len(s) + Len(t) + Len(u)
         /\ \A i \in 1 .. Len(s) : (s \o t \o u)[i] = s[i]
         /\ \A i \in 1 .. Len(t) : (s \o t \o u)[Len(s) + i] = t[i]
         /\ \A i \in 1 .. Len(u) : (s \o t \o u)[Len(s) + Len(t) + i] = u[i]
PROOF
  OBVIOUS

(* TextNode_Update reaches the operation numbered m. *)
Reached(chars, x, y, operations, f, m, text) ==
  /\ x \in Seq(chars) /\ y \in Seq(chars) /\ text \in Seq(chars)
  /\ operations \in Seq(OperationsOver(chars)) /\ m \in 1 .. Len(operations)
  /\ Aligned(x, y, operations, f, Len(x), Len(y))
  /\ Restored(x, y, operations, f, m, text)

(***************************************************************************)
(* The operation numbered m, done after all behind it, moves the place     *)
(* from which on the text is the new one to the end of the operation       *)
(* before it.                                                              *)
(***************************************************************************)
LEMMA EditedFromTheEnd ==
  ASSUME NEW chars, NEW x, NEW y, NEW operations, NEW f, NEW m, NEW text,
         Reached(chars, x, y, operations, f, m, text), NEW l, l = m - 1
  PROVE  /\ Edited(text, operations[m]) \in Seq(chars)
         /\ Restored(x, y, operations, f, l, Edited(text, operations[m]))
PROOF
  <1> DEFINE op == operations[m]
             pos == op.pos
             end == EndOf(operations, m)
             before == EndOf(operations, l)
             to == f[m]
             from == f[l]
             size == Len(op.text)
             head == SubSeq(text, 1, pos)
             tail == From(text, pos + op.len)
             edited == Edited(text, op)
  <1>1. /\ x \in Seq(chars) /\ y \in Seq(chars) /\ text \in Seq(chars)
        /\ operations \in Seq(OperationsOver(chars)) /\ m \in 1 .. Len(operations)
        /\ Len(text) = end + (Len(y) - to)
        /\ \A i \in 1 .. end : text[i] = x[i]
        /\ \A i \in 1 .. (Len(y) - to) : text[end + i] = y[to + i]
    BY DEF Reached, Restored
  <1>2. /\ Len(operations) \in Nat /\ Len(x) \in Nat /\ Len(y) \in Nat /\ Len(text) \in Nat
        /\ l \in 0 .. Len(operations) /\ m \in 0 .. Len(operations)
    BY <1>1
  <1>3. op \in OperationsOver(chars)
    BY <1>1
  <1>4. pos \in Nat /\ op.len \in Nat /\ op.text \in Seq(chars) /\ size \in Nat
    BY <1>3 DEF OperationsOver
  <1>5. before \in Nat
    BY <1>1, <1>2, EndOfNumber
  <1>6. end = pos + op.len
    BY <1>1 DEF EndOf
  <1>7. to \in 0 .. Len(y) /\ from \in 0 .. Len(y) /\ Fits(x, y, operations, f, m)
    BY <1>1, <1>2 DEF Reached, Aligned
  <1>8. /\ before <= pos /\ pos - before = (to - size) - from
        /\ \A d \in 1 .. (pos - before) : x[before + d] = y[from + d]
        /\ \A d \in 1 .. size : op.text[d] = y[(to - size) + d]
    BY <1>7 DEF Fits, Kept
  <1> HIDE DEF op, end, before, to, from
  <1>9. /\ head \in Seq(chars) /\ Len(head) = pos
        /\ \A i \in 1 .. pos : head[i] = text[i]
    <2>1. pos \in 0 .. Len(text) /\ 1 \in 1 .. (Len(text) + 1) /\ pos \in (1 - 1) .. Len(text)
      BY <1>1, <1>2, <1>4, <1>6, <1>7
    <2>2. /\ head \in Seq(chars) /\ Len(head) = (pos + 1) - 1
          /\ \A i \in 1 .. ((pos + 1) - 1) : head[i] = text[(1 - 1) + i]
      BY <1>1, <2>1, PartOf
    <2> QED
      BY <1>4, <2>2
  <1>10. /\ tail \in Seq(chars) /\ Len(tail) = Len(y) - to
         /\ \A i \in 1 .. (Len(y) - to) : tail[i] = y[to + i]
    <2>1. end \in Nat /\ end <= Len(text)
      <3>1. end \in Nat
        BY <1>4, <1>6
      <3> QED
        BY <1>1, <1>2, <1>7, <3>1
    <2>2. /\ tail \in Seq(chars) /\ Len(tail) = (Len(text) + 1) - (end + 1)
          /\ \A i \in 1 .. ((Len(text) + 1) - (end + 1)) : tail[i] = text[((end + 1) - 1) + i]
      <3> DEFINE e1 == end + 1
      <3>1. tail = SubSeq(text, e1, Len(text))
        BY <1>6 DEF From
      <3> HIDE DEF e1, tail
      <3>2. e1 \in 1 .. (Len(text) + 1) /\ Len(text) \in (e1 - 1) .. Len(text)
        BY <1>2, <2>1 DEF e1
      <3>3. /\ tail \in Seq(chars) /\ Len(tail) = (Len(text) + 1) - e1
            /\ \A i \in 1 .. ((Len(text) + 1) - e1) : tail[i] = text[(e1 - 1) + i]
        BY <1>1, <3>1, <3>2, PartOf
      <3> QED
        BY <3>3 DEF e1
    <2>3. (Len(text) + 1) - (end + 1) = Len(y) - to /\ (end + 1) - 1 = end
      BY <1>1, <1>2, <1>7, <2>1
    <2> QED
      BY <1>1, <2>2, <2>3
  <1> HIDE DEF head, tail, pos, size
  <1>11. edited = head \o op.text \o tail
    BY DEF Edited, head, tail, pos
  <1>12. /\ edited \in Seq(chars) /\ Len(edited) = pos + size + (Len(y) - to)
         /\ \A i \in 1 .. pos : edited[i] = head[i]
         /\ \A i \in 1 .. size : edited[pos + i] = op.text[i]
         /\ \A i \in 1 .. (Len(y) - to) : edited[pos + size + i] = tail[i]
    <2> DEFINE text2 == op.text
    <2>1. text2 \in Seq(chars) /\ size = Len(text2) /\ edited = head \o text2 \o tail
      BY <1>4, <1>11 DEF size
    <2> HIDE DEF text2, edited
    <2>2. /\ edited \in Seq(chars) /\ Len(edited) = Len(head) + Len(text2) + Len(tail)
          /\ \A i \in 1 .. Len(head) : edited[i] = head[i]
          /\ \A i \in 1 .. Len(text2) : edited[Len(head) + i] = text2[i]
          /\ \A i \in 1 .. Len(tail) : edited[Len(head) + Len(text2) + i] = tail[i]
      <3>1. head \in Seq(chars) /\ text2 \in Seq(chars) /\ tail \in Seq(chars)
        BY <1>9, <1>10, <2>1
      <3> DEFINE all == head \o text2 \o tail
      <3>2. /\ all \in Seq(chars) /\ Len(all) = Len(head) + Len(text2) + Len(tail)
            /\ \A i \in 1 .. Len(head) : all[i] = head[i]
            /\ \A i \in 1 .. Len(text2) : all[Len(head) + i] = text2[i]
            /\ \A i \in 1 .. Len(tail) : all[Len(head) + Len(text2) + i] = tail[i]
        BY <3>1, ThreeParts
      <3> HIDE DEF all
      <3> QED
        BY <2>1, <3>2 DEF all
    <2> QED
      BY <1>9, <1>10, <2>1, <2>2 DEF text2
  <1> HIDE DEF edited
  <1>13. Len(edited) = before + (Len(y) - from)
    <2>1. Len(edited) = pos + size + (Len(y) - to) /\ pos - before = (to - size) - from
      BY <1>8, <1>12
    <2>2. /\ pos \in Nat /\ size \in Nat /\ before \in Nat
          /\ Len(y) \in Nat /\ to \in Nat /\ from \in Nat
      BY <1>2, <1>4, <1>5, <1>7
    <2> QED
      BY <2>1, <2>2
  <1>14. ASSUME NEW i \in 1 .. before
         PROVE  edited[i] = x[i]
    <2>1. i \in 1 .. pos /\ i \in 1 .. end
      BY <1>4, <1>5, <1>6, <1>8 DEF pos
    <2> QED
      BY <1>1, <1>9, <1>12, <2>1
  <1>15. ASSUME NEW i \in 1 .. (Len(y) - from)
         PROVE  edited[before + i] = y[from + i]
    <2>1. CASE before + i <= pos
      <3>1. before + i \in 1 .. pos /\ before + i \in 1 .. end /\ i \in 1 .. (pos - before)
        BY <1>4, <1>5, <1>6, <1>8, <2>1 DEF pos
      <3> QED
        BY <1>1, <1>8, <1>9, <1>12, <3>1
    <2>2. CASE before + i > pos /\ before + i <= pos + size
      <3> DEFINE d == (before + i) - pos
      <3>1. d \in 1 .. size /\ pos + d = before + i /\ (to - size) + d = from + i
        BY <1>4, <1>5, <1>7, <1>8, <2>2
      <3> HIDE DEF d
      <3> QED
        BY <1>8, <1>12, <3>1
    <2>3. CASE before + i > pos + size
      <3> DEFINE d == (before + i) - (pos + size)
      <3>1. d \in 1 .. (Len(y) - to) /\ pos + size + d = before + i /\ to + d = from + i
        BY <1>2, <1>4, <1>5, <1>7, <1>8, <2>3
      <3> HIDE DEF d
      <3> QED
        BY <1>10, <1>12, <3>1
    <2> QED
      BY <1>4, <1>5, <2>1, <2>2, <2>3
  <1>16. Restored(x, y, operations, f, l, edited)
    BY <1>13, <1>14, <1>15 DEF Restored, before, from
  <1> QED
    BY <1>12, <1>16 DEF edited, op

-----------------------------------------------------------------------------
(* Nothing is in the delta yet. *)
Comparing == phase \in {"clearRow", "clearColumn", "path", "register"}

ComparingOnly ==
  /\ Comparing => ops = <<>> /\ applied = 0 /\ value = old
  /\ phase \in {"clearRow", "clearColumn", "path"} => buffers = EmptyBuffers

(***************************************************************************)
(* While the way is registered: it leads on from where the buffers are,    *)
(* what is pending at its end is at the end of the old text, and as much   *)
(* as possible has been left of what is passed.                            *)
(***************************************************************************)
Registering(w) ==
  /\ path \in Seq(StepsOver(Letters)) /\ buffers \in BuffersOver(Letters)
  /\ IsWay(old, new, path, w)
  /\ w[Len(path)] = <<Len(old), Len(new)>>
  /\ BuffersFit(old, new, buffers, w[0][1], w[0][2])
  /\ buffers.op = "ins" /\ path # <<>> => path[1].op # "del"
  /\ Pending(buffers) /\ path = <<>> => buffers.at = Len(old)
  /\ BuffersLeaveMost(old, new, buffers, w[0])

(***************************************************************************)
(* Once there is a delta it turns all of the old text into the new one;    *)
(* without annotations the operations that are done have rebuilt the new   *)
(* text from the end on.                                                   *)
(***************************************************************************)
Applying(f) ==
  /\ ops \in Seq(OperationsOver(Letters)) /\ applied \in 0 .. Len(ops)
  /\ Aligned(old, new, ops, f, Len(old), Len(new))
  /\ ~annotate /\ phase \in {"apply", "complete"} =>
       Restored(old, new, ops, f, Len(ops) - applied, value)
  /\ phase = "complete" => applied = Len(ops)

IInv ==
  /\ old \in Seq(Letters) /\ new \in Seq(Letters) /\ value \in Seq(Letters) /\ old # <<>>
  /\ phase \in Phases
  /\ ComparingOnly
  /\ phase = "register" => \E w : Registering(w)
  /\ ~Comparing => \E f : Applying(f)
  /\ phase \in {"merge", "join"} => annotate
  /\ RebuildsNew
  /\ FewestChanges

(* The values that are compared are texts. *)
LEMMA TextsAreSequences ==
  ASSUME NEW t \in Texts
  PROVE  t[1] \in Seq(Letters) /\ t[2] \in Seq(Letters) /\ t[1] # <<>>
PROOF
  <1>1. ASSUME NEW s \in {t[1], t[2]}
        PROVE  s \in Seq(Letters)
    <2>1. s \in Seq(Range(s))
      BY TextAssumption
    <2>2. Range(s) \subseteq Letters
      BY DEF Letters
    <2> QED
      BY <2>1, <2>2
  <1> QED
    BY <1>1, TextAssumption

(* Before the first step nothing is compared yet. *)
LEMMA InitInvariant ==
  ASSUME Init
  PROVE  IInv
PROOF
  <1>1. old \in Seq(Letters) /\ new \in Seq(Letters) /\ value = old /\ old # <<>>
    BY TextsAreSequences DEF Init
  <1>2. phase \in {"path", "clearRow"} /\ ops = <<>> /\ applied = 0 /\ buffers = EmptyBuffers
    BY DEF Init
  <1> QED
    BY <1>1, <1>2 DEF IInv, ComparingOnly, Comparing, Phases, RebuildsNew, FewestChanges

(* Where nothing changes the invariant stays. *)
LEMMA StutterInvariant ==
  ASSUME IInv, UNCHANGED vars
  PROVE  IInv'
PROOF
  <1>1. UNCHANGED <<old, new, annotate, phase, path, buffers, ops, applied, value, nodes>>
    BY DEF vars
  <1>2. /\ RebuildsNew' /\ ComparingOnly'
        /\ phase = "register" => \E w : Registering(w)'
        /\ ~Comparing => \E f : Applying(f)'
    BY <1>1 DEF IInv, ComparingOnly, Comparing, Registering, Applying, RebuildsNew
  <1>3. FewestChanges'
    <2>1. Stays' = Stays
      BY <1>1 DEF Stays
    <2>2. \A S, f : FoundAgain(S, f)' <=> FoundAgain(S, f)
      BY <1>1 DEF FoundAgain
    <2> QED
      BY <1>1, <2>1, <2>2 DEF IInv, FewestChanges
  <1> QED
    BY <1>1, <1>2, <1>3 DEF IInv, Comparing

(* The loops that clear the table change nothing else. *)
LEMMA ClearInvariant ==
  ASSUME IInv, ClearRow \/ ClearColumn
  PROVE  IInv'
PROOF
  <1>1. /\ phase \in {"clearRow", "clearColumn"} /\ phase' \in {"clearRow", "clearColumn", "path"}
        /\ UNCHANGED <<old, new, annotate, path, buffers, ops, applied, value, nodes>>
    BY DEF ClearRow, ClearColumn, Clear
  <1> QED
    BY <1>1 DEF IInv, ComparingOnly, Comparing, Phases, RebuildsNew, FewestChanges

(* Nothing is there yet of either text. *)
LEMMA NothingAligned ==
  ASSUME NEW x, NEW y, Len(x) \in Nat, Len(y) \in Nat
  PROVE  \E f : Aligned(x, y, <<>>, f, 0, 0)
PROOF
  <1> DEFINE f == [n \in 0 .. 0 |-> 0]
  <1>1. Aligned(x, y, <<>>, f, 0, 0)
    BY DEF Aligned, Kept, EndOf
  <1> QED
    BY <1>1

(* XyStrDiff starts with buffers that stand for nothing of either text. *)
LEMMA EmptyBuffersFit ==
  ASSUME NEW chars, NEW x \in Seq(chars), NEW y \in Seq(chars)
  PROVE  EmptyBuffers \in BuffersOver(chars) /\ BuffersFit(x, y, EmptyBuffers, 0, 0)
PROOF
  <1> DEFINE b == EmptyBuffers
  <1>1. /\ b.op = "none" /\ b.at = 0 /\ b.del = <<>> /\ b.ins = <<>> /\ b.out = <<>>
        /\ b \in BuffersOver(chars)
    BY DEF EmptyBuffers, BuffersOver
  <1>2. PICK f : Aligned(x, y, <<>>, f, 0, 0)
    BY NothingAligned
  <1>3. 0 - Len(b.del) = 0 /\ 0 - Len(b.ins) = 0 /\ Len(b.del) = 0 /\ Len(b.ins) = 0
    <2>1. Len(b.del) = 0 /\ Len(b.ins) = 0
      BY <1>1
    <2> HIDE DEF b
    <2> QED
      BY <2>1
  <1> HIDE DEF b
  <1>4. BuffersFit(x, y, b, 0, 0)
    BY <1>1, <1>2, <1>3 DEF BuffersFit
  <1> QED
    BY <1>1, <1>4 DEF b

(* They leave all there is of nothing. *)
LEMMA EmptyLeavesMost ==
  ASSUME NEW x, NEW y, Len(x) \in Nat, Len(y) \in Nat, NEW p, p = <<0, 0>>
  PROVE  BuffersLeaveMost(x, y, EmptyBuffers, p)
PROOF
  <1>1. /\ EmptyBuffers.out = <<>>
        /\ p[1] - Len(EmptyBuffers.del) = 0 /\ p[2] - Len(EmptyBuffers.ins) = 0
    BY DEF EmptyBuffers
  <1>2. LeftOf(<<>>, 0) = {}
    BY DEF LeftOf
  <1>3. Choice(x, y, {}, [s \in {} |-> s], 0, 0)
    BY DEF Choice
  <1>4. Common(x, y)[p] = 0
    <2>1. Common(x, y)[<<0, 0>>] = CommonAt(x, y, Common(x, y), 0, 0)
      BY CommonTable
    <2> QED
      BY <2>1 DEF CommonAt
  <1>5. Cardinality({}) = 0
    BY FS_EmptySet
  <1>6. LeavesMost(x, y, <<>>, 0, 0, 0)
    BY <1>2, <1>3, <1>5 DEF LeavesMost
  <1> QED
    BY <1>1, <1>4, <1>6 DEF BuffersLeaveMost

(* A text that is replaced as a whole. *)
LEMMA AllReplaced ==
  ASSUME NEW chars, NEW x \in Seq(chars), NEW y \in Seq(chars), x # <<>>
  PROVE  /\ SimpleReplace(x, y) \in Seq(OperationsOver(chars))
         /\ \E f : Aligned(x, y, SimpleReplace(x, y), f, Len(x), Len(y))
PROOF
  <1> DEFINE op == Operation("tr", 0, Len(x), y)
  <1>0. Len(x) \in Nat /\ Len(y) \in Nat /\ Len(x) > 0
    OBVIOUS
  <1>1. op \in OperationsOver(chars) /\ op.pos = 0 /\ op.len = Len(x) /\ op.text = y
    BY <1>0 DEF OperationsOver, Operation
  <1>2. PICK f : Aligned(x, y, <<>>, f, 0, 0)
    BY <1>0, NothingAligned
  <1>3. <<>> \in Seq(OperationsOver(chars))
    OBVIOUS
  <1>4. SimpleReplace(x, y) = Append(<<>>, op)
    BY DEF SimpleReplace
  <1> HIDE DEF op
  <1>5. Follows(chars, x, y, <<>>, f, op, 0, 0, Len(x), Len(y))
    BY <1>0, <1>1, <1>2, <1>3 DEF Follows
  <1> QED
    BY <1>4, <1>5, AlignedMore

(* Before the first operation is done the text is the old one. *)
LEMMA AllRestored ==
  ASSUME NEW chars, NEW x \in Seq(chars), NEW y \in Seq(chars),
         NEW operations \in Seq(OperationsOver(chars)), NEW f,
         Aligned(x, y, operations, f, Len(x), Len(y)), NEW m, m = Len(operations)
  PROVE  Restored(x, y, operations, f, m, x)
PROOF
  <1> DEFINE end == EndOf(operations, m)
             g == f[m]
  <1>1. Len(x) \in Nat /\ Len(y) \in Nat /\ m \in Nat /\ m \in 0 .. Len(operations)
    OBVIOUS
  <1>2. /\ g \in 0 .. Len(y) /\ end <= Len(x) /\ Len(x) - end = Len(y) - g
        /\ \A d \in 1 .. (Len(x) - end) : x[end + d] = y[g + d]
    BY <1>1 DEF Aligned, Kept
  <1>3. end \in Nat
    BY <1>1, EndOfNumber
  <1> HIDE DEF end, g
  <1>4. Len(x) = end + (Len(y) - g)
    BY <1>1, <1>2, <1>3
  <1> QED
    BY <1>2, <1>4 DEF Restored, end, g

(***************************************************************************)
(* LevenshteinDistance leaves the calls of calculatePath to be made, or    *)
(* one operation for texts that are too long.                              *)
(***************************************************************************)
LEMMA CalculatePathInvariant ==
  ASSUME IInv, CalculatePath
  PROVE  IInv'
PROOF
  <1>1. /\ phase = "path" /\ UNCHANGED <<old, new, annotate, k, buffers, applied, value, nodes>>
        /\ old \in Seq(Letters) /\ new \in Seq(Letters) /\ value \in Seq(Letters)
        /\ ops = <<>> /\ applied = 0 /\ value = old /\ buffers = EmptyBuffers
    BY DEF CalculatePath, IInv, ComparingOnly, Comparing
  <1>2. Len(old) \in Nat /\ Len(new) \in Nat /\ ShortMax \in Nat
    BY <1>1, TextAssumption
  <1>3. CASE Len(old) > ShortMax \/ Len(new) > ShortMax
    <2>1. ops' = SimpleReplace(old, new) /\ phase' = "apply"
      BY <1>3 DEF CalculatePath
    <2>2. old # <<>>
      BY DEF IInv
    <2>3. /\ ops' \in Seq(OperationsOver(Letters))
          /\ \E f : Aligned(old, new, ops', f, Len(old), Len(new))
      BY <1>1, <2>1, <2>2, AllReplaced
    <2>4. PICK f : Aligned(old, new, ops', f, Len(old), Len(new))
      BY <2>3
    <2>5. Len(ops') \in Nat /\ Len(ops') - 0 = Len(ops') /\ 0 \in 0 .. Len(ops')
      BY <2>3
    <2>6. Restored(old, new, ops', f, Len(ops') - 0, old)
      BY <1>1, <2>3, <2>4, AllRestored
    <2>7. Applying(f)'
      BY <1>1, <2>1, <2>3, <2>4, <2>5, <2>6 DEF Applying
    <2> QED
      BY <1>1, <1>2, <1>3, <2>1, <2>7
         DEF IInv, ComparingOnly, Comparing, Phases, RebuildsNew, FewestChanges
  <1>4. CASE ~(Len(old) > ShortMax \/ Len(new) > ShortMax)
    <2>1. path' = Path(old, new) /\ phase' = "register" /\ UNCHANGED ops
      BY <1>4 DEF CalculatePath
    <2>2. /\ path' \in Seq(StepsOver(Letters))
          /\ \E w : /\ IsWay(old, new, path', w) /\ w[0] = <<0, 0>>
                    /\ w[Len(path')] = <<Len(old), Len(new)>>
      BY <1>1, <2>1, PathIsWay
    <2>3. PICK w : /\ IsWay(old, new, path', w) /\ w[0] = <<0, 0>>
                   /\ w[Len(path')] = <<Len(old), Len(new)>>
      BY <2>2
    <2>4. /\ buffers \in BuffersOver(Letters)
          /\ BuffersFit(old, new, buffers, w[0][1], w[0][2])
      BY <1>1, <2>3, EmptyBuffersFit
    <2>5. buffers.op # "ins" /\ ~Pending(buffers)
      BY <1>1 DEF EmptyBuffers, Pending
    <2>6. BuffersLeaveMost(old, new, buffers, w[0])
      BY <1>1, <1>2, <2>3, EmptyLeavesMost
    <2>7. Registering(w)'
      BY <1>1, <2>2, <2>3, <2>4, <2>5, <2>6 DEF Registering, Pending
    <2> QED
      BY <1>1, <2>1, <2>7 DEF IInv, ComparingOnly, Comparing, Phases, RebuildsNew, FewestChanges
  <1> QED
    BY <1>3, <1>4

(* One call to registerBuffer, or the flushBuffers after the last. *)
LEMMA RegisterInvariant ==
  ASSUME IInv, Register
  PROVE  IInv'
PROOF
  <1>1. /\ phase = "register" /\ UNCHANGED <<old, new, annotate, k, applied, value, nodes>>
        /\ old \in Seq(Letters) /\ new \in Seq(Letters) /\ value \in Seq(Letters)
        /\ ops = <<>> /\ applied = 0 /\ value = old
    BY DEF Register, IInv, ComparingOnly, Comparing
  <1>2. PICK w : Registering(w)
    BY <1>1 DEF IInv
  <1>3. /\ path \in Seq(StepsOver(Letters)) /\ buffers \in BuffersOver(Letters)
        /\ IsWay(old, new, path, w)
        /\ w[Len(path)] = <<Len(old), Len(new)>>
        /\ BuffersFit(old, new, buffers, w[0][1], w[0][2])
        /\ buffers.op = "ins" /\ path # <<>> => path[1].op # "del"
        /\ Pending(buffers) /\ path = <<>> => buffers.at = Len(old)
        /\ BuffersLeaveMost(old, new, buffers, w[0])
    BY <1>2 DEF Registering
  <1>4. Len(old) \in Nat /\ Len(new) \in Nat /\ Len(path) \in Nat
    BY <1>1, <1>3
  <1>5. CASE path = <<>>
    <2>1. ops' = FlushBuffers(buffers).out /\ phase' = "apply"
      BY <1>5 DEF Register
    <2>2. w[0] = <<Len(old), Len(new)>> /\ w[0][1] = Len(old) /\ w[0][2] = Len(new)
      BY <1>3, <1>5
    <2>3. /\ BuffersFit(old, new, buffers, Len(old), Len(new))
          /\ Pending(buffers) => buffers.at = Len(old)
          /\ Len(old) \in 0 .. Len(old) /\ Len(new) \in 0 .. Len(new)
      BY <1>3, <1>4, <1>5, <2>2
    <2>4. /\ FlushBuffers(buffers) \in BuffersOver(Letters)
          /\ \E f : Aligned(old, new, FlushBuffers(buffers).out, f, Len(old), Len(new))
      BY <1>1, <1>3, <2>3, Flushed
    <2>5. ops' \in Seq(OperationsOver(Letters))
      BY <2>1, <2>4 DEF BuffersOver
    <2>6. PICK f : Aligned(old, new, ops', f, Len(old), Len(new))
      BY <2>1, <2>4
    <2>7. Len(ops') \in Nat /\ Len(ops') - 0 = Len(ops') /\ 0 \in 0 .. Len(ops')
      BY <2>5
    <2>8. Restored(old, new, ops', f, Len(ops') - 0, old)
      BY <1>1, <2>5, <2>6, AllRestored
    <2>9. Applying(f)'
      BY <1>1, <2>1, <2>5, <2>6, <2>7, <2>8 DEF Applying
    <2>10. LeavesMost(old, new, ops', Len(old), Len(new), Common(old, new)[<<Len(old), Len(new)>>])
      <3>1. (buffers.op \in {"del", "sub"}) = (buffers.del # <<>>)
        BY <2>3 DEF BuffersFit
      <3> DEFINE n == Common(old, new)[<<Len(old), Len(new)>>]
      <3>2. LeavesMost(old, new, buffers.out, Len(old) - Len(buffers.del),
                       Len(new) - Len(buffers.ins), n)
        BY <1>3, <2>2 DEF BuffersLeaveMost
      <3> HIDE DEF n
      <3>3. LeavesMost(old, new, FlushBuffers(buffers).out, Len(old), Len(new), n)
        BY <1>3, <1>4, <2>3, <3>1, <3>2, FlushedLeavesMost
      <3> QED
        BY <2>1, <3>3 DEF n
    <2>11. LeavesNoLess(old, new, ops')
      BY <1>4, <2>10, MostIsLeft
    <2>12. FewestChanges'
      <3>1. DOMAIN old = 1 .. Len(old) /\ DOMAIN new = 1 .. Len(new)
        BY <1>1
      <3>2. Stays' = LeftOf(ops', Len(old))
        BY <1>1, <3>1 DEF Stays, LeftOf
      <3> QED
        BY <1>1, <2>11, <3>1, <3>2 DEF FewestChanges, FoundAgain, LeavesNoLess
    <2> QED
      BY <1>1, <2>1, <2>9, <2>12 DEF IInv, ComparingOnly, Comparing, Phases, RebuildsNew
  <1>6. CASE path # <<>>
    <2> DEFINE step == Head(path)
    <2>1. /\ buffers' = RegisterBuffer(buffers, step) /\ path' = Tail(path)
          /\ UNCHANGED <<ops, phase>>
      BY <1>6 DEF Register
    <2>2. /\ step = path[1] /\ step \in StepsOver(Letters)
          /\ path' \in Seq(StepsOver(Letters)) /\ Len(path') = Len(path) - 1
          /\ Len(path) > 0 /\ \A n \in 1 .. (Len(path) - 1) : path'[n] = path[n + 1]
      BY <1>3, <1>6, <2>1
    <2>3. /\ w \in [0 .. Len(path) -> Cells(old, new)]
          /\ \A n \in 1 .. Len(path) : StepTo(old, new, path[n], w[n - 1], w[n])
          /\ \A n \in 2 .. Len(path) : path[n].op = "del" => path[n - 1].op # "ins"
      BY <1>3 DEF IsWay
    <2>4. Calls(Letters, old, new, buffers, step, w[0], w[1])
      <3>1. /\ w[0] \in Cells(old, new) /\ w[1] \in Cells(old, new)
            /\ 1 - 1 = 0 /\ 1 \in 1 .. Len(path)
        BY <1>4, <2>2, <2>3
      <3>2. StepTo(old, new, step, w[0], w[1])
        BY <2>2, <2>3, <3>1
      <3> QED
        BY <1>1, <1>3, <1>6, <2>2, <3>1, <3>2 DEF Calls
    <2>5. /\ buffers' \in BuffersOver(Letters)
          /\ BuffersFit(old, new, buffers', w[1][1], w[1][2])
          /\ buffers'.op = "ins" => step.op = "ins"
          /\ Pending(buffers') /\ w[1] = <<Len(old), Len(new)>> => buffers'.at = Len(old)
      <3> DEFINE p == w[0]
                 q == w[1]
      <3> HIDE DEF step, p, q
      <3>1. Calls(Letters, old, new, buffers, step, p, q)
        BY <2>4 DEF p, q
      <3>2. /\ RegisterBuffer(buffers, step) \in BuffersOver(Letters)
            /\ BuffersFit(old, new, RegisterBuffer(buffers, step), q[1], q[2])
            /\ RegisterBuffer(buffers, step).op = "ins" => step.op = "ins"
            /\ Pending(RegisterBuffer(buffers, step)) /\ q = <<Len(old), Len(new)>> =>
                 RegisterBuffer(buffers, step).at = Len(old)
        BY <3>1, Registered
      <3> QED
        BY <2>1, <3>2 DEF q
    <2>6. PICK v : v = [n \in 0 .. (Len(path) - 1) |-> w[n + 1]]
      OBVIOUS
    <2>7. /\ v \in [0 .. Len(path') -> Cells(old, new)]
          /\ v[0] = w[1] /\ v[Len(path')] = w[Len(path)]
          /\ \A n \in 0 .. Len(path') : v[n] = w[n + 1]
      BY <1>4, <2>2, <2>3, <2>6
    <2>8. IsWay(old, new, path', v)
      <3>1. ASSUME NEW n \in 1 .. Len(path')
            PROVE  StepTo(old, new, path'[n], v[n - 1], v[n])
        <4>1. /\ n + 1 \in 1 .. Len(path) /\ (n + 1) - 1 = n /\ (n - 1) + 1 = n
              /\ n - 1 \in 0 .. Len(path') /\ n \in 0 .. Len(path') /\ n \in 1 .. (Len(path) - 1)
          BY <1>4, <2>2
        <4>2. StepTo(old, new, path[n + 1], w[n], w[n + 1])
          BY <2>3, <4>1
        <4> QED
          BY <2>2, <2>7, <4>1, <4>2
      <3>2. ASSUME NEW n \in 2 .. Len(path'), path'[n].op = "del"
            PROVE  path'[n - 1].op # "ins"
        <4>1. /\ n + 1 \in 2 .. Len(path) /\ (n + 1) - 1 = n /\ (n - 1) + 1 = n
              /\ n - 1 \in 1 .. (Len(path) - 1) /\ n \in 1 .. (Len(path) - 1)
          BY <1>4, <2>2
        <4> QED
          BY <2>2, <2>3, <3>2, <4>1
      <3> QED
        BY <2>7, <3>1, <3>2 DEF IsWay
    <2>9. buffers'.op = "ins" /\ path' # <<>> => path'[1].op # "del"
      <3>1. path' # <<>> => 2 \in 2 .. Len(path) /\ 1 \in 1 .. (Len(path) - 1)
        BY <1>4, <2>2
      <3> QED
        BY <2>2, <2>3, <2>5, <3>1
    <2>10. Pending(buffers') /\ path' = <<>> => buffers'.at = Len(old)
      <3>1. path' = <<>> => Len(path) = 1
        BY <1>4, <2>2
      <3> QED
        BY <1>3, <2>5, <3>1
    <2>11. BuffersLeaveMost(old, new, buffers', w[1])
      <3>1. BuffersLeaveMost(old, new, RegisterBuffer(buffers, step), w[1])
        BY <1>3, <2>4, RegisteredLeavesMost
      <3> QED
        BY <2>1, <3>1
    <2>12. Registering(v)'
      BY <1>1, <1>3, <2>2, <2>5, <2>7, <2>8, <2>9, <2>10, <2>11 DEF Registering, Pending
    <2> QED
      BY <1>1, <2>1, <2>12 DEF IInv, ComparingOnly, Comparing, Phases, RebuildsNew, FewestChanges
  <1> QED
    BY <1>5, <1>6

(* One operation is done, the last of those that are left. *)
LEMMA TextNodeUpdateInvariant ==
  ASSUME IInv, TextNodeUpdate
  PROVE  IInv'
PROOF
  <1>1. /\ phase = "apply" /\ UNCHANGED <<old, new, annotate, k, path, buffers, ops>>
        /\ old \in Seq(Letters) /\ new \in Seq(Letters) /\ value \in Seq(Letters)
    BY DEF TextNodeUpdate, IInv
  <1>2. PICK f : Applying(f)
    BY <1>1 DEF IInv, Comparing
  <1>3. /\ ops \in Seq(OperationsOver(Letters)) /\ applied \in 0 .. Len(ops) /\ Len(ops) \in Nat
        /\ Aligned(old, new, ops, f, Len(old), Len(new))
        /\ ~annotate => Restored(old, new, ops, f, Len(ops) - applied, value)
    BY <1>1, <1>2 DEF Applying
  <1>4. CASE applied = Len(ops)
    <2>1. phase' = "complete" /\ UNCHANGED <<applied, value, nodes>>
      BY <1>4 DEF TextNodeUpdate
    <2>2. Applying(f)'
      BY <1>1, <1>3, <1>4, <2>1 DEF Applying
    <2> QED
      BY <1>1, <2>1, <2>2 DEF IInv, ComparingOnly, Comparing, Phases, RebuildsNew, FewestChanges
  <1>5. CASE applied # Len(ops)
    <2>1. /\ applied' = applied + 1 /\ phase' = "apply"
          /\ annotate => value' = value
          /\ ~annotate => value' = Edited(value, ops[Len(ops) - applied])
      BY <1>1, <1>5 DEF TextNodeUpdate, LastOneFirst
    <2>2. applied' \in 0 .. Len(ops)
      BY <1>3, <1>5, <2>1
    <2>3. /\ value' \in Seq(Letters)
          /\ ~annotate => Restored(old, new, ops, f, Len(ops) - applied', value')
      <3>1. CASE annotate
        BY <1>1, <2>1, <3>1
      <3>2. CASE ~annotate
        <4> DEFINE m == Len(ops) - applied
                   l == Len(ops) - applied'
        <4>1. m \in 1 .. Len(ops) /\ l = m - 1
          BY <1>3, <1>5, <2>1
        <4> HIDE DEF m, l
        <4>2. Reached(Letters, old, new, ops, f, m, value)
          BY <1>1, <1>3, <3>2, <4>1 DEF Reached, m
        <4>3. /\ Edited(value, ops[m]) \in Seq(Letters)
              /\ Restored(old, new, ops, f, l, Edited(value, ops[m]))
          BY <4>1, <4>2, EditedFromTheEnd
        <4> QED
          BY <2>1, <3>2, <4>3 DEF m, l
      <3> QED
        BY <3>1, <3>2
    <2>4. Applying(f)'
      BY <1>1, <1>3, <2>1, <2>2, <2>3 DEF Applying
    <2>5. applied' # 0
      BY <1>3, <2>1
    <2> QED
      BY <1>1, <2>1, <2>3, <2>4, <2>5
         DEF IInv, ComparingOnly, Comparing, Phases, RebuildsNew, FewestChanges
  <1> QED
    BY <1>4, <1>5

(***************************************************************************)
(* complete stores the text when all operations are done: it is the new    *)
(* one.                                                                    *)
(***************************************************************************)
LEMMA CompleteInvariant ==
  ASSUME IInv, Complete
  PROVE  IInv'
PROOF
  <1>1. /\ phase = "complete"
        /\ UNCHANGED <<old, new, annotate, path, buffers, ops, applied, value>>
        /\ old \in Seq(Letters) /\ new \in Seq(Letters) /\ value \in Seq(Letters)
        /\ phase' \in {"merge", "done"}
        /\ phase' = "merge" => annotate
        /\ ~annotate => nodes' = <<Node("text", value)>>
    BY DEF Complete, IInv
  <1>2. PICK f : Applying(f)
    BY <1>1 DEF IInv, Comparing
  <1>3. Applying(f)'
    BY <1>1, <1>2 DEF Applying
  <1>4. ~annotate => value = new
    <2> SUFFICES ASSUME ~annotate
                 PROVE  value = new
      OBVIOUS
    <2>1. /\ Restored(old, new, ops, f, Len(ops) - applied, value) /\ applied = Len(ops)
          /\ ops \in Seq(OperationsOver(Letters))
          /\ Aligned(old, new, ops, f, Len(old), Len(new))
      BY <1>1, <1>2 DEF Applying
    <2>2. Len(ops) - applied = 0 /\ EndOf(ops, 0) = 0 /\ f[0] = 0
      BY <2>1 DEF EndOf, Aligned
    <2>3. Restored(old, new, ops, f, 0, value)
      BY <2>1, <2>2
    <2>4. Len(value) = Len(new) /\ \A i \in 1 .. Len(new) : value[i] = new[i]
      BY <1>1, <2>2, <2>3 DEF Restored
    <2> QED
      BY <1>1, <2>4
  <1> QED
    BY <1>1, <1>3, <1>4 DEF IInv, ComparingOnly, Comparing, Phases, RebuildsNew, FewestChanges

(* The loops of complete touch only the annotated nodes. *)
LEMMA MergingInvariant ==
  ASSUME IInv, Merge \/ Join
  PROVE  IInv'
PROOF
  <1>1. /\ UNCHANGED <<old, new, annotate, path, buffers, ops, applied, value>>
        /\ phase \in {"merge", "join"} /\ annotate
        /\ phase' \in {"merge", "join", "undefined", "done"}
        /\ old \in Seq(Letters) /\ new \in Seq(Letters) /\ value \in Seq(Letters)
    <2>1. CASE Merge
      BY <2>1 DEF Merge, IInv
    <2>2. CASE Join
      BY <2>2 DEF Join, IInv
    <2> QED
      BY <2>1, <2>2
  <1>2. PICK f : Applying(f)
    BY <1>1 DEF IInv, Comparing
  <1>3. Applying(f)'
    BY <1>1, <1>2 DEF Applying
  <1> QED
    BY <1>1, <1>3 DEF IInv, ComparingOnly, Comparing, Phases, RebuildsNew, FewestChanges

(* Every step of the comparison and of the update keeps the invariant. *)
THEOREM Invariance == Spec => []IInv
PROOF
  <1>1. ASSUME Init
        PROVE  IInv
    BY <1>1, InitInvariant
  <1>2. ASSUME IInv, [Next]_vars
        PROVE  IInv'
    <2>1. CASE ClearRow \/ ClearColumn
      BY <1>2, <2>1, ClearInvariant
    <2>2. CASE CalculatePath
      BY <1>2, <2>2, CalculatePathInvariant
    <2>3. CASE Register
      BY <1>2, <2>3, RegisterInvariant
    <2>4. CASE TextNodeUpdate
      BY <1>2, <2>4, TextNodeUpdateInvariant
    <2>5. CASE Complete
      BY <1>2, <2>5, CompleteInvariant
    <2>6. CASE Merge \/ Join
      BY <1>2, <2>6, MergingInvariant
    <2>7. CASE UNCHANGED vars
      BY <1>2, <2>7, StutterInvariant
    <2> QED
      BY <1>2, <2>1, <2>2, <2>3, <2>4, <2>5, <2>6, <2>7 DEF Next
  <1> QED
    BY <1>1, <1>2, PTL DEF Spec

(***************************************************************************)
(* xydelta without annotations gives every text its new value, whatever    *)
(* the two values are and however long.                                    *)
(***************************************************************************)
THEOREM NewValueRebuilt == Spec => []RebuildsNew
PROOF
  <1>1. IInv => RebuildsNew
    BY DEF IInv
  <1> QED
    BY <1>1, Invariance, PTL

(***************************************************************************)
(* XyStrDiff takes no more of the old text away than it has to: what stays *)
(* is in the new text in the same order, and no larger part of the old one *)
(* is, whatever the two texts are, if they are short enough for the table. *)
(***************************************************************************)
THEOREM DeltaIsShortest == Spec => []FewestChanges
PROOF
  <1>1. IInv => FewestChanges
    BY DEF IInv
  <1> QED
    BY <1>1, Invariance, PTL

(***************************************************************************)
(* The operations XyStrDiff makes lie within the old text, each changes    *)
(* something, and at least one character stays between two of them.        *)
(***************************************************************************)
THEOREM OperationsNeverTouch == Spec => []OperationsApart
PROOF
  <1>1. ASSUME IInv
        PROVE  OperationsApart
    <2>1. CASE Comparing
      <3>1. ops = <<>>
        BY <1>1, <2>1 DEF IInv, ComparingOnly
      <3> QED
        BY <3>1 DEF OperationsApart
    <2>2. CASE ~Comparing
      <3>1. PICK f : Applying(f)
        BY <1>1, <2>2 DEF IInv
      <3>2. /\ ops \in Seq(OperationsOver(Letters)) /\ Len(ops) \in Nat
            /\ DOMAIN ops = 1 .. Len(ops)
            /\ \A n \in 1 .. Len(ops) : Fits(old, new, ops, f, n)
        BY <3>1 DEF Applying, Aligned
      <3>3. ASSUME NEW n \in DOMAIN ops
            PROVE  /\ ops[n].pos >= 0 /\ ops[n].pos + ops[n].len <= Len(old)
                   /\ ops[n].len > 0 \/ ops[n].text # <<>>
        <4>1. ops[n].pos \in Nat
          <5>1. ops[n] \in OperationsOver(Letters)
            BY <3>2
          <5> QED
            BY <5>1 DEF OperationsOver
        <4>2. n \in 1 .. Len(ops) /\ Fits(old, new, ops, f, n)
          BY <3>2
        <4> QED
          BY <4>1, <4>2 DEF Fits, EndOf
      <3>4. ASSUME NEW n \in 1 .. (Len(ops) - 1)
            PROVE  ops[n].pos + ops[n].len < ops[n + 1].pos
        <4>1. n + 1 \in 1 .. Len(ops) /\ n + 1 > 1 /\ (n + 1) - 1 = n /\ n # 0
          BY <3>2
        <4>2. EndOf(ops, n) < ops[n + 1].pos
          BY <3>2, <4>1 DEF Fits
        <4> QED
          BY <4>1, <4>2 DEF EndOf
      <3> QED
        BY <3>3, <3>4 DEF OperationsApart
    <2> QED
      BY <2>1, <2>2
  <1> QED
    BY <1>1, Invariance, PTL

-----------------------------------------------------------------------------
(***************************************************************************)
(* Lists of sequences written one behind the other (FlattenSeq), and the   *)
(* text that is read from a list of nodes.                                 *)
(***************************************************************************)
FlatAt(seqs, flat, i) == IF i = 1 THEN seqs[i] ELSE flat[i - 1] \o seqs[i]

(* The table FlattenSeq builds. *)
FlatTable(seqs) == CHOOSE f : f = [i \in 1 .. Len(seqs) |-> FlatAt(seqs, f, i)]

(* What FlattenSeq's table has in its rows. *)
LEMMA FlatRows ==
  ASSUME NEW S, NEW seqs \in Seq(Seq(S)), seqs # <<>>
  PROVE  /\ FlatTable(seqs) \in [1 .. Len(seqs) -> Seq(S)]
         /\ \A i \in 1 .. Len(seqs) : FlatTable(seqs)[i] = FlatAt(seqs, FlatTable(seqs), i)
PROOF
  <1> DEFINE V == Seq(S)
             l == Len(seqs)
             Body(f) == [i \in 1 .. l |-> FlatAt(seqs, f, i)]
             g == [i \in 1 .. l |-> [v \in V |-> v \o seqs[i]]]
  <1>1. /\ l \in Nat /\ 1 \in Nat /\ 1 \in 1 .. l
        /\ \A i \in 1 .. l : seqs[i] \in V
    OBVIOUS
  <1>2. g \in [1 .. l -> [V -> V]]
    <2>1. \A v \in V, w \in V : v \o w \in V
      BY ConcatProperties
    <2> HIDE DEF V, l
    <2> QED
      BY <1>1, <2>1
  <1>3. \A i \in 1 .. l : \A v \in V : g[i][v] = v \o seqs[i]
    OBVIOUS
  <1>4. seqs[1] \in V
    BY <1>1
  <1> HIDE DEF V, l, g
  <1>5. PICK f \in [1 .. l -> V] :
          f = [n \in 1 .. l |-> IF n = 1 THEN seqs[1] ELSE g[n][f[n - 1]]]
    <2>1. PICK f \in [1 .. l -> V] : Iterates(f, 1, l, seqs[1], g)
      BY <1>1, <1>2, <1>4, IterationExists
    <2> QED
      BY <2>1 DEF Iterates
  <1>6. f = Body(f)
    <2>1. ASSUME NEW n \in 1 .. l
          PROVE  f[n] = FlatAt(seqs, f, n)
      <3>1. CASE n = 1
        BY <1>5, <3>1 DEF FlatAt
      <3>2. CASE n # 1
        <4>1. n - 1 \in 1 .. l
          BY <1>1, <3>2
        <4>2. f[n] = g[n][f[n - 1]] /\ f[n - 1] \in V
          BY <1>5, <3>2, <4>1
        <4> QED
          BY <1>3, <3>2, <4>2 DEF FlatAt
      <3> QED
        BY <3>1, <3>2
    <2> QED
      BY <1>5, <2>1
  <1> DEFINE t == FlatTable(seqs)
  <1>7. t = Body(t)
    <2> HIDE DEF Body
    <2>1. FlatTable(seqs) = CHOOSE h : h = Body(h)
      BY DEF FlatTable, Body, l
    <2> QED
      BY <1>6, <2>1
  <1>8. \A i \in 1 .. l : t[i] = FlatAt(seqs, t, i)
    <2> HIDE DEF t
    <2> QED
      BY <1>7
  <1>9. \A n \in Nat : n \in {m \in Nat : m + 1 \in 1 .. l => t[m + 1] \in V}
    <2> DEFINE T == {m \in Nat : m + 1 \in 1 .. l => t[m + 1] \in V}
    <2> HIDE DEF t
    <2>1. 0 \in T
      BY <1>1, <1>4, <1>8 DEF FlatAt
    <2>2. ASSUME NEW m \in Nat, m \in T
          PROVE  m + 1 \in T
      <3>1. ASSUME (m + 1) + 1 \in 1 .. l
            PROVE  t[(m + 1) + 1] \in V
        <4>1. t[m + 1] \in V
          BY <1>1, <2>2, <3>1
        <4>2. t[(m + 1) + 1] = t[m + 1] \o seqs[(m + 1) + 1]
          <5>1. ((m + 1) + 1) - 1 = m + 1 /\ (m + 1) + 1 # 1
            OBVIOUS
          <5> QED
            BY <1>8, <3>1, <5>1 DEF FlatAt
        <4>3. seqs[(m + 1) + 1] \in V
          BY <1>1, <3>1
        <4> QED
          BY <4>1, <4>2, <4>3, ConcatProperties DEF V
      <3> QED
        BY <3>1
    <2> HIDE DEF T
    <2>3. \A n \in Nat : n \in T
      BY <2>1, <2>2, SetInduction
    <2> QED
      BY <2>3 DEF T
  <1>10. ASSUME NEW i \in 1 .. l
         PROVE  t[i] \in V
    <2> HIDE DEF t
    <2>1. i - 1 \in Nat /\ (i - 1) + 1 = i
      BY <1>1
    <2> QED
      BY <1>9, <2>1
  <1>11. t \in [1 .. l -> V]
    BY <1>7, <1>10
  <1> QED
    BY <1>8, <1>11 DEF V, l, t

(* They are one sequence of the same elements. *)
LEMMA FlatTyped ==
  ASSUME NEW S, NEW seqs \in Seq(Seq(S))
  PROVE  FlattenSeq(seqs) \in Seq(S)
PROOF
  <1>1. CASE seqs = <<>>
    BY <1>1 DEF FlattenSeq
  <1>2. CASE seqs # <<>>
    <2>1. Len(seqs) \in 1 .. Len(seqs) /\ Len(seqs) # 0
      BY <1>2
    <2>2. FlattenSeq(seqs) = FlatTable(seqs)[Len(seqs)]
      BY <2>1 DEF FlattenSeq, FlatTable, FlatAt
    <2> QED
      BY <1>2, <2>1, <2>2, FlatRows
  <1> QED
    BY <1>1, <1>2

(* One sequence more at the end. *)
LEMMA FlatMore ==
  ASSUME NEW S, NEW seqs \in Seq(Seq(S)), NEW e \in Seq(S)
  PROVE  FlattenSeq(Append(seqs, e)) = FlattenSeq(seqs) \o e
PROOF
  <1> DEFINE l == Len(seqs)
             more == Append(seqs, e)
             t == FlatTable(seqs)
             u == FlatTable(more)
  <1>1. /\ more \in Seq(Seq(S)) /\ more # <<>> /\ Len(more) = l + 1 /\ l \in Nat
        /\ \A i \in 1 .. l : more[i] = seqs[i]
        /\ more[l + 1] = e
    BY AppendProperties
  <1> HIDE DEF more
  <1>2. FlattenSeq(more) = u[l + 1]
    <2>1. Len(more) # 0 /\ Len(more) = l + 1
      BY <1>1
    <2> HIDE DEF l
    <2> QED
      BY <2>1 DEF FlattenSeq, FlatTable, FlatAt
  <1>3. \A i \in 1 .. (l + 1) : u[i] = FlatAt(more, u, i)
    BY <1>1, FlatRows
  <1>4. CASE seqs = <<>>
    <2>1. l = 0 /\ FlattenSeq(seqs) = <<>>
      BY <1>4 DEF FlattenSeq
    <2>2. u[1] = e
      BY <1>1, <1>3, <2>1 DEF FlatAt
    <2>3. <<>> \o e = e
      BY ConcatEmptySeq
    <2> QED
      BY <1>2, <2>1, <2>2, <2>3 DEF more
  <1>5. CASE seqs # <<>>
    <2>1. l # 0
      BY <1>5
    <2>2. FlattenSeq(seqs) = t[l]
      BY <2>1 DEF FlattenSeq, FlatTable, FlatAt
    <2>3. \A i \in 1 .. l : t[i] = FlatAt(seqs, t, i)
      BY <1>5, FlatRows
    <2> DEFINE T == {m \in Nat : m + 1 \in 1 .. l => u[m + 1] = t[m + 1]}
    <2> HIDE DEF t, u, l
    <2>4. 0 \in T
      BY <1>1, <1>3, <2>1, <2>3 DEF FlatAt
    <2>5. ASSUME NEW m \in Nat, m \in T
          PROVE  m + 1 \in T
      <3>1. ASSUME (m + 1) + 1 \in 1 .. l
            PROVE  u[(m + 1) + 1] = t[(m + 1) + 1]
        <4>1. /\ ((m + 1) + 1) - 1 = m + 1 /\ (m + 1) + 1 # 1 /\ m + 1 \in 1 .. l
              /\ (m + 1) + 1 \in 1 .. (l + 1)
          BY <1>1, <3>1
        <4>2. /\ t[(m + 1) + 1] = t[m + 1] \o seqs[(m + 1) + 1]
              /\ u[(m + 1) + 1] = u[m + 1] \o more[(m + 1) + 1]
          BY <1>3, <2>3, <3>1, <4>1 DEF FlatAt
        <4>3. u[m + 1] = t[m + 1]
          BY <2>5, <4>1
        <4> QED
          BY <1>1, <3>1, <4>2, <4>3
      <3> QED
        BY <3>1
    <2>6. \A n \in Nat : n \in T
      <3> HIDE DEF T
      <3> QED
        BY <2>4, <2>5, SetInduction
    <2>7. l - 1 \in Nat /\ (l - 1) + 1 = l /\ l \in 1 .. l
      BY <1>1, <2>1
    <2>8. u[l] = t[l]
      BY <2>6, <2>7
    <2>9. u[l + 1] = u[l] \o e
      <3>1. (l + 1) - 1 = l /\ l + 1 # 1 /\ l + 1 \in 1 .. (l + 1)
        BY <1>1, <2>1
      <3> QED
        BY <1>1, <1>3, <3>1 DEF FlatAt
    <2> QED
      BY <1>2, <2>2, <2>8, <2>9 DEF more
  <1> QED
    BY <1>4, <1>5

(* It does not matter which two of three are put behind each other first. *)
Associates(V) == \A u, v, w \in V : (u \o v) \o w = u \o (v \o w)

(* So it is with sequences. *)
LEMMA ConcatAssociates ==
  ASSUME NEW S
  PROVE  Associates(Seq(S))
PROOF
  <1>1. ASSUME NEW u \in Seq(S), NEW v \in Seq(S), NEW w \in Seq(S)
        PROVE  (u \o v) \o w = u \o (v \o w)
    BY ConcatAssociative
  <1> QED
    BY <1>1 DEF Associates

(* u is t behind s. *)
IsJoined(u, s, t, S) ==
  /\ u \in Seq(S) /\ Len(u) = Len(s) + Len(t)
  /\ \A i \in 1 .. Len(s) : u[i] = s[i]
  /\ \A i \in 1 .. Len(t) : u[Len(s) + i] = t[i]

(* That is what two sequences behind each other are, and nothing else is. *)
LEMMA Joined ==
  ASSUME NEW S, NEW s \in Seq(S), NEW t \in Seq(S)
  PROVE  IsJoined(s \o t, s, t, S)
PROOF
  BY ConcatProperties DEF IsJoined

(* There is only one such sequence. *)
LEMMA JoinedOnly ==
  ASSUME NEW S, NEW s \in Seq(S), NEW t \in Seq(S), NEW u, IsJoined(u, s, t, S)
  PROVE  u = s \o t
PROOF
  <1> DEFINE v == s \o t
  <1>1. IsJoined(v, s, t, S)
    BY Joined
  <1>2. Len(s) \in Nat /\ Len(t) \in Nat
    BY LenProperties
  <1> HIDE DEF v
  <1>3. u \in Seq(S) /\ v \in Seq(S) /\ Len(u) = Len(v) /\ Len(u) = Len(s) + Len(t)
    BY <1>1 DEF IsJoined
  <1>4. ASSUME NEW i \in 1 .. Len(u)
        PROVE  u[i] = v[i]
    <2>1. CASE i \in 1 .. Len(s)
      BY <1>1, <2>1 DEF IsJoined
    <2>2. CASE i \notin 1 .. Len(s)
      <3>1. i - Len(s) \in 1 .. Len(t) /\ Len(s) + (i - Len(s)) = i
        BY <1>2, <1>3, <2>2
      <3> QED
        BY <1>1, <3>1 DEF IsJoined
    <2> QED
      BY <2>1, <2>2
  <1>5. u = v
    BY <1>3, <1>4, SeqEqual
  <1> QED
    BY <1>5 DEF v

(* A sequence with an element more at its end, put behind another. *)
LEMMA ConcatMore ==
  ASSUME NEW S, NEW s \in Seq(S), NEW t \in Seq(S), NEW e \in S
  PROVE  s \o Append(t, e) = Append(s \o t, e)
PROOF
  <1>1. Append(t, e) = t \o <<e>> /\ <<e>> \in Seq(S)
    BY AppendIsConcat
  <1>2. s \o t \in Seq(S)
    BY ConcatProperties
  <1>3. Append(s \o t, e) = (s \o t) \o <<e>>
    BY <1>2, AppendIsConcat
  <1> QED
    BY <1>1, <1>3, ConcatAssociative

(* Two lists behind each other. *)
LEMMA FlatBoth ==
  ASSUME NEW S, NEW a \in Seq(Seq(S)), NEW b \in Seq(Seq(S))
  PROVE  FlattenSeq(a \o b) = FlattenSeq(a) \o FlattenSeq(b)
PROOF
  <1> DEFINE V == Seq(S)
             T == {n \in Nat : \A c \in Seq(V) : Len(c) = n =>
                                 FlattenSeq(a \o c) = FlattenSeq(a) \o FlattenSeq(c)}
  <1>1. 0 \in T
    <2>1. ASSUME NEW c \in Seq(V), Len(c) = 0
          PROVE  FlattenSeq(a \o c) = FlattenSeq(a) \o FlattenSeq(c)
      <3>1. c = <<>>
        BY <2>1, EmptySeq
      <3>2. a \o c = a /\ FlattenSeq(c) = <<>>
        BY <3>1, ConcatEmptySeq DEF FlattenSeq
      <3>3. FlattenSeq(a) \in V
        BY FlatTyped
      <3> QED
        BY <3>2, <3>3, ConcatEmptySeq
    <2> QED
      BY <2>1
  <1>2. ASSUME NEW n \in Nat, n \in T
        PROVE  n + 1 \in T
    <2>1. ASSUME NEW c \in Seq(V), Len(c) = n + 1
          PROVE  FlattenSeq(a \o c) = FlattenSeq(a) \o FlattenSeq(c)
      <3>1. PICK d \in Seq(V), e \in V : c = Append(d, e)
        <4>1. c # <<>>
          BY <2>1
        <4> HIDE DEF V
        <4> QED
          BY <4>1, SequenceEmptyOrAppend
      <3>2. Len(d) = n
        <4>1. Len(d) \in Nat /\ Len(c) = Len(d) + 1
          BY <3>1, AppendProperties
        <4> QED
          BY <2>1, <4>1
      <3>3. FlattenSeq(a \o d) = FlattenSeq(a) \o FlattenSeq(d)
        BY <1>2, <3>2
      <3>4. a \o c = Append(a \o d, e) /\ a \o d \in Seq(V)
        <4> HIDE DEF V
        <4>1. a \in Seq(V)
          BY DEF V
        <4> QED
          BY <3>1, <4>1, ConcatMore, ConcatProperties
      <3>5. /\ FlattenSeq(a \o c) = FlattenSeq(a \o d) \o e
            /\ FlattenSeq(c) = FlattenSeq(d) \o e
        BY <3>1, <3>4, FlatMore
      <3>6. FlattenSeq(a) \in V /\ FlattenSeq(d) \in V
        BY FlatTyped
      <3>7. Associates(V)
        BY ConcatAssociates
      <3> HIDE DEF V
      <3> QED
        BY <3>1, <3>3, <3>5, <3>6, <3>7 DEF Associates
    <2> QED
      BY <2>1
  <1>3. \A n \in Nat : n \in T
    <2> HIDE DEF T
    <2> QED
      BY <1>1, <1>2, SetInduction
  <1>4. Len(b) \in T
    BY <1>3
  <1> QED
    BY <1>4

(* One sequence alone. *)
LEMMA FlatOne ==
  ASSUME NEW S, NEW e \in Seq(S)
  PROVE  FlattenSeq(<<e>>) = e
PROOF
  <1>1. <<>> \in Seq(Seq(S)) /\ <<e>> = Append(<<>>, e) /\ FlattenSeq(<<>>) = <<>>
    BY DEF FlattenSeq
  <1>2. FlattenSeq(<<e>>) = <<>> \o e
    BY <1>1, FlatMore
  <1> QED
    BY <1>2, ConcatEmptySeq

(* A list taken apart into single elements. *)
LEMMA FlatSingles ==
  ASSUME NEW S, NEW s \in Seq(S)
  PROVE  /\ [n \in DOMAIN s |-> <<s[n]>>] \in Seq(Seq(S))
         /\ FlattenSeq([n \in DOMAIN s |-> <<s[n]>>]) = s
PROOF
  <1> DEFINE Singles(t) == [n \in DOMAIN t |-> <<t[n]>>]
             T == {n \in Nat : \A t \in Seq(S) : Len(t) = n => FlattenSeq(Singles(t)) = t}
  <1>1. ASSUME NEW t \in Seq(S)
        PROVE  Singles(t) \in Seq(Seq(S)) /\ Len(Singles(t)) = Len(t)
    <2>1. Len(t) \in Nat /\ DOMAIN t = 1 .. Len(t) /\ \A n \in 1 .. Len(t) : t[n] \in S
      OBVIOUS
    <2>2. \A n \in 1 .. Len(t) : <<t[n]>> \in Seq(S)
      BY <2>1
    <2> DEFINE V == Seq(S)
    <2>3. Singles(t) \in [1 .. Len(t) -> V]
      BY <2>1, <2>2
    <2> HIDE DEF Singles, V
    <2>4. Singles(t) \in Seq(V) /\ Len(Singles(t)) = Len(t)
      BY <2>1, <2>3
    <2> QED
      BY <2>4 DEF V
  <1>2. 0 \in T
    <2>1. ASSUME NEW t \in Seq(S), Len(t) = 0
          PROVE  FlattenSeq(Singles(t)) = t
      <3>1. t = <<>> /\ Singles(t) = <<>>
        BY <2>1
      <3> QED
        BY <3>1 DEF FlattenSeq
    <2> QED
      BY <2>1
  <1>3. ASSUME NEW n \in Nat, n \in T
        PROVE  n + 1 \in T
    <2>1. ASSUME NEW t \in Seq(S), Len(t) = n + 1
          PROVE  FlattenSeq(Singles(t)) = t
      <3>1. PICK d \in Seq(S), e \in S : t = Append(d, e)
        <4>1. t # <<>>
          BY <2>1
        <4> QED
          BY <4>1, SequenceEmptyOrAppend
      <3>2. Len(d) = n
        <4>1. Len(d) \in Nat /\ Len(t) = Len(d) + 1
          BY <3>1, AppendProperties
        <4> QED
          BY <2>1, <4>1
      <3>3. Singles(t) = Append(Singles(d), <<e>>)
        <4>1. /\ Len(t) = Len(d) + 1 /\ DOMAIN t = 1 .. Len(t) /\ DOMAIN d = 1 .. Len(d)
              /\ t[Len(d) + 1] = e /\ \A i \in 1 .. Len(d) : t[i] = d[i]
              /\ Len(d) \in Nat
          BY <3>1, AppendProperties
        <4>2. Singles(d) \in Seq(Seq(S)) /\ Len(Singles(d)) = Len(d) /\ <<e>> \in Seq(S)
          BY <1>1
        <4> DEFINE u == Singles(d)
        <4>3. \A i \in 1 .. Len(d) : u[i] = <<d[i]>>
          BY <4>1
        <4> HIDE DEF u
        <4>4. /\ Len(Append(u, <<e>>)) = Len(d) + 1 /\ Append(u, <<e>>)[Len(d) + 1] = <<e>>
              /\ \A i \in 1 .. Len(d) : Append(u, <<e>>)[i] = u[i]
              /\ Append(u, <<e>>) \in Seq(Seq(S))
          BY <4>2, AppendProperties DEF u
        <4>5. Singles(t) \in Seq(Seq(S)) /\ Len(Singles(t)) = Len(d) + 1
          BY <1>1, <4>1
        <4>6. ASSUME NEW i \in 1 .. (Len(d) + 1)
              PROVE  Singles(t)[i] = Append(u, <<e>>)[i]
          <5>1. Singles(t)[i] = <<t[i]>>
            BY <4>1
          <5>2. i = Len(d) + 1 \/ i \in 1 .. Len(d)
            BY <4>1
          <5> HIDE DEF Singles
          <5> QED
            BY <4>1, <4>3, <4>4, <5>1, <5>2
        <4> HIDE DEF Singles
        <4> QED
          BY <4>4, <4>5, <4>6, SeqEqual DEF u
      <3>4. FlattenSeq(Singles(t)) = FlattenSeq(Singles(d)) \o <<e>>
        <4>1. Singles(d) \in Seq(Seq(S)) /\ <<e>> \in Seq(S)
          BY <1>1
        <4> HIDE DEF Singles
        <4> QED
          BY <3>3, <4>1, FlatMore
      <3>5. FlattenSeq(Singles(d)) = d
        BY <1>3, <3>2
      <3> QED
        BY <3>1, <3>4, <3>5, AppendIsConcat
    <2> QED
      BY <2>1
  <1>4. \A n \in Nat : n \in T
    <2> HIDE DEF T
    <2> QED
      BY <1>2, <1>3, SetInduction
  <1>5. Len(s) \in T
    BY <1>4
  <1> QED
    BY <1>1, <1>5

-----------------------------------------------------------------------------
(* The children of the text's parent. *)
NodesOver(chars) == [tag : {"text", "d", "i"}, text : Seq(chars)]

(* What a node is read as, when nodes with such tags are read. *)
PartIn(node, tags) == IF node.tag \in tags THEN node.text ELSE <<>>

(* What each node of a list is read as. *)
PartsOf(list, tags) == [n \in DOMAIN list |-> PartIn(list[n], tags)]

(* What a list is read as. *)
ReadOf(list, tags) == FlattenSeq(PartsOf(list, tags))

(* A node is read as a text. *)
LEMMA PartTyped ==
  ASSUME NEW chars, NEW node \in NodesOver(chars), NEW tags
  PROVE  PartIn(node, tags) \in Seq(chars)
PROOF
  <1>1. node.text \in Seq(chars) /\ <<>> \in Seq(chars)
    BY DEF NodesOver
  <1> QED
    BY <1>1 DEF PartIn

(* So is a list of nodes. *)
LEMMA PartsTyped ==
  ASSUME NEW chars, NEW list \in Seq(NodesOver(chars)), NEW tags
  PROVE  /\ PartsOf(list, tags) \in Seq(Seq(chars))
         /\ Len(PartsOf(list, tags)) = Len(list)
         /\ \A n \in 1 .. Len(list) : PartsOf(list, tags)[n] = PartIn(list[n], tags)
PROOF
  <1> DEFINE V == Seq(chars)
             p == PartsOf(list, tags)
  <1>1. Len(list) \in Nat /\ DOMAIN list = 1 .. Len(list)
    BY LenProperties
  <1>2. \A n \in 1 .. Len(list) : PartIn(list[n], tags) \in V
    <2>1. \A n \in 1 .. Len(list) : list[n] \in NodesOver(chars)
      BY ElementOfSeq
    <2> QED
      BY <2>1, PartTyped
  <1>3. /\ p \in [1 .. Len(list) -> V]
        /\ \A n \in 1 .. Len(list) : p[n] = PartIn(list[n], tags)
    BY <1>1, <1>2 DEF PartsOf
  <1> HIDE DEF V, p
  <1>4. p \in Seq(V) /\ Len(p) = Len(list)
    BY <1>1, <1>3
  <1> QED
    BY <1>3, <1>4 DEF V, p

(***************************************************************************)
(* What is read of lists: nothing of the empty one, one after the other of *)
(* two behind each other.                                                  *)
(***************************************************************************)
LEMMA ReadTyped ==
  ASSUME NEW chars, NEW list \in Seq(NodesOver(chars)), NEW tags
  PROVE  ReadOf(list, tags) \in Seq(chars)
PROOF
  <1>1. PartsOf(list, tags) \in Seq(Seq(chars))
    BY PartsTyped
  <1> QED
    BY <1>1, FlatTyped DEF ReadOf

(* Nothing is read of no nodes. *)
LEMMA ReadEmpty ==
  ASSUME NEW tags
  PROVE  ReadOf(<<>>, tags) = <<>>
PROOF
  <1>1. PartsOf(<<>>, tags) = <<>>
    BY DEF PartsOf
  <1> QED
    BY <1>1 DEF ReadOf, FlattenSeq

(* Two lists behind each other are read one after the other. *)
ReadsBoth(a, b, tags) == ReadOf(a \o b, tags) = ReadOf(a, tags) \o ReadOf(b, tags)

(* It is so of any two lists. *)
LEMMA ReadBoth ==
  ASSUME NEW chars, NEW a \in Seq(NodesOver(chars)), NEW b \in Seq(NodesOver(chars)), NEW tags
  PROVE  ReadsBoth(a, b, tags)
PROOF
  <1> DEFINE N == NodesOver(chars)
             V == Seq(chars)
             p == PartsOf(a, tags)
             q == PartsOf(b, tags)
             r == PartsOf(a \o b, tags)
  <1> DEFINE ab == a \o b
  <1>1. IsJoined(ab, a, b, N)
    BY Joined
  <1>2. Len(a) \in Nat /\ Len(b) \in Nat /\ ab \in Seq(N) /\ Len(ab) = Len(a) + Len(b)
    BY <1>1, LenProperties DEF IsJoined
  <1>3. /\ p \in Seq(V) /\ Len(p) = Len(a)
        /\ \A n \in 1 .. Len(a) : p[n] = PartIn(a[n], tags)
    BY PartsTyped
  <1>4. /\ q \in Seq(V) /\ Len(q) = Len(b)
        /\ \A n \in 1 .. Len(b) : q[n] = PartIn(b[n], tags)
    BY PartsTyped
  <1> HIDE DEF ab
  <1>5. /\ r \in Seq(V) /\ Len(r) = Len(a) + Len(b)
        /\ \A n \in 1 .. (Len(a) + Len(b)) : r[n] = PartIn(ab[n], tags)
    BY <1>2, PartsTyped DEF ab
  <1> HIDE DEF N, V, p, q, r
  <1>6. ASSUME NEW i \in 1 .. Len(p)
        PROVE  r[i] = p[i]
    <2>1. i \in 1 .. (Len(a) + Len(b)) /\ i \in 1 .. Len(a)
      BY <1>2, <1>3
    <2> QED
      BY <1>1, <1>3, <1>5, <2>1 DEF IsJoined
  <1>7. ASSUME NEW i \in 1 .. Len(q)
        PROVE  r[Len(p) + i] = q[i]
    <2>1. Len(p) + i \in 1 .. (Len(a) + Len(b)) /\ i \in 1 .. Len(b) /\ Len(p) = Len(a)
      BY <1>2, <1>3, <1>4
    <2>2. ab[Len(a) + i] = b[i]
      BY <1>1, <2>1 DEF IsJoined
    <2> QED
      BY <1>4, <1>5, <2>1, <2>2
  <1>8. IsJoined(r, p, q, V)
    BY <1>3, <1>4, <1>5, <1>6, <1>7 DEF IsJoined
  <1>9. r = p \o q
    BY <1>3, <1>4, <1>8, JoinedOnly
  <1>10. FlattenSeq(p \o q) = FlattenSeq(p) \o FlattenSeq(q)
    BY <1>3, <1>4, FlatBoth DEF V
  <1> QED
    BY <1>9, <1>10 DEF ReadsBoth, ReadOf, p, q, r, ab

(* Of a single node its own text is read. *)
LEMMA ReadOne ==
  ASSUME NEW chars, NEW node \in NodesOver(chars), NEW tags
  PROVE  ReadOf(<<node>>, tags) = PartIn(node, tags)
PROOF
  <1>1. PartsOf(<<node>>, tags) = <<PartIn(node, tags)>>
    BY DEF PartsOf
  <1>2. PartIn(node, tags) \in Seq(chars)
    BY PartTyped
  <1> QED
    BY <1>1, <1>2, FlatOne DEF ReadOf

-----------------------------------------------------------------------------
(* How much of the text the walker has passed before each node. *)
PassedRows(list) ==
  /\ Passed(list, 1) = 0
  /\ \A n \in 1 .. Len(list) : Passed(list, n) \in Nat
  /\ \A n \in 2 .. Len(list) :
       Passed(list, n) =
         IF Accepted(list[n - 1]) THEN Passed(list, n - 1) + Len(list[n - 1].text)
         ELSE Passed(list, n - 1)

(* The table of the text the walker has passed. *)
PassedAt(list, passed, m) ==
  IF m = 0 THEN 0
  ELSE IF Accepted(list[m]) THEN passed[m - 1] + Len(list[m].text) ELSE passed[m - 1]

PassedTable(list) == CHOOSE f : f = [m \in 0 .. Len(list) |-> PassedAt(list, f, m)]

(* Passed counts node by node. *)
LEMMA PassedFacts ==
  ASSUME NEW chars, NEW list \in Seq(NodesOver(chars))
  PROVE  PassedRows(list)
PROOF
  <1> DEFINE l == Len(list)
             Body(f) == [m \in 0 .. l |-> PassedAt(list, f, m)]
             More(m, v) == IF m \in 1 .. l /\ Accepted(list[m]) THEN v + Len(list[m].text) ELSE v
             g == [m \in 0 .. l |-> [v \in Nat |-> More(m, v)]]
             t == PassedTable(list)
  <1>1. /\ l \in Nat /\ 0 \in Nat
        /\ \A m \in 1 .. l : Len(list[m].text) \in Nat
    <2>1. l \in Nat
      BY LenProperties
    <2>2. \A m \in 1 .. l : list[m] \in NodesOver(chars)
      BY ElementOfSeq
    <2> QED
      BY <2>1, <2>2 DEF NodesOver
  <1> HIDE DEF l
  <1>2. g \in [0 .. l -> [Nat -> Nat]]
    BY <1>1
  <1>3. \A m \in 0 .. l : \A v \in Nat : g[m][v] = More(m, v) /\ More(m, v) \in Nat
    BY <1>1
  <1> HIDE DEF g
  <1>4. PICK f \in [0 .. l -> Nat] :
          f = [n \in 0 .. l |-> IF n = 0 THEN 0 ELSE g[n][f[n - 1]]]
    <2>1. PICK f \in [0 .. l -> Nat] : Iterates(f, 0, l, 0, g)
      BY <1>1, <1>2, IterationExists
    <2> QED
      BY <2>1 DEF Iterates
  <1>5. f = Body(f)
    <2>1. ASSUME NEW n \in 0 .. l
          PROVE  f[n] = PassedAt(list, f, n)
      <3>1. CASE n = 0
        BY <1>4, <3>1 DEF PassedAt
      <3>2. CASE n # 0
        <4>1. n - 1 \in 0 .. l /\ n \in 1 .. l
          BY <1>1, <3>2
        <4>2. f[n] = g[n][f[n - 1]] /\ f[n - 1] \in Nat
          BY <1>4, <3>2, <4>1
        <4>3. f[n] = More(n, f[n - 1])
          BY <1>3, <4>2
        <4> QED
          BY <3>2, <4>1, <4>3 DEF PassedAt
      <3> QED
        BY <3>1, <3>2
    <2> QED
      BY <1>4, <2>1
  <1>6. t = Body(t)
    <2> HIDE DEF Body
    <2>1. t = CHOOSE h : h = Body(h)
      BY DEF PassedTable, Body, l
    <2> HIDE DEF t
    <2> QED
      BY <1>5, <2>1
  <1>7. \A m \in 0 .. l : t[m] = PassedAt(list, t, m)
    <2> HIDE DEF t
    <2> QED
      BY <1>6
  <1>8. \A n : Passed(list, n) = t[n - 1]
    BY DEF Passed, PassedTable, PassedAt, l
  <1> HIDE DEF t
  <1>9. \A n \in Nat : n \in {m \in Nat : m \in 0 .. l => t[m] \in Nat}
    <2> DEFINE T == {m \in Nat : m \in 0 .. l => t[m] \in Nat}
    <2>1. 0 \in T
      BY <1>1, <1>7 DEF PassedAt
    <2>2. ASSUME NEW m \in Nat, m \in T
          PROVE  m + 1 \in T
      <3>1. ASSUME m + 1 \in 0 .. l
            PROVE  t[m + 1] \in Nat
        <4>1. m \in 0 .. l /\ m + 1 # 0 /\ (m + 1) - 1 = m /\ m + 1 \in 1 .. l
          BY <1>1, <3>1
        <4>2. t[m] \in Nat /\ Len(list[m + 1].text) \in Nat
          BY <1>1, <2>2, <4>1
        <4>3. \/ t[m + 1] = t[m] + Len(list[m + 1].text)
              \/ t[m + 1] = t[m]
          BY <1>7, <3>1, <4>1 DEF PassedAt
        <4> QED
          BY <4>2, <4>3
      <3> QED
        BY <3>1
    <2> HIDE DEF T
    <2>3. \A n \in Nat : n \in T
      BY <2>1, <2>2, SetInduction
    <2> QED
      BY <2>3 DEF T
  <1>10. Passed(list, 1) = 0
    <2>1. Passed(list, 1) = t[0]
      BY <1>8
    <2> QED
      BY <1>1, <1>7, <2>1 DEF PassedAt
  <1>11. ASSUME NEW n \in 1 .. l
         PROVE  Passed(list, n) \in Nat
    <2>1. n - 1 \in Nat /\ n - 1 \in 0 .. l
      BY <1>1
    <2> QED
      BY <1>8, <1>9, <2>1
  <1>12. ASSUME NEW n \in 2 .. l
         PROVE  Passed(list, n) =
                  IF Accepted(list[n - 1]) THEN Passed(list, n - 1) + Len(list[n - 1].text)
                  ELSE Passed(list, n - 1)
    <2>1. n - 1 \in 0 .. l /\ n - 1 # 0
      BY <1>1
    <2> QED
      BY <1>7, <1>8, <2>1 DEF PassedAt
  <1> QED
    BY <1>10, <1>11, <1>12 DEF PassedRows, l

(* Behind an accepted first node its text is passed. *)
LEMMA PassedFirst ==
  ASSUME NEW chars, NEW list \in Seq(NodesOver(chars)), Len(list) > 0, Accepted(list[1]),
         NEW n \in 2 .. Len(list)
  PROVE  Passed(list, n) \in Nat /\ Passed(list, n) >= Len(list[1].text)
PROOF
  <1> DEFINE l == Len(list)
             first == Len(list[1].text)
             T == {m \in Nat : m + 2 \in 2 .. l => Passed(list, m + 2) >= first}
  <1>1. PassedRows(list) /\ l \in Nat
    BY PassedFacts, LenProperties
  <1>2. \A m \in 1 .. l : Len(list[m].text) \in Nat
    <2>2. \A m \in 1 .. l : list[m] \in NodesOver(chars)
      BY ElementOfSeq
    <2> QED
      BY <2>2 DEF NodesOver
  <1> HIDE DEF l
  <1>3. 0 \in T
    <2>1. ASSUME 2 \in 2 .. l
          PROVE  Passed(list, 2) >= first
      <3>1. Passed(list, 2) = Passed(list, 1) + first /\ Passed(list, 1) = 0
        BY <1>1, <2>1 DEF PassedRows, l
      <3>2. first \in Nat
        BY <1>1, <1>2, <2>1
      <3> QED
        BY <3>1, <3>2
    <2> QED
      BY <2>1
  <1>4. ASSUME NEW m \in Nat, m \in T
        PROVE  m + 1 \in T
    <2>1. ASSUME (m + 1) + 2 \in 2 .. l
          PROVE  Passed(list, (m + 1) + 2) >= first
      <3> DEFINE k1 == (m + 1) + 2
      <3>1. k1 - 1 = m + 2 /\ m + 2 \in 2 .. l /\ m + 2 \in 1 .. l /\ k1 \in 2 .. l
        BY <1>1, <2>1
      <3> HIDE DEF k1
      <3>2. Passed(list, m + 2) >= first /\ Passed(list, m + 2) \in Nat
        BY <1>1, <1>4, <3>1 DEF PassedRows, l
      <3>3. \/ Passed(list, k1) = Passed(list, m + 2) + Len(list[m + 2].text)
            \/ Passed(list, k1) = Passed(list, m + 2)
        BY <1>1, <3>1 DEF PassedRows, l
      <3>4. Len(list[m + 2].text) \in Nat /\ first \in Nat
        <4>1. 1 \in 1 .. l
          BY <1>1, <3>1
        <4> QED
          BY <1>2, <3>1, <4>1
      <3> HIDE DEF first
      <3>5. Passed(list, k1) >= first
        BY <3>2, <3>3, <3>4
      <3> QED
        BY <3>5 DEF k1
    <2> QED
      BY <2>1
  <1>5. \A m \in Nat : m \in T
    <2> HIDE DEF T
    <2> QED
      BY <1>3, <1>4, SetInduction
  <1>6. n - 2 \in T /\ (n - 2) + 2 = n /\ n \in 1 .. l
    <2>1. n - 2 \in Nat /\ n \in 1 .. l /\ (n - 2) + 2 = n
      BY <1>1 DEF l
    <2> HIDE DEF T
    <2> QED
      BY <1>5, <2>1
  <1> QED
    BY <1>1, <1>6 DEF PassedRows, l

-----------------------------------------------------------------------------
(* A sequence is what it has up to a place and what it has behind it. *)
LEMMA CutInTwo ==
  ASSUME NEW S, NEW s \in Seq(S), NEW n \in 0 .. Len(s)
  PROVE  /\ SubSeq(s, 1, n) \in Seq(S) /\ Len(SubSeq(s, 1, n)) = n
         /\ From(s, n) \in Seq(S) /\ Len(From(s, n)) = Len(s) - n
         /\ SubSeq(s, 1, n) \o From(s, n) = s
PROOF
  <1>1. Len(s) \in Nat /\ n \in Nat /\ \A i \in 1 .. Len(s) : s[i] \in S
    BY LenProperties, ElementOfSeq
  <1>2. SubSeq(s, 1, n) \in Seq(S) /\ Len(SubSeq(s, 1, n)) = n
    <2>1. \A i \in 1 .. n : s[i] \in S
      BY <1>1
    <2>2. /\ SubSeq(s, 1, n) \in Seq(S)
          /\ Len(SubSeq(s, 1, n)) = IF 1 <= n THEN n - 1 + 1 ELSE 0
      BY <1>1, <2>1, SubSeqProperties
    <2> QED
      BY <1>1, <2>2
  <1>3. From(s, n) \in Seq(S) /\ Len(From(s, n)) = Len(s) - n
    <2>1. \A i \in (n + 1) .. Len(s) : s[i] \in S
      BY <1>1
    <2>2. /\ SubSeq(s, n + 1, Len(s)) \in Seq(S)
          /\ Len(SubSeq(s, n + 1, Len(s)))
               = IF n + 1 <= Len(s) THEN Len(s) - (n + 1) + 1 ELSE 0
      BY <1>1, <2>1, SubSeqProperties
    <2> QED
      BY <1>1, <2>2 DEF From
  <1>4. SubSeq(s, 1, n) \o SubSeq(s, n + 1, Len(s)) = SubSeq(s, 1, Len(s))
    <2>1. /\ 1 \in 1 .. (Len(s) + 1) /\ n \in (1 - 1) .. Len(s) /\ Len(s) \in n .. Len(s)
      BY <1>1
    <2> QED
      BY <2>1, ConcatAdjacentSubSeq
  <1> QED
    BY <1>2, <1>3, <1>4, SubSeqFull DEF From

(* A sequence that is not empty has a last element and what is before it. *)
LEMMA FrontAndLast ==
  ASSUME NEW S, NEW s \in Seq(S), s # <<>>
  PROVE  Front(s) \in Seq(S) /\ Last(s) \in S /\ s = Front(s) \o <<Last(s)>>
PROOF
  <1>1. Len(s) \in Nat /\ Len(s) >= 1
    BY EmptySeq
  <1>2. /\ Len(s) - 1 \in 0 .. Len(s) /\ Len(s) \in 1 .. Len(s) /\ 1 \in 1 .. Len(s)
        /\ Len(s) - 1 + 1 = Len(s)
    BY <1>1
  <1>3. Front(s) = SubSeq(s, 1, Len(s) - 1) /\ Last(s) = s[Len(s)]
    BY DEF Front, Last
  <1>4. Front(s) \in Seq(S)
    BY <1>2, <1>3, CutInTwo
  <1>5. Last(s) \in S
    BY <1>2, <1>3, ElementOfSeq
  <1>6. SubSeq(s, 1, Len(s)) = SubSeq(s, 1, Len(s) - 1) \o <<s[Len(s)]>>
    BY <1>2, SubSeqRecursiveSecond
  <1> QED
    BY <1>3, <1>4, <1>5, <1>6, SubSeqFull

(* A node for a text that is over the letters. *)
LEMMA NodeTyped ==
  ASSUME NEW chars, NEW tag \in {"text", "d", "i"}, NEW text \in Seq(chars)
  PROVE  Node(tag, text) \in NodesOver(chars)
PROOF
  BY DEF Node, NodesOver

(* A node more at the end is read behind what there is. *)
LEMMA ReadMore ==
  ASSUME NEW chars, NEW a \in Seq(NodesOver(chars)), NEW node \in NodesOver(chars), NEW tags
  PROVE  /\ a \o <<node>> \in Seq(NodesOver(chars))
         /\ ReadOf(a \o <<node>>, tags) = ReadOf(a, tags) \o PartIn(node, tags)
PROOF
  <1> DEFINE one == <<node>>
  <1>1. one \in Seq(NodesOver(chars)) /\ ReadOf(one, tags) = PartIn(node, tags)
    BY ReadOne
  <1> HIDE DEF one
  <1>2. ReadOf(a \o one, tags) = ReadOf(a, tags) \o ReadOf(one, tags)
    BY <1>1, ReadBoth DEF ReadsBoth
  <1>3. a \o one \in Seq(NodesOver(chars))
    BY <1>1, ConcatProperties
  <1> QED
    BY <1>1, <1>2, <1>3 DEF one

(* normalize takes one node more: it is read behind what there is. *)
LEMMA WithNodeReads ==
  ASSUME NEW chars, NEW done \in Seq(NodesOver(chars)), NEW node \in NodesOver(chars),
         NEW tags, "text" \in tags
  PROVE  /\ WithNode(done, node) \in Seq(NodesOver(chars))
         /\ ReadOf(WithNode(done, node), tags) = ReadOf(done, tags) \o PartIn(node, tags)
PROOF
  <1> DEFINE N == NodesOver(chars)
             V == Seq(chars)
  <1>1. /\ Append(done, node) \in Seq(N)
        /\ ReadOf(Append(done, node), tags) = ReadOf(done, tags) \o PartIn(node, tags)
    <2>1. Append(done, node) = done \o <<node>>
      BY AppendIsConcat
    <2> QED
      BY <2>1, ReadMore
  <1>2. CASE node.tag # "text"
    BY <1>1, <1>2 DEF WithNode
  <1>3. CASE node.tag = "text" /\ node.text = <<>>
    <2>1. WithNode(done, node) = done /\ PartIn(node, tags) = <<>>
      BY <1>3 DEF WithNode, PartIn
    <2>2. ReadOf(done, tags) \in V
      BY ReadTyped
    <2> QED
      BY <2>1, <2>2, ConcatEmptySeq
  <1>4. CASE node.tag = "text" /\ node.text # <<>> /\ ~(done # <<>> /\ Last(done).tag = "text")
    <2>1. WithNode(done, node) = Append(done, node)
      BY <1>4 DEF WithNode
    <2> QED
      BY <1>1, <2>1
  <1>5. CASE node.tag = "text" /\ node.text # <<>> /\ done # <<>> /\ Last(done).tag = "text"
    <2> DEFINE last == Last(done)
               both == Node("text", last.text \o node.text)
    <2>1. WithNode(done, node) = Front(done) \o <<both>>
      BY <1>5 DEF WithNode
    <2>2. Front(done) \in Seq(N) /\ last \in N /\ done = Front(done) \o <<last>>
      BY <1>5, FrontAndLast
    <2>3. last.text \in V /\ node.text \in V
      BY <2>2 DEF NodesOver
    <2>4. both \in N /\ both.tag = "text" /\ both.text = last.text \o node.text
      <3>1. last.text \o node.text \in V
        BY <2>3, ConcatProperties
      <3> QED
        BY <3>1, NodeTyped DEF Node
    <2>5. ReadOf(done, tags) = ReadOf(Front(done), tags) \o last.text
      <3>1. PartIn(last, tags) = last.text
        BY <1>5 DEF PartIn
      <3> HIDE DEF last
      <3>2. ReadOf(Front(done) \o <<last>>, tags) = ReadOf(Front(done), tags) \o PartIn(last, tags)
        BY <2>2, ReadMore
      <3> QED
        BY <2>2, <3>1, <3>2
    <2>6. /\ Front(done) \o <<both>> \in Seq(N)
          /\ ReadOf(Front(done) \o <<both>>, tags)
               = ReadOf(Front(done), tags) \o (last.text \o node.text)
      <3>1. PartIn(both, tags) = last.text \o node.text
        <4> HIDE DEF both, last
        <4> QED
          BY <2>4 DEF PartIn
      <3> HIDE DEF both, last
      <3>2. /\ Front(done) \o <<both>> \in Seq(N)
            /\ ReadOf(Front(done) \o <<both>>, tags)
                 = ReadOf(Front(done), tags) \o PartIn(both, tags)
        BY <2>2, <2>4, ReadMore
      <3> QED
        BY <3>1, <3>2
    <2>7. PartIn(node, tags) = node.text
      BY <1>5 DEF PartIn
    <2>8. ReadOf(Front(done), tags) \in V
      BY <2>2, ReadTyped
    <2>9. (ReadOf(Front(done), tags) \o last.text) \o node.text
            = ReadOf(Front(done), tags) \o (last.text \o node.text)
      <3>1. Associates(V)
        BY ConcatAssociates
      <3> HIDE DEF V, last
      <3> QED
        BY <2>3, <2>8, <3>1 DEF Associates
    <2> HIDE DEF last, both
    <2> QED
      BY <2>1, <2>5, <2>6, <2>7, <2>9
  <1> QED
    BY <1>2, <1>3, <1>4, <1>5

(* The table of what normalize has made of the first nodes. *)
NormalizedAt(list, done, n) == IF n = 0 THEN <<>> ELSE WithNode(done[n - 1], list[n])

NormalizedTable(list) == CHOOSE f : f = [n \in 0 .. Len(list) |-> NormalizedAt(list, f, n)]

(***************************************************************************)
(* normalize changes nothing of what is read, if the texts are read at     *)
(* all.                                                                    *)
(***************************************************************************)
LEMMA NormalizedReads ==
  ASSUME NEW chars, NEW list \in Seq(NodesOver(chars)), NEW tags, "text" \in tags
  PROVE  /\ Normalized(list) \in Seq(NodesOver(chars))
         /\ ReadOf(Normalized(list), tags) = ReadOf(list, tags)
PROOF
  <1> DEFINE N == NodesOver(chars)
             W == Seq(N)
             l == Len(list)
             Body(f) == [n \in 0 .. l |-> NormalizedAt(list, f, n)]
             More(n, v) == IF n \in 1 .. l THEN WithNode(v, list[n]) ELSE v
             g == [n \in 0 .. l |-> [v \in W |-> More(n, v)]]
             t == NormalizedTable(list)
             Read(n) == ReadOf(SubSeq(list, 1, n), tags)
  <1>1. /\ l \in Nat /\ 0 \in Nat /\ <<>> \in W
        /\ \A n \in 1 .. l : list[n] \in N
    BY LenProperties, ElementOfSeq
  <1>2. \A n \in 1 .. l : \A v \in W : WithNode(v, list[n]) \in W
    BY <1>1, WithNodeReads
  <1> HIDE DEF l, W, N
  <1>3. /\ g \in [0 .. l -> [W -> W]]
        /\ \A n \in 0 .. l : \A v \in W : g[n][v] = More(n, v) /\ More(n, v) \in W
    BY <1>1, <1>2
  <1> HIDE DEF g
  <1>4. PICK f \in [0 .. l -> W] :
          f = [n \in 0 .. l |-> IF n = 0 THEN <<>> ELSE g[n][f[n - 1]]]
    <2>1. PICK f \in [0 .. l -> W] : Iterates(f, 0, l, <<>>, g)
      BY <1>1, <1>3, IterationExists
    <2> QED
      BY <2>1 DEF Iterates
  <1>5. f = Body(f)
    <2>1. ASSUME NEW n \in 0 .. l
          PROVE  f[n] = NormalizedAt(list, f, n)
      <3>1. CASE n = 0
        BY <1>4, <3>1 DEF NormalizedAt
      <3>2. CASE n # 0
        <4>1. n - 1 \in 0 .. l /\ n \in 1 .. l
          BY <1>1, <3>2
        <4>2. f[n] = g[n][f[n - 1]] /\ f[n - 1] \in W
          BY <1>4, <3>2, <4>1
        <4>3. f[n] = More(n, f[n - 1])
          BY <1>3, <4>2
        <4> QED
          BY <3>2, <4>1, <4>3 DEF NormalizedAt
      <3> QED
        BY <3>1, <3>2
    <2> QED
      BY <1>4, <2>1
  <1>6. t = Body(t)
    <2> HIDE DEF Body
    <2>1. t = CHOOSE h : h = Body(h)
      BY DEF NormalizedTable, Body, l
    <2> HIDE DEF t
    <2> QED
      BY <1>5, <2>1
  <1>7. \A n \in 0 .. l : t[n] = NormalizedAt(list, t, n)
    <2> HIDE DEF t
    <2> QED
      BY <1>6
  <1>8. Normalized(list) = t[l]
    BY DEF Normalized, NormalizedTable, NormalizedAt, l
  <1> HIDE DEF t
  <1> DEFINE T == {m \in Nat : m \in 0 .. l => t[m] \in W /\ ReadOf(t[m], tags) = Read(m)}
  <1>9. 0 \in T
    <2>1. t[0] = <<>>
      BY <1>1, <1>7 DEF NormalizedAt
    <2>2. SubSeq(list, 1, 0) = <<>>
      BY SubSeqEmpty
    <2> QED
      BY <1>1, <2>1, <2>2
  <1>10. ASSUME NEW m \in Nat, m \in T
         PROVE  m + 1 \in T
    <2>1. ASSUME m + 1 \in 0 .. l
          PROVE  t[m + 1] \in W /\ ReadOf(t[m + 1], tags) = Read(m + 1)
      <3>1. m \in 0 .. l /\ m + 1 # 0 /\ (m + 1) - 1 = m /\ m + 1 \in 1 .. l
        BY <1>1, <2>1
      <3>2. t[m] \in W /\ ReadOf(t[m], tags) = Read(m)
        BY <1>10, <3>1
      <3>3. t[m + 1] = WithNode(t[m], list[m + 1])
        BY <1>7, <2>1, <3>1 DEF NormalizedAt
      <3>4. list[m + 1] \in N
        BY <1>1, <3>1
      <3>5. /\ t[m + 1] \in W
            /\ ReadOf(t[m + 1], tags) = Read(m) \o PartIn(list[m + 1], tags)
        <4>1. t[m] \in Seq(NodesOver(chars)) /\ list[m + 1] \in NodesOver(chars)
          BY <3>2, <3>4 DEF W, N
        <4> HIDE DEF Read
        <4>2. /\ WithNode(t[m], list[m + 1]) \in Seq(NodesOver(chars))
              /\ ReadOf(WithNode(t[m], list[m + 1]), tags)
                   = ReadOf(t[m], tags) \o PartIn(list[m + 1], tags)
          BY <4>1, WithNodeReads
        <4> QED
          BY <3>2, <3>3, <4>2 DEF W, N
      <3>6. Read(m + 1) = Read(m) \o PartIn(list[m + 1], tags)
        <4>1. SubSeq(list, 1, m + 1) = SubSeq(list, 1, m) \o <<list[m + 1]>>
          <5>1. 1 \in 1 .. l /\ m + 1 \in 1 .. l
            BY <1>1, <3>1
          <5>2. SubSeq(list, 1, m + 1) = SubSeq(list, 1, (m + 1) - 1) \o <<list[m + 1]>>
            BY <5>1, SubSeqRecursiveSecond DEF l
          <5> QED
            BY <3>1, <5>2
        <4>2. SubSeq(list, 1, m) \in W
          BY <3>1, CutInTwo DEF W, N, l
        <4>3. ReadOf(SubSeq(list, 1, m) \o <<list[m + 1]>>, tags)
                = ReadOf(SubSeq(list, 1, m), tags) \o PartIn(list[m + 1], tags)
          <5> DEFINE a == SubSeq(list, 1, m)
                     e == list[m + 1]
          <5>1. a \in Seq(NodesOver(chars)) /\ e \in NodesOver(chars)
            BY <3>4, <4>2 DEF W, N
          <5> HIDE DEF a, e
          <5>2. ReadOf(a \o <<e>>, tags) = ReadOf(a, tags) \o PartIn(e, tags)
            BY <5>1, ReadMore
          <5> QED
            BY <5>2 DEF a, e
        <4> QED
          BY <4>1, <4>3
      <3> QED
        BY <3>5, <3>6
    <2> QED
      BY <2>1
  <1>11. l \in T
    <2> HIDE DEF T
    <2>1. \A n \in Nat : n \in T
      BY <1>9, <1>10, SetInduction
    <2> QED
      BY <1>1, <2>1
  <1>12. l \in 0 .. l
    BY <1>1
  <1>13. SubSeq(list, 1, l) = list
    BY SubSeqFull DEF l
  <1> QED
    BY <1>8, <1>11, <1>12, <1>13 DEF W, N

-----------------------------------------------------------------------------
(* The smaller of two numbers. *)
LEMMA MinOfTwo ==
  ASSUME NEW a \in Int, NEW b \in Int
  PROVE  Min({a, b}) = IF a <= b THEN a ELSE b
PROOF
  <1>1. \E m \in {a, b} : \A n \in {a, b} : m <= n
    OBVIOUS
  <1> DEFINE m == Min({a, b})
  <1>2. m \in {a, b} /\ \A n \in {a, b} : m <= n
    BY <1>1 DEF Min
  <1> QED
    BY <1>2

(* s has e behind a, in front of b. *)
IsAround(s, a, e, b, n, S) ==
  /\ s \in Seq(S) /\ Len(s) = n + Len(b) /\ n \in 1 .. Len(s) /\ s[n] = e
  /\ \A i \in 1 .. Len(a) : s[i] = a[i]
  /\ \A i \in 1 .. Len(b) : s[n + i] = b[i]
  /\ SubSeq(s, 1, n - 1) = a /\ From(s, n) = b

(* A list around one of its elements. *)
LEMMA AroundOne ==
  ASSUME NEW S, NEW a \in Seq(S), NEW e \in S, NEW b \in Seq(S),
         NEW s, s = a \o <<e>> \o b, NEW n, n = Len(a) + 1
  PROVE  IsAround(s, a, e, b, n, S)
PROOF
  <1> DEFINE one == <<e>>
  <1>1. one \in Seq(S) /\ Len(one) = 1 /\ one[1] = e
    OBVIOUS
  <1>2. Len(a) \in Nat /\ Len(b) \in Nat
    BY LenProperties
  <1> HIDE DEF one
  <1>3. s = a \o one \o b
    BY DEF one
  <1>4. /\ s \in Seq(S) /\ Len(s) = Len(a) + Len(one) + Len(b)
        /\ \A i \in 1 .. Len(a) : s[i] = a[i]
        /\ \A i \in 1 .. Len(one) : s[Len(a) + i] = one[i]
        /\ \A i \in 1 .. Len(b) : s[Len(a) + Len(one) + i] = b[i]
    <2> DEFINE t == a \o one
    <2>1. IsJoined(t, a, one, S)
      BY <1>1, Joined
    <2>2. t \in Seq(S)
      BY <2>1 DEF IsJoined
    <2> HIDE DEF t
    <2>3. IsJoined(t \o b, t, b, S)
      BY <2>2, Joined
    <2>4. s = t \o b
      BY <1>3 DEF t
    <2>5. IsJoined(s, t, b, S) /\ Len(t) = Len(a) + Len(one)
      BY <2>1, <2>3, <2>4 DEF IsJoined
    <2>6. /\ s \in Seq(S) /\ Len(s) = Len(a) + Len(one) + Len(b)
          /\ \A i \in 1 .. Len(b) : s[Len(a) + Len(one) + i] = b[i]
      BY <2>5 DEF IsJoined
    <2>7. \A i \in 1 .. Len(t) : s[i] = t[i]
      BY <2>5 DEF IsJoined
    <2>8. ASSUME NEW i \in 1 .. Len(a)
          PROVE  s[i] = a[i]
      <3>1. i \in 1 .. Len(t)
        BY <1>1, <1>2, <2>5
      <3> QED
        BY <2>1, <2>7, <3>1 DEF IsJoined
    <2>9. ASSUME NEW i \in 1 .. Len(one)
          PROVE  s[Len(a) + i] = one[i]
      <3>1. Len(a) + i \in 1 .. Len(t)
        BY <1>1, <1>2, <2>5
      <3> QED
        BY <2>1, <2>7, <3>1 DEF IsJoined
    <2> QED
      BY <2>6, <2>8, <2>9
  <1>5. /\ Len(s) = n + Len(b) /\ s[n] = e /\ n \in 1 .. Len(s)
        /\ \A i \in 1 .. Len(b) : s[n + i] = b[i]
    <2>1. 1 \in 1 .. Len(one)
      BY <1>1
    <2>2. s[n] = one[1]
      BY <1>4, <2>1
    <2> QED
      BY <1>1, <1>2, <1>4, <2>2
  <1>6. SubSeq(s, 1, n - 1) = a
    <2>1. 1 \in 1 .. (Len(s) + 1) /\ n - 1 \in (1 - 1) .. Len(s) /\ ((n - 1) + 1) - 1 = Len(a)
      BY <1>2, <1>5
    <2> DEFINE t == SubSeq(s, 1, n - 1)
    <2>2. /\ t \in Seq(S) /\ Len(t) = ((n - 1) + 1) - 1
          /\ \A i \in 1 .. (((n - 1) + 1) - 1) : t[i] = s[(1 - 1) + i]
      BY <1>4, <2>1, PartOf
    <2> HIDE DEF t
    <2>3. \A i \in 1 .. Len(t) : t[i] = a[i]
      BY <1>2, <1>4, <2>1, <2>2
    <2>4. t = a
      BY <2>1, <2>2, <2>3, SeqEqual
    <2> QED
      BY <2>4 DEF t
  <1>7. From(s, n) = b
    <2> DEFINE e1 == n + 1
               t == SubSeq(s, e1, Len(s))
    <2>1. /\ e1 \in 1 .. (Len(s) + 1) /\ Len(s) \in (e1 - 1) .. Len(s)
          /\ (Len(s) + 1) - e1 = Len(b) /\ e1 - 1 = n
      BY <1>2, <1>5
    <2> HIDE DEF e1
    <2>2. /\ t \in Seq(S) /\ Len(t) = (Len(s) + 1) - e1
          /\ \A i \in 1 .. ((Len(s) + 1) - e1) : t[i] = s[(e1 - 1) + i]
      BY <1>4, <2>1, PartOf
    <2> HIDE DEF t
    <2>4. \A i \in 1 .. Len(t) : t[i] = b[i]
      BY <1>5, <2>1, <2>2
    <2>5. t = b
      BY <2>1, <2>2, <2>4, SeqEqual
    <2> QED
      BY <2>5 DEF t, e1, From
  <1> QED
    BY <1>4, <1>5, <1>6, <1>7 DEF IsAround

(* insert replaces the node numbered n, behind a and in front of b. *)
InsertsAt(list, a, node, b, n, pos, text) ==
  InsertText(list, pos, text) = a \o SplitAt(node, pos - Passed(list, n), text) \o b

(* insert puts the new text where the first node is that reaches the place. *)
LEMMA InsertInto ==
  ASSUME NEW chars, NEW a \in Seq(NodesOver(chars)), NEW node \in NodesOver(chars),
         NEW b \in Seq(NodesOver(chars)), NEW list, list = a \o <<node>> \o b,
         NEW n, n = Len(a) + 1, NEW pos, NEW text,
         Reaches(list, n, pos), \A m \in 1 .. Len(a) : ~Reaches(list, m, pos)
  PROVE  InsertsAt(list, a, node, b, n, pos, text)
PROOF
  <1> DEFINE reached == {m \in DOMAIN list : Reaches(list, m, pos)}
  <1>1. /\ list \in Seq(NodesOver(chars)) /\ n \in 1 .. Len(list) /\ list[n] = node
        /\ SubSeq(list, 1, n - 1) = a /\ From(list, n) = b
    <2>1. IsAround(list, a, node, b, n, NodesOver(chars))
      BY AroundOne
    <2> QED
      BY <2>1 DEF IsAround
  <1>2. DOMAIN list = 1 .. Len(list) /\ Len(list) \in Nat /\ Len(a) \in Nat
    BY <1>1, LenProperties
  <1>3. n \in reached
    BY <1>1, <1>2
  <1>4. \A m \in reached : m \in Nat /\ m >= n
    <2>1. ASSUME NEW m \in reached
          PROVE  m \in Nat /\ m >= n
      <3>1. m \in 1 .. Len(list) /\ m \notin 1 .. Len(a)
        BY <1>2
      <3> HIDE DEF reached
      <3> QED
        BY <1>2, <3>1
    <2> QED
      BY <2>1
  <1> HIDE DEF reached
  <1>5. Min(reached) = n
    <2>1. n \in Nat
      BY <1>2
    <2>2. \E m \in reached : \A i \in reached : m <= i
      BY <1>3, <1>4
    <2> DEFINE m == Min(reached)
    <2>3. m \in reached /\ \A i \in reached : m <= i
      BY <2>2 DEF Min
    <2> HIDE DEF m
    <2>4. m <= n /\ m >= n /\ m \in Nat
      BY <1>3, <1>4, <2>3
    <2>5. m = n
      BY <2>1, <2>4
    <2> QED
      BY <2>5 DEF m
  <1>6. reached # {}
    BY <1>3
  <1>7. InsertText(list, pos, text)
          = SubSeq(list, 1, n - 1) \o SplitAt(list[n], pos - Passed(list, n), text) \o From(list, n)
    BY <1>5, <1>6 DEF InsertText, reached
  <1> QED
    BY <1>1, <1>7 DEF InsertsAt

(* What remove makes of the text when a part of it is taken away. *)
Taken(head, start, end) ==
  <<Node("text", SubSeq(head, 1, start)), Node("d", SubSeq(head, start + 1, end)),
    Node("text", From(head, end))>>

(* remove cuts the first text into three. *)
LEMMA CutFirst ==
  ASSUME NEW chars, NEW head \in Seq(chars), NEW start \in Nat, NEW end \in Nat,
         start < end, end <= Len(head)
  PROVE  Cut(Node("text", head), 0, start, end) = Taken(head, start, end)
PROOF
  <1> DEFINE node == Node("text", head)
  <1>1. node.tag = "text" /\ node.text = head /\ Len(head) \in Nat /\ head # <<>>
    BY LenProperties, EmptySeq DEF Node
  <1>2. Max({0, start - 0}) = start
    <2>1. start - 0 = start
      OBVIOUS
    <2> QED
      BY <2>1, MaxOfTwo
  <1>3. Min({Len(head), end - 0}) = end
    <2>1. end - 0 = end /\ Len(head) \in Int
      BY <1>1
    <2> QED
      BY <1>1, <2>1, MinOfTwo
  <1>4. ~(0 + Len(head) <= start) /\ ~(0 > end)
    BY <1>1
  <1>5. Accepted(node)
    BY <1>1 DEF Accepted
  <1> HIDE DEF node
  <1>6. Cut(node, 0, start, end) = Taken(head, start, end)
    BY <1>1, <1>2, <1>3, <1>4, <1>5 DEF Cut, Taken
  <1> QED
    BY <1>6 DEF node

(***************************************************************************)
(* remove, as long as nothing is taken away behind the first node: it is   *)
(* cut up, and the others stay.                                            *)
(***************************************************************************)
LEMMA RemovesFromFirst ==
  ASSUME NEW chars, NEW head \in Seq(chars), NEW rest \in Seq(NodesOver(chars)),
         NEW start \in Nat, NEW end \in Nat, start < end, end <= Len(head),
         rest = <<>> \/ end < Len(head), NEW list, list = <<Node("text", head)>> \o rest
  PROVE  RemoveText(list, start, end) = Taken(head, start, end) \o rest
PROOF
  <1> DEFINE N == NodesOver(chars)
             first == Node("text", head)
             one == <<first>>
             three == Taken(head, start, end)
             f == [n \in DOMAIN list |-> Cut(list[n], Passed(list, n), start, end)]
             singles == [n \in DOMAIN rest |-> <<rest[n]>>]
  <1>1. first \in N /\ first.tag = "text" /\ first.text = head /\ Len(head) \in Nat /\ head # <<>>
    BY NodeTyped, LenProperties, EmptySeq DEF Node
  <1>2. one \in Seq(N) /\ Len(one) = 1 /\ one[1] = first
    BY <1>1
  <1> HIDE DEF one
  <1>3. IsJoined(list, one, rest, N)
    BY <1>2, Joined DEF one
  <1>4. Len(rest) \in Nat /\ DOMAIN rest = 1 .. Len(rest)
    BY LenProperties
  <1>5. /\ list \in Seq(N) /\ Len(list) = 1 + Len(rest) /\ DOMAIN list = 1 .. Len(list)
        /\ list[1] = first /\ \A n \in 1 .. Len(rest) : list[1 + n] = rest[n]
    <2>1. 1 \in 1 .. Len(one)
      BY <1>2
    <2> QED
      BY <1>2, <1>3, <1>4, <2>1, LenProperties DEF IsJoined
  <1>6. PassedRows(list) /\ Accepted(list[1])
    BY <1>1, <1>5, PassedFacts DEF Accepted
  <1>7. three \in Seq(N)
    <2>1. start \in 0 .. Len(head) /\ end \in 0 .. Len(head)
      BY <1>1
    <2>2. SubSeq(head, 1, start) \in Seq(chars) /\ From(head, end) \in Seq(chars)
      BY <2>1, CutInTwo
    <2>3. SubSeq(head, start + 1, end) \in Seq(chars)
      <3>1. start + 1 \in 1 .. (Len(head) + 1) /\ end \in ((start + 1) - 1) .. Len(head)
        BY <1>1
      <3> QED
        BY <3>1, PartOf
    <2>4. /\ Node("text", SubSeq(head, 1, start)) \in N
          /\ Node("d", SubSeq(head, start + 1, end)) \in N
          /\ Node("text", From(head, end)) \in N
      BY <2>2, <2>3, NodeTyped
    <2> QED
      BY <2>4 DEF Taken
  <1>8. f[1] = three
    <2>1. Passed(list, 1) = 0
      BY <1>6 DEF PassedRows
    <2>2. f[1] = Cut(first, 0, start, end)
      BY <1>4, <1>5, <2>1
    <2> QED
      BY <2>2, CutFirst
  <1>9. ASSUME NEW n \in 1 .. Len(rest)
        PROVE  f[1 + n] = <<rest[n]>>
    <2>1. 1 + n \in 2 .. Len(list) /\ 1 + n \in DOMAIN list /\ Len(list) > 0
      BY <1>4, <1>5
    <2>2. Passed(list, 1 + n) \in Nat /\ Passed(list, 1 + n) >= Len(head)
      BY <1>1, <1>5, <1>6, <2>1, PassedFirst
    <2>3. end < Len(head)
      BY <1>4
    <2>4. Passed(list, 1 + n) > end
      BY <1>1, <2>2, <2>3
    <2>5. f[1 + n] = Cut(rest[n], Passed(list, 1 + n), start, end)
      BY <1>5, <2>1
    <2> QED
      BY <2>4, <2>5 DEF Cut
  <1> DEFINE V == Seq(N)
             head3 == <<three>>
  <1>10. /\ head3 \in Seq(V) /\ Len(head3) = 1 /\ head3[1] = three
    <2>1. three \in V
      BY <1>7
    <2> HIDE DEF V, three
    <2> QED
      BY <2>1
  <1>11. singles \in Seq(V) /\ FlattenSeq(singles) = rest
    BY FlatSingles
  <1>12. Len(singles) = Len(rest) /\ \A n \in 1 .. Len(rest) : singles[n] = <<rest[n]>>
    <2>1. \A n \in 1 .. Len(rest) : singles[n] = <<rest[n]>>
      BY <1>4
    <2>2. DOMAIN singles = 1 .. Len(rest)
      BY <1>4
    <2>3. DOMAIN singles = 1 .. Len(singles) /\ Len(singles) \in Nat
      <3> HIDE DEF singles, V
      <3> QED
        BY <1>11, LenProperties
    <2> HIDE DEF singles
    <2>4. Len(singles) = Len(rest)
      BY <1>4, <2>2, <2>3
    <2> QED
      BY <2>1, <2>4
  <1>13. f \in Seq(V) /\ Len(f) = 1 + Len(rest)
    <2>1. ASSUME NEW n \in 1 .. (1 + Len(rest))
          PROVE  f[n] \in V
      <3>1. CASE n = 1
        BY <1>7, <1>8, <3>1
      <3>2. CASE n # 1
        <4>1. n - 1 \in 1 .. Len(rest) /\ 1 + (n - 1) = n
          BY <1>4, <3>2
        <4>2. rest[n - 1] \in N
          BY <4>1, ElementOfSeq
        <4>3. <<rest[n - 1]>> \in Seq(N)
          BY <4>2
        <4>4. f[1 + (n - 1)] = <<rest[n - 1]>>
          BY <1>9, <4>1
        <4> HIDE DEF f
        <4> QED
          BY <4>1, <4>3, <4>4
      <3> QED
        BY <3>1, <3>2
    <2>2. DOMAIN f = 1 .. (1 + Len(rest))
      BY <1>5
    <2> HIDE DEF V
    <2>3. f \in [1 .. (1 + Len(rest)) -> V]
      BY <2>1, <2>2
    <2> HIDE DEF f
    <2> QED
      BY <1>4, <2>3
  <1> HIDE DEF f, singles, V, head3, three
  <1>14. IsJoined(f, head3, singles, V)
    <2>1. \A i \in 1 .. Len(head3) : f[i] = head3[i]
      BY <1>8, <1>10
    <2>2. \A i \in 1 .. Len(singles) : f[Len(head3) + i] = singles[i]
      BY <1>9, <1>10, <1>12
    <2> QED
      BY <1>10, <1>12, <1>13, <2>1, <2>2 DEF IsJoined
  <1>15. f = head3 \o singles
    BY <1>10, <1>11, <1>14, JoinedOnly
  <1>16. FlattenSeq(head3 \o singles) = FlattenSeq(head3) \o FlattenSeq(singles)
    BY <1>10, <1>11, FlatBoth DEF V
  <1>17. FlattenSeq(head3) = three
    BY <1>7, FlatOne DEF head3
  <1> QED
    BY <1>11, <1>15, <1>16, <1>17 DEF RemoveText, f, three

-----------------------------------------------------------------------------
(* Nothing in front or behind changes nothing. *)
NothingAdded(V) == <<>> \in V /\ \A u \in V : u \o <<>> = u /\ <<>> \o u = u

(* Two behind each other are one. *)
TwoMakeOne(V) == \A u, v \in V : u \o v \in V

(* What is known of sequences behind each other. *)
LEMMA ConcatLaws ==
  ASSUME NEW S
  PROVE  Associates(Seq(S)) /\ NothingAdded(Seq(S)) /\ TwoMakeOne(Seq(S))
PROOF
  <1>1. ASSUME NEW u \in Seq(S)
        PROVE  u \o <<>> = u /\ <<>> \o u = u
    BY ConcatEmptySeq
  <1>2. ASSUME NEW u \in Seq(S), NEW v \in Seq(S)
        PROVE  u \o v \in Seq(S)
    BY ConcatProperties
  <1>3. <<>> \in Seq(S)
    OBVIOUS
  <1> QED
    BY <1>1, <1>2, <1>3, ConcatAssociates DEF NothingAdded, TwoMakeOne

(* Two elements are one and another one. *)
LEMMA TwoBehind ==
  ASSUME NEW S, NEW a \in S, NEW b \in S
  PROVE  <<a>> \o <<b>> = <<a, b>>
PROOF
  <1> DEFINE u == <<a, b>>
             s == <<a>>
             t == <<b>>
  <1>1. u \in Seq(S) /\ Len(u) = 2 /\ u[1] = a /\ u[2] = b
    OBVIOUS
  <1>2. s \in Seq(S) /\ Len(s) = 1 /\ s[1] = a
    OBVIOUS
  <1>3. t \in Seq(S) /\ Len(t) = 1 /\ t[1] = b
    OBVIOUS
  <1> HIDE DEF u, s, t
  <1>4. IsJoined(u, s, t, S)
    BY <1>1, <1>2, <1>3 DEF IsJoined
  <1>5. u = s \o t
    BY <1>2, <1>3, <1>4, JoinedOnly
  <1> QED
    BY <1>5 DEF u, s, t

(* Three elements are two and another one. *)
LEMMA ThreeBehind ==
  ASSUME NEW S, NEW a \in S, NEW b \in S, NEW c \in S
  PROVE  <<a, b>> \o <<c>> = <<a, b, c>>
PROOF
  <1> DEFINE u == <<a, b, c>>
             s == <<a, b>>
             t == <<c>>
  <1>1. u \in Seq(S) /\ Len(u) = 3 /\ u[1] = a /\ u[2] = b /\ u[3] = c
    OBVIOUS
  <1>2. s \in Seq(S) /\ Len(s) = 2 /\ s[1] = a /\ s[2] = b
    OBVIOUS
  <1>3. t \in Seq(S) /\ Len(t) = 1 /\ t[1] = c
    OBVIOUS
  <1> HIDE DEF u, s, t
  <1>4. IsJoined(u, s, t, S)
    BY <1>1, <1>2, <1>3 DEF IsJoined
  <1>5. u = s \o t
    BY <1>2, <1>3, <1>4, JoinedOnly
  <1> QED
    BY <1>5 DEF u, s, t

(* They are one and two others. *)
LEMMA OneInFront ==
  ASSUME NEW S, NEW a \in S, NEW b \in S, NEW c \in S
  PROVE  <<a, b, c>> = <<a>> \o <<b, c>>
PROOF
  <1> DEFINE u == <<a, b, c>>
             s == <<a>>
             t == <<b, c>>
  <1>1. u \in Seq(S) /\ Len(u) = 3 /\ u[1] = a /\ u[2] = b /\ u[3] = c
    OBVIOUS
  <1>2. s \in Seq(S) /\ Len(s) = 1 /\ s[1] = a
    OBVIOUS
  <1>3. t \in Seq(S) /\ Len(t) = 2 /\ t[1] = b /\ t[2] = c
    OBVIOUS
  <1> HIDE DEF u, s, t
  <1>4. IsJoined(u, s, t, S)
    BY <1>1, <1>2, <1>3 DEF IsJoined
  <1>5. u = s \o t
    BY <1>2, <1>3, <1>4, JoinedOnly
  <1> QED
    BY <1>5 DEF u, s, t

(* A list of nodes and what is read of it. *)
ReadsAs(chars, list, tags, text) ==
  list \in Seq(NodesOver(chars)) /\ ReadOf(list, tags) = text

(* Two nodes are read one after the other. *)
LEMMA ReadTwo ==
  ASSUME NEW chars, NEW a \in NodesOver(chars), NEW b \in NodesOver(chars), NEW tags
  PROVE  ReadsAs(chars, <<a, b>>, tags, PartIn(a, tags) \o PartIn(b, tags))
PROOF
  <1> DEFINE one == <<a>>
  <1>1. one \in Seq(NodesOver(chars)) /\ ReadOf(one, tags) = PartIn(a, tags)
    <2>1. one \in Seq(NodesOver(chars))
      OBVIOUS
    <2>2. ReadOf(<<a>>, tags) = PartIn(a, tags)
      BY ReadOne
    <2> QED
      BY <2>1, <2>2
  <1>2. <<a, b>> = one \o <<b>>
    BY TwoBehind
  <1> HIDE DEF one
  <1>3. /\ one \o <<b>> \in Seq(NodesOver(chars))
        /\ ReadOf(one \o <<b>>, tags) = ReadOf(one, tags) \o PartIn(b, tags)
    BY <1>1, ReadMore
  <1> QED
    BY <1>1, <1>2, <1>3 DEF ReadsAs

(* So are three. *)
LEMMA ReadThree ==
  ASSUME NEW chars, NEW a \in NodesOver(chars), NEW b \in NodesOver(chars),
         NEW c \in NodesOver(chars), NEW tags
  PROVE  ReadsAs(chars, <<a, b, c>>, tags,
                 PartIn(a, tags) \o PartIn(b, tags) \o PartIn(c, tags))
PROOF
  <1> DEFINE two == <<a, b>>
  <1>1. /\ two \in Seq(NodesOver(chars))
        /\ ReadOf(two, tags) = PartIn(a, tags) \o PartIn(b, tags)
    BY ReadTwo DEF ReadsAs
  <1>2. <<a, b, c>> = two \o <<c>>
    BY ThreeBehind
  <1> HIDE DEF two
  <1>3. /\ two \o <<c>> \in Seq(NodesOver(chars))
        /\ ReadOf(two \o <<c>>, tags) = ReadOf(two, tags) \o PartIn(c, tags)
    BY <1>1, ReadMore
  <1> QED
    BY <1>1, <1>2, <1>3 DEF ReadsAs

(* What holds the old text, and what holds the new. *)
OldTags == {"text", "d"}
NewTags == {"text", "i"}

(* What is read of the nodes with one text. *)
LEMMA ReadNode ==
  ASSUME NEW text
  PROVE  /\ PartIn(Node("text", text), OldTags) = text /\ PartIn(Node("text", text), NewTags) = text
         /\ PartIn(Node("d", text), OldTags) = text /\ PartIn(Node("d", text), NewTags) = <<>>
         /\ PartIn(Node("i", text), OldTags) = <<>> /\ PartIn(Node("i", text), NewTags) = text
PROOF
  BY DEF PartIn, Node, OldTags, NewTags

(***************************************************************************)
(* An operation on the text head makes the nodes l of it: the old text is  *)
(* read from them, and the new one unless all is taken away; in front is   *)
(* the text up to the place of the operation.                              *)
(***************************************************************************)
Opened(chars, head, op, l) ==
  /\ l \in Seq(NodesOver(chars))
  /\ ReadOf(l, OldTags) = head
  /\ op.len < Len(head) => ReadOf(l, NewTags) = Edited(head, op)
  /\ op.pos > 0 =>
       \E m \in Seq(NodesOver(chars)) : l = <<Node("text", SubSeq(head, 1, op.pos))>> \o m

(* The parts of a text around the place of an operation. *)
HeadParts(chars, head, op, a, d, b) ==
  /\ a \in Seq(chars) /\ d \in Seq(chars) /\ b \in Seq(chars) /\ op.text \in Seq(chars)
  /\ a = SubSeq(head, 1, op.pos) /\ d = SubSeq(head, op.pos + 1, op.pos + op.len)
  /\ b = From(head, op.pos + op.len)
  /\ Len(a) = op.pos /\ Len(d) = op.len /\ Len(b) = Len(head) - (op.pos + op.len)
  /\ head = a \o (d \o b)
  /\ Edited(head, op) = a \o op.text \o b

(* There are such parts. *)
LEMMA PartsOfHead ==
  ASSUME NEW chars, NEW head \in Seq(chars), NEW op \in OperationsOver(chars),
         op.pos + op.len <= Len(head)
  PROVE  \E a, d, b : HeadParts(chars, head, op, a, d, b)
PROOF
  <1> DEFINE end == op.pos + op.len
             a == SubSeq(head, 1, op.pos)
             d == SubSeq(head, op.pos + 1, end)
             b == From(head, end)
             tail == From(head, op.pos)
  <1>1. /\ op.pos \in Nat /\ op.len \in Nat /\ op.text \in Seq(chars) /\ Len(head) \in Nat
    BY LenProperties DEF OperationsOver
  <1>2. op.pos \in 0 .. Len(head) /\ end \in 0 .. Len(head) /\ end >= op.pos
    BY <1>1
  <1> HIDE DEF end
  <1>3. /\ a \in Seq(chars) /\ Len(a) = op.pos /\ tail \in Seq(chars) /\ a \o tail = head
    BY <1>2, CutInTwo
  <1>4. b \in Seq(chars) /\ Len(b) = Len(head) - end
    BY <1>2, CutInTwo
  <1>5. d \in Seq(chars) /\ Len(d) = op.len
    <2> DEFINE p1 == op.pos + 1
    <2>1. /\ p1 \in 1 .. (Len(head) + 1) /\ end \in (p1 - 1) .. Len(head)
          /\ (end + 1) - p1 = op.len
      <3>1. op.pos \in Nat /\ op.len \in Nat /\ Len(head) \in Nat /\ end \in Nat
        BY <1>1, <1>2
      <3>2. p1 \in 1 .. (Len(head) + 1) /\ end \in (p1 - 1) .. Len(head)
        BY <1>2, <3>1
      <3>3. (end + 1) - p1 = op.len
        BY <3>1 DEF end
      <3> QED
        BY <3>2, <3>3
    <2> HIDE DEF p1
    <2>2. SubSeq(head, p1, end) \in Seq(chars) /\ Len(SubSeq(head, p1, end)) = (end + 1) - p1
      BY <2>1, PartOf
    <2> QED
      BY <2>1, <2>2 DEF p1
  <1>6. d \o b = tail
    <2> DEFINE p1 == op.pos + 1
    <2>1. /\ p1 \in 1 .. (Len(head) + 1) /\ end \in (p1 - 1) .. Len(head)
          /\ Len(head) \in end .. Len(head)
      BY <1>1, <1>2
    <2> HIDE DEF p1
    <2>2. SubSeq(head, p1, end) \o SubSeq(head, end + 1, Len(head)) = SubSeq(head, p1, Len(head))
      BY <2>1, ConcatAdjacentSubSeq
    <2> QED
      BY <2>2 DEF p1, From
  <1>7. Edited(head, op) = a \o op.text \o b
    BY DEF Edited, end
  <1> HIDE DEF a, d, b, tail
  <1>8. head = a \o (d \o b)
    BY <1>3, <1>6
  <1>9. HeadParts(chars, head, op, a, d, b)
    BY <1>1, <1>3, <1>4, <1>5, <1>7, <1>8 DEF HeadParts, a, d, b, end
  <1> QED
    BY <1>9

-----------------------------------------------------------------------------
(* insert makes list into result. *)
Inserts(list, pos, text, result) == InsertText(list, pos, text) = result

(* insert inside the first text, or at its end. *)
LEMMA InsertsInFirst ==
  ASSUME NEW chars, NEW head \in Seq(chars), NEW pos \in 1 .. Len(head), NEW text,
         NEW rest \in Seq(NodesOver(chars)), NEW list, list = <<Node("text", head)>> \o rest
  PROVE  Inserts(list, pos, text,
           <<Node("text", SubSeq(head, 1, pos)), Node("i", text), Node("text", From(head, pos))>>
             \o rest)
PROOF
  <1> DEFINE node == Node("text", head)
             N == NodesOver(chars)
             three == <<Node("text", SubSeq(head, 1, pos)), Node("i", text),
                        Node("text", From(head, pos))>>
             none == <<>>
  <1>1. /\ node \in N /\ node.tag = "text" /\ node.text = head
        /\ Len(head) \in Nat /\ pos \in Nat /\ head # <<>>
    BY NodeTyped, LenProperties, EmptySeq DEF Node
  <1>2. SplitAt(node, pos, text) = three
    BY <1>1 DEF SplitAt, From
  <1>3. none \in Seq(N) /\ Len(none) = 0
    OBVIOUS
  <1> HIDE DEF node, N, none
  <1>4. list = none \o <<node>> \o rest
    <2>1. none \o <<node>> = <<node>>
      <3>1. <<node>> \in Seq(N)
        BY <1>1
      <3> QED
        BY <3>1, ConcatEmptySeq DEF none
    <2> QED
      BY <2>1 DEF node
  <1>5. IsAround(list, none, node, rest, 1, N)
    <2>1. rest \in Seq(N) /\ 1 = Len(none) + 1
      BY <1>3 DEF N
    <2> QED
      BY <1>1, <1>3, <1>4, <2>1, AroundOne
  <1>6. Passed(list, 1) = 0 /\ list[1] = node
    <2>1. list \in Seq(N)
      BY <1>5 DEF IsAround
    <2> QED
      BY <1>5, <2>1, PassedFacts DEF IsAround, PassedRows, N
  <1>7. Reaches(list, 1, pos)
    <2>1. Accepted(list[1])
      BY <1>1, <1>6 DEF Accepted
    <2>2. Len(list[1].text) = Len(head)
      BY <1>1, <1>6
    <2>3. 0 <= pos /\ (0 + Len(head) > pos \/ Len(head) = pos)
      BY <1>1
    <2> QED
      BY <1>6, <2>1, <2>2, <2>3 DEF Reaches
  <1>8. InsertText(list, pos, text) = none \o SplitAt(node, pos - Passed(list, 1), text) \o rest
    <2>1. \A m \in 1 .. Len(none) : ~Reaches(list, m, pos)
      BY <1>3
    <2>2. 1 = Len(none) + 1
      BY <1>3
    <2>3. /\ rest \in Seq(NodesOver(chars)) /\ none \in Seq(NodesOver(chars))
          /\ node \in NodesOver(chars)
      BY <1>1, <1>3 DEF N
    <2>4. InsertsAt(list, none, node, rest, 1, pos, text)
      BY <1>4, <1>7, <2>1, <2>2, <2>3, InsertInto
    <2> QED
      BY <2>4 DEF InsertsAt
  <1>9. pos - Passed(list, 1) = pos
    BY <1>1, <1>6
  <1>10. none \o three = three
    BY DEF none
  <1> HIDE DEF three
  <1>11. InsertText(list, pos, text) = three \o rest
    BY <1>2, <1>8, <1>9, <1>10
  <1> QED
    BY <1>11 DEF three, Inserts

(* insert in front of the first text there is. *)
LEMMA InsertsInFront ==
  ASSUME NEW chars, NEW a \in Seq(NodesOver(chars)), \A m \in 1 .. Len(a) : ~Accepted(a[m]),
         NEW head \in Seq(chars), head # <<>>, NEW rest \in Seq(NodesOver(chars)),
         NEW list, list = a \o <<Node("text", head)>> \o rest, NEW text,
         Passed(list, Len(a) + 1) = 0
  PROVE  Inserts(list, 0, text, a \o <<Node("i", text), Node("text", head)>> \o rest)
PROOF
  <1> DEFINE node == Node("text", head)
             N == NodesOver(chars)
             n == Len(a) + 1
  <1>1. /\ node \in N /\ node.tag = "text" /\ node.text = head
        /\ Len(head) \in Nat /\ Len(head) > 0 /\ Len(a) \in Nat
    BY NodeTyped, LenProperties, EmptySeq DEF Node
  <1>2. SplitAt(node, 0, text) = <<Node("i", text), node>>
    BY DEF SplitAt
  <1> HIDE DEF node
  <1>3. list = a \o <<node>> \o rest
    BY DEF node
  <1>4. IsAround(list, a, node, rest, n, N)
    BY <1>1, <1>3, AroundOne DEF N
  <1>5. list[n] = node /\ \A m \in 1 .. Len(a) : list[m] = a[m]
    BY <1>4 DEF IsAround
  <1>6. Passed(list, n) = 0
    OBVIOUS
  <1> HIDE DEF n
  <1>7. Reaches(list, n, 0)
    <2>1. Accepted(list[n])
      BY <1>1, <1>5 DEF Accepted
    <2>2. Len(list[n].text) = Len(head)
      BY <1>1, <1>5
    <2>3. 0 <= 0 /\ 0 + Len(head) > 0
      BY <1>1
    <2> QED
      BY <1>6, <2>1, <2>2, <2>3 DEF Reaches
  <1>8. \A m \in 1 .. Len(a) : ~Reaches(list, m, 0)
    BY <1>5 DEF Reaches
  <1>9. InsertText(list, 0, text) = a \o SplitAt(node, 0 - Passed(list, n), text) \o rest
    <2>1. node \in NodesOver(chars) /\ n = Len(a) + 1
      BY <1>1 DEF N, n
    <2>2. InsertsAt(list, a, node, rest, n, 0, text)
      BY <1>3, <1>7, <1>8, <2>1, InsertInto
    <2> QED
      BY <2>2 DEF InsertsAt
  <1>10. 0 - Passed(list, n) = 0
    BY <1>6
  <1>11. InsertText(list, 0, text) = a \o <<Node("i", text), node>> \o rest
    BY <1>2, <1>9, <1>10
  <1> QED
    BY <1>11 DEF node, Inserts

(* The nodes a text can be taken apart into. *)
LEMMA PartNodes ==
  ASSUME NEW chars, NEW head, NEW op, NEW a, NEW d, NEW b, HeadParts(chars, head, op, a, d, b)
  PROVE  /\ Node("text", a) \in NodesOver(chars) /\ Node("d", d) \in NodesOver(chars)
         /\ Node("text", b) \in NodesOver(chars) /\ Node("i", op.text) \in NodesOver(chars)
         /\ Node("text", <<>>) \in NodesOver(chars)
PROOF
  <1>1. a \in Seq(chars) /\ d \in Seq(chars) /\ b \in Seq(chars) /\ op.text \in Seq(chars)
    BY DEF HeadParts
  <1>2. <<>> \in Seq(chars)
    OBVIOUS
  <1> QED
    BY <1>1, <1>2, NodeTyped

(* A text with a part taken away. *)
LEMMA DeletionOpens ==
  ASSUME NEW chars, NEW head \in Seq(chars), NEW op \in OperationsOver(chars), op.kind = "td",
         op.pos + op.len <= Len(head), NEW rest \in Seq(NodesOver(chars)),
         rest = <<>> \/ op.pos + op.len < Len(head),
         NEW list, list = <<Node("text", head)>> \o rest
  PROVE  \E l : Annotated(list, op) = l \o rest /\ Opened(chars, head, op, l)
PROOF
  <1>1. PICK a, d, b : HeadParts(chars, head, op, a, d, b)
    BY PartsOfHead
  <1> DEFINE na == Node("text", a)
             nd == Node("d", d)
             nb == Node("text", b)
             l == <<na, nd, nb>>
             V == Seq(chars)
  <1>2. op.pos \in Nat /\ op.len \in Nat /\ op.len # 0 /\ op.text = <<>>
    BY DEF OperationsOver
  <1>3. /\ a \in V /\ d \in V /\ b \in V /\ a = SubSeq(head, 1, op.pos)
        /\ head = a \o (d \o b) /\ Edited(head, op) = a \o op.text \o b
        /\ Taken(head, op.pos, op.pos + op.len) = l
    BY <1>1 DEF HeadParts, Taken
  <1>4. na \in NodesOver(chars) /\ nd \in NodesOver(chars) /\ nb \in NodesOver(chars)
    BY <1>1, PartNodes
  <1>5. /\ PartIn(na, OldTags) = a /\ PartIn(nd, OldTags) = d /\ PartIn(nb, OldTags) = b
        /\ PartIn(na, NewTags) = a /\ PartIn(nd, NewTags) = <<>> /\ PartIn(nb, NewTags) = b
    BY ReadNode
  <1>6. Annotated(list, op) = l \o rest
    <2>1. op.pos + op.len \in Nat /\ op.pos < op.pos + op.len
      BY <1>2
    <2>2. RemoveText(list, op.pos, op.pos + op.len) = Taken(head, op.pos, op.pos + op.len) \o rest
      BY <1>2, <2>1, RemovesFromFirst
    <2> HIDE DEF l
    <2> QED
      BY <1>3, <2>2 DEF Annotated
  <1> HIDE DEF na, nd, nb
  <1>7. /\ l \in Seq(NodesOver(chars))
        /\ ReadOf(l, OldTags) = a \o d \o b /\ ReadOf(l, NewTags) = a \o <<>> \o b
    <2>1. ReadsAs(chars, l, OldTags,
                  PartIn(na, OldTags) \o PartIn(nd, OldTags) \o PartIn(nb, OldTags))
      BY <1>4, ReadThree
    <2>2. ReadsAs(chars, l, NewTags,
                  PartIn(na, NewTags) \o PartIn(nd, NewTags) \o PartIn(nb, NewTags))
      BY <1>4, ReadThree
    <2> HIDE DEF l
    <2> QED
      BY <1>5, <2>1, <2>2 DEF ReadsAs
  <1>8. ReadOf(l, OldTags) = head /\ ReadOf(l, NewTags) = Edited(head, op)
    <2>1. Associates(V)
      BY ConcatLaws
    <2> HIDE DEF V, l
    <2>2. (a \o d) \o b = a \o (d \o b)
      BY <1>3, <2>1 DEF Associates
    <2> QED
      BY <1>2, <1>3, <1>7, <2>2
  <1>9. \E m \in Seq(NodesOver(chars)) : l = <<Node("text", SubSeq(head, 1, op.pos))>> \o m
    <2> DEFINE m == <<nd, nb>>
    <2>1. m \in Seq(NodesOver(chars))
      BY <1>4, ReadTwo DEF ReadsAs
    <2>2. l = <<na>> \o m
      BY <1>4, OneInFront
    <2> HIDE DEF m, l
    <2> QED
      BY <1>3, <2>1, <2>2 DEF na
  <1>10. Opened(chars, head, op, l)
    BY <1>7, <1>8, <1>9 DEF Opened
  <1> HIDE DEF l
  <1> QED
    BY <1>6, <1>10

(* A text with another one put into it. *)
LEMMA InsertionOpens ==
  ASSUME NEW chars, NEW head \in Seq(chars), head # <<>>,
         NEW op \in OperationsOver(chars), op.kind = "ti",
         op.pos + op.len <= Len(head), NEW rest \in Seq(NodesOver(chars)),
         NEW list, list = <<Node("text", head)>> \o rest
  PROVE  \E l : Annotated(list, op) = l \o rest /\ Opened(chars, head, op, l)
PROOF
  <1>1. PICK a, d, b : HeadParts(chars, head, op, a, d, b)
    BY PartsOfHead
  <1> DEFINE na == Node("text", a)
             nb == Node("text", b)
             nx == Node("i", op.text)
             nh == Node("text", head)
             x == op.text
             V == Seq(chars)
             N == NodesOver(chars)
  <1>2. op.pos \in Nat /\ op.len = 0 /\ Len(head) \in Nat /\ Len(head) > 0
    <2>1. Len(head) \in Nat /\ Len(head) > 0
      BY EmptySeq
    <2> QED
      BY <2>1 DEF OperationsOver
  <1>3. op.pos + op.len = op.pos /\ op.pos <= Len(head)
    BY <1>2
  <1>4. /\ a \in V /\ d \in V /\ b \in V /\ x \in V /\ Len(a) = op.pos /\ Len(d) = 0
        /\ a = SubSeq(head, 1, op.pos) /\ b = From(head, op.pos)
        /\ head = a \o (d \o b) /\ Edited(head, op) = a \o x \o b
    BY <1>1, <1>2, <1>3 DEF HeadParts
  <1>5. na \in N /\ nb \in N /\ nx \in N /\ nh \in N
    BY <1>1, PartNodes, NodeTyped
  <1>6. /\ PartIn(na, OldTags) = a /\ PartIn(nx, OldTags) = <<>> /\ PartIn(nb, OldTags) = b
        /\ PartIn(na, NewTags) = a /\ PartIn(nx, NewTags) = x /\ PartIn(nb, NewTags) = b
        /\ PartIn(nh, OldTags) = head /\ PartIn(nh, NewTags) = head
    BY ReadNode
  <1>7. Annotated(list, op) = InsertText(list, op.pos, x)
    BY DEF Annotated
  <1>8. Associates(V) /\ NothingAdded(V) /\ TwoMakeOne(V)
    BY ConcatLaws
  <1>9. d = <<>> /\ head = a \o b
    <2>1. d = <<>>
      BY <1>4, EmptySeq
    <2> HIDE DEF V
    <2> QED
      BY <1>4, <1>8, <2>1 DEF NothingAdded
  <1>10. CASE op.pos > 0
    <2> DEFINE l == <<na, nx, nb>>
    <2>1. op.pos \in 1 .. Len(head)
      BY <1>2, <1>3, <1>10
    <2>2. Inserts(list, op.pos, x,
            <<Node("text", SubSeq(head, 1, op.pos)), nx, Node("text", From(head, op.pos))>> \o rest)
      BY <2>1, InsertsInFirst
    <2> HIDE DEF nx
    <2>3. InsertText(list, op.pos, x) = l \o rest
      BY <1>4, <2>2 DEF Inserts
    <2> HIDE DEF na, nb, N
    <2>4. ReadsAs(chars, l, OldTags,
                  PartIn(na, OldTags) \o PartIn(nx, OldTags) \o PartIn(nb, OldTags))
      BY <1>5, ReadThree DEF N
    <2>5. ReadsAs(chars, l, NewTags,
                  PartIn(na, NewTags) \o PartIn(nx, NewTags) \o PartIn(nb, NewTags))
      BY <1>5, ReadThree DEF N
    <2>6. \E m \in Seq(N) : l = <<Node("text", SubSeq(head, 1, op.pos))>> \o m
      <3> DEFINE m == <<nx, nb>>
      <3>1. m \in Seq(N)
        BY <1>5, ReadTwo DEF ReadsAs, N
      <3>2. l = <<na>> \o m
        BY <1>5, OneInFront
      <3> HIDE DEF m, l
      <3> QED
        BY <1>4, <3>1, <3>2 DEF na
    <2> HIDE DEF l, V
    <2>7. ReadOf(l, OldTags) = head /\ ReadOf(l, NewTags) = Edited(head, op) /\ l \in Seq(N)
      <3>1. a \o <<>> \o b = a \o b
        BY <1>4, <1>8 DEF NothingAdded
      <3> QED
        BY <1>4, <1>6, <1>9, <2>4, <2>5, <3>1 DEF ReadsAs, N
    <2>8. Opened(chars, head, op, l)
      BY <2>6, <2>7 DEF Opened, N
    <2> QED
      BY <1>7, <2>3, <2>8
  <1>11. CASE op.pos = 0
    <2> DEFINE l == <<nx, nh>>
               none == <<>>
    <2>1. none \in Seq(N) /\ Len(none) = 0
      OBVIOUS
    <2>2. list \in Seq(N) /\ list = none \o <<nh>> \o rest
      <3>1. <<nh>> \in Seq(N)
        BY <1>5
      <3>2. none \o <<nh>> = <<nh>>
        BY <3>1, ConcatEmptySeq
      <3> HIDE DEF none
      <3>3. <<nh>> \o rest \in Seq(N)
        BY <3>1, ConcatProperties
      <3> QED
        BY <3>2, <3>3
    <2>3. Passed(list, Len(none) + 1) = 0
      <3>1. Len(none) + 1 = 1
        BY <2>1
      <3>2. PassedRows(list)
        BY <2>2, PassedFacts
      <3> QED
        BY <3>1, <3>2 DEF PassedRows
    <2> HIDE DEF none
    <2>4. Inserts(list, 0, x, none \o <<nx, nh>> \o rest)
      <3>1. \A m \in 1 .. Len(none) : ~Accepted(none[m])
        BY <2>1
      <3> QED
        BY <2>1, <2>2, <2>3, <3>1, InsertsInFront
    <2>5. none \o l = l
      BY DEF none
    <2>6. InsertText(list, op.pos, x) = l \o rest
      BY <1>11, <2>4, <2>5 DEF Inserts
    <2> HIDE DEF nx, nh, N
    <2>7. ReadsAs(chars, l, OldTags, PartIn(nx, OldTags) \o PartIn(nh, OldTags))
      BY <1>5, ReadTwo DEF N
    <2>8. ReadsAs(chars, l, NewTags, PartIn(nx, NewTags) \o PartIn(nh, NewTags))
      BY <1>5, ReadTwo DEF N
    <2> HIDE DEF l
    <2>9. a = <<>>
      BY <1>4, <1>11, EmptySeq
    <2> HIDE DEF V
    <2>10. ReadOf(l, OldTags) = head /\ ReadOf(l, NewTags) = Edited(head, op) /\ l \in Seq(N)
      <3>1. <<>> \o b = b /\ <<>> \o x = x
        BY <1>4, <1>8 DEF NothingAdded
      <3>2. head = b
        BY <1>9, <2>9, <3>1
      <3>3. <<>> \o head = head
        BY <1>4, <1>8, <3>2 DEF NothingAdded
      <3>4. Edited(head, op) = x \o head
        BY <1>4, <2>9, <3>1, <3>2
      <3> QED
        BY <1>6, <2>7, <2>8, <3>3, <3>4 DEF ReadsAs, N
    <2>11. Opened(chars, head, op, l)
      BY <1>11, <2>10 DEF Opened, N
    <2> QED
      BY <1>7, <2>6, <2>11
  <1>12. op.pos > 0 \/ op.pos = 0
    BY <1>2
  <1> QED
    BY <1>10, <1>11, <1>12

(* A text with a part replaced. *)
LEMMA ReplacementOpens ==
  ASSUME NEW chars, NEW head \in Seq(chars), NEW op \in OperationsOver(chars), op.kind = "tr",
         op.pos + op.len <= Len(head), NEW rest \in Seq(NodesOver(chars)),
         rest = <<>> \/ op.pos + op.len < Len(head),
         NEW list, list = <<Node("text", head)>> \o rest
  PROVE  \E l : Annotated(list, op) = l \o rest /\ Opened(chars, head, op, l)
PROOF
  <1>1. PICK a, d, b : HeadParts(chars, head, op, a, d, b)
    BY PartsOfHead
  <1> DEFINE na == Node("text", a)
             nd == Node("d", d)
             nb == Node("text", b)
             nx == Node("i", op.text)
             ne == Node("text", <<>>)
             x == op.text
             end == op.pos + op.len
             cut == RemoveText(list, op.pos, end)
             V == Seq(chars)
             N == NodesOver(chars)
  <1>2. op.pos \in Nat /\ op.len \in Nat /\ op.len > 0 /\ Len(head) \in Nat
    BY LenProperties DEF OperationsOver
  <1>3. end \in Nat /\ op.pos < end
    BY <1>2
  <1>4. /\ a \in V /\ d \in V /\ b \in V /\ x \in V
        /\ Len(a) = op.pos /\ Len(d) = op.len /\ Len(b) = Len(head) - end
        /\ a = SubSeq(head, 1, op.pos)
        /\ head = a \o (d \o b) /\ Edited(head, op) = a \o x \o b
        /\ Taken(head, op.pos, end) = <<na, nd, nb>>
    BY <1>1 DEF HeadParts, Taken
  <1>5. na \in N /\ nd \in N /\ nb \in N /\ nx \in N /\ ne \in N
    BY <1>1, PartNodes
  <1>6. /\ PartIn(na, OldTags) = a /\ PartIn(nx, OldTags) = <<>> /\ PartIn(nb, OldTags) = b
        /\ PartIn(na, NewTags) = a /\ PartIn(nx, NewTags) = x /\ PartIn(nb, NewTags) = b
        /\ PartIn(nd, OldTags) = d /\ PartIn(nd, NewTags) = <<>>
        /\ PartIn(ne, OldTags) = <<>> /\ PartIn(ne, NewTags) = <<>>
    BY ReadNode
  <1>7. cut = <<na, nd, nb>> \o rest
    <2>1. cut = Taken(head, op.pos, end) \o rest
      BY <1>2, <1>3, RemovesFromFirst
    <2> QED
      BY <1>4, <2>1
  <1> HIDE DEF cut
  <1>8. Annotated(list, op) = InsertText(cut, op.pos, x)
    BY DEF Annotated, cut
  <1>9. /\ Associates(V) /\ NothingAdded(V) /\ TwoMakeOne(V)
        /\ Associates(Seq(N)) /\ TwoMakeOne(Seq(N))
    BY ConcatLaws
  <1>10. /\ <<na, nd, nb>> = <<na>> \o <<nd, nb>> /\ <<na, nd, nb>> = <<na, nd>> \o <<nb>>
         /\ <<na>> \in Seq(N) /\ <<nb>> \in Seq(N)
         /\ <<na, nd>> \in Seq(N) /\ <<nd, nb>> \in Seq(N) /\ <<nx, nb>> \in Seq(N)
    <2> HIDE DEF na, nd, nb, nx, N
    <2>1. <<na, nd, nb>> = <<na>> \o <<nd, nb>>
      BY <1>5, OneInFront
    <2>2. <<na, nd, nb>> = <<na, nd>> \o <<nb>>
      BY <1>5, ThreeBehind
    <2>3. <<na>> \in Seq(N) /\ <<nb>> \in Seq(N)
      BY <1>5
    <2>4. <<na, nd>> \in Seq(N) /\ <<nd, nb>> \in Seq(N) /\ <<nx, nb>> \in Seq(N)
      BY <1>5
    <2> QED
      BY <2>1, <2>2, <2>3, <2>4
  <1>11. CASE op.pos > 0
    <2> DEFINE m == <<nd, nb>>
               t == <<na, nx, ne>>
               l == t \o m
               others == m \o rest
    <2>1. others \in Seq(N) /\ cut = <<na>> \o others
      <3> DEFINE one == <<na>>
      <3>1. one \in Seq(N) /\ m \in Seq(N) /\ rest \in Seq(N) /\ cut = (one \o m) \o rest
        BY <1>7, <1>10
      <3> HIDE DEF one, m, N
      <3>2. (one \o m) \o rest = one \o (m \o rest) /\ m \o rest \in Seq(N)
        BY <1>9, <3>1 DEF Associates, TwoMakeOne
      <3> QED
        BY <3>1, <3>2 DEF one
    <2> HIDE DEF others
    <2>2. op.pos \in 1 .. Len(a)
      BY <1>2, <1>4, <1>11
    <2>3. SubSeq(a, 1, op.pos) = a /\ From(a, op.pos) = <<>>
      <3>1. SubSeq(a, 1, Len(a)) = a
        BY <1>4, SubSeqFull
      <3>2. From(a, op.pos) \in Seq(chars) /\ Len(From(a, op.pos)) = Len(a) - op.pos
        <4>1. op.pos \in 0 .. Len(a)
          BY <1>2, <1>4
        <4> QED
          BY <1>4, <4>1, CutInTwo
      <3>3. Len(a) - op.pos = 0
        BY <1>2, <1>4
      <3> QED
        BY <1>4, <3>1, <3>2, <3>3, EmptySeq
    <2>4. Inserts(cut, op.pos, x,
            <<Node("text", SubSeq(a, 1, op.pos)), nx, Node("text", From(a, op.pos))>> \o others)
      BY <1>4, <2>1, <2>2, InsertsInFirst
    <2> HIDE DEF nx
    <2>5. InsertText(cut, op.pos, x) = t \o others
      BY <2>3, <2>4 DEF Inserts
    <2> HIDE DEF na, nb, nd, ne, N
    <2>6. /\ ReadsAs(chars, t, OldTags,
                     PartIn(na, OldTags) \o PartIn(nx, OldTags) \o PartIn(ne, OldTags))
          /\ ReadsAs(chars, t, NewTags,
                     PartIn(na, NewTags) \o PartIn(nx, NewTags) \o PartIn(ne, NewTags))
      BY <1>5, ReadThree DEF N
    <2>7. /\ ReadsAs(chars, m, OldTags, PartIn(nd, OldTags) \o PartIn(nb, OldTags))
          /\ ReadsAs(chars, m, NewTags, PartIn(nd, NewTags) \o PartIn(nb, NewTags))
      BY <1>5, ReadTwo DEF N
    <2>8. \E tail \in Seq(N) : t = <<na>> \o tail
      <3> DEFINE tail == <<nx, ne>>
      <3>1. tail \in Seq(N)
        BY <1>5
      <3>2. t = <<na>> \o tail
        BY <1>5, OneInFront
      <3> HIDE DEF tail, t
      <3> QED
        BY <3>1, <3>2
    <2> HIDE DEF t, m, V
    <2>9. t \in Seq(N) /\ m \in Seq(N) /\ l \in Seq(N) /\ l \o rest = t \o others
      <3>1. t \in Seq(N) /\ m \in Seq(N) /\ rest \in Seq(N)
        BY <2>6, <2>7 DEF ReadsAs, N
      <3>2. (t \o m) \o rest = t \o (m \o rest) /\ t \o m \in Seq(N)
        BY <1>9, <3>1 DEF Associates, TwoMakeOne
      <3> QED
        BY <3>1, <3>2 DEF others
    <2>10. /\ ReadOf(l, OldTags) = ReadOf(t, OldTags) \o ReadOf(m, OldTags)
           /\ ReadOf(l, NewTags) = ReadOf(t, NewTags) \o ReadOf(m, NewTags)
      <3>1. ReadsBoth(t, m, OldTags) /\ ReadsBoth(t, m, NewTags)
        BY <2>9, ReadBoth DEF N
      <3> QED
        BY <3>1 DEF ReadsBoth
    <2>11. ReadOf(l, OldTags) = head
      <3>1. ReadOf(t, OldTags) = a /\ ReadOf(m, OldTags) = d \o b
        <4>1. a \o <<>> \o <<>> = a
          BY <1>4, <1>9 DEF NothingAdded
        <4> QED
          BY <1>6, <2>6, <2>7, <4>1 DEF ReadsAs
      <3> QED
        BY <1>4, <2>10, <3>1
    <2>12. ReadOf(l, NewTags) = Edited(head, op)
      <3>1. ReadOf(t, NewTags) = a \o x /\ ReadOf(m, NewTags) = b
        <4>1. (a \o x) \o <<>> = a \o x /\ <<>> \o b = b
          BY <1>4, <1>9 DEF NothingAdded, TwoMakeOne
        <4> QED
          BY <1>6, <2>6, <2>7, <4>1 DEF ReadsAs
      <3> QED
        BY <1>4, <2>10, <3>1
    <2> HIDE DEF l
    <2>13. \E tail \in Seq(N) : l = <<Node("text", SubSeq(head, 1, op.pos))>> \o tail
      <3>1. PICK tail \in Seq(N) : t = <<na>> \o tail
        BY <2>8
      <3> DEFINE one == <<na>>
      <3>2. one \in Seq(N) /\ t = one \o tail
        BY <1>10, <3>1
      <3> HIDE DEF one
      <3>3. (one \o tail) \o m = one \o (tail \o m) /\ tail \o m \in Seq(N)
        BY <1>9, <2>9, <3>1, <3>2 DEF Associates, TwoMakeOne
      <3>4. l = one \o (tail \o m)
        BY <3>2, <3>3 DEF l
      <3> QED
        BY <1>4, <3>3, <3>4 DEF one, na
    <2>14. Opened(chars, head, op, l)
      BY <2>9, <2>11, <2>12, <2>13 DEF Opened, N
    <2>15. Annotated(list, op) = l \o rest
      BY <1>8, <2>5, <2>9
    <2> QED
      BY <2>14, <2>15
  <1>12. CASE op.pos = 0 /\ op.len < Len(head)
    <2> DEFINE t == <<na, nd>>
               m == <<nx, nb>>
               l == t \o m
    <2>1. a = <<>> /\ b # <<>>
      <3>1. a = <<>>
        BY <1>4, <1>12, EmptySeq
      <3>2. Len(b) > 0
        BY <1>2, <1>4, <1>12
      <3> QED
        BY <3>1, <3>2, EmptySeq
    <2>2. t \in Seq(N) /\ Len(t) = 2 /\ t[1] = na /\ t[2] = nd
      BY <1>10
    <2>3. ~Accepted(na) /\ ~Accepted(nd)
      BY <2>1 DEF Accepted, Node
    <2> HIDE DEF na, nd, t
    <2>4. \A i \in 1 .. Len(t) : ~Accepted(t[i])
      BY <2>2, <2>3
    <2>5. cut = t \o <<nb>> \o rest
      BY <1>7, <1>10 DEF t
    <2>6. IsAround(cut, t, nb, rest, 3, N)
      <3>1. 3 = Len(t) + 1
        BY <2>2
      <3> HIDE DEF nb, N
      <3>2. rest \in Seq(N)
        BY DEF N
      <3> QED
        BY <1>5, <2>2, <2>5, <3>1, <3>2, AroundOne
    <2>7. Passed(cut, Len(t) + 1) = 0
      <3>1. cut \in Seq(N) /\ 3 \in 1 .. Len(cut) /\ cut[1] = na /\ cut[2] = nd
        BY <2>2, <2>6 DEF IsAround
      <3>2. PassedRows(cut)
        BY <3>1, PassedFacts
      <3>3. 2 \in 2 .. Len(cut) /\ 3 \in 2 .. Len(cut) /\ 2 - 1 = 1 /\ 3 - 1 = 2
        BY <3>1
      <3>4. Passed(cut, 2) = Passed(cut, 1) /\ Passed(cut, 3) = Passed(cut, 2)
        BY <2>3, <3>1, <3>2, <3>3 DEF PassedRows
      <3>5. Len(t) + 1 = 3
        BY <2>2
      <3> QED
        BY <3>2, <3>4, <3>5 DEF PassedRows
    <2>8. Inserts(cut, 0, x, t \o <<nx, nb>> \o rest)
      BY <1>4, <2>1, <2>2, <2>4, <2>5, <2>7, InsertsInFront
    <2>9. InsertText(cut, op.pos, x) = l \o rest
      BY <1>12, <2>8 DEF Inserts
    <2> HIDE DEF nx, nb, N
    <2>10. /\ ReadsAs(chars, t, OldTags, PartIn(na, OldTags) \o PartIn(nd, OldTags))
           /\ ReadsAs(chars, t, NewTags, PartIn(na, NewTags) \o PartIn(nd, NewTags))
      BY <1>5, ReadTwo DEF N, t
    <2>11. /\ ReadsAs(chars, m, OldTags, PartIn(nx, OldTags) \o PartIn(nb, OldTags))
           /\ ReadsAs(chars, m, NewTags, PartIn(nx, NewTags) \o PartIn(nb, NewTags))
      BY <1>5, ReadTwo DEF N
    <2> HIDE DEF m, V
    <2>12. l \in Seq(N) /\ m \in Seq(N)
      BY <1>9, <2>10, <2>11 DEF ReadsAs, N, TwoMakeOne
    <2>13. /\ ReadOf(l, OldTags) = ReadOf(t, OldTags) \o ReadOf(m, OldTags)
           /\ ReadOf(l, NewTags) = ReadOf(t, NewTags) \o ReadOf(m, NewTags)
      <3>1. ReadsBoth(t, m, OldTags) /\ ReadsBoth(t, m, NewTags)
        BY <2>2, <2>12, ReadBoth DEF N
      <3> QED
        BY <3>1 DEF ReadsBoth
    <2>14. ReadOf(l, OldTags) = head
      <3>1. ReadOf(t, OldTags) = a \o d /\ ReadOf(m, OldTags) = b
        <4>1. <<>> \o b = b
          BY <1>4, <1>9 DEF NothingAdded
        <4> QED
          BY <1>6, <2>10, <2>11, <4>1 DEF ReadsAs
      <3>2. (a \o d) \o b = a \o (d \o b)
        BY <1>4, <1>9 DEF Associates
      <3> QED
        BY <1>4, <2>13, <3>1, <3>2
    <2>15. ReadOf(l, NewTags) = Edited(head, op)
      <3>1. ReadOf(t, NewTags) = a /\ ReadOf(m, NewTags) = x \o b
        <4>1. a \o <<>> = a
          BY <1>4, <1>9 DEF NothingAdded
        <4> QED
          BY <1>6, <2>10, <2>11, <4>1 DEF ReadsAs
      <3>2. (a \o x) \o b = a \o (x \o b)
        BY <1>4, <1>9 DEF Associates
      <3> QED
        BY <1>4, <2>13, <3>1, <3>2
    <2> HIDE DEF l
    <2>16. Opened(chars, head, op, l)
      BY <1>12, <2>12, <2>14, <2>15 DEF Opened, N
    <2>17. Annotated(list, op) = l \o rest
      BY <1>8, <2>9
    <2> QED
      BY <2>16, <2>17
  <1>13. CASE op.pos = 0 /\ op.len >= Len(head)
    <2> DEFINE l == <<na, nd, nb>>
    <2>1. end = Len(head) /\ rest = <<>> /\ Len(a) = 0 /\ Len(b) = 0
      BY <1>2, <1>4, <1>13
    <2>2. a = <<>> /\ b = <<>>
      BY <1>4, <2>1, EmptySeq
    <2>3. /\ l[1] = na /\ l[2] = nd /\ l[3] = nb /\ l \in Seq(N) /\ DOMAIN l = 1 .. 3
      BY <1>5
    <2>4. ~Accepted(na) /\ ~Accepted(nd) /\ ~Accepted(nb)
      BY <2>2 DEF Accepted, Node
    <2> HIDE DEF N
    <2>5. ReadsAs(chars, l, OldTags,
                  PartIn(na, OldTags) \o PartIn(nd, OldTags) \o PartIn(nb, OldTags))
      <3> HIDE DEF na, nd, nb
      <3> QED
        BY <1>5, ReadThree DEF N
    <2> HIDE DEF l, na, nd, nb
    <2>6. cut = l /\ l \o rest = l
      <3>1. l \o <<>> = l
        BY <2>3, ConcatEmptySeq
      <3> QED
        BY <1>7, <2>1, <3>1 DEF l
    <2>7. \A n \in DOMAIN cut : ~Reaches(cut, n, op.pos)
      BY <2>3, <2>4, <2>6 DEF Reaches
    <2>8. InsertText(cut, op.pos, x) = cut
      <3>1. {n \in DOMAIN cut : Reaches(cut, n, op.pos)} = {}
        BY <2>7
      <3> QED
        BY <3>1 DEF InsertText
    <2>9. ReadOf(l, OldTags) = head
      <3>1. (a \o d) \o b = a \o (d \o b)
        <4> HIDE DEF V
        <4> QED
          BY <1>4, <1>9 DEF Associates
      <3> QED
        BY <1>4, <1>6, <2>5, <3>1 DEF ReadsAs
    <2>10. Opened(chars, head, op, l)
      <3>1. ~(op.len < Len(head)) /\ ~(op.pos > 0)
        BY <1>2, <1>13
      <3> QED
        BY <2>3, <2>9, <3>1 DEF Opened, N
    <2>11. Annotated(list, op) = l \o rest
      BY <1>8, <2>6, <2>8
    <2> QED
      BY <2>10, <2>11
  <1>14. op.pos > 0 \/ (op.pos = 0 /\ op.len < Len(head)) \/ (op.pos = 0 /\ op.len >= Len(head))
    BY <1>2
  <1> QED
    BY <1>11, <1>12, <1>13, <1>14

(***************************************************************************)
(* An operation that touches the first text only opens this one and leaves *)
(* what is behind it.                                                      *)
(***************************************************************************)
LEMMA AnnotatedOpens ==
  ASSUME NEW chars, NEW head \in Seq(chars), head # <<>>, NEW op \in OperationsOver(chars),
         op.pos + op.len <= Len(head), NEW rest \in Seq(NodesOver(chars)),
         rest = <<>> \/ op.pos + op.len < Len(head),
         NEW list, list = <<Node("text", head)>> \o rest
  PROVE  \E l : Annotated(list, op) = l \o rest /\ Opened(chars, head, op, l)
PROOF
  <1>1. op.kind \in {"td", "ti", "tr"}
    BY DEF OperationsOver
  <1> QED
    BY <1>1, DeletionOpens, InsertionOpens, ReplacementOpens

-----------------------------------------------------------------------------
(* Of two sequences behind each other the places tell which is which. *)
IsCutAt(s, n, u, v) == SubSeq(s, 1, n) = u /\ From(s, n) = v

(* Where the first one ends. *)
LEMMA CutBetween ==
  ASSUME NEW S, NEW u \in Seq(S), NEW v \in Seq(S), NEW n, n = Len(u)
  PROVE  IsCutAt(u \o v, n, u, v)
PROOF
  <1> DEFINE s == u \o v
             p == SubSeq(s, 1, n)
             q == From(s, n)
  <1>1. IsJoined(s, u, v, S)
    BY Joined
  <1>2. Len(u) \in Nat /\ Len(v) \in Nat
    BY LenProperties
  <1> HIDE DEF s
  <1>3. /\ s \in Seq(S) /\ Len(s) = n + Len(v) /\ n \in Nat
        /\ \A i \in 1 .. n : s[i] = u[i]
        /\ \A i \in 1 .. Len(v) : s[n + i] = v[i]
    BY <1>1, <1>2 DEF IsJoined
  <1>4. p = u
    <2>1. 1 \in 1 .. (Len(s) + 1) /\ n \in (1 - 1) .. Len(s) /\ (n + 1) - 1 = n
      BY <1>2, <1>3
    <2>2. /\ p \in Seq(S) /\ Len(p) = (n + 1) - 1
          /\ \A i \in 1 .. ((n + 1) - 1) : p[i] = s[(1 - 1) + i]
      BY <1>3, <2>1, PartOf
    <2> HIDE DEF p
    <2>3. \A i \in 1 .. Len(p) : p[i] = u[i]
      BY <1>3, <2>1, <2>2
    <2> QED
      BY <2>1, <2>2, <2>3, SeqEqual
  <1>5. q = v
    <2> DEFINE e1 == n + 1
               t == SubSeq(s, e1, Len(s))
    <2>1. /\ e1 \in 1 .. (Len(s) + 1) /\ Len(s) \in (e1 - 1) .. Len(s)
          /\ (Len(s) + 1) - e1 = Len(v) /\ e1 - 1 = n
      BY <1>2, <1>3
    <2> HIDE DEF e1
    <2>2. /\ t \in Seq(S) /\ Len(t) = (Len(s) + 1) - e1
          /\ \A i \in 1 .. ((Len(s) + 1) - e1) : t[i] = s[(e1 - 1) + i]
      BY <1>3, <2>1, PartOf
    <2> HIDE DEF t
    <2>3. \A i \in 1 .. Len(t) : t[i] = v[i]
      BY <1>3, <2>1, <2>2
    <2>4. t = v
      BY <2>1, <2>2, <2>3, SeqEqual
    <2> QED
      BY <2>4 DEF t, e1, From
  <1> QED
    BY <1>4, <1>5 DEF IsCutAt, s

(* An operation within the first part of a text leaves the second part. *)
LEMMA EditedInFront ==
  ASSUME NEW chars, NEW head \in Seq(chars), NEW rest \in Seq(chars),
         NEW op \in OperationsOver(chars), op.pos + op.len <= Len(head),
         NEW text, text = head \o rest
  PROVE  Edited(text, op) = Edited(head, op) \o rest
PROOF
  <1>1. PICK a, d, b : HeadParts(chars, head, op, a, d, b)
    BY PartsOfHead
  <1> DEFINE x == op.text
             V == Seq(chars)
             end == op.pos + op.len
             ad == a \o d
             br == b \o rest
             dbr == (d \o b) \o rest
  <1>2. /\ a \in V /\ d \in V /\ b \in V /\ x \in V /\ rest \in V
        /\ Len(a) = op.pos /\ Len(d) = op.len
        /\ head = a \o (d \o b) /\ Edited(head, op) = a \o x \o b
    BY <1>1 DEF HeadParts
  <1>3. Associates(V) /\ TwoMakeOne(V)
    BY ConcatLaws
  <1>4. ad \in V /\ Len(ad) = end
    <2>1. IsJoined(a \o d, a, d, chars)
      BY <1>2, Joined
    <2>2. a \o d \in V /\ Len(a \o d) = Len(a) + Len(d)
      BY <2>1 DEF IsJoined
    <2> QED
      BY <1>2, <2>2
  <1> HIDE DEF V
  <1>5. br \in V /\ dbr \in V
    BY <1>2, <1>3 DEF TwoMakeOne
  <1>6. text = a \o dbr /\ text = ad \o br
    <2>1. d \o b \in V /\ a \o d \in V
      BY <1>2, <1>3 DEF TwoMakeOne
    <2>2. (a \o (d \o b)) \o rest = a \o ((d \o b) \o rest)
      BY <1>2, <1>3, <2>1 DEF Associates
    <2>3. (a \o d) \o b = a \o (d \o b)
      BY <1>2, <1>3 DEF Associates
    <2>4. ((a \o d) \o b) \o rest = (a \o d) \o (b \o rest)
      BY <1>2, <1>3, <2>1 DEF Associates
    <2> QED
      BY <1>2, <2>2, <2>3, <2>4
  <1>7. (a \o x \o b) \o rest = a \o x \o br
    <2> DEFINE ax == a \o x
    <2>1. ax \in V
      BY <1>2, <1>3 DEF TwoMakeOne
    <2> HIDE DEF ax
    <2>2. (ax \o b) \o rest = ax \o (b \o rest)
      BY <1>2, <1>3, <2>1 DEF Associates
    <2> QED
      BY <2>2 DEF ax
  <1> HIDE DEF ad, br, dbr, end
  <1>8. SubSeq(text, 1, op.pos) = a
    <2>1. IsCutAt(a \o dbr, op.pos, a, dbr)
      BY <1>2, <1>5, CutBetween DEF V
    <2> QED
      BY <1>6, <2>1 DEF IsCutAt
  <1>9. From(text, end) = br
    <2>1. IsCutAt(ad \o br, end, ad, br)
      BY <1>4, <1>5, CutBetween DEF V
    <2> QED
      BY <1>6, <2>1 DEF IsCutAt
  <1>10. Edited(text, op) = a \o x \o br
    BY <1>8, <1>9 DEF Edited, end
  <1> QED
    BY <1>2, <1>7, <1>10

(* Up to where the old text is one node when m operations are still to do. *)
UpTo(x, operations, m) == IF m = Len(operations) THEN Len(x) ELSE operations[m + 1].pos

(***************************************************************************)
(* The nodes when m operations are still to do.  All of the old text can   *)
(* be read from them, and the text in front of the operations already      *)
(* done is the first node.  What is new is there unless one operation      *)
(* takes all of the old text away.                                         *)
(***************************************************************************)
Marked(chars, x, y, operations, f, m, list) ==
  /\ list \in Seq(NodesOver(chars))
  /\ ReadOf(list, OldTags) = x
  /\ (\A n \in DOMAIN operations : operations[n].len < Len(x)) =>
       Restored(x, y, operations, f, m, ReadOf(list, NewTags))
  /\ m > 0 =>
       \E rest \in Seq(NodesOver(chars)) :
         /\ list = <<Node("text", SubSeq(x, 1, UpTo(x, operations, m)))>> \o rest
         /\ m = Len(operations) => rest = <<>>

(* What is known of the operation numbered m. *)
LEMMA OperationInFront ==
  ASSUME NEW chars, NEW x \in Seq(chars), NEW y \in Seq(chars), x # <<>>,
         NEW operations \in Seq(OperationsOver(chars)), NEW f, NEW m \in 1 .. Len(operations),
         Aligned(x, y, operations, f, Len(x), Len(y)), NEW op, op = operations[m],
         NEW e, e = UpTo(x, operations, m)
  PROVE  /\ op \in OperationsOver(chars)
         /\ e \in 0 .. Len(x) /\ e > 0 /\ op.pos + op.len <= e
         /\ m # Len(operations) => op.pos + op.len < e
         /\ m > 1 => op.pos > 0
PROOF
  <1>1. Len(operations) \in Nat /\ Len(x) \in Nat /\ Len(x) > 0
    BY EmptySeq, LenProperties
  <1>2. \A n \in 1 .. Len(operations) : /\ operations[n] \in OperationsOver(chars)
                                        /\ operations[n].pos \in Nat /\ operations[n].len \in Nat
                                        /\ Fits(x, y, operations, f, n)
    <2>1. \A n \in 1 .. Len(operations) : operations[n] \in OperationsOver(chars)
      BY ElementOfSeq
    <2> QED
      BY <2>1 DEF OperationsOver, Aligned
  <1>3. \A n \in 1 .. Len(operations) :
          /\ operations[n].pos + operations[n].len <= Len(x)
          /\ n > 1 => EndOf(operations, n - 1) < operations[n].pos
    BY <1>2 DEF Fits, EndOf
  <1>4. /\ op \in OperationsOver(chars) /\ op.pos \in Nat
        /\ op.len \in Nat /\ op.pos + op.len <= Len(x)
    BY <1>2, <1>3
  <1>5. m > 1 => op.pos > 0
    <2>1. ASSUME m > 1
          PROVE  op.pos > 0
      <3>1. m - 1 \in 0 .. Len(operations)
        BY <1>1, <2>1
      <3>2. EndOf(operations, m - 1) \in Nat
        BY <3>1, EndOfNumber
      <3>3. EndOf(operations, m - 1) < op.pos
        BY <1>3, <2>1
      <3> QED
        BY <1>4, <3>2, <3>3
    <2> QED
      BY <2>1
  <1>6. CASE m = Len(operations)
    <2>1. e = Len(x)
      BY <1>6 DEF UpTo
    <2> QED
      BY <1>1, <1>4, <1>5, <1>6, <2>1
  <1>7. CASE m # Len(operations)
    <2> DEFINE n == m + 1
    <2>1. n \in 1 .. Len(operations) /\ n > 1 /\ n - 1 = m /\ m # 0
      BY <1>1, <1>7
    <2>2. e = operations[n].pos
      BY <1>7 DEF UpTo
    <2> HIDE DEF n
    <2>3. EndOf(operations, m) = op.pos + op.len
      BY <2>1 DEF EndOf
    <2>4. op.pos + op.len < e
      BY <1>3, <2>1, <2>2, <2>3
    <2>5. e \in Nat /\ operations[n].len \in Nat /\ e + operations[n].len <= Len(x)
      BY <1>2, <1>3, <2>1, <2>2
    <2> QED
      BY <1>1, <1>4, <1>5, <2>4, <2>5
  <1> QED
    BY <1>6, <1>7

(* The operation numbered m is done: there is one less to do. *)
LEMMA MarkedNext ==
  ASSUME NEW chars, NEW x \in Seq(chars), NEW y \in Seq(chars), x # <<>>,
         NEW operations \in Seq(OperationsOver(chars)), NEW f, NEW m \in 1 .. Len(operations),
         Aligned(x, y, operations, f, Len(x), Len(y)), NEW list,
         Marked(chars, x, y, operations, f, m, list), NEW l, l = m - 1
  PROVE  Marked(chars, x, y, operations, f, l, Annotated(list, operations[m]))
PROOF
  <1> DEFINE op == operations[m]
             e == UpTo(x, operations, m)
             head == SubSeq(x, 1, e)
             N == NodesOver(chars)
             V == Seq(chars)
             next == Annotated(list, op)
  <1>1. /\ op \in OperationsOver(chars)
        /\ e \in 0 .. Len(x) /\ e > 0 /\ op.pos + op.len <= e
        /\ m # Len(operations) => op.pos + op.len < e
        /\ m > 1 => op.pos > 0
    BY OperationInFront
  <1>2. /\ Len(operations) \in Nat /\ Len(x) \in Nat
        /\ m > 0 /\ DOMAIN operations = 1 .. Len(operations)
    BY LenProperties
  <1>3. op.pos \in Nat /\ op.len \in Nat /\ op.text \in V
    BY <1>1 DEF OperationsOver
  <1> HIDE DEF op, e
  <1>4. op.pos \in 0 .. e /\ op.pos \in 0 .. Len(x) /\ e \in Nat /\ e <= Len(x)
    <2>1. op.pos \in Nat /\ op.len \in Nat /\ op.pos + op.len <= e
      BY <1>1, <1>3
    <2>2. e \in Nat /\ e <= Len(x) /\ Len(x) \in Nat
      <3>1. e \in 0 .. Len(x)
        BY <1>1
      <3>2. Len(x) \in Nat
        BY <1>2
      <3> QED
        BY <3>1, <3>2
    <2> DEFINE p == op.pos
               q == op.len
    <2>3. p \in Nat /\ q \in Nat /\ p + q <= e
      BY <2>1
    <2> HIDE DEF p, q
    <2>4. p \in 0 .. e /\ p \in 0 .. Len(x)
      BY <2>2, <2>3
    <2> QED
      BY <2>2, <2>4 DEF p
  <1>5. head \in V /\ Len(head) = e /\ head # <<>>
    <2>1. head \in V /\ Len(head) = e
      BY <1>1, CutInTwo
    <2> QED
      BY <1>1, <2>1, EmptySeq
  <1>6. PICK rest \in Seq(N) : /\ list = <<Node("text", head)>> \o rest
                               /\ m = Len(operations) => rest = <<>>
    BY <1>2 DEF Marked, e
  <1> DEFINE one == <<Node("text", head)>>
             kept == ReadOf(rest, OldTags)
             now == ReadOf(rest, NewTags)
             text == ReadOf(list, NewTags)
  <1> HIDE DEF head
  <1>7. PICK o : next = o \o rest /\ Opened(chars, head, op, o)
    <2>1. rest = <<>> \/ op.pos + op.len < Len(head)
      BY <1>1, <1>5, <1>6
    <2>2. op.pos + op.len <= Len(head)
      BY <1>1, <1>5
    <2> QED
      BY <1>1, <1>5, <1>6, <2>1, <2>2, AnnotatedOpens
  <1>8. /\ one \in Seq(N) /\ ReadOf(one, OldTags) = head /\ ReadOf(one, NewTags) = head
    <2>1. Node("text", head) \in N
      BY <1>5, NodeTyped
    <2>2. one \in Seq(N)
      BY <2>1
    <2>3. /\ ReadOf(one, OldTags) = PartIn(Node("text", head), OldTags)
          /\ ReadOf(one, NewTags) = PartIn(Node("text", head), NewTags)
      BY <2>1, ReadOne
    <2> QED
      BY <2>2, <2>3, ReadNode
  <1> HIDE DEF one, next
  <1>9. /\ ReadOf(list, OldTags) = head \o kept /\ text = head \o now
        /\ kept \in V /\ now \in V
    <2>1. ReadsBoth(one, rest, OldTags) /\ ReadsBoth(one, rest, NewTags)
      BY <1>8, ReadBoth
    <2>2. kept \in V /\ now \in V
      BY ReadTyped
    <2> QED
      BY <1>6, <1>8, <2>1, <2>2 DEF ReadsBoth, one
  <1>10. o \in Seq(N) /\ ReadOf(o, OldTags) = head
    BY <1>7 DEF Opened
  <1>11. /\ ReadOf(next, OldTags) = head \o kept
         /\ ReadOf(next, NewTags) = ReadOf(o, NewTags) \o now
    <2>1. ReadsBoth(o, rest, OldTags) /\ ReadsBoth(o, rest, NewTags)
      BY <1>10, ReadBoth
    <2> QED
      BY <1>7, <1>10, <2>1 DEF ReadsBoth
  <1>12. next \in Seq(N)
    <2> HIDE DEF N
    <2> QED
      BY <1>6, <1>7, <1>10, ConcatProperties
  <1>13. ReadOf(next, OldTags) = x
    BY <1>9, <1>11 DEF Marked
  <1>14. ASSUME \A n \in DOMAIN operations : operations[n].len < Len(x)
         PROVE  Restored(x, y, operations, f, l, ReadOf(next, NewTags))
    <2>1. op.len < Len(head)
      <3>1. CASE m = Len(operations)
        <4>1. e = Len(x)
          BY <3>1 DEF e, UpTo
        <4>2. op.len < Len(x)
          BY <1>2, <1>14 DEF op
        <4> QED
          BY <1>5, <4>1, <4>2
      <3>2. CASE m # Len(operations)
        BY <1>1, <1>3, <1>5, <3>2
      <3> QED
        BY <3>1, <3>2
    <2>2. ReadOf(o, NewTags) = Edited(head, op)
      BY <1>7, <2>1 DEF Opened
    <2>3. Edited(text, op) = Edited(head, op) \o now
      <3>1. op.pos + op.len <= Len(head)
        BY <1>1, <1>5
      <3>2. head \in Seq(chars) /\ now \in Seq(chars) /\ text = head \o now
        BY <1>5, <1>9
      <3> HIDE DEF text, now
      <3> QED
        BY <1>1, <3>1, <3>2, EditedInFront
    <2>4. ReadOf(next, NewTags) = Edited(text, op)
      BY <1>11, <2>2, <2>3
    <2>5. Restored(x, y, operations, f, m, text)
      BY <1>14 DEF Marked
    <2>6. text \in V
      <3>1. list \in Seq(N)
        BY DEF Marked
      <3> QED
        BY <3>1, ReadTyped
    <2> HIDE DEF text
    <2>7. Reached(chars, x, y, operations, f, m, text)
      BY <2>5, <2>6 DEF Reached
    <2>8. Restored(x, y, operations, f, l, Edited(text, op))
      BY <2>7, EditedFromTheEnd DEF op
    <2> QED
      BY <2>4, <2>8
  <1>15. ASSUME l > 0
         PROVE  \E others \in Seq(N) :
                  /\ next = <<Node("text", SubSeq(x, 1, UpTo(x, operations, l)))>> \o others
                  /\ l = Len(operations) => others = <<>>
    <2>1. m > 1 /\ l # Len(operations) /\ l + 1 = m
      BY <1>2, <1>15
    <2>2. UpTo(x, operations, l) = op.pos /\ op.pos > 0
      BY <1>1, <2>1 DEF UpTo, op
    <2>3. PICK tail \in Seq(N) : o = <<Node("text", SubSeq(head, 1, op.pos))>> \o tail
      BY <1>7, <2>2 DEF Opened
    <2>4. SubSeq(head, 1, op.pos) = SubSeq(x, 1, op.pos)
      <3>1. /\ 1 \in 1 .. Len(x) /\ e \in 1 .. Len(x)
            /\ 1 \in 1 .. (e - 1 + 1) /\ op.pos \in 1 .. (e - 1 + 1)
            /\ 1 + 1 - 1 = 1 /\ 1 + op.pos - 1 = op.pos
        <4>1. op.pos \in Nat /\ op.pos > 0 /\ op.pos <= e /\ e \in Nat /\ e <= Len(x)
          BY <1>4, <2>2
        <4> QED
          BY <1>2, <4>1
      <3>2. SubSeq(SubSeq(x, 1, e), 1, op.pos) = SubSeq(x, 1 + 1 - 1, 1 + op.pos - 1)
        <4>1. SubSeq(x, 1, e) \in Seq(chars)
          BY <1>5 DEF head
        <4> QED
          BY <3>1, <4>1, SubSeqOfSubSeq
      <3> QED
        BY <3>1, <3>2 DEF head
    <2> DEFINE first == Node("text", SubSeq(x, 1, op.pos))
               alone == <<first>>
    <2>5. alone \in Seq(N)
      <3>1. SubSeq(x, 1, op.pos) \in V
        BY <1>4, CutInTwo
      <3>2. first \in N
        BY <3>1, NodeTyped
      <3> QED
        BY <3>2
    <2>6. o = alone \o tail
      BY <2>3, <2>4
    <2> HIDE DEF alone
    <2>7. Associates(Seq(N)) /\ TwoMakeOne(Seq(N))
      BY ConcatLaws
    <2> HIDE DEF N
    <2>8. next = alone \o (tail \o rest) /\ tail \o rest \in Seq(N)
      <3>1. tail \in Seq(N) /\ rest \in Seq(N)
        BY <1>6, <2>3
      <3>2. (alone \o tail) \o rest = alone \o (tail \o rest)
        BY <2>5, <2>7, <3>1 DEF Associates
      <3>3. tail \o rest \in Seq(N)
        BY <2>7, <3>1 DEF TwoMakeOne
      <3> QED
        BY <1>7, <2>6, <3>2, <3>3
    <2> QED
      BY <2>1, <2>2, <2>8 DEF alone
  <1>16. Marked(chars, x, y, operations, f, l, next)
    BY <1>12, <1>13, <1>14, <1>15 DEF Marked
  <1> QED
    BY <1>16 DEF next, op

(* Before the first operation is done the text is one node. *)
LEMMA MarkedFirst ==
  ASSUME NEW chars, NEW x \in Seq(chars), NEW y \in Seq(chars),
         NEW operations \in Seq(OperationsOver(chars)), NEW f, NEW m, m = Len(operations),
         Aligned(x, y, operations, f, Len(x), Len(y)),
         NEW list, list = <<Node("text", x)>>
  PROVE  Marked(chars, x, y, operations, f, m, list)
PROOF
  <1> DEFINE N == NodesOver(chars)
             node == Node("text", x)
  <1>1. node \in N /\ list = <<node>>
    BY NodeTyped
  <1>2. list \in Seq(N) /\ ReadOf(list, OldTags) = x /\ ReadOf(list, NewTags) = x
    <2>1. /\ ReadOf(<<node>>, OldTags) = PartIn(node, OldTags)
          /\ ReadOf(<<node>>, NewTags) = PartIn(node, NewTags)
      BY <1>1, ReadOne
    <2>2. <<node>> \in Seq(N)
      BY <1>1
    <2> QED
      BY <1>1, <2>1, <2>2, ReadNode
  <1>3. Restored(x, y, operations, f, m, x)
    BY AllRestored
  <1>4. SubSeq(x, 1, UpTo(x, operations, m)) = x
    BY SubSeqFull DEF UpTo
  <1>5. list = <<Node("text", SubSeq(x, 1, UpTo(x, operations, m)))>> \o <<>> /\ <<>> \in Seq(N)
    <2>1. list \o <<>> = list
      BY <1>2, ConcatEmptySeq
    <2>2. <<>> \in Seq(N)
      OBVIOUS
    <2>3. list = <<Node("text", SubSeq(x, 1, UpTo(x, operations, m)))>>
      BY <1>1, <1>4
    <2> QED
      BY <2>1, <2>2, <2>3
  <1> HIDE DEF N
  <1> QED
    BY <1>2, <1>3, <1>5 DEF Marked, N

-----------------------------------------------------------------------------
(* The nodes behind a place are the next one and those behind it. *)
LEMMA NextBehind ==
  ASSUME NEW S, NEW s \in Seq(S), NEW n \in 1 .. Len(s), NEW m, m = n - 1
  PROVE  From(s, m) = <<s[n]>> \o From(s, n)
PROOF
  <1>1. Len(s) \in Nat /\ m + 1 = n /\ Len(s) \in n .. Len(s)
    BY LenProperties
  <1>2. SubSeq(s, n, Len(s)) = <<s[n]>> \o SubSeq(s, n + 1, Len(s))
    BY <1>1, SubSeqRecursiveFirst
  <1> QED
    BY <1>1, <1>2 DEF From

(* The text read from there is what is in that node and behind it. *)
ReadsNext(list, n, m, tags) ==
  ReadOf(From(list, m), tags) = PartIn(list[n], tags) \o ReadOf(From(list, n), tags)

(* That is so at every node. *)
LEMMA ReadNext ==
  ASSUME NEW chars, NEW list \in Seq(NodesOver(chars)), NEW n \in 1 .. Len(list), NEW m, m = n - 1,
         NEW tags
  PROVE  ReadsNext(list, n, m, tags)
PROOF
  <1> DEFINE N == NodesOver(chars)
             node == list[n]
             one == <<node>>
             behind == From(list, n)
  <1>1. Len(list) \in Nat
    BY LenProperties
  <1>2. n \in 0 .. Len(list)
    BY <1>1
  <1>3. behind \in Seq(N)
    BY <1>2, CutInTwo
  <1>4. node \in N
    BY ElementOfSeq
  <1>5. From(list, m) = one \o behind
    BY NextBehind
  <1> HIDE DEF node, behind
  <1>6. one \in Seq(N) /\ ReadOf(one, tags) = PartIn(node, tags)
    <2>1. one \in Seq(N)
      BY <1>4
    <2> QED
      BY <1>4, <2>1, ReadOne
  <1> HIDE DEF one
  <1>7. ReadsBoth(one, behind, tags)
    BY <1>3, <1>6, ReadBoth
  <1> QED
    BY <1>5, <1>6, <1>7 DEF ReadsBoth, ReadsNext, node, behind

(* What is read up to a place, and behind it. *)
ReadsInTwo(list, n, tags) ==
  ReadOf(list, tags) = ReadOf(SubSeq(list, 1, n), tags) \o ReadOf(From(list, n), tags)

(* That is so at every place. *)
LEMMA ReadInTwo ==
  ASSUME NEW chars, NEW list \in Seq(NodesOver(chars)), NEW n \in 0 .. Len(list), NEW tags
  PROVE  ReadsInTwo(list, n, tags)
PROOF
  <1> DEFINE N == NodesOver(chars)
             p == SubSeq(list, 1, n)
             q == From(list, n)
  <1>1. p \in Seq(N) /\ q \in Seq(N) /\ p \o q = list
    BY CutInTwo
  <1> HIDE DEF p, q
  <1>2. ReadsBoth(p, q, tags)
    BY <1>1, ReadBoth
  <1> QED
    BY <1>1, <1>2 DEF ReadsBoth, ReadsInTwo, p, q

(* The children next have the old and the new text that list has. *)
SameReading(chars, list, next) ==
  /\ next \in Seq(NodesOver(chars))
  /\ ReadOf(next, OldTags) = ReadOf(list, OldTags)
  /\ ReadOf(next, NewTags) = ReadOf(list, NewTags)

(* What three nodes are merged into is read as they are. *)
LEMMA MergedNodes ==
  ASSUME NEW chars, NEW a \in NodesOver(chars), NEW b \in NodesOver(chars),
         NEW c \in NodesOver(chars), IsElement(a), ~IsElement(b), IsElement(c),
         NEW tags \in {OldTags, NewTags}
  PROVE  /\ ReadsAs(chars, MergeNodes(a, b, c), tags,
                    PartIn(a, tags) \o PartIn(b, tags) \o PartIn(c, tags))
         /\ Len(MergeNodes(a, b, c)) = 2
PROOF
  <1> DEFINE V == Seq(chars)
             gone == Part(a, "d") \o b.text \o Part(c, "d")
             come == Part(a, "i") \o b.text \o Part(c, "i")
             nd == Node("d", gone)
             ni == Node("i", come)
  <1>1. /\ a.tag \in {"d", "i"} /\ c.tag \in {"d", "i"} /\ b.tag = "text"
        /\ a.text \in V /\ b.text \in V /\ c.text \in V /\ <<>> \in V
    BY DEF NodesOver, IsElement
  <1>2. NothingAdded(V) /\ TwoMakeOne(V)
    BY ConcatLaws
  <1> HIDE DEF V
  <1>3. /\ Part(a, "d") \in V /\ Part(c, "d") \in V /\ Part(a, "i") \in V /\ Part(c, "i") \in V
    BY <1>1 DEF Part
  <1>4. gone \in V /\ come \in V
    BY <1>1, <1>2, <1>3 DEF TwoMakeOne
  <1> HIDE DEF gone, come
  <1>5. nd \in NodesOver(chars) /\ ni \in NodesOver(chars)
    BY <1>4, NodeTyped DEF V
  <1>6. MergeNodes(a, b, c) = <<nd, ni>>
    BY DEF MergeNodes, gone, come
  <1>7. /\ PartIn(nd, OldTags) = gone /\ PartIn(ni, OldTags) = <<>>
        /\ PartIn(nd, NewTags) = <<>> /\ PartIn(ni, NewTags) = come
    BY ReadNode
  <1> HIDE DEF nd, ni
  <1>8. ReadsAs(chars, <<nd, ni>>, tags, PartIn(nd, tags) \o PartIn(ni, tags))
    BY <1>5, ReadTwo
  <1>9. CASE tags = OldTags
    <2>1. /\ PartIn(a, tags) = Part(a, "d") /\ PartIn(c, tags) = Part(c, "d")
          /\ PartIn(b, tags) = b.text
      BY <1>1, <1>9 DEF PartIn, Part, OldTags
    <2>2. PartIn(nd, tags) \o PartIn(ni, tags) = gone
      BY <1>2, <1>4, <1>7, <1>9 DEF NothingAdded
    <2> QED
      BY <1>6, <1>8, <2>1, <2>2 DEF gone
  <1>10. CASE tags = NewTags
    <2>1. /\ PartIn(a, tags) = Part(a, "i") /\ PartIn(c, tags) = Part(c, "i")
          /\ PartIn(b, tags) = b.text
      BY <1>1, <1>10 DEF PartIn, Part, NewTags
    <2>2. PartIn(nd, tags) \o PartIn(ni, tags) = come
      BY <1>2, <1>4, <1>7, <1>10 DEF NothingAdded
    <2> QED
      BY <1>6, <1>8, <2>1, <2>2 DEF come
  <1> QED
    BY <1>6, <1>9, <1>10

(* The first loop of complete changes nothing of what is read. *)
LEMMA MergeReads ==
  ASSUME NEW chars, NEW list \in Seq(NodesOver(chars)), NEW n \in Nat \ {0}, n + 2 <= Len(list),
         IsElement(list[n]), ~IsElement(list[n + 1]), IsElement(list[n + 2]),
         NEW next, next = SubSeq(list, 1, n - 1) \o MergeNodes(list[n], list[n + 1], list[n + 2])
                          \o From(list, n + 2)
  PROVE  SameReading(chars, list, next) /\ Len(next) = Len(list) - 1
PROOF
  <1> DEFINE N == NodesOver(chars)
             a == list[n]
             b == list[n + 1]
             c == list[n + 2]
             p == SubSeq(list, 1, n - 1)
             q == From(list, n + 2)
             merged == MergeNodes(a, b, c)
  <1>1. Len(list) \in Nat /\ n \in Nat /\ n > 0
    BY LenProperties
  <1>2. /\ n \in 1 .. Len(list) /\ n + 1 \in 1 .. Len(list) /\ n + 2 \in 1 .. Len(list)
        /\ n - 1 \in 0 .. Len(list) /\ n + 2 \in 0 .. Len(list)
        /\ (n + 1) - 1 = n /\ (n + 2) - 1 = n + 1
    BY <1>1
  <1>3. a \in N /\ b \in N /\ c \in N
    BY <1>2, ElementOfSeq
  <1>4. p \in Seq(N) /\ Len(p) = n - 1 /\ q \in Seq(N) /\ Len(q) = Len(list) - (n + 2)
    BY <1>2, CutInTwo
  <1>5. merged \in Seq(N) /\ Len(merged) = 2
    <2>1. OldTags \in {OldTags, NewTags}
      OBVIOUS
    <2>2. ReadsAs(chars, merged, OldTags,
                  PartIn(a, OldTags) \o PartIn(b, OldTags) \o PartIn(c, OldTags))
      BY <1>3, <2>1, MergedNodes
    <2>3. Len(merged) = 2
      BY <1>3, <2>1, MergedNodes
    <2> QED
      BY <2>2, <2>3 DEF ReadsAs
  <1> DEFINE pm == p \o merged
  <1>6. next = pm \o q
    OBVIOUS
  <1>7. IsJoined(pm, p, merged, N)
    <2> HIDE DEF p, merged
    <2> QED
      BY <1>4, <1>5, Joined
  <1> HIDE DEF pm
  <1>8. pm \in Seq(N) /\ Len(pm) = (n - 1) + 2
    BY <1>4, <1>5, <1>7 DEF IsJoined
  <1>9. next \in Seq(N) /\ Len(next) = Len(list) - 1
    <2>1. IsJoined(pm \o q, pm, q, N)
      <3> HIDE DEF q
      <3> QED
        BY <1>4, <1>8, Joined
    <2>2. next \in Seq(N) /\ Len(next) = Len(pm) + Len(q)
      BY <1>6, <2>1 DEF IsJoined
    <2>3. Len(pm) = (n - 1) + 2 /\ Len(q) = Len(list) - (n + 2) /\ n \in Nat /\ Len(list) \in Nat
      BY <1>1, <1>4, <1>8
    <2> HIDE DEF pm, q
    <2>4. Len(next) = Len(list) - 1
      <3> DEFINE size == Len(next)
      <3>1. size = Len(pm) + Len(q)
        BY <2>2
      <3> HIDE DEF size
      <3>2. size = Len(list) - 1
        BY <2>3, <3>1
      <3> QED
        BY <3>2 DEF size
    <2> QED
      BY <2>2, <2>4
  <1>10. ASSUME NEW tags \in {OldTags, NewTags}
         PROVE  ReadOf(next, tags) = ReadOf(list, tags)
    <2> DEFINE V == Seq(chars)
               A == PartIn(a, tags)
               B == PartIn(b, tags)
               C == PartIn(c, tags)
               P == ReadOf(p, tags)
               Q == ReadOf(q, tags)
    <2>1. A \in V /\ B \in V /\ C \in V /\ P \in V /\ Q \in V
      BY <1>3, <1>4, PartTyped, ReadTyped
    <2>2. Associates(V) /\ TwoMakeOne(V)
      BY ConcatLaws
    <2>3. ReadOf(list, tags) = P \o (A \o (B \o (C \o Q)))
      <3>1. ReadsInTwo(list, n - 1, tags)
        BY <1>2, ReadInTwo
      <3>2. ReadsNext(list, n, n - 1, tags)
        BY <1>2, ReadNext
      <3>3. ReadsNext(list, n + 1, n, tags)
        BY <1>2, ReadNext
      <3>4. ReadsNext(list, n + 2, n + 1, tags)
        BY <1>2, ReadNext
      <3> QED
        BY <3>1, <3>2, <3>3, <3>4 DEF ReadsInTwo, ReadsNext
    <2>4. ReadOf(next, tags) = (P \o (A \o B \o C)) \o Q
      <3>1. ReadsAs(chars, merged, tags, A \o B \o C)
        BY <1>3, MergedNodes
      <3>2. ReadOf(merged, tags) = A \o B \o C
        BY <3>1 DEF ReadsAs
      <3>3. ReadsBoth(p, merged, tags)
        BY <1>4, <1>5, ReadBoth
      <3>4. ReadsBoth(pm, q, tags)
        BY <1>4, <1>8, ReadBoth
      <3> HIDE DEF A, B, C, merged, p, q
      <3> QED
        BY <1>6, <3>2, <3>3, <3>4 DEF ReadsBoth, pm
    <2> HIDE DEF A, B, C, P, Q, V
    <2>5. (P \o (A \o B \o C)) \o Q = P \o (A \o (B \o (C \o Q)))
      <3> DEFINE AB == A \o B
                 ABC == AB \o C
                 CQ == C \o Q
      <3>1. AB \in V
        BY <2>1, <2>2 DEF TwoMakeOne
      <3>2. CQ \in V
        BY <2>1, <2>2 DEF TwoMakeOne
      <3>3. ABC \in V
        <4> HIDE DEF AB
        <4> QED
          BY <2>1, <2>2, <3>1 DEF TwoMakeOne
      <3>4. (P \o ABC) \o Q = P \o (ABC \o Q)
        <4> HIDE DEF ABC
        <4> QED
          BY <2>1, <2>2, <3>3 DEF Associates
      <3>5. ABC \o Q = AB \o CQ
        <4> HIDE DEF AB
        <4> QED
          BY <2>1, <2>2, <3>1 DEF Associates
      <3>6. AB \o CQ = A \o (B \o CQ)
        <4> HIDE DEF CQ
        <4> QED
          BY <2>1, <2>2, <3>2 DEF Associates
      <3>7. (P \o ABC) \o Q = P \o (A \o (B \o CQ))
        <4> HIDE DEF ABC, CQ, AB
        <4> QED
          BY <3>4, <3>5, <3>6
      <3> QED
        BY <3>7
    <2> QED
      BY <2>3, <2>4, <2>5
  <1>11. SameReading(chars, list, next)
    BY <1>9, <1>10 DEF SameReading
  <1> QED
    BY <1>9, <1>11

(* Nor does the second loop. *)
LEMMA JoinReads ==
  ASSUME NEW chars, NEW list \in Seq(NodesOver(chars)), NEW n \in Nat \ {0}, n + 1 <= Len(list),
         list[n].tag = list[n + 1].tag,
         NEW next, next = SubSeq(list, 1, n - 1)
                          \o <<Node(list[n].tag, list[n].text \o list[n + 1].text)>>
                          \o From(list, n + 1)
  PROVE  SameReading(chars, list, next) /\ Len(next) = Len(list) - 1
PROOF
  <1> DEFINE N == NodesOver(chars)
             a == list[n]
             b == list[n + 1]
             p == SubSeq(list, 1, n - 1)
             q == From(list, n + 1)
             node == Node(a.tag, a.text \o b.text)
             pm == p \o <<node>>
  <1>1. Len(list) \in Nat /\ n \in Nat /\ n > 0
    BY LenProperties
  <1>2. /\ n \in 1 .. Len(list) /\ n + 1 \in 1 .. Len(list)
        /\ n - 1 \in 0 .. Len(list) /\ n + 1 \in 0 .. Len(list) /\ (n + 1) - 1 = n
    BY <1>1
  <1>3. a \in N /\ b \in N
    BY <1>2, ElementOfSeq
  <1>4. p \in Seq(N) /\ Len(p) = n - 1 /\ q \in Seq(N) /\ Len(q) = Len(list) - (n + 1)
    BY <1>2, CutInTwo
  <1>5. /\ a.text \in Seq(chars) /\ b.text \in Seq(chars) /\ a.tag \in {"text", "d", "i"}
        /\ b.tag = a.tag /\ node.tag = a.tag /\ node.text = a.text \o b.text
    BY <1>3 DEF NodesOver, Node
  <1>6. node \in N
    <2>1. a.text \o b.text \in Seq(chars)
      BY <1>5, ConcatProperties
    <2> QED
      BY <1>5, <2>1, NodeTyped
  <1>7. next = pm \o q
    OBVIOUS
  <1> HIDE DEF a, b, p, q, node
  <1>8. IsAround(next, p, node, q, n, N)
    <2>1. n = Len(p) + 1
      BY <1>1, <1>4
    <2> HIDE DEF N
    <2> QED
      BY <1>4, <1>6, <1>7, <2>1, AroundOne
  <1>9. next \in Seq(N) /\ Len(next) = Len(list) - 1
    <2>1. next \in Seq(N) /\ Len(next) = n + Len(q)
      BY <1>8 DEF IsAround
    <2>2. Len(q) = Len(list) - (n + 1)
      BY <1>4
    <2>3. Len(next) = Len(list) - 1
      <3> DEFINE size == Len(next)
      <3>1. size = n + Len(q)
        BY <2>1
      <3> HIDE DEF size
      <3>2. size = Len(list) - 1
        BY <1>1, <2>2, <3>1
      <3> QED
        BY <3>2 DEF size
    <2> QED
      BY <2>1, <2>3
  <1>10. ASSUME NEW tags
         PROVE  ReadOf(next, tags) = ReadOf(list, tags)
    <2> DEFINE V == Seq(chars)
               A == PartIn(a, tags)
               B == PartIn(b, tags)
               P == ReadOf(p, tags)
               Q == ReadOf(q, tags)
    <2>1. A \in V /\ B \in V /\ P \in V /\ Q \in V
      BY <1>3, <1>4, PartTyped, ReadTyped
    <2>2. Associates(V) /\ TwoMakeOne(V) /\ NothingAdded(V)
      BY ConcatLaws
    <2>3. ReadOf(list, tags) = P \o (A \o (B \o Q))
      <3>1. ReadsInTwo(list, n - 1, tags)
        BY <1>2, ReadInTwo
      <3>2. ReadsNext(list, n, n - 1, tags)
        BY <1>2, ReadNext
      <3>3. ReadsNext(list, n + 1, n, tags)
        BY <1>2, ReadNext
      <3> QED
        BY <3>1, <3>2, <3>3 DEF ReadsInTwo, ReadsNext, a, b, p, q
    <2>4. PartIn(node, tags) = A \o B
      <3> HIDE DEF V
      <3>1. CASE a.tag \in tags
        BY <1>5, <3>1 DEF PartIn
      <3>2. CASE a.tag \notin tags
        <4>1. A = <<>> /\ B = <<>> /\ PartIn(node, tags) = <<>>
          BY <1>5, <3>2 DEF PartIn
        <4>2. <<>> \o <<>> = <<>>
          BY <2>2 DEF NothingAdded
        <4> QED
          BY <4>1, <4>2
      <3> QED
        BY <3>1, <3>2
    <2>5. ReadOf(next, tags) = (P \o (A \o B)) \o Q
      <3>1. pm \in Seq(N) /\ ReadOf(pm, tags) = P \o PartIn(node, tags)
        BY <1>4, <1>6, ReadMore
      <3> HIDE DEF pm
      <3>2. ReadsBoth(pm, q, tags)
        BY <1>4, <3>1, ReadBoth
      <3> QED
        BY <1>7, <2>4, <3>1, <3>2 DEF ReadsBoth
    <2> HIDE DEF A, B, P, Q, V
    <2>6. (P \o (A \o B)) \o Q = P \o (A \o (B \o Q))
      <3>1. A \o B \in V /\ B \o Q \in V
        BY <2>1, <2>2 DEF TwoMakeOne
      <3>2. (P \o (A \o B)) \o Q = P \o ((A \o B) \o Q)
        BY <2>1, <2>2, <3>1 DEF Associates
      <3>3. (A \o B) \o Q = A \o (B \o Q)
        BY <2>1, <2>2 DEF Associates
      <3> QED
        BY <3>2, <3>3
    <2> QED
      BY <2>3, <2>5, <2>6
  <1>11. SameReading(chars, list, next)
    BY <1>9, <1>10 DEF SameReading
  <1> QED
    BY <1>9, <1>11

-----------------------------------------------------------------------------
(* Every operation leaves something of the old text. *)
SomethingStays == \A n \in DOMAIN ops : ops[n].len < Len(old)

(* The operations are what Applying says and the nodes are marked up by them. *)
MarkedBy(f) ==
  /\ Applying(f)
  /\ Marked(Letters, old, new, ops, f, Len(ops) - applied, nodes)

(***************************************************************************)
(* The children of the parent: the old text alone as long as there is no   *)
(* delta, then with annotations what the operations done so far make of    *)
(* it, from which at every moment the old text can be read, and after the  *)
(* last one the new.                                                       *)
(***************************************************************************)
NodesInv ==
  /\ nodes \in Seq(NodesOver(Letters))
  /\ Comparing => nodes = <<Node("text", old)>>
  /\ annotate => ReadOf(nodes, OldTags) = old
  /\ annotate /\ phase \in {"apply", "complete"} => \E f : MarkedBy(f)
  /\ annotate /\ phase \in {"merge", "join", "done"} /\ SomethingStays =>
       ReadOf(nodes, NewTags) = new

(* The counter, in the loops over the table and in those over the nodes. *)
CounterInv ==
  /\ phase \notin {"merge", "join", "done", "undefined"} => k \in 0 .. ShortMax
  /\ phase \in {"merge", "join"} => k \in 1 .. (Len(nodes) + 1)
  /\ phase \in {"done", "undefined"} => k \in 0 .. ShortMax \/ k \in 1 .. (Len(nodes) + 1)

(* Before the first step there is the old text. *)
LEMMA InitNodes ==
  ASSUME Init, IInv
  PROVE  NodesInv
PROOF
  <1> DEFINE node == Node("text", old)
  <1>1. nodes = <<node>> /\ phase \in {"path", "clearRow"} /\ old \in Seq(Letters)
    BY DEF Init, IInv
  <1>2. node \in NodesOver(Letters)
    BY <1>1, NodeTyped
  <1>3. PartIn(node, OldTags) = old
    BY ReadNode
  <1> HIDE DEF node
  <1>4. nodes \in Seq(NodesOver(Letters))
    BY <1>1, <1>2
  <1>5. ReadOf(nodes, OldTags) = old
    BY <1>1, <1>2, <1>3, ReadOne
  <1> QED
    BY <1>1, <1>4, <1>5 DEF NodesInv, node

(* As long as the texts are compared nothing happens to it. *)
LEMMA ComparingNodes ==
  ASSUME NodesInv, Comparing, Comparing', UNCHANGED <<old, annotate, nodes>>
  PROVE  NodesInv'
PROOF
  <1>1. phase' \in {"clearRow", "clearColumn", "path", "register"}
    BY DEF Comparing
  <1> QED
    BY <1>1 DEF NodesInv

(* Where nothing changes the nodes stay what they are. *)
LEMMA StutterNodes ==
  ASSUME NodesInv, UNCHANGED vars
  PROVE  NodesInv'
PROOF
  <1>1. UNCHANGED <<old, new, annotate, phase, ops, applied, value, nodes>>
    BY DEF vars
  <1>2. Comparing' = Comparing /\ SomethingStays' = SomethingStays
    BY <1>1 DEF Comparing, SomethingStays
  <1>3. \A f : MarkedBy(f) => MarkedBy(f)'
    BY <1>1 DEF MarkedBy, Applying
  <1> QED
    BY <1>1, <1>2, <1>3 DEF NodesInv

(* The delta is there and no operation is done. *)
LEMMA FirstNodes ==
  ASSUME IInv, IInv', NodesInv, Comparing, phase' = "apply",
         UNCHANGED <<old, new, annotate, applied, nodes>>
  PROVE  NodesInv'
PROOF
  <1>1. /\ nodes = <<Node("text", old)>> /\ applied' = 0
        /\ old \in Seq(Letters) /\ new \in Seq(Letters)
    BY DEF NodesInv, IInv, ComparingOnly
  <1>2. PICK f : Applying(f)'
    BY DEF IInv, Comparing
  <1>3. /\ ops' \in Seq(OperationsOver(Letters))
        /\ Aligned(old, new, ops', f, Len(old), Len(new))
    BY <1>2 DEF Applying
  <1>4. Len(ops') - applied' = Len(ops')
    <2>1. Len(ops') \in Nat
      BY <1>3, LenProperties
    <2> QED
      BY <1>1, <2>1
  <1>5. Marked(Letters, old, new, ops', f, Len(ops') - applied', nodes)
    BY <1>1, <1>3, <1>4, MarkedFirst
  <1>6. MarkedBy(f)'
    BY <1>2, <1>5 DEF MarkedBy
  <1> QED
    BY <1>6 DEF NodesInv, Comparing

(* One operation is done, or there is none left. *)
LEMMA TextNodeUpdateNodes ==
  ASSUME IInv, IInv', NodesInv, TextNodeUpdate
  PROVE  NodesInv'
PROOF
  <1>1. /\ phase = "apply" /\ phase' \in {"apply", "complete"}
        /\ UNCHANGED <<old, new, annotate, ops>>
        /\ old \in Seq(Letters) /\ new \in Seq(Letters) /\ old # <<>>
    BY DEF TextNodeUpdate, IInv
  <1>2. ~Comparing'
    BY <1>1 DEF Comparing
  <1>3. CASE ~annotate
    <2>1. nodes' = nodes
      BY <1>3 DEF TextNodeUpdate
    <2> QED
      BY <1>1, <1>2, <1>3, <2>1 DEF NodesInv
  <1>4. CASE annotate
    <2>1. PICK f : MarkedBy(f)
      BY <1>1, <1>4 DEF NodesInv
    <2>2. /\ ops \in Seq(OperationsOver(Letters)) /\ applied \in 0 .. Len(ops)
          /\ Aligned(old, new, ops, f, Len(old), Len(new))
          /\ Marked(Letters, old, new, ops, f, Len(ops) - applied, nodes)
      BY <2>1 DEF MarkedBy, Applying
    <2>3. Len(ops) \in Nat
      BY <2>2, LenProperties
    <2>4. /\ Marked(Letters, old, new, ops, f, Len(ops) - applied', nodes')
          /\ applied' \in 0 .. Len(ops)
      <3>1. CASE applied = Len(ops)
        BY <2>2, <3>1 DEF TextNodeUpdate
      <3>2. CASE applied # Len(ops)
        <4> DEFINE m == Len(ops) - applied
                   l == Len(ops) - applied'
        <4>1. applied' = applied + 1 /\ nodes' = Annotated(nodes, ops[m])
          BY <1>4, <3>2 DEF TextNodeUpdate, LastOneFirst
        <4>2. m \in 1 .. Len(ops) /\ l = m - 1 /\ applied' \in 0 .. Len(ops)
          BY <2>2, <2>3, <3>2, <4>1
        <4>3. Marked(Letters, old, new, ops, f, m, nodes)
          BY <2>2
        <4> HIDE DEF m, l
        <4>4. Marked(Letters, old, new, ops, f, l, Annotated(nodes, ops[m]))
          BY <1>1, <2>2, <4>2, <4>3, MarkedNext
        <4> QED
          BY <4>1, <4>2, <4>4 DEF l
      <3> QED
        BY <3>1, <3>2
    <2>5. phase' = "complete" => applied' = Len(ops)
      BY <1>1 DEF TextNodeUpdate
    <2>6. Applying(f)'
      BY <1>1, <1>4, <2>2, <2>4, <2>5 DEF Applying
    <2>7. MarkedBy(f)'
      BY <1>1, <2>4, <2>6 DEF MarkedBy
    <2>8. nodes' \in Seq(NodesOver(Letters)) /\ ReadOf(nodes', OldTags) = old
      BY <2>4 DEF Marked
    <2> QED
      BY <1>1, <1>2, <2>7, <2>8 DEF NodesInv
  <1> QED
    BY <1>3, <1>4

(* normalize when all operations are done. *)
LEMMA CompleteNodes ==
  ASSUME IInv, NodesInv, Complete
  PROVE  NodesInv'
PROOF
  <1>1. /\ phase = "complete" /\ phase' \in {"merge", "done"}
        /\ UNCHANGED <<old, new, annotate, ops, applied, value>>
        /\ old \in Seq(Letters) /\ new \in Seq(Letters) /\ value \in Seq(Letters)
        /\ nodes \in Seq(NodesOver(Letters))
    BY DEF Complete, IInv, NodesInv
  <1>2. ~Comparing' /\ SomethingStays' = SomethingStays
    BY <1>1 DEF Comparing, SomethingStays
  <1>3. CASE ~annotate
    <2> DEFINE node == Node("text", value)
    <2>1. nodes' = <<node>>
      BY <1>3 DEF Complete
    <2>2. node \in NodesOver(Letters)
      BY <1>1, NodeTyped
    <2> HIDE DEF node
    <2>3. nodes' \in Seq(NodesOver(Letters))
      BY <2>1, <2>2
    <2> QED
      BY <1>1, <1>2, <1>3, <2>3 DEF NodesInv
  <1>4. CASE annotate
    <2>1. nodes' = Normalized(nodes)
      BY <1>4 DEF Complete
    <2>2. "text" \in OldTags /\ "text" \in NewTags
      BY DEF OldTags, NewTags
    <2>3. /\ nodes' \in Seq(NodesOver(Letters))
          /\ ReadOf(nodes', OldTags) = ReadOf(nodes, OldTags)
          /\ ReadOf(nodes', NewTags) = ReadOf(nodes, NewTags)
      BY <1>1, <2>1, <2>2, NormalizedReads
    <2>4. ReadOf(nodes, OldTags) = old
      BY <1>4 DEF NodesInv
    <2>5. ASSUME SomethingStays
          PROVE  ReadOf(nodes, NewTags) = new
      <3> DEFINE text == ReadOf(nodes, NewTags)
      <3>1. PICK f : MarkedBy(f)
        BY <1>1, <1>4 DEF NodesInv
      <3>2. /\ Marked(Letters, old, new, ops, f, Len(ops) - applied, nodes) /\ applied = Len(ops)
            /\ ops \in Seq(OperationsOver(Letters))
            /\ Aligned(old, new, ops, f, Len(old), Len(new))
        BY <1>1, <3>1 DEF MarkedBy, Applying
      <3>3. Len(ops) \in Nat /\ Len(new) \in Nat
        BY <1>1, <3>2, LenProperties
      <3>4. Len(ops) - applied = 0 /\ EndOf(ops, 0) = 0 /\ f[0] = 0
        BY <3>2, <3>3 DEF EndOf, Aligned
      <3>5. text \in Seq(Letters)
        BY <1>1, ReadTyped
      <3>6. Restored(old, new, ops, f, 0, text)
        BY <2>5, <3>2, <3>4 DEF Marked, SomethingStays
      <3> HIDE DEF text
      <3>7. Len(text) = Len(new) /\ \A i \in 1 .. Len(new) : text[i] = new[i]
        BY <3>3, <3>4, <3>6 DEF Restored
      <3>8. text = new
        BY <1>1, <3>5, <3>7
      <3> QED
        BY <3>8 DEF text
    <2> QED
      BY <1>1, <1>2, <2>3, <2>4, <2>5 DEF NodesInv
  <1> QED
    BY <1>3, <1>4

(* A step of the merging loops: what they make of the nodes is read as before. *)
LEMMA SameNodes ==
  ASSUME NodesInv, phase \in {"merge", "join"}, phase' \in {"merge", "join", "done", "undefined"},
         UNCHANGED <<old, new, annotate, ops>>, SameReading(Letters, nodes, nodes')
  PROVE  NodesInv'
PROOF
  <1>1. ~Comparing' /\ SomethingStays' = SomethingStays
    BY DEF Comparing, SomethingStays
  <1> QED
    BY <1>1 DEF NodesInv, SameReading

(* The first and the second loop of complete. *)
LEMMA MergingNodes ==
  ASSUME IInv, NodesInv, CounterInv, Merge \/ Join
  PROVE  NodesInv' /\ CounterInv'
PROOF
  <1>1. nodes \in Seq(NodesOver(Letters))
    BY DEF NodesInv
  <1>2. Len(nodes) \in Nat
    BY <1>1, LenProperties
  <1>3. /\ phase \in {"merge", "join"} /\ phase' \in {"merge", "join", "done", "undefined"}
        /\ UNCHANGED <<old, new, annotate, ops>>
        /\ k \in 1 .. (Len(nodes) + 1)
    BY DEF Merge, Join, CounterInv
  <1>4. ASSUME nodes' = nodes
        PROVE  SameReading(Letters, nodes, nodes')
    BY <1>1, <1>4 DEF SameReading
  <1>5. CASE Merge /\ k + 2 > Len(nodes)
    <2>1. phase' = "join" /\ k' = 1 /\ nodes' = nodes
      BY <1>5 DEF Merge
    <2>2. CounterInv'
      BY <1>2, <2>1 DEF CounterInv
    <2> QED
      BY <1>3, <1>4, <2>1, <2>2, SameNodes
  <1>6. CASE Merge /\ ~(k + 2 > Len(nodes))
    <2> DEFINE a == nodes[k]
               b == nodes[k + 1]
               c == nodes[k + 2]
               merges == ~TextNodeHasWhitespace(b) /\ IsElement(a) /\ IsElement(c)
    <2>1. /\ phase' = IF merges /\ IsElement(b) THEN "undefined" ELSE "merge"
          /\ k' = IF merges THEN k ELSE k + 1
          /\ nodes' = IF ~merges \/ IsElement(b) THEN nodes
                      ELSE SubSeq(nodes, 1, k - 1) \o MergeNodes(a, b, c) \o From(nodes, k + 2)
      BY <1>6 DEF Merge
    <2>2. k \in Nat \ {0} /\ k + 2 <= Len(nodes)
      BY <1>2, <1>3, <1>6
    <2>3. CASE ~merges \/ IsElement(b)
      <3>1. nodes' = nodes /\ k' \in 1 .. (Len(nodes) + 1) /\ phase' \in {"merge", "undefined"}
        <4>1. nodes' = nodes /\ k' \in {k, k + 1} /\ phase' \in {"merge", "undefined"}
          BY <2>1, <2>3
        <4>2. k \in 1 .. (Len(nodes) + 1) /\ k + 1 \in 1 .. (Len(nodes) + 1)
          BY <1>2, <2>2
        <4> QED
          BY <4>1, <4>2
      <3>2. CounterInv'
        BY <3>1 DEF CounterInv
      <3> QED
        BY <1>3, <1>4, <3>1, <3>2, SameNodes
    <2>4. CASE merges /\ ~IsElement(b)
      <3>1. /\ nodes' = SubSeq(nodes, 1, k - 1) \o MergeNodes(a, b, c) \o From(nodes, k + 2)
            /\ k' = k /\ phase' = "merge" /\ IsElement(a) /\ IsElement(c) /\ ~IsElement(b)
        BY <2>1, <2>4
      <3>2. SameReading(Letters, nodes, nodes') /\ Len(nodes') = Len(nodes) - 1
        BY <1>1, <2>2, <3>1, MergeReads
      <3>3. k \in 1 .. ((Len(nodes) - 1) + 1)
        BY <1>2, <2>2
      <3>4. CounterInv'
        BY <3>1, <3>2, <3>3 DEF CounterInv
      <3> QED
        BY <1>3, <3>1, <3>2, <3>4, SameNodes
    <2> QED
      BY <2>3, <2>4
  <1>7. CASE Join /\ k + 1 > Len(nodes)
    <2>1. phase' = "done" /\ k' = k /\ nodes' = nodes
      BY <1>7 DEF Join
    <2>2. CounterInv'
      BY <1>3, <2>1 DEF CounterInv
    <2> QED
      BY <1>3, <1>4, <2>1, <2>2, SameNodes
  <1>8. CASE Join /\ ~(k + 1 > Len(nodes))
    <2> DEFINE a == nodes[k]
               b == nodes[k + 1]
               joins == IsElement(a) /\ a.tag = b.tag
    <2>1. /\ phase' = "join"
          /\ k' = IF joins THEN k ELSE k + 1
          /\ nodes' = IF ~joins THEN nodes
                      ELSE SubSeq(nodes, 1, k - 1)
                           \o <<Node(a.tag, a.text \o b.text)>> \o From(nodes, k + 1)
      BY <1>8 DEF Join
    <2>2. k \in Nat \ {0} /\ k + 1 <= Len(nodes)
      BY <1>2, <1>3, <1>8
    <2>3. CASE ~joins
      <3>1. nodes' = nodes /\ k' = k + 1
        BY <2>1, <2>3
      <3>2. k + 1 \in 1 .. (Len(nodes) + 1)
        BY <1>2, <2>2
      <3>3. CounterInv'
        BY <2>1, <3>1, <3>2 DEF CounterInv
      <3> QED
        BY <1>3, <1>4, <3>1, <3>3, SameNodes
    <2>4. CASE joins
      <3>1. /\ nodes' = SubSeq(nodes, 1, k - 1)
                        \o <<Node(a.tag, a.text \o b.text)>> \o From(nodes, k + 1)
            /\ k' = k /\ a.tag = b.tag
        BY <2>1, <2>4
      <3>2. SameReading(Letters, nodes, nodes') /\ Len(nodes') = Len(nodes) - 1
        BY <1>1, <2>2, <3>1, JoinReads
      <3>3. k \in 1 .. ((Len(nodes) - 1) + 1)
        BY <1>2, <2>2
      <3>4. CounterInv'
        BY <2>1, <3>1, <3>2, <3>3 DEF CounterInv
      <3> QED
        BY <1>3, <3>2, <3>4, SameNodes
    <2> QED
      BY <2>3, <2>4
  <1> QED
    BY <1>5, <1>6, <1>7, <1>8

(* The unsigned short of the loops over the table is one. *)
LEMMA ClearCounter ==
  ASSUME CounterInv, ClearRow \/ ClearColumn
  PROVE  CounterInv'
PROOF
  <1>1. /\ phase \in {"clearRow", "clearColumn"} /\ phase' \in {"clearRow", "clearColumn", "path"}
        /\ k' = 0 \/ k' = (k + 1) % (ShortMax + 1)
    BY DEF ClearRow, ClearColumn, Clear
  <1>2. k \in 0 .. ShortMax /\ ShortMax \in Nat
    BY <1>1, TextAssumption DEF CounterInv
  <1>3. (k + 1) % (ShortMax + 1) \in 0 .. ShortMax
    BY <1>2
  <1>4. k' \in 0 .. ShortMax
    BY <1>1, <1>2, <1>3
  <1> QED
    BY <1>1, <1>4 DEF CounterInv

(* Before and between the loops. *)
LEMMA OtherCounter ==
  ASSUME IInv, NodesInv', CounterInv,
         CalculatePath \/ Register \/ TextNodeUpdate \/ Complete \/ UNCHANGED vars
  PROVE  CounterInv'
PROOF
  <1>1. CASE CalculatePath \/ Register \/ TextNodeUpdate
    <2>1. /\ phase \in {"path", "register", "apply"}
          /\ phase' \in {"register", "apply", "complete"} /\ k' = k
      BY <1>1 DEF CalculatePath, Register, TextNodeUpdate
    <2> QED
      BY <2>1 DEF CounterInv
  <1>2. CASE Complete
    <2>1. /\ phase = "complete"
          /\ (phase' = "merge" /\ k' = 1) \/ (phase' = "done" /\ k' = k)
      BY <1>2 DEF Complete
    <2>2. Len(nodes') \in Nat
      <3>1. nodes' \in Seq(NodesOver(Letters))
        BY DEF NodesInv
      <3> QED
        BY <3>1, LenProperties
    <2> QED
      BY <2>1, <2>2 DEF CounterInv
  <1>3. CASE UNCHANGED vars
    BY <1>3 DEF vars, CounterInv
  <1> QED
    BY <1>1, <1>2, <1>3

(* Every step keeps what is known of the nodes and of the counter. *)
THEOREM NodesInvariance == Spec => [](NodesInv /\ CounterInv)
PROOF
  <1>1. ASSUME Init
        PROVE  NodesInv /\ CounterInv
    <2>1. IInv
      BY <1>1, InitInvariant
    <2>2. NodesInv
      BY <1>1, <2>1, InitNodes
    <2>3. k = 0 /\ phase \in {"path", "clearRow"} /\ ShortMax \in Nat
      BY <1>1, TextAssumption DEF Init
    <2> QED
      BY <2>2, <2>3 DEF CounterInv
  <1>2. ASSUME IInv, IInv', NodesInv, CounterInv, [Next]_vars
        PROVE  NodesInv' /\ CounterInv'
    <2>1. CASE ClearRow \/ ClearColumn
      <3>1. Comparing /\ Comparing' /\ UNCHANGED <<old, annotate, nodes>>
        BY <2>1 DEF ClearRow, ClearColumn, Clear, Comparing
      <3> QED
        BY <1>2, <2>1, <3>1, ComparingNodes, ClearCounter
    <2>2. CASE CalculatePath \/ Register
      <3>1. /\ Comparing /\ phase' \in {"register", "apply"}
            /\ UNCHANGED <<old, new, annotate, applied, nodes>>
        BY <2>2 DEF CalculatePath, Register, Comparing
      <3>2. phase' = "register" => Comparing'
        BY DEF Comparing
      <3>3. NodesInv'
        BY <1>2, <3>1, <3>2, ComparingNodes, FirstNodes
      <3> QED
        BY <1>2, <2>2, <3>3, OtherCounter
    <2>3. CASE TextNodeUpdate
      BY <1>2, <2>3, TextNodeUpdateNodes, OtherCounter
    <2>4. CASE Complete
      BY <1>2, <2>4, CompleteNodes, OtherCounter
    <2>5. CASE Merge \/ Join
      BY <1>2, <2>5, MergingNodes
    <2>6. CASE UNCHANGED vars
      BY <1>2, <2>6, StutterNodes, OtherCounter
    <2> QED
      BY <1>2, <2>1, <2>2, <2>3, <2>4, <2>5, <2>6 DEF Next
  <1> QED
    BY <1>1, <1>2, Invariance, PTL DEF Spec

(***************************************************************************)
(* With annotations the old text can be read at every moment from the      *)
(* texts and the xyu:d elements, and in the end the new one from the texts *)
(* and the xyu:i elements, unless one operation takes all of the old text  *)
(* away: whatever the two texts are.                                       *)
(***************************************************************************)
THEOREM AnnotationsLoseNothing == Spec => []AnnotatedReadsBack
PROOF
  <1>1. NodesInv => AnnotatedReadsBack
    BY DEF NodesInv, AnnotatedReadsBack, Reading, ReadOf, PartsOf, PartIn, OldTags, NewTags,
           SomethingStays
  <1> QED
    BY <1>1, NodesInvariance, PTL

(* The types of the variables: no counter leaves its range. *)
THEOREM TypeCorrect == Spec => []TypeOK
PROOF
  <1>1. ASSUME IInv, NodesInv, CounterInv
        PROVE  TypeOK
    <2>1. phase \in Phases /\ (phase \in {"merge", "join"} => annotate)
      BY <1>1 DEF IInv
    <2>2. /\ nodes \in Seq(NodesOver(Letters)) /\ Len(nodes) \in Nat
          /\ DOMAIN nodes = 1 .. Len(nodes)
      <3>1. nodes \in Seq(NodesOver(Letters))
        BY <1>1 DEF NodesInv
      <3> QED
        BY <3>1, LenProperties
    <2>3. \A n \in DOMAIN nodes : nodes[n].tag \in {"text", "d", "i"}
      <3>1. \A n \in DOMAIN nodes : nodes[n] \in NodesOver(Letters)
        BY <2>2, ElementOfSeq
      <3> QED
        BY <3>1 DEF NodesOver
    <2>4. k \in 0 .. Max({ShortMax, Len(nodes) + 1})
      <3> DEFINE size == Len(nodes) + 1
      <3>1. ShortMax \in Int /\ size \in Int
        BY <2>2, TextAssumption
      <3>2. k \in 0 .. ShortMax \/ k \in 1 .. size
        BY <1>1 DEF CounterInv
      <3> HIDE DEF size
      <3>3. Max({ShortMax, size}) = IF ShortMax >= size THEN ShortMax ELSE size
        BY <3>1, MaxOfTwo
      <3>4. k \in 0 .. Max({ShortMax, size})
        BY <3>1, <3>2, <3>3
      <3> QED
        BY <3>4 DEF size
    <2>5. applied \in 0 .. Len(ops)
      <3>1. CASE Comparing
        <4>1. ops = <<>> /\ applied = 0
          BY <1>1, <3>1 DEF IInv, ComparingOnly
        <4> QED
          BY <4>1
      <3>2. CASE ~Comparing
        BY <1>1, <3>2 DEF IInv, Applying
      <3> QED
        BY <3>1, <3>2
    <2>6. phase \in {"merge", "join"} => k \in 1 .. (Len(nodes) + 1)
      BY <1>1 DEF CounterInv
    <2> QED
      BY <2>1, <2>3, <2>4, <2>5, <2>6 DEF TypeOK
  <1> QED
    BY <1>1, Invariance, NodesInvariance, PTL
=============================================================================
