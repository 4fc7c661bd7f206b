--------------------------- MODULE NumberInduction ---------------------------
(***************************************************************************)
(* Induction over the natural numbers for a set instead of a predicate: a  *)
(* set can be the parameter of a lemma that is cited by name.  To show a   *)
(* formula for all numbers, take the set of the numbers it holds for.      *)
(* And finite sets in the order of numbers given to their elements,        *)
(* recursions over a range of numbers, and sums over finite sets.          *)
(***************************************************************************)
EXTENDS Integers, Sequences, WellFoundedInduction, FiniteSetTheorems, TLAPS

(* A set of natural numbers that is not empty has a least element. *)
LEMMA LeastNumber ==
  ASSUME NEW T \in SUBSET Nat, T # {}
  PROVE  \E n \in T : \A m \in T : n <= m
PROOF
  <1> DEFINE Less == {ss \in Nat \X Nat : ss[1] < ss[2]}
  <1>1. IsWellFoundedOn(Less, Nat)
    BY NatLessThanWellFounded DEF OpToRel
  <1>2. \E n \in T : \A m \in T : ~(<<m, n>> \in Less)
    <2> HIDE DEF Less
    <2> QED
      BY <1>1, WFMin
  <1>3. PICK n \in T : \A m \in T : ~(<<m, n>> \in Less)
    BY <1>2
  <1>4. ASSUME NEW m \in T, m < n
        PROVE  FALSE
    <2>1. <<m, n>> \in Less
      BY <1>4
    <2> QED
      BY <1>3, <2>1
  <1> QED
    BY <1>4

(* A set with 0 and the successors of its numbers has all numbers. *)
LEMMA SetInduction ==
  ASSUME NEW S, 0 \in S, \A n \in Nat : n \in S => n + 1 \in S
  PROVE  \A n \in Nat : n \in S
PROOF
  <1> DEFINE T == {n \in Nat : n \notin S}
  <1> SUFFICES ASSUME T # {} PROVE FALSE
    OBVIOUS
  <1>1. PICK n \in T : \A m \in T : n <= m
    <2>1. T \in SUBSET Nat
      OBVIOUS
    <2> HIDE DEF T
    <2> QED
      BY <2>1, LeastNumber
  <1>2. n \in Nat /\ n # 0 /\ n - 1 \in Nat
    BY <1>1
  <1>3. n - 1 \in S
    BY <1>1, <1>2
  <1>4. (n - 1) + 1 \in S
    BY <1>2, <1>3
  <1> QED
    BY <1>1, <1>2, <1>4

(***************************************************************************)
(* Induction over a set whose elements have a rank: what is passed on from *)
(* all elements of a lower rank holds for every element.                   *)
(***************************************************************************)
LEMMA RankInduction ==
  ASSUME NEW G, NEW rank \in [G -> Nat], NEW T,
         \A p \in G : (\A q \in G : rank[q] < rank[p] => q \in T) => p \in T
  PROVE  \A p \in G : p \in T
PROOF
  <1> DEFINE S == {k \in Nat : \A p \in G : rank[p] < k => p \in T}
  <1>1. 0 \in S
    OBVIOUS
  <1>2. ASSUME NEW k \in Nat, k \in S
        PROVE  k + 1 \in S
    <2>1. ASSUME NEW p \in G, rank[p] < k + 1
          PROVE  p \in T
      <3>1. \A q \in G : rank[q] < rank[p] => rank[q] < k
        BY <2>1
      <3>2. \A q \in G : rank[q] < rank[p] => q \in T
        BY <1>2, <3>1
      <3> QED
        BY <3>2
    <2> QED
      BY <2>1
  <1>3. \A k \in Nat : k \in S
    <2> HIDE DEF S
    <2> QED
      BY <1>1, <1>2, SetInduction
  <1>4. ASSUME NEW p \in G
        PROVE  p \in T
    <2>1. rank[p] + 1 \in S
      BY <1>3
    <2> QED
      BY <2>1
  <1> QED
    BY <1>4

(***************************************************************************)
(* Step is the body of a recursion, from a function from G to V to such a  *)
(* function: its value at an element depends on elements of a lower rank   *)
(* only, and the ranks are below bound.                                    *)
(***************************************************************************)
Descends(Step, G, V, rank, bound) ==
  /\ V # {} /\ rank \in [G -> Nat]
  /\ bound \in Nat /\ \A p \in G : rank[p] < bound
  /\ Step \in [[G -> V] -> [G -> V]]
  /\ \A f, g \in [G -> V] : \A p \in G :
       (\A q \in G : rank[q] < rank[p] => f[q] = g[q]) => Step[f][p] = Step[g][p]

(* Such a recursion has a solution. *)
LEMMA RankRecursion ==
  ASSUME NEW Step, NEW G, NEW V, NEW rank, NEW bound, Descends(Step, G, V, rank, bound)
  PROVE  \E f \in [G -> V] : f = Step[f]
PROOF
  <1>0. /\ V # {} /\ rank \in [G -> Nat]
        /\ bound \in Nat /\ \A p \in G : rank[p] < bound
        /\ Step \in [[G -> V] -> [G -> V]]
        /\ \A f, g \in [G -> V] : \A p \in G :
             (\A q \in G : rank[q] < rank[p] => f[q] = g[q]) => Step[f][p] = Step[g][p]
    BY DEF Descends
  <1> DEFINE Solves(f, k) == \A p \in G : rank[p] < k => f[p] = Step[f][p]
             S == {k \in Nat : \E f \in [G -> V] : Solves(f, k)}
  <1>1. 0 \in S
    <2>1. PICK v \in V : TRUE
      BY <1>0
    <2>2. [p \in G |-> v] \in [G -> V]
      OBVIOUS
    <2>3. Solves([p \in G |-> v], 0)
      BY <1>0
    <2> HIDE DEF Solves
    <2> QED
      BY <2>2, <2>3
  <1>2. ASSUME NEW k \in Nat, k \in S
        PROVE  k + 1 \in S
    <2>1. PICK f \in [G -> V] : Solves(f, k)
      BY <1>2
    <2> DEFINE g == Step[f]
    <2>2. g \in [G -> V]
      BY <1>0
    <2> HIDE DEF g
    <2>3. \A p \in G : rank[p] < k => g[p] = f[p]
      BY <1>0, <2>1 DEF g
    <2>4. ASSUME NEW p \in G, rank[p] < k + 1
          PROVE  g[p] = Step[g][p]
      <3>1. \A q \in G : rank[q] < rank[p] => f[q] = g[q]
        BY <1>0, <2>3, <2>4
      <3>2. Step[f][p] = Step[g][p]
        BY <1>0, <2>2, <3>1
      <3> QED
        BY <3>2 DEF g
    <2>5. Solves(g, k + 1)
      BY <2>4
    <2> HIDE DEF Solves
    <2> QED
      BY <2>2, <2>5
  <1>3. \A k \in Nat : k \in S
    <2> HIDE DEF S
    <2> QED
      BY <1>1, <1>2, SetInduction
  <1>4. PICK f \in [G -> V] : Solves(f, bound)
    BY <1>0, <1>3
  <1>5. Step[f] \in [G -> V] /\ \A p \in G : f[p] = Step[f][p]
    BY <1>0, <1>4
  <1> QED
    BY <1>0, <1>5

-----------------------------------------------------------------------------
(***************************************************************************)
(* Finite sets in the order of numbers: what rank their elements have, and *)
(* the lists that go through them.                                         *)
(***************************************************************************)

(* Sets with a one-to-one map from one onto the other have one size. *)
LEMMA SameSize ==
  ASSUME NEW S, NEW T, NEW f \in [S -> T], IsFiniteSet(S),
         \A a, b \in S : f[a] = f[b] => a = b,
         \A t \in T : \E a \in S : f[a] = t
  PROVE  Cardinality(S) = Cardinality(T)
PROOF
  <1>1. f \in Bijection(S, T)
    BY DEF Bijection, Injection, Surjection, IsInjective
  <1>2. ExistsBijection(S, T)
    BY <1>1 DEF ExistsBijection
  <1> QED
    BY <1>2, FS_Bijection

(* Different elements of a finite set have different ranks. *)
IsRanking(S, r) ==
  IsFiniteSet(S) /\ r \in [S -> Int] /\ \A a, b \in S : r[a] = r[b] => a = b

(* The place of an element: how many do not rank higher. *)
Place(S, r, a) == Cardinality({b \in S : r[b] <= r[a]})

(***************************************************************************)
(* Ranks that are all different give every place to some element: the      *)
(* element behind k - 1 others exists.                                     *)
(***************************************************************************)
LEMMA EveryPlaceIsTaken ==
  ASSUME NEW S, NEW r, IsRanking(S, r), NEW k \in 1 .. Cardinality(S)
  PROVE  \E a \in S : Place(S, r, a) = k
PROOF
  <1> DEFINE UpTo(a) == {b \in S : r[b] <= r[a]}
             n == Cardinality(S)
             f == [a \in S |-> Cardinality(UpTo(a))]
             Image == {f[a] : a \in S}
  <1>0. IsFiniteSet(S) /\ r \in [S -> Int] /\ \A a, b \in S : r[a] = r[b] => a = b
    BY DEF IsRanking
  <1>1. n \in Nat
    BY <1>0, FS_CardinalityType
  <1>2. ASSUME NEW a \in S
        PROVE  /\ IsFiniteSet(UpTo(a)) /\ Cardinality(UpTo(a)) \in 1 .. n
    <2>1. IsFiniteSet(UpTo(a)) /\ Cardinality(UpTo(a)) <= n
      <3>1. UpTo(a) \subseteq S
        OBVIOUS
      <3> HIDE DEF UpTo
      <3> QED
        BY <1>0, <3>1, FS_Subset
    <2>2. a \in UpTo(a)
      BY <1>0
    <2>3. Cardinality(UpTo(a)) \in Nat /\ Cardinality(UpTo(a)) # 0
      <3> HIDE DEF UpTo
      <3> QED
        BY <2>1, <2>2, FS_CardinalityType, FS_EmptySet
    <2> HIDE DEF UpTo
    <2> QED
      BY <1>1, <2>1, <2>3
  <1>3. ASSUME NEW a \in S, NEW b \in S, r[a] < r[b]
        PROVE  Cardinality(UpTo(a)) # Cardinality(UpTo(b))
    <2>1. UpTo(a) \subseteq UpTo(b) /\ b \in UpTo(b) /\ b \notin UpTo(a)
      BY <1>0, <1>3
    <2> HIDE DEF UpTo
    <2>2. IsFiniteSet(UpTo(b))
      BY <1>2
    <2> QED
      BY <2>1, <2>2, FS_Subset
  <1>4. \A a, b \in S : f[a] = f[b] => a = b
    <2> SUFFICES ASSUME NEW a \in S, NEW b \in S, f[a] = f[b], a # b
                 PROVE  FALSE
      OBVIOUS
    <2>1. r[a] < r[b] \/ r[b] < r[a]
      <3>1. r[a] # r[b] /\ r[a] \in Int /\ r[b] \in Int
        BY <1>0
      <3> QED
        BY <3>1
    <2>2. Cardinality(UpTo(a)) = Cardinality(UpTo(b))
      OBVIOUS
    <2> HIDE DEF UpTo, f
    <2> QED
      BY <1>3, <2>1, <2>2
  <1>5. Image \subseteq 1 .. n
    BY <1>2
  <1>6. Cardinality(Image) = n
    <2>0. IsFiniteSet(S)
      BY <1>0
    <2>1. f \in [S -> Image] /\ \A t \in Image : \E a \in S : f[a] = t
      OBVIOUS
    <2> HIDE DEF f, Image
    <2> QED
      BY <1>4, <2>0, <2>1, SameSize
  <1>7. Image = 1 .. n
    <2>1. IsFiniteSet(1 .. n) /\ Cardinality(1 .. n) = n
      <3> HIDE DEF n
      <3>1. 1 \in Int /\ n \in Int
        BY <1>1
      <3> QED
        BY <1>1, <3>1, FS_Interval
    <2> HIDE DEF Image, n
    <2> QED
      BY <1>5, <1>6, <2>1, FS_Subset
  <1> QED
    BY <1>7 DEF Place

(* u names the elements of A, each once, by rising rank. *)
Lists(u, A, r) ==
  /\ u \in Seq(A)
  /\ \A a \in A : r[a] \in Int /\ \E k \in DOMAIN u : u[k] = a
  /\ \A k, l \in DOMAIN u : k < l => r[u[k]] < r[u[l]]

(* What that says of the indices. *)
LEMMA ListFacts ==
  ASSUME NEW u, NEW A, NEW r, Lists(u, A, r)
  PROVE  /\ u \in Seq(A) /\ Len(u) \in Nat /\ DOMAIN u = 1 .. Len(u)
         /\ \A k \in 1 .. Len(u) : u[k] \in A
         /\ \A a \in A : r[a] \in Int /\ \E k \in 1 .. Len(u) : u[k] = a
         /\ \A k, l \in 1 .. Len(u) : k < l => r[u[k]] < r[u[l]]
PROOF
  BY DEF Lists

(* The k-th of them has k elements up to itself. *)
LEMMA ListedPlaces ==
  ASSUME NEW u, NEW A, NEW r, Lists(u, A, r)
  PROVE  /\ IsFiniteSet(A) /\ Cardinality(A) = Len(u)
         /\ \A k \in 1 .. Len(u) : u[k] \in A /\ Cardinality({b \in A : r[b] <= r[u[k]]}) = k
         /\ \A k, l \in 1 .. Len(u) : u[k] = u[l] => k = l
PROOF
  <1>1. /\ Len(u) \in Nat /\ DOMAIN u = 1 .. Len(u) /\ \A k \in 1 .. Len(u) : u[k] \in A
        /\ \A a \in A : r[a] \in Int /\ \E k \in 1 .. Len(u) : u[k] = a
        /\ \A k, l \in 1 .. Len(u) : k < l => r[u[k]] < r[u[l]]
    BY ListFacts
  <1>2. ASSUME NEW k \in 1 .. Len(u), NEW l \in 1 .. Len(u), u[k] = u[l]
        PROVE  k = l
    <2>1. ~(k < l) /\ ~(l < k)
      BY <1>1, <1>2
    <2> QED
      BY <1>1, <2>1
  <1>3. ASSUME NEW n \in 0 .. Len(u), NEW B, B = {u[k] : k \in 1 .. n}
        PROVE  IsFiniteSet(B) /\ Cardinality(B) = n
    <2> DEFINE f == [k \in 1 .. n |-> u[k]]
    <2>1. IsFiniteSet(1 .. n) /\ Cardinality(1 .. n) = n
      <3>1. 1 \in Int /\ n \in Int
        BY <1>1
      <3> QED
        BY <1>1, <3>1, FS_Interval
    <2>2. f \in [1 .. n -> B] /\ \A b \in B : \E k \in 1 .. n : f[k] = b
      BY <1>3
    <2>3. \A k, l \in 1 .. n : f[k] = f[l] => k = l
      BY <1>1, <1>2
    <2>4. IsFiniteSet(B)
      <3> HIDE DEF f
      <3> QED
        BY <2>1, <2>2, FS_Surjection DEF Surjection
    <2> HIDE DEF f
    <2> QED
      BY <2>1, <2>2, <2>3, <2>4, SameSize
  <1>4. A = {u[k] : k \in 1 .. Len(u)}
    BY <1>1
  <1>5. IsFiniteSet(A) /\ Cardinality(A) = Len(u)
    <2>1. Len(u) \in 0 .. Len(u)
      BY <1>1
    <2> QED
      BY <1>3, <1>4, <2>1
  <1>6. ASSUME NEW k \in 1 .. Len(u)
        PROVE  Cardinality({b \in A : r[b] <= r[u[k]]}) = k
    <2>1. ASSUME NEW b \in A, r[b] <= r[u[k]]
          PROVE  \E l \in 1 .. k : b = u[l]
      <3>1. PICK l \in 1 .. Len(u) : u[l] = b
        BY <1>1
      <3>2. ~(k < l)
        BY <1>1, <2>1, <3>1
      <3> QED
        BY <1>1, <3>1, <3>2
    <2>2. ASSUME NEW l \in 1 .. k
          PROVE  u[l] \in A /\ r[u[l]] <= r[u[k]]
      <3>1. l \in 1 .. Len(u) /\ (l < k \/ l = k)
        BY <1>1
      <3> QED
        BY <1>1, <3>1
    <2>3. {b \in A : r[b] <= r[u[k]]} = {u[l] : l \in 1 .. k}
      BY <2>1, <2>2
    <2>4. k \in 0 .. Len(u)
      BY <1>1
    <2> QED
      BY <1>3, <2>3, <2>4
  <1> QED
    BY <1>1, <1>2, <1>5, <1>6

(* There is only one such sequence. *)
LEMMA ListedOnce ==
  ASSUME NEW u, NEW w, NEW A, NEW r, Lists(u, A, r), Lists(w, A, r)
  PROVE  u = w
PROOF
  <1>1. /\ u \in Seq(A) /\ w \in Seq(A)
        /\ \A a \in A : \E k \in DOMAIN w : w[k] = a
    BY DEF Lists
  <1>2. /\ Cardinality(A) = Len(u)
        /\ \A k \in 1 .. Len(u) : u[k] \in A /\ Cardinality({b \in A : r[b] <= r[u[k]]}) = k
    BY ListedPlaces
  <1>3. /\ Cardinality(A) = Len(w)
        /\ \A k \in 1 .. Len(w) : Cardinality({b \in A : r[b] <= r[w[k]]}) = k
    BY ListedPlaces
  <1>4. ASSUME NEW k \in 1 .. Len(u)
        PROVE  u[k] = w[k]
    <2>1. PICK l \in DOMAIN w : w[l] = u[k]
      BY <1>1, <1>2
    <2>2. l \in 1 .. Len(w)
      BY <1>1
    <2>3. l = k
      BY <1>2, <1>3, <2>1, <2>2
    <2> QED
      BY <2>1, <2>3
  <1>5. Len(u) = Len(w)
    BY <1>2, <1>3
  <1>6. u = [k \in 1 .. Len(u) |-> u[k]] /\ w = [k \in 1 .. Len(u) |-> w[k]]
    BY <1>1, <1>5
  <1> QED
    BY <1>4, <1>6

(* Choosing the elements place by place lists them. *)
LEMMA PlacesList ==
  ASSUME NEW A, NEW r, IsRanking(A, r), NEW u,
         u = [k \in 1 .. Cardinality(A) |-> CHOOSE a \in A : Place(A, r, a) = k]
  PROVE  Lists(u, A, r)
PROOF
  <1> DEFINE n == Cardinality(A)
  <1>1. IsFiniteSet(A) /\ (\A a \in A : r[a] \in Int) /\ n \in Nat
    BY FS_CardinalityType DEF IsRanking
  <1>2. \A k \in 1 .. n : u[k] \in A /\ Place(A, r, u[k]) = k
    BY EveryPlaceIsTaken
  <1>3. u \in Seq(A) /\ DOMAIN u = 1 .. n
    BY <1>1, <1>2
  <1>4. ASSUME NEW a \in A
        PROVE  Place(A, r, a) \in 1 .. n
    <2> DEFINE UpTo == {b \in A : r[b] <= r[a]}
    <2>1. UpTo \subseteq A /\ a \in UpTo
      BY <1>1
    <2> HIDE DEF UpTo
    <2>2. IsFiniteSet(UpTo) /\ Cardinality(UpTo) <= n /\ Cardinality(UpTo) \in Nat
            /\ Cardinality(UpTo) # 0
      BY <1>1, <2>1, FS_Subset, FS_CardinalityType, FS_EmptySet
    <2>3. Place(A, r, a) = Cardinality(UpTo)
      BY DEF Place, UpTo
    <2> QED
      BY <1>1, <2>2, <2>3
  <1>5. ASSUME NEW a \in A, NEW b \in A, Place(A, r, a) <= Place(A, r, b)
        PROVE  r[a] <= r[b]
    <2> SUFFICES ASSUME r[b] < r[a]
                 PROVE  FALSE
      BY <1>1
    <2> DEFINE UpTo(c) == {z \in A : r[z] <= r[c]}
    <2>1. UpTo(b) \subseteq UpTo(a) /\ a \in UpTo(a) /\ a \notin UpTo(b) /\ UpTo(a) \subseteq A
      BY <1>1
    <2>2. Place(A, r, a) = Cardinality(UpTo(a)) /\ Place(A, r, b) = Cardinality(UpTo(b))
      BY DEF Place
    <2> HIDE DEF UpTo
    <2>3. IsFiniteSet(UpTo(a)) /\ IsFiniteSet(UpTo(b))
      BY <1>1, <2>1, FS_Subset
    <2>4. /\ Cardinality(UpTo(a)) \in Nat /\ Cardinality(UpTo(b)) \in Nat
          /\ Cardinality(UpTo(b)) <= Cardinality(UpTo(a))
          /\ Cardinality(UpTo(b)) # Cardinality(UpTo(a))
      BY <2>1, <2>3, FS_Subset, FS_CardinalityType
    <2> QED
      BY <1>5, <2>2, <2>4
  <1>6. ASSUME NEW a \in A
        PROVE  \E k \in DOMAIN u : u[k] = a
    <2>1. Place(A, r, a) \in 1 .. n
      BY <1>4
    <2>2. u[Place(A, r, a)] \in A /\ Place(A, r, u[Place(A, r, a)]) = Place(A, r, a)
      BY <1>2, <2>1
    <2>3. Place(A, r, a) \in Int
      BY <1>1, <2>1
    <2>4. r[u[Place(A, r, a)]] = r[a]
      BY <1>1, <1>5, <2>2, <2>3
    <2>5. u[Place(A, r, a)] = a
      BY <2>2, <2>4 DEF IsRanking
    <2> QED
      BY <1>3, <2>1, <2>5
  <1>7. ASSUME NEW k \in 1 .. n, NEW l \in 1 .. n, k < l
        PROVE  r[u[k]] < r[u[l]]
    <2>1. u[k] \in A /\ u[l] \in A /\ Place(A, r, u[k]) = k /\ Place(A, r, u[l]) = l
      BY <1>2
    <2>2. r[u[k]] <= r[u[l]]
      BY <1>1, <1>5, <1>7, <2>1
    <2>3. r[u[k]] # r[u[l]]
      BY <1>1, <1>7, <2>1 DEF IsRanking
    <2> QED
      BY <1>1, <2>1, <2>2, <2>3
  <1> QED
    BY <1>1, <1>3, <1>6, <1>7 DEF Lists

-----------------------------------------------------------------------------
(***************************************************************************)
(* A recursion over the numbers from a to b that starts with base and goes *)
(* on with g[n] at every further number n.                                 *)
(***************************************************************************)
Iterates(f, a, b, base, g) ==
  f = [n \in a .. b |-> IF n = a THEN base ELSE g[n][f[n - 1]]]

(* Such a recursion has a solution. *)
LEMMA IterationExists ==
  ASSUME NEW a \in Nat, NEW b \in Nat, NEW V, NEW base \in V, NEW g \in [a .. b -> [V -> V]]
  PROVE  \E f \in [a .. b -> V] : Iterates(f, a, b, base, g)
PROOF
  <1> DEFINE G == a .. b
             rank == [n \in G |-> n]
             Body(f) == [n \in G |-> IF n = a THEN base ELSE g[n][f[n - 1]]]
             Step == [f \in [G -> V] |-> Body(f)]
  <1>1. ASSUME NEW f \in [G -> V]
        PROVE  Body(f) \in [G -> V]
    <2>1. ASSUME NEW n \in G, n # a
          PROVE  g[n][f[n - 1]] \in V
      <3>1. n - 1 \in G
        BY <2>1
      <3> QED
        BY <3>1
    <2> QED
      BY <2>1
  <1>2. ASSUME NEW f \in [G -> V], NEW h \in [G -> V], NEW p \in G,
               \A q \in G : rank[q] < rank[p] => f[q] = h[q]
        PROVE  Body(f)[p] = Body(h)[p]
    <2>1. CASE p = a
      BY <2>1
    <2>2. CASE p # a
      <3>1. p - 1 \in G /\ rank[p - 1] < rank[p]
        BY <2>2
      <3>2. f[p - 1] = h[p - 1]
        BY <1>2, <3>1
      <3> QED
        BY <2>2, <3>2
    <2> QED
      BY <2>1, <2>2
  <1>3. /\ rank \in [G -> Nat] /\ \A p \in G : rank[p] < b + 1
        /\ b + 1 \in Nat /\ V # {}
    OBVIOUS
  <1> HIDE DEF G, rank, Body
  <1>4. Step \in [[G -> V] -> [G -> V]]
    BY <1>1
  <1>5. \A f \in [G -> V] : Step[f] = Body(f)
    OBVIOUS
  <1> HIDE DEF Step
  <1>6. \A f, h \in [G -> V] : \A p \in G :
          (\A q \in G : rank[q] < rank[p] => f[q] = h[q]) => Step[f][p] = Step[h][p]
    <2>1. ASSUME NEW f \in [G -> V], NEW h \in [G -> V], NEW p \in G,
                 \A q \in G : rank[q] < rank[p] => f[q] = h[q]
          PROVE  Step[f][p] = Step[h][p]
      <3>1. Body(f)[p] = Body(h)[p]
        BY <1>2, <2>1
      <3> QED
        BY <1>5, <3>1
    <2> QED
      BY <2>1
  <1>7. Descends(Step, G, V, rank, b + 1)
    BY <1>3, <1>4, <1>6 DEF Descends
  <1>8. \E f \in [G -> V] : f = Step[f]
    BY <1>7, RankRecursion
  <1>9. \E f \in [G -> V] : f = Body(f)
    BY <1>5, <1>8
  <1> QED
    BY <1>9 DEF Body, G, Iterates

-----------------------------------------------------------------------------
(***************************************************************************)
(* Sums over finite sets.  MapThenSumSet takes the elements one by one in  *)
(* an order of its own; Sums says what is left of it: f has the sum of the *)
(* weights w for every part of S, whichever element is taken first.        *)
(***************************************************************************)
Sums(w, S, f) ==
  /\ f \in [SUBSET S -> Int]
  /\ f[{}] = 0
  /\ \A s \in SUBSET S : \A x \in s : f[s] = w[x] + f[s \ {x}]

AnElement(s) == CHOOSE x \in s : TRUE

(* The recursion of MapThenSumSet, for the weights w. *)
SumsUp(w, S, f) ==
  [s \in SUBSET S |-> IF s = {} THEN 0 ELSE w[AnElement(s)] + f[s \ {AnElement(s)}]]

(* A part of a finite set has fewer elements when one is taken away. *)
LEMMA OneLess ==
  ASSUME NEW S, IsFiniteSet(S), NEW s \in SUBSET S, NEW x \in s
  PROVE  /\ IsFiniteSet(s) /\ Cardinality(s) \in Nat /\ Cardinality(s \ {x}) \in Nat
         /\ Cardinality(s \ {x}) < Cardinality(s) /\ s \ {x} \in SUBSET S
PROOF
  <1>1. IsFiniteSet(s)
    BY FS_Subset
  <1>2. IsFiniteSet(s \ {x}) /\ Cardinality(s \ {x}) = Cardinality(s) - 1
    BY <1>1, FS_RemoveElement
  <1>3. Cardinality(s) \in Nat /\ Cardinality(s \ {x}) \in Nat
    BY <1>1, <1>2, FS_CardinalityType
  <1> QED
    BY <1>1, <1>2, <1>3

(* The parts of a finite set by their size. *)
LEMMA PartsRanked ==
  ASSUME NEW S, IsFiniteSet(S)
  PROVE  /\ [s \in SUBSET S |-> Cardinality(s)] \in [SUBSET S -> Nat]
         /\ Cardinality(S) + 1 \in Nat
         /\ \A s \in SUBSET S : Cardinality(s) < Cardinality(S) + 1
PROOF
  <1>1. ASSUME NEW s \in SUBSET S
        PROVE  Cardinality(s) \in Nat /\ Cardinality(s) <= Cardinality(S)
    BY FS_Subset, FS_CardinalityType
  <1>2. Cardinality(S) \in Nat
    BY FS_CardinalityType
  <1> QED
    BY <1>1, <1>2

(* Two functions that agree on the smaller parts add up to the same. *)
LEMMA SumsUpAgree ==
  ASSUME NEW S, IsFiniteSet(S), NEW w, NEW f, NEW g, NEW s \in SUBSET S,
         \A t \in SUBSET S : Cardinality(t) < Cardinality(s) => f[t] = g[t]
  PROVE  SumsUp(w, S, f)[s] = SumsUp(w, S, g)[s]
PROOF
  <1>1. CASE s = {}
    BY <1>1 DEF SumsUp
  <1>2. CASE s # {}
    <2>1. AnElement(s) \in s
      BY <1>2 DEF AnElement
    <2>2. f[s \ {AnElement(s)}] = g[s \ {AnElement(s)}]
      BY <2>1, OneLess
    <2> QED
      BY <1>2, <2>2 DEF SumsUp
  <1> QED
    BY <1>1, <1>2

(* The recursion has a solution. *)
LEMMA SumsUpExists ==
  ASSUME NEW S, IsFiniteSet(S), NEW w, \A x \in S : w[x] \in Int
  PROVE  \E f \in [SUBSET S -> Int] : f = SumsUp(w, S, f)
PROOF
  <1> DEFINE G == SUBSET S
             rank == [s \in G |-> Cardinality(s)]
             N == Cardinality(S) + 1
             Step == [f \in [G -> Int] |-> SumsUp(w, S, f)]
  <1>1. rank \in [G -> Nat] /\ N \in Nat /\ \A s \in G : rank[s] < N
    BY PartsRanked
  <1>2. ASSUME NEW f \in [G -> Int]
        PROVE  SumsUp(w, S, f) \in [G -> Int]
    <2>1. ASSUME NEW s \in G, s # {}
          PROVE  w[AnElement(s)] + f[s \ {AnElement(s)}] \in Int
      <3>1. AnElement(s) \in s
        BY <2>1 DEF AnElement
      <3>2. w[AnElement(s)] \in Int
        BY <3>1
      <3>3. f[s \ {AnElement(s)}] \in Int
        BY <3>1
      <3> QED
        BY <3>2, <3>3
    <2> QED
      BY <2>1 DEF SumsUp
  <1>3. ASSUME NEW f \in [G -> Int], NEW g \in [G -> Int], NEW s \in G,
               \A t \in G : rank[t] < rank[s] => f[t] = g[t]
        PROVE  SumsUp(w, S, f)[s] = SumsUp(w, S, g)[s]
    <2>1. \A t \in SUBSET S : Cardinality(t) < Cardinality(s) => f[t] = g[t]
      BY <1>3
    <2>2. s \in SUBSET S
      OBVIOUS
    <2> HIDE DEF G, rank, N, Step
    <2> QED
      BY <2>1, <2>2, SumsUpAgree
  <1> HIDE DEF G, rank, N
  <1>4. Step \in [[G -> Int] -> [G -> Int]] /\ \A f \in [G -> Int] : Step[f] = SumsUp(w, S, f)
    BY <1>2
  <1> HIDE DEF Step
  <1>5. \A f, g \in [G -> Int] : \A s \in G :
          (\A t \in G : rank[t] < rank[s] => f[t] = g[t]) => Step[f][s] = Step[g][s]
    BY <1>3, <1>4
  <1>6. Descends(Step, G, Int, rank, N)
    BY <1>1, <1>4, <1>5 DEF Descends
  <1>7. \E f \in [G -> Int] : f = Step[f]
    BY <1>6, RankRecursion
  <1> QED
    BY <1>4, <1>7 DEF G

(***************************************************************************)
(* The solution does not depend on which element goes first.               *)
(***************************************************************************)
LEMMA SumsUpSums ==
  ASSUME NEW S, IsFiniteSet(S), NEW w, \A x \in S : w[x] \in Int,
         NEW f \in [SUBSET S -> Int], f = SumsUp(w, S, f)
  PROVE  Sums(w, S, f)
PROOF
  <1> DEFINE G == SUBSET S
             rank == [s \in G |-> Cardinality(s)]
             T == {s \in G : \A x \in s : f[s] = w[x] + f[s \ {x}]}
  <1>1. f[{}] = 0
    BY DEF SumsUp
  <1>2. ASSUME NEW s \in G, s # {}
        PROVE  AnElement(s) \in s /\ f[s] = w[AnElement(s)] + f[s \ {AnElement(s)}]
    <2>1. AnElement(s) \in s
      BY <1>2 DEF AnElement
    <2>2. f[s] = SumsUp(w, S, f)[s]
      OBVIOUS
    <2> QED
      BY <1>2, <2>1, <2>2 DEF SumsUp
  <1>3. rank \in [G -> Nat]
    BY PartsRanked
  <1>4. ASSUME NEW s \in G, \A t \in G : rank[t] < rank[s] => t \in T, NEW x \in s
        PROVE  f[s] = w[x] + f[s \ {x}]
    <2> DEFINE y == AnElement(s)
    <2>1. y \in s /\ f[s] = w[y] + f[s \ {y}]
      BY <1>2
    <2> HIDE DEF y
    <2>2. CASE x = y
      BY <2>1, <2>2
    <2>3. CASE x # y
      <3>1. x \in s \ {y} /\ y \in s \ {x}
        BY <2>1, <2>3
      <3>2. s \ {y} \in T /\ s \ {x} \in T
        <4>1. /\ Cardinality(s \ {y}) < Cardinality(s) /\ s \ {y} \in G
              /\ Cardinality(s \ {x}) < Cardinality(s) /\ s \ {x} \in G
          BY <2>1, OneLess
        <4> QED
          BY <1>4, <4>1
      <3>3. f[s \ {y}] = w[x] + f[(s \ {y}) \ {x}] /\ f[s \ {x}] = w[y] + f[(s \ {x}) \ {y}]
        BY <3>1, <3>2
      <3>4. (s \ {y}) \ {x} = (s \ {x}) \ {y} /\ (s \ {x}) \ {y} \in G
        OBVIOUS
      <3>5. w[x] \in Int /\ w[y] \in Int /\ f[(s \ {x}) \ {y}] \in Int
        BY <2>1, <3>4
      <3>6. f[s] = w[y] + (w[x] + f[(s \ {x}) \ {y}])
        BY <2>1, <3>3, <3>4
      <3> DEFINE rest == f[(s \ {x}) \ {y}]
      <3> HIDE DEF rest
      <3>7. w[y] + (w[x] + rest) = w[x] + (w[y] + rest)
        BY <3>5 DEF rest
      <3> QED
        BY <3>3, <3>6, <3>7 DEF rest
    <2> QED
      BY <2>2, <2>3
  <1>5. \A s \in G : s \in T
    <2>1. \A s \in G : (\A t \in G : rank[t] < rank[s] => t \in T) => s \in T
      BY <1>4
    <2> HIDE DEF G, rank, T
    <2> QED
      BY <1>3, <2>1, RankInduction
  <1> QED
    BY <1>1, <1>5 DEF Sums

(* What a part adds up to does not depend on the set it is seen in. *)
AddsUp(w, S, f) == f = SumsUp(w, S, f)

LEMMA SumsUpOnParts ==
  ASSUME NEW S, NEW w, NEW f, AddsUp(w, S, f),
         NEW T \in SUBSET S, IsFiniteSet(T), NEW h, AddsUp(w, T, h)
  PROVE  h[T] = f[T]
PROOF
  <1> DEFINE G == SUBSET T
             rank == [s \in G |-> Cardinality(s)]
             Same == {s \in G : h[s] = f[s]}
  <1>1. ASSUME NEW s \in G, \A t \in G : rank[t] < rank[s] => t \in Same
        PROVE  h[s] = f[s]
    <2>1. h[s] = SumsUp(w, T, h)[s] /\ f[s] = SumsUp(w, S, f)[s]
      BY DEF AddsUp
    <2>2. SumsUp(w, S, f)[s] = SumsUp(w, T, f)[s]
      <3>1. s \in SUBSET T /\ s \in SUBSET S
        OBVIOUS
      <3> QED
        BY <3>1 DEF SumsUp
    <2>3. SumsUp(w, T, h)[s] = SumsUp(w, T, f)[s]
      <3>1. \A t \in SUBSET T : Cardinality(t) < Cardinality(s) => h[t] = f[t]
        BY <1>1
      <3> QED
        BY <3>1, SumsUpAgree
    <2> QED
      BY <2>1, <2>2, <2>3
  <1>2. \A s \in G : s \in Same
    <2>1. rank \in [G -> Nat]
      BY PartsRanked
    <2>2. \A s \in G : (\A t \in G : rank[t] < rank[s] => t \in Same) => s \in Same
      BY <1>1
    <2> HIDE DEF G, rank, Same
    <2> QED
      BY <2>1, <2>2, RankInduction
  <1> QED
    BY <1>2 DEF Same, G

(* Sums of weights that are not negative are not negative either. *)
LEMMA SumsArePositive ==
  ASSUME NEW S, IsFiniteSet(S), NEW w, \A x \in S : w[x] \in Nat, NEW f, Sums(w, S, f)
  PROVE  \A s \in SUBSET S : f[s] \in Nat
PROOF
  <1> DEFINE G == SUBSET S
             rank == [s \in G |-> Cardinality(s)]
             T == {s \in G : f[s] \in Nat}
  <1>1. rank \in [G -> Nat]
    BY PartsRanked
  <1>2. ASSUME NEW s \in G, \A t \in G : rank[t] < rank[s] => t \in T
        PROVE  f[s] \in Nat
    <2>1. CASE s = {}
      BY <2>1 DEF Sums
    <2>2. CASE s # {}
      <3>1. PICK x \in s : TRUE
        BY <2>2
      <3>2. f[s] = w[x] + f[s \ {x}] /\ w[x] \in Nat
        BY <3>1 DEF Sums
      <3>3. f[s \ {x}] \in Nat
        BY <1>2, <3>1, OneLess
      <3> QED
        BY <3>2, <3>3
    <2> QED
      BY <2>1, <2>2
  <1>3. \A s \in G : s \in T
    <2>1. \A s \in G : (\A t \in G : rank[t] < rank[s] => t \in T) => s \in T
      BY <1>2
    <2> HIDE DEF G, rank, T
    <2> QED
      BY <1>1, <2>1, RankInduction
  <1> QED
    BY <1>3

(* T has the numbers of S, moved by k, and they weigh the same. *)
IsMoved(w, S, k, T) ==
  /\ S \in SUBSET Int /\ k \in Int /\ T = {x + k : x \in S}
  /\ \A x \in S : w[x + k] = w[x]

(* So they add up to the same. *)
LEMMA MovedSums ==
  ASSUME NEW S, IsFiniteSet(S), NEW k, NEW T, NEW w, IsMoved(w, S, k, T),
         NEW f, Sums(w, S, f), NEW g, Sums(w, T, g)
  PROVE  f[S] = g[T]
PROOF
  <1> DEFINE Moved(s) == {x + k : x \in s}
             G == SUBSET S
             rank == [s \in G |-> Cardinality(s)]
             Same == {s \in G : f[s] = g[Moved(s)]}
  <1>0. /\ S \in SUBSET Int /\ k \in Int /\ T = Moved(S)
        /\ \A x \in S : w[x + k] = w[x]
    BY DEF IsMoved
  <1>1. rank \in [G -> Nat]
    BY PartsRanked
  <1>2. ASSUME NEW s \in G, \A t \in G : rank[t] < rank[s] => t \in Same
        PROVE  f[s] = g[Moved(s)]
    <2>1. CASE s = {}
      <3>1. Moved(s) = {}
        BY <2>1
      <3> QED
        BY <2>1, <3>1 DEF Sums
    <2>2. CASE s # {}
      <3>1. PICK x \in s : TRUE
        BY <2>2
      <3>2. f[s] = w[x] + f[s \ {x}]
        BY <3>1 DEF Sums
      <3>3. f[s \ {x}] = g[Moved(s \ {x})]
        BY <1>2, <3>1, OneLess
      <3>4. Moved(s) \in SUBSET T /\ x + k \in Moved(s)
        BY <1>0, <3>1
      <3>5. Moved(s \ {x}) = Moved(s) \ {x + k}
        <4>1. \A y \in s : y \in Int /\ x \in Int /\ (y + k = x + k => y = x)
          BY <1>0, <3>1
        <4> QED
          BY <4>1
      <3>6. w[x + k] = w[x]
        BY <1>0, <3>1
      <3>7. g[Moved(s)] = w[x + k] + g[Moved(s) \ {x + k}]
        <4> HIDE DEF Moved
        <4> QED
          BY <3>4 DEF Sums
      <3> QED
        BY <3>2, <3>3, <3>5, <3>6, <3>7
    <2> QED
      BY <2>1, <2>2
  <1>3. \A s \in G : s \in Same
    <2>1. \A s \in G : (\A t \in G : rank[t] < rank[s] => t \in Same) => s \in Same
      BY <1>2
    <2> HIDE DEF G, rank, Same
    <2> QED
      BY <1>1, <2>1, RankInduction
  <1> QED
    BY <1>0, <1>3
=============================================================================
