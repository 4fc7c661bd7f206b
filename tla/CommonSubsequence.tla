-------------------------- MODULE CommonSubsequence --------------------------
(***************************************************************************)
(* The two algorithms ComputeWeakMove chooses from to tell which children  *)
(* of a node stay in place: lcss, the heaviest common subsequence, and     *)
(* easy_css, a quick one for long sequences.                               *)
(*                                                                         *)
(* A sequence has elements [data |-> d, weight |-> w].  The code marks the *)
(* elements left out by zeroing their data; here the operators return the  *)
(* data of the elements that are kept.                                     *)
(***************************************************************************)
EXTENDS Integers, Sequences

(***************************************************************************)
(* min3: which of a, b and c is least; of equal costs a deletion is taken  *)
(* before a keep, a keep before an insertion unless the deletion is the    *)
(* larger of the two.                                                      *)
(***************************************************************************)
Min3(a, b, c) ==
  IF a <= b
  THEN IF a <= c THEN "delete" ELSE "keep"
  ELSE IF b <= c THEN "insert" ELSE "keep"

(* The dearer one. *)
Max2(a, b) == IF a < b THEN "insert" ELSE "delete"

(* The two costs the code compares for two different elements. *)
Min2(a, b) == IF a < b THEN "delete" ELSE "insert"

(***************************************************************************)
(* lcss: a table of the cheapest way to turn the first i elements of s1    *)
(* into the first j elements of s2, where deleting or inserting an element *)
(* costs its weight and keeping it nothing.  A cell has the cost and what  *)
(* is kept on the path that leads there.                                   *)
(***************************************************************************)
Spend(cell, e) == [cell EXCEPT !.cost = @ + e.weight]

Keep(cell, e) == [cell EXCEPT !.kept = @ \cup {e.data}]

Cell(above, left, corner, e, f) ==
  LET delete == above.cost + e.weight
      insert == left.cost + f.weight
      origin == IF e.data = f.data THEN Min3(delete, insert, corner.cost)
                ELSE Min2(delete, insert)
  IN CASE origin = "delete" -> Spend(above, e)
       [] origin = "insert" -> Spend(left, f)
       [] origin = "keep"   -> Keep(corner, e)

Lcss(s1, s2) ==
  LET cell[p \in (0 .. Len(s1)) \X (0 .. Len(s2))] ==
        LET i == p[1]
            j == p[2]
        IN IF i = 0
           THEN IF j = 0 THEN [cost |-> 0, kept |-> {}]
                ELSE Spend(cell[<<0, j - 1>>], s2[j])
           ELSE IF j = 0 THEN Spend(cell[<<i - 1, 0>>], s1[i])
           ELSE Cell(cell[<<i - 1, j>>], cell[<<i, j - 1>>], cell[<<i - 1, j - 1>>],
                     s1[i], s2[j])
  IN cell[<<Len(s1), Len(s2)>>].kept

(***************************************************************************)
(* easy_css: walks both sequences; whenever the next element of s2 is not  *)
(* the next one left in s1 it is thrown away from both.  ahead has the     *)
(* places of s1 that are left after the first k elements of s2.            *)
(***************************************************************************)
EasyCss(s1, s2) ==
  LET walk[k \in 0 .. Len(s2)] ==
        IF k = 0 THEN [ahead |-> 1 .. Len(s1), kept |-> {}]
        ELSE LET left  == walk[k - 1]
                 found == {p \in left.ahead : s1[p].data = s2[k].data}
             IN [ahead |-> left.ahead \ found,
                 kept  |-> IF \E p \in found : \A q \in left.ahead : p <= q
                           THEN left.kept \cup {s2[k].data} ELSE left.kept]
  IN walk[Len(s2)].kept
=============================================================================
