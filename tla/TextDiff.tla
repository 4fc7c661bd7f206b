------------------------------ MODULE TextDiff ------------------------------
(***************************************************************************)
(* XyStrDiff: the operations that turn an old text into a new one,         *)
(* character by character.                                                 *)
(*                                                                         *)
(* A text is a sequence of characters.  An operation has a kind ("td"      *)
(* deletes, "ti" inserts, "tr" replaces), the place in the old text where  *)
(* it starts (from 0), the number of characters it takes away and the text *)
(* it brings.                                                              *)
(***************************************************************************)
EXTENDS Integers, Sequences, SequencesExt, FiniteSetsExt

Operation(kind, pos, len, text) ==
  [kind |-> kind, pos |-> pos, len |-> len, text |-> text]

(***************************************************************************)
(* The calls to registerBuffer that calculatePath makes: character i of x  *)
(* is kept or deleted, or character j of y is inserted.                    *)
(***************************************************************************)
KeepOld(x, i) == [op |-> "noop", at |-> i - 1, chr |-> x[i]]

(* The same with no exception for the end of the texts. *)
DeleteOldAnywhere(x, i, last) == [op |-> "del", at |-> i - 1, chr |-> x[i]]

DeleteOld(x, i, last) == [op |-> "del", at |-> IF last THEN i ELSE i - 1, chr |-> x[i]]

InsertNew(y, i, j) == [op |-> "ins", at |-> i, chr |-> y[j]]

(* The cells of a table for x and y: how much is taken of each. *)
Cells(x, y) == (0 .. Len(x)) \X (0 .. Len(y))

(* A table that looks at one side only. *)
CommonFromAbove(x, y) ==
  LET c[p \in Cells(x, y)] ==
        LET i == p[1]  j == p[2] IN
        IF i = 0 \/ j = 0 THEN 0
        ELSE IF x[i] = y[j] THEN c[<<i - 1, j - 1>>] + 1
        ELSE c[<<i, j - 1>>]
  IN c

(***************************************************************************)
(* The table of LevenshteinDistance.  For all its name it holds the length *)
(* of the longest common subsequence of the first i characters of x and    *)
(* the first j of y.                                                       *)
(***************************************************************************)
Common(x, y) ==
  LET c[p \in Cells(x, y)] ==
        LET i == p[1]  j == p[2] IN
        IF i = 0 \/ j = 0 THEN 0
        ELSE IF x[i] = y[j] THEN c[<<i - 1, j - 1>>] + 1
        ELSE Max({c[<<i, j - 1>>], c[<<i - 1, j>>]})
  IN c

(* With a tie the character of x goes, whatever else is in its row. *)
DropOldOnTies(c, i, j) == i > 0 /\ (j = 0 \/ c[<<i, j - 1>>] <= c[<<i - 1, j>>])

(* Where the texts differ a character of x is dropped only if it is better. *)
DropOld(c, i, j) == i > 0 /\ (j = 0 \/ c[<<i, j - 1>>] < c[<<i - 1, j>>])

(***************************************************************************)
(* calculatePath: back from the ends of both texts, to be registered in    *)
(* the order of the texts.  Paths has the way to every cell of the table.  *)
(***************************************************************************)
Paths(x, y) ==
  LET c == Common(x, y)
      path[p \in Cells(x, y)] ==
        LET i == p[1]  j == p[2] IN
        IF i > 0 /\ j > 0 /\ x[i] = y[j]
        THEN Append(path[<<i - 1, j - 1>>], KeepOld(x, i))
        ELSE IF DropOld(c, i, j)
        THEN Append(path[<<i - 1, j>>], DeleteOld(x, i, i = Len(x) /\ j = Len(y)))
        ELSE IF j > 0 THEN Append(path[<<i, j - 1>>], InsertNew(y, i, j))
        ELSE <<>>
  IN path

Path(x, y) == Paths(x, y)[<<Len(x), Len(y)>>]

-----------------------------------------------------------------------------
(* XyStrDiff's buffers before the first call to registerBuffer. *)
EmptyBuffers == [op |-> "none", at |-> 0, del |-> <<>>, ins |-> <<>>, out |-> <<>>]

(* flushBuffers: the operation that is pending is appended to the delta. *)
FlushBuffers(b) ==
  LET start == b.at - Len(b.del) IN
  CASE b.op = "sub" -> [b EXCEPT !.out = Append(@, Operation("tr", start, Len(b.del), b.ins)),
                                 !.del = <<>>, !.ins = <<>>]
    [] b.op = "ins" -> [b EXCEPT !.out = Append(@, Operation("ti", b.at, 0, b.ins)),
                                 !.ins = <<>>]
    [] b.op = "del" -> [b EXCEPT !.out = Append(@, Operation("td", start, Len(b.del), <<>>)),
                                 !.del = <<>>]
    [] OTHER -> b

(***************************************************************************)
(* registerBuffer: a deletion followed by an insertion becomes a           *)
(* replacement, which goes on until a character is kept.                   *)
(***************************************************************************)
RegisterBuffer(b, step) ==
  LET seen == [b EXCEPT !.at = step.at] IN
  CASE step.op = "noop" -> [FlushBuffers(seen) EXCEPT !.op = "noop"]
    [] step.op = "del"  -> [seen EXCEPT !.del = Append(@, step.chr),
                                        !.op = IF b.op = "sub" THEN "sub" ELSE "del"]
    [] step.op = "ins"  -> [seen EXCEPT !.ins = Append(@, step.chr),
                                        !.op = IF b.op \in {"del", "sub"} THEN "sub" ELSE "ins"]

(* simpleReplace: the whole text at once. *)
SimpleReplace(x, y) == <<Operation("tr", 0, Len(x), y)>>
=============================================================================
