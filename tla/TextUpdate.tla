----------------------------- MODULE TextUpdate -----------------------------
(***************************************************************************)
(* The update of one text: XyStrDiff makes the operations for an old and a *)
(* new value, and DeltaApplyEngine::TextNode_Update has XyStrDeltaApply do *)
(* them, the last one first.                                               *)
(*                                                                         *)
(* Without annotations only a copy of the old value is edited.  With them  *)
(* (xydelta --apply-annotations) the text is cut up below its parent:      *)
(* nodes is the list of the parent's children, each a text, or a text in a *)
(* "d" element (xyu:d, taken away) or in an "i" element (xyu:i, new).      *)
(* Attributes and XIDs of these elements are left out; all of them have    *)
(* the change number 1.                                                    *)
(***************************************************************************)
EXTENDS TextDiff

CONSTANTS
  Texts,        \* the pairs of old and new values that may be compared
  ShortMax,     \* the largest unsigned short (65535)
  Tab, Newline

ASSUME TextAssumption ==
  /\ \A t \in Texts : \A n \in {1, 2} : t[n] \in Seq(Range(t[n])) /\ t[n] # <<>>
  /\ ShortMax \in Nat \ {0}

VARIABLES
  old, new,    \* the two values
  annotate,    \* applyAnnotations
  phase,
  k,           \* the unsigned short of the loops that clear the table, or the
               \* index of the merging loops of complete
  path,        \* the calls to registerBuffer that calculatePath has still to make
  buffers,     \* what is registered and not yet part of the delta, and the delta
  ops,         \* the children of the u element
  applied,     \* how many of them, from the last, have been done
  value,       \* currentValue
  nodes        \* the children of the text's parent

vars == <<old, new, annotate, phase, k, path, buffers, ops, applied, value, nodes>>

Phases == {"clearRow", "clearColumn", "path", "register", "apply", "complete", "merge", "join",
           "done", "undefined"}

Node(tag, text) == [tag |-> tag, text |-> text]

Init ==
  /\ \E t \in Texts : old = t[1] /\ new = t[2]
  /\ annotate \in BOOLEAN
  /\ phase = IF Len(old) > ShortMax \/ Len(new) > ShortMax THEN "path" ELSE "clearRow"
  /\ k = 0
  /\ path = <<>>
  /\ buffers = EmptyBuffers
  /\ ops = <<>>
  /\ applied = 0
  /\ value = old
  /\ nodes = <<Node("text", old)>>

-----------------------------------------------------------------------------
(* XyStrDiff *)

(* A counter that wraps one too early. *)
ClearWithNarrowCounter(text, next) ==
  IF k < Len(text) + 1
  THEN k' = (k + 1) % ShortMax /\ UNCHANGED phase
  ELSE k' = 0 /\ phase' = next

(***************************************************************************)
(* The loops that clear the first row and the first column of the table: k *)
(* is an unsigned short, the bound an int one larger than the length.      *)
(***************************************************************************)
Clear(text, next) ==
  IF k < Len(text) + 1
  THEN k' = (k + 1) % (ShortMax + 1) /\ UNCHANGED phase
  ELSE k' = 0 /\ phase' = next

ClearRow ==
  /\ phase = "clearRow" /\ Clear(old, "clearColumn")
  /\ UNCHANGED <<old, new, annotate, path, buffers, ops, applied, value, nodes>>

ClearColumn ==
  /\ phase = "clearColumn" /\ Clear(new, "path")
  /\ UNCHANGED <<old, new, annotate, path, buffers, ops, applied, value, nodes>>

(* LevenshteinDistance: the way through the table, or one replacement. *)
CalculatePath ==
  /\ phase = "path"
  /\ IF Len(old) > ShortMax \/ Len(new) > ShortMax
     THEN /\ ops' = SimpleReplace(old, new) /\ phase' = "apply"
          /\ UNCHANGED path
     ELSE /\ path' = Path(old, new) /\ phase' = "register"
          /\ UNCHANGED ops
  /\ UNCHANGED <<old, new, annotate, k, buffers, applied, value, nodes>>

(* The loop of calculatePath over the way, and the last flushBuffers. *)
Register ==
  /\ phase = "register"
  /\ IF path = <<>>
     THEN /\ ops' = FlushBuffers(buffers).out /\ buffers' = EmptyBuffers
          /\ phase' = "apply" /\ UNCHANGED path
     ELSE /\ buffers' = RegisterBuffer(buffers, Head(path))
          /\ path' = Tail(path)
          /\ UNCHANGED <<ops, phase>>
  /\ UNCHANGED <<old, new, annotate, k, applied, value, nodes>>

-----------------------------------------------------------------------------
(* XyStrDeltaApply *)

(* The tree walker's filter: no empty text, no text in a d element. *)
Accepted(node) == node.tag # "d" /\ node.text # <<>>

(* The text before the node numbered n that the walker has passed. *)
Passed(list, n) ==
  LET passed[m \in 0 .. Len(list)] ==
        IF m = 0 THEN 0
        ELSE IF Accepted(list[m]) THEN passed[m - 1] + Len(list[m].text) ELSE passed[m - 1]
  IN passed[n - 1]

From(text, i) == SubSeq(text, i + 1, Len(text))

(***************************************************************************)
(* remove: the part of a node between two places is taken away.  A text    *)
(* becomes three; of a new text nothing has to be remembered.              *)
(***************************************************************************)
Cut(node, before, start, end) ==
  LET size == Len(node.text)
      a == Max({0, start - before})
      b == Min({size, end - before})
  IN IF ~Accepted(node) \/ before + size <= start \/ before > end THEN <<node>>
     ELSE IF node.tag = "text"
     THEN <<Node("text", SubSeq(node.text, 1, a)),
            Node("d", SubSeq(node.text, a + 1, b)),
            Node("text", From(node.text, b))>>
     ELSE IF a = 0 /\ b = size THEN <<>>
     ELSE <<Node("i", SubSeq(node.text, 1, a) \o From(node.text, b))>>

RemoveText(list, start, end) ==
  FlattenSeq([n \in DOMAIN list |-> Cut(list[n], Passed(list, n), start, end)])

(***************************************************************************)
(* insert: the node the new text goes into, the first that reaches beyond  *)
(* the place, or the very first if it ends there.  When there is none      *)
(* nothing is inserted.                                                    *)
(***************************************************************************)
Reaches(list, n, pos) ==
  LET before == Passed(list, n)
      size   == Len(list[n].text)
  IN /\ Accepted(list[n]) /\ before <= pos
     /\ before + size > pos \/ (before = 0 /\ size = pos)

(* The new text behind what the walker found. *)
SplitAfter(node, i, text) == <<node, Node("i", text)>>

(* The new text inside what the walker found. *)
SplitAt(node, i, text) ==
  IF i = 0 THEN <<Node("i", text), node>>
  ELSE <<Node(node.tag, SubSeq(node.text, 1, i)), Node("i", text),
         Node(node.tag, From(node.text, i))>>

InsertText(list, pos, text) ==
  LET reached == {n \in DOMAIN list : Reaches(list, n, pos)} IN
  IF reached = {} THEN list
  ELSE LET n == Min(reached)
       IN SubSeq(list, 1, n - 1)
          \o SplitAt(list[n], pos - Passed(list, n), text)
          \o From(list, n)

(* What an operation does to the children of the parent. *)
Annotated(list, op) ==
  LET cut == IF op.kind = "ti" THEN list ELSE RemoveText(list, op.pos, op.pos + op.len)
  IN IF op.kind = "td" THEN cut ELSE InsertText(cut, op.pos, op.text)

(* What it does to the copy of the value: the text itself is not touched. *)
Edited(text, op) ==
  SubSeq(text, 1, op.pos) \o op.text \o From(text, op.pos + op.len)

(* The children of the u element, from the last to the first. *)
LastOneFirst == ops[Len(ops) - applied]

TextNodeUpdate ==
  /\ phase = "apply"
  /\ IF applied = Len(ops)
     THEN phase' = "complete" /\ UNCHANGED <<applied, value, nodes>>
     ELSE /\ applied' = applied + 1
          /\ IF annotate
             THEN nodes' = Annotated(nodes, LastOneFirst) /\ UNCHANGED value
             ELSE value' = Edited(value, LastOneFirst) /\ UNCHANGED nodes
          /\ UNCHANGED phase
  /\ UNCHANGED <<old, new, annotate, k, path, buffers, ops>>

-----------------------------------------------------------------------------
(* complete *)

(* DOMNode::normalize: empty texts go, texts side by side become one. *)
WithNode(done, node) ==
  IF node.tag # "text" THEN Append(done, node)
  ELSE IF node.text = <<>> THEN done
  ELSE IF done # <<>> /\ Last(done).tag = "text"
  THEN Front(done) \o <<Node("text", Last(done).text \o node.text)>>
  ELSE Append(done, node)

Normalized(list) ==
  LET done[n \in 0 .. Len(list)] ==
        IF n = 0 THEN <<>> ELSE WithNode(done[n - 1], list[n])
  IN done[Len(list)]

(* The loops over the children without their start at the second child. *)
CompleteWithoutReset ==
  /\ phase = "complete"
  /\ phase' = (IF annotate THEN "merge" ELSE "done")
  /\ nodes' = IF annotate THEN Normalized(nodes) ELSE <<Node("text", value)>>
  /\ UNCHANGED <<old, new, annotate, k, path, buffers, ops, applied, value>>

Complete ==
  /\ phase = "complete"
  /\ IF annotate
     THEN phase' = "merge" /\ k' = 1 /\ nodes' = Normalized(nodes)
     ELSE phase' = "done" /\ nodes' = <<Node("text", value)>> /\ UNCHANGED k
  /\ UNCHANGED <<old, new, annotate, path, buffers, ops, applied, value>>

(***************************************************************************)
(* textNodeHasWhitespace looks for two tabs and a newline in a row, not    *)
(* for any whitespace; what is not a text has none.                        *)
(***************************************************************************)
TextNodeHasWhitespace(node) ==
  /\ node.tag = "text"
  /\ \E i \in 1 .. (Len(node.text) - 2) :
       SubSeq(node.text, i, i + 2) = <<Tab, Tab, Newline>>

IsElement(node) == node.tag # "text"

Part(node, tag) == IF node.tag = tag THEN node.text ELSE <<>>

(* mergeNodes: three nodes become what they take away and what they bring. *)
MergeNodes(a, b, c) ==
  <<Node("d", Part(a, "d") \o b.text \o Part(c, "d")),
    Node("i", Part(a, "i") \o b.text \o Part(c, "i"))>>

(***************************************************************************)
(* The first loop of complete: two elements with a text between them that  *)
(* has no whitespace.  After a merge the same place is looked at again,    *)
(* where the node between may now be an element, whose value is NULL.      *)
(***************************************************************************)
Merge ==
  /\ phase = "merge"
  /\ IF k + 2 > Len(nodes)
     THEN phase' = "join" /\ k' = 1 /\ UNCHANGED nodes
     ELSE LET a == nodes[k]  b == nodes[k + 1]  c == nodes[k + 2]
              merges == ~TextNodeHasWhitespace(b) /\ IsElement(a) /\ IsElement(c)
          IN /\ phase' = IF merges /\ IsElement(b) THEN "undefined" ELSE "merge"
             /\ k' = IF merges THEN k ELSE k + 1
             /\ nodes' = IF ~merges \/ IsElement(b) THEN nodes
                         ELSE SubSeq(nodes, 1, k - 1) \o MergeNodes(a, b, c)
                              \o From(nodes, k + 2)
  /\ UNCHANGED <<old, new, annotate, path, buffers, ops, applied, value>>

(* The second loop, with mergeTwoNodes: elements of one kind side by side. *)
Join ==
  /\ phase = "join"
  /\ IF k + 1 > Len(nodes)
     THEN phase' = "done" /\ UNCHANGED <<k, nodes>>
     ELSE LET a == nodes[k]  b == nodes[k + 1]
              joins == IsElement(a) /\ a.tag = b.tag
          IN /\ UNCHANGED phase
             /\ k' = IF joins THEN k ELSE k + 1
             /\ nodes' = IF ~joins THEN nodes
                         ELSE SubSeq(nodes, 1, k - 1)
                              \o <<Node(a.tag, a.text \o b.text)>> \o From(nodes, k + 1)
  /\ UNCHANGED <<old, new, annotate, path, buffers, ops, applied, value>>

Next ==
  \/ ClearRow \/ ClearColumn \/ CalculatePath \/ Register
  \/ TextNodeUpdate \/ Complete \/ Merge \/ Join

Spec == Init /\ [][Next]_vars

(* One thread does all of it. *)
FairSpec == Spec /\ WF_vars(Next)

-----------------------------------------------------------------------------
(* The value read from the children of the parent, all nodes with such tags. *)
Reading(tags) ==
  FlattenSeq([n \in DOMAIN nodes |-> IF nodes[n].tag \in tags THEN nodes[n].text ELSE <<>>])

TypeOK ==
  /\ phase \in Phases
  /\ k \in 0 .. Max({ShortMax, Len(nodes) + 1})
  /\ applied \in 0 .. Len(ops)
  /\ \A n \in DOMAIN nodes : nodes[n].tag \in {"text", "d", "i"}
  /\ phase \in {"merge", "join"} => annotate /\ k \in 1 .. (Len(nodes) + 1)

(* xydelta reconstructs the second document: the text gets its new value. *)
RebuildsNew == phase = "done" /\ ~annotate => nodes = <<Node("text", new)>>

(***************************************************************************)
(* Doing the last operation first is right because the operations follow   *)
(* each other in the text and at least one character stays between two of  *)
(* them: none moves the place of another.  Each changes something.         *)
(***************************************************************************)
OperationsApart ==
  /\ \A n \in DOMAIN ops :
       /\ ops[n].pos >= 0 /\ ops[n].pos + ops[n].len <= Len(old)
       /\ ops[n].len > 0 \/ ops[n].text # <<>>
  /\ \A n \in 1 .. (Len(ops) - 1) : ops[n].pos + ops[n].len < ops[n + 1].pos

(* The places of the old text that no operation takes away. *)
Stays ==
  {i \in DOMAIN old : \A n \in DOMAIN ops : ~(ops[n].pos < i /\ i <= ops[n].pos + ops[n].len)}

(* f finds what stands at the places S of the old text in the new, in order. *)
FoundAgain(S, f) ==
  /\ \A s \in S : old[s] = new[f[s]]
  /\ \A s, t \in S : s < t => f[s] < f[t]

(***************************************************************************)
(* The buffers lose nothing and the table leads to the shortest way: what  *)
(* stays of the old text is in the new one in the same order, and no       *)
(* larger part of it is.  Not so for texts that are too long for the       *)
(* table.                                                                  *)
(***************************************************************************)
FewestChanges ==
  phase = "apply" /\ applied = 0 /\ Len(old) <= ShortMax /\ Len(new) <= ShortMax =>
    /\ \E f \in [Stays -> DOMAIN new] : FoundAgain(Stays, f)
    /\ \A S \in SUBSET DOMAIN old :
         Cardinality(S) > Cardinality(Stays) =>
           ~ \E f \in [S -> DOMAIN new] : FoundAgain(S, f)

(***************************************************************************)
(* At every moment the annotated text still holds the old value, what was  *)
(* taken away included.  In the end it holds the new one too, unless one   *)
(* operation has taken all of the old text away.                           *)
(***************************************************************************)
AnnotatedReadsBack ==
  /\ annotate => Reading({"text", "d"}) = old
  /\ annotate /\ phase = "done" /\ (\A n \in DOMAIN ops : ops[n].len < Len(old)) =>
       Reading({"text", "i"}) = new

(***************************************************************************)
(* README: the delta is applied "in order to reconstruct the second"       *)
(* document; with annotations the new value is the text with the xyu:i     *)
(* elements.  Not so when the whole text is replaced: once it is all in a  *)
(* xyu:d element, insert finds no text to put the new one next to.         *)
(***************************************************************************)
AnnotatedReadsAsNew ==
  annotate /\ phase = "done" => Reading({"text", "i"}) = new

(***************************************************************************)
(* complete: after a merge "retest our new node to see if it can be merged *)
(* in the same way with the nodes that follow it".  The new nodes are      *)
(* elements, and mergeNodes takes the value of the one in the middle.      *)
(***************************************************************************)
MergesTextsOnly == phase # "undefined"

(* The counters reach their bounds and every merge leaves fewer nodes. *)
Termination == <>(phase \in {"done", "undefined"})
=============================================================================
