# XyDiff in TLA+

A verification development for XyDiff, the XML change detection library with
its two programs: `xydiff`, which compares two XML files and writes a delta,
and `xydelta`, which applies a delta. The modules are translated from the C++
sources; TLC checks them on small instances and the TLA+ proof system proves
theorems for all documents: that the passes of the matching respect each other, that
the delta made from any matching they can leave rebuilds the second document or is noticed to
be wrong, that the reversed delta rebuilds the first, that the character diff of two texts does the same for a text, and
what a call leaves on the disk.

Paths below are relative to the repository. Line numbers of every definition
are in `PROJECT.json` ("map").

## The system

XyDiff is sequential: one thread, no callbacks from outside, no network. What
makes it hard is that one result is built by many passes, each of which trusts
what the earlier ones left in shared tables, and that two programs which never
meet have to agree on numbers (XIDs and positions) through files.

```
 xydiff:  v0.xml v1.xml --> register --> match --> mark --> script --> delta.xml
                              |                               |
                         XID map of v0                  XID map of v1  (.xidmap files)
 xydelta: v0.xml + .xidmap + delta.xml --> sort deletes --> apply --> sort inserts
                                           --> apply --> others --> v1.xml + .xidmap
```

### Components

| component | code (`src/`) | state | operations | what makes it correct |
|---|---|---|---|---|
| registration and hashing | `Diff_NodesManager.cpp` (registerSubtree, computeCandidateIndexTables), `Diff_UniqueIdHandler.cpp`, `lookup2.cpp` | `v0node`, `v1node` (`AtomicInfo`), tables by hash, identifier and ancestor | number the nodes in postfix order, hash and weigh them | equal hashes only for alike subtrees; every node has one number |
| matching (BULD) | `Diff_NodesManager.cpp`, driven by `ComputeDelta.cpp` | the `myMatchID` fields, the queue `toMatch` | MatchById, FullBottomUp, topdownMatch, Optimize | a one-to-one matching of alike nodes; no pass undoes another; it ends |
| event marking | `Diff_NodesManager.cpp` (MarkOldTree ... DetectUpdate) | the `myEvent` fields, the XIDs of v1 | mark inserted, deleted, moved, updated nodes | both ends of every move and update are marked |
| common subsequence | `lcss.cpp`, `easy_css.cpp` | a table | choose the children that stay in place | what stays is in both orders |
| delta construction | `Diff_DeltaConstructor.cpp` | the delta, v0's DOM tree (taken apart) | attribute operations, delete script, insert script, renameRoot | the delta leads from v0 to v1 |
| operation sorting | `DeltaSortOperations.cpp` | lists of operations | next delete, next insert | an operation comes when its place exists |
| delta application | `DeltaApply.cpp` | the document, its XID map, `moveDocument` | delete, move from, insert, move to, update, attributes, renameRoot | the second document comes out; nothing is lost or left over |
| text update | `XyStrDiff.cpp`, `XyStrDelta.cpp` | buffers, `currentValue`, annotated nodes | character diff; remove, insert, replace; merge annotations | the new text comes out, and the old one can be read from the annotations |
| XID map | `XID_map.cpp` | XID <-> node, firstAvailableXID | register, remove, allocate, print, parse | an XID names one node and never returns |
| XID documents and their files | `XID_DOMDocument.cpp` | a document and a `.xidmap` file | parse, attach a map, save | document and map on disk belong together |
| file interface | `XyDeltaFileImpl.cpp` | documents, `.xidmap` files, the delta file | XyDiff, ApplyDelta (two forms), XyLoadAndDiff, RunDiff | the delta leads from one document on disk to the other; a failure or a crash leaves nothing that is taken for something else |
| DOM interface | `XyDeltaDomImpl.cpp` | a flag of the process | the same on documents in memory, ReverseDelta | as the file interface |
| delta manager | `DeltaManager.cpp` | a file of deltas, version numbers | load, get, add, save | what is saved can be loaded (it cannot: line 102) |
| delta reversal | `DeltaReverse.cpp` | none | delta v0->v1 into v1->v0 | twice reversed is the same |
| command lines | `execComputeDelta.cpp`, `execDeltaApply.cpp` | none | one call of the library, default file names | the process ends at the first failure |
| string utilities, legacy programs | `Xy*Str.cpp`, `lookup2.cpp`, `legacy/` | none | conversion, hashing | not modelled |

`PROJECT.json` lists the same components with what is modelled of each, and
under "hazards" every place where this code is hard to test.

### What is hard

* **Order of passes.** Four passes claim nodes for the matching; each sees only
  two tables of numbers. A pass that claims one side only, or a node twice,
  breaks everything after it, and no test looks at the tables.
* **Order of operations.** The delta is built from two walks (v0 for deletes, v1
  for inserts) and applied in an order that neither wrote: deletes sorted by a
  walk of the document, inserts by parents that exist. Positions are relative
  to the brothers that are there at that moment.
* **Moves.** A moved subtree leaves the document before its deleted ancestors
  go and comes back after its inserted ancestors are there; in between it is
  parked in `moveDocument`.
* **Limits.** Index keys hash 8 bytes of two unsigned longs; the table of the
  text comparison is walked with an unsigned short.
* **Files.** Documents, XID maps and deltas are separate files, written one after
  the other by a process that may be killed, and read later by a process that
  can only count nodes to find out whether a map belongs to a document.
* **Failures.** Parser errors are swallowed and become null pointers; exceptions
  leave what has been written so far.
* **The way back.** A reversed delta is applied by the same engine, whose order of
  operations was made for deltas in the forward direction.

Nothing runs concurrently, so there are no interleavings of threads; `Next` of
each module is deterministic once the inputs are chosen, apart from choices a
reader would not want to fix (which matching is handed over).

## Modules

| module | models | state and actions |
|---|---|---|
| `Document` | a registered document | operators only. Nodes are numbered in postfix order as in the code, `firstChild`/`nextSibling` links are a parent function, `weight` is `myWeight` in hundredths. `IsDocument` says what the parser and `removeIgnorableWhitespace` can deliver |
| `Matching` | MatchById, FullBottomUp, topdownMatch, Optimize | `v0match`/`v1match` are the `myMatchID` fields, `cursor` the node a pass has reached, `toMatch` the priority queue; one action per pass, one node per step (topdownMatch in its four cases) |
| `CommonSubsequence` | lcss and easy_css | operators |
| `DeltaScript` | constructDeltaDocument with the marking passes | `v0event`/`v1event`, the two XID maps, the delta; one action per pass. The two scripts are one action each: what a pass decides about a node does not depend on what it has decided about others, except through what is moved out of a subtree first, which `Remaining` says |
| `DeltaApply` | ApplyDeltaElement and both sorting engines | `tree` is the document together with its XID map, `moveTree`/`parked` are `moveDocument`, `deleteList`, `insertLists` and `count` those of the engines; one action per operation |
| `RoundTrip` | `xydiff` followed by `xydelta` on the first document | extends `DeltaScript` by an instance of `DeltaApply`, for every matching that has the properties `Matching` leaves it with (`IsMatching`), not only the one the heuristics find. The roots need not be matched with each other; where a property needs it, `RootsMatch` is its premise. `ReadDelta` is the moment between the two programs |
| `TextDiff` | XyStrDiff | operators: the table, the way through it, the buffers |
| `TextUpdate` | XyStrDiff's control and XyStrDeltaApply, called from TextNode_Update | the unsigned short counter, the calls of registerBuffer one by one, the operations from the last to the first, with and without annotations, the two merging loops |
| `Correspondence` | the abstract matching | `pairs`, a set of pairs that only grows. It knows nothing of passes, queues or hash tables; `Matching` implements it with `pairs` as the matches of the v1 nodes |
| `DeltaReverse` | DeltaReverse | operators: each kind of operation reversed, their order, and what has to be there for the code not to use a null pointer (`Reversible`) |
| `ThereAndBack` | the engine's backward ApplyDelta after the forward one | extends `RoundTrip` by `TurnBack`: the delta is reversed and given to an engine with the document as it now is. `header` is the set of attributes of the `t` element |
| `XidMap` | XID_map and XidMap_Parser on documents with one level of children | operators: the runs of a map string, what parsing and registering them gives or throws, which XIDs a second version gets, what a delta does to a document it may not have been made for |
| `XidFiles` | XyDiff, ApplyDelta, XyLoadAndDiff, RunDiff, SaveAs, addXidMapFile | `disk` says of every path whether the file is absent, opened (and so empty) or written, and with what. A call first decides what it will write (`plan`: the code reads before its first write, or what it has written itself) and how it ends; `WriteNext` is one write, opening a file and filling it being two. `Crash` may come between any two. `dontSaveXidmap` is `_XyDiff_DontSaveXidmapToFile`. `names`, `versions`, `stale`, `before` are history variables |
| `DocumentProofs`, `NumberInduction` | lemmas | the prefix order of a document; induction over numbers and over ranked trees, counting, lists of finite sets of numbers, and sums over finite sets |
| `MatchingProofs` | theorems | about `Matching`, with the refinement of `Correspondence` |
| `RoundTripProofs` | theorems | about `RoundTrip`: constructing the delta; the lemmas about lists, trees and common subsequences that its application needs too |
| `DeltaApplyProofs` | theorems | about `RoundTrip`: applying the delta, with what `DeltaApply` does to any edit of a tree |
| `ThereAndBackProofs` | theorems | about `ThereAndBack` and `DeltaReverse` |
| `TextUpdateProofs` | theorems | about `TextDiff` and `TextUpdate` |
| `XidFilesProofs` | theorems | about `XidFiles` |
| `MC*` | instances for TLC | |

`RoundTrip` treats an update of a text as one assignment of the new value;
`TextUpdate` shows what that assignment is made of. `IsMatching` (in `Document`) is
the interface between matching and delta construction. It is what the four passes
leave, and no more (theorem `MatchingIsHandedOver`): pairs of alike nodes whose two
fields point at each other, with a match for v1's root. It does not say that this
match is v0's root, and it allows the stale field of a node that v1's root has
dispossessed. `RootsMatch` says that the roots are matched with each other and
with nothing else; `Matching` does not guarantee that (disagreement 1).
`RoundTrip` starts with documents that have default XIDs and a map that is
there; `XidFiles` is about where maps come from and what happens to them, and
keeps of documents only what that needs.

### Abstractions

* Hashes have no accidental collisions: equal hashes mean equal hashed data.
  Collisions the code makes on purpose are kept (the own hash of a text or a
  comment is 0; an empty element and a text with the same characters have the
  same subtree hash; the value of a comment is not hashed).
* One identifying attribute stands for `xml:lang` and `type`, and for ID
  attributes of a DTD. Processing instructions, entity references and CDATA
  sections are left out.
* Logarithms (weights of texts, the level `getBestCandidate` climbs to) are
  constants given in hundredths or thousandths.
* Documents start with the XIDs xydiff gives a document without a map
  (`(1-n|n+1)`).
* The delta is a record of operations, not XML; positions and XIDs are kept,
  printing is not.
* In `DeltaApply` a node and its map entry come and go together, as they do in
  every operation of the engine.
* In `XidMap` and `XidFiles` a document is a root with childless children, each
  known by its label and kept in the order of the labels: enough for XIDs to be
  inherited, allocated, deleted and reused, and for a delta to be applied to a
  wrong document. Results that leave this class (a label twice or out of order,
  a child below a child) are called "beyond" and the call is not taken. Moves
  and updates are left out there.
* The attributes of a delta's header are a set of names; their values are names
  of files and map strings nobody compares.
* Annotations: the elements `xyu:d` and `xyu:i` with their text; their
  attributes and XIDs are left out; all have one change number. A text that is
  updated is the only child of its parent, which is what DetectUpdate demands.

## Runs

All bounds are in the `MC` modules and the `.cfg` files.

| run | asks | bounds, and why they are enough |
|---|---|---|
| `matching` | do four passes that claim nodes in turn build a matching the script can rely on? | all pairs of plain documents with up to 4 nodes, of documents with identifiers with up to 3, and chains of 5 and 6 nodes with a common leaf: the last climb past level 3, where `getBestCandidate` stops using its index tables. Two labels are enough for unique and repeated tags, two identifiers for equal and different ones. One text has two characters, and so weighs more than an empty element, the other has one |
| `matching_roots`, `matching_lp64`, `matching_itself` | disagreements, below | the same |
| `round_trip` | does the delta rebuild the second document from the first, whatever the matching, and is it noticed when the roots are matched wrongly? | every matching `IsMatching` allows between all trees with up to 4 nodes; trees with 5 nodes against those with four children or two grandchildren (moves across levels, and four brothers changing places); contents of all sorts with up to 3 nodes, with other attributes or another tag at the root. Roots matched with inner nodes, one of them or both, and roots claimed twice are all among them |
| `round_trip_long` | the same when `easy_css` chooses what stays in place; does the reversed delta lead back; and do both programs, and the way back, end? | the code uses `easy_css` from 99 children on (`LcssLimit`); the run from 1 on. Every matching between trees with up to 4 nodes, 7 in both together, and between three brothers (where the greedy walk already keeps less than it could), elements and texts with up to 3 nodes, contents of all sorts with up to 2; headers as constructDeltaDocument and CreateRandomScript write them. Checking liveness on all the documents of `round_trip` takes too long; for larger ones the theorems hold at any limit. Under weak fairness of Next |
| `round_trip_xids` | disagreement, below | as `round_trip` |
| `text_update` | does a text update rebuild the new text, with the fewest changes, and can the old one be read from the annotations at every moment? | all pairs over two letters up to length 4 and over three up to length 3, phrases with whitespace, and texts beyond the largest unsigned short, here 6 |
| `text_annotated`, `text_merge`, `text_limit` | disagreements, below | the same; for `text_limit` texts of exactly 6 characters |
| `files` | which map may lie beside which document after any calls, failures and a crash? | two files, two labels, three calls (RunDiff counts as two), one crash, one edit by the user: a diff, an edit and a diff, or a diff and two applications, one of them to the wrong document, with a crash between any two writes. Files are symmetric |

The properties, in the words of the code:

* `MatchIsMutual`, `MatchIsFinal`, `MatchKeepsOwnHash`: the two tables point at
  each other, no pass takes back a match, tags and identifiers agree. The one
  exception the code allows is written out: `topdownMatch` matches the roots
  without looking, and an inner node of v1 may be left with a stale match.
* `MatchedLeavesAgree`: a text is matched only with a text of the same value,
  although the own hash of all leaves is 0.
* `IdentifierDecides`: an identifying attribute makes a match mandatory or
  forbidden.
* `IdenticalDocumentsMatchIdentically`: an unchanged document has an empty delta
  even when equal subtrees compete. Left out are documents with one identifier twice
  (the table keeps one of them) and documents in which a text hashes like an
  empty element and is heavier (`TextsUnlikeTags`): `matching_itself` shows what happens to
  those.
* `CandidateUnderMatchedAncestor`: a subtree is matched by its hash only below
  a pair of matched ancestors (32-bit builds).
* `NoObviousPairLeft`: Optimize is applied to the pairs it makes itself too.
* `ImplementsCorrespondence`: all of that together with the end: pairs are added,
  never taken away, between free nodes that need no operation; the roots' pair
  is the one exception; and v1's root has a match at the end.
* `ReconstructsSecond`, `XidsFollowNodes`: the result is v1, with v1's XIDs
  (`ForthRebuildsSecond`, `ForthKeepsXids` for the first half of the way there and
  back).
* `HeaviestStay`: lcss finds the heaviest common subsequence, compared with every
  set of children that could have stayed.
* `ReverseRebuildsFirst`, `WayBackIsSafe`, `WayBackEnds`: applied to the second
  document the reversed delta rebuilds the first, its XIDs included; no
  operation throws, and the order in which DeltaReverse writes the operations
  brings parents first. Only a delta that names both XID maps or none can be
  reversed, and constructDeltaDocument names one twice; such a delta is
  followed to the null pointer.
* `MapBelongsToDocument`: a readable document beside a readable map is the one the
  map was made for, node by node (`names` is what each XID of the map has named
  since the map was new), whatever was cut short where. It holds because SaveAs
  empties the document before it touches the map. Documents that the user edits
  or RunDiff saves without a map are left out until they get a map again.
* `DeadXidsStayDead`: the XID of a deleted node is never given to another one, over
  any number of versions: the map string carries the first available XID.
* `ApplyRebuilds`: ApplyDelta on the first version gives the second one and the
  same map xydiff saved.
* `DeltaAfterMap`: whoever finds a complete delta finds the map of its second
  document, unless createDelta has run in the same process before: it sets a
  flag that nothing resets.
* `FailureLeavesDocuments`, `OpenedFilesAreWritten`: a failing call leaves all
  documents and the delta as they were; only a crash, and a delta that takes the
  root away, leave half-written files.
* `NoException`: when the roots are matched with each other, neither program throws,
  and no vector is read past its end. The premise is needed: without it the
  delta construction throws for matchings that the passes can leave.
* `WrongRootsAreNoticed`: when they are not, no document comes out. registerNode
  throws because two nodes claim one XID, or constructing the delta does because a root
  would have to be deleted; or, where nothing of that happens, xydelta throws, at the latest
  when it finds at the end that something is left in moveDocument. Nobody ever gets a wrong document.
* `ParentsComeFirst`, `MatchedNodeNeverLost`, `MapIsTheDocument`,
  `InsertedXidsAreNew`: why all that is so, at every step in between. Only the
  first has `RootsMatch` as its premise.
* `RebuildsNew`, `OperationsApart`, `FewestChanges`, `AnnotatedReadsBack`: the
  same for a text. `RebuildsNew` depends on how ties in the table are resolved:
  with the other choice a deletion would follow an insertion and leave
  characters in a buffer that nobody flushes.
* `Termination`, of the matching, of a text update, and of both programs: with the second
  document when the roots are matched with each other, with a failure when not.

Every property of a passing run has a mutant in `PROJECT.json`: a plausible bug
in the code with which TLC finds the property violated.

### Fairness

Each program is one thread that never waits, so `WF(Next)` is what the operating
system gives it. Liveness is checked under that only; in `ThereAndBack` it includes
that somebody asks for the way back. `XidFiles` states no fairness: users need not
call, edit or restart anything.

`CHECK_DEADLOCK FALSE` is set because the programs stop.

## Disagreements found

1. **The roots do not always match** (`matching_roots`, against the
   comment at `Diff_NodesManager.cpp:574`). If MatchById or FullBottomUp has
   matched v1's root with a node inside v0, the test at the top of
   `topdownMatch` skips it. And if v0's root has been matched with an inner
   node of v1, that node keeps its pointer when the roots are matched. What
   becomes of such matchings is in `round_trip`: `xydiff` throws, because an
   operation on a root finds no parent or because two nodes claim one XID; or, if
   v0's root has another partner, `xydiff` writes a delta for which `xydelta`
   throws. The second document never comes out (`WrongRootsAreNoticed`).
2. **Index keys on 64-bit builds** (`matching_lp64`, `Diff_NodesManager.cpp:447`).
   The key hashes 8 bytes of a pair of unsigned longs; where each has 8 bytes
   the ancestor is not part of it, and a candidate of any ancestor is taken.
   The result is still a matching (the theorems hold for both widths), but not
   the one the comments describe.
3. **A text that hashes like an empty element** (`matching_itself`, `Diff_NodesManager.cpp:281`).
   mySubtreeHash is to "identify the subtree rooted at node" (`Diff_NodesManager.hpp:40`), but
   a text is hashed like the tag of an element. In `<aa><aa/>aa</aa>`, compared with itself, the
   text is heavier than the empty element and comes first in the queue; getBestCandidate gives
   it the element in front, which hashes alike; nodeAssign refuses the pair, because own hashes
   differ; and as there was a candidate the text is not looked at again. An unchanged document
   gets a delta that deletes and inserts the text.
4. **XID of an updated text** (`round_trip_xids`, `DeltaApply.cpp:298`). xydiff gives
   it a new XID and saves that; xydelta keeps the old one. The maps of the two
   "second documents" differ.
5. **Annotated replacement of a whole text** (`text_annotated`, `XyStrDelta.cpp:204`).
   The new text is dropped.
6. **Merging annotations** (`text_merge`, `XyStrDelta.cpp:454`). After a merge the
   loop takes the value of an element, a null pointer.
7. **Text of exactly 65535 characters** (`text_limit`, `XyStrDiff.cpp:77`). The guard
   admits it and the loop never ends.

Two more are not runs, because nothing but the names of files is wrong:
`xydelta` says that "by default input and output files are read in the 'from' and
'to' attributes of the delta" (`execDeltaApply.cpp:23`), which
constructDeltaDocument never writes (`CallApplyDefault` always fails); and
`xydiff` promises `<file1.xml.forwardDelta.xml>` where it writes to stdout
(`execComputeDelta.cpp:79` and `:95`). The loading constructor of DeltaManager compares
pointers (`DeltaManager.cpp:102`) and throws for every file, so XyLoadAndDiff works once
per delta file and the backward ApplyDelta never; `XidFiles` has both as they are.

## Proofs

All theorems hold for every value of the constants that satisfies the named
assumptions of the modules (`DocumentAssumption`, `MatchingAssumption`,
`InputsAssumption`, `TextAssumption`, `FilesAssumption`): all documents, all texts, all
files and calls, both widths of an unsigned long. The assumptions say what the parser and
registration deliver, nothing about what the passes do. `RoundTrip` starts, besides, with a
matching for which `IsMatching` holds. That is no further assumption about the passes,
because `MatchingIsHandedOver` proves it of what they leave. `RootsMatch` is one, which the
passes do not always fulfil; it is the premise of `NoException`, `ParentsComeFirst`
and `ConstructionSucceeds`, and stands in the statements of `RoundTripTypeOK`, `MapStaysTheDocument`,
`NoMatchIsLost` and `HeaviestChildrenStay`. The other theorems about `RoundTrip` and
`ThereAndBack` need no such premise.

### Matching (`MatchingProofs`)

* `MatchingTypes`: `Spec => []TypeOK`
* `MatchingIsMutual`: `Spec => []MatchIsMutual`
* `MatchingKeepsOwnHash`: `Spec => []MatchKeepsOwnHash`
* `MatchingLeavesAgree`: `Spec => []MatchedLeavesAgree`
* `MatchingIsFinal`: `Spec => MatchIsFinal`
* `IdentifiersDecide`: `Spec => []IdentifierDecides`
* `CandidatesHangTogether`: `LongBytes = 4 /\ Spec => CandidateUnderMatchedAncestor`
* `OptimizeLeavesNothing`: `Spec => []NoObviousPairLeft`
* `ComparedWithItself`: `Spec => []IdenticalDocumentsMatchIdentically`
* `MatchingImplementsCorrespondence`: `Spec => ImplementsCorrespondence`
* `MatchingIsHandedOver`: at the end of the passes `IsMatching` holds, which is
  what `RoundTrip` starts with

The argument: the lemma `OnlyClaims` reduces every step of the four passes to
one of three things, a call of nodeAssign for a *one-to-one* set of pairs, the
claim of the roots, or nothing. One-to-one is where the passes differ:
MatchById and FullBottomUp claim at most one pair (`ByIdAttrHashIsOneToOne`,
`FavouriteIsOneToOne`), Optimize a child only if its tag is alone on its side
(`UniqueTagsIsOneToOne`), and topdownMatch a subtree by postfix distance
together with its ancestors by level (`SubtreeClaimIsOneToOne`, which needs
`LevelIsInjective`, a fact about cardinalities). `NodeAssignFields` says what
such a call does to the two fields; the invariants follow from that alone.
`TypeOK` is inductive as it stands. `MatchIsMutual` is inductive together with it
only because it names the node whose match the roots' claim leaves stale
(`RootTakenTwice`); without that exception it is false.
`MatchedLeavesAgree` rests on what each pass proposes (`AlikeIfAssignable`): a
node with a child is an element, which an own hash never confuses with a leaf
(`ElementsAreAlike`), and the only pass that reaches leaves compares subtree
hashes, whose seeds then agree at every place (`SubtreeClaimIsAlike`,
`SeedsTellLeaves`).

`CandidatesHangTogether` needs to know that matching one subtree of topdownMatch's queue
takes no other node that is waiting there. This is `QueueIsFlat`: no queued node is above
another, because children are queued only when their parent has left the queue. Its premise is not
a convenience: with longs of eight bytes the property is false, which the run
`matching_lp64` shows.

Two properties are about what a walk has *achieved*, not about what a step
preserves. Their invariants speak of the nodes the walk has passed:
`IdentifiersSoFar` (every node MatchById has visited has its twin, and no later
pass changes that) and `OptimizedSoFar` (below every pair Optimize has visited
nothing obvious is left, and what it claims later belongs to other families,
`OtherFamiliesStay`). Both walks are in prefix order, and that all nodes have been
visited at the end, each once and parents before children, is `PrefixOrder` in
`DocumentProofs`: the prefix ranks are a permutation of `1 .. n`.

`ComparedWithItself` is about the order in which topdownMatch takes nodes. Its invariant,
`ItselfInv`, says that no pass ever matches a node with another one, and of the queue that every
node without a match is in it or below a node in it, while all that is above the queue is
matched (`QueueCovers`). A node whose turn it is therefore finds itself below its parent, at the
first level (`FindsItself`). The question is why getBestCandidate takes no other: an equal
subtree with a lower number that is still free would be in the queue, or below a node in the
queue. Equal subtrees weigh the same (`EqualsWeighTheSame`: by induction, each child has its
equal at the same distance, and sums over both sets of children are equal, `MovedSums`; a text and
an empty element is the case the premise takes out), and a node weighs more than what is below
it (`AncestorIsHeavier`), so that node would have come first (`TakesItself`). What is left for the
passes before and after is little: children matched with themselves vote for their own
parent, and Optimize finds nobody free. The theorem holds for both widths of a long.

The refinement takes the steps of `OnlyClaims` again: `ClaimImplements` and
`RootsClaimImplements` map them to the two actions of `Correspondence`. That a v0
node with an empty field is in no pair of the v1 nodes is `MatchIsMutual`
(`FreeNodes`); that the end comes with a match for v1's root needs an invariant of
its own, `RootWillMatch`: the root stays in the queue of topdownMatch until it has
one.

### Constructing the delta (`RoundTripProofs`)

* `DeltaIsConstructed`: `Spec => []ConstructionSucceeds`, the first half of
  `NoException`, with its premise `RootsMatch`
* `NoXidComesBack`: `Spec => []InsertedXidsAreNew`
* `HeaviestChildrenStay`: `Spec => [](RootsMatch => HeaviestStay)`

From any matching that `IsMatching` describes and in which the roots are matched with each
other, by the inductive invariant `ScriptInv` (`ScriptInvariance`). With the roots' match
the stale field is excluded, so a match is mutual, and no operation is on a root
(`RootsNotScripted`). `NoXidComesBack` needs no premise. MarkOldTree and MarkNewTree each decide from their own tree what
has moved; that both ends of a move agree (`OldEvents`, `NewEvents`, `WeakMovesAgree`)
is what the check before the delta is closed relies on, and that the two texts of an
update are marked together (`UpdatesAgree`, `UpdatesWritten`) is why the pointer to the u
element is always set. `XidsGiven` says which XIDs the second document has: those
of the first for matched nodes, and for the others the numbers from the first
available one on, in postfix order. They are different because counting the nodes
before a node is one-to-one.

The delta itself is described by a second invariant, `DeltaInv`: each script has exactly
one operation for each scripted node, in the order of the walk that wrote it, and the
other parts are the changes between matched nodes. It contains `KeptInOrder`, the one fact
about the common subsequence that the application depends on: children that are not
moved are met in one order in both documents. For lcss that is `LcssKeepsOrder`, by
induction over the table (what a cell keeps is in the first elements of both sequences
and in one order there); for easy_css it is `EasyCssKeepsOrder`, by induction over the walk:
what is kept lies before everything that is still ahead. Nothing else about the two
algorithms is needed for the application, so its theorems hold for whichever the code
chooses, at any limit.

That lcss finds an optimum is `LcssIsHeaviest`. Every cell of its table is balanced: its
cost and the weight of what it keeps (in both documents) are the total of the two beginnings it is
about. Nothing that is in one order in both beginnings weighs more
(`InnerCellIsGood`, `EdgeCellIsGood`): a rival either has both last elements, or lacks
one of them and lies in a neighbouring cell. The induction over the table is the one of `LcssKeepsOrder`
(`TableInduction`). Weights of sets are written with MapThenSumSet; `PairSumsExist` puts
one function of all parts of a set in its place (`Sums`), by recursion on their size.
`HeaviestKept` leads from the table to the children not moved, which `OrderedInRows` takes
back to the two sequences.

### Applying the delta (`DeltaApplyProofs`)

* `DeltaRebuildsSecond`: `Spec => []ReconstructsSecond`
* `XidsGoAlong`: `Spec => []XidsFollowNodes`
* `RoundTripIsSafe`: `Spec => []NoException`
* `ParentsAreThere`: `Spec => []ParentsComeFirst`
* `MapStaysTheDocument`: `Spec => [](RootsMatch => MapIsTheDocument)`
* `NoMatchIsLost`: `Spec => [](RootsMatch => MatchedNodeNeverLost)`
* `RoundTripTypeOK`: `Spec => [](RootsMatch => TypeOK)`
* `OnlyMatchedRootsArrive`: `Spec => []WrongRootsAreNoticed`

The engine knows nothing of documents and matchings, and neither does the first half of
the module. An *edit* `e` (`IsEdit`) is two trees, a set `e.cut` of nodes that operations are
about, and `e.home`, which names for each node the cut node (or the root) it travels
with. The assumption of an edit is that a node that is not cut stays below its parent, and
that the children it keeps are in one order in both trees (`KeptAlike`). A delta
*leads over* (`LeadsOver`) if it has one operation per cut node, in any order for the deletes
and top down for the inserts. From that alone follows what the engine does, and
this is its inductive invariant (`Applying`):

* while deletes are done, the document is exactly the nodes whose home is the root or
  waits for its operation, and moveDocument exactly those whose home has been taken out and
  comes back (`Deleting`). The walk of the document orders the operations
  bottom up (`SortedDeletes`), so no delete takes what a later move needs;
* while inserts are done, the document is exactly the nodes whose home is not missing, each
  node's children in the order of the new tree (`Inserting`). An insert position
  counts the brothers of the finished document; it is right because the lists are by
  position and what comes before it is there already (`FirstIsReady`, `GraftStep`). The first list always has
  its parent (`SortedInserts`), so the index never wanders;
* then attributes, texts and the root's tag are assigned, and the end is `Outcome(e, d)`.

The numbers of nodes make all of this provable: in either tree children have lower
numbers than their parents and siblings are in the order of their numbers (`IsForest`), so a
list of children is determined by its set (`ListedOnce`), and a walk lists what is below a
node (`PostfixLists`).

The second half shows that the delta is such a job (`ForthIsJob`): that the second
document under its final XIDs and the first one are an edit (`ForthIsEdit`, which is where
the marks of both documents have to agree: `StaysBelow`, `HomesAgree`), and that the
two scripts lead over (`DeltaLeadsOver`). `RoundTripInv` (`RoundTripInvariance`) is `ScriptInv`,
`DeltaInv` and, as soon as the delta is read, `Applying` for this edit. The properties follow from it: `NoException`
because an operation that finds its place throws nothing, `MapIsTheDocument` because each
of the trees is connected (`IsWhole`), `MatchedNodeNeverLost` because a matched node is in
both trees, `ReconstructsSecond` because the outcome is the second document's
tree with what the delta changed in each node (`ResultKids`, `ResultLabels`, `ResultAttributes`).

All of this is for matched roots (`RootsMatch => RoundTripInv`). For the others there is
`WrongRootsInv` (`WrongRootsInvariance`), which follows what goes wrong and nothing else. If v1's
root is matched with v0's root and another node claims that root too, two nodes get one XID, and MarkNewTree
throws: no delta is ever read. If v1's root is matched with an inner node, that node had a parent
and has lost it, so it is marked as moved (`WrongRoots`); v1's root has no such
mark, so the delete script has an operation that takes the node out and the insert script
none that brings it back (`TakenOutByDelta`, `NotBroughtByDelta`). Whatever else such a
delta does to the document, the node stays out: it is waiting for its
delete operation or lies in moveDocument (`StaysOut`, `ApplyingStaysOut`), whose root must have
no children at the end. So `ReconstructsSecond` and `XidsFollowNodes`, which speak of a
document that has come out, hold for all matchings.

### Text updates (`TextUpdateProofs`)

* `NewValueRebuilt`: `Spec => []RebuildsNew`
* `DeltaIsShortest`: `Spec => []FewestChanges`
* `OperationsNeverTouch`: `Spec => []OperationsApart`
* `AnnotationsLoseNothing`: `Spec => []AnnotatedReadsBack`
* `TypeCorrect`: `Spec => []TypeOK`

The first part, about `TextDiff`, shows that the two recursive tables satisfy the equations of
their bodies (`CommonTable`, `PathsTable`), and that the way read from them leads
through both texts and that *no deletion follows an insertion* (`PathIsWay`). This is the
fact the code depends on without saying so: registerBuffer, given a deletion while
insertions are pending, forgets them. The second part has the invariant
of the whole run, `IInv`: while the way is registered, what is in the buffers, the
delta and the rest of the way fit together (`Registering`); afterwards the delta
aligns the two texts, and as operations are applied from the last one on,
the text is old in front of the operations still to come and new behind them
(`Applying`, `Restored`).

That the delta is the shortest is a matter of both parts. The table holds the length of the
longest common subsequence in every cell (`CommonIsLongest`: any choice of places
that are found again in order is at most as large), and the way drops a character only
where that length stays the same (`NothingLost`). The buffers keep this: at every point of
the way, what the operations leave so far is as much as the table says
(`RegisteredLeavesMost`, `MostIsLeft`). It is part of `IInv`.

For the annotated form the children of the parent are lists of tagged texts, and what is read
from a list is a homomorphism: of two lists behind each other one reading after the other
(`ReadBoth`). `NodesInv` (`NodesInvariance`, which uses `IInv`) says that until the
operations are done, everything in front of those already done is still *one* text, the first child
(`Marked`). This is why doing the last operation first suffices: the tree walker,
which counts from the front, finds every place within that first child
(`CutFirst`, `RemovesFromFirst`, `InsertInto`), and nothing behind it is touched
(`DeletionOpens`, `InsertionOpens`, `ReplacementOpens`). A replacement inserts after it has removed;
its text goes to the end of the first of the three parts, or, if that part is
empty, in front of what stays. If neither exists, because the operation takes all of the
old text, there is no such place; this is the premise of the second
half of `AnnotatedReadsBack`, and the run `text_annotated` shows that it is needed.
`NormalizedReads`, `MergeReads` and `JoinReads` say that normalize and the two loops of complete
do not change what is read. `CounterInv` has the ranges of `k`: the list gets shorter
while the index of the loops stays.

### Files (`XidFilesProofs`)

* `EveryOpenedFileIsWritten`: `Spec => OpenedFilesAreWritten`
* `FailureTouchesMapsOnly`: `Spec => FailureLeavesDocuments`
* `MapPrecedesDelta`: `Spec => DeltaAfterMap`
* `EveryMapBelongs`: `Spec => []MapBelongsToDocument`
* `NoXidComesBack`: `Spec => []DeadXidsStayDead`
* `ApplyDeltaRebuilds`: `Spec => ApplyRebuilds`
* `FilesAreTyped`: `Spec => []TypeOK`

What a call will write is settled when it begins, so both invariants speak of the disk
*together with the writes still planned*.

The first three theorems are about which writes there are. `FilesInv`
(`FilesInvariance`): whatever is open now is filled by a later write
(`Completes`); if the call is going to fail, none of them touches anything but maps; and
just before the write that completes the delta, the disk holds the second document's
map, or an earlier write puts it there and none after that touches it (`HoldsAt`,
`DeltaLast`). `PlannedIsHarmless` shows this of the plan of every call, from lemmas
about plans put one after the other (`JoinedWrites`); `WriteNextKeeps` that a write
done keeps what was said of the rest. RunDiff is the reason for the part about the agenda: its
later calls begin when files have already been written.

The other four are about what is written, and hold for documents with any number of
children, any files, and any number of calls, edits and crashes. A *world* is the disk with
what the history variables say of it; it is *good* (`Good`) if for each file with a map that
can be read there is a document `d` with as many XIDs as nodes, all different and below its
first available XID (`IsDoc`), such that the map is `StringFromList(d)`, the document that can
be read is `d` unless it is stale, and all that was ever named is below `d.first` and names
the same nodes in `d` (`Fits`); and if the delta is the one between the two known versions,
the second of which `SecondVersion` makes of the first. `HistoryInv` (`HistoryInvariance`)
says that the planned writes *lead* from the present world to some other through good
worlds only (`Leads`). This is what makes a crash harmless: wherever the call is
cut short, the world is good. For ApplyDelta, where they lead to is where the second
version has been restored (`Restores`). `WriteNext` changes nothing about where the
rest leads (`LeadsFrom`), so all the work is in `PlannedLeads`: what each call plans when
it begins in a good world. It rests on three groups of lemmas about `XidMap`:

* a map is read back as it was written: the runs of a sequence of XIDs, each in full, are
  the sequence (`RunsFacts`, `ReadsBack`), so registering `StringFromList(d)` for a document
  with the same number of nodes succeeds and gives the same XIDs (`RegisteredFacts`);
* whatever delta is applied to whatever document, if it is applied at all and the
  result is one of the model's documents, the result is a document whose XIDs are all different
  (`AppliedFacts`), and it follows on the first version if the delta was computed
  from that (`AppliedFollows`): what keeps its XID is the same node, what is new has an XID
  past the first available one. `NamesFitOn` is the step of `DeadXidsStayDead`;
* the delta from `d` to its second version, applied to `d`, gives exactly that, first available
  XID included (`DeltaRestores`): the children that stay are put in order by the deletion
  of the others (`SparedListing`), and each insertion in the order of the positions goes to the place that
  the finished list will have it at (`ListingGrows`, `InsertedListing`).

`FilesAssumption` says that labels are numbers (their order is that of the children) and
that `None` and what DeltaManager writes are neither documents with XIDs nor deltas.

### There and back (`ThereAndBackProofs`)

* `ReverseLeadsBack`: `TwoWaySpec => []ReverseRebuildsFirst`
* `ReverseIsSafe`: `TwoWaySpec => []WayBackIsSafe`
* `ForthIsRoundTrip`: `TwoWaySpec => []ForthRebuildsSecond`
* `ForthXids`: `TwoWaySpec => []ForthKeepsXids`
* `ReversedTwice`: for every delta, of any operations,
  `ReverseDelta(ReverseDelta(delta)) = delta`

The way back is an edit too: from the outcome of the way forth to the first
document, with the same nodes cut (`BackOf`, `BackIsEdit`). The reversed delta leads over
(`BackIsJob`): reading the delete script backwards turns it into inserts, and
constructDeltaDocument writes deletes so that this is top down (`BackIsTopDown`; the fact the code
relies on without saying so). So the lemmas about the engine apply a second time,
and what they give is the first document's tree, exactly, because swapped
attribute values and tags undo the changes (`AttributesChangeBack`, `BackRebuilds`). `TwoWayInv`
(`TwoWayInvariance`) says of the way back: if the delta can be reversed, the engine is on this edit;
otherwise it has stopped where the code goes through a null pointer. With roots that are not
matched with each other there is no way back, because the way forth never ends well (`NoWayBack`), so
these theorems need no premise either. A delta with updates of
texts is one of the latter (`Reversible`), so nothing is claimed of it.

### Induction

The library's induction theorems take a predicate as parameter, which the provers
here cannot instantiate. `NumberInduction` states them for sets instead (the set of
numbers a formula holds for): `SetInduction`, `RankInduction`, and `RankRecursion`, by
which a function defined by recursion over a ranked set satisfies its equation.
This is enough for the tables of `TextDiff` and `CommonSubsequence`, and for `Below` and
the walks of `DeltaApply`. FlattenSeq is defined by a recursive function, which
`IterationExists` covers as well (`FlatRows`); so are the walker's count and normalize in
`TextUpdate`. Sums over finite sets (MapThenSumSet) are covered by `RankRecursion`
on their cardinality (`SumsUpExists`, `SumsUpSums`; `MovedSums` for two sets with
equal terms at a distance); other folds, SortSeq and SelectSeq are not within reach, so `DeltaApply`, `RoundTrip`,
`CommonSubsequence` and `XidMap` say what they need by functions and sets.

### Only model-checked

* All liveness (`Termination`, `WayBackEnds`): outside the prover's reach. Every invariant
  and every action property of a passing run is a theorem, four of them only for
  matched roots: `TypeOK`, `MapIsTheDocument`, `MatchedNodeNeverLost` and `HeaviestStay` of
  `round_trip` hold in the run for all matchings.
* That with other roots one of the tools really throws, and does not go on for ever
  (`Termination`); that nothing comes out is proved.

## Not modelled, and the plan

The plan is carried out; what could be added is model, not proof.

Left out, and why:

* **Registration as a machine.** `Document` has what the walk computes. For a
  child that is a processing instruction the walk does not advance and never
  ends, so there is no document after it to model.
* **Everything of the delta manager behind the test that always throws**:
  addDeltaElement, version headers, getCurrentVersionFileName. No call of the
  library reaches it.
* **Several units in one delta file** (backwardNumber above 1): only
  addDeltaElement would make one.
* **Updating a text that an earlier run has annotated.** `TextUpdate` has one
  update of one text that starts as a single text node. The nodes an annotation
  adds do get XIDs (`registerNewNode`), so an annotated document can be saved,
  loaded and compared again; what a delta does to it then is not modelled.
* **Errors of the file system** (no permission, a full disk), file names that are
  one file under two names, and two processes at once.
* Parsing and printing of XML and of command lines, string conversion, the vendored
  hash function, reference counts, estimates of costs, build files, the legacy
  programs. Two limits that lie in printing and allocation (ten-byte buffers for
  XIDs, an int for the size of the text table) are listed as hazards only.
