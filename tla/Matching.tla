------------------------------ MODULE Matching ------------------------------
(***************************************************************************)
(* The matching of an old document v0 with a new one v1: NodesManager from *)
(* MatchById to Optimize, as XidXyDiff runs them.                          *)
(*                                                                         *)
(* v0match and v1match are the myMatchID fields of v0node and v1node (0    *)
(* for none).  Each of the four passes visits one node a step: MatchById   *)
(* in prefix order of v1, FullBottomUp in postfix order of v1,             *)
(* topdownMatch from a priority queue of v1 nodes, Optimize in prefix      *)
(* order of v0.                                                            *)
(***************************************************************************)
EXTENDS Document

CONSTANTS
  Inputs,     \* the pairs of documents that may be compared
  LongBytes,  \* sizeof(unsigned long) in the build: 4 or 8
  Log1000     \* Log1000[n]: 1000 times the natural logarithm of n

ASSUME MatchingAssumption ==
  /\ \A docs \in Inputs : IsDocument(docs[1]) /\ IsDocument(docs[2])
  /\ \A docs \in Inputs : Log1000[docs[2].n] \in Nat
  /\ LongBytes \in {4, 8}

VARIABLES
  v0, v1,    \* the two registered documents
  v0match,   \* v0node[i].myMatchID
  v1match,   \* v1node[j].myMatchID
  phase,     \* the pass that is running
  cursor,    \* the rank of the next node the pass visits
  toMatch    \* the queue of topdownMatch

matchVars == <<v0, v1, v0match, v1match, phase, cursor, toMatch>>

Phases == {"matchById", "fullBottomUp", "topdownMatch", "optimize", "matched"}

MIN_CANDIDATEPARENT_LEVEL == 3

v0Assigned(i) == v0match[i] # 0
v1Assigned(j) == v1match[j] # 0

-----------------------------------------------------------------------------
(* Three ways to forget a test of nodeAssign. *)
AssignableTakesMatchedV1(i, j) ==
  ~v0Assigned(i) /\ OwnHash(v0, i) = OwnHash(v1, j)

AssignableTakesMatchedV0(i, j) ==
  ~v1Assigned(j) /\ OwnHash(v0, i) = OwnHash(v1, j)

AssignableIgnoresHash(i, j) == ~v0Assigned(i) /\ ~v1Assigned(j)

(* nodeAssign has something to do: both nodes free, with one own hash. *)
Assignable(i, j) ==
  ~v0Assigned(i) /\ ~v1Assigned(j) /\ OwnHash(v0, i) = OwnHash(v1, j)

(***************************************************************************)
(* The calls nodeAssign(p[1], p[2]) for all pairs p of a set in which no   *)
(* node occurs twice: pairs that are not assignable are left alone.        *)
(***************************************************************************)
NodeAssign(pairs) ==
  LET done == {p \in pairs : Assignable(p[1], p[2])} IN
  /\ v0match' = [i \in Nodes(v0) |->
       IF \E j \in Nodes(v1) : <<i, j>> \in done
       THEN CHOOSE j \in Nodes(v1) : <<i, j>> \in done ELSE v0match[i]]
  /\ v1match' = [j \in Nodes(v1) |->
       IF \E i \in Nodes(v0) : <<i, j>> \in done
       THEN CHOOSE i \in Nodes(v0) : <<i, j>> \in done ELSE v1match[j]]

(***************************************************************************)
(* recursiveAssign walks two subtrees with equal hashes side by side; they *)
(* have one shape, so the walk pairs the nodes at the same postfix         *)
(* distance from the top and never misses a child.                         *)
(***************************************************************************)
RecursiveAssign(c, j) ==
  {p \in Subtree(v0, c) \X Subtree(v1, j) : c - p[1] = j - p[2]}

(* The pair of ancestors of c and j so many levels up. *)
AncestorPairs(c, j) ==
  {p \in Ancestors(v0, c) \X Ancestors(v1, j) :
     Level(v0, c, p[1]) = Level(v1, j, p[2])}

(***************************************************************************)
(* forceParentsAssign: the ancestors below the given level, bottom up, as  *)
(* far as both are free and have one own hash.                             *)
(***************************************************************************)
ForceParentsAssign(c, j, level) ==
  {p \in AncestorPairs(c, j) :
     /\ Level(v0, c, p[1]) < level
     /\ \A q \in AncestorPairs(c, j) :
          q[1] <= p[1] => Assignable(q[1], q[2])}

-----------------------------------------------------------------------------
(* The ancestor of j so many levels up, as a set of at most one node. *)
AncestorAt(d, i, level) == {a \in Ancestors(d, i) : Level(d, i, a) = level}

(***************************************************************************)
(* The highest level getBestCandidate climbs to, by the weight of the      *)
(* subtree relative to the document.                                       *)
(***************************************************************************)
MaxLevelPath(j) ==
  MIN_CANDIDATEPARENT_LEVEL
    + (5 * Log1000[v1.n] * v1.weight[j]) \div (1000 * v1.weight[Root(v1)])

(* The index tables with keys that leave the ancestor out. *)
CandidatesOfAnyAncestor(j, level, rel) ==
  {c \in Nodes(v0) :
     ~v0Assigned(c) /\ SameSubtreeHash(v0, c, v1, j) /\ AncestorAt(v0, c, level) # {}}

(***************************************************************************)
(* The candidates for j that the tables list under the v0 node anc at a    *)
(* level: free nodes with the subtree hash of j.  Up to level 3 the table  *)
(* built by computeCandidateIndexTables is used.  Its key is a hash of 8   *)
(* bytes of two unsigned longs, the subtree hash and the ancestor's        *)
(* number: where an unsigned long has 8 bytes the ancestor is left out of  *)
(* the key, and any ancestor at that level will do.  Above level 3 the     *)
(* code compares the candidate's ancestor itself.                          *)
(***************************************************************************)
Candidates(j, level, rel) ==
  {c \in Nodes(v0) :
     /\ ~v0Assigned(c)
     /\ SameSubtreeHash(v0, c, v1, j)
     /\ \E a \in AncestorAt(v0, c, level) :
          IF level <= MIN_CANDIDATEPARENT_LEVEL
          THEN LongBytes = 4 => a = v1match[rel]
          ELSE v0match[a] = rel}

(***************************************************************************)
(* The pairs <<level, candidate>> getBestCandidate looks through, one      *)
(* ancestor of j after the other, skipping those without a match.          *)
(***************************************************************************)
CandidateChoices(j) ==
  UNION {{level} \X UNION {Candidates(j, level, rel) :
                             rel \in {a \in AncestorAt(v1, j, level) : v1Assigned(a)}}
         : level \in 1 .. MaxLevelPath(j)}

(* The last candidate of the list instead of the first. *)
LastOf(choices) ==
  {ch \in choices : \A other \in choices :
     ch[1] < other[1] \/ (ch[1] = other[1] /\ ch[2] >= other[2])}

(* ... and the one it takes: the lowest level, then the first in prefix
   order, which for nodes of one size is the lowest number. *)
BestOf(choices) ==
  {ch \in choices : \A other \in choices :
     ch[1] < other[1] \/ (ch[1] = other[1] /\ ch[2] <= other[2])}

-----------------------------------------------------------------------------
Init ==
  /\ \E docs \in Inputs : v0 = docs[1] /\ v1 = docs[2]
  /\ v0match = [i \in Nodes(v0) |-> 0]
  /\ v1match = [j \in Nodes(v1) |-> 0]
  /\ phase = "matchById"
  /\ cursor = 1
  /\ toMatch = {}

(* The end of a pass noticed one node too late. *)
AdvanceOneTooFar(count, next, queue) ==
  IF cursor <= count
  THEN cursor' = cursor + 1 /\ UNCHANGED <<phase, toMatch>>
  ELSE cursor' = 1 /\ phase' = next /\ toMatch' = queue

(* The next node of a pass that visits count nodes, then the next pass. *)
Advance(count, next, queue) ==
  IF cursor < count
  THEN cursor' = cursor + 1 /\ UNCHANGED <<phase, toMatch>>
  ELSE cursor' = 1 /\ phase' = next /\ toMatch' = queue

(* A table keyed by the identifier alone, whatever the tag. *)
ByKeyAlone(j) ==
  {i \in Nodes(v0) :
     /\ HasIdAttr(v0, i) /\ Key(v0, i) = Key(v1, j)
     /\ \A k \in (i + 1) .. v0.n : Key(v0, k) # Key(v1, j)}

(***************************************************************************)
(* The v0 nodes v0nodeByIdAttrHash holds for the key of j: a later node    *)
(* with the same key replaces an earlier one.                              *)
(***************************************************************************)
ByIdAttrHash(j) ==
  {i \in Nodes(v0) :
     /\ HasIdAttr(v0, i) /\ OwnHash(v0, i) = OwnHash(v1, j)
     /\ \A k \in (i + 1) .. v0.n : OwnHash(v0, k) # OwnHash(v1, j)}

MatchById ==
  /\ phase = "matchById"
  /\ \E j \in Nodes(v1) :
       /\ PrefixRank(v1, j) = cursor
       /\ NodeAssign(IF HasIdAttr(v1, j) THEN ByIdAttrHash(j) \X {j} ELSE {})
  /\ Advance(v1.n, "fullBottomUp", {})
  /\ UNCHANGED <<v0, v1>>

(***************************************************************************)
(* weightByCandidate: the v0 parents of the matches of j's children, each  *)
(* with the weight of the children that speak for it.                      *)
(***************************************************************************)
Voters(j, i) ==
  {c \in Children(v1, j) : v1Assigned(c) /\ v0.parent[v1match[c]] = i}

Votes(j, i) == MapThenSumSet(LAMBDA c : v1.weight[c], Voters(j, i))

Heaviest(j) ==
  {i \in Nodes(v0) :
     /\ Voters(j, i) # {}
     /\ \A k \in Nodes(v0) : Voters(j, k) # {} => Votes(j, k) <= Votes(j, i)}

(* bestMatch: the heaviest, the lowest number among equals. *)
Favourite(j) == {i \in Heaviest(j) : \A k \in Heaviest(j) : i <= k}

FullBottomUp ==
  /\ phase = "fullBottomUp"
  /\ NodeAssign(Favourite(cursor) \X {cursor})
  /\ Advance(v1.n, "topdownMatch", {Root(v1)})
  /\ UNCHANGED <<v0, v1>>

-----------------------------------------------------------------------------
(* cmpNodesOrder: the heaviest first, the lowest number among equals. *)
First(j) ==
  \A k \in toMatch :
    \/ v1.weight[k] < v1.weight[j]
    \/ v1.weight[k] = v1.weight[j] /\ j <= k

(* A queue that is read but not popped. *)
RequeueWithoutPop(j, nodes) ==
  /\ toMatch' = toMatch \cup nodes
  /\ UNCHANGED <<phase, v0, v1, cursor>>

(* Node j leaves the queue and these nodes enter it. *)
Requeue(j, nodes) ==
  LET queue == (toMatch \ {j}) \cup nodes IN
  /\ toMatch' = queue
  /\ phase' = IF queue = {} THEN "optimize" ELSE phase
  /\ UNCHANGED <<v0, v1, cursor>>

(* A node that an earlier pass or step assigned: only its children count. *)
SkipAssigned(j) ==
  /\ v1Assigned(j)
  /\ UNCHANGED <<v0match, v1match>>
  /\ Requeue(j, Children(v1, j))

(* The roots are matched whatever they are and whatever v0's root had. *)
MatchRoots(j) ==
  /\ ~v1Assigned(j) /\ j = Root(v1)
  /\ v0match' = [v0match EXCEPT ![Root(v0)] = j]
  /\ v1match' = [v1match EXCEPT ![j] = Root(v0)]
  /\ Requeue(j, Children(v1, j))

MatchSubtree(j) ==
  /\ ~v1Assigned(j) /\ j # Root(v1)
  /\ \E best \in BestOf(CandidateChoices(j)) :
       NodeAssign(ForceParentsAssign(best[2], j, best[1])
                  \cup RecursiveAssign(best[2], j))
  /\ Requeue(j, {})

ProgramChildren(j) ==
  /\ ~v1Assigned(j) /\ j # Root(v1)
  /\ CandidateChoices(j) = {}
  /\ UNCHANGED <<v0match, v1match>>
  /\ Requeue(j, Children(v1, j))

TopdownMatch ==
  /\ phase = "topdownMatch"
  /\ \E j \in toMatch :
       /\ First(j)
       /\ SkipAssigned(j) \/ MatchRoots(j) \/ MatchSubtree(j) \/ ProgramChildren(j)

-----------------------------------------------------------------------------
FreeV0(i) ==
  {c \in Children(v0, i) : v0.kind[c] = "element" /\ ~v0Assigned(c)}

FreeV1(j) ==
  {c \in Children(v1, j) : v1.kind[c] = "element" /\ ~v1Assigned(c)}

(* Free children of two matched nodes, each alone on its side with its tag. *)
UniqueTags(i, j) ==
  {p \in FreeV0(i) \X FreeV1(j) :
     /\ v0.label[p[1]] = v1.label[p[2]]
     /\ \A c \in FreeV0(i) : v0.label[c] = v0.label[p[1]] => c = p[1]
     /\ \A c \in FreeV1(j) : v1.label[c] = v1.label[p[2]] => c = p[2]}

(* The children visited before the node itself. *)
OptimizeBottomUp ==
  /\ phase = "optimize"
  /\ NodeAssign(IF v0Assigned(cursor) THEN UniqueTags(cursor, v0match[cursor])
                ELSE {})
  /\ Advance(v0.n, "matched", {})
  /\ UNCHANGED <<v0, v1>>

Optimize ==
  /\ phase = "optimize"
  /\ \E i \in Nodes(v0) :
       /\ PrefixRank(v0, i) = cursor
       /\ NodeAssign(IF v0Assigned(i) THEN UniqueTags(i, v0match[i]) ELSE {})
  /\ Advance(v0.n, "matched", {})
  /\ UNCHANGED <<v0, v1>>

Next == MatchById \/ FullBottomUp \/ TopdownMatch \/ Optimize

Spec == Init /\ [][Next]_matchVars

(* One thread runs the passes and nothing makes it wait. *)
FairSpec == Spec /\ WF_matchVars(Next)

-----------------------------------------------------------------------------
(* The fields keep their ranges and the passes run in their order. *)
TypeOK ==
  /\ IsDocument(v0) /\ IsDocument(v1)
  /\ v0match \in [Nodes(v0) -> 0 .. v1.n]
  /\ v1match \in [Nodes(v1) -> 0 .. v0.n]
  /\ phase \in Phases
  /\ phase = "topdownMatch" => cursor = 1
  /\ cursor \in 1 .. (IF phase = "optimize" THEN v0.n ELSE v1.n)
  /\ toMatch \subseteq Nodes(v1)
  /\ toMatch # {} <=> phase = "topdownMatch"

(* v1's root took v0's root although an earlier pass had matched the latter. *)
RootTakenTwice(j) ==
  /\ v1match[j] = Root(v0) /\ v0match[Root(v0)] = Root(v1)
  /\ v1match[Root(v1)] = Root(v0)

(***************************************************************************)
(* The two myMatchID fields of a pair point at each other, whatever the    *)
(* order in which the four passes claim nodes.  The one node that may be   *)
(* left with a stale match is one that held v0's root when topdownMatch    *)
(* matched the roots.                                                      *)
(***************************************************************************)
MatchIsMutual ==
  /\ \A i \in Nodes(v0) : v0Assigned(i) => v1match[v0match[i]] = i
  /\ \A j \in Nodes(v1) : v1Assigned(j) =>
       v0match[v1match[j]] = j \/ RootTakenTwice(j)

(***************************************************************************)
(* A match is between nodes with one tag and one identifier: the script    *)
(* never has to rename or retype a node, other than the root.              *)
(***************************************************************************)
MatchKeepsOwnHash ==
  \A j \in Nodes(v1) : v1Assigned(j) =>
    \/ OwnHash(v0, v1match[j]) = OwnHash(v1, j)
    \/ j = Root(v1) /\ v1match[j] = Root(v0)

(***************************************************************************)
(* The own hash of a text is NULL and "can match any text nodes", and a    *)
(* comment has it too.  Still a text is only matched with a text of the    *)
(* same value and a comment with a comment: the only pass that reaches     *)
(* them compares subtrees.  The delta has no operation that would mend it. *)
(***************************************************************************)
MatchedLeavesAgree ==
  \A j \in Nodes(v1) : v1Assigned(j) =>
    /\ v0.kind[v1match[j]] = v1.kind[j]
    /\ v1.kind[j] = "text" => v0.label[v1match[j]] = v1.label[j]

(***************************************************************************)
(* No pass takes back what an earlier one decided: a v1 node keeps its     *)
(* match, and a v0 node does unless it is the root, which v1's root may    *)
(* take over.                                                              *)
(***************************************************************************)
MatchIsFinal ==
  [][/\ \A j \in Nodes(v1) : v1Assigned(j) => v1match'[j] = v1match[j]
     /\ \A i \in Nodes(v0) : v0Assigned(i) =>
          \/ v0match'[i] = v0match[i]
          \/ i = Root(v0) /\ v0match'[i] = Root(v1)
    ]_matchVars

UniqueKeys(d) ==
  \A i, k \in Nodes(d) :
    HasIdAttr(d, i) /\ HasIdAttr(d, k) /\ OwnHash(d, i) = OwnHash(d, k) => i = k

(***************************************************************************)
(* AtomicInfo: with an identifying attribute "matching is either mandatory *)
(* or forbidden".  When identifiers are unique in both documents, a node   *)
(* that has one is matched with the node of the same identifier whenever   *)
(* there is one, and with no other but the root with the root.             *)
(***************************************************************************)
IdentifierDecides ==
  UniqueKeys(v0) /\ UniqueKeys(v1) /\ phase # "matchById" =>
    \A i \in Nodes(v0), j \in Nodes(v1) :
      IF HasIdAttr(v0, i) /\ HasIdAttr(v1, j) /\ OwnHash(v0, i) = OwnHash(v1, j)
      THEN v1match[j] = i
      ELSE v1match[j] = i /\ (HasIdAttr(v0, i) \/ HasIdAttr(v1, j)) =>
             i = Root(v0) /\ j = Root(v1)

(* No text of several characters is the tag of an empty element. *)
TextsUnlikeTags(d) ==
  \A i, k \in Nodes(d) :
    /\ d.kind[i] = "text" /\ d.kind[k] = "element" /\ Children(d, k) = {}
    /\ HashSeed(d, i) = HashSeed(d, k)
    => NodeWeight(d, i) = NodeWeight(d, k)

(***************************************************************************)
(* A document compared with itself: every node ends up matched with        *)
(* itself, although equal subtrees compete for each other, so the delta is *)
(* empty.  Repeated identifiers are excluded: the table keeps one of them. *)
(* So are texts that hash like an empty element and are heavier, for which *)
(* DocumentMatchesItself shows what happens.                               *)
(***************************************************************************)
IdenticalDocumentsMatchIdentically ==
  phase = "matched" /\ v0 = v1 /\ UniqueKeys(v0) /\ TextsUnlikeTags(v0) =>
    \A j \in Nodes(v1) : v1match[j] = j /\ v0match[j] = j

(***************************************************************************)
(* mySubtreeHash is to "identify the subtree rooted at node".  If it did,  *)
(* a document compared with itself would match itself, without identifiers *)
(* in any case.  It does not: the text comes first in the queue, is given  *)
(* an empty element in front of it that hashes alike, cannot match it, and *)
(* is dropped.                                                             *)
(***************************************************************************)
DocumentMatchesItself ==
  phase = "matched" /\ v0 = v1 /\ (\A i \in Nodes(v0) : ~HasIdAttr(v0, i)) =>
    \A j \in Nodes(v1) : v1match[j] = j

(***************************************************************************)
(* getBestCandidate "finds a node which parent matches v1node parent", or  *)
(* a higher ancestor: a subtree is matched by its hash only below a pair   *)
(* of matched ancestors at one distance from the two subtrees.             *)
(***************************************************************************)
CandidateUnderMatchedAncestor ==
  [][\A j \in toMatch \ {Root(v1)} :
       ~v1Assigned(j) /\ v1match'[j] # 0 =>
         \E p \in AncestorPairs(v1match'[j], j) : v1match[p[2]] = p[1]
    ]_matchVars

(***************************************************************************)
(* Optimize leaves nothing obvious behind: below a matched pair no two     *)
(* free children with tags of their own and one own hash remain, below the *)
(* pairs that Optimize itself has made included.                           *)
(***************************************************************************)
NoObviousPairLeft ==
  phase = "matched" =>
    \A i \in Nodes(v0) : v0Assigned(i) =>
      \A p \in UniqueTags(i, v0match[i]) : ~Assignable(p[1], p[2])

(***************************************************************************)
(* "Document roots *always* match" (topdownMatch): not so when an earlier  *)
(* pass has matched v1's root with a node inside v0.                       *)
(***************************************************************************)
RootsAlwaysMatch ==
  phase \in {"optimize", "matched"} =>
    v1match[Root(v1)] = Root(v0) /\ v0match[Root(v0)] = Root(v1)

-----------------------------------------------------------------------------
(* The matching as the v1 nodes have it. *)
MatchedPairs == {<<v1match[j], j>> : j \in {k \in Nodes(v1) : v1Assigned(k)}}

Promise == INSTANCE Correspondence WITH pairs <- MatchedPairs, done <- phase = "matched"

(***************************************************************************)
(* Whatever passes run in whatever order over whatever queue, the matching *)
(* grows by free pairs of nodes that need no operation, once at the roots  *)
(* by the pair of roots, and ends with a match for v1's root.              *)
(***************************************************************************)
ImplementsCorrespondence == Promise!Spec

(* The priority queue drains and the four passes come to an end. *)
Termination == <>(phase = "matched")
=============================================================================
