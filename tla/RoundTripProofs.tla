--------------------------- MODULE RoundTripProofs ---------------------------
(***************************************************************************)
(* Theorems about the construction of a delta, for all documents and all   *)
(* matchings.  What needs the roots to be matched with each other says so  *)
(* with the premise RootsMatch.                                            *)
(***************************************************************************)
EXTENDS RoundTrip, DocumentProofs, NumberInduction

-----------------------------------------------------------------------------
(* The marking passes that are over. *)
OldMarked == pass # "markOldTree"

NewMarked == pass \notin {"markOldTree", "markNewTree"}

MovesMarked == pass \notin {"markOldTree", "markNewTree", "computeWeakMove"}

UpdatesMarked ==
  pass \notin {"markOldTree", "markNewTree", "computeWeakMove", "detectUpdate"}

(* The two documents and a matching between them, which nothing changes. *)
GivenDocuments ==
  /\ IsDocument(v0) /\ IsDocument(v1)
  /\ v0match \in [Nodes(v0) -> 0 .. v1.n]
  /\ v1match \in [Nodes(v1) -> 0 .. v0.n]
  /\ IsMatching(v0, v1, v0match, v1match)

(* The same, with the roots matched with each other. *)
MatchedDocuments == GivenDocuments /\ RootsMatch

OldEvents ==
  /\ v0event \in [Nodes(v0) -> {"nop", "deleted", "strongmove", "weakmove", "updateOld"}]
  /\ \A i \in Nodes(v0) : v0event[i] \in {"deleted", "updateOld"} <=> ~v0Assigned(i)
  /\ \A i \in Nodes(v0) : v0event[i] = "strongmove" <=> v0Assigned(i) /\ v0StrongMove(i)
  /\ v0event[Root(v0)] = "nop"

NewEvents ==
  /\ v1event \in [Nodes(v1) -> {"nop", "inserted", "strongmove", "weakmove", "updateNew"}]
  /\ \A j \in Nodes(v1) : v1event[j] \in {"inserted", "updateNew"} <=> ~v1Assigned(j)
  /\ \A j \in Nodes(v1) : v1event[j] = "strongmove" <=> v1Assigned(j) /\ v1StrongMove(j)
  /\ v1event[Root(v1)] = "nop"

(* A weak move has both ends, and there is none before they are computed. *)
WeakMovesAgree ==
  /\ MovesMarked => \A i \in Nodes(v0) : v0Assigned(i) =>
       (v0event[i] = "weakmove" <=> v1event[v0match[i]] = "weakmove")
  /\ OldMarked /\ ~MovesMarked => \A i \in Nodes(v0) : v0event[i] # "weakmove"
  /\ NewMarked /\ ~MovesMarked => \A j \in Nodes(v1) : v1event[j] # "weakmove"

(* Exactly the texts in Updates are marked as updated. *)
UpdatesAgree ==
  /\ OldMarked => \A i \in Nodes(v0) :
       v0event[i] = "updateOld" <=> UpdatesMarked /\ \E u \in Updates : u[1] = i
  /\ NewMarked => \A j \in Nodes(v1) :
       v1event[j] = "updateNew" <=> UpdatesMarked /\ \E u \in Updates : u[2] = j

(* The XIDs of the new nodes follow those of the first document. *)
FreshXid(j) == v0.n + 1 + Cardinality({k \in Inserted : k < j})

XidsGiven ==
  /\ v0xid = DefaultXids(v0)
  /\ ~NewMarked => firstAvailable = v0.n + 1
  /\ NewMarked =>
       /\ v1xid = [j \in Nodes(v1) |-> IF v1Assigned(j) THEN v1match[j] ELSE FreshXid(j)]
       /\ firstAvailable = v0.n + 1 + Cardinality(Inserted)

DeltaParts == DOMAIN delta = DOMAIN NoDelta

(* When the new texts are looked for, the u elements of the old ones are there. *)
UpdatesWritten ==
  pass = "inserts" =>
    delta.updates = {[xid |-> i, par |-> v0.parent[i], value |-> v0.label[i]] :
                     i \in {k \in Nodes(v0) : v0event[k] = "updateOld"}}

ScriptInv ==
  /\ MatchedDocuments
  /\ pass \in Passes \ {"exception", "undefined"}
  /\ OldMarked => OldEvents
  /\ NewMarked => NewEvents
  /\ WeakMovesAgree
  /\ UpdatesAgree
  /\ XidsGiven
  /\ DeltaParts
  /\ UpdatesWritten

-----------------------------------------------------------------------------
(* The matching in both directions, and on the roots. *)
LEMMA MatchingFacts ==
  ASSUME MatchedDocuments
  PROVE  /\ \A i \in Nodes(v0) : v0Assigned(i) =>
              v0match[i] \in Nodes(v1) /\ v1match[v0match[i]] = i /\ v1Assigned(v0match[i])
         /\ \A j \in Nodes(v1) : v1Assigned(j) =>
              v1match[j] \in Nodes(v0) /\ v0match[v1match[j]] = j /\ v0Assigned(v1match[j])
         /\ v0match[Root(v0)] = Root(v1) /\ v1match[Root(v1)] = Root(v0)
         /\ v0Assigned(Root(v0)) /\ v1Assigned(Root(v1))
PROOF
  <1>0. /\ Nodes(v0) = 1 .. v0.n /\ Nodes(v1) = 1 .. v1.n /\ v0.n \in Nat /\ v1.n \in Nat
        /\ Root(v0) \in Nodes(v0) /\ Root(v1) \in Nodes(v1)
    BY DocumentFacts DEF MatchedDocuments, GivenDocuments
  <1>1. /\ v0match \in [Nodes(v0) -> 0 .. v1.n] /\ v1match \in [Nodes(v1) -> 0 .. v0.n]
        /\ \A i \in Nodes(v0) : v0match[i] # 0 => v1match[v0match[i]] = i
        /\ \A j \in Nodes(v1) : v1match[j] # 0 => v0match[v1match[j]] = j
        /\ v1match[Root(v1)] = Root(v0)
    BY <1>0 DEF MatchedDocuments, GivenDocuments, IsMatching, RootsMatch
  <1>2. /\ Nodes(v0) = 1 .. v0.n /\ Nodes(v1) = 1 .. v1.n /\ v0.n \in Nat /\ v1.n \in Nat
        /\ Root(v0) \in Nodes(v0) /\ Root(v1) \in Nodes(v1)
    BY <1>0
  <1>3. \A i \in Nodes(v0) : v0match[i] # 0 => v0match[i] \in Nodes(v1)
    BY <1>1, <1>2
  <1>4. \A j \in Nodes(v1) : v1match[j] # 0 => v1match[j] \in Nodes(v0)
    BY <1>1, <1>2
  <1>5. Root(v0) # 0 /\ v0match[Root(v0)] = Root(v1) /\ Root(v1) # 0
    BY <1>1, <1>2
  <1>6. \A i \in Nodes(v0) : i # 0
    BY <1>2
  <1>7. \A j \in Nodes(v1) : j # 0
    BY <1>2
  <1> QED
    BY <1>1, <1>3, <1>4, <1>5, <1>6, <1>7 DEF v0Assigned, v1Assigned

(***************************************************************************)
(* MarkOldTree and MarkNewTree decide from one tree each, and agree on     *)
(* which pairs have moved to another parent.                               *)
(***************************************************************************)
LEMMA StrongMovesAgree ==
  ASSUME MatchedDocuments, NEW i \in Nodes(v0), v0Assigned(i)
  PROVE  v0StrongMove(i) <=> v1StrongMove(v0match[i])
PROOF
  <1> DEFINE j == v0match[i]
  <1>1. j \in Nodes(v1) /\ v1match[j] = i /\ v1Assigned(j)
    BY MatchingFacts
  <1>2. i = Root(v0) <=> j = Root(v1)
    BY <1>1, MatchingFacts
  <1>3. CASE i = Root(v0)
    BY <1>2, <1>3, DocumentFacts DEF MatchedDocuments, GivenDocuments, v0StrongMove, v1StrongMove
  <1>4. CASE i # Root(v0)
    <2> DEFINE p == v0.parent[i]
               q == v1.parent[j]
    <2>1. p \in Nodes(v0) /\ q \in Nodes(v1) /\ p # 0 /\ q # 0
      <3>1. p \in Nodes(v0) /\ q \in Nodes(v1)
        BY <1>1, <1>2, <1>4, DocumentFacts DEF MatchedDocuments, GivenDocuments
      <3>2. 0 \notin Nodes(v0) /\ 0 \notin Nodes(v1)
        BY DEF Nodes
      <3> QED
        BY <3>1, <3>2
    <2>2. v0StrongMove(i) <=> v0match[p] # q
      BY <2>1 DEF v0StrongMove, v0Assigned
    <2>3. v1StrongMove(j) <=> v1match[q] # p
      BY <1>1, <2>1 DEF v1StrongMove, v1Assigned
    <2>4. v0match[p] = q <=> v1match[q] = p
      BY <2>1, MatchingFacts DEF v0Assigned, v1Assigned
    <2> QED
      BY <2>2, <2>3, <2>4
  <1> QED
    BY <1>3, <1>4

-----------------------------------------------------------------------------
(***************************************************************************)
(* An update is a pair of free texts, each alone below its parent, and the *)
(* parents are matched: no text is in two updates.                         *)
(***************************************************************************)
LEMMA UpdatesAreOneToOne ==
  ASSUME MatchedDocuments
  PROVE  /\ \A u \in Updates :
              /\ u[1] \in Nodes(v0) /\ ~v0Assigned(u[1])
              /\ u[2] \in Nodes(v1) /\ ~v1Assigned(u[2])
              /\ v0.parent[u[1]] \in Nodes(v0) /\ v0Assigned(v0.parent[u[1]])
              /\ v1.parent[u[2]] = v0match[v0.parent[u[1]]]
         /\ \A u, w \in Updates : u[1] = w[1] <=> u[2] = w[2]
PROOF
  <1>1. ASSUME NEW u \in Updates
        PROVE  \E p \in Nodes(v0) :
                 /\ v0Assigned(p)
                 /\ u[1] \in LoneText(v0, {c \in Nodes(v0) : ~v0Assigned(c)}, p)
                 /\ u[2] \in LoneText(v1, {c \in Nodes(v1) : ~v1Assigned(c)}, v0match[p])
    BY DEF Updates
  <1>2. ASSUME NEW u \in Updates
        PROVE  \E p \in Nodes(v0) :
                 /\ v0Assigned(p) /\ v0match[p] \in Nodes(v1)
                 /\ u[1] \in Nodes(v0) /\ ~v0Assigned(u[1]) /\ Children(v0, p) = {u[1]}
                 /\ u[2] \in Nodes(v1) /\ ~v1Assigned(u[2]) /\ Children(v1, v0match[p]) = {u[2]}
    <2>1. PICK p \in Nodes(v0) :
                 /\ v0Assigned(p)
                 /\ u[1] \in LoneText(v0, {c \in Nodes(v0) : ~v0Assigned(c)}, p)
                 /\ u[2] \in LoneText(v1, {c \in Nodes(v1) : ~v1Assigned(c)}, v0match[p])
      BY <1>1
    <2>2. /\ u[1] \in Nodes(v0) /\ ~v0Assigned(u[1]) /\ Children(v0, p) = {u[1]}
          /\ u[2] \in Nodes(v1) /\ ~v1Assigned(u[2]) /\ Children(v1, v0match[p]) = {u[2]}
      BY <2>1 DEF LoneText
    <2> QED
      BY <2>1, <2>2, MatchingFacts
  <1>3. /\ \A i \in Nodes(v0) : \A c : c \in Children(v0, i) <=> c \in Nodes(v0) /\ v0.parent[c] = i
        /\ \A j \in Nodes(v1) : \A c : c \in Children(v1, j) <=> c \in Nodes(v1) /\ v1.parent[c] = j
    BY DocumentFacts DEF MatchedDocuments, GivenDocuments
  <1>4. ASSUME NEW u \in Updates
        PROVE  /\ u[1] \in Nodes(v0) /\ ~v0Assigned(u[1])
               /\ u[2] \in Nodes(v1) /\ ~v1Assigned(u[2])
               /\ v0.parent[u[1]] \in Nodes(v0) /\ v0Assigned(v0.parent[u[1]])
               /\ v1.parent[u[2]] = v0match[v0.parent[u[1]]]
               /\ Children(v0, v0.parent[u[1]]) = {u[1]}
               /\ Children(v1, v1.parent[u[2]]) = {u[2]}
    BY <1>2, <1>3
  <1>5. ASSUME NEW u \in Updates, NEW w \in Updates
        PROVE  u[1] = w[1] <=> u[2] = w[2]
    <2>1. u[1] = w[1] => u[2] = w[2]
      BY <1>4
    <2>2. ASSUME u[2] = w[2]
          PROVE  u[1] = w[1]
      <3>1. v0match[v0.parent[u[1]]] = v0match[v0.parent[w[1]]]
        BY <1>4, <2>2
      <3>2. v0.parent[u[1]] = v0.parent[w[1]]
        BY <1>4, <3>1, MatchingFacts
      <3> QED
        BY <1>4, <3>2
    <2> QED
      BY <2>1, <2>2
  <1> QED
    BY <1>4, <1>5

(* No pass changes the documents or the matching, nor what is made of them. *)
LEMMA MatchingStays ==
  ASSUME UNCHANGED matched
  PROVE  /\ MatchedDocuments' <=> MatchedDocuments
         /\ GivenDocuments' <=> GivenDocuments
         /\ RootsMatch' <=> RootsMatch
         /\ Updates' = Updates /\ Inserted' = Inserted
         /\ \A i : v0Assigned(i)' <=> v0Assigned(i)
         /\ \A j : v1Assigned(j)' <=> v1Assigned(j)
         /\ \A i : v0StrongMove(i)' <=> v0StrongMove(i)
         /\ \A j : v1StrongMove(j)' <=> v1StrongMove(j)
         /\ \A j : FreshXid(j)' = FreshXid(j)
PROOF
  BY DEF matched, MatchedDocuments, GivenDocuments, RootsMatch, Updates, Inserted, v0Assigned, v1Assigned,
         v0StrongMove, v1StrongMove, FreshXid

(* xydiff starts with two documents and what the matching has left. *)
LEMMA InitIsGiven ==
  ASSUME Init
  PROVE  GivenDocuments
PROOF
  <1>1. PICK docs \in Inputs : v0 = docs[1] /\ v1 = docs[2]
    BY DEF Init
  <1>2. IsDocument(v0) /\ IsDocument(v1)
    BY <1>1, InputsAssumption
  <1>3. /\ v1match \in [Nodes(v1) -> 0 .. v0.n]
        /\ v0match = [i \in Nodes(v0) |-> PartnerOf(i)]
        /\ IsMatching(v0, v1, v0match, v1match)
    BY DEF Init
  <1>4. Nodes(v1) \subseteq 0 .. v1.n /\ 0 \in 0 .. v1.n
    BY <1>2, DocumentFacts
  <1>5. \A i : PartnerOf(i) = 0 \/ PartnerOf(i) \in Nodes(v1)
    BY DEF PartnerOf
  <1>6. v0match \in [Nodes(v0) -> 0 .. v1.n]
    BY <1>3, <1>4, <1>5
  <1> QED
    BY <1>2, <1>3, <1>6 DEF GivenDocuments

(* Before the first pass. *)
LEMMA ScriptInitInvariant ==
  ASSUME Init, RootsMatch
  PROVE  ScriptInv
PROOF
  <1>1. MatchedDocuments
    BY InitIsGiven DEF MatchedDocuments, GivenDocuments
  <1>2. /\ pass = "markOldTree" /\ v0xid = DefaultXids(v0) /\ firstAvailable = v0.n + 1
        /\ delta = NoDelta
    BY DEF Init, ScriptInit
  <1> QED
    BY <1>1, <1>2 DEF ScriptInv, Passes, OldMarked, NewMarked, MovesMarked, UpdatesMarked,
                      WeakMovesAgree, UpdatesAgree, XidsGiven, DeltaParts, UpdatesWritten

(* The marks of the old tree. *)
LEMMA MarkOldTreeInvariant ==
  ASSUME ScriptInv, MarkOldTree
  PROVE  ScriptInv'
PROOF
  <1>1. /\ pass = "markOldTree" /\ pass' = "markNewTree" /\ UNCHANGED matched
        /\ UNCHANGED <<v1event, v0xid, v1xid, firstAvailable, delta>>
        /\ v0event' = [i \in Nodes(v0) |->
             IF ~v0Assigned(i) THEN "deleted"
             ELSE IF v0StrongMove(i) THEN "strongmove" ELSE "nop"]
    BY DEF MarkOldTree
  <1>2. MatchedDocuments /\ MatchedDocuments' /\ v0' = v0 /\ v1' = v1
    BY <1>1, MatchingStays DEF ScriptInv, matched
  <1>3. Root(v0) \in Nodes(v0) /\ v0Assigned(Root(v0)) /\ ~v0StrongMove(Root(v0))
    BY <1>2, MatchingFacts, DocumentFacts DEF MatchedDocuments, GivenDocuments, v0StrongMove
  <1>4. OldEvents'
    BY <1>1, <1>2, <1>3, MatchingStays DEF OldEvents
  <1>5. WeakMovesAgree' /\ UpdatesAgree'
    BY <1>1, <1>2 DEF WeakMovesAgree, UpdatesAgree, OldMarked, NewMarked, MovesMarked, UpdatesMarked
  <1>6. XidsGiven' /\ DeltaParts' /\ UpdatesWritten'
    BY <1>1, <1>2 DEF ScriptInv, XidsGiven, DeltaParts, UpdatesWritten, NewMarked
  <1> QED
    BY <1>1, <1>2, <1>4, <1>5, <1>6 DEF ScriptInv, Passes, OldMarked, NewMarked

(***************************************************************************)
(* The XIDs of new nodes grow with the nodes, and begin where those of the *)
(* first document end.                                                     *)
(***************************************************************************)
LEMMA GivenXidsGrow ==
  ASSUME GivenDocuments
  PROVE  /\ Cardinality(Inserted) \in Nat
         /\ \A j \in Inserted :
              /\ FreshXid(j) \in Nat
              /\ v0.n < FreshXid(j) /\ FreshXid(j) < v0.n + 1 + Cardinality(Inserted)
         /\ \A j, k \in Inserted : j < k => FreshXid(j) < FreshXid(k)
PROOF
  <1> DEFINE Earlier(j) == {k \in Inserted : k < j}
  <1>1. v0.n \in Nat /\ v1.n \in Nat /\ Inserted \subseteq 1 .. v1.n /\ IsFiniteSet(Inserted)
    <2>1. IsFiniteSet(Nodes(v1)) /\ Nodes(v1) = 1 .. v1.n /\ v0.n \in Nat /\ v1.n \in Nat
      BY DocumentFacts DEF GivenDocuments
    <2>2. Inserted \subseteq Nodes(v1)
      BY DEF Inserted
    <2> QED
      BY <2>1, <2>2, FS_Subset
  <1>2. ASSUME NEW S, NEW T, NEW j, S \subseteq T, j \in T, j \notin S, IsFiniteSet(T)
        PROVE  Cardinality(S) \in Nat /\ Cardinality(S) < Cardinality(T) /\ Cardinality(T) \in Nat
    <2>1. IsFiniteSet(S) /\ IsFiniteSet(S \cup {j}) /\ S \cup {j} \subseteq T
      BY <1>2, FS_Subset
    <2>2. Cardinality(S \cup {j}) = Cardinality(S) + 1
      BY <1>2, <2>1, FS_AddElement
    <2>3. Cardinality(S \cup {j}) <= Cardinality(T)
      BY <1>2, <2>1, FS_Subset
    <2>4. Cardinality(S) \in Nat /\ Cardinality(T) \in Nat
      BY <1>2, <2>1, FS_CardinalityType
    <2> QED
      BY <2>2, <2>3, <2>4
  <1>3. \A j \in Inserted : Cardinality(Earlier(j)) \in Nat
                            /\ Cardinality(Earlier(j)) < Cardinality(Inserted)
    <2> SUFFICES ASSUME NEW j \in Inserted
                 PROVE  Cardinality(Earlier(j)) \in Nat
                        /\ Cardinality(Earlier(j)) < Cardinality(Inserted)
      OBVIOUS
    <2>1. Earlier(j) \subseteq Inserted /\ j \notin Earlier(j)
      BY <1>1
    <2> HIDE DEF Earlier
    <2> QED
      BY <1>1, <1>2, <2>1
  <1>4. \A j, k \in Inserted : j < k => Cardinality(Earlier(j)) < Cardinality(Earlier(k))
    <2> SUFFICES ASSUME NEW j \in Inserted, NEW k \in Inserted, j < k
                 PROVE  Cardinality(Earlier(j)) < Cardinality(Earlier(k))
      OBVIOUS
    <2>1. Earlier(j) \subseteq Earlier(k) /\ j \in Earlier(k) /\ j \notin Earlier(j)
      <3>1. \A i \in Inserted : i \in Int
        BY <1>1
      <3>2. \A i \in Inserted : i < j => i < k
        BY <3>1
      <3>3. ~(j < j)
        BY <3>1
      <3> QED
        BY <3>2, <3>3
    <2>2. IsFiniteSet(Earlier(k))
      BY <1>1, FS_Subset
    <2> HIDE DEF Earlier
    <2> QED
      BY <1>2, <2>1, <2>2
  <1>5. Cardinality(Inserted) \in Nat
    BY <1>1, FS_CardinalityType
  <1>6. \A j : FreshXid(j) = v0.n + 1 + Cardinality(Earlier(j))
    BY DEF FreshXid
  <1> HIDE DEF Earlier
  <1> QED
    BY <1>1, <1>3, <1>4, <1>5, <1>6

(* In particular with the roots matched. *)
LEMMA FreshXidsGrow ==
  ASSUME MatchedDocuments
  PROVE  /\ Cardinality(Inserted) \in Nat
         /\ \A j \in Inserted :
              /\ FreshXid(j) \in Nat
              /\ v0.n < FreshXid(j) /\ FreshXid(j) < v0.n + 1 + Cardinality(Inserted)
         /\ \A j, k \in Inserted : j < k => FreshXid(j) < FreshXid(k)
BY GivenXidsGrow DEF MatchedDocuments

(***************************************************************************)
(* MarkNewTree never registers an XID twice: matched nodes take those of   *)
(* different nodes of the first document, the others fresh ones.           *)
(***************************************************************************)
LEMMA XidsAreDistinct ==
  ASSUME MatchedDocuments, NEW j \in Nodes(v1), NEW k \in Nodes(v1), j # k
  PROVE  (IF v1Assigned(j) THEN v1match[j] ELSE FreshXid(j))
           # (IF v1Assigned(k) THEN v1match[k] ELSE FreshXid(k))
PROOF
  <1>1. \A i \in Nodes(v1) : i \in Int /\ (v1Assigned(i) => v1match[i] \in 1 .. v0.n)
    BY MatchingFacts, DocumentFacts DEF MatchedDocuments, GivenDocuments
  <1>2. \A i \in Nodes(v1) : ~v1Assigned(i) => i \in Inserted
    BY DEF Inserted
  <1>3. v0.n \in Nat
    BY DocumentFacts DEF MatchedDocuments, GivenDocuments
  <1>4. CASE v1Assigned(j) /\ v1Assigned(k)
    BY <1>4, MatchingFacts
  <1>5. CASE v1Assigned(j) /\ ~v1Assigned(k)
    BY <1>1, <1>2, <1>3, <1>5, FreshXidsGrow
  <1>6. CASE ~v1Assigned(j) /\ v1Assigned(k)
    BY <1>1, <1>2, <1>3, <1>6, FreshXidsGrow
  <1>7. CASE ~v1Assigned(j) /\ ~v1Assigned(k)
    <2>1. j < k \/ k < j
      BY <1>1
    <2> QED
      BY <1>2, <1>7, <2>1, FreshXidsGrow
  <1> QED
    BY <1>4, <1>5, <1>6, <1>7

(* The marks and the XIDs of the new tree. *)
LEMMA MarkNewTreeInvariant ==
  ASSUME ScriptInv, MarkNewTree
  PROVE  ScriptInv'
PROOF
  <1>1. /\ pass = "markNewTree" /\ UNCHANGED matched
        /\ UNCHANGED <<v0event, v0xid, delta>>
        /\ v1event' = [j \in Nodes(v1) |->
             IF ~v1Assigned(j) THEN "inserted"
             ELSE IF v1StrongMove(j) THEN "strongmove" ELSE "nop"]
        /\ v1xid' = [j \in Nodes(v1) |->
             IF v1Assigned(j) THEN v0xid[v1match[j]] ELSE NewXid(j)]
        /\ firstAvailable' = firstAvailable + Cardinality(Inserted)
        /\ pass' = IF \E j, k \in Nodes(v1) : j # k /\ v1xid'[j] = v1xid'[k]
                   THEN "exception" ELSE "computeWeakMove"
    BY DEF MarkNewTree
  <1>2. MatchedDocuments /\ MatchedDocuments' /\ v0' = v0 /\ v1' = v1
    BY <1>1, MatchingStays DEF ScriptInv, matched
  <1>3. Root(v1) \in Nodes(v1) /\ v1Assigned(Root(v1)) /\ ~v1StrongMove(Root(v1))
    BY <1>2, MatchingFacts, DocumentFacts DEF MatchedDocuments, GivenDocuments, v1StrongMove
  <1>4. v0xid = DefaultXids(v0) /\ firstAvailable = v0.n + 1
    BY <1>1 DEF ScriptInv, XidsGiven, NewMarked
  <1>5. v1xid' = [j \in Nodes(v1) |-> IF v1Assigned(j) THEN v1match[j] ELSE FreshXid(j)]
    <2>1. \A j \in Nodes(v1) : v1Assigned(j) => v0xid[v1match[j]] = v1match[j]
      BY <1>2, <1>4, MatchingFacts DEF DefaultXids
    <2>2. \A j : NewXid(j) = FreshXid(j)
      BY <1>4 DEF NewXid, FreshXid
    <2> QED
      BY <1>1, <2>1, <2>2
  <1>6. pass' = "computeWeakMove"
    <2>1. \A j, k \in Nodes(v1) : j # k => v1xid'[j] # v1xid'[k]
      <3> SUFFICES ASSUME NEW j \in Nodes(v1), NEW k \in Nodes(v1), j # k
                   PROVE  v1xid'[j] # v1xid'[k]
        OBVIOUS
      <3>1. (IF v1Assigned(j) THEN v1match[j] ELSE FreshXid(j))
              # (IF v1Assigned(k) THEN v1match[k] ELSE FreshXid(k))
        BY <1>2, XidsAreDistinct
      <3> QED
        BY <1>5, <3>1
    <2> QED
      BY <1>1, <2>1
  <1>7. NewEvents'
    BY <1>1, <1>2, <1>3, MatchingStays DEF NewEvents
  <1>8. OldMarked /\ OldMarked' /\ ~MovesMarked /\ ~MovesMarked'
        /\ ~UpdatesMarked /\ ~UpdatesMarked' /\ NewMarked'
    BY <1>1, <1>6 DEF OldMarked, NewMarked, MovesMarked, UpdatesMarked
  <1>9. OldEvents'
    BY <1>1, <1>2, <1>8, MatchingStays DEF OldEvents, ScriptInv
  <1>10. WeakMovesAgree'
    BY <1>1, <1>2, <1>8 DEF WeakMovesAgree, ScriptInv
  <1>11. UpdatesAgree'
    BY <1>1, <1>2, <1>8 DEF UpdatesAgree, ScriptInv
  <1>12. XidsGiven'
    <2>1. v0xid' = DefaultXids(v0')
      BY <1>1, <1>2, <1>4
    <2>2. v1xid' = [j \in Nodes(v1') |->
                      IF v1Assigned(j)' THEN v1match'[j] ELSE FreshXid(j)']
      BY <1>1, <1>2, <1>5, MatchingStays DEF matched
    <2>3. firstAvailable' = v0'.n + 1 + Cardinality(Inserted')
      BY <1>1, <1>2, <1>4, MatchingStays
    <2> QED
      BY <1>8, <2>1, <2>2, <2>3 DEF XidsGiven
  <1>13. DeltaParts' /\ UpdatesWritten'
    BY <1>1, <1>6 DEF ScriptInv, DeltaParts, UpdatesWritten
  <1> QED
    BY <1>2, <1>6, <1>7, <1>8, <1>9, <1>10, <1>11, <1>12, <1>13 DEF ScriptInv, Passes

(* Once the XIDs are given no pass changes them. *)
LEMMA XidsStay ==
  ASSUME ScriptInv, UNCHANGED matched, UNCHANGED <<v0xid, v1xid, firstAvailable>>,
         NewMarked, NewMarked'
  PROVE  XidsGiven'
PROOF
  <1>1. /\ v0xid = DefaultXids(v0)
        /\ v1xid = [j \in Nodes(v1) |-> IF v1Assigned(j) THEN v1match[j] ELSE FreshXid(j)]
        /\ firstAvailable = v0.n + 1 + Cardinality(Inserted)
    BY DEF ScriptInv, XidsGiven
  <1>2. v0' = v0 /\ v1' = v1 /\ v1match' = v1match
    BY DEF matched
  <1>3. v0xid' = DefaultXids(v0')
    BY <1>1, <1>2
  <1>4. v1xid' = [j \in Nodes(v1') |-> IF v1Assigned(j)' THEN v1match'[j] ELSE FreshXid(j)']
    BY <1>1, <1>2, MatchingStays
  <1>5. firstAvailable' = v0'.n + 1 + Cardinality(Inserted')
    BY <1>1, <1>2, MatchingStays
  <1> QED
    BY <1>3, <1>4, <1>5 DEF XidsGiven

(* What changes places within a parent stays below it, and is not a root. *)
LEMMA WeakMovesStayBelow ==
  ASSUME MatchedDocuments, NEW i \in WeakMoves
  PROVE  i \in Nodes(v0) /\ i # Root(v0) /\ v0event[i] = "nop"
PROOF
  <1>1. PICK p \in Nodes(v0) : i \in Children(v0, p) /\ v0event[i] = "nop"
    BY DEF WeakMoves
  <1>2. i \in Nodes(v0) /\ v0.parent[i] = p
    BY <1>1, DocumentFacts DEF MatchedDocuments, GivenDocuments
  <1>3. v0.parent[Root(v0)] = 0 /\ p # 0
    BY DocumentFacts DEF MatchedDocuments, GivenDocuments, Nodes
  <1> QED
    BY <1>1, <1>2, <1>3

(* A child that changes places is marked at both ends. *)
LEMMA ComputeWeakMoveInvariant ==
  ASSUME ScriptInv, ComputeWeakMove
  PROVE  ScriptInv'
PROOF
  <1>1. /\ pass = "computeWeakMove" /\ pass' = "detectUpdate" /\ UNCHANGED matched
        /\ UNCHANGED <<v0xid, v1xid, firstAvailable, delta>>
        /\ v0event' = [i \in Nodes(v0) |-> IF i \in WeakMoves THEN "weakmove" ELSE v0event[i]]
        /\ v1event' = [j \in Nodes(v1) |->
             IF \E i \in WeakMoves : v0match[i] = j THEN "weakmove" ELSE v1event[j]]
    BY DEF ComputeWeakMove
  <1>2. /\ MatchedDocuments /\ MatchedDocuments' /\ v0' = v0 /\ v1' = v1
        /\ v0match' = v0match /\ v1match' = v1match
    BY <1>1, MatchingStays DEF ScriptInv, matched
  <1>3. OldEvents /\ NewEvents
    BY <1>1 DEF ScriptInv, OldMarked, NewMarked
  <1>4. /\ OldMarked /\ OldMarked' /\ NewMarked /\ NewMarked' /\ ~MovesMarked /\ MovesMarked'
        /\ ~UpdatesMarked /\ ~UpdatesMarked'
    BY <1>1 DEF OldMarked, NewMarked, MovesMarked, UpdatesMarked
  <1>5. /\ \A i \in Nodes(v0) : v0event[i] # "weakmove" /\ v0event[i] # "updateOld"
        /\ \A j \in Nodes(v1) : v1event[j] # "weakmove" /\ v1event[j] # "updateNew"
    BY <1>4 DEF ScriptInv, WeakMovesAgree, UpdatesAgree
  <1>6. \A i \in WeakMoves : /\ i \in Nodes(v0) /\ i # Root(v0) /\ v0event[i] = "nop"
                             /\ v0Assigned(i) /\ ~v0StrongMove(i)
    BY <1>2, <1>3, WeakMovesStayBelow DEF OldEvents
  <1>7. \A i \in WeakMoves : /\ v0match[i] \in Nodes(v1) /\ v0match[i] # Root(v1)
                             /\ v1Assigned(v0match[i]) /\ ~v1StrongMove(v0match[i])
    <2> SUFFICES ASSUME NEW i \in WeakMoves
                 PROVE  /\ v0match[i] \in Nodes(v1) /\ v0match[i] # Root(v1)
                        /\ v1Assigned(v0match[i]) /\ ~v1StrongMove(v0match[i])
      OBVIOUS
    <2>1. v0match[i] \in Nodes(v1) /\ v1match[v0match[i]] = i /\ v1Assigned(v0match[i])
      BY <1>2, <1>6, MatchingFacts
    <2>2. v0match[i] # Root(v1)
      BY <1>2, <1>6, <2>1, MatchingFacts
    <2>3. ~v1StrongMove(v0match[i])
      BY <1>2, <1>6, StrongMovesAgree
    <2> QED
      BY <2>1, <2>2, <2>3
  <1>8. OldEvents'
    <2>1. /\ v0event' \in [Nodes(v0) ->
               {"nop", "deleted", "strongmove", "weakmove", "updateOld"}]
          /\ \A i \in Nodes(v0) : v0event'[i] \in {"deleted", "updateOld"} <=> ~v0Assigned(i)
          /\ \A i \in Nodes(v0) : v0event'[i] = "strongmove" <=> v0Assigned(i) /\ v0StrongMove(i)
          /\ v0event'[Root(v0)] = "nop"
      BY <1>1, <1>2, <1>3, <1>6, DocumentFacts DEF OldEvents, MatchedDocuments, GivenDocuments
    <2> QED
      BY <1>1, <1>2, <2>1, MatchingStays DEF OldEvents
  <1>9. NewEvents'
    <2>1. \A j \in Nodes(v1) : (\E i \in WeakMoves : v0match[i] = j) =>
            v1Assigned(j) /\ ~v1StrongMove(j) /\ j # Root(v1)
      BY <1>7
    <2>2. /\ v1event' \in [Nodes(v1) ->
               {"nop", "inserted", "strongmove", "weakmove", "updateNew"}]
          /\ \A j \in Nodes(v1) : v1event'[j] \in {"inserted", "updateNew"} <=> ~v1Assigned(j)
          /\ \A j \in Nodes(v1) : v1event'[j] = "strongmove" <=> v1Assigned(j) /\ v1StrongMove(j)
          /\ v1event'[Root(v1)] = "nop"
      BY <1>1, <1>2, <1>3, <2>1, DocumentFacts DEF NewEvents, MatchedDocuments, GivenDocuments
    <2> QED
      BY <1>1, <1>2, <2>2, MatchingStays DEF NewEvents
  <1>10. WeakMovesAgree'
    <2>1. ASSUME NEW i \in Nodes(v0), v0Assigned(i)
          PROVE  v0event'[i] = "weakmove" <=> v1event'[v0match[i]] = "weakmove"
      <3>1. v0match[i] \in Nodes(v1) /\ v1match[v0match[i]] = i
        BY <1>2, <2>1, MatchingFacts
      <3>2. i \in WeakMoves <=> \E k \in WeakMoves : v0match[k] = v0match[i]
        <4>1. \A k \in WeakMoves : v1match[v0match[k]] = k
          BY <1>2, <1>6, MatchingFacts
        <4> QED
          BY <3>1, <4>1
      <3>3. v0event'[i] = "weakmove" <=> i \in WeakMoves
        BY <1>1, <1>5
      <3>4. v1event'[v0match[i]] = "weakmove" <=> \E k \in WeakMoves : v0match[k] = v0match[i]
        BY <1>1, <1>5, <3>1
      <3> QED
        BY <3>2, <3>3, <3>4
    <2> QED
      BY <1>1, <1>2, <1>4, <2>1, MatchingStays DEF WeakMovesAgree
  <1>11. UpdatesAgree'
    <2>1. \A i \in Nodes(v0) : v0event'[i] # "updateOld"
      BY <1>1, <1>5
    <2>2. \A j \in Nodes(v1) : v1event'[j] # "updateNew"
      BY <1>1, <1>5
    <2> QED
      BY <1>2, <1>4, <2>1, <2>2 DEF UpdatesAgree
  <1>12. XidsGiven'
    BY <1>1, <1>4, XidsStay
  <1>13. DeltaParts' /\ UpdatesWritten'
    BY <1>1 DEF ScriptInv, DeltaParts, UpdatesWritten
  <1> QED
    BY <1>1, <1>2, <1>4, <1>8, <1>9, <1>10, <1>11, <1>12, <1>13 DEF ScriptInv, Passes

(* Only nodes without a match become old and new values. *)
LEMMA DetectUpdateInvariant ==
  ASSUME ScriptInv, DetectUpdate
  PROVE  ScriptInv'
PROOF
  <1>1. /\ pass = "detectUpdate" /\ pass' = "attributes" /\ UNCHANGED matched
        /\ UNCHANGED <<v0xid, v1xid, firstAvailable, delta>>
        /\ v0event' = [i \in Nodes(v0) |->
             IF \E u \in Updates : u[1] = i THEN "updateOld" ELSE v0event[i]]
        /\ v1event' = [j \in Nodes(v1) |->
             IF \E u \in Updates : u[2] = j THEN "updateNew" ELSE v1event[j]]
    BY DEF DetectUpdate
  <1>2. /\ MatchedDocuments /\ MatchedDocuments' /\ v0' = v0 /\ v1' = v1
        /\ v0match' = v0match /\ v1match' = v1match
    BY <1>1, MatchingStays DEF ScriptInv, matched
  <1>3. OldEvents /\ NewEvents
    BY <1>1 DEF ScriptInv, OldMarked, NewMarked
  <1>4. /\ OldMarked /\ OldMarked' /\ NewMarked /\ NewMarked' /\ MovesMarked /\ MovesMarked'
        /\ ~UpdatesMarked /\ UpdatesMarked'
    BY <1>1 DEF OldMarked, NewMarked, MovesMarked, UpdatesMarked
  <1>5. /\ \A i \in Nodes(v0) : v0event[i] # "updateOld"
        /\ \A j \in Nodes(v1) : v1event[j] # "updateNew"
    BY <1>4 DEF ScriptInv, UpdatesAgree
  <1>6. \A u \in Updates : /\ u[1] \in Nodes(v0) /\ ~v0Assigned(u[1])
                           /\ u[2] \in Nodes(v1) /\ ~v1Assigned(u[2])
    BY <1>2, UpdatesAreOneToOne
  <1>7. /\ \A i \in Nodes(v0) : (\E u \in Updates : u[1] = i) => ~v0Assigned(i)
        /\ \A j \in Nodes(v1) : (\E u \in Updates : u[2] = j) => ~v1Assigned(j)
    BY <1>6
  <1>8. v0Assigned(Root(v0)) /\ v1Assigned(Root(v1))
        /\ Root(v0) \in Nodes(v0) /\ Root(v1) \in Nodes(v1)
    BY <1>2, MatchingFacts, DocumentFacts DEF MatchedDocuments, GivenDocuments
  <1>9. OldEvents'
    <2>1. /\ v0event' \in [Nodes(v0) ->
               {"nop", "deleted", "strongmove", "weakmove", "updateOld"}]
          /\ \A i \in Nodes(v0) : v0event'[i] \in {"deleted", "updateOld"} <=> ~v0Assigned(i)
          /\ \A i \in Nodes(v0) : v0event'[i] = "strongmove" <=> v0Assigned(i) /\ v0StrongMove(i)
          /\ v0event'[Root(v0)] = "nop"
      BY <1>1, <1>3, <1>7, <1>8 DEF OldEvents
    <2> QED
      BY <1>1, <1>2, <2>1, MatchingStays DEF OldEvents
  <1>10. NewEvents'
    <2>1. /\ v1event' \in [Nodes(v1) ->
               {"nop", "inserted", "strongmove", "weakmove", "updateNew"}]
          /\ \A j \in Nodes(v1) : v1event'[j] \in {"inserted", "updateNew"} <=> ~v1Assigned(j)
          /\ \A j \in Nodes(v1) : v1event'[j] = "strongmove" <=> v1Assigned(j) /\ v1StrongMove(j)
          /\ v1event'[Root(v1)] = "nop"
      BY <1>1, <1>3, <1>7, <1>8 DEF NewEvents
    <2> QED
      BY <1>1, <1>2, <2>1, MatchingStays DEF NewEvents
  <1>11. WeakMovesAgree'
    <2>1. ASSUME NEW i \in Nodes(v0), v0Assigned(i)
          PROVE  v0event'[i] = "weakmove" <=> v1event'[v0match[i]] = "weakmove"
      <3>1. v0match[i] \in Nodes(v1) /\ v1Assigned(v0match[i])
        BY <1>2, <2>1, MatchingFacts
      <3>2. v0event[i] = "weakmove" <=> v1event[v0match[i]] = "weakmove"
        BY <1>4, <2>1 DEF ScriptInv, WeakMovesAgree
      <3> QED
        BY <1>1, <1>7, <2>1, <3>1, <3>2
    <2> QED
      BY <1>1, <1>2, <1>4, <2>1, MatchingStays DEF WeakMovesAgree
  <1>12. UpdatesAgree'
    <2>1. \A i \in Nodes(v0) : v0event'[i] = "updateOld" <=> \E u \in Updates : u[1] = i
      BY <1>1, <1>5
    <2>2. \A j \in Nodes(v1) : v1event'[j] = "updateNew" <=> \E u \in Updates : u[2] = j
      BY <1>1, <1>5
    <2> QED
      BY <1>1, <1>2, <1>4, <2>1, <2>2, MatchingStays DEF UpdatesAgree
  <1>13. XidsGiven'
    BY <1>1, <1>4, XidsStay
  <1>14. DeltaParts' /\ UpdatesWritten'
    BY <1>1 DEF ScriptInv, DeltaParts, UpdatesWritten
  <1> QED
    BY <1>1, <1>2, <1>4, <1>9, <1>10, <1>11, <1>12, <1>13, <1>14 DEF ScriptInv, Passes

(***************************************************************************)
(* The passes that write the delta change neither marks nor XIDs.          *)
(***************************************************************************)
LEMMA WritingKeepsMarks ==
  ASSUME ScriptInv, UNCHANGED <<matched, v0event, v1event, v0xid, v1xid, firstAvailable>>,
         UpdatesMarked, UpdatesMarked', pass' \in Passes \ {"exception", "undefined"},
         DeltaParts', UpdatesWritten'
  PROVE  ScriptInv'
PROOF
  <1>1. /\ OldMarked /\ NewMarked /\ MovesMarked
        /\ OldMarked' /\ NewMarked' /\ MovesMarked'
    BY DEF OldMarked, NewMarked, MovesMarked, UpdatesMarked
  <1>2. /\ MatchedDocuments' /\ v0' = v0 /\ v1' = v1 /\ v0match' = v0match
        /\ v0event' = v0event /\ v1event' = v1event
    BY MatchingStays DEF ScriptInv, matched
  <1>3. OldEvents'
    BY <1>1, <1>2, MatchingStays DEF ScriptInv, OldEvents
  <1>4. NewEvents'
    BY <1>1, <1>2, MatchingStays DEF ScriptInv, NewEvents
  <1>5. WeakMovesAgree'
    BY <1>1, <1>2, MatchingStays DEF ScriptInv, WeakMovesAgree
  <1>6. UpdatesAgree'
    BY <1>1, <1>2, MatchingStays DEF ScriptInv, UpdatesAgree
  <1>7. XidsGiven'
    BY <1>1, XidsStay
  <1> QED
    BY <1>2, <1>3, <1>4, <1>5, <1>6, <1>7 DEF ScriptInv, Passes

(* The attribute operations. *)
LEMMA AddAttributeOperationsInvariant ==
  ASSUME ScriptInv, AddAttributeOperations
  PROVE  ScriptInv'
PROOF
  <1>1. /\ pass = "attributes" /\ pass' = "deletes"
        /\ UNCHANGED <<matched, v0event, v1event, v0xid, v1xid, firstAvailable>>
        /\ DOMAIN delta' = DOMAIN delta
    BY DEF AddAttributeOperations
  <1>2. /\ UpdatesMarked /\ UpdatesMarked' /\ DeltaParts' /\ UpdatesWritten'
        /\ pass' \in Passes \ {"exception", "undefined"}
    BY <1>1 DEF ScriptInv, UpdatesMarked, DeltaParts, UpdatesWritten, Passes
  <1> QED
    BY <1>1, <1>2, WritingKeepsMarks

(***************************************************************************)
(* The root of the first document keeps its place, so no delete operation  *)
(* lacks a parent; and every old text gets its u element.                  *)
(***************************************************************************)
LEMMA ConstructDeleteScriptInvariant ==
  ASSUME ScriptInv, ConstructDeleteScript
  PROVE  ScriptInv'
PROOF
  <1>1. /\ pass = "deletes"
        /\ UNCHANGED <<matched, v0event, v1event, v0xid, v1xid, firstAvailable>>
    BY DEF ConstructDeleteScript
  <1>2. MatchedDocuments /\ OldEvents /\ v0xid = DefaultXids(v0) /\ UpdatesMarked /\ OldMarked
    BY <1>1 DEF ScriptInv, OldMarked, UpdatesMarked, XidsGiven
  <1>3. ~v0Scripted(Root(v0))
    BY <1>2 DEF OldEvents, v0Scripted, Moves
  <1>4. PICK deletes :
          /\ pass' = "inserts"
          /\ delta' = [delta EXCEPT !.deletes = deletes, !.updates =
               {[xid |-> v0xid[i], par |-> v0xid[v0.parent[i]], value |-> v0.label[i]] :
                i \in {k \in Nodes(v0) : v0event[k] = "updateOld"}}]
    BY <1>3 DEF ConstructDeleteScript
  <1>5. DeltaParts'
    BY <1>4 DEF ScriptInv, DeltaParts
  <1>6. delta'.updates =
          {[xid |-> v0xid[i], par |-> v0xid[v0.parent[i]], value |-> v0.label[i]] :
           i \in {k \in Nodes(v0) : v0event[k] = "updateOld"}}
    <2>1. "updates" \in DOMAIN delta
      BY DEF ScriptInv, DeltaParts, NoDelta
    <2> QED
      BY <1>4, <2>1
  <1>7. \A i \in {k \in Nodes(v0) : v0event[k] = "updateOld"} :
          v0xid[i] = i /\ v0xid[v0.parent[i]] = v0.parent[i]
    <2>1. \A i \in {k \in Nodes(v0) : v0event[k] = "updateOld"} : v0.parent[i] \in Nodes(v0)
      BY <1>2, UpdatesAreOneToOne DEF ScriptInv, UpdatesAgree
    <2> QED
      BY <1>2, <2>1 DEF DefaultXids
  <1>8. delta'.updates =
          {[xid |-> i, par |-> v0.parent[i], value |-> v0.label[i]] :
           i \in {k \in Nodes(v0) : v0event[k] = "updateOld"}}
    BY <1>6, <1>7
  <1>9. UpdatesWritten'
    BY <1>1, <1>8 DEF UpdatesWritten, matched
  <1>10. UpdatesMarked' /\ pass' \in Passes \ {"exception", "undefined"}
    BY <1>4 DEF UpdatesMarked, Passes
  <1> QED
    BY <1>1, <1>2, <1>5, <1>9, <1>10, WritingKeepsMarks

-----------------------------------------------------------------------------
(* Every move has both ends. *)
LEMMA MovesHaveBothEnds ==
  ASSUME ScriptInv, UpdatesMarked
  PROVE  Cardinality({i \in Nodes(v0) : v0event[i] \in Moves})
           = Cardinality({j \in Nodes(v1) : v1event[j] \in Moves})
PROOF
  <1> DEFINE S == {i \in Nodes(v0) : v0event[i] \in Moves}
             T == {j \in Nodes(v1) : v1event[j] \in Moves}
  <1>1. OldMarked /\ NewMarked /\ MovesMarked
    BY DEF OldMarked, NewMarked, MovesMarked, UpdatesMarked
  <1>2. MatchedDocuments /\ OldEvents /\ NewEvents /\ WeakMovesAgree
    BY <1>1 DEF ScriptInv
  <1>3. \A i \in Nodes(v0) : v0event[i] \in Moves => v0Assigned(i)
    BY <1>2 DEF OldEvents, Moves
  <1>4. \A j \in Nodes(v1) : v1event[j] \in Moves => v1Assigned(j)
    BY <1>2 DEF NewEvents, Moves
  <1>5. \A i \in Nodes(v0) : v0Assigned(i) =>
          (v0event[i] \in Moves <=> v1event[v0match[i]] \in Moves)
    <2> SUFFICES ASSUME NEW i \in Nodes(v0), v0Assigned(i)
                 PROVE  v0event[i] \in Moves <=> v1event[v0match[i]] \in Moves
      OBVIOUS
    <2>1. v0match[i] \in Nodes(v1) /\ v1Assigned(v0match[i])
      BY <1>2, MatchingFacts
    <2>2. v0event[i] = "strongmove" <=> v1event[v0match[i]] = "strongmove"
      BY <1>2, <2>1, StrongMovesAgree DEF OldEvents, NewEvents
    <2>3. v0event[i] = "weakmove" <=> v1event[v0match[i]] = "weakmove"
      BY <1>1, <1>2 DEF WeakMovesAgree
    <2> QED
      BY <2>2, <2>3 DEF Moves
  <1> DEFINE f == [i \in S |-> v0match[i]]
  <1>6. f \in [S -> T]
    BY <1>2, <1>3, <1>5, MatchingFacts
  <1>7. \A a, b \in S : f[a] = f[b] => a = b
    BY <1>2, <1>3, MatchingFacts
  <1>8. \A t \in T : \E a \in S : f[a] = t
    <2> SUFFICES ASSUME NEW t \in T PROVE \E a \in S : f[a] = t
      OBVIOUS
    <2>1. v1match[t] \in Nodes(v0) /\ v0match[v1match[t]] = t /\ v0Assigned(v1match[t])
      BY <1>2, <1>4, MatchingFacts
    <2>2. v1match[t] \in S
      BY <1>5, <2>1
    <2> QED
      BY <2>1, <2>2
  <1>9. IsFiniteSet(S)
    <2>1. IsFiniteSet(Nodes(v0)) /\ S \subseteq Nodes(v0)
      BY <1>2, DocumentFacts DEF MatchedDocuments, GivenDocuments
    <2> QED
      BY <2>1, FS_Subset
  <1> HIDE DEF f, S, T
  <1>10. Cardinality(S) = Cardinality(T)
    BY <1>6, <1>7, <1>8, <1>9, SameSize
  <1> QED
    BY <1>10 DEF S, T

(* Every new text finds the u element of its old one. *)
LEMMA NewTextsFindTheirUpdate ==
  ASSUME ScriptInv, pass = "inserts", NEW j \in NewTexts
  PROVE  UpdateOf(j) # {}
PROOF
  <1>1. /\ OldMarked /\ NewMarked /\ UpdatesMarked
    BY DEF OldMarked, NewMarked, UpdatesMarked
  <1>2. MatchedDocuments /\ UpdatesAgree /\ XidsGiven /\ UpdatesWritten
    BY DEF ScriptInv
  <1>3. PICK u \in Updates : u[2] = j
    BY <1>1, <1>2 DEF UpdatesAgree, NewTexts
  <1>4. u[1] \in Nodes(v0) /\ v0event[u[1]] = "updateOld"
    BY <1>1, <1>2, UpdatesAreOneToOne DEF UpdatesAgree
  <1> DEFINE p == v0.parent[u[1]]
             e == [xid |-> u[1], par |-> p, value |-> v0.label[u[1]]]
  <1>5. e \in delta.updates
    BY <1>2, <1>4 DEF UpdatesWritten
  <1>6. p \in Nodes(v0) /\ v0Assigned(p) /\ v1.parent[j] = v0match[p]
    BY <1>2, <1>3, UpdatesAreOneToOne
  <1>7. v0match[p] \in Nodes(v1) /\ v1match[v0match[p]] = p /\ v1Assigned(v0match[p])
    BY <1>2, <1>6, MatchingFacts
  <1>8. v1xid[v1.parent[j]] = p
    BY <1>1, <1>2, <1>6, <1>7 DEF XidsGiven
  <1> QED
    BY <1>5, <1>8 DEF UpdateOf

(* There are as many u elements as new texts. *)
LEMMA UpdatesHaveBothEnds ==
  ASSUME ScriptInv, pass = "inserts"
  PROVE  Cardinality(delta.updates) = Cardinality(NewTexts)
PROOF
  <1> DEFINE Old == {k \in Nodes(v0) : v0event[k] = "updateOld"}
             Element(i) == [xid |-> i, par |-> v0.parent[i], value |-> v0.label[i]]
  <1>1. /\ OldMarked /\ NewMarked /\ UpdatesMarked
    BY DEF OldMarked, NewMarked, UpdatesMarked
  <1>2. MatchedDocuments /\ UpdatesAgree /\ UpdatesWritten
    BY DEF ScriptInv
  <1>3. IsFiniteSet(Old)
    <2>1. IsFiniteSet(Nodes(v0)) /\ Old \subseteq Nodes(v0)
      BY <1>2, DocumentFacts DEF MatchedDocuments, GivenDocuments
    <2> QED
      BY <2>1, FS_Subset
  <1>4. Cardinality(Old) = Cardinality(delta.updates)
    <2> DEFINE f == [i \in Old |-> Element(i)]
    <2>1. delta.updates = {Element(i) : i \in Old}
      BY <1>2 DEF UpdatesWritten
    <2>2. f \in [Old -> delta.updates] /\ \A t \in delta.updates : \E a \in Old : f[a] = t
      BY <2>1
    <2>3. \A a, b \in Old : f[a] = f[b] => a = b
      OBVIOUS
    <2> HIDE DEF f, Old
    <2> QED
      BY <1>3, <2>2, <2>3, SameSize
  <1>5. Cardinality(Old) = Cardinality(NewTexts)
    <2>1. /\ \A i \in Old : \E u \in Updates : u[1] = i
          /\ \A j \in NewTexts : \E u \in Updates : u[2] = j
          /\ \A u \in Updates : u[1] \in Old /\ u[2] \in NewTexts
      BY <1>1, <1>2, UpdatesAreOneToOne DEF UpdatesAgree, NewTexts
    <2>2. \A u, w \in Updates : u[1] = w[1] <=> u[2] = w[2]
      BY <1>2, UpdatesAreOneToOne
    <2> DEFINE f == [i \in Old |-> (CHOOSE u \in Updates : u[1] = i)[2]]
    <2>3. \A i \in Old : \E u \in Updates : u[1] = i /\ f[i] = u[2]
      BY <2>1
    <2> HIDE DEF f, Old
    <2>4. f \in [Old -> NewTexts]
      <3>1. f = [i \in Old |-> f[i]]
        BY DEF f
      <3>2. \A i \in Old : f[i] \in NewTexts
        BY <2>1, <2>3
      <3> QED
        BY <3>1, <3>2
    <2>5. \A a, b \in Old : f[a] = f[b] => a = b
      BY <2>2, <2>3
    <2>6. \A j \in NewTexts : \E a \in Old : f[a] = j
      BY <2>1, <2>2, <2>3
    <2> QED
      BY <1>3, <2>4, <2>5, <2>6, SameSize
  <1> QED
    BY <1>4, <1>5

(***************************************************************************)
(* The root keeps its place, every new text has its u element, and the two *)
(* counts constructDeltaDocument compares at the end agree.                *)
(***************************************************************************)
LEMMA ConstructInsertScriptInvariant ==
  ASSUME ScriptInv, ConstructInsertScript
  PROVE  ScriptInv'
PROOF
  <1>1. /\ pass = "inserts"
        /\ UNCHANGED <<matched, v0event, v1event, v0xid, v1xid, firstAvailable>>
    BY DEF ConstructInsertScript
  <1>2. NewEvents /\ UpdatesMarked
    BY <1>1 DEF ScriptInv, NewMarked, UpdatesMarked
  <1>3. ~v1Scripted(Root(v1))
    BY <1>2 DEF NewEvents, v1Scripted, Moves
  <1>4. \A j \in NewTexts : UpdateOf(j) # {}
    BY <1>1, NewTextsFindTheirUpdate
  <1>5. NewTexts # {} => delta.updates # {}
    BY <1>4 DEF UpdateOf
  <1>6. /\ Cardinality({i \in Nodes(v0) : v0event[i] \in Moves})
             = Cardinality({j \in Nodes(v1) : v1event[j] \in Moves})
        /\ Cardinality(delta.updates) = Cardinality(NewTexts)
    BY <1>1, <1>2, MovesHaveBothEnds, UpdatesHaveBothEnds
  <1>7. pass' = "renameRoot" /\ \E i, u : delta' = [delta EXCEPT !.inserts = i, !.updates = u]
    BY <1>3, <1>4, <1>5, <1>6 DEF ConstructInsertScript
  <1>8. DeltaParts'
    BY <1>7 DEF ScriptInv, DeltaParts
  <1>9. UpdatesMarked' /\ UpdatesWritten' /\ pass' \in Passes \ {"exception", "undefined"}
    BY <1>7 DEF UpdatesMarked, UpdatesWritten, Passes
  <1> QED
    BY <1>1, <1>2, <1>8, <1>9, WritingKeepsMarks

(* The renaming of the root. *)
LEMMA AddRenameRootInvariant ==
  ASSUME ScriptInv, AddRenameRoot
  PROVE  ScriptInv'
PROOF
  <1>1. /\ pass = "renameRoot" /\ pass' = "written"
        /\ UNCHANGED <<matched, v0event, v1event, v0xid, v1xid, firstAvailable>>
        /\ DOMAIN delta' = DOMAIN delta
    BY DEF AddRenameRoot
  <1>2. /\ UpdatesMarked /\ UpdatesMarked' /\ DeltaParts' /\ UpdatesWritten'
        /\ pass' \in Passes \ {"exception", "undefined"}
    BY <1>1 DEF ScriptInv, UpdatesMarked, DeltaParts, UpdatesWritten, Passes
  <1> QED
    BY <1>1, <1>2, WritingKeepsMarks

(* Applying the delta, or doing nothing, leaves the constructor alone. *)
LEMMA ApplyingKeepsScript ==
  ASSUME ScriptInv, UNCHANGED scriptVars
  PROVE  ScriptInv'
PROOF
  <1>1. /\ UNCHANGED matched
        /\ UNCHANGED <<v0event, v1event, v0xid, v1xid, firstAvailable, pass, delta>>
    BY DEF scriptVars, matched
  <1>2. /\ v0' = v0 /\ v1' = v1 /\ v0match' = v0match /\ v1match' = v1match
        /\ v0event' = v0event /\ v1event' = v1event /\ v0xid' = v0xid /\ v1xid' = v1xid
        /\ firstAvailable' = firstAvailable /\ pass' = pass /\ delta' = delta
    BY DEF scriptVars
  <1>3. /\ OldMarked' = OldMarked /\ NewMarked' = NewMarked
        /\ MovesMarked' = MovesMarked /\ UpdatesMarked' = UpdatesMarked
    BY <1>2 DEF OldMarked, NewMarked, MovesMarked, UpdatesMarked
  <1>4. MatchedDocuments' /\ (OldMarked' => OldEvents') /\ (NewMarked' => NewEvents')
    BY <1>1, <1>2, <1>3, MatchingStays DEF ScriptInv, OldEvents, NewEvents
  <1>5. WeakMovesAgree' /\ UpdatesAgree'
    BY <1>1, <1>2, <1>3, MatchingStays DEF ScriptInv, WeakMovesAgree, UpdatesAgree
  <1>6. XidsGiven'
    <2>1. CASE NewMarked
      BY <1>1, <1>3, <2>1, XidsStay
    <2>2. CASE ~NewMarked
      BY <1>2, <1>3, <2>2 DEF ScriptInv, XidsGiven
    <2> QED
      BY <2>1, <2>2
  <1>7. DeltaParts' /\ UpdatesWritten'
    BY <1>2 DEF ScriptInv, DeltaParts, UpdatesWritten
  <1> QED
    BY <1>2, <1>3, <1>4, <1>5, <1>6, <1>7 DEF ScriptInv, Passes

-----------------------------------------------------------------------------
(* No step of either tool touches the documents or the matching. *)
LEMMA NothingMatches ==
  ASSUME [Next]_vars
  PROVE  UNCHANGED matched
BY DEF vars, scriptVars, matched, Next, ReadDelta, ScriptNext, MarkOldTree, MarkNewTree,
       ComputeWeakMove, DetectUpdate, AddAttributeOperations, ConstructDeleteScript,
       ConstructInsertScript, AddRenameRoot

(* So the roots stay matched, or stay wrongly matched. *)
LEMMA RootsStay ==
  ASSUME [Next]_vars
  PROVE  RootsMatch' <=> RootsMatch
BY NothingMatches, MatchingStays

(***************************************************************************)
(* When the roots are matched with each other, ScriptInv holds throughout: *)
(* the marks agree with the matching and with each other, and the XIDs are *)
(* those of the matching.                                                  *)
(***************************************************************************)
THEOREM ScriptInvariance == Spec => [](RootsMatch => ScriptInv)
PROOF
  <1>1. Init => (RootsMatch => ScriptInv)
    BY ScriptInitInvariant
  <1>2. (RootsMatch => ScriptInv) /\ [Next]_vars => (RootsMatch => ScriptInv)'
    <2> SUFFICES ASSUME RootsMatch => ScriptInv, [Next]_vars, RootsMatch'
                 PROVE  ScriptInv'
      OBVIOUS
    <2>0. ScriptInv
      BY RootsStay
    <2>1. CASE ScriptNext
      BY <2>0, <2>1, MarkOldTreeInvariant, MarkNewTreeInvariant, ComputeWeakMoveInvariant,
         DetectUpdateInvariant, AddAttributeOperationsInvariant,
         ConstructDeleteScriptInvariant, ConstructInsertScriptInvariant,
         AddRenameRootInvariant DEF ScriptNext
    <2>2. CASE UNCHANGED scriptVars
      BY <2>0, <2>2, ApplyingKeepsScript
    <2> QED
      BY <2>1, <2>2 DEF Next, ReadDelta, vars
  <1> QED
    BY <1>1, <1>2, PTL DEF Spec

(***************************************************************************)
(* When the roots are matched with each other, constructing the delta      *)
(* never throws and never uses the pointer it has not set: no node is      *)
(* registered under an XID that is taken, no operation touches a root,     *)
(* every new text finds its u element, and every move and every update has *)
(* both ends.                                                              *)
(***************************************************************************)
THEOREM DeltaIsConstructed == Spec => []ConstructionSucceeds
PROOF
  <1>1. (RootsMatch => ScriptInv) => ConstructionSucceeds
    BY DEF ScriptInv, ConstructionSucceeds
  <1> QED
    BY <1>1, ScriptInvariance, PTL

(* The XIDs are given as always, whether or not the roots are matched. *)
LEMMA XidsStayGiven ==
  ASSUME GivenDocuments, XidsGiven, [Next]_vars
  PROVE  GivenDocuments' /\ XidsGiven'
PROOF
  <1>1. UNCHANGED matched /\ GivenDocuments'
    BY NothingMatches, MatchingStays
  <1>2. /\ v0' = v0 /\ v1' = v1 /\ v1match' = v1match /\ Inserted' = Inserted
        /\ \A j : FreshXid(j)' = FreshXid(j)
        /\ \A j : v1Assigned(j)' <=> v1Assigned(j)
    BY <1>1, MatchingStays DEF matched
  <1>3. CASE MarkNewTree
    <2>1. /\ pass = "markNewTree" /\ NewMarked' /\ v0xid' = v0xid
          /\ v1xid' = [j \in Nodes(v1) |->
               IF v1Assigned(j) THEN v0xid[v1match[j]] ELSE NewXid(j)]
          /\ firstAvailable' = firstAvailable + Cardinality(Inserted)
      BY <1>3 DEF MarkNewTree, NewMarked
    <2>2. v0xid = DefaultXids(v0) /\ firstAvailable = v0.n + 1
      BY <2>1 DEF XidsGiven, NewMarked
    <2>3. \A j \in Nodes(v1) : v1Assigned(j) => v0xid[v1match[j]] = v1match[j]
      <3>1. Nodes(v0) = 1 .. v0.n /\ v0.n \in Nat
        BY DocumentFacts DEF GivenDocuments
      <3>2. \A j \in Nodes(v1) : v1Assigned(j) => v1match[j] \in Nodes(v0)
        BY <3>1 DEF GivenDocuments, v1Assigned
      <3> QED
        BY <2>2, <3>2 DEF DefaultXids
    <2>4. \A j : NewXid(j) = FreshXid(j)
      BY <2>2 DEF NewXid, FreshXid
    <2>5. v1xid' = [j \in Nodes(v1) |-> IF v1Assigned(j) THEN v1match[j] ELSE FreshXid(j)]
      BY <2>1, <2>3, <2>4
    <2>6. v1xid' = [j \in Nodes(v1') |-> IF v1Assigned(j)' THEN v1match'[j] ELSE FreshXid(j)']
      BY <1>2, <2>5
    <2>7. firstAvailable' = v0'.n + 1 + Cardinality(Inserted') /\ v0xid' = DefaultXids(v0')
      BY <1>2, <2>1, <2>2
    <2> QED
      BY <1>1, <2>1, <2>6, <2>7 DEF XidsGiven
  <1>4. CASE ~MarkNewTree
    <2>1. /\ UNCHANGED <<v0xid, v1xid, firstAvailable>>
          /\ NewMarked' <=> NewMarked
      BY <1>4 DEF Next, ReadDelta, ScriptNext, MarkOldTree, ComputeWeakMove, DetectUpdate,
                  AddAttributeOperations, ConstructDeleteScript, ConstructInsertScript,
                  AddRenameRoot, vars, scriptVars, NewMarked
    <2>2. CASE NewMarked
      <3>1. v1xid' = [j \in Nodes(v1') |-> IF v1Assigned(j)' THEN v1match'[j] ELSE FreshXid(j)']
        BY <1>2, <2>1, <2>2 DEF XidsGiven
      <3>2. firstAvailable' = v0'.n + 1 + Cardinality(Inserted') /\ v0xid' = DefaultXids(v0')
        BY <1>2, <2>1, <2>2 DEF XidsGiven
      <3> QED
        BY <1>1, <2>1, <2>2, <3>1, <3>2 DEF XidsGiven
    <2>3. CASE ~NewMarked
      <3>1. firstAvailable' = v0'.n + 1 /\ v0xid' = DefaultXids(v0')
        BY <1>2, <2>1, <2>3 DEF XidsGiven
      <3> QED
        BY <1>1, <2>1, <2>3, <3>1 DEF XidsGiven
    <2> QED
      BY <2>2, <2>3
  <1> QED
    BY <1>3, <1>4

(***************************************************************************)
(* What the delta inserts gets XIDs no node of the first document had,     *)
(* none of them twice, and all below the first one still available,        *)
(* whatever the matching.                                                  *)
(***************************************************************************)
THEOREM NoXidComesBack == Spec => []InsertedXidsAreNew
PROOF
  <1>1. Init => GivenDocuments /\ XidsGiven
    BY InitIsGiven DEF Init, ScriptInit, XidsGiven, NewMarked
  <1>2. GivenDocuments /\ XidsGiven /\ [Next]_vars => (GivenDocuments /\ XidsGiven)'
    BY XidsStayGiven
  <1>3. GivenDocuments /\ XidsGiven => InsertedXidsAreNew
    <2> SUFFICES ASSUME GivenDocuments, XidsGiven, pass = "written",
                        NEW j \in Nodes(v1), v1match[j] = 0
                 PROVE  /\ \A i \in Nodes(v0) : v0xid[i] # v1xid[j]
                        /\ \A k \in Nodes(v1) \ {j} : v1xid[k] # v1xid[j]
                        /\ v1xid[j] < firstAvailable
      BY DEF InsertedXidsAreNew
    <2>1. /\ v0xid = DefaultXids(v0)
          /\ v1xid = [k \in Nodes(v1) |-> IF v1Assigned(k) THEN v1match[k] ELSE FreshXid(k)]
          /\ firstAvailable = v0.n + 1 + Cardinality(Inserted)
      BY DEF XidsGiven, NewMarked
    <2>2. ~v1Assigned(j) /\ j \in Inserted
      BY DEF v1Assigned, Inserted
    <2>3. v1xid[j] = FreshXid(j)
      BY <2>1, <2>2
    <2>4. FreshXid(j) \in Nat /\ v0.n < FreshXid(j)
          /\ FreshXid(j) < v0.n + 1 + Cardinality(Inserted)
      BY <2>2, GivenXidsGrow
    <2>5. /\ Nodes(v0) = 1 .. v0.n /\ v0.n \in Nat
          /\ Nodes(v1) = 1 .. v1.n /\ v1.n \in Nat
      BY DocumentFacts DEF GivenDocuments
    <2>6. \A i \in Nodes(v0) : v0xid[i] # v1xid[j]
      BY <2>1, <2>3, <2>4, <2>5 DEF DefaultXids
    <2>7. ASSUME NEW k \in Nodes(v1) \ {j}
          PROVE  v1xid[k] # v1xid[j]
      <3>1. CASE v1Assigned(k)
        <4>1. v1xid[k] \in 1 .. v0.n
          BY <2>1, <2>5, <3>1 DEF GivenDocuments, v1Assigned
        <4> QED
          BY <2>3, <2>4, <2>5, <4>1
      <3>2. CASE ~v1Assigned(k)
        <4>1. k \in Inserted /\ v1xid[k] = FreshXid(k)
          BY <2>1, <3>2 DEF Inserted
        <4>2. k < j \/ j < k
          BY <2>5
        <4> QED
          BY <2>2, <2>3, <2>4, <4>1, <4>2, GivenXidsGrow
      <3> QED
        BY <3>1, <3>2
    <2> QED
      BY <2>1, <2>3, <2>4, <2>6, <2>7
  <1> QED
    BY <1>1, <1>2, <1>3, PTL DEF Spec

-----------------------------------------------------------------------------
(* The operators of DeltaApply count with the same Cardinality. *)
LEMMA OneCardinality ==
  ASSUME NEW S
  PROVE  Apply!Cardinality(S) = Cardinality(S)
PROOF
  BY DEF Cardinality, Apply!Cardinality

(* AtPlaces picks the elements at these places, in their order. *)
LEMMA PickedInOrder ==
  ASSUME NEW s, NEW places, IsFiniteSet(places), places \subseteq Int
  PROVE  \E q : /\ Lists(q, places, [p \in places |-> p])
                /\ Apply!AtPlaces(s, places) = [k \in 1 .. Len(q) |-> s[q[k]]]
PROOF
  <1> DEFINE r == [p \in places |-> p]
             n == Cardinality(places)
             q == [k \in 1 .. n |-> CHOOSE p \in places : Place(places, r, p) = k]
  <1>1. Lists(q, places, r)
    <2>1. IsRanking(places, r)
      BY DEF IsRanking
    <2> HIDE DEF r
    <2> QED
      BY <2>1, PlacesList
  <1>2. n \in Nat /\ Len(q) = n
    BY FS_CardinalityType
  <1>3. \A p \in places : Place(places, r, p) = Cardinality({i \in places : i <= p})
    <2>1. \A p \in places : {i \in places : r[i] <= r[p]} = {i \in places : i <= p}
      OBVIOUS
    <2> QED
      BY <2>1 DEF Place
  <1> DEFINE C(k) == CHOOSE p \in places : Apply!Cardinality({i \in places : i <= p}) = k
  <1>4. ASSUME NEW k \in 1 .. n
        PROVE  q[k] = C(k)
    <2>1. C(k) = CHOOSE p \in places : Cardinality({i \in places : i <= p}) = k
      BY OneCardinality
    <2>2. q[k] = CHOOSE p \in places : Place(places, r, p) = k
      OBVIOUS
    <2> HIDE DEF r, q, C
    <2> QED
      BY <1>3, <2>1, <2>2
  <1>5. Apply!AtPlaces(s, places) = [k \in 1 .. n |-> s[q[k]]]
    <2>1. Apply!AtPlaces(s, places) = [k \in 1 .. n |-> s[C(k)]]
      BY OneCardinality DEF Apply!AtPlaces
    <2> HIDE DEF q, C
    <2> QED
      BY <1>4, <2>1
  <1> HIDE DEF q, r
  <1> QED
    BY <1>1, <1>2, <1>5 DEF r

(* Picked from a list, they are the list of the picked elements. *)
LEMMA PickedLists ==
  ASSUME NEW u, NEW A, NEW r, Lists(u, A, r), NEW places, places \subseteq DOMAIN u
  PROVE  Lists(Apply!AtPlaces(u, places), {u[p] : p \in places}, r)
PROOF
  <1> DEFINE w == Apply!AtPlaces(u, places)
             B == {u[p] : p \in places}
  <1>1. /\ Len(u) \in Nat /\ DOMAIN u = 1 .. Len(u) /\ \A k \in 1 .. Len(u) : u[k] \in A
        /\ \A a \in A : r[a] \in Int
        /\ \A k, l \in 1 .. Len(u) : k < l => r[u[k]] < r[u[l]]
    BY ListFacts
  <1>2. IsFiniteSet(places) /\ places \subseteq Int
    <2>1. IsFiniteSet(1 .. Len(u))
      <3>1. 1 \in Int /\ Len(u) \in Int
        BY <1>1
      <3> QED
        BY <3>1, FS_Interval
    <2> QED
      BY <1>1, <2>1, FS_Subset
  <1>3. PICK q : /\ Lists(q, places, [p \in places |-> p])
                 /\ w = [k \in 1 .. Len(q) |-> u[q[k]]]
    BY <1>2, PickedInOrder
  <1> HIDE DEF w
  <1>4. /\ Len(q) \in Nat /\ DOMAIN q = 1 .. Len(q) /\ \A k \in 1 .. Len(q) : q[k] \in places
        /\ \A p \in places : \E k \in 1 .. Len(q) : q[k] = p
        /\ \A k, l \in 1 .. Len(q) : k < l => q[k] < q[l]
    <2> DEFINE id == [p \in places |-> p]
    <2>1. /\ Len(q) \in Nat /\ DOMAIN q = 1 .. Len(q) /\ \A k \in 1 .. Len(q) : q[k] \in places
          /\ \A p \in places : id[p] \in Int /\ \E k \in 1 .. Len(q) : q[k] = p
          /\ \A k, l \in 1 .. Len(q) : k < l => id[q[k]] < id[q[l]]
      <3> HIDE DEF id
      <3>1. Lists(q, places, id)
        BY <1>3 DEF id
      <3> QED
        BY <3>1, ListFacts
    <2>2. \A p \in places : id[p] = p
      OBVIOUS
    <2> HIDE DEF id
    <2> QED
      BY <2>1, <2>2
  <1>5. w \in Seq(B) /\ DOMAIN w = 1 .. Len(q)
    <2>1. \A k \in 1 .. Len(q) : u[q[k]] \in B
      BY <1>4
    <2> HIDE DEF B
    <2> QED
      BY <1>3, <1>4, <2>1
  <1>6. \A b \in B : r[b] \in Int /\ \E k \in DOMAIN w : w[k] = b
    <2> TAKE b \in B
    <2>1. PICK p \in places : b = u[p]
      OBVIOUS
    <2>2. PICK k \in 1 .. Len(q) : q[k] = p
      BY <1>4
    <2> QED
      BY <1>1, <1>3, <1>5, <2>1, <2>2
  <1>7. ASSUME NEW k \in DOMAIN w, NEW l \in DOMAIN w, k < l
        PROVE  r[w[k]] < r[w[l]]
    <2>1. q[k] \in 1 .. Len(u) /\ q[l] \in 1 .. Len(u) /\ q[k] < q[l]
      BY <1>1, <1>4, <1>5, <1>7
    <2>2. r[u[q[k]]] < r[u[q[l]]]
      BY <1>1, <2>1
    <2> QED
      BY <1>3, <1>5, <2>2
  <1> HIDE DEF B
  <1>8. Lists(w, B, r)
    BY <1>5, <1>6, <1>7 DEF Lists
  <1> QED
    BY <1>8 DEF w, B

(* An element takes its place in a list from the list of more elements. *)
LEMMA InsertedInOrder ==
  ASSUME NEW u, NEW A, NEW s, NEW B, NEW r, Lists(u, A, r), Lists(s, B, r),
         A \subseteq B, NEW pos \in DOMAIN s, s[pos] \notin A,
         \A q \in DOMAIN s : q < pos => s[q] \in A
  PROVE  /\ pos <= Len(u) + 1
         /\ Lists(Apply!InsertAt(u, pos, s[pos]), A \cup {s[pos]}, r)
PROOF
  <1> DEFINE z == s[pos]
             w == Apply!InsertAt(u, pos, z)
  <1>1. /\ Len(u) \in Nat /\ DOMAIN u = 1 .. Len(u) /\ \A k \in 1 .. Len(u) : u[k] \in A
        /\ \A k, l \in 1 .. Len(u) : k < l => r[u[k]] < r[u[l]]
        /\ \A a \in A : \E k \in 1 .. Len(u) : u[k] = a
    BY ListFacts
  <1>2. /\ Len(s) \in Nat /\ DOMAIN s = 1 .. Len(s) /\ \A k \in 1 .. Len(s) : s[k] \in B
        /\ \A k, l \in 1 .. Len(s) : k < l => r[s[k]] < r[s[l]]
        /\ \A b \in B : r[b] \in Int /\ \E k \in 1 .. Len(s) : s[k] = b
    BY ListFacts
  <1>3. \A k \in 1 .. Len(u) : u[k] \in A /\ Cardinality({b \in A : r[b] <= r[u[k]]}) = k
    <2> HIDE DEF z, w
    <2> QED
      BY ListedPlaces
  <1>4. /\ \A k \in 1 .. Len(s) : Cardinality({b \in B : r[b] <= r[s[k]]}) = k
        /\ \A k, l \in 1 .. Len(s) : s[k] = s[l] => k = l
    BY ListedPlaces
  <1>5. pos \in 1 .. Len(s) /\ z \in B
    BY <1>2
  <1>6. ASSUME NEW q \in 1 .. (pos - 1)
        PROVE  q \in 1 .. Len(u) /\ u[q] = s[q]
    <2>1. q \in 1 .. Len(s) /\ q < pos /\ s[q] \in A
      BY <1>2, <1>5
    <2>2. ASSUME NEW b \in B, r[b] <= r[s[q]]
          PROVE  b \in A
      <3>1. PICK k \in 1 .. Len(s) : s[k] = b
        BY <1>2
      <3>2. ~(q < k)
        BY <1>2, <2>1, <2>2, <3>1
      <3>3. k < pos
        BY <1>5, <2>1, <3>1, <3>2
      <3> QED
        BY <1>2, <3>1, <3>3
    <2>3. {b \in A : r[b] <= r[s[q]]} = {b \in B : r[b] <= r[s[q]]}
      BY <2>2
    <2>4. PICK k \in 1 .. Len(u) : u[k] = s[q]
      BY <1>1, <2>1
    <2>5. k = q
      BY <1>3, <1>4, <2>1, <2>3, <2>4
    <2> QED
      BY <2>4, <2>5
  <1>7. pos <= Len(u) + 1
    <2>1. CASE pos = 1
      BY <1>1, <2>1
    <2>2. CASE pos # 1
      <3>1. pos - 1 \in 1 .. (pos - 1)
        BY <1>5, <2>2
      <3> QED
        BY <1>1, <1>5, <1>6, <3>1
    <2> QED
      BY <2>1, <2>2
  <1>8. ASSUME NEW k \in pos .. Len(u)
        PROVE  r[z] < r[u[k]]
    <2>1. k \in 1 .. Len(u) /\ u[k] \in A
      BY <1>1, <1>5
    <2>2. PICK q \in 1 .. Len(s) : s[q] = u[k]
      BY <1>2, <2>1
    <2>3. q # pos
      BY <2>1, <2>2
    <2>4. ~(q < pos)
      <3> SUFFICES ASSUME q < pos
                   PROVE  FALSE
        OBVIOUS
      <3>1. q \in 1 .. (pos - 1) /\ q # k
        BY <1>5, <2>2
      <3>2. q \in 1 .. Len(u) /\ u[q] = u[k]
        BY <1>6, <2>2, <3>1
      <3>3. q < k
        BY <1>5, <3>1
      <3>4. r[u[q]] < r[u[k]] /\ r[u[k]] \in Int
        BY <1>1, <1>2, <2>1, <3>2, <3>3
      <3> QED
        BY <3>2, <3>4
    <2>5. pos < q
      BY <1>5, <2>3, <2>4
    <2> QED
      BY <1>2, <1>5, <2>2, <2>5
  <1>9. ASSUME NEW k \in 1 .. (pos - 1)
        PROVE  r[u[k]] < r[z]
    <2>1. k \in 1 .. Len(s) /\ k < pos
      BY <1>5
    <2> QED
      BY <1>2, <1>5, <1>6, <2>1
  <1>10. /\ w \in Seq(A \cup {z}) /\ Len(w) = Len(u) + 1
         /\ \A k \in 1 .. (pos - 1) : w[k] = u[k]
         /\ w[pos] = z
         /\ \A k \in (pos + 1) .. (Len(u) + 1) : w[k] = u[k - 1]
    <2>1. u \in Seq(A \cup {z}) /\ pos \in 1 .. (Len(u) + 1)
      <3>1. u \in Seq(A)
        BY DEF Lists
      <3> QED
        BY <1>1, <1>5, <1>7, <3>1
    <2> DEFINE D == A \cup {z}
               left == SubSeq(u, 1, pos - 1)
               right == SubSeq(u, pos, Len(u))
               head == left \o <<z>>
    <2>2. w = head \o right
      BY DEF Apply!InsertAt
    <2>3. left \in Seq(D) /\ Len(left) = pos - 1 /\ \A k \in 1 .. (pos - 1) : left[k] = u[k]
      BY <1>1, <2>1
    <2>4. /\ right \in Seq(D) /\ Len(right) = Len(u) + 1 - pos
          /\ \A k \in 1 .. (Len(u) + 1 - pos) : right[k] = u[(pos + k) - 1]
      BY <1>1, <2>1
    <2>5. /\ head \in Seq(D) /\ Len(head) = pos /\ head[pos] = z
          /\ \A k \in 1 .. (pos - 1) : head[k] = left[k]
      <3>1. <<z>> \in Seq(D) /\ Len(<<z>>) = 1 /\ <<z>>[1] = z
        OBVIOUS
      <3> HIDE DEF D, left
      <3> QED
        BY <2>1, <2>3, <3>1
    <2>6. ASSUME NEW a \in Seq(D), NEW b \in Seq(D)
          PROVE  /\ a \o b \in Seq(D) /\ Len(a \o b) = Len(a) + Len(b)
                 /\ \A k \in 1 .. Len(a) : (a \o b)[k] = a[k]
                 /\ \A k \in 1 .. Len(b) : (a \o b)[k + Len(a)] = b[k]
      <3> HIDE DEF D
      <3> QED
        OBVIOUS
    <2> HIDE DEF D, left, right, head, w
    <2>7. /\ w \in Seq(D) /\ Len(w) = Len(u) + 1
          /\ \A k \in 1 .. pos : w[k] = head[k]
          /\ \A k \in 1 .. (Len(u) + 1 - pos) : w[k + pos] = right[k]
      <3>1. /\ w \in Seq(D) /\ Len(w) = Len(head) + Len(right)
            /\ \A k \in 1 .. Len(head) : w[k] = head[k]
            /\ \A k \in 1 .. Len(right) : w[k + Len(head)] = right[k]
        BY <2>2, <2>4, <2>5, <2>6
      <3> QED
        BY <1>1, <2>1, <2>4, <2>5, <3>1
    <2>8. w[pos] = z /\ \A k \in 1 .. (pos - 1) : w[k] = u[k]
      BY <1>1, <2>1, <2>3, <2>5, <2>7
    <2>9. ASSUME NEW k \in (pos + 1) .. (Len(u) + 1)
          PROVE  w[k] = u[k - 1]
      <3>1. k - pos \in 1 .. (Len(u) + 1 - pos) /\ (k - pos) + pos = k /\ (pos + (k - pos)) - 1 = k - 1
        BY <1>1, <2>1, <2>9
      <3>2. w[k] = right[k - pos]
        BY <2>7, <3>1
      <3> QED
        BY <2>4, <3>1, <3>2
    <2> QED
      BY <2>7, <2>8, <2>9 DEF D
  <1> HIDE DEF w, z
  <1>11. \A b \in A \cup {z} : r[b] \in Int /\ \E k \in 1 .. Len(w) : w[k] = b
    <2>1. r[z] \in Int /\ pos \in 1 .. Len(w) /\ w[pos] = z
      BY <1>1, <1>2, <1>5, <1>7, <1>10
    <2>2. ASSUME NEW b \in A
          PROVE  r[b] \in Int /\ \E k \in 1 .. Len(w) : w[k] = b
      <3>1. PICK k \in 1 .. Len(u) : u[k] = b
        BY <1>1
      <3>2. CASE k < pos
        BY <1>1, <1>2, <1>5, <1>7, <1>10, <3>1, <3>2
      <3>3. CASE ~(k < pos)
        <4>1. k + 1 \in (pos + 1) .. (Len(u) + 1) /\ (k + 1) - 1 = k
          BY <1>1, <1>5, <3>3
        <4>2. w[k + 1] = b /\ k + 1 \in 1 .. Len(w)
          BY <1>1, <1>10, <3>1, <4>1
        <4> QED
          BY <1>2, <4>2
      <3> QED
        BY <3>2, <3>3
    <2> QED
      BY <2>1, <2>2
  <1>12. ASSUME NEW k \in 1 .. Len(w), NEW l \in 1 .. Len(w), k < l
         PROVE  r[w[k]] < r[w[l]]
    <2>1. pos \in Int /\ k \in Int /\ l \in Int /\ Len(w) = Len(u) + 1
      BY <1>5, <1>10
    <2>2. CASE l < pos
      <3>1. k \in 1 .. (pos - 1) /\ l \in 1 .. (pos - 1)
        BY <1>12, <2>1, <2>2
      <3> QED
        BY <1>1, <1>6, <1>10, <1>12, <3>1
    <2>3. CASE l = pos
      <3>1. k \in 1 .. (pos - 1)
        BY <1>12, <2>1, <2>3
      <3> QED
        BY <1>9, <1>10, <2>3, <3>1
    <2>4. CASE l > pos
      <3>1. l \in (pos + 1) .. (Len(u) + 1) /\ w[l] = u[l - 1] /\ l - 1 \in pos .. Len(u)
        BY <1>10, <2>1, <2>4
      <3>2. CASE k = pos
        BY <1>8, <1>10, <3>1, <3>2
      <3>3. CASE k < pos
        <4>1. k \in 1 .. (pos - 1) /\ l - 1 \in 1 .. Len(u) /\ k < l - 1
          BY <1>5, <2>1, <2>4, <3>1, <3>3
        <4> QED
          BY <1>1, <1>6, <1>10, <3>1, <4>1
      <3>4. CASE k > pos
        <4>1. k \in (pos + 1) .. (Len(u) + 1) /\ w[k] = u[k - 1] /\ k - 1 \in 1 .. Len(u)
                /\ l - 1 \in 1 .. Len(u) /\ k - 1 < l - 1
          BY <1>1, <1>5, <1>10, <1>12, <2>1, <3>1, <3>4
        <4> QED
          BY <1>1, <3>1, <4>1
      <3> QED
        BY <2>1, <3>2, <3>3, <3>4
    <2> QED
      BY <2>1, <2>2, <2>3, <2>4
  <1>13. Lists(w, A \cup {z}, r)
    <2>1. DOMAIN w = 1 .. Len(w)
      BY <1>10
    <2> QED
      BY <1>10, <1>11, <1>12, <2>1 DEF Lists
  <1> QED
    BY <1>7, <1>13 DEF w, z

(* Other numbers, in the same order. *)
LEMMA Renumbered ==
  ASSUME NEW s, NEW A, NEW r, Lists(s, A, r), NEW q, \A a \in A : q[a] \in Int,
         \A a, b \in A : r[a] < r[b] => q[a] < q[b]
  PROVE  Lists(s, A, q)
PROOF
  <1>1. /\ s \in Seq(A) /\ DOMAIN s = 1 .. Len(s) /\ \A k \in 1 .. Len(s) : s[k] \in A
        /\ \A a \in A : \E k \in 1 .. Len(s) : s[k] = a
        /\ \A k, l \in 1 .. Len(s) : k < l => r[s[k]] < r[s[l]]
    BY ListFacts
  <1> QED
    BY <1>1 DEF Lists

-----------------------------------------------------------------------------
(***************************************************************************)
(* A tree in which children have lower numbers than their parents, and     *)
(* stand in the order of their numbers.                                    *)
(***************************************************************************)
Grows(t, num, n) ==
  /\ n \in Nat
  /\ \A x \in DOMAIN t :
       /\ num[x] \in 1 .. n
       /\ Apply!Kids(t, x) \subseteq DOMAIN t
       /\ \A c \in Apply!Kids(t, x) : num[c] < num[x]
       /\ Lists(t[x].kids, Apply!Kids(t, x), num)

(* The children are what the list of children names. *)
LEMMA ListedKids ==
  ASSUME NEW t, NEW x, NEW A, NEW r, Lists(t[x].kids, A, r)
  PROVE  Apply!Kids(t, x) = A
PROOF
  <1>1. Apply!Kids(t, x) = {t[x].kids[k] : k \in DOMAIN t[x].kids}
    BY DEF Apply!Kids, Apply!Range
  <1> DEFINE u == t[x].kids
  <1>2. Lists(u, A, r)
    OBVIOUS
  <1> HIDE DEF u
  <1>3. /\ DOMAIN u = 1 .. Len(u)
        /\ \A k \in 1 .. Len(u) : u[k] \in A
        /\ \A a \in A : r[a] \in Int /\ \E k \in 1 .. Len(u) : u[k] = a
    BY <1>2, ListFacts
  <1>4. A = {u[k] : k \in DOMAIN u}
    BY <1>3
  <1> QED
    BY <1>1, <1>4 DEF u

(* The numbers of a tree are ranks for a recursion or an induction. *)
LEMMA NumbersRank ==
  ASSUME NEW t, NEW num, NEW n, Grows(t, num, n)
  PROVE  /\ [y \in DOMAIN t |-> num[y]] \in [DOMAIN t -> Nat]
         /\ n + 1 \in Nat /\ \A y \in DOMAIN t : num[y] \in Nat /\ num[y] < n + 1
         /\ \A y \in DOMAIN t : \A c \in Apply!Kids(t, y) : c \in DOMAIN t /\ num[c] < num[y]
PROOF
  BY DEF Grows

(* Below is what its recursion says. *)
LEMMA BelowEquation ==
  ASSUME NEW t, NEW num, NEW n, Grows(t, num, n), NEW x \in DOMAIN t
  PROVE  /\ Apply!Below(t, x) = {x} \cup UNION {Apply!Below(t, c) : c \in Apply!Kids(t, x)}
         /\ Apply!Below(t, x) \subseteq DOMAIN t
PROOF
  <1> DEFINE G == DOMAIN t
             V == SUBSET G
             rank == [y \in G |-> num[y]]
             Body(c) == [y \in G |-> {y} \cup UNION {c[z] : z \in Apply!Kids(t, y)}]
             Step == [c \in [G -> V] |-> Body(c)]
             below == CHOOSE c : c = Body(c)
  <1>1. \A y : Apply!Below(t, y) = below[y]
    BY Zenon DEF Apply!Below
  <1>2. Descends(Step, G, V, rank, n + 1)
    <2>1. V # {} /\ rank \in [G -> Nat] /\ n + 1 \in Nat /\ \A y \in G : rank[y] < n + 1
      <3>1. {} \in V
        OBVIOUS
      <3>2. rank \in [G -> Nat] /\ n + 1 \in Nat /\ \A y \in G : rank[y] < n + 1
        BY NumbersRank
      <3> QED
        BY <3>1, <3>2
    <2>2. \A y \in G : \A z \in Apply!Kids(t, y) : z \in G /\ rank[z] < rank[y]
      BY NumbersRank
    <2>3. ASSUME NEW c \in [G -> V]
          PROVE  Body(c) \in [G -> V]
      <3>1. \A z \in G : c[z] \subseteq G
        BY <2>3
      <3>2. \A y \in G : \A z \in Apply!Kids(t, y) : c[z] \subseteq G
        BY <2>2, <3>1
      <3>3. \A y \in G : {y} \cup UNION {c[z] : z \in Apply!Kids(t, y)} \subseteq G
        BY <3>2
      <3> QED
        BY <3>3
    <2>4. Step \in [[G -> V] -> [G -> V]]
      BY <2>3
    <2>5. ASSUME NEW f \in [G -> V], NEW g \in [G -> V], NEW y \in G,
                 \A z \in G : rank[z] < rank[y] => f[z] = g[z]
          PROVE  Step[f][y] = Step[g][y]
      <3>1. \A z \in Apply!Kids(t, y) : f[z] = g[z]
        BY <2>2, <2>5
      <3>2. {f[z] : z \in Apply!Kids(t, y)} = {g[z] : z \in Apply!Kids(t, y)}
        BY <3>1
      <3> QED
        BY <3>2
    <2> HIDE DEF G, V, rank, Step
    <2> QED
      BY <2>1, <2>4, <2>5 DEF Descends
  <1>3. \E c \in [G -> V] : c = Step[c]
    <2> HIDE DEF G, V, rank, Step
    <2> QED
      BY <1>2, RankRecursion
  <1>4. PICK c \in [G -> V] : c = Body(c)
    BY <1>3
  <1>5. below = Body(below)
    <2> HIDE DEF Body
    <2> QED
      BY <1>4
  <1>6. \A y \in G : below[y] = {y} \cup UNION {below[z] : z \in Apply!Kids(t, y)}
    <2> HIDE DEF below
    <2> QED
      BY <1>5
  <1>7. \A y \in G : below[y] \subseteq G
    <2> DEFINE T == {y \in G : below[y] \subseteq G}
    <2>1. ASSUME NEW y \in G, \A z \in G : rank[z] < rank[y] => z \in T
          PROVE  y \in T
      <3>1. \A z \in Apply!Kids(t, y) : z \in G /\ rank[z] < rank[y]
        BY NumbersRank
      <3>2. \A z \in Apply!Kids(t, y) : below[z] \subseteq G
        BY <2>1, <3>1
      <3> HIDE DEF below
      <3> QED
        BY <1>6, <3>2
    <2>2. rank \in [G -> Nat]
      BY NumbersRank
    <2> HIDE DEF rank, G, T
    <2>3. \A y \in G : y \in T
      BY <2>1, <2>2, RankInduction
    <2> QED
      BY <2>3 DEF T
  <1> HIDE DEF below
  <1> QED
    BY <1>1, <1>6, <1>7

(* Whatever hangs below a node has all its own children there. *)
LEMMA BelowIsClosed ==
  ASSUME NEW t, NEW num, NEW n, Grows(t, num, n), NEW x \in DOMAIN t
  PROVE  /\ x \in Apply!Below(t, x)
         /\ \A y \in Apply!Below(t, x) : Apply!Kids(t, y) \subseteq Apply!Below(t, x)
PROOF
  <1> DEFINE G == DOMAIN t
             rank == [y \in G |-> num[y]]
             Closed(z) == \A y \in Apply!Below(t, z) : Apply!Kids(t, y) \subseteq Apply!Below(t, z)
             T == {z \in G : Closed(z)}
  <1>1. rank \in [G -> Nat]
    BY NumbersRank
  <1>2. \A z \in G : Apply!Below(t, z) = {z} \cup UNION {Apply!Below(t, c) : c \in Apply!Kids(t, z)}
    BY BelowEquation
  <1>3. \A z \in G : z \in Apply!Below(t, z)
    BY <1>2
  <1>4. ASSUME NEW z \in G, \A c \in G : rank[c] < rank[z] => c \in T
        PROVE  z \in T
    <2>1. \A c \in Apply!Kids(t, z) : c \in G /\ rank[c] < rank[z]
      BY NumbersRank
    <2>2. \A c \in Apply!Kids(t, z) : Closed(c)
      BY <1>4, <2>1
    <2>3. \A c \in Apply!Kids(t, z) : Apply!Below(t, c) \subseteq Apply!Below(t, z)
      BY <1>2
    <2>4. ASSUME NEW y \in Apply!Below(t, z)
          PROVE  Apply!Kids(t, y) \subseteq Apply!Below(t, z)
      <3>1. CASE y = z
        BY <1>3, <2>1, <2>3, <3>1
      <3>2. CASE y # z
        <4>1. PICK c \in Apply!Kids(t, z) : y \in Apply!Below(t, c)
          BY <1>2, <2>4, <3>2
        <4> QED
          BY <2>2, <2>3, <4>1
      <3> QED
        BY <3>1, <3>2
    <2> QED
      BY <2>4
  <1>5. \A z \in G : z \in T
    <2> HIDE DEF rank, G, T
    <2> QED
      BY <1>1, <1>4, RankInduction
  <1> QED
    BY <1>3, <1>5

(* What hangs below z: the nodes that can be reached from it. *)
LEMMA BelowIs ==
  ASSUME NEW t, NEW num, NEW n, Grows(t, num, n), NEW z \in DOMAIN t,
         NEW P, P \subseteq DOMAIN t, z \in P,
         \A x \in P : Apply!Kids(t, x) \subseteq P,
         \A x \in P \ {z} : \E p \in P : x \in Apply!Kids(t, p)
  PROVE  Apply!Below(t, z) = P
PROOF
  <1> DEFINE G == DOMAIN t
             rank == [y \in G |-> num[y]]
  <1>1. \A y \in G : Apply!Below(t, y) = {y} \cup UNION {Apply!Below(t, c) : c \in Apply!Kids(t, y)}
    BY BelowEquation
  <1>2. \A y \in G : rank[y] = num[y] /\ num[y] \in Nat /\ num[y] < n + 1
          /\ \A c \in Apply!Kids(t, y) : c \in G /\ num[c] < num[y]
    BY NumbersRank
  <1>3. Apply!Below(t, z) \subseteq P
    <2> DEFINE T == {y \in G : y \in P => Apply!Below(t, y) \subseteq P}
    <2>1. ASSUME NEW y \in G, \A x \in G : rank[x] < rank[y] => x \in T
          PROVE  y \in T
      <3> SUFFICES ASSUME y \in P
                   PROVE  Apply!Below(t, y) \subseteq P
        OBVIOUS
      <3>1. \A c \in Apply!Kids(t, y) : c \in P /\ c \in G /\ rank[c] < rank[y]
        BY <1>2
      <3>2. \A c \in Apply!Kids(t, y) : Apply!Below(t, c) \subseteq P
        BY <2>1, <3>1
      <3> QED
        BY <1>1, <3>2
    <2>2. rank \in [G -> Nat]
      BY NumbersRank
    <2> HIDE DEF rank, G, T
    <2>3. \A y \in G : y \in T
      BY <2>1, <2>2, RankInduction
    <2> QED
      BY <2>3 DEF T, G
  <1>4. P \subseteq Apply!Below(t, z)
    <2> DEFINE down == [y \in G |-> n + 1 - num[y]]
               T == {y \in G : y \in P => y \in Apply!Below(t, z)}
    <2>1. ASSUME NEW y \in G, \A x \in G : down[x] < down[y] => x \in T
          PROVE  y \in T
      <3> SUFFICES ASSUME y \in P
                   PROVE  y \in Apply!Below(t, z)
        OBVIOUS
      <3>1. CASE y = z
        BY <1>1, <3>1
      <3>2. CASE y # z
        <4>1. PICK p \in P : y \in Apply!Kids(t, p)
          BY <3>2
        <4>2. num[y] < num[p] /\ num[y] \in Nat /\ num[p] \in Nat /\ p \in G /\ n \in Nat
          BY <1>2, <4>1 DEF Grows
        <4>3. down[p] < down[y]
          BY <4>2
        <4>4. p \in Apply!Below(t, z)
          BY <2>1, <4>2, <4>3
        <4> QED
          BY <4>1, <4>4, BelowIsClosed
      <3> QED
        BY <3>1, <3>2
    <2>2. down \in [G -> Nat]
      <3>1. \A y \in G : n + 1 - num[y] \in Nat
        BY <1>2 DEF Grows
      <3> QED
        BY <3>1
    <2> HIDE DEF down, G, T
    <2>3. \A y \in G : y \in T
      BY <2>1, <2>2, RankInduction
    <2> QED
      BY <2>3 DEF T, G
  <1> QED
    BY <1>3, <1>4

(* Less hangs below a node of a tree that is part of another. *)
LEMMA BelowWithin ==
  ASSUME NEW t, NEW u, NEW num, NEW n, Grows(t, num, n), Grows(u, num, n),
         DOMAIN u \subseteq DOMAIN t,
         \A x \in DOMAIN u : Apply!Kids(u, x) \subseteq Apply!Kids(t, x)
  PROVE  \A x \in DOMAIN u : Apply!Below(u, x) \subseteq Apply!Below(t, x)
PROOF
  <1> DEFINE G == DOMAIN u
             rank == [y \in G |-> num[y]]
             T == {y \in G : Apply!Below(u, y) \subseteq Apply!Below(t, y)}
  <1>1. \A y \in G : Apply!Below(u, y) = {y} \cup UNION {Apply!Below(u, c) : c \in Apply!Kids(u, y)}
    BY BelowEquation
  <1>2. \A y \in G : Apply!Below(t, y) = {y} \cup UNION {Apply!Below(t, c) : c \in Apply!Kids(t, y)}
    BY BelowEquation
  <1>3. \A y \in G : \A c \in Apply!Kids(u, y) : c \in G /\ rank[c] < rank[y]
    BY NumbersRank
  <1>4. ASSUME NEW y \in G, \A x \in G : rank[x] < rank[y] => x \in T
        PROVE  y \in T
    <2>1. \A c \in Apply!Kids(u, y) : Apply!Below(u, c) \subseteq Apply!Below(t, c)
      BY <1>3, <1>4
    <2>2. \A c \in Apply!Kids(u, y) : c \in Apply!Kids(t, y)
      OBVIOUS
    <2> QED
      BY <1>1, <1>2, <2>1, <2>2
  <1>5. rank \in [G -> Nat]
    BY NumbersRank
  <1>6. \A y \in G : y \in T
    <2> HIDE DEF rank, G, T
    <2> QED
      BY <1>4, <1>5, RankInduction
  <1> QED
    BY <1>6

(* The numbers below a node are not higher than its own. *)
LEMMA BelowIsLower ==
  ASSUME NEW t, NEW num, NEW n, Grows(t, num, n)
  PROVE  \A x \in DOMAIN t : \A b \in Apply!Below(t, x) : b \in DOMAIN t /\ num[b] <= num[x]
PROOF
  <1> DEFINE G == DOMAIN t
             rank == [y \in G |-> num[y]]
             T == {y \in G : \A b \in Apply!Below(t, y) : num[b] <= num[y]}
  <1>1. \A y \in G : /\ Apply!Below(t, y)
                          = {y} \cup UNION {Apply!Below(t, c) : c \in Apply!Kids(t, y)}
                     /\ Apply!Below(t, y) \subseteq G
    BY BelowEquation
  <1>2. \A y \in G : num[y] \in Nat /\ \A c \in Apply!Kids(t, y) : c \in G /\ num[c] < num[y]
    BY NumbersRank
  <1>3. ASSUME NEW y \in G, \A x \in G : rank[x] < rank[y] => x \in T
        PROVE  y \in T
    <2>1. \A c \in Apply!Kids(t, y) : c \in T
      BY <1>2, <1>3
    <2>2. ASSUME NEW b \in Apply!Below(t, y), b # y
          PROVE  num[b] <= num[y]
      <3>1. PICK c \in Apply!Kids(t, y) : b \in Apply!Below(t, c)
        BY <1>1, <2>2
      <3>2. num[b] <= num[c] /\ num[c] < num[y] /\ num[b] \in Nat /\ num[c] \in Nat
        BY <1>1, <1>2, <2>1, <3>1
      <3> QED
        BY <1>2, <3>2
    <2> QED
      BY <1>2, <2>2
  <1>4. rank \in [G -> Nat]
    BY NumbersRank
  <1>5. \A y \in G : y \in T
    <2> HIDE DEF rank, G, T
    <2> QED
      BY <1>3, <1>4, RankInduction
  <1> QED
    BY <1>1, <1>5

(***************************************************************************)
(* A document, or what is left or already there of one: a node hangs below *)
(* one other at most, and the numbers are those of a postfix walk, so that *)
(* all below a child come after the children before it.                    *)
(***************************************************************************)
IsForest(t, num, n) ==
  /\ Grows(t, num, n)
  /\ \A x, y \in DOMAIN t : num[x] = num[y] => x = y
  /\ \A x, y \in DOMAIN t : \A c \in Apply!Kids(t, x) : c \in Apply!Kids(t, y) => x = y
  /\ \A x \in DOMAIN t : \A c, d \in Apply!Kids(t, x) :
       num[c] < num[d] => \A b \in Apply!Below(t, d) : num[c] < num[b]

(* Part of a forest is one. *)
LEMMA PartOfForest ==
  ASSUME NEW t, NEW u, NEW num, NEW n, IsForest(t, num, n), DOMAIN u \subseteq DOMAIN t,
         \A x \in DOMAIN u :
           /\ Apply!Kids(u, x) \subseteq Apply!Kids(t, x)
           /\ Apply!Kids(u, x) \subseteq DOMAIN u
           /\ Lists(u[x].kids, Apply!Kids(u, x), num)
  PROVE  IsForest(u, num, n)
PROOF
  <1>1. Grows(t, num, n)
    BY DEF IsForest
  <1>2. Grows(u, num, n)
    BY <1>1 DEF Grows
  <1>3. \A x \in DOMAIN u : Apply!Below(u, x) \subseteq Apply!Below(t, x)
    BY <1>1, <1>2, BelowWithin
  <1>4. \A x, y \in DOMAIN u : num[x] = num[y] => x = y
    BY DEF IsForest
  <1>5. \A x, y \in DOMAIN u : \A c \in Apply!Kids(u, x) : c \in Apply!Kids(u, y) => x = y
    BY DEF IsForest
  <1>6. ASSUME NEW x \in DOMAIN u, NEW c \in Apply!Kids(u, x), NEW d \in Apply!Kids(u, x),
               num[c] < num[d], NEW b \in Apply!Below(u, d)
        PROVE  num[c] < num[b]
    <2>1. x \in DOMAIN t /\ c \in Apply!Kids(t, x) /\ d \in Apply!Kids(t, x)
            /\ b \in Apply!Below(t, d)
      BY <1>3, <1>6
    <2> QED
      BY <1>6, <2>1 DEF IsForest
  <1> QED
    BY <1>2, <1>4, <1>5, <1>6 DEF IsForest

(* Nothing hangs below two children of one node. *)
LEMMA BrothersAreApart ==
  ASSUME NEW t, NEW num, NEW n, IsForest(t, num, n), NEW x \in DOMAIN t,
         NEW c \in Apply!Kids(t, x), NEW d \in Apply!Kids(t, x), num[c] < num[d]
  PROVE  /\ \A a \in Apply!Below(t, c), b \in Apply!Below(t, d) : num[a] < num[b]
         /\ Apply!Below(t, c) \cap Apply!Below(t, d) = {}
PROOF
  <1>1. Grows(t, num, n)
    BY DEF IsForest
  <1>2. c \in DOMAIN t /\ d \in DOMAIN t /\ \A y \in DOMAIN t : num[y] \in Nat
    BY <1>1, NumbersRank
  <1>3. /\ \A a \in Apply!Below(t, c) : a \in DOMAIN t /\ num[a] <= num[c]
        /\ \A b \in Apply!Below(t, d) : b \in DOMAIN t /\ num[c] < num[b]
    BY <1>1, <1>2, BelowIsLower DEF IsForest
  <1>4. \A a \in Apply!Below(t, c), b \in Apply!Below(t, d) : num[a] < num[b]
    BY <1>2, <1>3
  <1> QED
    BY <1>2, <1>3, <1>4

(* The walks of the children are joined one by one, each before those so far. *)
LEMMA LastFirstEquation ==
  ASSUME NEW walk, NEW kids, NEW D, Len(kids) \in Nat,
         \A k \in 1 .. Len(kids) : walk[kids[k]] \in Seq(D)
  PROVE  \E from : /\ from[0] = <<>>
                   /\ \A k \in 1 .. Len(kids) : from[k] = walk[kids[k]] \o from[k - 1]
                   /\ \A k \in 0 .. Len(kids) : from[k] \in Seq(D)
                   /\ Apply!LastFirst(walk, kids) = from[Len(kids)]
PROOF
  <1> DEFINE m == Len(kids)
             G == 0 .. m
             V == Seq(D)
             rank == [k \in G |-> k]
             Body(c) == [k \in G |-> IF k = 0 THEN <<>> ELSE walk[kids[k]] \o c[k - 1]]
             Step == [c \in [G -> V] |-> Body(c)]
             from == CHOOSE c : c = Body(c)
  <1>1. Apply!LastFirst(walk, kids) = from[m]
    BY Zenon DEF Apply!LastFirst
  <1>2. Descends(Step, G, V, rank, m + 1)
    <2>1. V # {} /\ rank \in [G -> Nat] /\ m + 1 \in Nat /\ \A k \in G : rank[k] < m + 1
      <3>1. <<>> \in V
        OBVIOUS
      <3>2. m \in Nat /\ \A k \in G : k \in Nat /\ k < m + 1
        OBVIOUS
      <3> HIDE DEF V, G, m
      <3> QED
        BY <3>1, <3>2
    <2>2. ASSUME NEW c \in [G -> V]
          PROVE  Body(c) \in [G -> V]
      <3>1. ASSUME NEW k \in G
            PROVE  (IF k = 0 THEN <<>> ELSE walk[kids[k]] \o c[k - 1]) \in V
        <4>1. CASE k = 0
          BY <4>1
        <4>2. CASE k # 0
          <5>1. k \in 1 .. m /\ k - 1 \in G
            BY <4>2
          <5>2. walk[kids[k]] \in Seq(D) /\ c[k - 1] \in Seq(D)
            BY <5>1
          <5> QED
            BY <4>2, <5>2
        <4> QED
          BY <4>1, <4>2
      <3> QED
        BY <3>1
    <2>3. Step \in [[G -> V] -> [G -> V]]
      BY <2>2
    <2>4. ASSUME NEW f \in [G -> V], NEW g \in [G -> V], NEW k \in G,
                 \A h \in G : rank[h] < rank[k] => f[h] = g[h]
          PROVE  Step[f][k] = Step[g][k]
      <3>1. k # 0 => f[k - 1] = g[k - 1]
        BY <2>4
      <3> QED
        BY <3>1
    <2> HIDE DEF G, V, rank, Step, m
    <2> QED
      BY <2>1, <2>3, <2>4 DEF Descends
  <1>3. \E c \in [G -> V] : c = Step[c]
    <2> HIDE DEF G, V, rank, Step
    <2> QED
      BY <1>2, RankRecursion
  <1>4. PICK c \in [G -> V] : c = Body(c)
    BY <1>3
  <1>5. from = Body(from)
    <2> HIDE DEF Body
    <2> QED
      BY <1>4
  <1>6. from[0] = <<>> /\ \A k \in 1 .. m : from[k] = walk[kids[k]] \o from[k - 1]
    <2>1. \A k \in G : from[k] = IF k = 0 THEN <<>> ELSE walk[kids[k]] \o from[k - 1]
      <3> HIDE DEF from
      <3> QED
        BY <1>5
    <2>2. 0 \in G /\ \A k \in 1 .. m : k \in G /\ k # 0
      OBVIOUS
    <2> HIDE DEF from, G, m
    <2> QED
      BY <2>1, <2>2
  <1> HIDE DEF from
  <1>7. \A k \in Nat : k \in {h \in Nat : h <= m => from[h] \in V}
    <2> DEFINE S == {h \in Nat : h <= m => from[h] \in V}
    <2>1. 0 \in S
      BY <1>6
    <2>2. ASSUME NEW k \in Nat, k \in S
          PROVE  k + 1 \in S
      <3> SUFFICES ASSUME k + 1 <= m PROVE from[k + 1] \in V
        OBVIOUS
      <3>1. k + 1 \in 1 .. m /\ (k + 1) - 1 = k /\ k <= m
        OBVIOUS
      <3>2. from[k] \in V /\ from[k + 1] = walk[kids[k + 1]] \o from[k]
        BY <1>6, <2>2, <3>1
      <3> QED
        BY <3>1, <3>2
    <2> HIDE DEF S
    <2> QED
      BY <2>1, <2>2, SetInduction DEF S
  <1>8. \A k \in 0 .. m : from[k] \in V
    <2> SUFFICES ASSUME NEW k \in 0 .. m
                 PROVE  from[k] \in V
      OBVIOUS
    <2>1. k \in Nat /\ k <= m
      OBVIOUS
    <2> QED
      BY <1>7, <2>1
  <1> QED
    BY <1>1, <1>6, <1>8

(* It looks at the walks of these children only. *)
LEMMA LastFirstAgrees ==
  ASSUME NEW f, NEW g, NEW kids, Len(kids) \in Nat,
         \A k \in 1 .. Len(kids) : f[kids[k]] = g[kids[k]]
  PROVE  Apply!LastFirst(f, kids) = Apply!LastFirst(g, kids)
PROOF
  <1> DEFINE m == Len(kids)
             Body(w, c) == [k \in 0 .. m |-> IF k = 0 THEN <<>> ELSE w[kids[k]] \o c[k - 1]]
  <1>1. /\ Apply!LastFirst(f, kids) = (CHOOSE c : c = Body(f, c))[m]
        /\ Apply!LastFirst(g, kids) = (CHOOSE c : c = Body(g, c))[m]
    BY Zenon DEF Apply!LastFirst
  <1>2. ASSUME NEW c
        PROVE  Body(f, c) = Body(g, c)
    <2>1. \A k \in 0 .. m : (IF k = 0 THEN <<>> ELSE f[kids[k]] \o c[k - 1])
                            = (IF k = 0 THEN <<>> ELSE g[kids[k]] \o c[k - 1])
      <3>1. \A k \in 0 .. m : k # 0 => k \in 1 .. m
        OBVIOUS
      <3> QED
        BY <3>1
    <2> QED
      BY <2>1
  <1>3. (CHOOSE c : c = Body(f, c)) = (CHOOSE c : c = Body(g, c))
    <2> HIDE DEF Body
    <2> QED
      BY <1>2
  <1> QED
    BY <1>1, <1>3

(* The same for a walk of the first child first, each after those so far. *)
LEMMA FirstLastEquation ==
  ASSUME NEW walk, NEW kids, NEW D, Len(kids) \in Nat,
         \A k \in 1 .. Len(kids) : walk[kids[k]] \in Seq(D)
  PROVE  \E from : /\ from[0] = <<>>
                   /\ \A k \in 1 .. Len(kids) : from[k] = from[k - 1] \o walk[kids[k]]
                   /\ \A k \in 0 .. Len(kids) : from[k] \in Seq(D)
                   /\ FirstLast(walk, kids) = from[Len(kids)]
PROOF
  <1> DEFINE m == Len(kids)
             G == 0 .. m
             V == Seq(D)
             rank == [k \in G |-> k]
             Body(c) == [k \in G |-> IF k = 0 THEN <<>> ELSE c[k - 1] \o walk[kids[k]]]
             Step == [c \in [G -> V] |-> Body(c)]
             from == CHOOSE c : c = Body(c)
  <1>1. FirstLast(walk, kids) = from[m]
    BY Zenon DEF FirstLast
  <1>2. Descends(Step, G, V, rank, m + 1)
    <2>1. V # {} /\ rank \in [G -> Nat] /\ m + 1 \in Nat /\ \A k \in G : rank[k] < m + 1
      <3>1. <<>> \in V
        OBVIOUS
      <3>2. m \in Nat /\ \A k \in G : k \in Nat /\ k < m + 1
        OBVIOUS
      <3> HIDE DEF V, G, m
      <3> QED
        BY <3>1, <3>2
    <2>2. ASSUME NEW c \in [G -> V]
          PROVE  Body(c) \in [G -> V]
      <3>1. ASSUME NEW k \in G
            PROVE  (IF k = 0 THEN <<>> ELSE c[k - 1] \o walk[kids[k]]) \in V
        <4>1. CASE k = 0
          BY <4>1
        <4>2. CASE k # 0
          <5>1. k \in 1 .. m /\ k - 1 \in G
            BY <4>2
          <5>2. walk[kids[k]] \in Seq(D) /\ c[k - 1] \in Seq(D)
            BY <5>1
          <5> QED
            BY <4>2, <5>2
        <4> QED
          BY <4>1, <4>2
      <3> QED
        BY <3>1
    <2>3. Step \in [[G -> V] -> [G -> V]]
      BY <2>2
    <2>4. ASSUME NEW f \in [G -> V], NEW g \in [G -> V], NEW k \in G,
                 \A h \in G : rank[h] < rank[k] => f[h] = g[h]
          PROVE  Step[f][k] = Step[g][k]
      <3>1. k # 0 => f[k - 1] = g[k - 1]
        BY <2>4
      <3> QED
        BY <3>1
    <2> HIDE DEF G, V, rank, Step, m
    <2> QED
      BY <2>1, <2>3, <2>4 DEF Descends
  <1>3. \E c \in [G -> V] : c = Step[c]
    <2> HIDE DEF G, V, rank, Step
    <2> QED
      BY <1>2, RankRecursion
  <1>4. PICK c \in [G -> V] : c = Body(c)
    BY <1>3
  <1>5. from = Body(from)
    <2> HIDE DEF Body
    <2> QED
      BY <1>4
  <1>6. from[0] = <<>> /\ \A k \in 1 .. m : from[k] = from[k - 1] \o walk[kids[k]]
    <2>1. \A k \in G : from[k] = IF k = 0 THEN <<>> ELSE from[k - 1] \o walk[kids[k]]
      <3> HIDE DEF from
      <3> QED
        BY <1>5
    <2>2. 0 \in G /\ \A k \in 1 .. m : k \in G /\ k # 0
      OBVIOUS
    <2> HIDE DEF from, G, m
    <2> QED
      BY <2>1, <2>2
  <1> HIDE DEF from
  <1>7. \A k \in Nat : k \in {h \in Nat : h <= m => from[h] \in V}
    <2> DEFINE S == {h \in Nat : h <= m => from[h] \in V}
    <2>1. 0 \in S
      BY <1>6
    <2>2. ASSUME NEW k \in Nat, k \in S
          PROVE  k + 1 \in S
      <3> SUFFICES ASSUME k + 1 <= m PROVE from[k + 1] \in V
        OBVIOUS
      <3>1. k + 1 \in 1 .. m /\ (k + 1) - 1 = k /\ k <= m
        OBVIOUS
      <3>2. from[k] \in V /\ from[k + 1] = from[k] \o walk[kids[k + 1]]
        BY <1>6, <2>2, <3>1
      <3> QED
        BY <3>1, <3>2
    <2> HIDE DEF S
    <2> QED
      BY <2>1, <2>2, SetInduction DEF S
  <1>8. \A k \in 0 .. m : from[k] \in V
    <2> SUFFICES ASSUME NEW k \in 0 .. m
                 PROVE  from[k] \in V
      OBVIOUS
    <2>1. k \in Nat /\ k <= m
      OBVIOUS
    <2> QED
      BY <1>7, <2>1
  <1> QED
    BY <1>1, <1>6, <1>8

(* It looks at the walks of these children only. *)
LEMMA FirstLastAgrees ==
  ASSUME NEW f, NEW g, NEW kids, Len(kids) \in Nat,
         \A k \in 1 .. Len(kids) : f[kids[k]] = g[kids[k]]
  PROVE  FirstLast(f, kids) = FirstLast(g, kids)
PROOF
  <1> DEFINE m == Len(kids)
             Body(w, c) == [k \in 0 .. m |-> IF k = 0 THEN <<>> ELSE c[k - 1] \o w[kids[k]]]
  <1>1. /\ FirstLast(f, kids) = (CHOOSE c : c = Body(f, c))[m]
        /\ FirstLast(g, kids) = (CHOOSE c : c = Body(g, c))[m]
    BY Zenon DEF FirstLast
  <1>2. ASSUME NEW c
        PROVE  Body(f, c) = Body(g, c)
    <2>1. \A k \in 0 .. m : (IF k = 0 THEN <<>> ELSE c[k - 1] \o f[kids[k]])
                            = (IF k = 0 THEN <<>> ELSE c[k - 1] \o g[kids[k]])
      <3>1. \A k \in 0 .. m : k # 0 => k \in 1 .. m
        OBVIOUS
      <3> QED
        BY <3>1
    <2> QED
      BY <2>1
  <1>3. (CHOOSE c : c = Body(f, c)) = (CHOOSE c : c = Body(g, c))
    <2> HIDE DEF Body
    <2> QED
      BY <1>2
  <1> QED
    BY <1>1, <1>3

(* A sequence of nodes comes of it. *)
LEMMA LastFirstIsSequence ==
  ASSUME NEW walk, NEW kids, NEW D, Len(kids) \in Nat,
         \A k \in 1 .. Len(kids) : walk[kids[k]] \in Seq(D)
  PROVE  Apply!LastFirst(walk, kids) \in Seq(D)
PROOF
  <1>1. PICK from : /\ from[0] = <<>>
                    /\ \A k \in 1 .. Len(kids) : from[k] = walk[kids[k]] \o from[k - 1]
                    /\ \A k \in 0 .. Len(kids) : from[k] \in Seq(D)
                    /\ Apply!LastFirst(walk, kids) = from[Len(kids)]
    BY LastFirstEquation
  <1>2. Len(kids) \in 0 .. Len(kids)
    OBVIOUS
  <1> QED
    BY <1>1, <1>2

(* A sequence of nodes comes of it. *)
LEMMA FirstLastIsSequence ==
  ASSUME NEW walk, NEW kids, NEW D, Len(kids) \in Nat,
         \A k \in 1 .. Len(kids) : walk[kids[k]] \in Seq(D)
  PROVE  FirstLast(walk, kids) \in Seq(D)
PROOF
  <1>1. PICK from : /\ from[0] = <<>>
                    /\ \A k \in 1 .. Len(kids) : from[k] = from[k - 1] \o walk[kids[k]]
                    /\ \A k \in 0 .. Len(kids) : from[k] \in Seq(D)
                    /\ FirstLast(walk, kids) = from[Len(kids)]
    BY FirstLastEquation
  <1>2. Len(kids) \in 0 .. Len(kids)
    OBVIOUS
  <1> QED
    BY <1>1, <1>2

(* The walk of unrollList, as its recursion says. *)
LEMMA UnrollEquation ==
  ASSUME NEW t, NEW num, NEW n, Grows(t, num, n)
  PROVE  \E walk : \A x \in DOMAIN t :
           /\ walk[x] \in Seq(DOMAIN t)
           /\ walk[x] = Apply!LastFirst(walk, t[x].kids) \o <<x>>
           /\ Apply!Unroll(t, x) = walk[x]
PROOF
  <1> DEFINE G == DOMAIN t
             V == Seq(G)
             rank == [y \in G |-> num[y]]
             Body(c) == [y \in G |-> Apply!LastFirst(c, t[y].kids) \o <<y>>]
             Step == [c \in [G -> V] |-> Body(c)]
             walk == CHOOSE c : c = Body(c)
  <1>1. \A x \in DOMAIN t : Apply!Unroll(t, x) = walk[x]
    BY Zenon DEF Apply!Unroll
  <1>2. \A y \in G : /\ Len(t[y].kids) \in Nat
                     /\ \A k \in 1 .. Len(t[y].kids) : t[y].kids[k] \in G /\ num[t[y].kids[k]] < num[y]
    <2> TAKE y \in G
    <2> DEFINE u == t[y].kids
               K == Apply!Kids(t, y)
    <2>1. Lists(u, K, num) /\ \A c \in K : c \in G /\ num[c] < num[y]
      BY DEF Grows
    <2> HIDE DEF u, K
    <2>2. Len(u) \in Nat /\ \A k \in 1 .. Len(u) : u[k] \in K
      BY <2>1, ListFacts
    <2> QED
      BY <2>1, <2>2 DEF u
  <1>3. Descends(Step, G, V, rank, n + 1)
    <2>1. V # {} /\ rank \in [G -> Nat] /\ n + 1 \in Nat /\ \A y \in G : rank[y] < n + 1
      <3>1. <<>> \in V
        OBVIOUS
      <3>2. rank \in [G -> Nat] /\ n + 1 \in Nat /\ \A y \in G : rank[y] < n + 1
        BY NumbersRank
      <3> HIDE DEF V, G, rank
      <3> QED
        BY <3>1, <3>2
    <2>2. ASSUME NEW c \in [G -> V], NEW y \in G
          PROVE  Apply!LastFirst(c, t[y].kids) \o <<y>> \in V
      <3> DEFINE kids == t[y].kids
      <3>1. Len(kids) \in Nat /\ \A k \in 1 .. Len(kids) : c[kids[k]] \in Seq(G)
        BY <1>2
      <3> HIDE DEF kids, G
      <3>2. Apply!LastFirst(c, kids) \in Seq(G)
        BY <3>1, LastFirstIsSequence
      <3>3. <<y>> \in Seq(G)
        OBVIOUS
      <3> QED
        BY <3>2, <3>3 DEF kids
    <2>3. Step \in [[G -> V] -> [G -> V]]
      <3>1. ASSUME NEW c \in [G -> V]
            PROVE  Body(c) \in [G -> V]
        <4> HIDE DEF G, V
        <4> QED
          BY <2>2
      <3> HIDE DEF Body, G, V
      <3> QED
        BY <3>1
    <2>4. ASSUME NEW f \in [G -> V], NEW g \in [G -> V], NEW y \in G,
                 \A z \in G : rank[z] < rank[y] => f[z] = g[z]
          PROVE  Step[f][y] = Step[g][y]
      <3> DEFINE kids == t[y].kids
      <3>1. Len(kids) \in Nat /\ \A k \in 1 .. Len(kids) : f[kids[k]] = g[kids[k]]
        BY <1>2, <2>4
      <3> HIDE DEF kids
      <3>2. Apply!LastFirst(f, kids) = Apply!LastFirst(g, kids)
        BY <3>1, LastFirstAgrees
      <3>3. Step[f][y] = Apply!LastFirst(f, kids) \o <<y>>
            /\ Step[g][y] = Apply!LastFirst(g, kids) \o <<y>>
        <4> HIDE DEF G, V
        <4> QED
          BY DEF kids
      <3> QED
        BY <3>2, <3>3
    <2> HIDE DEF G, V, rank, Step
    <2> QED
      BY <2>1, <2>3, <2>4 DEF Descends
  <1>4. \E c \in [G -> V] : c = Step[c]
    <2> HIDE DEF G, V, rank, Step
    <2> QED
      BY <1>3, RankRecursion
  <1>5. PICK c \in [G -> V] : c = Body(c)
    <2> HIDE DEF Body, G, V
    <2> QED
      BY <1>4
  <1>6. walk = Body(walk)
    <2> HIDE DEF Body
    <2> QED
      BY <1>5
  <1>7. ASSUME NEW y \in G, \A z \in G : num[z] < num[y] => walk[z] \in V
        PROVE  walk[y] \in V
    <2> DEFINE kids == t[y].kids
    <2> HIDE DEF walk
    <2>1. Len(kids) \in Nat /\ \A k \in 1 .. Len(kids) : walk[kids[k]] \in Seq(G)
      BY <1>2, <1>7
    <2>2. walk[y] = Apply!LastFirst(walk, kids) \o <<y>>
      <3> HIDE DEF G
      <3> QED
        BY <1>6
    <2> HIDE DEF kids, G
    <2>3. Apply!LastFirst(walk, kids) \in Seq(G)
      BY <2>1, LastFirstIsSequence
    <2> QED
      BY <2>2, <2>3
  <1>8. \A y \in G : walk[y] \in V
    <2> DEFINE T == {y \in G : walk[y] \in V}
    <2>1. rank \in [G -> Nat]
      BY NumbersRank
    <2>2. \A y \in G : (\A z \in G : rank[z] < rank[y] => z \in T) => y \in T
      <3> HIDE DEF walk, V
      <3> QED
        BY <1>7
    <2> HIDE DEF rank, G, T
    <2>3. \A y \in G : y \in T
      BY <2>1, <2>2, RankInduction
    <2> QED
      BY <2>3 DEF T
  <1>9. \A y \in G : walk[y] = Apply!LastFirst(walk, t[y].kids) \o <<y>>
    <2> HIDE DEF walk
    <2> QED
      BY <1>6
  <1> HIDE DEF walk
  <1> QED
    BY <1>1, <1>8, <1>9

(* The postfix walk, as its recursion says. *)
LEMMA PostfixEquation ==
  ASSUME NEW t, NEW num, NEW n, Grows(t, num, n)
  PROVE  \E walk : \A x \in DOMAIN t :
           /\ walk[x] \in Seq(DOMAIN t)
           /\ walk[x] = FirstLast(walk, t[x].kids) \o <<x>>
           /\ Postfix(t, x) = walk[x]
PROOF
  <1> DEFINE G == DOMAIN t
             V == Seq(G)
             rank == [y \in G |-> num[y]]
             Body(c) == [y \in G |-> FirstLast(c, t[y].kids) \o <<y>>]
             Step == [c \in [G -> V] |-> Body(c)]
             walk == CHOOSE c : c = Body(c)
  <1>1. \A x \in DOMAIN t : Postfix(t, x) = walk[x]
    BY Zenon DEF Postfix
  <1>2. \A y \in G : /\ Len(t[y].kids) \in Nat
                     /\ \A k \in 1 .. Len(t[y].kids) : t[y].kids[k] \in G /\ num[t[y].kids[k]] < num[y]
    <2> TAKE y \in G
    <2> DEFINE u == t[y].kids
               K == Apply!Kids(t, y)
    <2>1. Lists(u, K, num) /\ \A c \in K : c \in G /\ num[c] < num[y]
      BY DEF Grows
    <2> HIDE DEF u, K
    <2>2. Len(u) \in Nat /\ \A k \in 1 .. Len(u) : u[k] \in K
      BY <2>1, ListFacts
    <2> QED
      BY <2>1, <2>2 DEF u
  <1>3. Descends(Step, G, V, rank, n + 1)
    <2>1. V # {} /\ rank \in [G -> Nat] /\ n + 1 \in Nat /\ \A y \in G : rank[y] < n + 1
      <3>1. <<>> \in V
        OBVIOUS
      <3>2. rank \in [G -> Nat] /\ n + 1 \in Nat /\ \A y \in G : rank[y] < n + 1
        BY NumbersRank
      <3> HIDE DEF V, G, rank
      <3> QED
        BY <3>1, <3>2
    <2>2. ASSUME NEW c \in [G -> V], NEW y \in G
          PROVE  FirstLast(c, t[y].kids) \o <<y>> \in V
      <3> DEFINE kids == t[y].kids
      <3>1. Len(kids) \in Nat /\ \A k \in 1 .. Len(kids) : c[kids[k]] \in Seq(G)
        BY <1>2
      <3> HIDE DEF kids, G
      <3>2. FirstLast(c, kids) \in Seq(G)
        BY <3>1, FirstLastIsSequence
      <3>3. <<y>> \in Seq(G)
        OBVIOUS
      <3> QED
        BY <3>2, <3>3 DEF kids
    <2>3. Step \in [[G -> V] -> [G -> V]]
      <3>1. ASSUME NEW c \in [G -> V]
            PROVE  Body(c) \in [G -> V]
        <4> HIDE DEF G, V
        <4> QED
          BY <2>2
      <3> HIDE DEF Body, G, V
      <3> QED
        BY <3>1
    <2>4. ASSUME NEW f \in [G -> V], NEW g \in [G -> V], NEW y \in G,
                 \A z \in G : rank[z] < rank[y] => f[z] = g[z]
          PROVE  Step[f][y] = Step[g][y]
      <3> DEFINE kids == t[y].kids
      <3>1. Len(kids) \in Nat /\ \A k \in 1 .. Len(kids) : f[kids[k]] = g[kids[k]]
        BY <1>2, <2>4
      <3> HIDE DEF kids
      <3>2. FirstLast(f, kids) = FirstLast(g, kids)
        BY <3>1, FirstLastAgrees
      <3>3. Step[f][y] = FirstLast(f, kids) \o <<y>>
            /\ Step[g][y] = FirstLast(g, kids) \o <<y>>
        <4> HIDE DEF G, V
        <4> QED
          BY DEF kids
      <3> QED
        BY <3>2, <3>3
    <2> HIDE DEF G, V, rank, Step
    <2> QED
      BY <2>1, <2>3, <2>4 DEF Descends
  <1>4. \E c \in [G -> V] : c = Step[c]
    <2> HIDE DEF G, V, rank, Step
    <2> QED
      BY <1>3, RankRecursion
  <1>5. PICK c \in [G -> V] : c = Body(c)
    <2> HIDE DEF Body, G, V
    <2> QED
      BY <1>4
  <1>6. walk = Body(walk)
    <2> HIDE DEF Body
    <2> QED
      BY <1>5
  <1>7. ASSUME NEW y \in G, \A z \in G : num[z] < num[y] => walk[z] \in V
        PROVE  walk[y] \in V
    <2> DEFINE kids == t[y].kids
    <2> HIDE DEF walk
    <2>1. Len(kids) \in Nat /\ \A k \in 1 .. Len(kids) : walk[kids[k]] \in Seq(G)
      BY <1>2, <1>7
    <2>2. walk[y] = FirstLast(walk, kids) \o <<y>>
      <3> HIDE DEF G
      <3> QED
        BY <1>6
    <2> HIDE DEF kids, G
    <2>3. FirstLast(walk, kids) \in Seq(G)
      BY <2>1, FirstLastIsSequence
    <2> QED
      BY <2>2, <2>3
  <1>8. \A y \in G : walk[y] \in V
    <2> DEFINE T == {y \in G : walk[y] \in V}
    <2>1. rank \in [G -> Nat]
      BY NumbersRank
    <2>2. \A y \in G : (\A z \in G : rank[z] < rank[y] => z \in T) => y \in T
      <3> HIDE DEF walk, V
      <3> QED
        BY <1>7
    <2> HIDE DEF rank, G, T
    <2>3. \A y \in G : y \in T
      BY <2>1, <2>2, RankInduction
    <2> QED
      BY <2>3 DEF T
  <1>9. \A y \in G : walk[y] = FirstLast(walk, t[y].kids) \o <<y>>
    <2> HIDE DEF walk
    <2> QED
      BY <1>6
  <1> HIDE DEF walk
  <1> QED
    BY <1>1, <1>8, <1>9

(* One sequence after another. *)
LEMMA JoinFacts ==
  ASSUME NEW D, NEW a \in Seq(D), NEW b \in Seq(D), NEW w, w = a \o b
  PROVE  /\ w \in Seq(D) /\ Len(a) \in Nat /\ Len(b) \in Nat /\ Len(w) = Len(a) + Len(b)
         /\ \A k \in 1 .. Len(a) : k \in 1 .. Len(w) /\ w[k] = a[k]
         /\ \A k \in 1 .. Len(b) : Len(a) + k \in 1 .. Len(w) /\ w[Len(a) + k] = b[k]
         /\ \A k \in 1 .. Len(w) : \/ k \in 1 .. Len(a) /\ w[k] = a[k]
                                   \/ k > Len(a) /\ k - Len(a) \in 1 .. Len(b) /\ w[k] = b[k - Len(a)]
PROOF
  <1>1. w \in Seq(D) /\ Len(a) \in Nat /\ Len(b) \in Nat /\ Len(w) = Len(a) + Len(b)
    OBVIOUS
  <1>2. \A k \in 1 .. Len(a) : k \in 1 .. Len(w) /\ w[k] = a[k]
    BY <1>1
  <1>3. \A k \in 1 .. Len(b) : Len(a) + k \in 1 .. Len(w) /\ w[Len(a) + k] = b[k]
    BY <1>1
  <1>4. \A k \in 1 .. Len(w) : \/ k \in 1 .. Len(a) /\ w[k] = a[k]
                               \/ k > Len(a) /\ k - Len(a) \in 1 .. Len(b) /\ w[k] = b[k - Len(a)]
    BY <1>1
  <1> QED
    BY <1>1, <1>2, <1>3, <1>4

(* Lists of lower and of higher numbers make one list. *)
LEMMA JoinedLists ==
  ASSUME NEW a, NEW A, NEW b, NEW B, NEW r, Lists(a, A, r), Lists(b, B, r),
         \A x \in A, y \in B : r[x] < r[y], NEW w, w = a \o b
  PROVE  Lists(w, A \cup B, r)
PROOF
  <1> DEFINE D == A \cup B
  <1>1. /\ a \in Seq(A) /\ Len(a) \in Nat /\ DOMAIN a = 1 .. Len(a)
        /\ \A k \in 1 .. Len(a) : a[k] \in A
        /\ \A x \in A : r[x] \in Int /\ \E k \in 1 .. Len(a) : a[k] = x
        /\ \A k, l \in 1 .. Len(a) : k < l => r[a[k]] < r[a[l]]
    BY ListFacts
  <1>2. /\ b \in Seq(B) /\ Len(b) \in Nat /\ DOMAIN b = 1 .. Len(b)
        /\ \A k \in 1 .. Len(b) : b[k] \in B
        /\ \A x \in B : r[x] \in Int /\ \E k \in 1 .. Len(b) : b[k] = x
        /\ \A k, l \in 1 .. Len(b) : k < l => r[b[k]] < r[b[l]]
    BY ListFacts
  <1>3. a \in Seq(D) /\ b \in Seq(D)
    BY <1>1, <1>2
  <1> HIDE DEF D
  <1>4. /\ w \in Seq(D) /\ Len(w) = Len(a) + Len(b)
        /\ \A k \in 1 .. Len(a) : k \in 1 .. Len(w) /\ w[k] = a[k]
        /\ \A k \in 1 .. Len(b) : Len(a) + k \in 1 .. Len(w) /\ w[Len(a) + k] = b[k]
        /\ \A k \in 1 .. Len(w) : \/ k \in 1 .. Len(a) /\ w[k] = a[k]
                                  \/ k > Len(a) /\ k - Len(a) \in 1 .. Len(b) /\ w[k] = b[k - Len(a)]
    BY <1>3, JoinFacts
  <1>5. DOMAIN w = 1 .. Len(w)
    BY <1>4
  <1>6. ASSUME NEW x \in D
        PROVE  r[x] \in Int /\ \E k \in DOMAIN w : w[k] = x
    <2>1. CASE x \in A
      BY <1>1, <1>4, <1>5, <2>1, SMTT(30)
    <2>2. CASE x \in B
      <3>1. PICK k \in 1 .. Len(b) : b[k] = x
        BY <1>2, <2>2
      <3> QED
        BY <1>2, <1>4, <1>5, <2>2, <3>1
    <2> QED
      BY <2>1, <2>2 DEF D
  <1>7. ASSUME NEW k \in DOMAIN w, NEW l \in DOMAIN w, k < l
        PROVE  r[w[k]] < r[w[l]]
    <2>1. k \in 1 .. Len(w) /\ l \in 1 .. Len(w)
      BY <1>5
    <2>2. CASE l \in 1 .. Len(a)
      <3>1. k \in 1 .. Len(a)
        BY <1>1, <1>7, <2>1, <2>2
      <3> QED
        BY <1>1, <1>4, <1>7, <2>2, <3>1
    <2>3. CASE l > Len(a) /\ l - Len(a) \in 1 .. Len(b) /\ w[l] = b[l - Len(a)]
      <3>1. CASE k \in 1 .. Len(a) /\ w[k] = a[k]
        BY <1>1, <1>2, <2>3, <3>1
      <3>2. CASE k > Len(a) /\ k - Len(a) \in 1 .. Len(b) /\ w[k] = b[k - Len(a)]
        <4>1. k - Len(a) < l - Len(a)
          BY <1>1, <1>7, <2>1
        <4> QED
          BY <1>2, <2>3, <3>2, <4>1
      <3> QED
        BY <1>4, <2>1, <3>1, <3>2
    <2> QED
      BY <1>4, <2>1, <2>2, <2>3
  <1> QED
    BY <1>4, <1>6, <1>7 DEF Lists, D

(* A list of one. *)
LEMMA OneListed ==
  ASSUME NEW x, NEW r, r[x] \in Int
  PROVE  Lists(<<x>>, {x}, r)
PROOF
  <1>1. <<x>> \in Seq({x}) /\ Len(<<x>>) = 1 /\ <<x>>[1] = x
    OBVIOUS
  <1>2. DOMAIN <<x>> = 1 .. 1
    BY <1>1
  <1> HIDE DEF Lists
  <1>3. \A k \in 1 .. 1 : k = 1
    OBVIOUS
  <1> QED
    BY <1>1, <1>2, <1>3 DEF Lists

(* A sequence of the nodes in A, each once, and children before their parents. *)
Walked(w, A, t) ==
  /\ w \in Seq(A)
  /\ \A a \in A : \E k \in 1 .. Len(w) : w[k] = a
  /\ \A k, l \in 1 .. Len(w) : w[k] = w[l] => k = l
  /\ \A k, l \in 1 .. Len(w) : w[l] \in Apply!Kids(t, w[k]) => l < k

(* Two such sequences make one when they have no node in common and no     *)
(* node of the first one has a child in the second.                        *)
LEMMA JoinedWalks ==
  ASSUME NEW a, NEW A, NEW b, NEW B, NEW t, Walked(a, A, t), Walked(b, B, t),
         A \cap B = {}, \A x \in A : Apply!Kids(t, x) \cap B = {}, NEW w, w = a \o b
  PROVE  Walked(w, A \cup B, t)
PROOF
  <1> DEFINE D == A \cup B
  <1>1. /\ a \in Seq(A) /\ Len(a) \in Nat /\ DOMAIN a = 1 .. Len(a)
        /\ \A k \in 1 .. Len(a) : a[k] \in A
        /\ \A x \in A : \E k \in 1 .. Len(a) : a[k] = x
        /\ \A k, l \in 1 .. Len(a) : a[k] = a[l] => k = l
        /\ \A k, l \in 1 .. Len(a) : a[l] \in Apply!Kids(t, a[k]) => l < k
    BY DEF Walked
  <1>2. /\ b \in Seq(B) /\ Len(b) \in Nat /\ DOMAIN b = 1 .. Len(b)
        /\ \A k \in 1 .. Len(b) : b[k] \in B
        /\ \A x \in B : \E k \in 1 .. Len(b) : b[k] = x
        /\ \A k, l \in 1 .. Len(b) : b[k] = b[l] => k = l
        /\ \A k, l \in 1 .. Len(b) : b[l] \in Apply!Kids(t, b[k]) => l < k
    BY DEF Walked
  <1>3. a \in Seq(D) /\ b \in Seq(D)
    BY <1>1, <1>2
  <1> HIDE DEF D
  <1>4. /\ w \in Seq(D) /\ Len(w) = Len(a) + Len(b)
        /\ \A k \in 1 .. Len(a) : k \in 1 .. Len(w) /\ w[k] = a[k]
        /\ \A k \in 1 .. Len(b) : Len(a) + k \in 1 .. Len(w) /\ w[Len(a) + k] = b[k]
        /\ \A k \in 1 .. Len(w) : \/ k \in 1 .. Len(a) /\ w[k] = a[k]
                                  \/ k > Len(a) /\ k - Len(a) \in 1 .. Len(b) /\ w[k] = b[k - Len(a)]
    BY <1>3, JoinFacts
  <1>6. ASSUME NEW x \in D
        PROVE  \E k \in 1 .. Len(w) : w[k] = x
    <2>1. CASE x \in A
      BY <1>1, <1>4, <2>1
    <2>2. CASE x \in B
      <3>1. PICK k \in 1 .. Len(b) : b[k] = x
        BY <1>2, <2>2
      <3> QED
        BY <1>4, <3>1
    <2> QED
      BY <2>1, <2>2 DEF D
  <1>7. ASSUME NEW k \in 1 .. Len(w), NEW l \in 1 .. Len(w), w[k] = w[l]
        PROVE  k = l
    <2>1. CASE k \in 1 .. Len(a) /\ w[k] = a[k]
      <3>1. CASE l \in 1 .. Len(a) /\ w[l] = a[l]
        BY <1>1, <1>7, <2>1, <3>1
      <3>2. CASE l > Len(a) /\ l - Len(a) \in 1 .. Len(b) /\ w[l] = b[l - Len(a)]
        <4>1. a[k] \in A /\ b[l - Len(a)] \in B
          BY <1>1, <1>2, <2>1, <3>2
        <4> QED
          BY <1>7, <2>1, <3>2, <4>1
      <3> QED
        BY <1>4, <3>1, <3>2
    <2>2. CASE k > Len(a) /\ k - Len(a) \in 1 .. Len(b) /\ w[k] = b[k - Len(a)]
      <3>1. CASE l \in 1 .. Len(a) /\ w[l] = a[l]
        <4>1. a[l] \in A /\ b[k - Len(a)] \in B
          BY <1>1, <1>2, <2>2, <3>1
        <4> QED
          BY <1>7, <2>2, <3>1, <4>1
      <3>2. CASE l > Len(a) /\ l - Len(a) \in 1 .. Len(b) /\ w[l] = b[l - Len(a)]
        <4>1. k - Len(a) = l - Len(a)
          BY <1>2, <1>7, <2>2, <3>2
        <4> QED
          BY <1>1, <4>1
      <3> QED
        BY <1>4, <3>1, <3>2
    <2> QED
      BY <1>4, <2>1, <2>2
  <1>8. ASSUME NEW k \in 1 .. Len(w), NEW l \in 1 .. Len(w), w[l] \in Apply!Kids(t, w[k])
        PROVE  l < k
    <2>1. CASE k \in 1 .. Len(a) /\ w[k] = a[k]
      <3>1. CASE l \in 1 .. Len(a) /\ w[l] = a[l]
        BY <1>1, <1>8, <2>1, <3>1
      <3>2. CASE l > Len(a) /\ l - Len(a) \in 1 .. Len(b) /\ w[l] = b[l - Len(a)]
        <4>1. a[k] \in A /\ b[l - Len(a)] \in B
          BY <1>1, <1>2, <2>1, <3>2
        <4> QED
          BY <1>8, <2>1, <3>2, <4>1
      <3> QED
        BY <1>4, <3>1, <3>2
    <2>2. CASE k > Len(a) /\ k - Len(a) \in 1 .. Len(b) /\ w[k] = b[k - Len(a)]
      <3>1. CASE l \in 1 .. Len(a)
        BY <1>1, <2>2, <3>1
      <3>2. CASE l > Len(a) /\ l - Len(a) \in 1 .. Len(b) /\ w[l] = b[l - Len(a)]
        <4>1. l - Len(a) < k - Len(a)
          BY <1>2, <1>8, <2>2, <3>2
        <4> QED
          BY <1>1, <4>1
      <3> QED
        BY <1>4, <3>1, <3>2
    <2> QED
      BY <1>4, <2>1, <2>2
  <1> QED
    BY <1>4, <1>6, <1>7, <1>8 DEF Walked, D

(* The children of a node of a forest, their numbers and what hangs below them. *)
LEMMA KidsInOrder ==
  ASSUME NEW t, NEW num, NEW n, IsForest(t, num, n), NEW y \in DOMAIN t,
         NEW kids, kids = t[y].kids
  PROVE  /\ Len(kids) \in Nat
         /\ \A k \in 1 .. Len(kids) :
              /\ kids[k] \in DOMAIN t /\ kids[k] \in Apply!Kids(t, y)
              /\ num[kids[k]] < num[y] /\ num[kids[k]] \in Nat
         /\ \A i, k \in 1 .. Len(kids) : i < k => num[kids[i]] < num[kids[k]]
         /\ \A c \in Apply!Kids(t, y) : \E k \in 1 .. Len(kids) : kids[k] = c
PROOF
  <1>1. Grows(t, num, n)
    BY DEF IsForest
  <1>2. Lists(kids, Apply!Kids(t, y), num)
    BY <1>1 DEF Grows
  <1>3. /\ Len(kids) \in Nat
        /\ \A k \in 1 .. Len(kids) : kids[k] \in Apply!Kids(t, y)
        /\ \A c \in Apply!Kids(t, y) : num[c] \in Int /\ \E k \in 1 .. Len(kids) : kids[k] = c
        /\ \A i, k \in 1 .. Len(kids) : i < k => num[kids[i]] < num[kids[k]]
    BY <1>2, ListFacts
  <1>4. \A c \in Apply!Kids(t, y) : c \in DOMAIN t /\ num[c] < num[y] /\ num[c] \in Nat
    <2>1. \A x \in DOMAIN t : num[x] \in Nat
      BY <1>1, NumbersRank
    <2> QED
      BY <1>1, <2>1, NumbersRank
  <1> QED
    BY <1>3, <1>4

(* All that hangs below the first k children. *)
BelowFirst(t, kids, k) == UNION {Apply!Below(t, kids[i]) : i \in 1 .. k}

(* One child more. *)
LEMMA BelowFirstGrows ==
  ASSUME NEW t, NEW num, NEW n, IsForest(t, num, n), NEW y \in DOMAIN t,
         NEW kids, kids = t[y].kids
  PROVE  /\ BelowFirst(t, kids, 0) = {}
         /\ \A k \in 0 .. (Len(kids) - 1) :
              /\ BelowFirst(t, kids, k + 1) = BelowFirst(t, kids, k) \cup Apply!Below(t, kids[k + 1])
              /\ BelowFirst(t, kids, k) \cap Apply!Below(t, kids[k + 1]) = {}
              /\ \A a \in BelowFirst(t, kids, k), b \in Apply!Below(t, kids[k + 1]) : num[a] < num[b]
         /\ Apply!Below(t, y) = BelowFirst(t, kids, Len(kids)) \cup {y}
         /\ \A a \in BelowFirst(t, kids, Len(kids)) : a \in DOMAIN t /\ num[a] < num[y]
PROOF
  <1>1. /\ Len(kids) \in Nat
        /\ \A k \in 1 .. Len(kids) :
              /\ kids[k] \in DOMAIN t /\ kids[k] \in Apply!Kids(t, y)
              /\ num[kids[k]] < num[y] /\ num[kids[k]] \in Nat
        /\ \A i, k \in 1 .. Len(kids) : i < k => num[kids[i]] < num[kids[k]]
        /\ \A c \in Apply!Kids(t, y) : \E k \in 1 .. Len(kids) : kids[k] = c
    BY KidsInOrder
  <1>2. Grows(t, num, n)
    BY DEF IsForest
  <1>3. BelowFirst(t, kids, 0) = {}
    BY DEF BelowFirst
  <1>4. ASSUME NEW k \in 0 .. (Len(kids) - 1)
        PROVE  /\ BelowFirst(t, kids, k + 1) = BelowFirst(t, kids, k) \cup Apply!Below(t, kids[k + 1])
               /\ BelowFirst(t, kids, k) \cap Apply!Below(t, kids[k + 1]) = {}
               /\ \A a \in BelowFirst(t, kids, k), b \in Apply!Below(t, kids[k + 1]) : num[a] < num[b]
    <2>1. k \in Nat /\ k + 1 \in 1 .. Len(kids) /\ 1 .. (k + 1) = (1 .. k) \cup {k + 1}
      BY <1>1
    <2>2. BelowFirst(t, kids, k + 1) = BelowFirst(t, kids, k) \cup Apply!Below(t, kids[k + 1])
      BY <2>1 DEF BelowFirst
    <2>3. ASSUME NEW a \in BelowFirst(t, kids, k)
          PROVE  /\ a \notin Apply!Below(t, kids[k + 1])
                 /\ \A b \in Apply!Below(t, kids[k + 1]) : num[a] < num[b]
      <3>1. PICK i \in 1 .. k : a \in Apply!Below(t, kids[i])
        BY DEF BelowFirst
      <3>2. i \in 1 .. Len(kids) /\ i < k + 1
        BY <1>1, <2>1
      <3>3. /\ kids[i] \in Apply!Kids(t, y) /\ kids[k + 1] \in Apply!Kids(t, y)
            /\ num[kids[i]] < num[kids[k + 1]]
        BY <1>1, <2>1, <3>2
      <3>4. /\ \A e \in Apply!Below(t, kids[i]), b \in Apply!Below(t, kids[k + 1]) : num[e] < num[b]
            /\ Apply!Below(t, kids[i]) \cap Apply!Below(t, kids[k + 1]) = {}
        BY <3>3, BrothersAreApart
      <3> QED
        BY <3>1, <3>4
    <2> QED
      BY <2>2, <2>3
  <1>5. Apply!Below(t, y) = BelowFirst(t, kids, Len(kids)) \cup {y}
    <2>1. Apply!Below(t, y) = {y} \cup UNION {Apply!Below(t, c) : c \in Apply!Kids(t, y)}
      BY <1>2, BelowEquation
    <2>2. {Apply!Below(t, c) : c \in Apply!Kids(t, y)} = {Apply!Below(t, kids[i]) : i \in 1 .. Len(kids)}
      BY <1>1
    <2> QED
      BY <2>1, <2>2 DEF BelowFirst
  <1>6. ASSUME NEW a \in BelowFirst(t, kids, Len(kids))
        PROVE  a \in DOMAIN t /\ num[a] < num[y]
    <2>1. PICK i \in 1 .. Len(kids) : a \in Apply!Below(t, kids[i])
      BY DEF BelowFirst
    <2>2. a \in DOMAIN t /\ num[a] <= num[kids[i]]
      BY <1>1, <1>2, <2>1, BelowIsLower
    <2>3. num[a] \in Nat /\ num[y] \in Nat
      BY <1>2, <2>2, NumbersRank
    <2> QED
      BY <1>1, <2>2, <2>3
  <1> QED
    BY <1>3, <1>4, <1>5, <1>6

(* unrollList meets every node below x once, and children before their parents. *)
LEMMA UnrollWalks ==
  ASSUME NEW t, NEW num, NEW n, IsForest(t, num, n)
  PROVE  \A x \in DOMAIN t : Walked(Apply!Unroll(t, x), Apply!Below(t, x), t)
PROOF
  <1> DEFINE G == DOMAIN t
             rank == [y \in G |-> num[y]]
  <1>1. Grows(t, num, n)
    BY DEF IsForest
  <1>2. PICK walk : \A x \in G : /\ walk[x] \in Seq(G)
                                 /\ walk[x] = Apply!LastFirst(walk, t[x].kids) \o <<x>>
                                 /\ Apply!Unroll(t, x) = walk[x]
    BY <1>1, UnrollEquation
  <1> DEFINE T == {y \in G : Walked(walk[y], Apply!Below(t, y), t)}
  <1>3. ASSUME NEW y \in G, \A z \in G : rank[z] < rank[y] => z \in T
        PROVE  y \in T
    <2> DEFINE kids == t[y].kids
    <2>1. /\ Len(kids) \in Nat
          /\ \A k \in 1 .. Len(kids) :
                /\ kids[k] \in G /\ kids[k] \in Apply!Kids(t, y)
                /\ num[kids[k]] < num[y] /\ num[kids[k]] \in Nat
      BY KidsInOrder
    <2>2. \A k \in 1 .. Len(kids) : kids[k] \in T
      BY <1>3, <2>1
    <2>3. \A k \in 1 .. Len(kids) : /\ Walked(walk[kids[k]], Apply!Below(t, kids[k]), t)
                                    /\ walk[kids[k]] \in Seq(G)
      BY <1>2, <2>2
    <2>4. /\ BelowFirst(t, kids, 0) = {}
          /\ \A k \in 0 .. (Len(kids) - 1) :
               /\ BelowFirst(t, kids, k + 1) = BelowFirst(t, kids, k) \cup Apply!Below(t, kids[k + 1])
               /\ BelowFirst(t, kids, k) \cap Apply!Below(t, kids[k + 1]) = {}
               /\ \A a \in BelowFirst(t, kids, k), b \in Apply!Below(t, kids[k + 1]) : num[a] < num[b]
          /\ Apply!Below(t, y) = BelowFirst(t, kids, Len(kids)) \cup {y}
          /\ \A a \in BelowFirst(t, kids, Len(kids)) : a \in G /\ num[a] < num[y]
      BY BelowFirstGrows
    <2>5. walk[y] = Apply!LastFirst(walk, kids) \o <<y>>
      BY <1>2
    <2> HIDE DEF kids, G, T
    <2>6. PICK from : /\ from[0] = <<>>
                      /\ \A k \in 1 .. Len(kids) : from[k] = walk[kids[k]] \o from[k - 1]
                      /\ \A k \in 0 .. Len(kids) : from[k] \in Seq(G)
                      /\ Apply!LastFirst(walk, kids) = from[Len(kids)]
      BY <2>1, <2>3, LastFirstEquation
    <2> DEFINE S == {k \in Nat : k <= Len(kids) => Walked(from[k], BelowFirst(t, kids, k), t)}
    <2>7. 0 \in S
      BY <2>4, <2>6 DEF Walked
    <2>8. ASSUME NEW k \in Nat, k \in S
          PROVE  k + 1 \in S
      <3> SUFFICES ASSUME k + 1 <= Len(kids)
                   PROVE  Walked(from[k + 1], BelowFirst(t, kids, k + 1), t)
        OBVIOUS
      <3>1. /\ k \in 0 .. (Len(kids) - 1) /\ k + 1 \in 1 .. Len(kids) /\ (k + 1) - 1 = k
            /\ k <= Len(kids)
        BY <2>1
      <3> DEFINE a == walk[kids[k + 1]]
                 A == Apply!Below(t, kids[k + 1])
                 B == BelowFirst(t, kids, k)
      <3>2. Walked(a, A, t) /\ Walked(from[k], B, t)
        BY <2>3, <2>8, <3>1
      <3>3. A \cap B = {}
        BY <2>4, <3>1
      <3>4. \A x \in A : Apply!Kids(t, x) \cap B = {}
        <4>1. kids[k + 1] \in G
          BY <2>1, <3>1
        <4>2. \A x \in A : Apply!Kids(t, x) \subseteq A
          BY <1>1, <4>1, BelowIsClosed DEF G
        <4> QED
          BY <3>3, <4>2
      <3>5. from[k + 1] = a \o from[k]
        BY <2>6, <3>1
      <3>6. BelowFirst(t, kids, k + 1) = A \cup B
        BY <2>4, <3>1
      <3> HIDE DEF a, A, B
      <3>7. Walked(from[k + 1], A \cup B, t)
        BY <3>2, <3>3, <3>4, <3>5, JoinedWalks
      <3> QED
        BY <3>6, <3>7
    <2>9. \A k \in Nat : k \in S
      <3> HIDE DEF S
      <3> QED
        BY <2>7, <2>8, SetInduction
    <2> DEFINE a == from[Len(kids)]
               A == BelowFirst(t, kids, Len(kids))
    <2>10. Walked(a, A, t)
      BY <2>1, <2>9
    <2>11. walk[y] = a \o <<y>>
      BY <2>5, <2>6
    <2>12. \A x \in G : /\ num[x] \in Nat
                        /\ \A c \in Apply!Kids(t, x) : num[c] < num[x]
      BY <1>1, NumbersRank DEF G
    <2>13. A \cap {y} = {} /\ \A x \in A : Apply!Kids(t, x) \cap {y} = {}
      <3>1. \A x \in A : x \in G /\ num[x] < num[y] /\ num[x] \in Nat /\ num[y] \in Nat
        BY <1>3, <2>4, <2>12
      <3>2. \A x \in A : x # y /\ ~(num[y] < num[x])
        BY <3>1
      <3> HIDE DEF A
      <3> QED
        BY <2>12, <3>1, <3>2
    <2>14. Walked(<<y>>, {y}, t)
      <3>1. <<y>> \in Seq({y}) /\ Len(<<y>>) = 1 /\ <<y>>[1] = y
        OBVIOUS
      <3>2. y \notin Apply!Kids(t, y)
        BY <1>3, <2>12
      <3>3. \A k \in 1 .. 1 : k = 1
        OBVIOUS
      <3> QED
        BY <3>1, <3>2, <3>3 DEF Walked
    <2> DEFINE b == <<y>>
               B == {y}
    <2> HIDE DEF a, A, b, B
    <2>15. Walked(walk[y], A \cup B, t)
      <3>1. Walked(b, B, t) /\ A \cap B = {} /\ (\A x \in A : Apply!Kids(t, x) \cap B = {})
              /\ walk[y] = a \o b
        BY <2>11, <2>13, <2>14 DEF b, B
      <3> QED
        BY <2>10, <3>1, JoinedWalks
    <2>16. Apply!Below(t, y) = A \cup B
      BY <2>4 DEF A, B
    <2> QED
      BY <1>3, <2>15, <2>16 DEF T
  <1>4. rank \in [G -> Nat]
    BY <1>1, NumbersRank
  <1>5. \A y \in G : y \in T
    <2> HIDE DEF rank, G, T
    <2> QED
      BY <1>3, <1>4, RankInduction
  <1> QED
    BY <1>2, <1>5

(***************************************************************************)
(* The walk of a subtree, first child first, names what hangs there in the *)
(* order of the numbers.                                                   *)
(***************************************************************************)
LEMMA PostfixLists ==
  ASSUME NEW t, NEW num, NEW n, IsForest(t, num, n)
  PROVE  \A x \in DOMAIN t : Lists(Postfix(t, x), Apply!Below(t, x), num)
PROOF
  <1> DEFINE G == DOMAIN t
             rank == [y \in G |-> num[y]]
  <1>1. Grows(t, num, n)
    BY DEF IsForest
  <1>2. PICK walk : \A x \in G : /\ walk[x] \in Seq(G)
                                 /\ walk[x] = FirstLast(walk, t[x].kids) \o <<x>>
                                 /\ Postfix(t, x) = walk[x]
    BY <1>1, PostfixEquation
  <1> DEFINE T == {y \in G : Lists(walk[y], Apply!Below(t, y), num)}
  <1>3. ASSUME NEW y \in G, \A z \in G : rank[z] < rank[y] => z \in T
        PROVE  y \in T
    <2> DEFINE kids == t[y].kids
    <2>1. /\ Len(kids) \in Nat
          /\ \A k \in 1 .. Len(kids) :
                /\ kids[k] \in G /\ kids[k] \in Apply!Kids(t, y)
                /\ num[kids[k]] < num[y] /\ num[kids[k]] \in Nat
      BY KidsInOrder
    <2>2. \A k \in 1 .. Len(kids) : kids[k] \in T
      BY <1>3, <2>1
    <2>3. \A k \in 1 .. Len(kids) : /\ Lists(walk[kids[k]], Apply!Below(t, kids[k]), num)
                                    /\ walk[kids[k]] \in Seq(G)
      BY <1>2, <2>2
    <2>4. /\ BelowFirst(t, kids, 0) = {}
          /\ \A k \in 0 .. (Len(kids) - 1) :
               /\ BelowFirst(t, kids, k + 1) = BelowFirst(t, kids, k) \cup Apply!Below(t, kids[k + 1])
               /\ BelowFirst(t, kids, k) \cap Apply!Below(t, kids[k + 1]) = {}
               /\ \A a \in BelowFirst(t, kids, k), b \in Apply!Below(t, kids[k + 1]) : num[a] < num[b]
          /\ Apply!Below(t, y) = BelowFirst(t, kids, Len(kids)) \cup {y}
          /\ \A a \in BelowFirst(t, kids, Len(kids)) : a \in G /\ num[a] < num[y]
      BY BelowFirstGrows
    <2>5. walk[y] = FirstLast(walk, kids) \o <<y>>
      BY <1>2
    <2> HIDE DEF kids, G, T
    <2>6. PICK from : /\ from[0] = <<>>
                      /\ \A k \in 1 .. Len(kids) : from[k] = from[k - 1] \o walk[kids[k]]
                      /\ \A k \in 0 .. Len(kids) : from[k] \in Seq(G)
                      /\ FirstLast(walk, kids) = from[Len(kids)]
      BY <2>1, <2>3, FirstLastEquation
    <2> DEFINE S == {k \in Nat : k <= Len(kids) => Lists(from[k], BelowFirst(t, kids, k), num)}
    <2>7. 0 \in S
      BY <2>4, <2>6 DEF Lists
    <2>8. ASSUME NEW k \in Nat, k \in S
          PROVE  k + 1 \in S
      <3> SUFFICES ASSUME k + 1 <= Len(kids)
                   PROVE  Lists(from[k + 1], BelowFirst(t, kids, k + 1), num)
        OBVIOUS
      <3>1. /\ k \in 0 .. (Len(kids) - 1) /\ k + 1 \in 1 .. Len(kids) /\ (k + 1) - 1 = k
            /\ k <= Len(kids)
        BY <2>1
      <3> DEFINE b == walk[kids[k + 1]]
                 B == Apply!Below(t, kids[k + 1])
                 A == BelowFirst(t, kids, k)
      <3>2. Lists(b, B, num) /\ Lists(from[k], A, num)
        BY <2>3, <2>8, <3>1
      <3>3. \A x \in A, z \in B : num[x] < num[z]
        BY <2>4, <3>1
      <3>4. from[k + 1] = from[k] \o b
        BY <2>6, <3>1
      <3>5. BelowFirst(t, kids, k + 1) = A \cup B
        BY <2>4, <3>1
      <3> HIDE DEF b, A, B
      <3>6. Lists(from[k + 1], A \cup B, num)
        BY <3>2, <3>3, <3>4, JoinedLists
      <3> QED
        BY <3>5, <3>6
    <2>9. \A k \in Nat : k \in S
      <3> HIDE DEF S
      <3> QED
        BY <2>7, <2>8, SetInduction
    <2> DEFINE a == from[Len(kids)]
               A == BelowFirst(t, kids, Len(kids))
               b == <<y>>
               B == {y}
    <2>10. Lists(a, A, num)
      BY <2>1, <2>9
    <2>11. walk[y] = a \o b
      BY <2>5, <2>6
    <2>12. num[y] \in Int
      BY <1>1, <1>3, NumbersRank DEF G
    <2>13. Lists(b, B, num)
      BY <2>12, OneListed
    <2>14. \A x \in A, z \in B : num[x] < num[z]
      BY <2>4
    <2>15. Apply!Below(t, y) = A \cup B
      BY <2>4
    <2> HIDE DEF a, A, b, B
    <2>16. Lists(walk[y], A \cup B, num)
      BY <2>10, <2>11, <2>13, <2>14, JoinedLists
    <2> QED
      BY <1>3, <2>15, <2>16 DEF T
  <1>4. rank \in [G -> Nat]
    BY <1>1, NumbersRank
  <1>5. \A y \in G : y \in T
    <2> HIDE DEF rank, G, T
    <2> QED
      BY <1>3, <1>4, RankInduction
  <1> QED
    BY <1>2, <1>5

-----------------------------------------------------------------------------
(* Subtrees are nested or apart. *)
LEMMA SubtreeFacts ==
  ASSUME NEW d, IsDocument(d)
  PROVE  /\ \A a \in Nodes(d) : a \in Subtree(d, a) /\ Subtree(d, a) \subseteq Nodes(d)
         /\ \A a \in Nodes(d) : \A i \in Subtree(d, a) :
              /\ i <= a /\ \A c \in Children(d, i) : c \in Subtree(d, a)
              /\ i # a => d.parent[i] \in Subtree(d, a)
         /\ \A a, b \in Nodes(d) : \A i \in Subtree(d, b) : b \in Subtree(d, a) => i \in Subtree(d, a)
         /\ \A a, b \in Nodes(d) : \A i \in Subtree(d, a) :
              i \in Subtree(d, b) /\ a <= b => a \in Subtree(d, b)
         /\ \A i \in Nodes(d) : i \in Subtree(d, Root(d))
         /\ \A i \in Nodes(d) : \A b, c \in Children(d, i) :
              b < c => \A k \in Subtree(d, c) : b < k
PROOF
  <1>1. /\ d.n \in Nat /\ Root(d) = d.n /\ Nodes(d) = 1 .. d.n /\ Root(d) \in Nodes(d)
        /\ \A i \in Nodes(d) \ {Root(d)} : d.parent[i] \in Nodes(d) /\ d.parent[i] > i
        /\ \A i \in Nodes(d) : \A c : c \in Children(d, i) <=> c \in Nodes(d) /\ d.parent[c] = i
    BY DocumentFacts
  <1>2. /\ \A i \in Nodes(d) : d.parent[i] \in 0 .. d.n
        /\ \A i \in 1 .. (d.n - 1) : \A k \in i .. (d.parent[i] - 1) : d.parent[k] <= d.parent[i]
    BY <1>1 DEF IsDocument, IsTree
  <1>3. \A a \in Nodes(d) : a \in Subtree(d, a) /\ Subtree(d, a) \subseteq Nodes(d)
    BY <1>1 DEF Subtree
  <1>4. ASSUME NEW a \in Nodes(d), NEW i \in Subtree(d, a)
        PROVE  /\ i <= a /\ \A c \in Children(d, i) : c \in Subtree(d, a)
               /\ i # a => d.parent[i] \in Subtree(d, a)
    <2>1. i \in 1 .. a /\ a \in 1 .. d.n /\ \A k \in i .. (a - 1) : d.parent[k] <= a
      BY <1>1 DEF Subtree
    <2>2. ASSUME NEW c \in Children(d, i)
          PROVE  c \in Subtree(d, a)
      <3>1. c \in 1 .. d.n /\ d.parent[c] = i /\ c < i
        <4>1. c \in Nodes(d) /\ d.parent[c] = i
          BY <1>1, <1>3
        <4>2. c # Root(d)
          BY <1>1, <2>1, <4>1 DEF IsDocument, IsTree
        <4> QED
          BY <1>1, <4>1, <4>2
      <3>2. \A k \in c .. (i - 1) : d.parent[k] <= i
        BY <1>1, <1>2, <2>1, <3>1, SMTT(30)
      <3>3. ASSUME NEW k \in c .. (a - 1)
            PROVE  d.parent[k] <= a
        <4>1. CASE k < i
          <5>1. k \in c .. (i - 1) /\ k \in Nodes(d)
            BY <1>1, <2>1, <3>1, <4>1
          <5>2. d.parent[k] <= i /\ d.parent[k] \in 0 .. d.n
            BY <1>2, <3>2, <5>1
          <5> QED
            BY <2>1, <5>2
        <4>2. CASE ~(k < i)
          BY <2>1, <4>2
        <4> QED
          BY <4>1, <4>2
      <3> QED
        BY <2>1, <3>1, <3>3 DEF Subtree
    <2>3. ASSUME i # a
          PROVE  d.parent[i] \in Subtree(d, a)
      <3>1. i \in Nodes(d) /\ i # Root(d) /\ i \in i .. (a - 1)
        BY <1>1, <2>1, <2>3
      <3>2. d.parent[i] \in 1 .. a /\ i < d.parent[i]
        BY <1>1, <2>1, <3>1
      <3> QED
        BY <2>1, <3>2 DEF Subtree
    <2> QED
      BY <2>1, <2>2, <2>3
  <1>5. ASSUME NEW a \in Nodes(d), NEW b \in Nodes(d), NEW i \in Subtree(d, b), b \in Subtree(d, a)
        PROVE  i \in Subtree(d, a)
    <2>1. /\ i \in 1 .. b /\ b \in 1 .. a /\ a \in 1 .. d.n /\ b \in 1 .. d.n
          /\ \A k \in i .. (b - 1) : d.parent[k] <= b
          /\ \A k \in b .. (a - 1) : d.parent[k] <= a
      BY <1>1, <1>5 DEF Subtree
    <2>2. ASSUME NEW k \in i .. (a - 1)
          PROVE  d.parent[k] <= a
      <3>1. d.parent[k] \in 0 .. d.n
        BY <1>1, <1>2, <2>1
      <3>2. CASE k < b
        <4>1. d.parent[k] <= b
          BY <2>1, <3>2
        <4> QED
          BY <2>1, <3>1, <4>1
      <3>3. CASE ~(k < b)
        <4>1. k \in b .. (a - 1)
          BY <2>1, <3>3
        <4> QED
          BY <2>1, <4>1
      <3> QED
        BY <3>2, <3>3
    <2> QED
      BY <2>1, <2>2 DEF Subtree
  <1>6. ASSUME NEW a \in Nodes(d), NEW b \in Nodes(d), NEW i \in Subtree(d, a),
               i \in Subtree(d, b), a <= b
        PROVE  a \in Subtree(d, b)
    <2>1. i \in 1 .. a /\ a \in 1 .. d.n /\ b \in 1 .. d.n /\ \A k \in i .. (b - 1) : d.parent[k] <= b
      BY <1>1, <1>6 DEF Subtree
    <2> QED
      BY <1>6, <2>1 DEF Subtree
  <1>7. \A i \in Nodes(d) : i \in Subtree(d, Root(d))
    BY <1>1, <1>2 DEF Subtree
  <1>8. ASSUME NEW i \in Nodes(d), NEW b \in Children(d, i), NEW c \in Children(d, i), b < c,
               NEW k \in Subtree(d, c)
        PROVE  b < k
    <2>1. b \in Nodes(d) /\ c \in Nodes(d) /\ d.parent[b] = i /\ d.parent[c] = i
      BY <1>1
    <2>2. c # Root(d) /\ c < i
      BY <1>1, <2>1 DEF IsDocument, IsTree
    <2>3. k \in 1 .. c /\ \A m \in k .. (c - 1) : d.parent[m] <= c
      BY DEF Subtree
    <2>4. ~(i <= c)
      BY <1>1, <2>1, <2>2
    <2> QED
      BY <1>1, <1>8, <2>1, <2>3, <2>4
  <1> QED
    BY <1>3, <1>4, <1>5, <1>6, <1>7, <1>8

(* The least of some nodes, or the root, above i, i included. *)
HomeOf(d, cut, i) ==
  CHOOSE a \in cut \cup {Root(d)} :
    /\ i \in Subtree(d, a)
    /\ \A b \in cut \cup {Root(d)} : i \in Subtree(d, b) => a <= b

(* Where a node travels with. *)
LEMMA HomeFacts ==
  ASSUME NEW d, IsDocument(d), NEW cut, cut \subseteq Nodes(d)
  PROVE  /\ \A i \in Nodes(d) : /\ HomeOf(d, cut, i) \in cut \cup {Root(d)}
                                /\ HomeOf(d, cut, i) \in Nodes(d)
                                /\ i \in Subtree(d, HomeOf(d, cut, i))
         /\ \A i \in Nodes(d) : \A a \in cut \cup {Root(d)} : i \in Subtree(d, a) =>
              HomeOf(d, cut, i) <= a /\ HomeOf(d, cut, i) \in Subtree(d, a)
         /\ \A i \in cut \cup {Root(d)} : HomeOf(d, cut, i) = i
         /\ \A i \in Nodes(d) \ (cut \cup {Root(d)}) :
              HomeOf(d, cut, i) = HomeOf(d, cut, d.parent[i])
PROOF
  <1> DEFINE C == cut \cup {Root(d)}
             Home(i) == HomeOf(d, cut, i)
  <1>1. /\ d.n \in Nat /\ Root(d) = d.n /\ Nodes(d) = 1 .. d.n /\ Root(d) \in Nodes(d)
        /\ \A i \in Nodes(d) \ {Root(d)} : d.parent[i] \in Nodes(d) /\ d.parent[i] > i
        /\ \A i \in Nodes(d) : \A c : c \in Children(d, i) <=> c \in Nodes(d) /\ d.parent[c] = i
    BY DocumentFacts
  <1>2. C \subseteq Nodes(d) /\ C \subseteq Nat
    BY <1>1
  <1>3. \A i : Home(i) = CHOOSE a \in C : i \in Subtree(d, a)
                                          /\ \A b \in C : i \in Subtree(d, b) => a <= b
    BY DEF HomeOf
  <1> HIDE DEF Home
  <1>4. ASSUME NEW i \in Nodes(d)
        PROVE  /\ Home(i) \in C /\ i \in Subtree(d, Home(i))
               /\ \A b \in C : i \in Subtree(d, b) => Home(i) <= b
    <2> DEFINE T == {a \in C : i \in Subtree(d, a)}
    <2>1. Root(d) \in T /\ T \in SUBSET Nat
      BY <1>2, SubtreeFacts
    <2>2. \E a \in T : \A m \in T : a <= m
      <3> HIDE DEF T
      <3> QED
        BY <2>1, LeastNumber
    <2>3. \E a \in C : i \in Subtree(d, a) /\ \A b \in C : i \in Subtree(d, b) => a <= b
      BY <2>2
    <2> HIDE DEF C
    <2> QED
      BY <1>3, <2>3
  <1>5. \A i \in Nodes(d) : Home(i) \in Nodes(d)
    BY <1>2, <1>4
  <1>6. \A i \in Nodes(d) : \A a \in C : i \in Subtree(d, a) => Home(i) \in Subtree(d, a)
    BY <1>2, <1>4, <1>5, SubtreeFacts
  <1>7. ASSUME NEW i \in C
        PROVE  Home(i) = i
    <2>1. i \in Nodes(d) /\ i \in Subtree(d, i)
      BY <1>2, SubtreeFacts
    <2>2. Home(i) <= i
      BY <1>4, <2>1
    <2>3. i <= Home(i)
      BY <1>4, <1>5, <2>1, SubtreeFacts
    <2> QED
      BY <1>1, <1>5, <2>1, <2>2, <2>3
  <1>8. ASSUME NEW i \in Nodes(d) \ C
        PROVE  Home(i) = Home(d.parent[i])
    <2>1. i # Root(d) /\ d.parent[i] \in Nodes(d) /\ i \in Children(d, d.parent[i])
      BY <1>1
    <2>2. ASSUME NEW a \in C
          PROVE  i \in Subtree(d, a) <=> d.parent[i] \in Subtree(d, a)
      <3>1. a \in Nodes(d) /\ i # a
        BY <1>2
      <3> QED
        BY <2>1, <3>1, SubtreeFacts
    <2> HIDE DEF C
    <2> QED
      BY <1>3, <2>2
  <1> QED
    BY <1>4, <1>5, <1>6, <1>7, <1>8 DEF Home

-----------------------------------------------------------------------------
(***************************************************************************)
(* What the engine is about, told without documents and matchings: e.old   *)
(* is to become e.new.  e.cut are the nodes an operation is about, e.home  *)
(* names for each node the one of e.cut, or the root, that it travels      *)
(* with; oldNum and newNum are the nodes' numbers in the two trees and     *)
(* was[x] is what node x is like when the engine is through with its       *)
(* inserts.                                                                *)
(***************************************************************************)
Both(e) == DOMAIN e.old \cap DOMAIN e.new

Either(e) == DOMAIN e.old \cup DOMAIN e.new

(* Every node but the root hangs somewhere. *)
IsRooted(t, root) ==
  /\ root \in DOMAIN t
  /\ \A x \in DOMAIN t : x = root <=> \A p \in DOMAIN t : x \notin Apply!Kids(t, p)

(* The nodes of t that z takes with it. *)
Travellers(e, t, z) == {y \in DOMAIN t : e.home[y] = z}

(* One of the two trees: a node that is not cut from its parent travels with it. *)
IsSide(e, t, num) ==
  /\ IsForest(t, num, e.n)
  /\ IsRooted(t, e.top)
  /\ e.top \notin e.cut
  /\ \A x \in e.cut \cup {e.top} : e.home[x] = x
  /\ \A x \in DOMAIN t :
       /\ e.home[x] \in e.cut \cup {e.top}
       /\ e.home[x] \in DOMAIN t /\ num[x] <= num[e.home[x]]
       /\ \A c \in Apply!Kids(t, x) \ e.cut : e.home[c] = e.home[x]

(* A node that stays keeps the children that stay below it in their order. *)
KeptAlike(e) ==
  \A x \in Both(e) :
    /\ Apply!Kids(e.old, x) \ e.cut = Apply!Kids(e.new, x) \ e.cut
    /\ \A c, d \in Apply!Kids(e.old, x) \ e.cut :
         e.oldNum[c] < e.oldNum[d] => e.newNum[c] < e.newNum[d]

IsEdit(e) ==
  /\ IsSide(e, e.old, e.oldNum) /\ IsSide(e, e.new, e.newNum)
  /\ e.cut \subseteq Either(e)
  /\ \A x \in DOMAIN e.old : x \in DOMAIN e.new <=> e.home[x] \in DOMAIN e.new
  /\ \A x \in DOMAIN e.new : x \in DOMAIN e.old <=> e.home[x] \in DOMAIN e.old
  /\ KeptAlike(e)

(* A node without its children, and with them. *)
Node(a, kids) == [kind |-> a.kind, label |-> a.label, attr |-> a.attr, kids |-> kids]

-----------------------------------------------------------------------------
(* Numbers in their order. *)
LEMMA InOrderLists ==
  ASSUME NEW S, IsFiniteSet(S), S \subseteq Int, NEW r, \A a \in S : r[a] = a
  PROVE  Lists(InOrder(S), S, r)
PROOF
  <1> DEFINE id == [a \in S |-> a]
             u == InOrder(S)
             C(k) == CHOOSE a \in S : Cardinality({b \in S : b <= a}) = k
  <1>1. IsRanking(S, id)
    BY DEF IsRanking
  <1>2. \A a \in S : id[a] = a
    OBVIOUS
  <1>3. u = [k \in 1 .. Cardinality(S) |-> C(k)]
    BY DEF InOrder, Ranked
  <1> HIDE DEF id, u
  <1>4. \A a \in S : Place(S, id, a) = Cardinality({b \in S : b <= a})
    <2> SUFFICES ASSUME NEW a \in S
                 PROVE  Place(S, id, a) = Cardinality({b \in S : b <= a})
      OBVIOUS
    <2>1. {b \in S : id[b] <= id[a]} = {b \in S : b <= a}
      BY <1>2
    <2> QED
      BY <2>1 DEF Place
  <1>5. u = [k \in 1 .. Cardinality(S) |-> CHOOSE a \in S : Place(S, id, a) = k]
    <2>1. \A k : C(k) = CHOOSE a \in S : Place(S, id, a) = k
      BY <1>4
    <2> HIDE DEF C
    <2> QED
      BY <1>3, <2>1
  <1>6. Lists(u, S, id)
    BY <1>1, <1>5, PlacesList
  <1>7. Lists(u, S, r)
    <2>1. \A a \in S : r[a] \in Int /\ r[a] = id[a]
      BY <1>2
    <2>2. \A a, b \in S : id[a] < id[b] => r[a] < r[b]
      BY <2>1
    <2> QED
      BY <1>6, <2>1, <2>2, Renumbered
  <1> QED
    BY <1>7 DEF u

(* Nodes listed by number, under their XIDs. *)
LEMMA NamedLists ==
  ASSUME NEW s, NEW S, NEW r, Lists(s, S, r), NEW xid, NEW num,
         \A i \in S : num[xid[i]] = r[i],
         NEW w, w = [k \in DOMAIN s |-> xid[s[k]]], NEW A, A = {xid[i] : i \in S}
  PROVE  Lists(w, A, num)
PROOF
  <1>1. /\ Len(s) \in Nat /\ DOMAIN s = 1 .. Len(s) /\ \A k \in 1 .. Len(s) : s[k] \in S
        /\ \A a \in S : r[a] \in Int /\ \E k \in 1 .. Len(s) : s[k] = a
        /\ \A k, l \in 1 .. Len(s) : k < l => r[s[k]] < r[s[l]]
    BY ListFacts
  <1>2. DOMAIN w = 1 .. Len(s) /\ \A k \in 1 .. Len(s) : w[k] = xid[s[k]] /\ w[k] \in A
    BY <1>1
  <1>3. w \in Seq(A)
    <2>1. w \in [1 .. Len(s) -> A]
      BY <1>1, <1>2
    <2> QED
      BY <1>1, <2>1
  <1>4. \A a \in A : num[a] \in Int /\ \E k \in DOMAIN w : w[k] = a
    BY <1>1, <1>2
  <1>5. \A k, l \in DOMAIN w : k < l => num[w[k]] < num[w[l]]
    BY <1>1, <1>2, SMTT(30)
  <1> QED
    BY <1>3, <1>4, <1>5 DEF Lists

(* num tells the number of the node with an XID. *)
IsNumbering(d, xid, num) == \A i \in Nodes(d) : num[xid[i]] = i

Named(xid, nodes) == {xid[i] : i \in nodes}

(* A node of the tree is one of the document, and so are its children. *)
LEMMA TreeOfNodes ==
  ASSUME NEW d, IsDocument(d), NEW xid, NEW num, IsNumbering(d, xid, num),
         NEW t, t = TreeOf(d, xid)
  PROVE  /\ DOMAIN t = Named(xid, Nodes(d)) /\ t = [x \in DOMAIN t |-> t[x]]
         /\ \A i \in Nodes(d) :
              /\ t[xid[i]].kind = d.kind[i] /\ t[xid[i]].label = d.label[i]
              /\ t[xid[i]].attr = d.attr[i]
              /\ t[xid[i]] = Node(t[xid[i]], t[xid[i]].kids)
              /\ Lists(t[xid[i]].kids, Named(xid, Children(d, i)), num)
              /\ Apply!Kids(t, xid[i]) = Named(xid, Children(d, i))
PROOF
  <1> DEFINE The(x) == CHOOSE k \in Nodes(d) : xid[k] = x
             kids(i) == InOrder(Children(d, i))
             names(i) == [k \in DOMAIN kids(i) |-> xid[kids(i)[k]]]
             node(i) == [kind |-> d.kind[i], label |-> d.label[i], attr |-> d.attr[i],
                         kids |-> names(i)]
  <1>1. t = [x \in Named(xid, Nodes(d)) |-> node(The(x))]
    BY DEF TreeOf, Named
  <1>2. \A i \in Nodes(d) : The(xid[i]) = i
    <2> SUFFICES ASSUME NEW i \in Nodes(d)
                 PROVE  The(xid[i]) = i
      OBVIOUS
    <2>1. The(xid[i]) \in Nodes(d) /\ xid[The(xid[i])] = xid[i]
      OBVIOUS
    <2> HIDE DEF The
    <2>2. num[xid[The(xid[i])]] = The(xid[i]) /\ num[xid[i]] = i
      BY <2>1 DEF IsNumbering
    <2> QED
      BY <2>1, <2>2
  <1> HIDE DEF The, node
  <1>3. DOMAIN t = Named(xid, Nodes(d)) /\ t = [x \in DOMAIN t |-> t[x]]
    BY <1>1
  <1>4. \A i \in Nodes(d) : t[xid[i]] = node(i)
    BY <1>1, <1>2 DEF Named
  <1>5. ASSUME NEW i \in Nodes(d)
        PROVE  Lists(names(i), Named(xid, Children(d, i)), num)
    <2> DEFINE S == Children(d, i)
               s == InOrder(S)
               w == [k \in DOMAIN s |-> xid[s[k]]]
               A == Named(xid, S)
               id == [a \in Nodes(d) |-> a]
    <2>1. IsFiniteSet(S) /\ S \subseteq Int /\ S \subseteq Nodes(d)
      <3>1. IsFiniteSet(Nodes(d)) /\ S \subseteq Nodes(d) /\ Nodes(d) \subseteq Int
        BY DocumentFacts
      <3> QED
        BY <3>1, FS_Subset
    <2>2. \A a \in S : id[a] = a /\ num[xid[a]] = id[a]
      BY <2>1 DEF IsNumbering
    <2>3. w = [k \in DOMAIN s |-> xid[s[k]]] /\ A = {xid[a] : a \in S}
      BY DEF Named
    <2> HIDE DEF S, id, A, w
    <2>4. Lists(s, S, id)
      BY <2>1, <2>2, InOrderLists
    <2> HIDE DEF s
    <2>5. Lists(w, A, num)
      BY <2>2, <2>3, <2>4, NamedLists
    <2> QED
      BY <2>5 DEF w, A, S, s
  <1>6. ASSUME NEW i \in Nodes(d)
        PROVE  /\ t[xid[i]].kind = d.kind[i] /\ t[xid[i]].label = d.label[i]
               /\ t[xid[i]].attr = d.attr[i] /\ t[xid[i]].kids = names(i)
               /\ t[xid[i]] = Node(t[xid[i]], t[xid[i]].kids)
    <2>1. t[xid[i]] = [kind |-> d.kind[i], label |-> d.label[i], attr |-> d.attr[i],
                       kids |-> names(i)]
      BY <1>4 DEF node
    <2> HIDE DEF names
    <2> QED
      BY <2>1 DEF Node
  <1> HIDE DEF names
  <1>7. \A i \in Nodes(d) : /\ Lists(t[xid[i]].kids, Named(xid, Children(d, i)), num)
                            /\ Apply!Kids(t, xid[i]) = Named(xid, Children(d, i))
    BY <1>5, <1>6, ListedKids
  <1> QED
    BY <1>3, <1>6, <1>7

(* A document as a tree is a forest in which subtrees are subtrees. *)
LEMMA TreeIsForest ==
  ASSUME NEW d, IsDocument(d), NEW xid, NEW num, IsNumbering(d, xid, num),
         NEW t, t = TreeOf(d, xid), NEW n \in Nat, d.n <= n
  PROVE  /\ IsForest(t, num, n)
         /\ \A a \in Nodes(d) : Apply!Below(t, xid[a]) = Named(xid, Subtree(d, a))
PROOF
  <1>1. /\ DOMAIN t = Named(xid, Nodes(d))
        /\ \A i \in Nodes(d) :
              /\ Lists(t[xid[i]].kids, Named(xid, Children(d, i)), num)
              /\ Apply!Kids(t, xid[i]) = Named(xid, Children(d, i))
    BY TreeOfNodes
  <1>2. /\ d.n \in Nat /\ Root(d) = d.n /\ Nodes(d) = 1 .. d.n
        /\ \A i \in Nodes(d) \ {Root(d)} : d.parent[i] \in Nodes(d) /\ d.parent[i] > i
        /\ \A i \in Nodes(d) : \A c : c \in Children(d, i) <=> c \in Nodes(d) /\ d.parent[c] = i
    BY DocumentFacts
  <1>3. \A i \in Nodes(d) : \A c \in Children(d, i) : c \in Nodes(d) /\ c < i /\ d.parent[c] = i
    BY <1>2 DEF Children
  <1>4. \A x \in DOMAIN t : \E i \in Nodes(d) : x = xid[i] /\ num[x] = i
    BY <1>1 DEF Named, IsNumbering
  <1>5. \A i \in Nodes(d) : xid[i] \in DOMAIN t /\ num[xid[i]] = i
    BY <1>1 DEF Named, IsNumbering
  <1>6. \A i \in Nodes(d) : \A y \in Apply!Kids(t, xid[i]) :
          \E c \in Children(d, i) : y = xid[c] /\ num[y] = c
    <2> SUFFICES ASSUME NEW i \in Nodes(d), NEW y \in Apply!Kids(t, xid[i])
                 PROVE  \E c \in Children(d, i) : y = xid[c] /\ num[y] = c
      OBVIOUS
    <2>1. PICK c \in Children(d, i) : y = xid[c]
      BY <1>1 DEF Named
    <2> QED
      BY <1>3, <1>5, <2>1
  <1>7. Grows(t, num, n)
    <2> SUFFICES ASSUME NEW x \in DOMAIN t
                 PROVE  /\ num[x] \in 1 .. n
                        /\ Apply!Kids(t, x) \subseteq DOMAIN t
                        /\ \A c \in Apply!Kids(t, x) : num[c] < num[x]
                        /\ Lists(t[x].kids, Apply!Kids(t, x), num)
      BY DEF Grows
    <2>1. PICK i \in Nodes(d) : x = xid[i] /\ num[x] = i
      BY <1>4
    <2>2. num[x] \in 1 .. n
      BY <1>2, <2>1
    <2>3. \A y \in Apply!Kids(t, x) : y \in DOMAIN t /\ num[y] < num[x]
      BY <1>3, <1>5, <1>6, <2>1
    <2>4. Lists(t[x].kids, Apply!Kids(t, x), num)
      BY <1>1, <2>1
    <2> QED
      BY <2>2, <2>3, <2>4
  <1>8. \A x, y \in DOMAIN t : num[x] = num[y] => x = y
    BY <1>4
  <1>9. ASSUME NEW x \in DOMAIN t, NEW y \in DOMAIN t, NEW c \in Apply!Kids(t, x), c \in Apply!Kids(t, y)
        PROVE  x = y
    <2>1. PICK i \in Nodes(d) : x = xid[i]
      BY <1>4
    <2>2. PICK k \in Nodes(d) : y = xid[k]
      BY <1>4
    <2>3. PICK a \in Children(d, i) : num[c] = a
      BY <1>6, <2>1
    <2>4. PICK b \in Children(d, k) : num[c] = b
      BY <1>6, <1>9, <2>2
    <2> QED
      BY <1>3, <2>1, <2>2, <2>3, <2>4
  <1>10. ASSUME NEW a \in Nodes(d)
         PROVE  Apply!Below(t, xid[a]) = Named(xid, Subtree(d, a))
    <2> DEFINE P == Named(xid, Subtree(d, a))
               z == xid[a]
    <2>1. /\ a \in Subtree(d, a) /\ Subtree(d, a) \subseteq Nodes(d)
          /\ \A i \in Subtree(d, a) :
               /\ \A c \in Children(d, i) : c \in Subtree(d, a)
               /\ i # a => d.parent[i] \in Subtree(d, a)
      BY SubtreeFacts
    <2>2. P \subseteq DOMAIN t /\ z \in P /\ z \in DOMAIN t
      BY <1>1, <2>1 DEF Named
    <2>3. ASSUME NEW x \in P
          PROVE  /\ Apply!Kids(t, x) \subseteq P
                 /\ x # z => \E p \in P : x \in Apply!Kids(t, p)
      <3>1. PICK i \in Subtree(d, a) : x = xid[i]
        BY DEF Named
      <3>2. Apply!Kids(t, x) \subseteq P
        <4>1. i \in Nodes(d) /\ \A c \in Children(d, i) : c \in Subtree(d, a)
          BY <2>1
        <4>2. Apply!Kids(t, x) = Named(xid, Children(d, i))
          BY <1>1, <3>1, <4>1
        <4> QED
          BY <4>1, <4>2 DEF Named
      <3>3. ASSUME x # z
            PROVE  \E p \in P : x \in Apply!Kids(t, p)
        <4>1. d.parent[i] \in Subtree(d, a) /\ d.parent[i] \in Nodes(d) /\ i \in Nodes(d)
          BY <2>1, <3>1, <3>3
        <4>2. i \in Children(d, d.parent[i])
          BY <1>2, <4>1
        <4>3. x \in Apply!Kids(t, xid[d.parent[i]])
          BY <1>1, <3>1, <4>1, <4>2 DEF Named
        <4> QED
          BY <4>1, <4>3 DEF Named
      <3> QED
        BY <3>2, <3>3
    <2> HIDE DEF P, z
    <2>4. Apply!Below(t, z) = P
      <3>1. /\ \A x \in P : Apply!Kids(t, x) \subseteq P
            /\ \A x \in P \ {z} : \E p \in P : x \in Apply!Kids(t, p)
        BY <2>3
      <3> QED
        BY <1>7, <2>2, <3>1, BelowIs
    <2> QED
      BY <2>4 DEF P, z
  <1>11. ASSUME NEW x \in DOMAIN t, NEW b \in Apply!Kids(t, x), NEW c \in Apply!Kids(t, x),
                num[b] < num[c], NEW k \in Apply!Below(t, c)
         PROVE  num[b] < num[k]
    <2>1. PICK i \in Nodes(d) : x = xid[i]
      BY <1>4
    <2>2. PICK bb \in Children(d, i) : b = xid[bb] /\ num[b] = bb
      BY <1>6, <2>1
    <2>3. PICK cc \in Children(d, i) : c = xid[cc] /\ num[c] = cc
      BY <1>6, <2>1
    <2>4. PICK kk \in Subtree(d, cc) : k = xid[kk]
      BY <1>3, <1>10, <2>3 DEF Named
    <2>5. bb < kk
      BY <1>11, <2>2, <2>3, SubtreeFacts
    <2>6. kk \in Nodes(d)
      BY <1>3, SubtreeFacts
    <2> QED
      BY <1>5, <2>2, <2>4, <2>5, <2>6
  <1> QED
    BY <1>7, <1>8, <1>9, <1>10, <1>11 DEF IsForest

(***************************************************************************)
(* A document is one side of an edit when the nodes that are cut are nodes *)
(* of it and every node travels with the least of them above it.           *)
(***************************************************************************)
LEMMA TreeIsSide ==
  ASSUME NEW d, IsDocument(d), NEW xid, NEW num, IsNumbering(d, xid, num),
         NEW t, t = TreeOf(d, xid), NEW e, e.n \in Nat, d.n <= e.n, e.top = xid[Root(d)],
         NEW C, C \subseteq Nodes(d) \ {Root(d)}, e.cut \cap DOMAIN t = Named(xid, C),
         \A z \in e.cut \cup {e.top} : e.home[z] = z,
         \A i \in Nodes(d) : e.home[xid[i]] = xid[HomeOf(d, C, i)]
  PROVE  IsSide(e, t, num)
PROOF
  <1>1. /\ DOMAIN t = Named(xid, Nodes(d))
        /\ \A i \in Nodes(d) : Apply!Kids(t, xid[i]) = Named(xid, Children(d, i))
    BY TreeOfNodes
  <1>2. /\ Root(d) \in Nodes(d) /\ Nodes(d) = 1 .. d.n /\ d.n \in Nat
        /\ \A i \in Nodes(d) \ {Root(d)} : d.parent[i] \in Nodes(d)
        /\ \A i \in Nodes(d) : \A c : c \in Children(d, i) <=> c \in Nodes(d) /\ d.parent[c] = i
        /\ d.parent[Root(d)] = 0
    BY DocumentFacts
  <1>3. IsForest(t, num, e.n)
    BY TreeIsForest
  <1>4. \A i \in Nodes(d) : xid[i] \in DOMAIN t /\ num[xid[i]] = i
    BY <1>1 DEF Named, IsNumbering
  <1>5. \A i, k \in Nodes(d) : xid[i] = xid[k] => i = k
    BY <1>4
  <1>6. \A x \in DOMAIN t : \E i \in Nodes(d) : x = xid[i]
    BY <1>1 DEF Named
  <1>7. \A i \in Nodes(d) : xid[i] \in e.cut <=> i \in C
    <2> SUFFICES ASSUME NEW i \in Nodes(d)
                 PROVE  xid[i] \in e.cut <=> i \in C
      OBVIOUS
    <2>1. xid[i] \in e.cut <=> \E k \in C : xid[i] = xid[k]
      BY <1>4 DEF Named
    <2> QED
      BY <1>5, <2>1
  <1>8. IsRooted(t, e.top)
    <2>1. e.top \in DOMAIN t
      BY <1>2, <1>4
    <2>2. ASSUME NEW i \in Nodes(d)
          PROVE  xid[i] = e.top <=> \A p \in DOMAIN t : xid[i] \notin Apply!Kids(t, p)
      <3>1. CASE i = Root(d)
        <4>1. ASSUME NEW k \in Nodes(d), xid[i] \in Apply!Kids(t, xid[k])
              PROVE  FALSE
          <5>1. PICK c \in Children(d, k) : xid[i] = xid[c]
            BY <1>1, <4>1 DEF Named
          <5>2. i = c
            BY <1>2, <1>5, <5>1
          <5> QED
            BY <1>2, <3>1, <5>1, <5>2
        <4> QED
          BY <1>6, <3>1, <4>1
      <3>2. CASE i # Root(d)
        <4>1. d.parent[i] \in Nodes(d) /\ i \in Children(d, d.parent[i])
          BY <1>2, <3>2
        <4>2. xid[i] \in Apply!Kids(t, xid[d.parent[i]])
          BY <1>1, <4>1 DEF Named
        <4>3. xid[i] # e.top
          BY <1>2, <1>5, <3>2
        <4> QED
          BY <1>4, <4>1, <4>2, <4>3
      <3> QED
        BY <3>1, <3>2
    <2> QED
      BY <1>6, <2>1, <2>2 DEF IsRooted
  <1>9. e.top \notin e.cut
    BY <1>2, <1>7
  <1>10. C \subseteq Nodes(d)
    OBVIOUS
  <1>11. ASSUME NEW i \in Nodes(d), NEW x, x = xid[i]
         PROVE  /\ e.home[x] \in e.cut \cup {e.top}
                /\ e.home[x] \in DOMAIN t /\ num[x] <= num[e.home[x]]
                /\ \A c \in Apply!Kids(t, x) \ e.cut : e.home[c] = e.home[x]
    <2> DEFINE h == HomeOf(d, C, i)
    <2>1. h \in C \cup {Root(d)} /\ h \in Nodes(d) /\ i \in Subtree(d, h)
      BY <1>10, HomeFacts
    <2>2. e.home[x] = xid[h]
      BY <1>11
    <2>3. i <= h
      BY <2>1, SubtreeFacts
    <2>4. ASSUME NEW y \in Apply!Kids(t, x) \ e.cut
          PROVE  e.home[y] = e.home[x]
      <3>1. PICK c \in Children(d, i) : y = xid[c]
        BY <1>1, <1>11 DEF Named
      <3>2. c \in Nodes(d) /\ d.parent[c] = i /\ c # Root(d)
        <4>1. c \in Nodes(d) /\ d.parent[c] = i
          BY <1>2
        <4>2. i # 0
          BY <1>2
        <4> QED
          BY <1>2, <4>1, <4>2
      <3>3. c \notin C
        BY <1>7, <2>4, <3>1, <3>2
      <3>4. HomeOf(d, C, c) = h
        <4>1. c \in Nodes(d) \ (C \cup {Root(d)})
          BY <3>2, <3>3
        <4>2. HomeOf(d, C, c) = HomeOf(d, C, d.parent[c])
          BY <1>10, <4>1, HomeFacts
        <4> QED
          BY <3>2, <4>2
      <3> QED
        BY <2>2, <3>1, <3>2, <3>4
    <2> HIDE DEF h
    <2> QED
      BY <1>4, <1>7, <1>11, <2>1, <2>2, <2>3, <2>4
  <1>12. \A x \in DOMAIN t :
           /\ e.home[x] \in e.cut \cup {e.top}
           /\ e.home[x] \in DOMAIN t /\ num[x] <= num[e.home[x]]
           /\ \A c \in Apply!Kids(t, x) \ e.cut : e.home[c] = e.home[x]
    BY <1>6, <1>11
  <1> QED
    BY <1>3, <1>8, <1>9, <1>12 DEF IsSide

-----------------------------------------------------------------------------
(* What ComputeWeakMove compares: no element occurs twice. *)
Weighted(D) == [data : D, weight : Int]

IsRow(s, D) ==
  /\ s \in Seq(Weighted(D))
  /\ \A p, q \in 1 .. Len(s) : s[p].data = s[q].data => p = q

(* All of K is among the first elements of both, and in the same order. *)
SameOrder(s1, s2, i, j, K) ==
  /\ \A a \in K : /\ \E p \in 1 .. i : s1[p].data = a
                  /\ \E q \in 1 .. j : s2[q].data = a
  /\ \A p, r \in 1 .. i : \A q, u \in 1 .. j :
       /\ s1[p].data \in K /\ s1[r].data \in K
       /\ s1[p].data = s2[q].data /\ s1[r].data = s2[u].data
       /\ p < r
       => q < u

Table(s1, s2) == (0 .. Len(s1)) \X (0 .. Len(s2))

RankAt(s1, s2) == [p \in Table(s1, s2) |-> p[1] + p[2]]

Results(D) == [cost : Int, kept : SUBSET D]

CellAt(s1, s2, c, i, j) ==
  IF i = 0
  THEN IF j = 0 THEN [cost |-> 0, kept |-> {}] ELSE Spend(c[<<0, j - 1>>], s2[j])
  ELSE IF j = 0 THEN Spend(c[<<i - 1, 0>>], s1[i])
  ELSE Cell(c[<<i - 1, j>>], c[<<i, j - 1>>], c[<<i - 1, j - 1>>], s1[i], s2[j])

(* A row is a function on its places. *)
LEMMA RowFacts ==
  ASSUME NEW s, NEW D, IsRow(s, D)
  PROVE  /\ Len(s) \in Nat /\ DOMAIN s = 1 .. Len(s)
         /\ \A p \in 1 .. Len(s) : s[p] \in Weighted(D)
         /\ \A p, q \in 1 .. Len(s) : s[p].data = s[q].data => p = q
PROOF
  BY DEF IsRow

(* Every pair of lengths is a cell; its rank is their sum. *)
LEMMA TableRanked ==
  ASSUME NEW s1, NEW s2, Len(s1) \in Nat, Len(s2) \in Nat
  PROVE  /\ RankAt(s1, s2) \in [Table(s1, s2) -> Nat]
         /\ Len(s1) + Len(s2) + 1 \in Nat
         /\ \A i \in 0 .. Len(s1), j \in 0 .. Len(s2) :
              <<i, j>> \in Table(s1, s2) /\ RankAt(s1, s2)[<<i, j>>] = i + j
         /\ \A p \in Table(s1, s2) :
              /\ RankAt(s1, s2)[p] < Len(s1) + Len(s2) + 1
              /\ p = <<p[1], p[2]>> /\ p[1] \in 0 .. Len(s1) /\ p[2] \in 0 .. Len(s2)
              /\ RankAt(s1, s2)[p] = p[1] + p[2]
PROOF
  <1>1. ASSUME NEW p \in Table(s1, s2)
        PROVE  /\ p = <<p[1], p[2]>> /\ p[1] \in 0 .. Len(s1) /\ p[2] \in 0 .. Len(s2)
               /\ RankAt(s1, s2)[p] = p[1] + p[2]
    BY DEF Table, RankAt
  <1>2. ASSUME NEW p \in Table(s1, s2)
        PROVE  /\ p[1] + p[2] \in Nat /\ RankAt(s1, s2)[p] < Len(s1) + Len(s2) + 1
    BY <1>1
  <1>3. Len(s1) + Len(s2) + 1 \in Nat
    OBVIOUS
  <1>4. RankAt(s1, s2) \in [Table(s1, s2) -> Nat]
    BY <1>2 DEF RankAt
  <1>5. \A i \in 0 .. Len(s1), j \in 0 .. Len(s2) :
          <<i, j>> \in Table(s1, s2) /\ RankAt(s1, s2)[<<i, j>>] = i + j
    BY DEF Table, RankAt
  <1> QED
    BY <1>1, <1>2, <1>3, <1>4, <1>5

(* The rank of a cell given by its two lengths. *)
LEMMA CellRank ==
  ASSUME NEW s1, NEW s2, Len(s1) \in Nat, Len(s2) \in Nat,
         NEW i \in 0 .. Len(s1), NEW j \in 0 .. Len(s2)
  PROVE  <<i, j>> \in Table(s1, s2) /\ RankAt(s1, s2)[<<i, j>>] = i + j
PROOF
  BY TableRanked

(* An element costs its weight, or is kept when it is next in both. *)
LEMMA SpendFacts ==
  ASSUME NEW D, NEW c \in Results(D), NEW f \in Weighted(D)
  PROVE  Spend(c, f) \in Results(D) /\ Spend(c, f).kept = c.kept
PROOF
  BY DEF Spend, Results, Weighted

(* What a cell keeps: one neighbour's choice, or one element more. *)
KeepsOf(c, above, left, corner, f, g) ==
  \/ c.kept = above.kept
  \/ c.kept = left.kept
  \/ f.data = g.data /\ c.kept = corner.kept \cup {f.data}

(* A cell's result is one of its three neighbours', with what it keeps. *)
LEMMA CellFacts ==
  ASSUME NEW D, NEW above \in Results(D), NEW left \in Results(D), NEW corner \in Results(D),
         NEW f \in Weighted(D), NEW g \in Weighted(D), NEW c, c = Cell(above, left, corner, f, g)
  PROVE  c \in Results(D) /\ KeepsOf(c, above, left, corner, f, g)
PROOF
  <1>1. \/ c = Spend(above, f)
        \/ c = Spend(left, g)
        \/ f.data = g.data /\ c = Keep(corner, f)
    BY DEF Cell, Min3, Min2
  <1>2. CASE c = Spend(above, f)
    BY <1>2, SpendFacts DEF KeepsOf
  <1>3. CASE c = Spend(left, g)
    BY <1>3, SpendFacts DEF KeepsOf
  <1>4. CASE f.data = g.data /\ c = Keep(corner, f)
    <2>1. Keep(corner, f) \in Results(D) /\ Keep(corner, f).kept = corner.kept \cup {f.data}
      BY DEF Keep, Results, Weighted
    <2> QED
      BY <1>4, <2>1 DEF KeepsOf
  <1> QED
    BY <1>1, <1>2, <1>3, <1>4

(* The cells a cell looks at are cells of a lower rank. *)
LEMMA LowerCells ==
  ASSUME NEW s1, NEW s2, Len(s1) \in Nat, Len(s2) \in Nat, NEW p \in Table(s1, s2)
  PROVE  /\ p[1] # 0 /\ p[2] # 0 =>
              /\ <<p[1] - 1, p[2] - 1>> \in Table(s1, s2)
              /\ RankAt(s1, s2)[<<p[1] - 1, p[2] - 1>>] < RankAt(s1, s2)[p]
         /\ p[2] # 0 =>
              /\ <<p[1], p[2] - 1>> \in Table(s1, s2)
              /\ RankAt(s1, s2)[<<p[1], p[2] - 1>>] < RankAt(s1, s2)[p]
         /\ p[1] # 0 =>
              /\ <<p[1] - 1, p[2]>> \in Table(s1, s2)
              /\ RankAt(s1, s2)[<<p[1] - 1, p[2]>>] < RankAt(s1, s2)[p]
PROOF
  <1> DEFINE G == Table(s1, s2)
             rank == RankAt(s1, s2)
  <1>1. PICK i \in 0 .. Len(s1), j \in 0 .. Len(s2) : i = p[1] /\ j = p[2] /\ rank[p] = i + j
    BY TableRanked
  <1>2. \A a \in 0 .. Len(s1), b \in 0 .. Len(s2) : <<a, b>> \in G /\ rank[<<a, b>>] = a + b
    BY CellRank
  <1> HIDE DEF G, rank
  <1>3. ASSUME i # 0, j # 0
        PROVE  <<i - 1, j - 1>> \in G /\ rank[<<i - 1, j - 1>>] < rank[p]
    <2>1. i - 1 \in 0 .. Len(s1) /\ j - 1 \in 0 .. Len(s2)
      BY <1>3
    <2>2. <<i - 1, j - 1>> \in G /\ rank[<<i - 1, j - 1>>] = (i - 1) + (j - 1)
      BY <1>2, <2>1
    <2> QED
      BY <1>1, <2>2
  <1>4. ASSUME j # 0
        PROVE  <<i, j - 1>> \in G /\ rank[<<i, j - 1>>] < rank[p]
    <2>1. j - 1 \in 0 .. Len(s2)
      BY <1>4
    <2>2. <<i, j - 1>> \in G /\ rank[<<i, j - 1>>] = i + (j - 1)
      BY <1>2, <2>1
    <2> QED
      BY <1>1, <2>2
  <1>5. ASSUME i # 0
        PROVE  <<i - 1, j>> \in G /\ rank[<<i - 1, j>>] < rank[p]
    <2>1. i - 1 \in 0 .. Len(s1)
      BY <1>5
    <2>2. <<i - 1, j>> \in G /\ rank[<<i - 1, j>>] = (i - 1) + j
      BY <1>2, <2>1
    <2> QED
      BY <1>1, <2>2
  <1> QED
    BY <1>1, <1>3, <1>4, <1>5 DEF G, rank

(***************************************************************************)
(* lcss's table has a result in every cell, the one its body says.         *)
(***************************************************************************)
LEMMA LcssTable ==
  ASSUME NEW s1, NEW s2, NEW D, IsRow(s1, D), IsRow(s2, D)
  PROVE  \E c : /\ \A p \in Table(s1, s2) :
                     /\ c[p] \in Results(D)
                     /\ c[p] = CellAt(s1, s2, c, p[1], p[2])
                /\ Lcss(s1, s2) = c[<<Len(s1), Len(s2)>>].kept
PROOF
  <1> DEFINE G == Table(s1, s2)
             V == Results(D)
             rank == RankAt(s1, s2)
             N == Len(s1) + Len(s2) + 1
             Body(c) == [p \in G |-> CellAt(s1, s2, c, p[1], p[2])]
             Step == [c \in [G -> V] |-> Body(c)]
             cell == CHOOSE c : c = Body(c)
  <1>1. Lcss(s1, s2) = cell[<<Len(s1), Len(s2)>>].kept
    BY Zenon DEF Lcss, CellAt, Table
  <1>2. /\ Len(s1) \in Nat /\ \A p \in 1 .. Len(s1) : s1[p] \in Weighted(D)
        /\ Len(s2) \in Nat /\ \A p \in 1 .. Len(s2) : s2[p] \in Weighted(D)
    BY RowFacts
  <1>3. ASSUME NEW c, NEW p \in G, \A q \in G : rank[q] < rank[p] => c[q] \in V
        PROVE  CellAt(s1, s2, c, p[1], p[2]) \in V
    <2> DEFINE i == p[1]
               j == p[2]
    <2>1. i \in 0 .. Len(s1) /\ j \in 0 .. Len(s2)
      BY <1>2, TableRanked
    <2>2. /\ i # 0 /\ j # 0 => <<i - 1, j - 1>> \in G /\ rank[<<i - 1, j - 1>>] < rank[p]
          /\ j # 0 => <<i, j - 1>> \in G /\ rank[<<i, j - 1>>] < rank[p]
          /\ i # 0 => <<i - 1, j>> \in G /\ rank[<<i - 1, j>>] < rank[p]
      BY <1>2, LowerCells
    <2>3. (i # 0 => s1[i] \in Weighted(D)) /\ (j # 0 => s2[j] \in Weighted(D))
      BY <1>2, <2>1
    <2> HIDE DEF G, rank, V, i, j
    <2>4. CASE i = 0 /\ j = 0
      BY <2>4 DEF CellAt, V, Results, i, j
    <2>5. CASE i = 0 /\ j # 0
      <3>1. <<0, j - 1>> \in G /\ rank[<<0, j - 1>>] < rank[p]
        BY <2>2, <2>5
      <3>2. c[<<0, j - 1>>] \in V
        BY <1>3, <3>1
      <3>3. CellAt(s1, s2, c, i, j) = Spend(c[<<0, j - 1>>], s2[j])
        BY <2>5 DEF CellAt
      <3> QED
        BY <2>3, <2>5, <3>2, <3>3, SpendFacts DEF V, i, j
    <2>6. CASE i # 0 /\ j = 0
      <3>1. <<i - 1, 0>> \in G /\ rank[<<i - 1, 0>>] < rank[p]
        BY <2>2, <2>6
      <3>2. c[<<i - 1, 0>>] \in V
        BY <1>3, <3>1
      <3>3. CellAt(s1, s2, c, i, j) = Spend(c[<<i - 1, 0>>], s1[i])
        BY <2>6 DEF CellAt
      <3> QED
        BY <2>3, <2>6, <3>2, <3>3, SpendFacts DEF V, i, j
    <2>7. CASE i # 0 /\ j # 0
      <3>1. c[<<i - 1, j - 1>>] \in V /\ c[<<i, j - 1>>] \in V /\ c[<<i - 1, j>>] \in V
        BY <1>3, <2>2, <2>7
      <3> DEFINE above == c[<<i - 1, j>>]
                 left == c[<<i, j - 1>>]
                 corner == c[<<i - 1, j - 1>>]
                 f == s1[i]
                 g == s2[j]
                 w == CellAt(s1, s2, c, i, j)
      <3>2. w = Cell(above, left, corner, f, g)
        BY <2>7 DEF CellAt
      <3>3. f \in Weighted(D) /\ g \in Weighted(D)
        BY <2>3, <2>7
      <3>4. above \in Results(D) /\ left \in Results(D) /\ corner \in Results(D)
        BY <3>1 DEF V
      <3> HIDE DEF above, left, corner, f, g, w
      <3>5. w \in Results(D)
        BY <3>2, <3>3, <3>4, CellFacts
      <3> QED
        BY <3>5 DEF w, V, i, j
    <2> QED
      BY <2>4, <2>5, <2>6, <2>7
  <1>4. ASSUME NEW c \in [G -> V]
        PROVE  Body(c) \in [G -> V]
    <2> HIDE DEF V, G
    <2> QED
      BY <1>3
  <1>5. ASSUME NEW c, NEW d, NEW p \in G, \A q \in G : rank[q] < rank[p] => c[q] = d[q]
        PROVE  CellAt(s1, s2, c, p[1], p[2]) = CellAt(s1, s2, d, p[1], p[2])
    <2>1. /\ p[1] # 0 /\ p[2] # 0 => c[<<p[1] - 1, p[2] - 1>>] = d[<<p[1] - 1, p[2] - 1>>]
          /\ p[2] # 0 => c[<<p[1], p[2] - 1>>] = d[<<p[1], p[2] - 1>>]
          /\ p[1] # 0 => c[<<p[1] - 1, p[2]>>] = d[<<p[1] - 1, p[2]>>]
      <3>1. /\ p[1] # 0 /\ p[2] # 0 =>
                 <<p[1] - 1, p[2] - 1>> \in G /\ rank[<<p[1] - 1, p[2] - 1>>] < rank[p]
            /\ p[2] # 0 => <<p[1], p[2] - 1>> \in G /\ rank[<<p[1], p[2] - 1>>] < rank[p]
            /\ p[1] # 0 => <<p[1] - 1, p[2]>> \in G /\ rank[<<p[1] - 1, p[2]>>] < rank[p]
        BY <1>2, LowerCells
      <3> HIDE DEF G, rank
      <3> QED
        BY <1>5, <3>1
    <2> QED
      BY <2>1 DEF CellAt
  <1>6. Descends(Step, G, V, rank, N)
    <2>1. rank \in [G -> Nat] /\ N \in Nat /\ \A p \in G : rank[p] < N
      BY <1>2, TableRanked
    <2>2. V # {}
      <3>1. [cost |-> 0, kept |-> {}] \in V
        BY DEF Results
      <3> QED
        BY <3>1
    <2> HIDE DEF V, G, rank, N
    <2>3. Step \in [[G -> V] -> [G -> V]]
      BY <1>4
    <2>4. ASSUME NEW f \in [G -> V], NEW g \in [G -> V], NEW p \in G,
                 \A q \in G : rank[q] < rank[p] => f[q] = g[q]
          PROVE  Step[f][p] = Step[g][p]
      <3>1. CellAt(s1, s2, f, p[1], p[2]) = CellAt(s1, s2, g, p[1], p[2])
        BY <1>5, <2>4
      <3> QED
        BY <3>1
    <2> HIDE DEF Step
    <2> QED
      BY <2>1, <2>2, <2>3, <2>4 DEF Descends
  <1>7. \E c \in [G -> V] : c = Step[c]
    <2> HIDE DEF G, V, rank, Step, N
    <2> QED
      BY <1>6, RankRecursion
  <1>8. PICK c \in [G -> V] : c = Body(c)
    <2> HIDE DEF Body, G, V
    <2> QED
      BY <1>7
  <1>9. cell = Body(cell)
    <2> HIDE DEF Body
    <2> QED
      BY <1>8
  <1>10. \A p \in G : cell[p] = CellAt(s1, s2, cell, p[1], p[2])
    <2> HIDE DEF cell, G
    <2> QED
      BY <1>9
  <1>11. \A p \in G : cell[p] \in V
    <2> DEFINE T == {p \in G : cell[p] \in V}
    <2>1. rank \in [G -> Nat]
      BY <1>2, TableRanked
    <2>2. \A p \in G : (\A q \in G : rank[q] < rank[p] => q \in T) => p \in T
      <3> HIDE DEF cell, V, G, rank
      <3> QED
        BY <1>3, <1>10
    <2> HIDE DEF rank, G, T
    <2>3. \A p \in G : p \in T
      BY <2>1, <2>2, RankInduction
    <2> QED
      BY <2>3 DEF T
  <1> HIDE DEF cell
  <1> QED
    BY <1>1, <1>10, <1>11

-----------------------------------------------------------------------------
(* Nothing of an empty beginning can be kept. *)
LEMMA NoOrderYet ==
  ASSUME NEW s1, NEW s2
  PROVE  SameOrder(s1, s2, 0, 0, {})
PROOF
  BY DEF SameOrder

(* One more element of either sequence that is left out changes nothing. *)
LEMMA LeftOutOfSecond ==
  ASSUME NEW s1, NEW s2, NEW D, IsRow(s1, D), IsRow(s2, D), NEW K,
         NEW i \in 0 .. Len(s1), NEW j \in 1 .. Len(s2), SameOrder(s1, s2, i, j - 1, K)
  PROVE  SameOrder(s1, s2, i, j, K)
PROOF
  <1>1. /\ Len(s1) \in Nat /\ Len(s2) \in Nat
        /\ \A p, q \in 1 .. Len(s2) : s2[p].data = s2[q].data => p = q
    BY RowFacts
  <1>2. ASSUME NEW q \in 1 .. j, s2[q].data \in K
        PROVE  q \in 1 .. (j - 1)
    <2>1. PICK u \in 1 .. (j - 1) : s2[u].data = s2[q].data
      BY <1>2 DEF SameOrder
    <2> QED
      BY <1>1, <2>1
  <1>3. 1 .. (j - 1) \subseteq 1 .. j
    BY <1>1
  <1> QED
    BY <1>2, <1>3 DEF SameOrder

(* The same for the first sequence. *)
LEMMA LeftOutOfFirst ==
  ASSUME NEW s1, NEW s2, NEW D, IsRow(s1, D), IsRow(s2, D), NEW K,
         NEW i \in 1 .. Len(s1), NEW j \in 0 .. Len(s2), SameOrder(s1, s2, i - 1, j, K)
  PROVE  SameOrder(s1, s2, i, j, K)
PROOF
  <1>1. /\ Len(s1) \in Nat /\ Len(s2) \in Nat
        /\ \A p, q \in 1 .. Len(s1) : s1[p].data = s1[q].data => p = q
    BY RowFacts
  <1>2. ASSUME NEW q \in 1 .. i, s1[q].data \in K
        PROVE  q \in 1 .. (i - 1)
    <2>1. PICK u \in 1 .. (i - 1) : s1[u].data = s1[q].data
      BY <1>2 DEF SameOrder
    <2> QED
      BY <1>1, <2>1
  <1>3. 1 .. (i - 1) \subseteq 1 .. i
    BY <1>1
  <1> QED
    BY <1>2, <1>3 DEF SameOrder

(* An element after all that is kept, in both, may be kept too. *)
LEMMA KeptOneMore ==
  ASSUME NEW s1, NEW s2, NEW D, IsRow(s1, D), IsRow(s2, D), NEW K,
         NEW i \in 1 .. Len(s1), NEW j \in 1 .. Len(s2), s1[i].data = s2[j].data,
         NEW n \in i .. Len(s1), SameOrder(s1, s2, n, j - 1, K),
         \A p \in 1 .. n : s1[p].data \in K => p < i
  PROVE  SameOrder(s1, s2, n, j, K \cup {s1[i].data})
PROOF
  <1> DEFINE L == K \cup {s1[i].data}
  <1>1. /\ Len(s1) \in Nat /\ Len(s2) \in Nat
        /\ \A p, q \in 1 .. Len(s1) : s1[p].data = s1[q].data => p = q
        /\ \A p, q \in 1 .. Len(s2) : s2[p].data = s2[q].data => p = q
    BY RowFacts
  <1>2. 1 .. (j - 1) \subseteq 1 .. j /\ i \in 1 .. n /\ j \in 1 .. j
        /\ 1 .. j \subseteq 1 .. Len(s2) /\ 1 .. n \subseteq 1 .. Len(s1)
    BY <1>1
  <1>3. ASSUME NEW q \in 1 .. j, s2[q].data \in K
        PROVE  q \in 1 .. (j - 1)
    <2>1. PICK u \in 1 .. (j - 1) : s2[u].data = s2[q].data
      BY <1>3 DEF SameOrder
    <2> QED
      BY <1>1, <1>2, <2>1
  <1>4. ASSUME NEW a \in L
        PROVE  /\ \E p \in 1 .. n : s1[p].data = a
               /\ \E q \in 1 .. j : s2[q].data = a
    <2>1. CASE a \in K
      BY <1>2, <2>1 DEF SameOrder
    <2>2. CASE a = s1[i].data
      BY <1>2, <2>2
    <2> QED
      BY <2>1, <2>2
  <1>5. ASSUME NEW p \in 1 .. n, NEW r \in 1 .. n, NEW q \in 1 .. j, NEW u \in 1 .. j,
               s1[p].data \in L, s1[r].data \in L,
               s1[p].data = s2[q].data, s1[r].data = s2[u].data, p < r
        PROVE  q < u
    <2>1. CASE s1[r].data \in K
      <3>1. r < i
        BY <2>1
      <3>2. p # i
        BY <3>1, <1>5
      <3>3. s1[p].data \in K
        BY <1>1, <1>2, <3>2, <1>5
      <3>4. q \in 1 .. (j - 1) /\ u \in 1 .. (j - 1)
        BY <1>3, <1>5, <2>1, <3>3
      <3> QED
        BY <1>5, <2>1, <3>3, <3>4 DEF SameOrder
    <2>2. CASE s1[r].data \notin K
      <3>1. r = i /\ u = j
        BY <1>1, <1>2, <1>5, <2>2
      <3>2. s1[p].data \in K
        BY <1>1, <1>2, <3>1, <1>5
      <3>3. q \in 1 .. (j - 1)
        BY <1>3, <1>5, <3>2
      <3> QED
        BY <3>1, <3>3
    <2> QED
      BY <2>1, <2>2
  <1> HIDE DEF L
  <1>6. SameOrder(s1, s2, n, j, L)
    BY <1>4, <1>5 DEF SameOrder
  <1> QED
    BY <1>6 DEF L

(* What holds for a cell when it holds for its neighbours holds for all. *)
LEMMA TableInduction ==
  ASSUME NEW s1, NEW s2, Len(s1) \in Nat, Len(s2) \in Nat, NEW T,
         \A i \in 0 .. Len(s1), j \in 0 .. Len(s2) :
           /\ i # 0 => <<i - 1, j>> \in T
           /\ j # 0 => <<i, j - 1>> \in T
           /\ i # 0 /\ j # 0 => <<i - 1, j - 1>> \in T
           => <<i, j>> \in T
  PROVE  \A i \in 0 .. Len(s1), j \in 0 .. Len(s2) : <<i, j>> \in T
PROOF
  <1> DEFINE G == Table(s1, s2)
             rank == RankAt(s1, s2)
  <1>1. rank \in [G -> Nat]
    BY TableRanked
  <1>2. ASSUME NEW p \in G, \A q \in G : rank[q] < rank[p] => q \in T
        PROVE  p \in T
    <2>1. PICK i \in 0 .. Len(s1), j \in 0 .. Len(s2) : i = p[1] /\ j = p[2] /\ p = <<i, j>>
      BY TableRanked
    <2>2. /\ i # 0 /\ j # 0 => <<i - 1, j - 1>> \in G /\ rank[<<i - 1, j - 1>>] < rank[p]
          /\ j # 0 => <<i, j - 1>> \in G /\ rank[<<i, j - 1>>] < rank[p]
          /\ i # 0 => <<i - 1, j>> \in G /\ rank[<<i - 1, j>>] < rank[p]
      BY <2>1, LowerCells
    <2> HIDE DEF G, rank
    <2>3. /\ i # 0 /\ j # 0 => <<i - 1, j - 1>> \in T
          /\ j # 0 => <<i, j - 1>> \in T
          /\ i # 0 => <<i - 1, j>> \in T
      BY <1>2, <2>2
    <2> QED
      BY <2>1, <2>3
  <1>3. \A p \in G : p \in T
    <2> HIDE DEF G, rank
    <2> QED
      BY <1>1, <1>2, RankInduction
  <1> QED
    BY <1>3, CellRank

(* c has in every cell what lcss computes for it. *)
IsLcssTable(s1, s2, D, c) ==
  \A i \in 0 .. Len(s1), j \in 0 .. Len(s2) :
    c[<<i, j>>] \in Results(D) /\ c[<<i, j>>] = CellAt(s1, s2, c, i, j)

(* There is such a table, and lcss reads its result from the last cell. *)
LEMMA LcssCells ==
  ASSUME NEW s1, NEW s2, NEW D, IsRow(s1, D), IsRow(s2, D)
  PROVE  \E c : IsLcssTable(s1, s2, D, c) /\ Lcss(s1, s2) = c[<<Len(s1), Len(s2)>>].kept
PROOF
  <1>1. PICK c : /\ \A p \in Table(s1, s2) :
                      /\ c[p] \in Results(D)
                      /\ c[p] = CellAt(s1, s2, c, p[1], p[2])
                 /\ Lcss(s1, s2) = c[<<Len(s1), Len(s2)>>].kept
    BY LcssTable
  <1>2. Len(s1) \in Nat /\ Len(s2) \in Nat
    BY RowFacts
  <1>3. ASSUME NEW i \in 0 .. Len(s1), NEW j \in 0 .. Len(s2)
        PROVE  c[<<i, j>>] \in Results(D) /\ c[<<i, j>>] = CellAt(s1, s2, c, i, j)
    <2>1. <<i, j>> \in Table(s1, s2)
      BY <1>2, CellRank
    <2> QED
      BY <1>1, <2>1
  <1> QED
    BY <1>1, <1>3 DEF IsLcssTable

(***************************************************************************)
(* What a cell keeps stands in one order in the beginnings it compares.    *)
(***************************************************************************)
LEMMA LcssCellsInOrder ==
  ASSUME NEW s1, NEW s2, NEW D, IsRow(s1, D), IsRow(s2, D), NEW c, IsLcssTable(s1, s2, D, c)
  PROVE  \A i \in 0 .. Len(s1), j \in 0 .. Len(s2) : SameOrder(s1, s2, i, j, c[<<i, j>>].kept)
PROOF
  <1>2. /\ Len(s1) \in Nat /\ \A p \in 1 .. Len(s1) : s1[p] \in Weighted(D)
        /\ Len(s2) \in Nat /\ \A p \in 1 .. Len(s2) : s2[p] \in Weighted(D)
    BY RowFacts
  <1>3. \A i \in 0 .. Len(s1), j \in 0 .. Len(s2) :
          c[<<i, j>>] \in Results(D) /\ c[<<i, j>>] = CellAt(s1, s2, c, i, j)
    BY DEF IsLcssTable
  <1> DEFINE Good(i, j) == SameOrder(s1, s2, i, j, c[<<i, j>>].kept)
  <1>4. ASSUME NEW i \in 0 .. Len(s1), NEW j \in 0 .. Len(s2),
               i # 0 => Good(i - 1, j), j # 0 => Good(i, j - 1),
               i # 0 /\ j # 0 => Good(i - 1, j - 1)
        PROVE  Good(i, j)
    <2> DEFINE w == c[<<i, j>>]
    <2>1. CASE i = 0 /\ j = 0
      <3>0. w = CellAt(s1, s2, c, i, j)
        BY <1>3
      <3> HIDE DEF w
      <3>2. w = [cost |-> 0, kept |-> {}]
        BY <2>1, <3>0 DEF CellAt
      <3>1. w.kept = {}
        BY <3>2
      <3> USE DEF w
      <3> QED
        BY <2>1, <3>1, NoOrderYet
    <2>2. CASE i = 0 /\ j # 0
      <3>1. j \in 1 .. Len(s2) /\ j - 1 \in 0 .. Len(s2) /\ s2[j] \in Weighted(D)
        BY <1>2, <2>2
      <3>2. w = Spend(c[<<0, j - 1>>], s2[j])
        BY <1>3, <2>2 DEF CellAt
      <3>3. c[<<i, j - 1>>] \in Results(D)
        BY <1>3, <3>1
      <3>4. w.kept = c[<<i, j - 1>>].kept
        BY <2>2, <3>1, <3>2, <3>3, SpendFacts
      <3> QED
        BY <1>4, <2>2, <3>1, <3>4, LeftOutOfSecond
    <2>3. CASE i # 0 /\ j = 0
      <3>1. i \in 1 .. Len(s1) /\ i - 1 \in 0 .. Len(s1) /\ s1[i] \in Weighted(D)
        BY <1>2, <2>3
      <3>2. w = Spend(c[<<i - 1, 0>>], s1[i])
        BY <1>3, <2>3 DEF CellAt
      <3>3. c[<<i - 1, j>>] \in Results(D)
        BY <1>3, <3>1
      <3>4. w.kept = c[<<i - 1, j>>].kept
        BY <2>3, <3>1, <3>2, <3>3, SpendFacts
      <3> QED
        BY <1>4, <2>3, <3>1, <3>4, LeftOutOfFirst
    <2>4. CASE i # 0 /\ j # 0
      <3> DEFINE above == c[<<i - 1, j>>]
                 left == c[<<i, j - 1>>]
                 corner == c[<<i - 1, j - 1>>]
                 f == s1[i]
                 g == s2[j]
      <3>1. /\ i \in 1 .. Len(s1) /\ i - 1 \in 0 .. Len(s1) /\ f \in Weighted(D)
            /\ j \in 1 .. Len(s2) /\ j - 1 \in 0 .. Len(s2) /\ g \in Weighted(D)
        BY <1>2, <2>4
      <3>2. w = Cell(above, left, corner, f, g)
        BY <1>3, <2>4 DEF CellAt
      <3>3. above \in Results(D) /\ left \in Results(D) /\ corner \in Results(D)
        BY <1>3, <3>1
      <3>4. \/ w.kept = above.kept
            \/ w.kept = left.kept
            \/ f.data = g.data /\ w.kept = corner.kept \cup {f.data}
        <4>1. f \in Weighted(D)
          BY <3>1
        <4>2. g \in Weighted(D)
          BY <3>1
        <4> HIDE DEF w, above, left, corner, f, g
        <4>3. KeepsOf(w, above, left, corner, f, g)
          BY <3>2, <3>3, <4>1, <4>2, CellFacts
        <4> QED
          BY <4>3 DEF KeepsOf
      <3>5. CASE w.kept = above.kept
        BY <1>4, <2>4, <3>1, <3>5, LeftOutOfFirst
      <3>6. CASE w.kept = left.kept
        BY <1>4, <2>4, <3>1, <3>6, LeftOutOfSecond
      <3>7. CASE f.data = g.data /\ w.kept = corner.kept \cup {f.data}
        <4> DEFINE K == corner.kept
        <4>1. SameOrder(s1, s2, i - 1, j - 1, K)
          BY <1>4, <2>4
        <4>2. SameOrder(s1, s2, i, j - 1, K)
          BY <3>1, <4>1, LeftOutOfFirst
        <4>3. \A p \in 1 .. i : s1[p].data \in K => p < i
          <5>1. \A p, q \in 1 .. Len(s1) : s1[p].data = s1[q].data => p = q
            BY RowFacts
          <5>2. ASSUME NEW p \in 1 .. i, s1[p].data \in K
                PROVE  p < i
            <6>1. PICK q \in 1 .. (i - 1) : s1[q].data = s1[p].data
              BY <4>1, <5>2 DEF SameOrder
            <6> QED
              BY <1>2, <3>1, <5>1, <6>1
          <5> QED
            BY <5>2
        <4>4. i \in i .. Len(s1)
          BY <1>2, <3>1
        <4> HIDE DEF K
        <4>5. SameOrder(s1, s2, i, j, K \cup {s1[i].data})
          BY <3>1, <3>7, <4>2, <4>3, <4>4, KeptOneMore
        <4> QED
          BY <3>7, <4>5 DEF K
      <3> QED
        BY <3>4, <3>5, <3>6, <3>7
    <2> QED
      BY <2>1, <2>2, <2>3, <2>4
  <1> DEFINE T == {p \in Table(s1, s2) : Good(p[1], p[2])}
  <1>5. \A i \in 0 .. Len(s1), j \in 0 .. Len(s2) :
          /\ <<i, j>> \in Table(s1, s2)
          /\ <<i, j>> \in T <=> Good(i, j)
    <2> HIDE DEF Good
    <2> QED
      BY <1>2, CellRank
  <1> HIDE DEF T
  <1>6. ASSUME NEW i \in 0 .. Len(s1), NEW j \in 0 .. Len(s2),
               i # 0 => <<i - 1, j>> \in T, j # 0 => <<i, j - 1>> \in T,
               i # 0 /\ j # 0 => <<i - 1, j - 1>> \in T
        PROVE  <<i, j>> \in T
    <2>1. /\ i # 0 => i - 1 \in 0 .. Len(s1)
          /\ j # 0 => j - 1 \in 0 .. Len(s2)
      BY <1>2
    <2> HIDE DEF Good
    <2> QED
      BY <1>4, <1>5, <1>6, <2>1
  <1>7. \A i \in 0 .. Len(s1), j \in 0 .. Len(s2) : <<i, j>> \in T
    BY <1>2, <1>6, TableInduction
  <1> QED
    BY <1>5, <1>7

(***************************************************************************)
(* lcss: what it keeps stands in one order in both sequences.              *)
(***************************************************************************)
LEMMA LcssKeepsOrder ==
  ASSUME NEW s1, NEW s2, NEW D, IsRow(s1, D), IsRow(s2, D)
  PROVE  SameOrder(s1, s2, Len(s1), Len(s2), Lcss(s1, s2))
PROOF
  <1>1. Len(s1) \in 0 .. Len(s1) /\ Len(s2) \in 0 .. Len(s2)
    BY RowFacts
  <1> QED
    BY <1>1, LcssCells, LcssCellsInOrder

-----------------------------------------------------------------------------
(* What easy_css has after the next element: the places left, what is kept. *)
FoundAt(s1, s2, left, k) == {p \in left.ahead : s1[p].data = s2[k].data}

WalkOn(s1, s2, left, k) ==
  [ahead |-> left.ahead \ FoundAt(s1, s2, left, k),
   kept  |-> IF \E p \in FoundAt(s1, s2, left, k) : \A q \in left.ahead : p <= q
             THEN left.kept \cup {s2[k].data} ELSE left.kept]

Walks(s1, D) == [ahead : SUBSET (1 .. Len(s1)), kept : SUBSET D]

(* One element further the walk has places of the first sequence left. *)
LEMMA WalkOnFacts ==
  ASSUME NEW s1, NEW s2, NEW D, NEW left \in Walks(s1, D), NEW k, s2[k] \in Weighted(D)
  PROVE  /\ WalkOn(s1, s2, left, k) \in Walks(s1, D)
         /\ left.ahead \subseteq 1 .. Len(s1)
         /\ WalkOn(s1, s2, left, k).ahead = left.ahead \ FoundAt(s1, s2, left, k)
         /\ \/ WalkOn(s1, s2, left, k).kept = left.kept
            \/ \E p \in left.ahead : /\ s1[p].data = s2[k].data /\ \A q \in left.ahead : p <= q
                                     /\ WalkOn(s1, s2, left, k).kept = left.kept \cup {s1[p].data}
PROOF
  <1>1. left.ahead \in SUBSET (1 .. Len(s1)) /\ left.kept \in SUBSET D /\ s2[k].data \in D
    BY DEF Walks, Weighted
  <1> DEFINE w == WalkOn(s1, s2, left, k)
             F == FoundAt(s1, s2, left, k)
  <1>2. w = [ahead |-> left.ahead \ F,
             kept  |-> IF \E p \in F : \A q \in left.ahead : p <= q
                       THEN left.kept \cup {s2[k].data} ELSE left.kept]
    BY DEF WalkOn
  <1>3. F \subseteq left.ahead /\ \A p \in F : s1[p].data = s2[k].data
    BY DEF FoundAt
  <1> HIDE DEF w, F
  <1>4. w.ahead = left.ahead \ F
    BY <1>2
  <1>5. w.kept = IF \E p \in F : \A q \in left.ahead : p <= q
                 THEN left.kept \cup {s2[k].data} ELSE left.kept
    BY <1>2
  <1>6. w = [ahead |-> w.ahead, kept |-> w.kept]
    BY <1>2
  <1>7. w.ahead \in SUBSET (1 .. Len(s1)) /\ w.kept \in SUBSET D
    BY <1>1, <1>4, <1>5
  <1>8. w \in Walks(s1, D)
    BY <1>6, <1>7 DEF Walks
  <1>9. \/ w.kept = left.kept
        \/ \E p \in left.ahead : /\ s1[p].data = s2[k].data /\ \A q \in left.ahead : p <= q
                                 /\ w.kept = left.kept \cup {s1[p].data}
    BY <1>3, <1>5
  <1> QED
    BY <1>1, <1>4, <1>8, <1>9 DEF w, F

(***************************************************************************)
(* easy_css's walk has places and elements after every element.            *)
(***************************************************************************)
LEMMA EasyCssWalk ==
  ASSUME NEW s1, NEW s2, NEW D, IsRow(s1, D), IsRow(s2, D)
  PROVE  \E walk : /\ walk[0] = [ahead |-> 1 .. Len(s1), kept |-> {}]
                   /\ \A k \in 1 .. Len(s2) : walk[k] = WalkOn(s1, s2, walk[k - 1], k)
                   /\ EasyCss(s1, s2) = walk[Len(s2)].kept
PROOF
  <1> DEFINE m == Len(s2)
             G == 0 .. m
             V == Walks(s1, D)
             first == [ahead |-> 1 .. Len(s1), kept |-> {}]
             rank == [k \in G |-> k]
             Body(c) == [k \in G |-> IF k = 0 THEN first ELSE WalkOn(s1, s2, c[k - 1], k)]
             Step == [c \in [G -> V] |-> Body(c)]
             walk == CHOOSE c : c = Body(c)
  <1>1. EasyCss(s1, s2) = walk[m].kept
    BY Zenon DEF EasyCss, WalkOn, FoundAt
  <1>2. m \in Nat /\ \A k \in 1 .. m : s2[k] \in Weighted(D)
    BY RowFacts
  <1>3. first \in V
    BY DEF Walks
  <1>4. Descends(Step, G, V, rank, m + 1)
    <2>1. V # {} /\ rank \in [G -> Nat] /\ m + 1 \in Nat /\ \A k \in G : rank[k] < m + 1
      <3>1. m \in Nat /\ \A k \in G : k \in Nat /\ k < m + 1
        BY <1>2
      <3> HIDE DEF V, G, m, first
      <3> QED
        BY <1>3, <3>1
    <2>2. ASSUME NEW c \in [G -> V]
          PROVE  Body(c) \in [G -> V]
      <3>1. ASSUME NEW k \in G
            PROVE  (IF k = 0 THEN first ELSE WalkOn(s1, s2, c[k - 1], k)) \in V
        <4>1. CASE k = 0
          BY <1>3, <4>1
        <4>2. CASE k # 0
          <5>1. k \in 1 .. m /\ k - 1 \in G
            BY <1>2, <4>2
          <5>2. c[k - 1] \in V /\ s2[k] \in Weighted(D)
            BY <1>2, <5>1
          <5> HIDE DEF V, first
          <5>3. WalkOn(s1, s2, c[k - 1], k) \in V
            BY <5>2, WalkOnFacts DEF V
          <5> QED
            BY <4>2, <5>3
        <4> QED
          BY <4>1, <4>2
      <3> QED
        BY <3>1
    <2>3. Step \in [[G -> V] -> [G -> V]]
      BY <2>2
    <2>4. ASSUME NEW f \in [G -> V], NEW g \in [G -> V], NEW k \in G,
                 \A h \in G : rank[h] < rank[k] => f[h] = g[h]
          PROVE  Step[f][k] = Step[g][k]
      <3>1. k # 0 => f[k - 1] = g[k - 1]
        <4> SUFFICES ASSUME k # 0 PROVE f[k - 1] = g[k - 1]
          OBVIOUS
        <4>1. k - 1 \in G /\ k - 1 < k
          BY <1>2
        <4> HIDE DEF V
        <4> QED
          BY <2>4, <4>1
      <3> HIDE DEF V, first
      <3> QED
        BY <3>1
    <2> HIDE DEF G, V, rank, Step, m
    <2> QED
      BY <2>1, <2>3, <2>4 DEF Descends
  <1>5. \E c \in [G -> V] : c = Step[c]
    <2> HIDE DEF G, V, rank, Step
    <2> QED
      BY <1>4, RankRecursion
  <1>6. PICK c \in [G -> V] : c = Body(c)
    <2> HIDE DEF V, G, Body
    <2> QED
      BY <1>5
  <1>7. walk = Body(walk)
    <2> HIDE DEF Body
    <2> QED
      BY <1>6
  <1>8. \A k \in G : walk[k] = IF k = 0 THEN first ELSE WalkOn(s1, s2, walk[k - 1], k)
    <2> HIDE DEF walk, first
    <2> QED
      BY <1>7
  <1>9. 0 \in G /\ \A k \in 1 .. m : k \in G /\ k # 0
    BY <1>2
  <1> HIDE DEF walk, G, first
  <1>10. walk[0] = first /\ \A k \in 1 .. m : walk[k] = WalkOn(s1, s2, walk[k - 1], k)
    BY <1>8, <1>9
  <1> QED
    BY <1>1, <1>10 DEF first

(***************************************************************************)
(* easy_css: what it keeps stands in one order too, for everything kept    *)
(* stands before all the places that are left.                             *)
(***************************************************************************)
LEMMA EasyCssKeepsOrder ==
  ASSUME NEW s1, NEW s2, NEW D, IsRow(s1, D), IsRow(s2, D)
  PROVE  SameOrder(s1, s2, Len(s1), Len(s2), EasyCss(s1, s2))
PROOF
  <1> DEFINE n == Len(s1)
             m == Len(s2)
  <1>1. PICK walk : /\ walk[0] = [ahead |-> 1 .. n, kept |-> {}]
                    /\ \A k \in 1 .. m : walk[k] = WalkOn(s1, s2, walk[k - 1], k)
                    /\ EasyCss(s1, s2) = walk[m].kept
    BY EasyCssWalk
  <1>2. /\ n \in Nat
        /\ m \in Nat /\ \A k \in 1 .. m : s2[k] \in Weighted(D)
        /\ \A p, q \in 1 .. n : s1[p].data = s1[q].data => p = q
    BY RowFacts
  <1> DEFINE Left(w) == \A p \in 1 .. n : s1[p].data \in w.kept => \A q \in w.ahead : p < q
             Good(k) == /\ walk[k] \in Walks(s1, D)
                        /\ SameOrder(s1, s2, n, k, walk[k].kept)
                        /\ Left(walk[k])
             T == {k \in Nat : k <= m => Good(k)}
  <1>3. Good(0)
    <2>1. walk[0].kept = {} /\ walk[0] \in Walks(s1, D)
      BY <1>1 DEF Walks
    <2>2. SameOrder(s1, s2, n, 0, {})
      BY DEF SameOrder
    <2> QED
      BY <2>1, <2>2
  <1>4. ASSUME NEW k \in 1 .. m, Good(k - 1)
        PROVE  Good(k)
    <2> DEFINE left == walk[k - 1]
               w == walk[k]
    <2>1. left \in Walks(s1, D) /\ SameOrder(s1, s2, n, k - 1, left.kept) /\ Left(left)
      BY <1>4
    <2>2. s2[k] \in Weighted(D) /\ w = WalkOn(s1, s2, left, k)
      BY <1>1, <1>2
    <2> HIDE DEF left, w
    <2>3. /\ w \in Walks(s1, D) /\ left.ahead \subseteq 1 .. n
          /\ w.ahead = left.ahead \ FoundAt(s1, s2, left, k)
          /\ \/ w.kept = left.kept
             \/ \E p \in left.ahead : /\ s1[p].data = s2[k].data /\ \A q \in left.ahead : p <= q
                                      /\ w.kept = left.kept \cup {s1[p].data}
      <3>1. left \in Walks(s1, D) /\ s2[k] \in Weighted(D)
        BY <2>1, <2>2
      <3> QED
        BY <2>2, <3>1, WalkOnFacts
    <2>4. CASE w.kept = left.kept
      <3>1. n \in 0 .. Len(s1)
        BY <1>2
      <3>2. SameOrder(s1, s2, n, k, w.kept)
        BY <2>1, <2>4, <3>1, LeftOutOfSecond
      <3>3. Left(w)
        BY <2>1, <2>3, <2>4
      <3> QED
        BY <2>3, <3>2, <3>3 DEF w
    <2>5. CASE w.kept # left.kept
      <3>1. PICK p \in left.ahead : /\ s1[p].data = s2[k].data /\ \A q \in left.ahead : p <= q
                                    /\ w.kept = left.kept \cup {s1[p].data}
        BY <2>3, <2>5
      <3>2. p \in 1 .. n
        BY <2>3
      <3>3. \A q \in 1 .. n : s1[q].data \in left.kept => q < p
        BY <2>1, <3>1
      <3>4. SameOrder(s1, s2, n, k, w.kept)
        <4>1. n \in p .. Len(s1) /\ p \in 1 .. Len(s1)
          BY <1>2, <3>2
        <4> DEFINE K == left.kept
        <4>2. SameOrder(s1, s2, n, k - 1, K) /\ \A q \in 1 .. n : s1[q].data \in K => q < p
          BY <2>1, <3>3
        <4> HIDE DEF K, n, m
        <4>3. k \in 1 .. Len(s2)
          BY DEF m
        <4>4. SameOrder(s1, s2, n, k, K \cup {s1[p].data})
          BY <3>1, <4>1, <4>2, <4>3, KeptOneMore
        <4> QED
          BY <3>1, <4>4 DEF K
      <3>5. Left(w)
        <4> SUFFICES ASSUME NEW r \in 1 .. n, s1[r].data \in w.kept, NEW q \in w.ahead
                     PROVE  r < q
          OBVIOUS
        <4>1. q \in left.ahead /\ q \in 1 .. n
          BY <2>3
        <4>2. q # p
          BY <2>3, <3>1 DEF FoundAt
        <4>3. p < q
          BY <3>1, <3>2, <4>1, <4>2
        <4>4. CASE s1[r].data \in left.kept
          BY <2>1, <4>1, <4>4
        <4>5. CASE s1[r].data = s1[p].data
          BY <1>2, <3>2, <4>3, <4>5
        <4> QED
          BY <3>1, <4>4, <4>5
      <3> QED
        BY <2>3, <3>4, <3>5 DEF w
    <2> QED
      BY <2>4, <2>5
  <1> HIDE DEF Good
  <1>5. 0 \in T
    BY <1>3
  <1>6. ASSUME NEW k \in Nat, k \in T
        PROVE  k + 1 \in T
    <2> SUFFICES ASSUME k + 1 <= m PROVE Good(k + 1)
      OBVIOUS
    <2>1. k + 1 \in 1 .. m /\ (k + 1) - 1 = k /\ k <= m
      BY <1>2
    <2> QED
      BY <1>4, <1>6, <2>1
  <1> HIDE DEF T
  <1>7. m \in T
    BY <1>2, <1>5, <1>6, SetInduction
  <1>8. Good(m)
    BY <1>2, <1>7 DEF T
  <1> QED
    BY <1>1, <1>8 DEF Good

-----------------------------------------------------------------------------
(***************************************************************************)
(* Children that stay below one parent and are not moved are met in one    *)
(* order in both documents.                                                *)
(***************************************************************************)
KeptInOrder ==
  MovesMarked =>
    \A c, d \in Nodes(v0) :
      /\ v0event[c] = "nop" /\ v0event[d] = "nop"
      /\ v0.parent[c] = v0.parent[d] /\ c < d
      => v0match[c] < v0match[d]

(* The children of one node that stay, as a row of elements. *)
RowOf(S, name, weight) ==
  LET stay == InOrder(S) IN [k \in DOMAIN stay |-> [data |-> name[stay[k]], weight |-> weight[stay[k]]]]

(* s has the elements of S under their names, in the order of their numbers. *)
IsRowOf(s, S, name) ==
  /\ IsRow(s, Int)
  /\ \A a \in S : \E k \in 1 .. Len(s) : s[k].data = name[a]
  /\ \A k, l \in 1 .. Len(s) : \A a, b \in S :
       s[k].data = name[a] /\ s[l].data = name[b] /\ a < b => k < l

(* What is asked of the names and weights of a row's elements. *)
MayBeRow(S, name, weight) ==
  /\ IsFiniteSet(S) /\ S \subseteq Int
  /\ \A a \in S : name[a] \in Int /\ weight[a] \in Int
  /\ \A a, b \in S : name[a] = name[b] => a = b

(* A row has its elements in the order of their numbers, each once. *)
LEMMA RowIsRow ==
  ASSUME NEW S, NEW name, NEW weight, MayBeRow(S, name, weight),
         NEW s, s = RowOf(S, name, weight)
  PROVE  IsRowOf(s, S, name)
PROOF
  <1>0. /\ IsFiniteSet(S) /\ S \subseteq Int
        /\ \A a \in S : name[a] \in Int /\ weight[a] \in Int
        /\ \A a, b \in S : name[a] = name[b] => a = b
    BY DEF MayBeRow
  <1> DEFINE id == [a \in S |-> a]
             stay == InOrder(S)
             m == Len(stay)
  <1>1. \A a \in S : id[a] = a
    OBVIOUS
  <1>2. Lists(stay, S, id)
    <2> HIDE DEF id
    <2> QED
      BY <1>0, <1>1, InOrderLists
  <1>3. /\ m \in Nat /\ DOMAIN stay = 1 .. m
        /\ \A k \in 1 .. m : stay[k] \in S
        /\ \A a \in S : \E k \in 1 .. m : stay[k] = a
        /\ \A k, l \in 1 .. m : k < l => id[stay[k]] < id[stay[l]]
    <2> HIDE DEF id, stay
    <2> QED
      BY <1>2, ListFacts
  <1>4. \A k, l \in 1 .. m : k < l => stay[k] < stay[l]
    <2> HIDE DEF id, stay
    <2> QED
      BY <1>1, <1>3
  <1>5. s = [k \in 1 .. m |-> [data |-> name[stay[k]], weight |-> weight[stay[k]]]]
    BY <1>3 DEF RowOf
  <1> HIDE DEF id, stay, m
  <1>6. \A k \in 1 .. m : s[k] \in Weighted(Int) /\ s[k].data = name[stay[k]]
    <2> SUFFICES ASSUME NEW k \in 1 .. m
                 PROVE  s[k] \in Weighted(Int) /\ s[k].data = name[stay[k]]
      OBVIOUS
    <2>1. s[k] = [data |-> name[stay[k]], weight |-> weight[stay[k]]]
      BY <1>5
    <2>2. name[stay[k]] \in Int /\ weight[stay[k]] \in Int
      BY <1>0, <1>3
    <2> QED
      BY <2>1, <2>2 DEF Weighted
  <1>7. s \in [1 .. m -> Weighted(Int)]
    BY <1>5, <1>6
  <1> DEFINE W == Weighted(Int)
  <1>8. s \in Seq(W) /\ Len(s) = m
    <2> HIDE DEF W
    <2> QED
      BY <1>3, <1>7 DEF W
  <1>9. ASSUME NEW k \in 1 .. m, NEW l \in 1 .. m, s[k].data = s[l].data
        PROVE  k = l
    <2>1. stay[k] \in S /\ stay[l] \in S /\ name[stay[k]] = name[stay[l]]
      BY <1>3, <1>6, <1>9
    <2>2. stay[k] = stay[l] /\ stay[k] \in Int
      BY <1>0, <2>1
    <2> QED
      BY <1>3, <1>4, <2>2
  <1>10. IsRow(s, Int)
    BY <1>8, <1>9 DEF IsRow
  <1>11. \A a \in S : \E k \in 1 .. m : s[k].data = name[a]
    BY <1>3, <1>6
  <1>12. ASSUME NEW k \in 1 .. m, NEW l \in 1 .. m, NEW a \in S, NEW b \in S,
                s[k].data = name[a], s[l].data = name[b], a < b
         PROVE  k < l
    <2>0. /\ stay[k] \in S /\ name[stay[k]] = name[a]
          /\ stay[l] \in S /\ name[stay[l]] = name[b]
      BY <1>3, <1>6, <1>12
    <2>1. stay[k] = a /\ stay[l] = b
      BY <1>0, <2>0
    <2>2. a \in Int /\ b \in Int /\ k \in Int /\ l \in Int
      BY <1>0, <1>3
    <2>3. CASE l < k
      BY <1>4, <1>12, <2>1, <2>2, <2>3
    <2>4. CASE l = k
      BY <1>12, <2>1, <2>2, <2>4
    <2> QED
      BY <2>2, <2>3, <2>4
  <1> QED
    BY <1>8, <1>10, <1>11, <1>12 DEF IsRowOf

(* The children of a node that stay below it, and those of its match. *)
StayOld(i) == {a \in Children(v0, i) : v0event[a] = "nop"}

StayNew(i) == {b \in Children(v1, v0match[i]) : v1event[b] = "nop"}

SameNumber(S) == [a \in S |-> a]

(* Before the weak moves are marked, what is not marked has its match so. *)
NopsArePairs ==
  /\ MatchedDocuments
  /\ \A a \in Nodes(v0) : v0event[a] = "nop" => v0Assigned(a) /\ ~v0StrongMove(a)
  /\ \A b \in Nodes(v1) : v1event[b] = "nop" => v1Assigned(b)
  /\ \A a \in Nodes(v0) : v0event[a] = "nop" => v1event[v0match[a]] = "nop"

(* Each element has the weight of its node. *)
ElementsAreNodes(s, S, name, weight) ==
  \A k \in 1 .. Len(s) : \E a \in S : s[k].data = name[a] /\ s[k].weight = weight[a]

(* And each of them with its weight. *)
LEMMA RowElements ==
  ASSUME NEW S, NEW name, NEW weight, MayBeRow(S, name, weight),
         NEW s, s = RowOf(S, name, weight)
  PROVE  ElementsAreNodes(s, S, name, weight)
PROOF
  <1> DEFINE stay == InOrder(S)
  <1>1. Lists(stay, S, SameNumber(S))
    BY InOrderLists DEF MayBeRow, SameNumber
  <1>2. DOMAIN stay = 1 .. Len(stay) /\ \A k \in 1 .. Len(stay) : stay[k] \in S
    <2> HIDE DEF stay
    <2> QED
      BY <1>1, ListFacts
  <1>3. s = [k \in DOMAIN stay |-> [data |-> name[stay[k]], weight |-> weight[stay[k]]]]
    BY DEF RowOf
  <1>4. IsRow(s, Int)
    BY RowIsRow DEF IsRowOf
  <1>5. DOMAIN s = 1 .. Len(s)
    BY <1>4, RowFacts
  <1> HIDE DEF stay
  <1> QED
    BY <1>2, <1>3, <1>5 DEF ElementsAreNodes

(***************************************************************************)
(* What ComputeWeakMove compares: the children that stay, as two rows      *)
(* under the numbers they have in v0.                                      *)
(***************************************************************************)
StayingRows(i) ==
  /\ StayOld(i) \subseteq Nodes(v0) /\ IsFiniteSet(StayOld(i))
  /\ StayNew(i) \subseteq Nodes(v1)
  /\ \A a \in StayOld(i) : v0match[a] \in StayNew(i) /\ v1match[v0match[a]] = a
  /\ \A b \in StayNew(i) : v0match[v1match[b]] = b
  /\ IsRowOf(OriginalSequence(i), StayOld(i), SameNumber(StayOld(i)))
  /\ IsRowOf(FinalSequence(i), StayNew(i), v1match)
  /\ ElementsAreNodes(OriginalSequence(i), StayOld(i), SameNumber(StayOld(i)), v0.weight)
  /\ ElementsAreNodes(FinalSequence(i), StayNew(i), v1match, v1.weight)
  /\ Len(OriginalSequence(i)) = Cardinality(StayOld(i))

(* The rows are those of the children that stay, without the others. *)
LEMMA RowsOfStaying ==
  ASSUME NopsArePairs, NEW i \in Nodes(v0), v0Assigned(i)
  PROVE  StayingRows(i)
PROOF
  <1> DEFINE S == StayOld(i)
             T == StayNew(i)
             id == SameNumber(S)
             s1 == OriginalSequence(i)
             s2 == FinalSequence(i)
  <1>0. MatchedDocuments
    BY DEF NopsArePairs
  <1>1. /\ IsDocument(v0) /\ IsDocument(v1)
        /\ v0match[i] \in Nodes(v1) /\ v1match[v0match[i]] = i
    BY <1>0, MatchingFacts DEF MatchedDocuments, GivenDocuments
  <1>2. /\ S \subseteq Nodes(v0) /\ IsFiniteSet(S) /\ S \subseteq Int
        /\ \A a \in S : v0.parent[a] = i
    <2>1. S \subseteq Nodes(v0) /\ IsFiniteSet(Nodes(v0)) /\ \A a \in S : v0.parent[a] = i
      BY <1>1, DocumentFacts DEF StayOld
    <2>2. Nodes(v0) \subseteq Int
      BY DEF Nodes
    <2> QED
      BY <2>1, <2>2, FS_Subset
  <1>3. /\ T \subseteq Nodes(v1) /\ IsFiniteSet(T) /\ T \subseteq Int
    <2>1. T \subseteq Nodes(v1) /\ IsFiniteSet(Nodes(v1))
      BY <1>1, DocumentFacts DEF StayNew
    <2>2. Nodes(v1) \subseteq Int
      BY DEF Nodes
    <2> QED
      BY <2>1, <2>2, FS_Subset
  <1>4. \A a \in S : id[a] = a
    BY DEF SameNumber
  <1>5. Lists(InOrder(S), S, id)
    <2> HIDE DEF S, id
    <2> QED
      BY <1>2, <1>4, InOrderLists
  <1>6. s1 = RowOf(S, id, v0.weight)
    <2>1. \A k \in DOMAIN InOrder(S) : InOrder(S)[k] \in S
      <3> HIDE DEF S, id
      <3> QED
        BY <1>5, ListFacts
    <2>2. s1 = [k \in DOMAIN InOrder(S) |->
                  [data |-> InOrder(S)[k], weight |-> v0.weight[InOrder(S)[k]]]]
      BY DEF OriginalSequence, StayOld
    <2> HIDE DEF S, id, s1
    <2> QED
      BY <1>4, <2>1, <2>2 DEF RowOf
  <1>7. s2 = RowOf(T, v1match, v1.weight)
    BY DEF FinalSequence, RowOf, StayNew
  <1>8. MayBeRow(S, id, v0.weight)
    <2>1. \A a \in Nodes(v0) : v0.weight[a] \in Int
      BY <1>1 DEF IsDocument, IsWeighed
    <2> HIDE DEF S, id
    <2> QED
      BY <1>2, <1>4, <2>1 DEF MayBeRow
  <1>9. \A b \in T : v1match[b] \in Nodes(v0) /\ v0match[v1match[b]] = b
    <2>1. \A b \in T : v1Assigned(b)
      BY <1>3 DEF NopsArePairs, StayNew
    <2> QED
      BY <1>0, <1>3, <2>1, MatchingFacts
  <1>10. MayBeRow(T, v1match, v1.weight)
    <2>1. \A b \in Nodes(v1) : v1.weight[b] \in Int
      BY <1>1 DEF IsDocument, IsWeighed
    <2>2. Nodes(v0) \subseteq Int
      BY DEF Nodes
    <2>3. \A b \in T : v1match[b] \in Int /\ v1.weight[b] \in Int
      BY <1>3, <1>9, <2>1, <2>2
    <2>4. \A a, b \in T : v1match[a] = v1match[b] => a = b
      BY <1>9
    <2> HIDE DEF T
    <2> QED
      BY <1>3, <2>3, <2>4 DEF MayBeRow
  <1>11. ASSUME NEW a \in S
         PROVE  v0match[a] \in T /\ v1match[v0match[a]] = a
    <2>1. a \in Nodes(v0) /\ v0event[a] = "nop" /\ v0.parent[a] = i
      BY <1>2 DEF StayOld
    <2>2. /\ v0match[a] \in Nodes(v1) /\ v1match[v0match[a]] = a /\ v1event[v0match[a]] = "nop"
          /\ ~v0StrongMove(a)
      BY <1>0, <2>1, MatchingFacts DEF NopsArePairs
    <2>3. v1.parent[v0match[a]] = v0match[i]
      <3>1. i # 0
        BY DEF Nodes
      <3> QED
        BY <2>1, <2>2, <3>1 DEF v0StrongMove
    <2>4. v0match[a] \in Children(v1, v0match[i])
      BY <1>1, <2>2, <2>3, DocumentFacts
    <2> QED
      BY <2>2, <2>4 DEF StayNew
  <1>12. Len(s1) = Cardinality(S)
    <2> HIDE DEF S, id, s1
    <2>1. /\ Len(InOrder(S)) = Cardinality(S) /\ Len(InOrder(S)) \in Nat
          /\ DOMAIN InOrder(S) = 1 .. Len(InOrder(S))
      BY <1>5, ListedPlaces, ListFacts
    <2>2. IsRow(s1, Int)
      BY <1>6, <1>8, RowIsRow DEF IsRowOf
    <2>3. Len(s1) \in Nat /\ DOMAIN s1 = 1 .. Len(s1)
      BY <2>2, RowFacts
    <2>4. DOMAIN s1 = DOMAIN InOrder(S)
      BY <1>6 DEF RowOf
    <2>5. 1 .. Len(s1) = 1 .. Len(InOrder(S))
      BY <2>1, <2>3, <2>4
    <2>6. Len(s1) = Len(InOrder(S))
      <3> DEFINE m == Len(s1)
                 n == Len(InOrder(S))
      <3>1. m \in Nat /\ n \in Nat /\ 1 .. m = 1 .. n
        BY <2>1, <2>3, <2>5
      <3> HIDE DEF m, n
      <3>2. m \in 1 .. m \/ m = 0
        BY <3>1
      <3>3. n \in 1 .. n \/ n = 0
        BY <3>1
      <3>4. m = n
        BY <3>1, <3>2, <3>3
      <3> QED
        BY <3>4 DEF m, n
    <2> QED
      BY <2>1, <2>6
  <1>13. IsRowOf(s1, S, id) /\ ElementsAreNodes(s1, S, id, v0.weight)
    <2> HIDE DEF S, id, s1
    <2> QED
      BY <1>6, <1>8, RowIsRow, RowElements
  <1>14. IsRowOf(s2, T, v1match) /\ ElementsAreNodes(s2, T, v1match, v1.weight)
    <2> HIDE DEF T, s2
    <2> QED
      BY <1>7, <1>10, RowIsRow, RowElements
  <1> QED
    BY <1>2, <1>3, <1>9, <1>11, <1>12, <1>13, <1>14 DEF StayingRows

(***************************************************************************)
(* ComputeWeakMove: what is kept in place below one node is in one order.  *)
(***************************************************************************)
LEMMA KeptInPlaceOrdered ==
  ASSUME NopsArePairs, NEW i \in Nodes(v0), v0Assigned(i),
         NEW c \in Children(v0, i), NEW d \in Children(v0, i),
         v0event[c] = "nop", v0event[d] = "nop",
         c \in KeptInPlace(i), d \in KeptInPlace(i), c < d
  PROVE  v0match[c] < v0match[d]
PROOF
  <1> DEFINE S == StayOld(i)
             T == StayNew(i)
             id == SameNumber(S)
             s1 == OriginalSequence(i)
             s2 == FinalSequence(i)
             K == KeptInPlace(i)
  <1>1. StayingRows(i)
    BY RowsOfStaying
  <1>2. S \subseteq Int /\ T \subseteq Int
    BY <1>1 DEF StayingRows, Nodes
  <1>3. IsRowOf(s1, S, id)
    BY <1>1 DEF StayingRows
  <1>4. IsRowOf(s2, T, v1match)
    BY <1>1 DEF StayingRows
  <1>5. c \in S /\ d \in S /\ c \in K /\ d \in K /\ id[c] = c /\ id[d] = d
    BY DEF StayOld, SameNumber
  <1>6. \A a \in S : v0match[a] \in T /\ v1match[v0match[a]] = a
    BY <1>1 DEF StayingRows
  <1>7. K = Lcss(s1, s2) \/ K = EasyCss(s1, s2)
    BY DEF KeptInPlace
  <1> HIDE DEF S, T, id, s1, s2, K
  <1>8. SameOrder(s1, s2, Len(s1), Len(s2), K)
    BY <1>3, <1>4, <1>7, LcssKeepsOrder, EasyCssKeepsOrder DEF IsRowOf
  <1>9. PICK p \in 1 .. Len(s1), r \in 1 .. Len(s1) : s1[p].data = c /\ s1[r].data = d
    BY <1>3, <1>5 DEF IsRowOf
  <1>10. PICK q \in 1 .. Len(s2), u \in 1 .. Len(s2) : s2[q].data = c /\ s2[u].data = d
    <2>1. \A b \in T : \E k \in 1 .. Len(s2) : s2[k].data = v1match[b]
      BY <1>4 DEF IsRowOf
    <2> QED
      BY <1>5, <1>6, <2>1
  <1>11. p < r
    BY <1>3, <1>5, <1>9 DEF IsRowOf
  <1>12. q < u
    <2> HIDE DEF SameOrder
    <2>1. s1[p].data \in K /\ s1[r].data \in K /\ s1[p].data = s2[q].data /\ s1[r].data = s2[u].data
      BY <1>5, <1>9, <1>10
    <2> QED
      BY <1>8, <1>11, <2>1 DEF SameOrder
  <1>13. /\ v0match[c] \in T /\ v1match[v0match[c]] = c
         /\ v0match[d] \in T /\ v1match[v0match[d]] = d
    BY <1>5, <1>6
  <1>14. v0match[c] \in Int /\ v0match[d] \in Int
    BY <1>2, <1>13
  <1>15. CASE v0match[d] < v0match[c]
    <2>1. u < q
      BY <1>4, <1>10, <1>13, <1>15 DEF IsRowOf
    <2>2. u \in Int /\ q \in Int
      OBVIOUS
    <2> QED
      BY <1>12, <2>1, <2>2
  <1>16. CASE v0match[d] = v0match[c]
    <2>1. c = d
      BY <1>13, <1>16
    <2>2. c \in Int
      BY <1>2, <1>5
    <2> QED
      BY <2>1, <2>2
  <1> QED
    BY <1>14, <1>15, <1>16

-----------------------------------------------------------------------------
(* The passes after which a part of the delta is there. *)
AttributesMade == pass \in {"deletes", "inserts", "renameRoot", "written"}
DeletesMade == pass \in {"inserts", "renameRoot", "written"}
InsertsMade == pass \in {"renameRoot", "written"}

OldScripted == {i \in Nodes(v0) : v0Scripted(i)}
NewScripted == {j \in Nodes(v1) : v1Scripted(j)}

(* The places of the two documents in the order of the scripts. *)
FirstToLast(d) == [i \in Nodes(d) |-> PrefixRank(d, i)]
LastToFirst(d) == [i \in Nodes(d) |-> -PrefixRank(d, i)]

AttributeChanges ==
  {[xid |-> v1xid[p[1]], attr |-> p[2],
    old |-> v0.attr[v1match[p[1]]][p[2]], value |-> v1.attr[p[1]][p[2]]] :
   p \in {q \in Nodes(v1) \X AttrName :
            /\ v1Assigned(q[1]) /\ v1.kind[q[1]] = "element"
            /\ v1.attr[q[1]][q[2]] # v0.attr[v1match[q[1]]][q[2]]}}

NewValues ==
  {[xid |-> u[1], par |-> v0.parent[u[1]], value |-> v1.label[u[2]]] : u \in Updates}

RootChange ==
  IF v0.label[Root(v0)] = v1.label[Root(v1)] THEN [from |-> None, to |-> None]
  ELSE [from |-> v0.label[Root(v0)], to |-> v1.label[Root(v1)]]

(* Each script names its nodes in its order, each once. *)
DeletesWritten ==
  DeletesMade =>
    \E order : /\ Lists(order, OldScripted, LastToFirst(v0))
               /\ delta.deletes = [k \in DOMAIN order |-> DeleteOperation(order[k])]

InsertsWritten ==
  InsertsMade =>
    \E order : /\ Lists(order, NewScripted, FirstToLast(v1))
               /\ delta.inserts = [k \in DOMAIN order |-> InsertOperation(order[k])]

AttributesWritten == AttributesMade => delta.attributes = AttributeChanges

ValuesWritten == InsertsMade => delta.updates = NewValues

RootWritten ==
  delta.renameRoot = IF pass = "written" THEN RootChange ELSE [from |-> None, to |-> None]

(***************************************************************************)
(* The delta so far is the one the marks call for.                         *)
(***************************************************************************)
DeltaInv ==
  /\ v1xid \in [Nodes(v1) -> Nat]
  /\ KeptInOrder
  /\ DeletesWritten /\ InsertsWritten
  /\ AttributesWritten /\ ValuesWritten /\ RootWritten

(* A pass that leaves the marks alone leaves what they call for alone. *)
LEMMA CallsStay ==
  ASSUME UNCHANGED <<matched, v0event, v1event, v0xid, v1xid>>
  PROVE  /\ OldScripted' = OldScripted /\ NewScripted' = NewScripted
         /\ \A i : DeleteOperation(i)' = DeleteOperation(i)
         /\ \A j : InsertOperation(j)' = InsertOperation(j)
         /\ AttributeChanges' = AttributeChanges
         /\ NewValues' = NewValues /\ RootChange' = RootChange
         /\ LastToFirst(v0)' = LastToFirst(v0) /\ FirstToLast(v1)' = FirstToLast(v1)
PROOF
  <1>0. /\ v0' = v0 /\ v1' = v1 /\ v0match' = v0match /\ v1match' = v1match
        /\ v0event' = v0event /\ v1event' = v1event /\ v0xid' = v0xid /\ v1xid' = v1xid
    BY DEF matched
  <1>1. OldScripted' = OldScripted /\ NewScripted' = NewScripted
    BY <1>0 DEF OldScripted, NewScripted, v0Scripted, v1Scripted
  <1>2. \A i : Remaining(i)' = Remaining(i)
    BY <1>0 DEF Remaining
  <1>3. \A i : DeleteOperation(i)' = DeleteOperation(i)
    BY <1>0, <1>2 DEF DeleteOperation
  <1>4. \A j : Imported(j)' = Imported(j)
    BY <1>0 DEF Imported
  <1>5. \A j : InsertOperation(j)' = InsertOperation(j)
    BY <1>0, <1>4 DEF InsertOperation
  <1>6. AttributeChanges' = AttributeChanges
    BY <1>0 DEF AttributeChanges, v1Assigned
  <1>7. NewValues' = NewValues
    <2>1. Updates' = Updates
      BY <1>0, MatchingStays DEF matched
    <2> QED
      BY <1>0, <2>1 DEF NewValues
  <1>8. RootChange' = RootChange
    BY <1>0 DEF RootChange
  <1>9. LastToFirst(v0)' = LastToFirst(v0) /\ FirstToLast(v1)' = FirstToLast(v1)
    BY <1>0
  <1> QED
    BY <1>1, <1>3, <1>5, <1>6, <1>7, <1>8, <1>9

(* Before the first pass. *)
LEMMA DeltaInitInvariant ==
  ASSUME Init
  PROVE  DeltaInv
PROOF
  <1>1. /\ pass = "markOldTree" /\ delta = NoDelta /\ v1xid = [j \in Nodes(v1) |-> 0]
    BY DEF Init, ScriptInit
  <1>2. delta.renameRoot = [from |-> None, to |-> None]
    BY <1>1 DEF NoDelta
  <1> QED
    BY <1>1, <1>2 DEF DeltaInv, KeptInOrder, MovesMarked, DeletesWritten, DeletesMade, InsertsWritten,
          InsertsMade, AttributesWritten, AttributesMade, ValuesWritten, RootWritten

(* No part of the delta is there while the marks are set. *)
LEMMA MarkingKeepsDelta ==
  ASSUME UNCHANGED delta, DeltaInv, ~AttributesMade', ~DeletesMade', ~InsertsMade',
         pass # "written", pass' # "written"
  PROVE  /\ DeletesWritten' /\ InsertsWritten' /\ AttributesWritten'
         /\ ValuesWritten' /\ RootWritten'
PROOF
  BY DEF DeltaInv, DeletesWritten, InsertsWritten, AttributesWritten, ValuesWritten, RootWritten

(* The marks of the old tree concern no part of the delta. *)
LEMMA MarkOldTreeDelta ==
  ASSUME DeltaInv, MarkOldTree
  PROVE  DeltaInv'
PROOF
  <1>1. /\ pass = "markOldTree" /\ pass' = "markNewTree" /\ UNCHANGED <<matched, v1xid, delta>>
    BY DEF MarkOldTree
  <1>2. v1xid' \in [Nodes(v1)' -> Nat]
    BY <1>1 DEF DeltaInv, matched
  <1> QED
    BY <1>1, <1>2, MarkingKeepsDelta DEF DeltaInv, KeptInOrder, MovesMarked, AttributesMade, DeletesMade,
       InsertsMade

(* The new nodes get numbers as XIDs. *)
LEMMA MarkNewTreeDelta ==
  ASSUME ScriptInv, DeltaInv, MarkNewTree, ScriptInv'
  PROVE  DeltaInv'
PROOF
  <1>1. /\ pass = "markNewTree" /\ pass' \in {"exception", "computeWeakMove"}
        /\ UNCHANGED <<matched, delta>>
    BY DEF MarkNewTree
  <1>2. v1xid' \in [Nodes(v1)' -> Nat]
    <2>1. MatchedDocuments /\ NewMarked' /\ v1' = v1 /\ v1match' = v1match
      BY <1>1 DEF ScriptInv, NewMarked, matched
    <2>2. v1xid' = [j \in Nodes(v1) |-> IF v1Assigned(j) THEN v1match[j] ELSE FreshXid(j)]
      BY <1>1, <2>1, MatchingStays DEF ScriptInv, XidsGiven
    <2>3. \A j \in Nodes(v1) : v1match[j] \in Nat
      BY <2>1, DocumentFacts DEF MatchedDocuments, GivenDocuments
    <2>4. \A j \in Nodes(v1) : ~v1Assigned(j) => FreshXid(j) \in Nat
      BY <2>1, FreshXidsGrow DEF Inserted
    <2> QED
      BY <2>1, <2>2, <2>3, <2>4
  <1> QED
    BY <1>1, <1>2, MarkingKeepsDelta DEF DeltaInv, KeptInOrder, MovesMarked, AttributesMade, DeletesMade,
       InsertsMade, ScriptInv

(* What is marked, before the weak moves are. *)
LEMMA NopsBeforeMoves ==
  ASSUME ScriptInv, pass = "computeWeakMove"
  PROVE  NopsArePairs
PROOF
  <1>1. MatchedDocuments /\ OldEvents /\ NewEvents /\ OldMarked /\ NewMarked /\ ~MovesMarked
    BY DEF ScriptInv, OldMarked, NewMarked, MovesMarked
  <1>2. ASSUME NEW a \in Nodes(v0), v0event[a] = "nop"
        PROVE  v0Assigned(a) /\ ~v0StrongMove(a) /\ v1event[v0match[a]] = "nop"
    <2>1. v0Assigned(a) /\ ~v0StrongMove(a)
      BY <1>1, <1>2 DEF OldEvents
    <2>2. v0match[a] \in Nodes(v1) /\ v1Assigned(v0match[a])
      BY <1>1, <2>1, MatchingFacts
    <2>3. ~v1StrongMove(v0match[a])
      BY <1>1, <2>1, StrongMovesAgree
    <2>4. /\ v1event[v0match[a]] \in {"nop", "inserted", "strongmove", "weakmove", "updateNew"}
          /\ v1event[v0match[a]] # "weakmove"
      BY <1>1, <2>2 DEF NewEvents, ScriptInv, WeakMovesAgree
    <2> QED
      BY <1>1, <2>1, <2>2, <2>3, <2>4 DEF NewEvents
  <1>3. \A b \in Nodes(v1) : v1event[b] = "nop" => v1Assigned(b)
    BY <1>1 DEF NewEvents
  <1> QED
    BY <1>1, <1>2, <1>3 DEF NopsArePairs

(* Children that stay are those ComputeWeakMove keeps in place. *)
LEMMA ComputeWeakMoveDelta ==
  ASSUME ScriptInv, DeltaInv, ComputeWeakMove
  PROVE  DeltaInv'
PROOF
  <1>1. /\ pass = "computeWeakMove" /\ pass' = "detectUpdate" /\ UNCHANGED <<matched, v1xid, delta>>
        /\ v0event' = [i \in Nodes(v0) |-> IF i \in WeakMoves THEN "weakmove" ELSE v0event[i]]
        /\ v0' = v0 /\ v0match' = v0match /\ v1' = v1
    BY DEF ComputeWeakMove, matched
  <1>2. MatchedDocuments /\ OldEvents /\ NewEvents /\ OldMarked /\ NewMarked /\ ~MovesMarked
    BY <1>1 DEF ScriptInv, OldMarked, NewMarked, MovesMarked
  <1>3. NopsArePairs
    BY <1>1, NopsBeforeMoves
  <1>4. \A a \in Nodes(v0) : v0event[a] = "nop" => v0Assigned(a) /\ ~v0StrongMove(a)
    BY <1>3 DEF NopsArePairs
  <1>5. ASSUME NEW c \in Nodes(v0), NEW d \in Nodes(v0), v0event'[c] = "nop", v0event'[d] = "nop",
               v0.parent[c] = v0.parent[d], c < d
        PROVE  v0match[c] < v0match[d]
    <2>1. v0event[c] = "nop" /\ v0event[d] = "nop" /\ c \notin WeakMoves /\ d \notin WeakMoves
      BY <1>1, <1>5
    <2> DEFINE i == v0.parent[c]
    <2>2. c # Root(v0)
      <3>1. d <= v0.n /\ Root(v0) = v0.n /\ v0.n \in Nat /\ c \in Nat /\ d \in Nat
        BY <1>2, DocumentFacts DEF MatchedDocuments, GivenDocuments
      <3> QED
        BY <1>5, <3>1
    <2>3. i \in Nodes(v0) /\ v0Assigned(i)
      <3>1. i \in Nodes(v0)
        BY <1>2, <2>2, DocumentFacts DEF MatchedDocuments, GivenDocuments
      <3>2. i # 0
        BY <3>1 DEF Nodes
      <3> QED
        BY <1>4, <2>1, <3>1, <3>2 DEF v0StrongMove
    <2>4. c \in Children(v0, i) /\ d \in Children(v0, i)
      BY <1>2, <1>5, <2>3, DocumentFacts DEF MatchedDocuments, GivenDocuments
    <2> HIDE DEF i
    <2>5. c \in KeptInPlace(i) /\ d \in KeptInPlace(i)
      BY <2>1, <2>3, <2>4 DEF WeakMoves
    <2> QED
      BY <1>3, <1>5, <2>1, <2>3, <2>4, <2>5, KeptInPlaceOrdered
  <1>6. KeptInOrder'
    BY <1>1, <1>5 DEF KeptInOrder
  <1>7. v1xid' \in [Nodes(v1)' -> Nat]
    BY <1>1 DEF DeltaInv
  <1> QED
    BY <1>1, <1>6, <1>7, MarkingKeepsDelta DEF DeltaInv, AttributesMade, DeletesMade, InsertsMade

(* Updates concern nodes that have no match. *)
LEMMA DetectUpdateDelta ==
  ASSUME DeltaInv, DetectUpdate
  PROVE  DeltaInv'
PROOF
  <1>1. /\ pass = "detectUpdate" /\ pass' = "attributes" /\ UNCHANGED <<matched, v1xid, delta>>
        /\ v0event' = [i \in Nodes(v0) |->
             IF \E u \in Updates : u[1] = i THEN "updateOld" ELSE v0event[i]]
        /\ v0' = v0 /\ v0match' = v0match /\ v1' = v1
    BY DEF DetectUpdate, matched
  <1>2. \A i \in Nodes(v0) : v0event'[i] = "nop" => v0event[i] = "nop"
    BY <1>1
  <1>3. KeptInOrder'
    BY <1>1, <1>2 DEF DeltaInv, KeptInOrder, MovesMarked
  <1>4. v1xid' \in [Nodes(v1)' -> Nat]
    BY <1>1 DEF DeltaInv
  <1> QED
    BY <1>1, <1>3, <1>4, MarkingKeepsDelta DEF DeltaInv, AttributesMade, DeletesMade, InsertsMade

(* The marks stay while the delta is written. *)
LEMMA WritingKeepsOrder ==
  ASSUME DeltaInv, UNCHANGED <<matched, v0event, v1event, v0xid, v1xid>>,
         MovesMarked
  PROVE  KeptInOrder' /\ v1xid' \in [Nodes(v1)' -> Nat]
PROOF
  <1>1. v0' = v0 /\ v1' = v1 /\ v0match' = v0match /\ v0event' = v0event /\ v1xid' = v1xid
    BY DEF matched
  <1> QED
    BY <1>1 DEF DeltaInv, KeptInOrder

(* The operations on attributes. *)
LEMMA AddAttributeOperationsDelta ==
  ASSUME ScriptInv, DeltaInv, AddAttributeOperations
  PROVE  DeltaInv'
PROOF
  <1>1. /\ pass = "attributes" /\ pass' = "deletes"
        /\ UNCHANGED <<matched, v0event, v1event, v0xid, v1xid>>
        /\ delta' = [delta EXCEPT !.attributes = AttributeChanges]
    BY DEF AddAttributeOperations, AttributeChanges
  <1>2. DOMAIN delta = DOMAIN NoDelta
    BY DEF ScriptInv, DeltaParts
  <1>3. {"attributes", "renameRoot"} \subseteq DOMAIN delta
    BY <1>2 DEF NoDelta
  <1>4. delta'.attributes = AttributeChanges /\ delta'.renameRoot = delta.renameRoot
    BY <1>1, <1>3
  <1>5. AttributesWritten' /\ RootWritten'
    BY <1>1, <1>4, CallsStay DEF DeltaInv, AttributesWritten, RootWritten
  <1>6. DeletesWritten' /\ InsertsWritten' /\ ValuesWritten'
    BY <1>1 DEF DeletesWritten, InsertsWritten, ValuesWritten, DeletesMade, InsertsMade
  <1>7. MovesMarked
    BY <1>1 DEF MovesMarked
  <1> QED
    BY <1>1, <1>5, <1>6, <1>7, WritingKeepsOrder DEF DeltaInv

(* A script names its nodes by rising rank. *)
LEMMA ScriptOrders ==
  ASSUME GivenDocuments
  PROVE  /\ Lists(Ranked(OldScripted, DeleteRank), OldScripted, LastToFirst(v0))
         /\ Lists(Ranked(NewScripted, InsertRank), NewScripted, FirstToLast(v1))
PROOF
  <1>1. IsDocument(v0) /\ IsDocument(v1)
    BY DEF GivenDocuments
  <1>2. OldScripted \subseteq Nodes(v0) /\ NewScripted \subseteq Nodes(v1)
    BY DEF OldScripted, NewScripted
  <1>3. IsFiniteSet(OldScripted) /\ IsFiniteSet(NewScripted)
    BY <1>1, <1>2, DocumentFacts, FS_Subset
  <1>4. /\ \A i \in Nodes(v0) : PrefixRank(v0, i) \in Int
        /\ \A i, k \in Nodes(v0) : PrefixRank(v0, i) = PrefixRank(v0, k) => i = k
    <2>1. v0.n \in Nat
      BY <1>1, DocumentFacts
    <2> QED
      BY <1>1, <2>1, PrefixOrder
  <1>5. /\ \A i \in Nodes(v1) : PrefixRank(v1, i) \in Int
        /\ \A i, k \in Nodes(v1) : PrefixRank(v1, i) = PrefixRank(v1, k) => i = k
    <2>1. v1.n \in Nat
      BY <1>1, DocumentFacts
    <2> QED
      BY <1>1, <2>1, PrefixOrder
  <1>6. Lists(Ranked(OldScripted, DeleteRank), OldScripted, LastToFirst(v0))
    <2> DEFINE A == OldScripted
               q == [a \in A |-> -PrefixRank(v0, a)]
               u == Ranked(OldScripted, DeleteRank)
    <2>1. \A a \in A : q[a] = DeleteRank(a) /\ q[a] = LastToFirst(v0)[a] /\ q[a] \in Int
      BY <1>2, <1>4 DEF DeleteRank, LastToFirst
    <2>2. \A a, b \in A : q[a] = q[b] => a = b
      <3> SUFFICES ASSUME NEW a \in A, NEW b \in A, q[a] = q[b]
                   PROVE  a = b
        OBVIOUS
      <3>1. PrefixRank(v0, a) \in Int /\ PrefixRank(v0, b) \in Int
        BY <1>2, <1>4
      <3>2. PrefixRank(v0, a) = PrefixRank(v0, b)
        BY <3>1
      <3> QED
        BY <1>2, <1>4, <3>2
    <2>3. IsRanking(A, q)
      <3>1. q \in [A -> Int]
        BY <2>1
      <3> HIDE DEF q, A
      <3> QED
        BY <1>3, <2>2, <3>1 DEF IsRanking, A
    <2>4. u = [k \in 1 .. Cardinality(A) |-> CHOOSE a \in A : Place(A, q, a) = k]
      <3>1. \A a \in A : Place(A, q, a) = Cardinality({b \in A : DeleteRank(b) <= DeleteRank(a)})
        <4> SUFFICES ASSUME NEW a \in A
                     PROVE  {b \in A : q[b] <= q[a]} = {b \in A : DeleteRank(b) <= DeleteRank(a)}
          BY DEF Place
        <4> HIDE DEF q
        <4> QED
          BY <2>1
      <3> DEFINE C(k) == CHOOSE a \in A : Place(A, q, a) = k
                 E(k) == CHOOSE a \in A : Cardinality({b \in A : DeleteRank(b) <= DeleteRank(a)}) = k
      <3>2. \A k : C(k) = E(k)
        <4> HIDE DEF q
        <4> QED
          BY <3>1
      <3>3. u = [k \in 1 .. Cardinality(A) |-> E(k)]
        BY DEF Ranked
      <3> HIDE DEF C, E
      <3>4. u = [k \in 1 .. Cardinality(A) |-> C(k)]
        BY <3>2, <3>3
      <3> QED
        BY <3>4 DEF C
    <2> HIDE DEF q, u
    <2>5. Lists(u, A, q)
      BY <2>3, <2>4, PlacesList
    <2>6. Lists(u, A, LastToFirst(v0))
      <3> HIDE DEF A
      <3>1. /\ u \in Seq(A) /\ DOMAIN u = 1 .. Len(u)
            /\ \A k \in 1 .. Len(u) : u[k] \in A
            /\ \A a \in A : \E k \in 1 .. Len(u) : u[k] = a
            /\ \A k, l \in 1 .. Len(u) : k < l => q[u[k]] < q[u[l]]
        BY <2>5, ListFacts
      <3> QED
        BY <2>1, <3>1 DEF Lists
    <2> QED
      BY <2>6 DEF u
  <1>7. Lists(Ranked(NewScripted, InsertRank), NewScripted, FirstToLast(v1))
    <2> DEFINE A == NewScripted
               q == [a \in A |-> PrefixRank(v1, a)]
               u == Ranked(NewScripted, InsertRank)
    <2>1. \A a \in A : q[a] = InsertRank(a) /\ q[a] = FirstToLast(v1)[a] /\ q[a] \in Int
      BY <1>2, <1>5 DEF InsertRank, FirstToLast
    <2>2. \A a, b \in A : q[a] = q[b] => a = b
      BY <1>2, <1>5
    <2>3. IsRanking(A, q)
      <3>1. q \in [A -> Int]
        BY <2>1
      <3> HIDE DEF q, A
      <3> QED
        BY <1>3, <2>2, <3>1 DEF IsRanking, A
    <2>4. u = [k \in 1 .. Cardinality(A) |-> CHOOSE a \in A : Place(A, q, a) = k]
      <3>1. \A a \in A : Place(A, q, a) = Cardinality({b \in A : InsertRank(b) <= InsertRank(a)})
        <4> SUFFICES ASSUME NEW a \in A
                     PROVE  {b \in A : q[b] <= q[a]} = {b \in A : InsertRank(b) <= InsertRank(a)}
          BY DEF Place
        <4> HIDE DEF q
        <4> QED
          BY <2>1
      <3> DEFINE C(k) == CHOOSE a \in A : Place(A, q, a) = k
                 E(k) == CHOOSE a \in A : Cardinality({b \in A : InsertRank(b) <= InsertRank(a)}) = k
      <3>2. \A k : C(k) = E(k)
        <4> HIDE DEF q
        <4> QED
          BY <3>1
      <3>3. u = [k \in 1 .. Cardinality(A) |-> E(k)]
        BY DEF Ranked
      <3> HIDE DEF C, E
      <3>4. u = [k \in 1 .. Cardinality(A) |-> C(k)]
        BY <3>2, <3>3
      <3> QED
        BY <3>4 DEF C
    <2> HIDE DEF q, u
    <2>5. Lists(u, A, q)
      BY <2>3, <2>4, PlacesList
    <2>6. Lists(u, A, FirstToLast(v1))
      <3> HIDE DEF A
      <3>1. /\ u \in Seq(A) /\ DOMAIN u = 1 .. Len(u)
            /\ \A k \in 1 .. Len(u) : u[k] \in A
            /\ \A a \in A : \E k \in 1 .. Len(u) : u[k] = a
            /\ \A k, l \in 1 .. Len(u) : k < l => q[u[k]] < q[u[l]]
        BY <2>5, ListFacts
      <3> QED
        BY <2>1, <3>1 DEF Lists
    <2> QED
      BY <2>6 DEF u
  <1> QED
    BY <1>6, <1>7

-----------------------------------------------------------------------------
(***************************************************************************)
(* Two texts of an update are all their parents contain, and the parents   *)
(* are a pair.                                                             *)
(***************************************************************************)
LEMMA UpdatedTexts ==
  ASSUME MatchedDocuments, NEW u \in Updates
  PROVE  /\ u = <<u[1], u[2]>>
         /\ u[1] \in Nodes(v0) /\ ~v0Assigned(u[1]) /\ v0.kind[u[1]] = "text"
         /\ u[2] \in Nodes(v1) /\ ~v1Assigned(u[2]) /\ v1.kind[u[2]] = "text"
         /\ v0.parent[u[1]] \in Nodes(v0) /\ v0Assigned(v0.parent[u[1]])
         /\ Children(v0, v0.parent[u[1]]) = {u[1]}
         /\ v1.parent[u[2]] \in Nodes(v1) /\ v1.parent[u[2]] = v0match[v0.parent[u[1]]]
         /\ Children(v1, v1.parent[u[2]]) = {u[2]}
PROOF
  <1>1. PICK p \in Nodes(v0) :
          /\ v0Assigned(p)
          /\ u \in LoneText(v0, {c \in Nodes(v0) : ~v0Assigned(c)}, p)
                     \X LoneText(v1, {c \in Nodes(v1) : ~v1Assigned(c)}, v0match[p])
    BY DEF Updates
  <1>2. /\ u = <<u[1], u[2]>>
        /\ u[1] \in LoneText(v0, {c \in Nodes(v0) : ~v0Assigned(c)}, p)
        /\ u[2] \in LoneText(v1, {c \in Nodes(v1) : ~v1Assigned(c)}, v0match[p])
    BY <1>1
  <1>3. /\ u[1] \in Nodes(v0) /\ ~v0Assigned(u[1]) /\ Children(v0, p) = {u[1]}
        /\ u[2] \in Nodes(v1) /\ ~v1Assigned(u[2]) /\ Children(v1, v0match[p]) = {u[2]}
        /\ v0.kind[u[1]] = "text" /\ v1.kind[u[2]] = "text"
    BY <1>2 DEF LoneText
  <1>4. v0match[p] \in Nodes(v1) /\ IsDocument(v0) /\ IsDocument(v1)
    BY <1>1, MatchingFacts DEF MatchedDocuments, GivenDocuments
  <1>5. v0.parent[u[1]] = p
    BY <1>1, <1>3, <1>4, DocumentFacts
  <1>6. v1.parent[u[2]] = v0match[p]
    BY <1>3, <1>4, DocumentFacts
  <1> QED
    BY <1>1, <1>2, <1>3, <1>4, <1>5, <1>6

(* The delete script is written. *)
LEMMA ConstructDeleteScriptDelta ==
  ASSUME ScriptInv, DeltaInv, ConstructDeleteScript
  PROVE  DeltaInv'
PROOF
  <1>1. /\ pass = "deletes"
        /\ UNCHANGED <<matched, v0event, v1event, v0xid, v1xid>>
    BY DEF ConstructDeleteScript
  <1>2. OldEvents /\ MatchedDocuments
    BY <1>1 DEF ScriptInv, OldMarked
  <1>3. ~v0Scripted(Root(v0))
    BY <1>2 DEF OldEvents, v0Scripted, Moves
  <1> DEFINE order == Ranked(OldScripted, DeleteRank)
             written == [k \in DOMAIN order |-> DeleteOperation(order[k])]
  <1>4. pass' = "inserts" /\ \E u : delta' = [delta EXCEPT !.deletes = written, !.updates = u]
    BY <1>3 DEF ConstructDeleteScript, OldScripted
  <1>5. {"deletes", "inserts", "attributes", "renameRoot", "updates"} \subseteq DOMAIN delta
    BY DEF ScriptInv, DeltaParts, NoDelta
  <1>6. Lists(order, OldScripted, LastToFirst(v0))
    BY <1>2, ScriptOrders DEF MatchedDocuments
  <1>7. /\ delta'.deletes = written /\ delta'.attributes = delta.attributes
        /\ delta'.renameRoot = delta.renameRoot
    <2> HIDE DEF written
    <2> QED
      BY <1>4, <1>5
  <1>8. DeletesWritten'
    <2>1. PICK o : /\ Lists(o, OldScripted, LastToFirst(v0))
                   /\ delta'.deletes = [k \in DOMAIN o |-> DeleteOperation(o[k])]
      <3> HIDE DEF order
      <3> QED
        BY <1>6, <1>7
    <2>2. Lists(o, OldScripted', LastToFirst(v0)')
      BY <1>1, <2>1, CallsStay
    <2>3. delta'.deletes = [k \in DOMAIN o |-> DeleteOperation(o[k])']
      BY <1>1, <2>1, CallsStay
    <2> QED
      BY <2>2, <2>3 DEF DeletesWritten
  <1>9. AttributesWritten' /\ RootWritten'
    <2>1. AttributesMade
      BY <1>1 DEF AttributesMade
    <2> HIDE DEF written
    <2> QED
      BY <1>1, <1>4, <1>7, <2>1, CallsStay DEF DeltaInv, AttributesWritten, RootWritten
  <1>10. InsertsWritten' /\ ValuesWritten'
    BY <1>4 DEF InsertsWritten, ValuesWritten, InsertsMade
  <1>11. KeptInOrder' /\ v1xid' \in [Nodes(v1)' -> Nat]
    <2>1. MovesMarked
      BY <1>1 DEF MovesMarked
    <2> QED
      BY <1>1, <2>1, WritingKeepsOrder
  <1> QED
    BY <1>8, <1>9, <1>10, <1>11 DEF DeltaInv

(* Every u element gets the value of the new text that replaces its own. *)
LEMMA ValuesCompleted ==
  ASSUME ScriptInv, pass = "inserts"
  PROVE  {[p[1] EXCEPT !.value = v1.label[p[2]]] :
            p \in {q \in delta.updates \X NewTexts : q[1] \in UpdateOf(q[2])}} = NewValues
PROOF
  <1> DEFINE Element(i) == [xid |-> i, par |-> v0.parent[i], value |-> v0.label[i]]
             Changed(p) == [p[1] EXCEPT !.value = v1.label[p[2]]]
             P == {q \in delta.updates \X NewTexts : q[1] \in UpdateOf(q[2])}
             Renewed(u) == [xid |-> u[1], par |-> v0.parent[u[1]], value |-> v1.label[u[2]]]
  <1>1. /\ OldMarked /\ NewMarked /\ UpdatesMarked
    BY DEF OldMarked, NewMarked, UpdatesMarked
  <1>2. MatchedDocuments /\ UpdatesAgree /\ XidsGiven /\ UpdatesWritten
    BY DEF ScriptInv
  <1>3. delta.updates = {Element(i) : i \in {k \in Nodes(v0) : v0event[k] = "updateOld"}}
    BY <1>2 DEF UpdatesWritten
  <1>4. \A u \in Updates : /\ v0event[u[1]] = "updateOld" /\ u[1] \in Nodes(v0)
                           /\ u[2] \in NewTexts
    BY <1>1, <1>2, UpdatesAreOneToOne DEF UpdatesAgree, NewTexts
  <1>5. ASSUME NEW u \in Updates
        PROVE  v1xid[v1.parent[u[2]]] = v0.parent[u[1]]
    <2>1. v0.parent[u[1]] \in Nodes(v0) /\ v0Assigned(v0.parent[u[1]])
          /\ v1.parent[u[2]] = v0match[v0.parent[u[1]]]
      BY <1>2, UpdatedTexts
    <2>2. /\ v1.parent[u[2]] \in Nodes(v1) /\ v1Assigned(v1.parent[u[2]])
          /\ v1match[v1.parent[u[2]]] = v0.parent[u[1]]
      BY <1>2, <2>1, MatchingFacts
    <2> QED
      BY <1>1, <1>2, <2>2 DEF XidsGiven
  <1>6. ASSUME NEW u \in Updates
        PROVE  \E p \in P : Changed(p) = Renewed(u)
    <2> DEFINE p == <<Element(u[1]), u[2]>>
    <2>1. Element(u[1]) \in delta.updates /\ u[2] \in NewTexts
      BY <1>3, <1>4
    <2>2. Element(u[1]) \in UpdateOf(u[2])
      BY <1>5, <2>1 DEF UpdateOf
    <2>3. p \in P
      BY <2>1, <2>2
    <2>4. Changed(p) = Renewed(u)
      OBVIOUS
    <2> QED
      BY <2>3, <2>4
  <1>7. ASSUME NEW p \in P
        PROVE  \E u \in Updates : Changed(p) = Renewed(u)
    <2>1. p[1] \in delta.updates /\ p[2] \in NewTexts /\ p[1] \in UpdateOf(p[2])
      OBVIOUS
    <2>2. PICK i \in Nodes(v0) : v0event[i] = "updateOld" /\ p[1] = Element(i)
      BY <1>3, <2>1
    <2>3. PICK w \in Updates : w[1] = i
      BY <1>1, <1>2, <2>2 DEF UpdatesAgree
    <2>4. PICK u \in Updates : u[2] = p[2]
      BY <1>1, <1>2, <2>1 DEF UpdatesAgree, NewTexts
    <2>5. v0.parent[u[1]] = v0.parent[w[1]]
      <3>1. p[1].par = v1xid[v1.parent[p[2]]]
        BY <2>1 DEF UpdateOf
      <3> QED
        BY <1>5, <2>2, <2>3, <2>4, <3>1
    <2>6. u[1] = w[1]
      <3>1. Children(v0, v0.parent[u[1]]) = {u[1]}
        BY <1>2, UpdatedTexts
      <3>2. Children(v0, v0.parent[w[1]]) = {w[1]}
        BY <1>2, UpdatedTexts
      <3> QED
        BY <2>5, <3>1, <3>2
    <2>7. Changed(p) = Renewed(u)
      BY <2>2, <2>3, <2>4, <2>6
    <2> QED
      BY <2>7
  <1>8. NewValues = {Renewed(u) : u \in Updates}
    BY DEF NewValues
  <1> HIDE DEF Changed, Renewed, P
  <1>9. {Changed(p) : p \in P} = {Renewed(u) : u \in Updates}
    BY <1>6, <1>7
  <1> QED
    BY <1>8, <1>9 DEF Changed, P

(* The insert script is written, and the updates are completed. *)
LEMMA ConstructInsertScriptDelta ==
  ASSUME ScriptInv, DeltaInv, ConstructInsertScript
  PROVE  DeltaInv'
PROOF
  <1>1. /\ pass = "inserts"
        /\ UNCHANGED <<matched, v0event, v1event, v0xid, v1xid>>
    BY DEF ConstructInsertScript
  <1>2. NewEvents /\ MatchedDocuments /\ UpdatesMarked
    BY <1>1 DEF ScriptInv, NewMarked, UpdatesMarked
  <1>3. ~v1Scripted(Root(v1))
    BY <1>2 DEF NewEvents, v1Scripted, Moves
  <1>4. /\ \A j \in NewTexts : UpdateOf(j) # {}
        /\ NewTexts # {} => delta.updates # {}
    BY <1>1, NewTextsFindTheirUpdate DEF UpdateOf
  <1>5. /\ Cardinality({i \in Nodes(v0) : v0event[i] \in Moves})
             = Cardinality({j \in Nodes(v1) : v1event[j] \in Moves})
        /\ Cardinality(delta.updates) = Cardinality(NewTexts)
    BY <1>1, <1>2, MovesHaveBothEnds, UpdatesHaveBothEnds
  <1> DEFINE order == Ranked(NewScripted, InsertRank)
             written == [k \in DOMAIN order |-> InsertOperation(order[k])]
             values == {[p[1] EXCEPT !.value = v1.label[p[2]]] :
                          p \in {q \in delta.updates \X NewTexts : q[1] \in UpdateOf(q[2])}}
  <1>6. pass' = "renameRoot" /\ delta' = [delta EXCEPT !.inserts = written, !.updates = values]
    BY <1>3, <1>4, <1>5 DEF ConstructInsertScript, NewScripted
  <1>7. {"deletes", "inserts", "attributes", "renameRoot", "updates"} \subseteq DOMAIN delta
    BY DEF ScriptInv, DeltaParts, NoDelta
  <1>8. Lists(order, NewScripted, FirstToLast(v1))
    BY <1>2, ScriptOrders DEF MatchedDocuments
  <1>9. values = NewValues
    BY <1>1, ValuesCompleted
  <1>10. /\ delta'.inserts = written /\ delta'.attributes = delta.attributes
         /\ delta'.renameRoot = delta.renameRoot /\ delta'.deletes = delta.deletes
         /\ delta'.updates = NewValues
    <2> HIDE DEF written, values
    <2> QED
      BY <1>6, <1>7, <1>9
  <1> HIDE DEF values
  <1>11. InsertsWritten'
    <2>1. PICK o : /\ Lists(o, NewScripted, FirstToLast(v1))
                   /\ delta'.inserts = [k \in DOMAIN o |-> InsertOperation(o[k])]
      <3> HIDE DEF order
      <3> QED
        BY <1>8, <1>10
    <2>2. Lists(o, NewScripted', FirstToLast(v1)')
      BY <1>1, <2>1, CallsStay
    <2>3. delta'.inserts = [k \in DOMAIN o |-> InsertOperation(o[k])']
      BY <1>1, <2>1, CallsStay
    <2> QED
      BY <2>2, <2>3 DEF InsertsWritten
  <1> HIDE DEF written
  <1>12. AttributesWritten' /\ RootWritten' /\ ValuesWritten'
    <2>1. AttributesMade
      BY <1>1 DEF AttributesMade
    <2> QED
      BY <1>1, <1>6, <1>10, <2>1, CallsStay DEF DeltaInv, AttributesWritten, RootWritten,
         ValuesWritten
  <1>13. DeletesWritten'
    <2>1. DeletesMade
      BY <1>1 DEF DeletesMade
    <2>2. PICK o : /\ Lists(o, OldScripted, LastToFirst(v0))
                   /\ delta.deletes = [k \in DOMAIN o |-> DeleteOperation(o[k])]
      BY <2>1 DEF DeltaInv, DeletesWritten
    <2>3. Lists(o, OldScripted', LastToFirst(v0)')
      BY <1>1, <2>2, CallsStay
    <2>4. delta'.deletes = [k \in DOMAIN o |-> DeleteOperation(o[k])']
      BY <1>1, <1>10, <2>2, CallsStay
    <2> QED
      BY <2>3, <2>4 DEF DeletesWritten
  <1>14. KeptInOrder' /\ v1xid' \in [Nodes(v1)' -> Nat]
    <2>1. MovesMarked
      BY <1>1 DEF MovesMarked
    <2> QED
      BY <1>1, <2>1, WritingKeepsOrder
  <1> QED
    BY <1>11, <1>12, <1>13, <1>14 DEF DeltaInv

(* What is written stays as it is. *)
LEMMA WrittenStays ==
  ASSUME DeltaInv, UNCHANGED <<matched, v0event, v1event, v0xid, v1xid>>, MovesMarked,
         delta'.deletes = delta.deletes, delta'.inserts = delta.inserts,
         delta'.attributes = delta.attributes, delta'.updates = delta.updates,
         DeletesMade' => DeletesMade, InsertsMade' => InsertsMade,
         AttributesMade' => AttributesMade
  PROVE  /\ DeletesWritten' /\ InsertsWritten' /\ AttributesWritten' /\ ValuesWritten'
         /\ KeptInOrder' /\ v1xid' \in [Nodes(v1)' -> Nat]
PROOF
  <1>1. DeletesWritten'
    <2> SUFFICES ASSUME DeletesMade'
                 PROVE  \E order : /\ Lists(order, OldScripted', LastToFirst(v0)')
                                   /\ delta'.deletes = [k \in DOMAIN order |-> DeleteOperation(order[k])']
      BY DEF DeletesWritten
    <2>1. PICK o : /\ Lists(o, OldScripted, LastToFirst(v0))
                   /\ delta.deletes = [k \in DOMAIN o |-> DeleteOperation(o[k])]
      BY DEF DeltaInv, DeletesWritten
    <2>2. Lists(o, OldScripted', LastToFirst(v0)')
      BY <2>1, CallsStay
    <2>3. delta'.deletes = [k \in DOMAIN o |-> DeleteOperation(o[k])']
      BY <2>1, CallsStay
    <2> QED
      BY <2>2, <2>3
  <1>2. InsertsWritten'
    <2> SUFFICES ASSUME InsertsMade'
                 PROVE  \E order : /\ Lists(order, NewScripted', FirstToLast(v1)')
                                   /\ delta'.inserts = [k \in DOMAIN order |-> InsertOperation(order[k])']
      BY DEF InsertsWritten
    <2>1. PICK o : /\ Lists(o, NewScripted, FirstToLast(v1))
                   /\ delta.inserts = [k \in DOMAIN o |-> InsertOperation(o[k])]
      BY DEF DeltaInv, InsertsWritten
    <2>2. Lists(o, NewScripted', FirstToLast(v1)')
      BY <2>1, CallsStay
    <2>3. delta'.inserts = [k \in DOMAIN o |-> InsertOperation(o[k])']
      BY <2>1, CallsStay
    <2> QED
      BY <2>2, <2>3
  <1>3. AttributesWritten' /\ ValuesWritten'
    BY CallsStay DEF DeltaInv, AttributesWritten, ValuesWritten
  <1> QED
    BY <1>1, <1>2, <1>3, WritingKeepsOrder

(* The root's new name is the last thing to be written. *)
LEMMA AddRenameRootDelta ==
  ASSUME ScriptInv, DeltaInv, AddRenameRoot
  PROVE  DeltaInv'
PROOF
  <1>1. /\ pass = "renameRoot" /\ pass' = "written"
        /\ UNCHANGED <<matched, v0event, v1event, v0xid, v1xid>>
        /\ delta' = IF v0.label[Root(v0)] = v1.label[Root(v1)] THEN delta
                    ELSE [delta EXCEPT !.renameRoot =
                            [from |-> v0.label[Root(v0)], to |-> v1.label[Root(v1)]]]
    BY DEF AddRenameRoot
  <1>2. {"deletes", "inserts", "attributes", "renameRoot", "updates"} \subseteq DOMAIN delta
    BY DEF ScriptInv, DeltaParts, NoDelta
  <1>3. /\ delta'.inserts = delta.inserts /\ delta'.attributes = delta.attributes
        /\ delta'.updates = delta.updates /\ delta'.deletes = delta.deletes
    BY <1>1, <1>2
  <1>4. RootWritten'
    <2>1. delta.renameRoot = [from |-> None, to |-> None]
      BY <1>1 DEF DeltaInv, RootWritten
    <2>2. delta'.renameRoot = RootChange
      BY <1>1, <1>2, <2>1 DEF RootChange
    <2> QED
      BY <1>1, <2>2, CallsStay DEF RootWritten
  <1>5. /\ DeletesMade' => DeletesMade
        /\ InsertsMade' => InsertsMade
        /\ AttributesMade' => AttributesMade
        /\ MovesMarked
    BY <1>1 DEF DeletesMade, InsertsMade, AttributesMade, MovesMarked
  <1> QED
    BY <1>1, <1>3, <1>4, <1>5, WrittenStays DEF DeltaInv

(* Applying a delta does not change it. *)
LEMMA ApplyingKeepsDelta ==
  ASSUME DeltaInv, UNCHANGED scriptVars
  PROVE  DeltaInv'
PROOF
  <1>1. /\ UNCHANGED <<matched, v0event, v1event, v0xid, v1xid>>
        /\ pass' = pass /\ delta' = delta
    BY DEF scriptVars, matched
  <1>2. RootWritten'
    BY <1>1, CallsStay DEF DeltaInv, RootWritten
  <1>3. /\ DeletesMade' <=> DeletesMade
        /\ InsertsMade' <=> InsertsMade
        /\ AttributesMade' <=> AttributesMade
        /\ MovesMarked' <=> MovesMarked
    BY <1>1 DEF DeletesMade, InsertsMade, AttributesMade, MovesMarked
  <1>4. CASE MovesMarked
    BY <1>1, <1>2, <1>3, <1>4, WrittenStays DEF DeltaInv
  <1>5. CASE ~MovesMarked
    <2>1. ~DeletesMade /\ ~InsertsMade /\ ~AttributesMade
      BY <1>5 DEF DeletesMade, InsertsMade, AttributesMade, MovesMarked
    <2>2. DeletesWritten' /\ InsertsWritten' /\ AttributesWritten' /\ ValuesWritten' /\ KeptInOrder'
      BY <1>3, <1>5, <2>1 DEF DeletesWritten, InsertsWritten, AttributesWritten, ValuesWritten,
         KeptInOrder
    <2>3. v1xid' \in [Nodes(v1)' -> Nat]
      BY <1>1 DEF DeltaInv, matched
    <2> QED
      BY <1>2, <2>2, <2>3 DEF DeltaInv
  <1> QED
    BY <1>4, <1>5

(***************************************************************************)
(* DeltaInv holds throughout: each pass writes what the marks call for and *)
(* leaves what is written alone.                                           *)
(***************************************************************************)
LEMMA DeltaStep ==
  ASSUME ScriptInv, DeltaInv, ScriptInv', ScriptNext \/ UNCHANGED scriptVars
  PROVE  DeltaInv'
PROOF
  <1>1. CASE ScriptNext
    BY <1>1, MarkOldTreeDelta, MarkNewTreeDelta, ComputeWeakMoveDelta, DetectUpdateDelta,
       AddAttributeOperationsDelta, ConstructDeleteScriptDelta, ConstructInsertScriptDelta,
       AddRenameRootDelta DEF ScriptNext
  <1>2. CASE UNCHANGED scriptVars
    BY <1>2, ApplyingKeepsDelta
  <1> QED
    BY <1>1, <1>2

-----------------------------------------------------------------------------
(* The old text an updated one replaces. *)
OldText(j) == CHOOSE i \in Nodes(v0) : <<i, j>> \in Updates

(* The XIDs the nodes of v1 have when the engine is through. *)
FinalXids == [j \in Nodes(v1) |-> IF v1event[j] = "updateNew" THEN OldText(j) ELSE v1xid[j]]

(* All marks are set and the delta is the one they call for. *)
DeltaIsWritten == ScriptInv /\ DeltaInv /\ pass = "written"

(***************************************************************************)
(* What the marks are in the end.                                          *)
(***************************************************************************)
LEMMA FinalMarks ==
  ASSUME DeltaIsWritten
  PROVE  /\ MatchedDocuments /\ IsDocument(v0) /\ IsDocument(v1)
         /\ \A i \in Nodes(v0) : v0xid[i] = i
         /\ \A i \in Nodes(v0) :
              /\ v0event[i] \in {"nop", "deleted", "strongmove", "weakmove", "updateOld"}
              /\ v0event[i] \in {"deleted", "updateOld"} <=> ~v0Assigned(i)
              /\ v0event[i] = "strongmove" <=> v0Assigned(i) /\ v0StrongMove(i)
              /\ v0event[i] = "updateOld" <=> \E u \in Updates : u[1] = i
              /\ v0Assigned(i) => (v0event[i] = "weakmove" <=> v1event[v0match[i]] = "weakmove")
         /\ v0event[Root(v0)] = "nop" /\ v1event[Root(v1)] = "nop"
         /\ \A j \in Nodes(v1) :
              /\ v1event[j] \in {"nop", "inserted", "strongmove", "weakmove", "updateNew"}
              /\ v1event[j] \in {"inserted", "updateNew"} <=> ~v1Assigned(j)
              /\ v1event[j] = "strongmove" <=> v1Assigned(j) /\ v1StrongMove(j)
              /\ v1event[j] = "updateNew" <=> \E u \in Updates : u[2] = j
              /\ v1xid[j] = IF v1Assigned(j) THEN v1match[j] ELSE FreshXid(j)
PROOF
  <1>1. OldMarked /\ NewMarked /\ MovesMarked /\ UpdatesMarked
    BY DEF DeltaIsWritten, OldMarked, NewMarked, MovesMarked, UpdatesMarked
  <1>2. /\ MatchedDocuments /\ OldEvents /\ NewEvents /\ WeakMovesAgree /\ UpdatesAgree /\ XidsGiven
    BY <1>1 DEF DeltaIsWritten, ScriptInv
  <1>3. IsDocument(v0) /\ IsDocument(v1)
    BY <1>2 DEF MatchedDocuments, GivenDocuments
  <1>4. \A i \in Nodes(v0) : v0xid[i] = i
    BY <1>2 DEF XidsGiven, DefaultXids
  <1>5. ASSUME NEW i \in Nodes(v0)
        PROVE  /\ v0event[i] \in {"nop", "deleted", "strongmove", "weakmove", "updateOld"}
               /\ v0event[i] \in {"deleted", "updateOld"} <=> ~v0Assigned(i)
               /\ v0event[i] = "strongmove" <=> v0Assigned(i) /\ v0StrongMove(i)
               /\ v0event[i] = "updateOld" <=> \E u \in Updates : u[1] = i
               /\ v0Assigned(i) => (v0event[i] = "weakmove" <=> v1event[v0match[i]] = "weakmove")
    BY <1>1, <1>2 DEF OldEvents, WeakMovesAgree, UpdatesAgree
  <1>6. ASSUME NEW j \in Nodes(v1)
        PROVE  /\ v1event[j] \in {"nop", "inserted", "strongmove", "weakmove", "updateNew"}
               /\ v1event[j] \in {"inserted", "updateNew"} <=> ~v1Assigned(j)
               /\ v1event[j] = "strongmove" <=> v1Assigned(j) /\ v1StrongMove(j)
               /\ v1event[j] = "updateNew" <=> \E u \in Updates : u[2] = j
               /\ v1xid[j] = IF v1Assigned(j) THEN v1match[j] ELSE FreshXid(j)
    BY <1>1, <1>2 DEF NewEvents, UpdatesAgree, XidsGiven
  <1>7. v0event[Root(v0)] = "nop" /\ v1event[Root(v1)] = "nop"
    BY <1>2 DEF OldEvents, NewEvents
  <1> QED
    BY <1>2, <1>3, <1>4, <1>5, <1>6, <1>7

(***************************************************************************)
(* A node of v1 has the XID of its match, of the text it updates, or one   *)
(* no node of v0 has; no two have the same.                                *)
(***************************************************************************)
IsNamedAs(j, x) ==
  \/ v1Assigned(j) /\ x = v1match[j]
  \/ v1event[j] = "updateNew" /\ <<x, j>> \in Updates
  \/ v1event[j] = "inserted" /\ x = FreshXid(j)

(* Every node has the final XID its mark calls for. *)
LEMMA FinalNames ==
  ASSUME DeltaIsWritten
  PROVE  \A j \in Nodes(v1) : IsNamedAs(j, FinalXids[j])
PROOF
  <1> SUFFICES ASSUME NEW j \in Nodes(v1)
               PROVE  IsNamedAs(j, FinalXids[j])
    OBVIOUS
  <1>1. /\ v1event[j] \in {"nop", "inserted", "strongmove", "weakmove", "updateNew"}
        /\ v1event[j] \in {"inserted", "updateNew"} <=> ~v1Assigned(j)
        /\ v1event[j] = "updateNew" <=> \E u \in Updates : u[2] = j
        /\ v1xid[j] = IF v1Assigned(j) THEN v1match[j] ELSE FreshXid(j)
        /\ MatchedDocuments
    BY FinalMarks
  <1>2. CASE v1event[j] = "updateNew"
    <2>1. PICK u \in Updates : u[2] = j
      BY <1>1, <1>2
    <2>2. u = <<u[1], u[2]>> /\ u[1] \in Nodes(v0)
      BY <1>1, UpdatedTexts
    <2>3. \E i \in Nodes(v0) : <<i, j>> \in Updates
      BY <2>1, <2>2
    <2>4. <<OldText(j), j>> \in Updates
      BY <2>3 DEF OldText
    <2> QED
      BY <1>2, <2>4 DEF FinalXids, IsNamedAs
  <1>3. CASE v1event[j] # "updateNew"
    BY <1>1, <1>3 DEF FinalXids, IsNamedAs
  <1> QED
    BY <1>2, <1>3

(* What an XID tells about a node of v1. *)
LEMMA NameFacts ==
  ASSUME DeltaIsWritten, NEW j \in Nodes(v1), NEW x, x = FinalXids[j]
  PROVE  /\ x \in Nat
         /\ x \in Nodes(v0) <=> v1event[j] # "inserted"
         /\ v1Assigned(j) <=> (x \in Nodes(v0) /\ v0Assigned(x))
         /\ v1Assigned(j) => x = v1match[j] /\ v0match[x] = j
         /\ v1event[j] = "updateNew" <=> (x \in Nodes(v0) /\ v0event[x] = "updateOld")
         /\ v1event[j] = "updateNew" => <<x, j>> \in Updates
         /\ v1event[j] = "inserted" => x = FreshXid(j) /\ x > v0.n
PROOF
  <1>1. IsNamedAs(j, x)
    BY FinalNames
  <1>2. /\ MatchedDocuments /\ IsDocument(v0) /\ IsDocument(v1)
        /\ v1event[j] \in {"nop", "inserted", "strongmove", "weakmove", "updateNew"}
        /\ v1event[j] \in {"inserted", "updateNew"} <=> ~v1Assigned(j)
        /\ \A i \in Nodes(v0) :
             /\ v0event[i] \in {"deleted", "updateOld"} <=> ~v0Assigned(i)
             /\ v0event[i] = "updateOld" <=> \E u \in Updates : u[1] = i
    BY FinalMarks
  <1>3. v0.n \in Nat /\ Nodes(v0) = 1 .. v0.n
    BY <1>2, DocumentFacts
  <1>4. CASE v1Assigned(j)
    <2>1. x = v1match[j] /\ v1event[j] \notin {"inserted", "updateNew"}
      BY <1>1, <1>2, <1>4 DEF IsNamedAs
    <2>2. v1match[j] \in Nodes(v0) /\ v0match[v1match[j]] = j /\ v0Assigned(v1match[j])
      BY <1>2, <1>4, MatchingFacts
    <2> QED
      BY <1>2, <1>3, <1>4, <2>1, <2>2
  <1>5. CASE v1event[j] = "updateNew"
    <2>1. <<x, j>> \in Updates /\ ~v1Assigned(j)
      BY <1>1, <1>2, <1>5 DEF IsNamedAs
    <2>2. x \in Nodes(v0) /\ ~v0Assigned(x)
      BY <1>2, <2>1, UpdatedTexts
    <2>3. v0event[x] = "updateOld"
      BY <1>2, <2>1, <2>2
    <2> QED
      BY <1>3, <1>5, <2>1, <2>2, <2>3
  <1>6. CASE v1event[j] = "inserted"
    <2>1. x = FreshXid(j) /\ ~v1Assigned(j)
      BY <1>1, <1>2, <1>6 DEF IsNamedAs
    <2>2. FreshXid(j) \in Nat /\ v0.n < FreshXid(j)
      BY <1>2, <2>1, FreshXidsGrow DEF Inserted
    <2>3. x \notin Nodes(v0)
      BY <1>3, <2>1, <2>2
    <2> QED
      BY <1>3, <1>6, <2>1, <2>2, <2>3
  <1> QED
    BY <1>2, <1>4, <1>5, <1>6

(* No two nodes have one XID. *)
LEMMA NamesDiffer ==
  ASSUME DeltaIsWritten, NEW j \in Nodes(v1), NEW k \in Nodes(v1), FinalXids[j] = FinalXids[k]
  PROVE  j = k
PROOF
  <1> DEFINE x == FinalXids[j]
  <1>1. /\ x \in Nodes(v0) <=> v1event[j] # "inserted"
        /\ v1Assigned(j) <=> (x \in Nodes(v0) /\ v0Assigned(x))
        /\ v1Assigned(j) => x = v1match[j] /\ v0match[x] = j
        /\ v1event[j] = "updateNew" <=> (x \in Nodes(v0) /\ v0event[x] = "updateOld")
        /\ v1event[j] = "updateNew" => <<x, j>> \in Updates
        /\ v1event[j] = "inserted" => x = FreshXid(j) /\ x > v0.n
    BY NameFacts
  <1>2. /\ x \in Nodes(v0) <=> v1event[k] # "inserted"
        /\ v1Assigned(k) <=> (x \in Nodes(v0) /\ v0Assigned(x))
        /\ v1Assigned(k) => x = v1match[k] /\ v0match[x] = k
        /\ v1event[k] = "updateNew" <=> (x \in Nodes(v0) /\ v0event[x] = "updateOld")
        /\ v1event[k] = "updateNew" => <<x, k>> \in Updates
        /\ v1event[k] = "inserted" => x = FreshXid(k) /\ x > v0.n
    BY NameFacts
  <1>3. /\ MatchedDocuments
        /\ v1event[j] \in {"inserted", "updateNew"} <=> ~v1Assigned(j)
        /\ v1event[k] \in {"inserted", "updateNew"} <=> ~v1Assigned(k)
    BY FinalMarks
  <1> HIDE DEF x
  <1>4. CASE v1Assigned(j)
    BY <1>1, <1>2, <1>4
  <1>5. CASE v1event[j] = "updateNew"
    <2>1. <<x, j>> \in Updates /\ <<x, k>> \in Updates
      BY <1>1, <1>2, <1>5
    <2>2. <<x, j>>[2] = <<x, k>>[2]
      BY <1>3, <2>1, UpdatesAreOneToOne
    <2> QED
      BY <2>2
  <1>6. CASE v1event[j] = "inserted"
    <2>1. v1event[k] = "inserted" /\ FreshXid(j) = FreshXid(k)
      BY <1>1, <1>2, <1>6
    <2>2. j \in Inserted /\ k \in Inserted
      BY <1>3, <1>6, <2>1 DEF Inserted
    <2>3. FreshXid(j) \in Nat /\ FreshXid(k) \in Nat
          /\ (j < k => FreshXid(j) < FreshXid(k)) /\ (k < j => FreshXid(k) < FreshXid(j))
      BY <1>3, <2>2, FreshXidsGrow
    <2>4. j \in Int /\ k \in Int
      BY DEF Nodes
    <2> QED
      BY <2>1, <2>3, <2>4
  <1> QED
    BY <1>3, <1>4, <1>5, <1>6

(* Every old node that is not deleted is there in the end. *)
LEMMA OldNodesNamed ==
  ASSUME DeltaIsWritten, NEW i \in Nodes(v0), v0event[i] # "deleted"
  PROVE  \E j \in Nodes(v1) : FinalXids[j] = i
PROOF
  <1>1. /\ MatchedDocuments
        /\ v0event[i] \in {"nop", "deleted", "strongmove", "weakmove", "updateOld"}
        /\ v0event[i] \in {"deleted", "updateOld"} <=> ~v0Assigned(i)
        /\ v0event[i] = "updateOld" <=> \E u \in Updates : u[1] = i
    BY FinalMarks
  <1>2. CASE v0Assigned(i)
    <2>1. v0match[i] \in Nodes(v1) /\ v1match[v0match[i]] = i /\ v1Assigned(v0match[i])
      BY <1>1, <1>2, MatchingFacts
    <2> DEFINE k == v0match[i]
    <2> HIDE DEF k
    <2>2. k \in Nodes(v1) /\ v1Assigned(k) /\ v1match[k] = i
      BY <2>1 DEF k
    <2>3. FinalXids[k] = v1match[k]
      BY <2>2, NameFacts
    <2> QED
      BY <2>2, <2>3
  <1>3. CASE v0event[i] = "updateOld"
    <2>1. PICK u \in Updates : u[1] = i
      BY <1>1, <1>3
    <2> DEFINE j == u[2]
    <2>2. j \in Nodes(v1)
      BY <1>1, UpdatedTexts
    <2>3. v1event[j] = "updateNew"
      BY <2>2, FinalMarks
    <2>4. <<FinalXids[j], j>> \in Updates
      BY <2>2, <2>3, NameFacts
    <2>5. u = <<u[1], u[2]>>
      BY <1>1, UpdatedTexts
    <2>6. <<FinalXids[j], j>>[1] = u[1]
      BY <1>1, <2>4, <2>5, UpdatesAreOneToOne
    <2> QED
      BY <2>1, <2>2, <2>6
  <1> QED
    BY <1>1, <1>2, <1>3

(* A deleted one is not. *)
LEMMA DeletedNotNamed ==
  ASSUME DeltaIsWritten, NEW i \in Nodes(v0), v0event[i] = "deleted", NEW j \in Nodes(v1)
  PROVE  FinalXids[j] # i
PROOF
  <1> SUFFICES ASSUME FinalXids[j] = i
               PROVE  FALSE
    OBVIOUS
  <1>1. /\ v1Assigned(j) <=> (i \in Nodes(v0) /\ v0Assigned(i))
        /\ v1event[j] = "updateNew" <=> (i \in Nodes(v0) /\ v0event[i] = "updateOld")
        /\ i \in Nodes(v0) <=> v1event[j] # "inserted"
    BY NameFacts
  <1>2. /\ v0event[i] \in {"deleted", "updateOld"} <=> ~v0Assigned(i)
        /\ v1event[j] \in {"inserted", "updateNew"} <=> ~v1Assigned(j)
    BY FinalMarks
  <1> QED
    BY <1>1, <1>2

-----------------------------------------------------------------------------
(***************************************************************************)
(* A node with one XID in both documents is scripted in both or in none,   *)
(* and in the latter case is below one parent.                             *)
(***************************************************************************)
LEMMA StaysBelow ==
  ASSUME DeltaIsWritten, NEW j \in Nodes(v1), NEW i \in Nodes(v0), FinalXids[j] = i
  PROVE  /\ i = Root(v0) <=> j = Root(v1)
         /\ i \in OldScripted <=> j \in NewScripted
         /\ i \in OldScripted => v0event[i] \in Moves /\ v1event[j] \in Moves
         /\ i # Root(v0) /\ i \notin OldScripted =>
              /\ v0.parent[i] \in Nodes(v0) /\ v1.parent[j] \in Nodes(v1)
              /\ FinalXids[v1.parent[j]] = v0.parent[i]
PROOF
  <1>1. /\ v1Assigned(j) <=> (i \in Nodes(v0) /\ v0Assigned(i))
        /\ v1Assigned(j) => i = v1match[j] /\ v0match[i] = j
        /\ v1event[j] = "updateNew" <=> (i \in Nodes(v0) /\ v0event[i] = "updateOld")
        /\ v1event[j] = "updateNew" => <<i, j>> \in Updates
        /\ i \in Nodes(v0) <=> v1event[j] # "inserted"
    BY NameFacts
  <1>2. /\ MatchedDocuments /\ IsDocument(v0) /\ IsDocument(v1)
        /\ v0event[i] \in {"nop", "deleted", "strongmove", "weakmove", "updateOld"}
        /\ v0event[i] \in {"deleted", "updateOld"} <=> ~v0Assigned(i)
        /\ v0event[i] = "strongmove" <=> v0Assigned(i) /\ v0StrongMove(i)
        /\ v0Assigned(i) => (v0event[i] = "weakmove" <=> v1event[v0match[i]] = "weakmove")
        /\ v1event[j] \in {"nop", "inserted", "strongmove", "weakmove", "updateNew"}
        /\ v1event[j] \in {"inserted", "updateNew"} <=> ~v1Assigned(j)
        /\ v1event[j] = "strongmove" <=> v1Assigned(j) /\ v1StrongMove(j)
    BY FinalMarks
  <1>3. /\ v0match[Root(v0)] = Root(v1) /\ v1match[Root(v1)] = Root(v0)
        /\ v0Assigned(Root(v0)) /\ v1Assigned(Root(v1))
    BY <1>2, MatchingFacts
  <1>4. /\ i \in OldScripted <=> v0Scripted(i)
        /\ j \in NewScripted <=> v1Scripted(j)
    BY DEF OldScripted, NewScripted
  <1>5. CASE v1Assigned(j)
    <2>1. v0Assigned(i) /\ i = v1match[j] /\ v0match[i] = j
      BY <1>1, <1>5
    <2>2. i = Root(v0) <=> j = Root(v1)
      BY <1>3, <2>1
    <2>3. v0StrongMove(i) <=> v1StrongMove(j)
      BY <1>2, <2>1, StrongMovesAgree
    <2>4. v0event[i] \in Moves <=> v1event[j] \in Moves
      BY <1>2, <1>5, <2>1, <2>3 DEF Moves
    <2>5. /\ v0Scripted(i) <=> v0event[i] \in Moves
          /\ v1Scripted(j) <=> v1event[j] \in Moves
      BY <1>2, <1>5, <2>1 DEF v0Scripted, v1Scripted
    <2>6. ASSUME i # Root(v0), i \notin OldScripted
          PROVE  /\ v0.parent[i] \in Nodes(v0) /\ v1.parent[j] \in Nodes(v1)
                 /\ FinalXids[v1.parent[j]] = v0.parent[i]
      <3> DEFINE p == v0.parent[i]
                 q == v1.parent[j]
      <3>1. p \in Nodes(v0) /\ q \in Nodes(v1)
        BY <1>2, <2>2, <2>6, DocumentFacts
      <3>2. p # 0
        BY <3>1 DEF Nodes
      <3>3. ~v0StrongMove(i)
        BY <1>2, <1>4, <2>1, <2>5, <2>6 DEF Moves
      <3>4. v0Assigned(p) /\ v0match[p] = q
        BY <2>1, <3>2, <3>3 DEF v0StrongMove
      <3>5. v1Assigned(q) /\ v1match[q] = p
        BY <1>2, <3>1, <3>4, MatchingFacts
      <3> HIDE DEF p, q
      <3>6. FinalXids[q] = v1match[q]
        BY <3>1, <3>5, NameFacts
      <3> QED
        BY <3>1, <3>5, <3>6 DEF p, q
    <2> QED
      BY <1>4, <2>2, <2>4, <2>5, <2>6
  <1>6. CASE ~v1Assigned(j)
    <2>1. v1event[j] = "updateNew" /\ v0event[i] = "updateOld" /\ <<i, j>> \in Updates
      BY <1>1, <1>2, <1>6
    <2>2. ~v0Assigned(i)
      BY <1>2, <2>1
    <2>3. i # Root(v0) /\ j # Root(v1)
      BY <1>3, <1>6, <2>2
    <2>4. ~v0Scripted(i) /\ ~v1Scripted(j)
      BY <2>1 DEF v0Scripted, v1Scripted, Moves
    <2> DEFINE p == v0.parent[i]
               q == v1.parent[j]
    <2>5. p \in Nodes(v0) /\ v0Assigned(p) /\ q \in Nodes(v1) /\ q = v0match[p]
      <3> DEFINE u == <<i, j>>
      <3>1. u \in Updates /\ u[1] = i /\ u[2] = j
        BY <2>1
      <3> HIDE DEF u
      <3>2. /\ v0.parent[u[1]] \in Nodes(v0) /\ v0Assigned(v0.parent[u[1]])
            /\ v1.parent[u[2]] \in Nodes(v1) /\ v1.parent[u[2]] = v0match[v0.parent[u[1]]]
        BY <1>2, <3>1, UpdatedTexts
      <3> QED
        BY <3>1, <3>2
    <2>6. v1Assigned(q) /\ v1match[q] = p
      BY <1>2, <2>5, MatchingFacts
    <2>7. FinalXids[q] = v1match[q]
      <3> HIDE DEF p, q
      <3> QED
        BY <2>5, <2>6, NameFacts
    <2> QED
      BY <1>4, <2>3, <2>4, <2>5, <2>6, <2>7
  <1> QED
    BY <1>5, <1>6

(* Below a deleted node is what is deleted with it and what is scripted. *)
LEMMA DeletedBelow ==
  ASSUME DeltaIsWritten, NEW i \in Nodes(v0), i # Root(v0), i \notin OldScripted
  PROVE  /\ v0.parent[i] \in Nodes(v0)
         /\ v0event[i] = "deleted" <=> v0event[v0.parent[i]] = "deleted"
PROOF
  <1> DEFINE p == v0.parent[i]
  <1>1. /\ MatchedDocuments /\ IsDocument(v0)
        /\ v0event[i] \in {"nop", "deleted", "strongmove", "weakmove", "updateOld"}
        /\ v0event[i] \in {"deleted", "updateOld"} <=> ~v0Assigned(i)
        /\ v0event[i] = "strongmove" <=> v0Assigned(i) /\ v0StrongMove(i)
        /\ v0event[i] = "updateOld" <=> \E u \in Updates : u[1] = i
    BY FinalMarks
  <1>2. p \in Nodes(v0) /\ p # 0
    <2>1. p \in Nodes(v0)
      BY <1>1, DocumentFacts
    <2> QED
      BY <2>1 DEF Nodes
  <1>3. ~v0Scripted(i)
    BY DEF OldScripted
  <1>4. v0event[i] = "deleted" => v0event[p] = "deleted"
    BY <1>2, <1>3 DEF v0Scripted
  <1>5. ASSUME v0event[p] = "deleted"
        PROVE  v0event[i] = "deleted"
    <2>1. ~v0Assigned(p)
      BY <1>2, <1>5, FinalMarks
    <2>2. ~v0Assigned(i)
      BY <1>1, <1>2, <1>3, <2>1 DEF v0StrongMove, v0Scripted, Moves
    <2>3. v0event[i] # "updateOld"
      <3> SUFFICES ASSUME NEW u \in Updates, u[1] = i
                   PROVE  FALSE
        BY <1>1
      <3>1. v0Assigned(v0.parent[u[1]])
        BY <1>1, UpdatedTexts
      <3> QED
        BY <2>1, <3>1
    <2> QED
      BY <1>1, <2>2, <2>3
  <1> QED
    BY <1>2, <1>4, <1>5

(* And so it is with what is inserted. *)
LEMMA InsertedBelow ==
  ASSUME DeltaIsWritten, NEW j \in Nodes(v1), j # Root(v1), j \notin NewScripted
  PROVE  /\ v1.parent[j] \in Nodes(v1)
         /\ v1event[j] = "inserted" <=> v1event[v1.parent[j]] = "inserted"
PROOF
  <1> DEFINE q == v1.parent[j]
  <1>1. /\ MatchedDocuments /\ IsDocument(v1)
        /\ v1event[j] \in {"nop", "inserted", "strongmove", "weakmove", "updateNew"}
        /\ v1event[j] \in {"inserted", "updateNew"} <=> ~v1Assigned(j)
        /\ v1event[j] = "strongmove" <=> v1Assigned(j) /\ v1StrongMove(j)
        /\ v1event[j] = "updateNew" <=> \E u \in Updates : u[2] = j
    BY FinalMarks
  <1>2. q \in Nodes(v1) /\ q # 0
    <2>1. q \in Nodes(v1)
      BY <1>1, DocumentFacts
    <2> QED
      BY <2>1 DEF Nodes
  <1>3. ~v1Scripted(j)
    BY DEF NewScripted
  <1>4. v1event[j] = "inserted" => v1event[q] = "inserted"
    BY <1>2, <1>3 DEF v1Scripted
  <1>5. ASSUME v1event[q] = "inserted"
        PROVE  v1event[j] = "inserted"
    <2>1. ~v1Assigned(q)
      BY <1>2, <1>5, FinalMarks
    <2>2. ~v1Assigned(j)
      BY <1>1, <1>2, <1>3, <2>1 DEF v1StrongMove, v1Scripted, Moves
    <2>3. v1event[j] # "updateNew"
      <3> SUFFICES ASSUME NEW u \in Updates, u[2] = j
                   PROVE  FALSE
        BY <1>1
      <3>1. /\ v0.parent[u[1]] \in Nodes(v0) /\ v0Assigned(v0.parent[u[1]])
            /\ v1.parent[u[2]] = v0match[v0.parent[u[1]]]
        BY <1>1, UpdatedTexts
      <3>2. v1Assigned(v1.parent[u[2]])
        BY <1>1, <3>1, MatchingFacts
      <3> QED
        BY <2>1, <3>2
    <2> QED
      BY <1>1, <2>2, <2>3
  <1> QED
    BY <1>2, <1>4, <1>5

(* The scripts never name a root. *)
LEMMA RootsNotScripted ==
  ASSUME DeltaIsWritten
  PROVE  /\ OldScripted \subseteq Nodes(v0) \ {Root(v0)}
         /\ NewScripted \subseteq Nodes(v1) \ {Root(v1)}
         /\ Root(v0) \in Nodes(v0) /\ Root(v1) \in Nodes(v1)
         /\ FinalXids[Root(v1)] = Root(v0)
PROOF
  <1>1. v0event[Root(v0)] = "nop" /\ v1event[Root(v1)] = "nop" /\ MatchedDocuments
        /\ IsDocument(v0) /\ IsDocument(v1)
    BY FinalMarks
  <1>2. ~v0Scripted(Root(v0)) /\ ~v1Scripted(Root(v1))
    BY <1>1 DEF v0Scripted, v1Scripted, Moves
  <1>3. Root(v0) \in Nodes(v0) /\ Root(v1) \in Nodes(v1)
    BY <1>1, DocumentFacts
  <1>4. v1Assigned(Root(v1)) /\ v1match[Root(v1)] = Root(v0)
    BY <1>1, MatchingFacts
  <1>5. FinalXids[Root(v1)] = v1match[Root(v1)]
    <2> DEFINE j == Root(v1)
    <2>1. j \in Nodes(v1) /\ v1Assigned(j)
      BY <1>3, <1>4
    <2> HIDE DEF j
    <2>2. FinalXids[j] = v1match[j]
      BY <2>1, NameFacts
    <2> QED
      BY <2>2 DEF j
  <1> QED
    BY <1>2, <1>3, <1>4, <1>5 DEF OldScripted, NewScripted

OldHome(i) == HomeOf(v0, OldScripted, i)
NewHome(j) == HomeOf(v1, NewScripted, j)

(* Home is oneself or one's parent's home. *)
LEMMA OldHomes ==
  ASSUME DeltaIsWritten, NEW i \in Nodes(v0)
  PROVE  /\ OldHome(i) \in OldScripted \cup {Root(v0)} /\ OldHome(i) \in Nodes(v0)
         /\ i \in OldScripted \cup {Root(v0)} => OldHome(i) = i
         /\ i \notin OldScripted \cup {Root(v0)} => OldHome(i) = OldHome(v0.parent[i])
PROOF
  <1>1. IsDocument(v0) /\ OldScripted \subseteq Nodes(v0)
    BY FinalMarks, RootsNotScripted
  <1> QED
    BY <1>1, HomeFacts DEF OldHome

(* The same in the second document. *)
LEMMA NewHomes ==
  ASSUME DeltaIsWritten, NEW j \in Nodes(v1)
  PROVE  /\ NewHome(j) \in NewScripted \cup {Root(v1)} /\ NewHome(j) \in Nodes(v1)
         /\ j \in NewScripted \cup {Root(v1)} => NewHome(j) = j
         /\ j \notin NewScripted \cup {Root(v1)} => NewHome(j) = NewHome(v1.parent[j])
PROOF
  <1>1. IsDocument(v1) /\ NewScripted \subseteq Nodes(v1)
    BY FinalMarks, RootsNotScripted
  <1> QED
    BY <1>1, HomeFacts DEF NewHome

(* What holds of a node when it holds of its parent holds of all. *)
LEMMA FromRootDown ==
  ASSUME NEW d, IsDocument(d), NEW T,
         \A i \in Nodes(d) : (i # Root(d) => d.parent[i] \in T) => i \in T
  PROVE  \A i \in Nodes(d) : i \in T
PROOF
  <1> DEFINE G == Nodes(d)
             rank == [i \in G |-> d.n - i]
  <1>1. d.n \in Nat /\ \A i \in G : i \in Nat /\ i <= d.n
    BY DocumentFacts
  <1>2. rank \in [G -> Nat]
    BY <1>1
  <1>3. ASSUME NEW p \in G, \A q \in G : rank[q] < rank[p] => q \in T
        PROVE  p \in T
    <2> SUFFICES ASSUME p # Root(d)
                 PROVE  d.parent[p] \in T
      OBVIOUS
    <2>1. d.parent[p] \in G /\ d.parent[p] > p
      BY DocumentFacts
    <2>2. rank[d.parent[p]] < rank[p]
      BY <1>1, <2>1
    <2> HIDE DEF rank
    <2> QED
      BY <1>3, <2>1, <2>2
  <1> HIDE DEF rank, G
  <1>4. \A p \in G : p \in T
    BY <1>2, <1>3, RankInduction
  <1> QED
    BY <1>4 DEF G

(***************************************************************************)
(* A node with one XID in both documents has one home in both.             *)
(***************************************************************************)
LEMMA HomesAgree ==
  ASSUME DeltaIsWritten
  PROVE  \A i \in Nodes(v0) : \A j \in Nodes(v1) :
           FinalXids[j] = i => OldHome(i) = FinalXids[NewHome(j)]
PROOF
  <1> DEFINE Good(i) == \A j \in Nodes(v1) : FinalXids[j] = i => OldHome(i) = FinalXids[NewHome(j)]
             T == {i \in Nodes(v0) : Good(i)}
  <1>1. IsDocument(v0)
    BY FinalMarks
  <1>2. ASSUME NEW i \in Nodes(v0), i # Root(v0) => v0.parent[i] \in T
        PROVE  i \in T
    <2> SUFFICES ASSUME NEW j \in Nodes(v1), FinalXids[j] = i
                 PROVE  OldHome(i) = FinalXids[NewHome(j)]
      OBVIOUS
    <2>1. /\ i = Root(v0) <=> j = Root(v1)
          /\ i \in OldScripted <=> j \in NewScripted
          /\ i # Root(v0) /\ i \notin OldScripted =>
               /\ v0.parent[i] \in Nodes(v0) /\ v1.parent[j] \in Nodes(v1)
               /\ FinalXids[v1.parent[j]] = v0.parent[i]
      BY StaysBelow
    <2>2. CASE i \in OldScripted \cup {Root(v0)}
      <3>1. OldHome(i) = i
        BY <2>2, OldHomes
      <3>2. NewHome(j) = j
        BY <2>1, <2>2, NewHomes
      <3> QED
        BY <3>1, <3>2
    <2>3. CASE i \notin OldScripted \cup {Root(v0)}
      <3>1. OldHome(i) = OldHome(v0.parent[i])
        BY <2>3, OldHomes
      <3>2. NewHome(j) = NewHome(v1.parent[j])
        BY <2>1, <2>3, NewHomes
      <3>3. Good(v0.parent[i])
        BY <1>2, <2>3
      <3> QED
        BY <2>1, <2>3, <3>1, <3>2, <3>3
    <2> QED
      BY <2>2, <2>3
  <1> HIDE DEF T
  <1>3. \A i \in Nodes(v0) : i \in T
    BY <1>1, <1>2, FromRootDown
  <1> QED
    BY <1>3 DEF T

(* An old node stays in the document when its home does. *)
LEMMA OldHomeGoesAlong ==
  ASSUME DeltaIsWritten
  PROVE  \A i \in Nodes(v0) : v0event[i] = "deleted" <=> v0event[OldHome(i)] = "deleted"
PROOF
  <1> DEFINE Good(i) == v0event[i] = "deleted" <=> v0event[OldHome(i)] = "deleted"
             T == {i \in Nodes(v0) : Good(i)}
  <1>1. IsDocument(v0)
    BY FinalMarks
  <1>2. ASSUME NEW i \in Nodes(v0), i # Root(v0) => v0.parent[i] \in T
        PROVE  i \in T
    <2>1. CASE i \in OldScripted \cup {Root(v0)}
      BY <2>1, OldHomes
    <2>2. CASE i \notin OldScripted \cup {Root(v0)}
      <3>1. OldHome(i) = OldHome(v0.parent[i])
        BY <2>2, OldHomes
      <3>2. v0event[i] = "deleted" <=> v0event[v0.parent[i]] = "deleted"
        BY <2>2, DeletedBelow
      <3>3. Good(v0.parent[i])
        BY <1>2, <2>2
      <3> QED
        BY <3>1, <3>2, <3>3
    <2> QED
      BY <2>1, <2>2
  <1> HIDE DEF T
  <1>3. \A i \in Nodes(v0) : i \in T
    BY <1>1, <1>2, FromRootDown
  <1> QED
    BY <1>3 DEF T

(* A node of v1 was there before when its home was. *)
LEMMA NewHomeCameAlong ==
  ASSUME DeltaIsWritten
  PROVE  \A j \in Nodes(v1) : v1event[j] = "inserted" <=> v1event[NewHome(j)] = "inserted"
PROOF
  <1> DEFINE Good(j) == v1event[j] = "inserted" <=> v1event[NewHome(j)] = "inserted"
             T == {j \in Nodes(v1) : Good(j)}
  <1>1. IsDocument(v1)
    BY FinalMarks
  <1>2. ASSUME NEW j \in Nodes(v1), j # Root(v1) => v1.parent[j] \in T
        PROVE  j \in T
    <2>1. CASE j \in NewScripted \cup {Root(v1)}
      BY <2>1, NewHomes
    <2>2. CASE j \notin NewScripted \cup {Root(v1)}
      <3>1. NewHome(j) = NewHome(v1.parent[j])
        BY <2>2, NewHomes
      <3>2. v1event[j] = "inserted" <=> v1event[v1.parent[j]] = "inserted"
        BY <2>2, InsertedBelow
      <3>3. Good(v1.parent[j])
        BY <1>2, <2>2
      <3> QED
        BY <3>1, <3>2, <3>3
    <2> QED
      BY <2>1, <2>2
  <1> HIDE DEF T
  <1>3. \A j \in Nodes(v1) : j \in T
    BY <1>1, <1>2, FromRootDown
  <1> QED
    BY <1>3 DEF T

-----------------------------------------------------------------------------
(* What a common part of two rows weighs, as HeaviestStay adds it up. *)
PairWeight(d0, d1, m, c) == d0.weight[c] + d1.weight[m[c]]

PairSum(d0, d1, m, S) == MapThenSumSet(LAMBDA c : d0.weight[c] + d1.weight[m[c]], S)

PairSumBody(d0, d1, m, S, f) ==
  [s \in SUBSET S |->
     IF s = {} THEN 0
     ELSE LET x == CHOOSE x \in s : TRUE
          IN  (d0.weight[x] + d1.weight[m[x]]) + f[s \ {x}]]

(* MapThenSumSet is defined by that recursion. *)
LEMMA PairSumUnfolds ==
  ASSUME NEW d0, NEW d1, NEW m, NEW S
  PROVE  PairSum(d0, d1, m, S) = (CHOOSE f : f = PairSumBody(d0, d1, m, S, f))[S]
PROOF
  BY Zenon DEF PairSum, PairSumBody, MapThenSumSet, MapThenFoldSet

(* The two ways to write the recursion agree. *)
LEMMA SameBody ==
  ASSUME NEW d0, NEW d1, NEW m, NEW T, NEW w, NEW f,
         \A c \in T : w[c] = PairWeight(d0, d1, m, c)
  PROVE  PairSumBody(d0, d1, m, T, f) = SumsUp(w, T, f)
PROOF
  <1>1. ASSUME NEW s \in SUBSET T, s # {}
        PROVE  w[AnElement(s)] = d0.weight[AnElement(s)] + d1.weight[m[AnElement(s)]]
    <2>1. AnElement(s) \in s
      BY <1>1 DEF AnElement
    <2> QED
      BY <2>1 DEF PairWeight
  <1>2. PairSumBody(d0, d1, m, T, f) =
          [s \in SUBSET T |->
             IF s = {} THEN 0
             ELSE (d0.weight[AnElement(s)] + d1.weight[m[AnElement(s)]]) + f[s \ {AnElement(s)}]]
    BY DEF PairSumBody, AnElement
  <1> QED
    BY <1>1, <1>2 DEF SumsUp

(***************************************************************************)
(* One function has the sums of all parts of a finite set.                 *)
(***************************************************************************)
LEMMA PairSumsExist ==
  ASSUME NEW S, IsFiniteSet(S), NEW d0, NEW d1, NEW m, NEW w,
         \A c \in S : w[c] \in Int /\ w[c] = PairWeight(d0, d1, m, c)
  PROVE  \E f : Sums(w, S, f) /\ \A T \in SUBSET S : PairSum(d0, d1, m, T) = f[T]
PROOF
  <1>1. PICK f \in [SUBSET S -> Int] : f = SumsUp(w, S, f)
    BY SumsUpExists
  <1>2. Sums(w, S, f)
    BY <1>1, SumsUpSums
  <1>3. ASSUME NEW T \in SUBSET S
        PROVE  PairSum(d0, d1, m, T) = f[T]
    <2> DEFINE h == CHOOSE h : h = PairSumBody(d0, d1, m, T, h)
    <2>1. PairSum(d0, d1, m, T) = h[T]
      BY PairSumUnfolds
    <2>2. IsFiniteSet(T)
      BY FS_Subset
    <2>3. \A g : PairSumBody(d0, d1, m, T, g) = SumsUp(w, T, g)
      <3>1. \A c \in T : w[c] = PairWeight(d0, d1, m, c)
        OBVIOUS
      <3> QED
        BY <3>1, SameBody
    <2>4. \E g : g = PairSumBody(d0, d1, m, T, g)
      <3>1. PICK g \in [SUBSET T -> Int] : g = SumsUp(w, T, g)
        BY <2>2, SumsUpExists
      <3> QED
        BY <2>3, <3>1
    <2>5. h = PairSumBody(d0, d1, m, T, h)
      BY <2>4
    <2> HIDE DEF h
    <2>6. h = SumsUp(w, T, h)
      BY <2>3, <2>5
    <2>7. h[T] = f[T]
      BY <1>1, <2>2, <2>6, SumsUpOnParts DEF AddsUp
    <2> QED
      BY <2>1, <2>7
  <1> QED
    BY <1>2, <1>3

(* A cell costs no more than any way to reach it, and as much as one. *)
CheapestOf(c, above, left, corner, f, g) ==
  /\ c.cost <= above.cost + f.weight
  /\ c.cost <= left.cost + g.weight
  /\ f.data = g.data => c.cost <= corner.cost

OneOf(c, above, left, corner, f, g) ==
  \/ c.cost = above.cost + f.weight /\ c.kept = above.kept
  \/ c.cost = left.cost + g.weight /\ c.kept = left.kept
  \/ f.data = g.data /\ c.cost = corner.cost /\ c.kept = corner.kept \cup {f.data}

(* min3 and the comparison of two costs find the least. *)
LEMMA CellIsCheapest ==
  ASSUME NEW D, NEW above \in Results(D), NEW left \in Results(D), NEW corner \in Results(D),
         NEW f \in Weighted(D), NEW g \in Weighted(D), NEW c, c = Cell(above, left, corner, f, g)
  PROVE  /\ CheapestOf(c, above, left, corner, f, g)
         /\ OneOf(c, above, left, corner, f, g)
PROOF
  <1> DEFINE a == above.cost + f.weight
             b == left.cost + g.weight
             k == corner.cost
  <1>1. a \in Int /\ b \in Int /\ k \in Int
    BY DEF Results, Weighted
  <1>2. /\ Spend(above, f).cost = a /\ Spend(above, f).kept = above.kept
        /\ Spend(left, g).cost = b /\ Spend(left, g).kept = left.kept
        /\ Keep(corner, f).cost = k /\ Keep(corner, f).kept = corner.kept \cup {f.data}
    BY DEF Spend, Keep, Results
  <1>3. CASE f.data = g.data
    <2>1. /\ a <= b /\ a <= k => c = Spend(above, f)
          /\ a <= b /\ ~(a <= k) => c = Keep(corner, f)
          /\ ~(a <= b) /\ b <= k => c = Spend(left, g)
          /\ ~(a <= b) /\ ~(b <= k) => c = Keep(corner, f)
      BY <1>3 DEF Cell, Min3
    <2> HIDE DEF a, b, k
    <2>2. \/ c.cost = a /\ c.kept = above.kept /\ a <= b /\ a <= k
          \/ c.cost = b /\ c.kept = left.kept /\ b <= a /\ b <= k
          \/ c.cost = k /\ c.kept = corner.kept \cup {f.data} /\ k <= a /\ k <= b
      BY <1>1, <1>2, <2>1
    <2> QED
      BY <1>1, <1>3, <2>2 DEF CheapestOf, OneOf, a, b, k
  <1>4. CASE f.data # g.data
    <2>1. /\ a < b => c = Spend(above, f)
          /\ ~(a < b) => c = Spend(left, g)
      BY <1>4 DEF Cell, Min2
    <2> HIDE DEF a, b, k
    <2>2. \/ c.cost = a /\ c.kept = above.kept /\ a <= b
          \/ c.cost = b /\ c.kept = left.kept /\ b <= a
      BY <1>1, <1>2, <2>1
    <2> QED
      BY <1>1, <1>4, <2>2 DEF CheapestOf, OneOf, a, b
  <1> QED
    BY <1>3, <1>4

(* Of nothing only nothing can be kept. *)
LEMMA NothingToKeep ==
  ASSUME NEW s1, NEW s2, NEW i \in Nat, NEW j \in Nat, NEW K,
         SameOrder(s1, s2, i, j, K), i = 0 \/ j = 0
  PROVE  K = {}
PROOF
  BY DEF SameOrder

(* What leaves out the last element of one is a part of what is before it. *)
LEMMA WithoutLastOfFirst ==
  ASSUME NEW s1, NEW s2, NEW i \in Nat, i # 0, NEW j \in Nat, NEW K,
         SameOrder(s1, s2, i, j, K), s1[i].data \notin K
  PROVE  SameOrder(s1, s2, i - 1, j, K)
PROOF
  <1>1. 1 .. (i - 1) \subseteq 1 .. i /\ \A p \in 1 .. i : p # i => p \in 1 .. (i - 1)
    OBVIOUS
  <1> QED
    BY <1>1 DEF SameOrder

(* The same for the other sequence. *)
LEMMA WithoutLastOfSecond ==
  ASSUME NEW s1, NEW s2, NEW i \in Nat, NEW j \in Nat, j # 0, NEW K,
         SameOrder(s1, s2, i, j, K), s2[j].data \notin K
  PROVE  SameOrder(s1, s2, i, j - 1, K)
PROOF
  <1>1. 1 .. (j - 1) \subseteq 1 .. j /\ \A p \in 1 .. j : p # j => p \in 1 .. (j - 1)
    OBVIOUS
  <1> QED
    BY <1>1 DEF SameOrder

(* Without what stands last in both the rest is before it in both. *)
LEMMA WithoutLastOfBoth ==
  ASSUME NEW s1, NEW s2, NEW i \in Nat, i # 0, NEW j \in Nat, j # 0, NEW K,
         SameOrder(s1, s2, i, j, K), s1[i].data = s2[j].data
  PROVE  SameOrder(s1, s2, i - 1, j - 1, K \ {s1[i].data})
PROOF
  <1>1. 1 .. (i - 1) \subseteq 1 .. i /\ \A p \in 1 .. i : p # i => p \in 1 .. (i - 1)
    OBVIOUS
  <1>2. 1 .. (j - 1) \subseteq 1 .. j /\ \A p \in 1 .. j : p # j => p \in 1 .. (j - 1)
    OBVIOUS
  <1> QED
    BY <1>1, <1>2 DEF SameOrder

(* Two different last elements are not both kept. *)
LEMMA NotBothLast ==
  ASSUME NEW s1, NEW s2, NEW i \in Nat, i # 0, NEW j \in Nat, j # 0, NEW K,
         SameOrder(s1, s2, i, j, K), s1[i].data # s2[j].data
  PROVE  s1[i].data \notin K \/ s2[j].data \notin K
PROOF
  <1> SUFFICES ASSUME s1[i].data \in K, s2[j].data \in K
               PROVE  FALSE
    OBVIOUS
  <1>1. PICK q \in 1 .. j : s2[q].data = s1[i].data
    BY DEF SameOrder
  <1>2. PICK p \in 1 .. i : s1[p].data = s2[j].data
    BY DEF SameOrder
  <1>3. p < i /\ q < j
    BY <1>1, <1>2
  <1>4. p \in 1 .. i /\ i \in 1 .. i /\ q \in 1 .. j /\ j \in 1 .. j
    OBVIOUS
  <1>5. j < q
    BY <1>1, <1>2, <1>3, <1>4 DEF SameOrder
  <1> QED
    BY <1>3, <1>5

(***************************************************************************)
(* The weights of the elements up to a place, added up.                    *)
(***************************************************************************)
LEMMA TotalsExist ==
  ASSUME NEW s, NEW D, IsRow(s, D)
  PROVE  \E t \in [0 .. Len(s) -> Int] :
           t[0] = 0 /\ \A i \in 1 .. Len(s) : t[i] = t[i - 1] + s[i].weight
PROOF
  <1> DEFINE g == [n \in 0 .. Len(s) |-> [v \in Int |-> v + s[n].weight]]
             h == [n \in 0 .. Len(s) |-> IF n = 0 THEN [v \in Int |-> v] ELSE g[n]]
  <1>1. Len(s) \in Nat /\ \A i \in 1 .. Len(s) : s[i].weight \in Int
    BY RowFacts DEF Weighted
  <1>2. ASSUME NEW n \in 0 .. Len(s)
        PROVE  h[n] \in [Int -> Int]
    <2>1. CASE n = 0
      BY <2>1
    <2>2. CASE n # 0
      <3>1. s[n].weight \in Int
        BY <1>1, <2>2
      <3> QED
        BY <2>2, <3>1
    <2> QED
      BY <2>1, <2>2
  <1>3. h \in [0 .. Len(s) -> [Int -> Int]] /\ 0 \in Nat /\ 0 \in Int
    BY <1>2
  <1>4. PICK t \in [0 .. Len(s) -> Int] : Iterates(t, 0, Len(s), 0, h)
    <2> HIDE DEF h
    <2> QED
      BY <1>1, <1>3, IterationExists
  <1>5. t = [n \in 0 .. Len(s) |-> IF n = 0 THEN 0 ELSE h[n][t[n - 1]]]
    BY <1>4 DEF Iterates
  <1>6. t[0] = 0
    BY <1>1, <1>5
  <1>7. ASSUME NEW i \in 1 .. Len(s)
        PROVE  t[i] = t[i - 1] + s[i].weight
    <2>1. i \in 0 .. Len(s) /\ i # 0 /\ i - 1 \in 0 .. Len(s)
      BY <1>1
    <2>2. t[i - 1] \in Int
      BY <2>1
    <2>3. t[i] = h[i][t[i - 1]]
      BY <1>5, <2>1
    <2> QED
      BY <2>1, <2>2, <2>3
  <1> QED
    BY <1>6, <1>7

(***************************************************************************)
(* An element kept saves its weight in both sequences.                     *)
(***************************************************************************)
Saves(s1, s2, w) ==
  \A p \in 1 .. Len(s1), q \in 1 .. Len(s2) :
    s1[p].data = s2[q].data => w[s1[p].data] = s1[p].weight + s2[q].weight

(* A cell pays for all but what it keeps, and nothing else pays less. *)
Balanced(r, total, f) == r.cost + f[r.kept] = total

LeastCost(r, total, f, s1, s2, i, j, S) ==
  \A C \in SUBSET S : SameOrder(s1, s2, i, j, C) => r.cost + f[C] <= total

(* What a part of S weighs with one element more or one less. *)
LEMMA KeptMore ==
  ASSUME NEW S, NEW w, \A x \in S : w[x] \in Int, NEW f, Sums(w, S, f),
         NEW K \in SUBSET S, NEW a \in S
  PROVE  /\ f[K] \in Int /\ w[a] \in Int
         /\ a \notin K => f[K \cup {a}] = w[a] + f[K]
         /\ a \in K => f[K] = w[a] + f[K \ {a}] /\ f[K \ {a}] \in Int
PROOF
  <1>1. f[K] \in Int /\ w[a] \in Int /\ f[K \ {a}] \in Int
    BY DEF Sums
  <1>2. ASSUME a \notin K
        PROVE  f[K \cup {a}] = w[a] + f[K]
    <2>1. K \cup {a} \in SUBSET S /\ a \in K \cup {a} /\ (K \cup {a}) \ {a} = K
      BY <1>2
    <2>2. f[K \cup {a}] = w[a] + f[(K \cup {a}) \ {a}]
      BY <2>1 DEF Sums
    <2> QED
      BY <2>1, <2>2
  <1>3. a \in K => f[K] = w[a] + f[K \ {a}]
    BY DEF Sums
  <1> QED
    BY <1>1, <1>2, <1>3

(* What is kept of the beginnings does not have the elements after them. *)
LEMMA LastIsNew ==
  ASSUME NEW s1, NEW s2, NEW D, IsRow(s1, D), NEW i \in 1 .. Len(s1), NEW j, NEW K,
         SameOrder(s1, s2, i - 1, j, K)
  PROVE  s1[i].data \notin K
PROOF
  <1> SUFFICES ASSUME s1[i].data \in K
               PROVE  FALSE
    OBVIOUS
  <1>1. Len(s1) \in Nat /\ \A p, q \in 1 .. Len(s1) : s1[p].data = s1[q].data => p = q
    BY RowFacts
  <1>2. PICK p \in 1 .. (i - 1) : s1[p].data = s1[i].data
    BY DEF SameOrder
  <1>3. p \in 1 .. Len(s1) /\ p # i
    BY <1>1, <1>2
  <1> QED
    BY <1>1, <1>2, <1>3

(* What is kept is among the elements of the first sequence. *)
LEMMA KeptWithin ==
  ASSUME NEW s1, NEW s2, NEW S, Len(s1) \in Nat, \A p \in 1 .. Len(s1) : s1[p].data \in S,
         NEW i \in 0 .. Len(s1), NEW j, NEW K, SameOrder(s1, s2, i, j, K)
  PROVE  K \in SUBSET S
PROOF
  <1>1. 1 .. i \subseteq 1 .. Len(s1)
    OBVIOUS
  <1> QED
    BY <1>1 DEF SameOrder

(***************************************************************************)
(* What the cells of two rows are about: the totals of the rows, and the   *)
(* sums of what may be kept of them.                                       *)
(***************************************************************************)
IsTotal(s, t) ==
  /\ t \in [0 .. Len(s) -> Int]
  /\ t[0] = 0 /\ \A i \in 1 .. Len(s) : t[i] = t[i - 1] + s[i].weight

CellIsGood(c, s1, s2, t1, t2, f, S, i, j) ==
  /\ Balanced(c[<<i, j>>], t1[i] + t2[j], f)
  /\ LeastCost(c[<<i, j>>], t1[i] + t2[j], f, s1, s2, i, j, S)

Weighing(s1, s2, D, c, w, f, S, t1, t2) ==
  /\ IsRow(s1, D) /\ IsRow(s2, D)
  /\ \A p \in 1 .. Len(s1) : s1[p].data \in S
  /\ \A x \in S : w[x] \in Int
  /\ Sums(w, S, f) /\ Saves(s1, s2, w)
  /\ IsTotal(s1, t1) /\ IsTotal(s2, t2)
  /\ IsLcssTable(s1, s2, D, c)

(* The last of the first i elements of a row, and the total before it. *)
BeforeLast(s, D, t, i) ==
  /\ i \in 1 .. Len(s) /\ i - 1 \in 0 .. Len(s)
  /\ s[i] \in Weighted(D) /\ s[i].weight \in Int
  /\ t[i] = t[i - 1] + s[i].weight /\ t[i - 1] \in Int

(* A beginning that is not empty has a last element, which its total counts. *)
LEMMA LastElement ==
  ASSUME NEW s, NEW D, IsRow(s, D), NEW t, IsTotal(s, t), NEW i \in 0 .. Len(s), i # 0
  PROVE  BeforeLast(s, D, t, i)
PROOF
  <1>1. Len(s) \in Nat /\ \A p \in 1 .. Len(s) : s[p] \in Weighted(D)
    BY RowFacts
  <1>2. i \in 1 .. Len(s) /\ i - 1 \in 0 .. Len(s)
    BY <1>1
  <1>3. s[i] \in Weighted(D) /\ s[i].weight \in Int
    BY <1>1, <1>2 DEF Weighted
  <1>4. t[i] = t[i - 1] + s[i].weight /\ t[i - 1] \in Int
    BY <1>2 DEF IsTotal
  <1> QED
    BY <1>2, <1>3, <1>4 DEF BeforeLast

(* What a cell of the table is. *)
IsCell(s1, s2, D, c, f, S, i, j) ==
  /\ c[<<i, j>>] \in Results(D) /\ c[<<i, j>>] = CellAt(s1, s2, c, i, j)
  /\ c[<<i, j>>].cost \in Int
  /\ SameOrder(s1, s2, i, j, c[<<i, j>>].kept)
  /\ c[<<i, j>>].kept \in SUBSET S /\ f[c[<<i, j>>].kept] \in Int

(* What a cell of the table holds, and what comes before it. *)
LEMMA CellOfTable ==
  ASSUME NEW s1, NEW s2, NEW D, NEW c, NEW w, NEW f, NEW S, NEW t1, NEW t2,
         Weighing(s1, s2, D, c, w, f, S, t1, t2),
         NEW i \in 0 .. Len(s1), NEW j \in 0 .. Len(s2)
  PROVE  /\ Len(s1) \in Nat /\ Len(s2) \in Nat
         /\ IsCell(s1, s2, D, c, f, S, i, j)
         /\ t1[i] \in Int /\ t2[j] \in Int
         /\ i # 0 => BeforeLast(s1, D, t1, i)
         /\ j # 0 => BeforeLast(s2, D, t2, j)
PROOF
  <1>1. /\ Len(s1) \in Nat /\ \A p \in 1 .. Len(s1) : s1[p] \in Weighted(D)
        /\ Len(s2) \in Nat /\ \A p \in 1 .. Len(s2) : s2[p] \in Weighted(D)
    BY RowFacts DEF Weighing
  <1>2. c[<<i, j>>] \in Results(D) /\ c[<<i, j>>] = CellAt(s1, s2, c, i, j)
    BY DEF Weighing, IsLcssTable
  <1>3. c[<<i, j>>].cost \in Int
    BY <1>2 DEF Results
  <1>4. SameOrder(s1, s2, i, j, c[<<i, j>>].kept)
    BY LcssCellsInOrder DEF Weighing
  <1>5. c[<<i, j>>].kept \in SUBSET S
    BY <1>1, <1>4, KeptWithin DEF Weighing
  <1>6. f[c[<<i, j>>].kept] \in Int
    BY <1>5 DEF Weighing, Sums
  <1>7. t1[i] \in Int /\ t2[j] \in Int
    BY DEF Weighing, IsTotal
  <1>8. i # 0 => BeforeLast(s1, D, t1, i)
    BY LastElement DEF Weighing
  <1>9. j # 0 => BeforeLast(s2, D, t2, j)
    BY LastElement DEF Weighing
  <1> QED
    BY <1>1, <1>2, <1>3, <1>4, <1>5, <1>6, <1>7, <1>8, <1>9 DEF IsCell

(* One more cost on both sides of the balance. *)
LEMMA SpentMore ==
  ASSUME NEW r, NEW q, NEW f, NEW e, NEW a, NEW b,
         q.cost \in Int, f[q.kept] \in Int, e.weight \in Int, a \in Int, b \in Int,
         r.cost = q.cost + e.weight, r.kept = q.kept,
         q.cost + f[q.kept] = a + b
  PROVE  r.cost + f[r.kept] = (a + b) + e.weight
PROOF
  <1>1. f[r.kept] = f[q.kept]
    OBVIOUS
  <1> DEFINE k == f[q.kept]
             x == q.cost
             w == e.weight
  <1>2. x \in Int /\ k \in Int /\ w \in Int /\ a \in Int /\ b \in Int /\ x + k = a + b
    OBVIOUS
  <1>3. r.cost = x + w /\ f[r.kept] = k
    BY <1>1
  <1> HIDE DEF k, x, w
  <1>4. (x + w) + k = (a + b) + w
    BY <1>2
  <1> QED
    BY <1>3, <1>4 DEF w

(* An empty beginning on one side: all of the other side is paid for. *)
LEMMA EdgeCellIsGood ==
  ASSUME NEW s1, NEW s2, NEW D, NEW c, NEW w, NEW f, NEW S, NEW t1, NEW t2,
         Weighing(s1, s2, D, c, w, f, S, t1, t2),
         NEW i \in 0 .. Len(s1), NEW j \in 0 .. Len(s2), i = 0 \/ j = 0,
         i # 0 => CellIsGood(c, s1, s2, t1, t2, f, S, i - 1, j),
         j # 0 => CellIsGood(c, s1, s2, t1, t2, f, S, i, j - 1)
  PROVE  CellIsGood(c, s1, s2, t1, t2, f, S, i, j)
PROOF
  <1> DEFINE r == c[<<i, j>>]
             total == t1[i] + t2[j]
  <1>1. /\ Len(s1) \in Nat /\ Len(s2) \in Nat
        /\ r \in Results(D) /\ r = CellAt(s1, s2, c, i, j) /\ r.cost \in Int
        /\ SameOrder(s1, s2, i, j, r.kept) /\ f[r.kept] \in Int
        /\ t1[i] \in Int /\ t2[j] \in Int
    <2>1. /\ Len(s1) \in Nat /\ Len(s2) \in Nat /\ t1[i] \in Int /\ t2[j] \in Int
          /\ IsCell(s1, s2, D, c, f, S, i, j)
      BY CellOfTable
    <2> QED
      BY <2>1 DEF IsCell
  <1>2. Balanced(r, total, f)
    <2>1. CASE i = 0 /\ j = 0
      <3>1. CellAt(s1, s2, c, i, j) = [cost |-> 0, kept |-> {}]
        BY <2>1 DEF CellAt
      <3>2. r.cost = 0 /\ r.kept = {}
        <4> HIDE DEF r
        <4> QED
          BY <1>1, <3>1
      <3>3. f[{}] = 0 /\ t1[0] = 0 /\ t2[0] = 0
        BY DEF Weighing, IsTotal, Sums
      <3> QED
        BY <2>1, <3>2, <3>3 DEF Balanced
    <2>2. CASE i # 0
      <3> DEFINE q == c[<<i - 1, j>>]
      <3>1. /\ i - 1 \in 0 .. Len(s1) /\ s1[i] \in Weighted(D) /\ s1[i].weight \in Int
            /\ t1[i] = t1[i - 1] + s1[i].weight /\ t1[i - 1] \in Int
        <4>1. BeforeLast(s1, D, t1, i)
          BY <2>2, CellOfTable
        <4> QED
          BY <4>1 DEF BeforeLast
      <3>2. q \in Results(D) /\ q.cost \in Int /\ f[q.kept] \in Int
        <4>1. IsCell(s1, s2, D, c, f, S, i - 1, j)
          BY <3>1, CellOfTable
        <4> QED
          BY <4>1 DEF IsCell
      <3>3. r.cost = q.cost + s1[i].weight /\ r.kept = q.kept
        <4>1. CellAt(s1, s2, c, i, j) = Spend(q, s1[i])
          BY <2>2 DEF CellAt
        <4>2. Spend(q, s1[i]).cost = q.cost + s1[i].weight /\ Spend(q, s1[i]).kept = q.kept
          BY <3>2 DEF Spend, Results
        <4> HIDE DEF r, q
        <4> QED
          BY <1>1, <4>1, <4>2
      <3>4. q.cost + f[q.kept] = t1[i - 1] + t2[j]
        BY <2>2 DEF CellIsGood, Balanced
      <3>5. r.cost + f[r.kept] = total
        <4> DEFINE e == s1[i]
                   a == t1[i - 1]
                   b == t2[j]
        <4>1. /\ q.cost \in Int /\ f[q.kept] \in Int /\ e.weight \in Int /\ a \in Int /\ b \in Int
              /\ r.cost = q.cost + e.weight /\ r.kept = q.kept
              /\ q.cost + f[q.kept] = a + b
          BY <1>1, <3>1, <3>2, <3>3, <3>4
        <4>2. r.cost + f[r.kept] = (a + b) + e.weight
          <5> HIDE DEF r, q, e, a, b
          <5> QED
            BY <4>1, SpentMore
        <4>3. total = (a + b) + e.weight
          BY <1>1, <3>1
        <4> QED
          BY <4>2, <4>3
      <3> QED
        BY <3>5 DEF Balanced
    <2>3. CASE j # 0
      <3> DEFINE q == c[<<i, j - 1>>]
      <3>1. /\ j - 1 \in 0 .. Len(s2) /\ s2[j] \in Weighted(D) /\ s2[j].weight \in Int
            /\ t2[j] = t2[j - 1] + s2[j].weight /\ t2[j - 1] \in Int
        <4>1. BeforeLast(s2, D, t2, j)
          BY <2>3, CellOfTable
        <4> QED
          BY <4>1 DEF BeforeLast
      <3>2. q \in Results(D) /\ q.cost \in Int /\ f[q.kept] \in Int
        <4>1. IsCell(s1, s2, D, c, f, S, i, j - 1)
          BY <3>1, CellOfTable
        <4> QED
          BY <4>1 DEF IsCell
      <3>3. r.cost = q.cost + s2[j].weight /\ r.kept = q.kept
        <4>1. CellAt(s1, s2, c, i, j) = Spend(q, s2[j])
          BY <2>3 DEF CellAt
        <4>2. Spend(q, s2[j]).cost = q.cost + s2[j].weight /\ Spend(q, s2[j]).kept = q.kept
          BY <3>2 DEF Spend, Results
        <4> HIDE DEF r, q
        <4> QED
          BY <1>1, <4>1, <4>2
      <3>4. q.cost + f[q.kept] = t1[i] + t2[j - 1]
        BY <2>3 DEF CellIsGood, Balanced
      <3>5. r.cost + f[r.kept] = total
        <4> DEFINE e == s2[j]
                   a == t1[i]
                   b == t2[j - 1]
        <4>1. /\ q.cost \in Int /\ f[q.kept] \in Int /\ e.weight \in Int /\ a \in Int /\ b \in Int
              /\ r.cost = q.cost + e.weight /\ r.kept = q.kept
              /\ q.cost + f[q.kept] = a + b
          BY <1>1, <3>1, <3>2, <3>3, <3>4
        <4>2. r.cost + f[r.kept] = (a + b) + e.weight
          <5> HIDE DEF r, q, e, a, b
          <5> QED
            BY <4>1, SpentMore
        <4>3. total = (a + b) + e.weight
          BY <1>1, <3>1
        <4> QED
          BY <4>2, <4>3
      <3> QED
        BY <3>5 DEF Balanced
    <2> QED
      BY <2>1, <2>2, <2>3
  <1>3. LeastCost(r, total, f, s1, s2, i, j, S)
    <2>1. \A C \in SUBSET S : SameOrder(s1, s2, i, j, C) => C = r.kept
      <3>1. i \in Nat /\ j \in Nat
        BY <1>1
      <3>2. \A C : SameOrder(s1, s2, i, j, C) => C = {}
        BY <3>1, NothingToKeep
      <3> QED
        BY <1>1, <3>2
    <2>2. r.cost + f[r.kept] <= total
      BY <1>1, <1>2 DEF Balanced
    <2> HIDE DEF r, total
    <2> QED
      BY <2>1, <2>2 DEF LeastCost
  <1> QED
    BY <1>2, <1>3 DEF CellIsGood

(* What is known of the three neighbours of a cell. *)
NeighboursBalanced(above, left, corner, e, g, a, b, f) ==
  /\ e.weight \in Int /\ g.weight \in Int /\ a \in Int /\ b \in Int
  /\ above.cost \in Int /\ f[above.kept] \in Int
  /\ left.cost \in Int /\ f[left.kept] \in Int
  /\ corner.cost \in Int /\ f[corner.kept] \in Int
  /\ above.cost + f[above.kept] = a + (b + g.weight)
  /\ left.cost + f[left.kept] = (a + e.weight) + b
  /\ corner.cost + f[corner.kept] = a + b
  /\ e.data = g.data =>
       f[corner.kept \cup {e.data}] = (e.weight + g.weight) + f[corner.kept]

WithBoth(a, b, e, g) == (a + e.weight) + (b + g.weight)

(* Two elements more, whichever way the cell was reached: the balance. *)
LEMMA InnerBalance ==
  ASSUME NEW r, NEW above, NEW left, NEW corner, NEW e, NEW g, NEW f, NEW a, NEW b,
         OneOf(r, above, left, corner, e, g),
         NeighboursBalanced(above, left, corner, e, g, a, b, f)
  PROVE  Balanced(r, WithBoth(a, b, e, g), f)
PROOF
  <1> DEFINE x == e.weight
             y == g.weight
             k1 == f[above.kept]
             k2 == f[left.kept]
             k3 == f[corner.kept]
             c1 == above.cost
             c2 == left.cost
             c3 == corner.cost
  <1>1. /\ x \in Int /\ y \in Int /\ k1 \in Int /\ k2 \in Int /\ k3 \in Int
        /\ c1 \in Int /\ c2 \in Int /\ c3 \in Int /\ a \in Int /\ b \in Int
        /\ c1 + k1 = a + (b + y) /\ c2 + k2 = (a + x) + b /\ c3 + k3 = a + b
    BY DEF NeighboursBalanced
  <1>2. \/ r.cost = c1 + x /\ f[r.kept] = k1
        \/ r.cost = c2 + y /\ f[r.kept] = k2
        \/ r.cost = c3 /\ f[r.kept] = (x + y) + k3
    BY DEF OneOf, NeighboursBalanced
  <1> HIDE DEF x, y, k1, k2, k3, c1, c2, c3
  <1>3. (c1 + x) + k1 = (a + x) + (b + y)
    BY <1>1
  <1>4. (c2 + y) + k2 = (a + x) + (b + y)
    BY <1>1
  <1>5. c3 + ((x + y) + k3) = (a + x) + (b + y)
    BY <1>1
  <1>6. r.cost + f[r.kept] = (a + x) + (b + y)
    BY <1>2, <1>3, <1>4, <1>5
  <1> QED
    BY <1>6 DEF x, y, Balanced, WithBoth

(* No choice pays less than a neighbour's best and the element between. *)
LEMMA InnerLeast ==
  ASSUME NEW r, NEW p, NEW x, NEW fc, NEW k, NEW v, NEW t, NEW u,
         r.cost \in Int, p.cost \in Int, x \in Int, fc \in Int, k \in Int, v \in Int,
         t \in Int, u \in Int,
         r.cost <= p.cost + x, p.cost + k <= t, fc = v + k, u = (t + x) + v
  PROVE  r.cost + fc <= u
PROOF
  <1> DEFINE c1 == r.cost
             c2 == p.cost
  <1>1. c1 \in Int /\ c2 \in Int /\ c1 <= c2 + x /\ c2 + k <= t
    OBVIOUS
  <1> HIDE DEF c1, c2
  <1>2. c1 + fc <= u
    BY <1>1
  <1> QED
    BY <1>2 DEF c1

(* One element more on both sides: the cell takes the cheapest way. *)
LEMMA InnerCellIsGood ==
  ASSUME NEW s1, NEW s2, NEW D, NEW c, NEW w, NEW f, NEW S, NEW t1, NEW t2,
         Weighing(s1, s2, D, c, w, f, S, t1, t2),
         NEW i \in 0 .. Len(s1), NEW j \in 0 .. Len(s2), i # 0, j # 0,
         CellIsGood(c, s1, s2, t1, t2, f, S, i - 1, j),
         CellIsGood(c, s1, s2, t1, t2, f, S, i, j - 1),
         CellIsGood(c, s1, s2, t1, t2, f, S, i - 1, j - 1)
  PROVE  CellIsGood(c, s1, s2, t1, t2, f, S, i, j)
PROOF
  <1> DEFINE r == c[<<i, j>>]
             above == c[<<i - 1, j>>]
             left == c[<<i, j - 1>>]
             corner == c[<<i - 1, j - 1>>]
             e == s1[i]
             g == s2[j]
             a == t1[i - 1]
             b == t2[j - 1]
             x == e.weight
             y == g.weight
             total == t1[i] + t2[j]
  <1>1. /\ i \in 1 .. Len(s1) /\ i - 1 \in 0 .. Len(s1)
        /\ e \in Weighted(D) /\ x \in Int /\ t1[i] = a + x /\ a \in Int
    <2>1. BeforeLast(s1, D, t1, i)
      BY CellOfTable
    <2> QED
      BY <2>1 DEF BeforeLast
  <1>2. /\ j \in 1 .. Len(s2) /\ j - 1 \in 0 .. Len(s2)
        /\ g \in Weighted(D) /\ y \in Int /\ t2[j] = b + y /\ b \in Int
    <2>1. BeforeLast(s2, D, t2, j)
      BY CellOfTable
    <2> QED
      BY <2>1 DEF BeforeLast
  <1>3. /\ r = CellAt(s1, s2, c, i, j) /\ r.cost \in Int
        /\ above \in Results(D) /\ above.cost \in Int /\ f[above.kept] \in Int
        /\ left \in Results(D) /\ left.cost \in Int /\ f[left.kept] \in Int
        /\ corner \in Results(D) /\ corner.cost \in Int /\ f[corner.kept] \in Int
        /\ corner.kept \in SUBSET S /\ SameOrder(s1, s2, i - 1, j - 1, corner.kept)
    <2>1. IsCell(s1, s2, D, c, f, S, i, j)
      BY CellOfTable
    <2>2. IsCell(s1, s2, D, c, f, S, i - 1, j)
      BY <1>1, CellOfTable
    <2>3. IsCell(s1, s2, D, c, f, S, i, j - 1)
      BY <1>2, CellOfTable
    <2>4. IsCell(s1, s2, D, c, f, S, i - 1, j - 1)
      BY <1>1, <1>2, CellOfTable
    <2>5. r = CellAt(s1, s2, c, i, j) /\ r.cost \in Int
      BY <2>1 DEF IsCell
    <2>6. above \in Results(D) /\ above.cost \in Int /\ f[above.kept] \in Int
      BY <2>2 DEF IsCell
    <2>7. left \in Results(D) /\ left.cost \in Int /\ f[left.kept] \in Int
      BY <2>3 DEF IsCell
    <2>8. /\ corner \in Results(D) /\ corner.cost \in Int /\ f[corner.kept] \in Int
          /\ corner.kept \in SUBSET S /\ SameOrder(s1, s2, i - 1, j - 1, corner.kept)
      BY <2>4 DEF IsCell
    <2> QED
      BY <2>5, <2>6, <2>7, <2>8
  <1>4. i \in Nat /\ j \in Nat
    BY <1>1, <1>2
  <1>5. CheapestOf(r, above, left, corner, e, g) /\ OneOf(r, above, left, corner, e, g)
    <2>1. r = Cell(above, left, corner, e, g)
      BY <1>3 DEF CellAt
    <2> HIDE DEF r, above, left, corner, e, g
    <2> QED
      BY <1>1, <1>2, <1>3, <2>1, CellIsCheapest
  <1>6. /\ above.cost + f[above.kept] = a + (b + y)
        /\ left.cost + f[left.kept] = (a + x) + b
        /\ corner.cost + f[corner.kept] = a + b
    BY <1>1, <1>2 DEF CellIsGood, Balanced
  <1>7. e.data \in S /\ \A z \in S : w[z] \in Int
    BY <1>1 DEF Weighing
  <1>8. e.data = g.data => w[e.data] = x + y
    BY <1>1, <1>2 DEF Weighing, Saves
  <1>9. ASSUME NEW K \in SUBSET S
        PROVE  /\ f[K] \in Int /\ w[e.data] \in Int
               /\ e.data \notin K => f[K \cup {e.data}] = w[e.data] + f[K]
               /\ e.data \in K => /\ f[K] = w[e.data] + f[K \ {e.data}]
                                  /\ f[K \ {e.data}] \in Int
    <2> HIDE DEF e
    <2> QED
      BY <1>7, KeptMore DEF Weighing
  <1>10. Balanced(r, total, f)
    <2>1. e.data \notin corner.kept
      BY <1>1, <1>3, LastIsNew DEF Weighing
    <2>2. e.data = g.data =>
            f[corner.kept \cup {e.data}] = (x + y) + f[corner.kept]
      BY <1>3, <1>8, <1>9, <2>1
    <2>3. r.cost + f[r.kept] = (a + x) + (b + y)
      <3>1. NeighboursBalanced(above, left, corner, e, g, a, b, f)
        BY <1>1, <1>2, <1>3, <1>6, <2>2 DEF NeighboursBalanced
      <3> HIDE DEF r, above, left, corner, e, g, a, b
      <3>2. Balanced(r, WithBoth(a, b, e, g), f)
        BY <1>5, <3>1, InnerBalance
      <3> QED
        BY <3>2 DEF x, y, Balanced, WithBoth
    <2> QED
      BY <1>1, <1>2, <2>3 DEF Balanced
  <1>11. ASSUME NEW C \in SUBSET S, SameOrder(s1, s2, i, j, C)
         PROVE  r.cost + f[C] <= (a + x) + (b + y)
    <2>0. f[C] \in Int
      BY <1>9
    <2>1. CASE e.data \notin C
      <3>1. SameOrder(s1, s2, i - 1, j, C)
        BY <1>4, <1>11, <2>1, WithoutLastOfFirst
      <3>2. above.cost + f[C] <= a + (b + y)
        BY <1>2, <3>1 DEF CellIsGood, LeastCost
      <3>3. r.cost <= above.cost + x
        BY <1>5 DEF CheapestOf
      <3> DEFINE t == a + (b + y)
                 u == (a + x) + (b + y)
                 k == f[C]
      <3>4. /\ t \in Int /\ u \in Int /\ k \in Int /\ 0 \in Int
            /\ k = 0 + k /\ u = (t + x) + 0
        <4> HIDE DEF a, b, x, y
        <4> QED
          BY <1>1, <1>2, <2>0
      <3>5. r.cost + k <= u
        <4>1. r.cost <= above.cost + x /\ above.cost + k <= t
          BY <3>2, <3>3
        <4> HIDE DEF r, above, t, u, k, x
        <4> QED
          BY <1>1, <1>2, <1>3, <3>4, <4>1, InnerLeast
      <3> QED
        BY <3>5
    <2>2. CASE g.data \notin C
      <3>1. SameOrder(s1, s2, i, j - 1, C)
        BY <1>4, <1>11, <2>2, WithoutLastOfSecond
      <3>2. left.cost + f[C] <= (a + x) + b
        BY <1>1, <3>1 DEF CellIsGood, LeastCost
      <3>3. r.cost <= left.cost + y
        BY <1>5 DEF CheapestOf
      <3> DEFINE t == (a + x) + b
                 u == (a + x) + (b + y)
                 k == f[C]
      <3>4. /\ t \in Int /\ u \in Int /\ k \in Int /\ 0 \in Int
            /\ k = 0 + k /\ u = (t + y) + 0
        <4> HIDE DEF a, b, x, y
        <4> QED
          BY <1>1, <1>2, <2>0
      <3>5. r.cost + k <= u
        <4>1. r.cost <= left.cost + y /\ left.cost + k <= t
          BY <3>2, <3>3
        <4> HIDE DEF r, left, t, u, k, y
        <4> QED
          BY <1>1, <1>2, <1>3, <3>4, <4>1, InnerLeast
      <3> QED
        BY <3>5
    <2>3. CASE e.data \in C /\ g.data \in C
      <3>1. e.data = g.data
        BY <1>4, <1>11, <2>3, NotBothLast
      <3>2. SameOrder(s1, s2, i - 1, j - 1, C \ {e.data})
        BY <1>4, <1>11, <3>1, WithoutLastOfBoth
      <3>3. C \ {e.data} \in SUBSET S
        OBVIOUS
      <3> DEFINE t == a + b
                 u == (a + x) + (b + y)
                 k == f[C \ {e.data}]
                 v == x + y
                 fc == f[C]
      <3>4. corner.cost + k <= t
        BY <3>2, <3>3 DEF CellIsGood, LeastCost
      <3>5. r.cost <= corner.cost
        BY <1>5, <3>1 DEF CheapestOf
      <3>6. fc = v + k /\ k \in Int
        BY <1>8, <1>9, <2>3, <3>1
      <3>7. /\ t \in Int /\ u \in Int /\ v \in Int /\ fc \in Int /\ 0 \in Int
            /\ u = (t + 0) + v
        <4> HIDE DEF a, b, x, y
        <4> QED
          BY <1>1, <1>2, <2>0
      <3>8. r.cost <= corner.cost + 0
        <4> HIDE DEF r, corner
        <4> QED
          BY <1>3, <3>5
      <3>9. r.cost + fc <= u
        <4> HIDE DEF r, corner, t, u, k, v, fc
        <4> QED
          BY <1>3, <3>4, <3>6, <3>7, <3>8, InnerLeast
      <3> QED
        BY <3>9
    <2> QED
      BY <2>1, <2>2, <2>3
  <1>12. LeastCost(r, total, f, s1, s2, i, j, S)
    <2>1. total = (a + x) + (b + y)
      BY <1>1, <1>2
    <2> HIDE DEF r, total, a, b, e, g
    <2> QED
      BY <1>11, <2>1 DEF LeastCost
  <1> QED
    BY <1>10, <1>12 DEF CellIsGood

(***************************************************************************)
(* lcss: nothing that stands in one order in both sequences weighs more    *)
(* than what it keeps.                                                     *)
(***************************************************************************)
LEMMA LcssIsHeaviest ==
  ASSUME NEW s1, NEW s2, NEW D, IsRow(s1, D), IsRow(s2, D),
         NEW S, \A p \in 1 .. Len(s1) : s1[p].data \in S,
         NEW w, \A x \in S : w[x] \in Int, NEW f, Sums(w, S, f), Saves(s1, s2, w)
  PROVE  /\ Lcss(s1, s2) \in SUBSET S
         /\ \A C \in SUBSET S : SameOrder(s1, s2, Len(s1), Len(s2), C) => f[C] <= f[Lcss(s1, s2)]
PROOF
  <1>1. PICK c : IsLcssTable(s1, s2, D, c) /\ Lcss(s1, s2) = c[<<Len(s1), Len(s2)>>].kept
    BY LcssCells
  <1>2. PICK t1 : IsTotal(s1, t1)
    BY TotalsExist DEF IsTotal
  <1>3. PICK t2 : IsTotal(s2, t2)
    BY TotalsExist DEF IsTotal
  <1>4. Weighing(s1, s2, D, c, w, f, S, t1, t2)
    BY <1>1, <1>2, <1>3 DEF Weighing
  <1>5. /\ Len(s1) \in Nat /\ Len(s1) \in 0 .. Len(s1)
        /\ Len(s2) \in Nat /\ Len(s2) \in 0 .. Len(s2)
    BY RowFacts
  <1> DEFINE Good(i, j) == CellIsGood(c, s1, s2, t1, t2, f, S, i, j)
             T == {p \in Table(s1, s2) : Good(p[1], p[2])}
  <1>6. \A i \in 0 .. Len(s1), j \in 0 .. Len(s2) : <<i, j>> \in T <=> Good(i, j)
    <2> HIDE DEF Good
    <2> QED
      BY <1>5, CellRank
  <1>7. ASSUME NEW i \in 0 .. Len(s1), NEW j \in 0 .. Len(s2),
               i # 0 => <<i - 1, j>> \in T, j # 0 => <<i, j - 1>> \in T,
               i # 0 /\ j # 0 => <<i - 1, j - 1>> \in T
        PROVE  <<i, j>> \in T
    <2>1. /\ i # 0 => i - 1 \in 0 .. Len(s1)
          /\ j # 0 => j - 1 \in 0 .. Len(s2)
      BY <1>5
    <2>2. /\ i # 0 => Good(i - 1, j)
          /\ j # 0 => Good(i, j - 1)
          /\ i # 0 /\ j # 0 => Good(i - 1, j - 1)
      <3> HIDE DEF Good, T
      <3> QED
        BY <1>6, <1>7, <2>1
    <2>3. Good(i, j)
      <3>1. CASE i = 0 \/ j = 0
        BY <1>4, <2>2, <3>1, EdgeCellIsGood
      <3>2. CASE i # 0 /\ j # 0
        BY <1>4, <2>2, <3>2, InnerCellIsGood
      <3> QED
        BY <3>1, <3>2
    <2> HIDE DEF Good, T
    <2> QED
      BY <1>6, <2>3
  <1>8. Good(Len(s1), Len(s2))
    <2> HIDE DEF Good, T
    <2>1. \A i \in 0 .. Len(s1), j \in 0 .. Len(s2) : <<i, j>> \in T
      BY <1>5, <1>7, TableInduction
    <2> QED
      BY <1>5, <1>6, <2>1
  <1> DEFINE r == c[<<Len(s1), Len(s2)>>]
             total == t1[Len(s1)] + t2[Len(s2)]
  <1>9. r.cost \in Int /\ r.kept \in SUBSET S /\ f[r.kept] \in Int /\ total \in Int
    <2>1. /\ IsCell(s1, s2, D, c, f, S, Len(s1), Len(s2))
          /\ t1[Len(s1)] \in Int /\ t2[Len(s2)] \in Int
      BY <1>4, <1>5, CellOfTable
    <2> QED
      BY <2>1 DEF IsCell
  <1>10. r.cost + f[r.kept] = total
    BY <1>8 DEF CellIsGood, Balanced
  <1>11. ASSUME NEW C \in SUBSET S, SameOrder(s1, s2, Len(s1), Len(s2), C)
         PROVE  f[C] <= f[r.kept]
    <2>1. r.cost + f[C] <= total
      BY <1>8, <1>11 DEF CellIsGood, LeastCost
    <2>2. f[C] \in Int
      BY DEF Sums
    <2> DEFINE k == f[C]
               m == f[r.kept]
               n == r.cost
    <2>3. n \in Int /\ k \in Int /\ m \in Int /\ n + k <= total /\ n + m = total
      BY <1>9, <1>10, <2>1, <2>2
    <2> HIDE DEF k, m, n, total
    <2>4. k <= m
      BY <2>3
    <2> QED
      BY <2>4 DEF k, m
  <1> QED
    BY <1>1, <1>9, <1>11

(* What the children that stay weigh, each with its match. *)
StayWeight(i) == [a \in StayOld(i) |-> PairWeight(v0, v1, v0match, a)]

(* Whole numbers, and saved by keeping the child. *)
LEMMA StayWeights ==
  ASSUME NopsArePairs, NEW i \in Nodes(v0), v0Assigned(i)
  PROVE  /\ \A a \in StayOld(i) : /\ StayWeight(i)[a] \in Int
                                  /\ StayWeight(i)[a] = PairWeight(v0, v1, v0match, a)
         /\ \A p \in 1 .. Len(OriginalSequence(i)) : OriginalSequence(i)[p].data \in StayOld(i)
         /\ Saves(OriginalSequence(i), FinalSequence(i), StayWeight(i))
PROOF
  <1> DEFINE S == StayOld(i)
             T == StayNew(i)
             s1 == OriginalSequence(i)
             s2 == FinalSequence(i)
             w == StayWeight(i)
  <1>1. StayingRows(i)
    BY RowsOfStaying
  <1>2. /\ S \subseteq Nodes(v0) /\ T \subseteq Nodes(v1)
        /\ \A a \in S : v0match[a] \in T /\ v1match[v0match[a]] = a
        /\ \A b \in T : v0match[v1match[b]] = b
    BY <1>1 DEF StayingRows
  <1>3. /\ \A a \in Nodes(v0) : v0.weight[a] \in Int
        /\ \A b \in Nodes(v1) : v1.weight[b] \in Int
    BY DEF NopsArePairs, MatchedDocuments, GivenDocuments, IsDocument, IsWeighed
  <1>4. ASSUME NEW a \in S
        PROVE  w[a] \in Int /\ w[a] = v0.weight[a] + v1.weight[v0match[a]]
    <2>1. w[a] = v0.weight[a] + v1.weight[v0match[a]]
      BY DEF StayWeight, PairWeight
    <2>2. v0.weight[a] \in Int /\ v1.weight[v0match[a]] \in Int
      BY <1>2, <1>3
    <2> QED
      BY <2>1, <2>2
  <1>5. \A p \in 1 .. Len(s1) : s1[p].data \in S /\ s1[p].weight = v0.weight[s1[p].data]
    <2>1. ElementsAreNodes(s1, S, SameNumber(S), v0.weight)
      BY <1>1 DEF StayingRows
    <2>2. \A a \in S : SameNumber(S)[a] = a
      BY DEF SameNumber
    <2> HIDE DEF S, s1
    <2> QED
      BY <2>1, <2>2 DEF ElementsAreNodes
  <1>6. \A q \in 1 .. Len(s2) : \E b \in T : s2[q].data = v1match[b] /\ s2[q].weight = v1.weight[b]
    <2>1. ElementsAreNodes(s2, T, v1match, v1.weight)
      BY <1>1 DEF StayingRows
    <2> HIDE DEF T, s2
    <2> QED
      BY <2>1 DEF ElementsAreNodes
  <1>7. ASSUME NEW p \in 1 .. Len(s1), NEW q \in 1 .. Len(s2), s1[p].data = s2[q].data
        PROVE  w[s1[p].data] = s1[p].weight + s2[q].weight
    <2>1. PICK b \in T : s2[q].data = v1match[b] /\ s2[q].weight = v1.weight[b]
      BY <1>6
    <2>2. v0match[s1[p].data] = b
      BY <1>2, <1>7, <2>1
    <2>3. s1[p].data \in S /\ s1[p].weight = v0.weight[s1[p].data]
      BY <1>5
    <2>4. w[s1[p].data] = v0.weight[s1[p].data] + v1.weight[v0match[s1[p].data]]
      <3> HIDE DEF s1, w, S
      <3> QED
        BY <1>4, <2>3
    <2> QED
      BY <2>1, <2>2, <2>3, <2>4
  <1>8. Saves(s1, s2, w)
    <2> HIDE DEF s1, s2, w
    <2> QED
      BY <1>7 DEF Saves
  <1>9. \A a \in S : w[a] = PairWeight(v0, v1, v0match, a)
    BY DEF StayWeight
  <1> QED
    BY <1>4, <1>5, <1>8, <1>9

(* Children in one order in both documents stand so in the two rows. *)
LEMMA OrderedInRows ==
  ASSUME NopsArePairs, NEW i \in Nodes(v0), v0Assigned(i),
         NEW C \in SUBSET StayOld(i), \A c, e \in C : c < e => v0match[c] < v0match[e],
         NEW s1, s1 = OriginalSequence(i), NEW s2, s2 = FinalSequence(i)
  PROVE  SameOrder(s1, s2, Len(s1), Len(s2), C)
PROOF
  <1> DEFINE S == StayOld(i)
             T == StayNew(i)
             id == SameNumber(S)
  <1>1. StayingRows(i)
    BY RowsOfStaying
  <1>2. /\ S \subseteq Int /\ IsRowOf(s1, S, id) /\ IsRowOf(s2, T, v1match)
        /\ \A a \in S : v0match[a] \in T /\ v1match[v0match[a]] = a
    BY <1>1 DEF StayingRows, Nodes
  <1>3. \A a \in S : id[a] = a
    BY DEF SameNumber
  <1> HIDE DEF S, T, id
  <1>4. C \subseteq S
    BY DEF S
  <1>5. ASSUME NEW a \in C
        PROVE  /\ \E p \in 1 .. Len(s1) : s1[p].data = a
               /\ \E q \in 1 .. Len(s2) : s2[q].data = a
    <2>1. \A b \in S : \E k \in 1 .. Len(s1) : s1[k].data = id[b]
      BY <1>2 DEF IsRowOf
    <2>2. \A b \in T : \E k \in 1 .. Len(s2) : s2[k].data = v1match[b]
      BY <1>2 DEF IsRowOf
    <2>3. a \in S /\ id[a] = a
      BY <1>3, <1>4
    <2>4. v0match[a] \in T /\ v1match[v0match[a]] = a
      BY <1>2, <2>3
    <2>5. \E p \in 1 .. Len(s1) : s1[p].data = a
      BY <2>1, <2>3
    <2>6. \E q \in 1 .. Len(s2) : s2[q].data = a
      BY <2>2, <2>4
    <2> QED
      BY <2>5, <2>6
  <1>6. ASSUME NEW p \in 1 .. Len(s1), NEW r \in 1 .. Len(s1),
               NEW q \in 1 .. Len(s2), NEW u \in 1 .. Len(s2),
               s1[p].data \in C, s1[r].data \in C,
               s1[p].data = s2[q].data, s1[r].data = s2[u].data, p < r
        PROVE  q < u
    <2> DEFINE c == s1[p].data
               e == s1[r].data
    <2>1. c \in S /\ e \in S /\ id[c] = c /\ id[e] = e /\ c \in Int /\ e \in Int
      BY <1>2, <1>3, <1>4, <1>6
    <2>2. ~(e < c)
      <3>1. e < c => r < p
        BY <1>2, <2>1 DEF IsRowOf
      <3>2. p \in Int /\ r \in Int
        OBVIOUS
      <3> QED
        BY <1>6, <3>1, <3>2
    <2>3. c # e
      <3>1. c = e => p = r
        BY <1>2 DEF IsRowOf, IsRow
      <3>2. p \in Int /\ r \in Int
        OBVIOUS
      <3> QED
        BY <1>6, <3>1, <3>2
    <2>4. c < e
      BY <2>1, <2>2, <2>3
    <2>5. v0match[c] < v0match[e]
      BY <1>6, <2>4
    <2>6. /\ v0match[c] \in T /\ v0match[e] \in T
          /\ s2[q].data = v1match[v0match[c]] /\ s2[u].data = v1match[v0match[e]]
      BY <1>2, <1>6, <2>1
    <2> QED
      BY <1>2, <2>5, <2>6 DEF IsRowOf
  <1> QED
    BY <1>5, <1>6 DEF SameOrder

(***************************************************************************)
(* ComputeWeakMove: where lcss is used, no other children that could have  *)
(* been left in place weigh more than those that are.                      *)
(***************************************************************************)
LEMMA KeptIsHeaviest ==
  ASSUME NopsArePairs, NEW i \in Nodes(v0), v0Assigned(i), Cardinality(StayOld(i)) < LcssLimit,
         NEW C \in SUBSET StayOld(i), \A c, e \in C : c < e => v0match[c] < v0match[e]
  PROVE  /\ KeptInPlace(i) \in SUBSET StayOld(i)
         /\ PairSum(v0, v1, v0match, C) <= PairSum(v0, v1, v0match, KeptInPlace(i))
PROOF
  <1> DEFINE S == StayOld(i)
             w == StayWeight(i)
             s1 == OriginalSequence(i)
             s2 == FinalSequence(i)
             K == KeptInPlace(i)
  <1>1. /\ IsFiniteSet(S) /\ IsRow(s1, Int) /\ IsRow(s2, Int) /\ Len(s1) = Cardinality(S)
    BY RowsOfStaying DEF StayingRows, IsRowOf
  <1>2. /\ \A a \in S : w[a] \in Int /\ w[a] = PairWeight(v0, v1, v0match, a)
        /\ \A p \in 1 .. Len(s1) : s1[p].data \in S
        /\ Saves(s1, s2, w)
    BY StayWeights
  <1>3. K = Lcss(s1, s2)
    BY <1>1 DEF KeptInPlace
  <1>4. SameOrder(s1, s2, Len(s1), Len(s2), C)
    BY OrderedInRows
  <1>5. C \in SUBSET S
    OBVIOUS
  <1> HIDE DEF S, w, s1, s2, K
  <1>6. PICK f : Sums(w, S, f) /\ \A T \in SUBSET S : PairSum(v0, v1, v0match, T) = f[T]
    BY <1>1, <1>2, PairSumsExist
  <1>7. K \in SUBSET S /\ f[C] <= f[K]
    BY <1>1, <1>2, <1>3, <1>4, <1>5, <1>6, LcssIsHeaviest
  <1>8. PairSum(v0, v1, v0match, C) <= PairSum(v0, v1, v0match, K)
    BY <1>5, <1>6, <1>7
  <1> QED
    BY <1>7, <1>8 DEF K, S

(* HeaviestStay of the documents, the matching and the marks. *)
HeaviestIn(d0, d1, m, event) ==
  \A i \in {p \in Nodes(d0) : m[p] # 0} :
    LET kept == {c \in Children(d0, i) : event[c] \in {"nop", "weakmove"}} IN
    Cardinality(kept) < LcssLimit =>
      \A C \in SUBSET kept :
        (\A c, e \in C : c < e => m[c] < m[e]) =>
          PairSum(d0, d1, m, C) <= PairSum(d0, d1, m, {c \in kept : event[c] = "nop"})

HeaviestKept == pass = "detectUpdate" => HeaviestIn(v0, v1, v0match, v0event)

(* It is the property that is checked. *)
LEMMA HeaviestKeptStays == HeaviestKept => HeaviestStay
PROOF
  BY DEF HeaviestKept, HeaviestIn, HeaviestStay, PairSum

(* What is not marked and what is marked as a weak move, below one node. *)
LEMMA MarksOfStaying ==
  ASSUME ScriptInv, ComputeWeakMove, NEW i \in Nodes(v0), v0Assigned(i),
         NEW kept, kept = {c \in Children(v0, i) : v0event'[c] \in {"nop", "weakmove"}}
  PROVE  /\ kept = StayOld(i)
         /\ KeptInPlace(i) \in SUBSET StayOld(i) =>
              {c \in kept : v0event'[c] = "nop"} = KeptInPlace(i)
PROOF
  <1>1. /\ pass = "computeWeakMove"
        /\ v0event' = [a \in Nodes(v0) |-> IF a \in WeakMoves THEN "weakmove" ELSE v0event[a]]
    BY DEF ComputeWeakMove
  <1>2. MatchedDocuments /\ \A a \in Nodes(v0) : v0event[a] # "weakmove"
    BY <1>1 DEF ScriptInv, WeakMovesAgree, OldMarked, MovesMarked
  <1>3. ASSUME NEW c \in Children(v0, i)
        PROVE  /\ c \in Nodes(v0)
               /\ c \in WeakMoves <=> v0event[c] = "nop" /\ c \notin KeptInPlace(i)
    <2>1. c \in Nodes(v0) /\ v0.parent[c] = i
      BY <1>2, DocumentFacts DEF MatchedDocuments, GivenDocuments
    <2>2. \A p \in Nodes(v0) : c \in Children(v0, p) => p = i
      BY <1>2, <2>1, DocumentFacts DEF MatchedDocuments, GivenDocuments
    <2>3. i \in {p \in Nodes(v0) : v0Assigned(p) /\ Children(v0, p) # {}}
      OBVIOUS
    <2> QED
      BY <2>1, <2>2, <2>3 DEF WeakMoves
  <1>4. ASSUME NEW c \in Children(v0, i)
        PROVE  /\ v0event'[c] \in {"nop", "weakmove"} <=> v0event[c] = "nop"
               /\ v0event'[c] = "nop" <=> v0event[c] = "nop" /\ c \in KeptInPlace(i)
    BY <1>1, <1>2, <1>3
  <1>5. kept = StayOld(i)
    BY <1>4 DEF StayOld
  <1>6. ASSUME KeptInPlace(i) \in SUBSET StayOld(i)
        PROVE  {c \in kept : v0event'[c] = "nop"} = KeptInPlace(i)
    BY <1>4, <1>5, <1>6 DEF StayOld
  <1> QED
    BY <1>5, <1>6

(* So the heaviest children stay when ComputeWeakMove has marked the rest. *)
LEMMA ComputeWeakMoveKeepsHeaviest ==
  ASSUME ScriptInv, ComputeWeakMove
  PROVE  HeaviestIn(v0, v1, v0match, v0event')
PROOF
  <1>1. NopsArePairs
    BY NopsBeforeMoves DEF ComputeWeakMove
  <1>2. SUFFICES ASSUME NEW i \in Nodes(v0), v0match[i] # 0,
                        NEW kept, kept = {c \in Children(v0, i) : v0event'[c] \in {"nop", "weakmove"}},
                        Cardinality(kept) < LcssLimit,
                        NEW C \in SUBSET kept, \A c, e \in C : c < e => v0match[c] < v0match[e]
                 PROVE  PairSum(v0, v1, v0match, C)
                          <= PairSum(v0, v1, v0match, {c \in kept : v0event'[c] = "nop"})
    BY DEF HeaviestIn
  <1>3. v0Assigned(i)
    BY <1>2 DEF v0Assigned
  <1>4. kept = StayOld(i)
    BY <1>2, <1>3, MarksOfStaying
  <1>5. /\ KeptInPlace(i) \in SUBSET StayOld(i)
        /\ PairSum(v0, v1, v0match, C) <= PairSum(v0, v1, v0match, KeptInPlace(i))
    BY <1>1, <1>2, <1>3, <1>4, KeptIsHeaviest
  <1>6. {c \in kept : v0event'[c] = "nop"} = KeptInPlace(i)
    BY <1>2, <1>3, <1>5, MarksOfStaying
  <1> QED
    BY <1>5, <1>6

(***************************************************************************)
(* For all documents and all matchings that match the roots, of the        *)
(* children a matched node keeps, no set that is in one order in both      *)
(* documents weighs more than those that are not moved: lcss finds an      *)
(* optimum, wherever it is used.                                           *)
(***************************************************************************)
THEOREM HeaviestChildrenStay == Spec => [](RootsMatch => HeaviestStay)
PROOF
  <1>1. Init => (RootsMatch => HeaviestKept)
    BY DEF Init, ScriptInit, HeaviestKept
  <1>2. (RootsMatch => ScriptInv) /\ (RootsMatch => HeaviestKept) /\ [Next]_vars
          => (RootsMatch => HeaviestKept)'
    <2> SUFFICES ASSUME RootsMatch => ScriptInv, RootsMatch => HeaviestKept, [Next]_vars,
                        RootsMatch', pass' = "detectUpdate"
                 PROVE  HeaviestIn(v0', v1', v0match', v0event')
      BY DEF HeaviestKept
    <2>0. ScriptInv /\ HeaviestKept
      BY RootsStay
    <2>1. CASE ScriptNext
      <3>1. ComputeWeakMove
        BY <2>1 DEF ScriptNext, MarkOldTree, MarkNewTree, DetectUpdate, AddAttributeOperations,
                    ConstructDeleteScript, ConstructInsertScript, AddRenameRoot
      <3>2. v0' = v0 /\ v1' = v1 /\ v0match' = v0match
        BY <3>1 DEF ComputeWeakMove, matched
      <3> QED
        BY <2>0, <3>1, <3>2, ComputeWeakMoveKeepsHeaviest
    <2>2. CASE UNCHANGED scriptVars
      <3>1. v0' = v0 /\ v1' = v1 /\ v0match' = v0match /\ v0event' = v0event /\ pass' = pass
        BY <2>2 DEF scriptVars
      <3> QED
        BY <2>0, <3>1 DEF HeaviestKept
    <2> QED
      BY <2>1, <2>2 DEF Next, ReadDelta, vars
  <1>3. (RootsMatch => HeaviestKept) => (RootsMatch => HeaviestStay)
    BY HeaviestKeptStays
  <1> QED
    BY <1>1, <1>2, <1>3, ScriptInvariance, PTL DEF Spec
===============================================================================
