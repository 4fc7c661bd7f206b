------------------------------- MODULE XidMap -------------------------------
(***************************************************************************)
(* XID_map and XidMap_Parser for a document that is a root with childless  *)
(* children: how XIDs are written to a .xidmap file, read back, registered *)
(* and allocated, and what a diff and its delta do to them.                *)
(*                                                                         *)
(* A document in memory is [labels, xids, first]: the set of its root's    *)
(* children, each known by its label and in the order of the labels; the   *)
(* XIDs in postfix order, the root's at the end; firstAvailableXID.        *)
(***************************************************************************)
EXTENDS Integers, Sequences, SequencesExt, FiniteSets, FiniteSetsExt, Functions

(* The numbers of a finite set, from the lowest to the highest. *)
InOrder(S) ==
  [k \in 1 .. Cardinality(S) |-> CHOOSE m \in S : Cardinality({l \in S : l <= m}) = k]

RootXid(d) == Last(d.xids)

(* The place of a child among the children, and its XID. *)
PlaceOf(d, l) == Cardinality({m \in d.labels : m <= l})

XidOf(d, l) == d.xids[PlaceOf(d, l)]

XidsIn(d) == Range(d.xids)

(* Numbers from 0 on, which the parser takes for a missing XID. *)
XidsFromZero(labels) ==
  LET n == Cardinality(labels) + 1
  IN [labels |-> labels, xids |-> [k \in 1 .. n |-> k - 1], first |-> n]

(* The default XIDs (1-n|n+1) of a document with n nodes. *)
DefaultXids(labels) ==
  LET n == Cardinality(labels) + 1
  IN [labels |-> labels, xids |-> [k \in 1 .. n |-> k], first |-> n + 1]

-----------------------------------------------------------------------------
(* The first and the last of every run of consecutive XIDs. *)
Runs(xids) ==
  LET Starts == {k \in DOMAIN xids : k = 1 \/ xids[k] # xids[k - 1] + 1}
      order  == InOrder(Starts)
      End(n) == IF n = Len(order) THEN Len(xids) ELSE order[n + 1] - 1
  IN [n \in DOMAIN order |-> <<xids[order[n]], xids[End(n)]>>]

(* Only the XIDs in use are written. *)
StringOfXidsInUse(d) == [ranges |-> Runs(d.xids), first |-> Max(XidsIn(d)) + 1]

(* StringFromList: the runs, and the first available XID. *)
StringFromList(d) == [ranges |-> Runs(d.xids), first |-> d.first]

(* XidMap_Parser: every run in full. *)
XidList(string) ==
  LET Run(r)  == [k \in 1 .. (r[2] - r[1] + 1) |-> r[1] + k - 1]
      upTo[n \in 0 .. Len(string.ranges)] ==
        IF n = 0 THEN <<>> ELSE upTo[n - 1] \o Run(string.ranges[n])
  IN upTo[Len(string.ranges)]

(***************************************************************************)
(* registerSubtree: the nodes take the XIDs of the list in postfix order.  *)
(* An XID too many throws; when there is one too few, getNextXID prints    *)
(* its message to a pointer it has not set.                                *)
(***************************************************************************)
Registering(string, labels) ==
  LET given == Len(XidList(string)) IN
  IF given < Cardinality(labels) + 1 THEN "undefined"
  ELSE IF given > Cardinality(labels) + 1 THEN "exception"
  ELSE "ok"

Registered(string, labels) ==
  [labels |-> labels,
   xids   |-> XidList(string),
   first  |-> Max({string.first} \cup {x + 1 : x \in Range(XidList(string))})]

-----------------------------------------------------------------------------
(***************************************************************************)
(* MarkNewTree for a second document: a child with the label of an old one *)
(* is its match and has its XID, a new child the next XID of the old map.  *)
(***************************************************************************)
SecondVersion(d, labels) ==
  LET new    == labels \ d.labels
      Xid(l) == IF l \in d.labels THEN XidOf(d, l)
                ELSE d.first + Cardinality({m \in new : m < l})
      order  == InOrder(labels)
  IN [labels |-> labels,
      xids   |-> Append([k \in DOMAIN order |-> Xid(order[k])], RootXid(d)),
      first  |-> d.first + Cardinality(new)]

(* The delta from d to e: what goes, what comes and where, below which root. *)
DeltaBetween(d, e) ==
  LET new == InOrder(e.labels \ d.labels) IN
  [par  |-> RootXid(d),
   gone |-> XidsIn(d) \ XidsIn(e),
   new  |-> [k \in DOMAIN new |->
               [xid |-> XidOf(e, new[k]), label |-> new[k], pos |-> PlaceOf(e, new[k])]]]

(***************************************************************************)
(* DeltaApplyEngine on a document that may be another version than the one *)
(* the delta was computed from: nothing checks it.                         *)
(***************************************************************************)
RootLost(d, delta) == RootXid(d) \in delta.gone

(* The children that no delete operation is about, with their XIDs. *)
Spared(d, delta) ==
  LET order == InOrder({l \in d.labels : XidOf(d, l) \notin delta.gone})
  IN [k \in DOMAIN order |-> [xid |-> XidOf(d, order[k]), label |-> order[k]]]

(* Subtree_Insert of the first n new nodes, below the root. *)
Inserted(d, delta) ==
  LET after[n \in 0 .. Len(delta.new)] ==
        IF n = 0 THEN Spared(d, delta)
        ELSE IF delta.new[n].pos > Len(after[n - 1]) + 1 THEN <<>>
        ELSE InsertAt(after[n - 1], delta.new[n].pos,
                      [xid |-> delta.new[n].xid, label |-> delta.new[n].label])
  IN after[Len(delta.new)]

(* A position past the end, or an XID that is taken. *)
InsertFails(d, delta) ==
  LET spared == {Spared(d, delta)[k].xid : k \in DOMAIN Spared(d, delta)} IN
  \E n \in DOMAIN delta.new :
    \/ delta.new[n].pos > Len(Spared(d, delta)) + n
    \/ delta.new[n].xid \in spared \cup {RootXid(d)}

(***************************************************************************)
(* "rootless" is a document without a root, for which String throws.  A    *)
(* delta whose parent is a leaf of the document, or which puts a label     *)
(* twice or out of order, leads beyond the documents modelled here.        *)
(***************************************************************************)
Applying(d, delta) ==
  LET kids == Inserted(d, delta) IN
  CASE delta.new # <<>> /\ delta.par \notin XidsIn(d) \ delta.gone -> "exception"
    [] delta.new # <<>> /\ delta.par # RootXid(d) -> "beyond"
    [] RootLost(d, delta) -> "rootless"
    [] InsertFails(d, delta) -> "exception"
    [] OTHER -> IF \A k \in 1 .. (Len(kids) - 1) : kids[k].label < kids[k + 1].label
                THEN "ok" ELSE "beyond"

(* registerNode leaves firstAvailableXID where it was. *)
FirstUnmoved(d, xids) == d.first

(* registerNode moves firstAvailableXID past an XID it registers. *)
FirstPast(d, xids) == Max({d.first} \cup {x + 1 : x \in xids})

Applied(d, delta) ==
  LET kids == Inserted(d, delta)
      xids == {kids[k].xid : k \in DOMAIN kids}
  IN [labels |-> {kids[k].label : k \in DOMAIN kids},
      xids   |-> Append([k \in DOMAIN kids |-> kids[k].xid], RootXid(d)),
      first  |-> FirstPast(d, xids)]
=============================================================================
