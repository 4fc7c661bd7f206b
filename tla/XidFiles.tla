------------------------------- MODULE XidFiles -------------------------------
(***************************************************************************)
(* The file interface: calls of XyDelta::XyDiff, ApplyDelta, XyLoadAndDiff *)
(* and SpinProject::RunDiff on documents, the .xidmap files beside them    *)
(* and one delta file, each call a sequence of writes to the disk that may *)
(* be cut short by a crash.                                                *)
(*                                                                         *)
(* Writing a file is two steps: it is opened, which empties it, and then   *)
(* has its content.  What a call reads it reads before its first write or  *)
(* from a file it has written itself, so the writes are settled when the   *)
(* call begins.                                                            *)
(***************************************************************************)
EXTENDS XidMap

CONSTANTS
  File,         \* names of documents
  Label,        \* labels of children, numbers for their order
  None,         \* no document, no version
  VersionFile,  \* what DeltaManager writes for a new document
  MaxCalls, MaxCrashes, MaxEdits   \* bounds

ASSUME FilesAssumption ==
  /\ Label \subseteq Nat
  /\ None \notin [labels : SUBSET Label, xids : Seq(Nat), first : Nat]
  /\ VersionFile \notin [par : Nat, gone : SUBSET Nat,
                         new : Seq([xid : Nat, label : Label, pos : Nat])]
  /\ {MaxCalls, MaxCrashes, MaxEdits} \subseteq Nat

VARIABLES
  disk,      \* path -> file
  agenda,    \* what the running call has still to do, the head is under way
  plan,      \* the writes the head has still to do, and how it ends
  dontSaveXidmap,   \* _XyDiff_DontSaveXidmapToFile of the process
  names,     \* history: for each file, what the XIDs of its map have ever named
  versions,  \* history: the versions the delta file was computed from
  stale,     \* history: files written since their map was
  before,    \* history: the disk when the call began
  calls, crashes, edits   \* bounded counters

vars == <<disk, agenda, plan, dontSaveXidmap, names, versions, stale,
          before, calls, crashes, edits>>

Xml(f) == <<"xml", f>>
Map(f) == <<"xidmap", f>>
Delta == <<"delta">>

Paths == ({"xml", "xidmap"} \X File) \cup {Delta}

(* No such file; one opened for writing and not written yet; one with a content. *)
Absent == [state |-> "absent"]
Empty == [state |-> "empty"]
Holding(content) == [state |-> "written", content |-> content]

Readable(path) == disk[path].state = "written"

(* What the files hold that can be read. *)
Labels(f) == disk[Xml(f)].content
MapString(f) == disk[Map(f)].content
DeltaRead == disk[Delta].content

(* What a document can hold: children, finitely many. *)
Children == {labels \in SUBSET Label : IsFiniteSet(labels)}

Nothing == [writes |-> <<>>, ends |-> "ok", source |-> None]

Resting == agenda = <<>>

Init ==
  /\ disk \in [Paths -> {Absent} \cup {Holding(labels) : labels \in Children}]
  /\ \A p \in Paths : p[1] # "xml" => disk[p] = Absent
  /\ agenda = <<>> /\ plan = Nothing
  /\ dontSaveXidmap = FALSE
  /\ names = [f \in File |-> <<>>]
  /\ versions = None
  /\ stale = {}
  /\ before = None
  /\ calls = 0 /\ crashes = 0 /\ edits = 0

-----------------------------------------------------------------------------
(* The writes.  knows is what the history variables take from one. *)
Write(path, file, knows) == [path |-> path, file |-> file, knows |-> knows]

Naming(d) == [x \in XidsIn(d) |->
  IF x = RootXid(d) THEN 0 ELSE CHOOSE l \in d.labels : XidOf(d, l) = x]

(* What was known, and what the XIDs name that were not. *)
Learnt(known, d) ==
  [x \in DOMAIN known \cup XidsIn(d) |->
     IF x \in DOMAIN known THEN known[x] ELSE Naming(d)[x]]

WriteMap(f, d, known) ==
  <<Write(Map(f), Empty, <<>>),
    Write(Map(f), Holding(StringFromList(d)), Learnt(known, d))>>

(***************************************************************************)
(* XID_DOMDocument(xmlfile, true): a document without a map gets one.  An  *)
(* unreadable document is a NULL pointer that is used at once: the         *)
(* parser's exception has been swallowed.                                  *)
(***************************************************************************)
Load(f) ==
  IF ~Readable(Xml(f)) THEN [Nothing EXCEPT !.ends = "undefined"]
  ELSE LET d == DefaultXids(Labels(f)) IN
  CASE disk[Map(f)] = Absent -> [Nothing EXCEPT !.source = d, !.writes = WriteMap(f, d, <<>>)]
    [] disk[Map(f)] = Empty  -> [Nothing EXCEPT !.ends = "exception"]
    [] OTHER -> [Nothing EXCEPT !.ends = Registering(MapString(f), Labels(f)),
                                !.source = Registered(MapString(f), Labels(f))]

(* What the XIDs of f have named before; a new map or a stale one starts anew. *)
Known(f) == IF disk[Map(f)] = Absent \/ f \in stale THEN <<>> ELSE names[f]

RemoveOldMap(f, created) ==
  IF disk[Map(f)] = Absent /\ ~created THEN <<>> ELSE <<Write(Map(f), Absent, <<>>)>>

(* The map is opened, whether it is to be saved or not. *)
OpenXidMapAnyway(f, d, known) ==
  IF dontSaveXidmap THEN <<Write(Map(f), Empty, <<>>)>> ELSE WriteMap(f, d, known)

SaveResultingXidMap(f, d, known) ==
  IF dontSaveXidmap THEN <<>> ELSE WriteMap(f, d, known)

WriteDelta(d, e) ==
  <<Write(Delta, Empty, None),
    Write(Delta, Holding(DeltaBetween(d, e)), [from |-> d, to |-> e])>>

(* The map of the second document is left for the end. *)
MapAfterDelta(f, d, e, known) == WriteDelta(d, e) \o SaveResultingXidMap(f, e, known)

(* constructDeltaDocument saves the map, then XyDiff writes the delta. *)
MapThenDelta(f, d, e, known) == SaveResultingXidMap(f, e, known) \o WriteDelta(d, e)

(* XyDiff *)
Diff(f0, f1) ==
  LET first   == Load(f0)
      removes == first.writes \o RemoveOldMap(f1, f0 = f1)
      second  == SecondVersion(first.source, Labels(f1))
  IN IF first.ends # "ok" THEN first
     ELSE IF ~Readable(Xml(f1)) THEN [first EXCEPT !.writes = removes, !.ends = "undefined"]
     ELSE [first EXCEPT !.writes =
             removes \o MapThenDelta(f1, first.source, second,
                                     Learnt(Known(f0), first.source))]

(* The map goes to the disk before the old document does. *)
SaveMapFirst(f, d, known) ==
  WriteMap(f, d, known)
    \o <<Write(Xml(f), Empty, <<>>), Write(Xml(f), Holding(d.labels), <<>>)>>

(* SaveAs(name, true): the document is opened, the map saved, the document written. *)
SaveAs(f, d, known) ==
  <<Write(Xml(f), Empty, <<>>)>> \o WriteMap(f, d, known)
    \o <<Write(Xml(f), Holding(d.labels), <<>>)>>

(* SaveAs(name, false) *)
SaveWithoutMap(f, d) ==
  <<Write(Xml(f), Empty, <<>>), Write(Xml(f), Holding(d.labels), <<>>)>>

(* String throws when both files have been opened. *)
SaveRootless(f) == <<Write(Xml(f), Empty, <<>>), Write(Map(f), Empty, <<>>)>>

(* The destination is opened before the delta is applied. *)
FailWithDestinationOpen(first, f, how) ==
  [first EXCEPT !.writes = Append(@, Write(Xml(f), Empty, <<>>)), !.ends = how]

(* The delta is applied in memory: a failure leaves the destination alone. *)
FailInMemory(first, f, how) == [first EXCEPT !.ends = how]

(***************************************************************************)
(* ApplyDelta(delta, source, destination).  A delta that cannot be parsed  *)
(* is noticed after the source has been loaded; a delta file that holds no *)
(* t element throws.  A delta applied to another version than its own      *)
(* starts a history of its own.                                            *)
(***************************************************************************)
Apply(f0, f1) ==
  LET first == Load(f0)
      delta == DeltaRead
      how   == Applying(first.source, delta)
      d     == Applied(first.source, delta)
      known == IF first.source = versions.from THEN Learnt(Known(f0), first.source) ELSE <<>>
  IN IF first.ends # "ok" THEN first
     ELSE IF ~Readable(Delta) THEN FailInMemory(first, f1, "undefined")
     ELSE IF delta = VersionFile THEN FailInMemory(first, f1, "exception")
     ELSE IF how = "ok"
     THEN [first EXCEPT !.writes = @ \o SaveAs(f1, d, known)]
     ELSE IF how = "rootless"
     THEN [first EXCEPT !.writes = @ \o SaveRootless(f1), !.ends = "rootless"]
     ELSE FailInMemory(first, f1, how)

(***************************************************************************)
(* ApplyDelta with the names in the from and to attributes of the delta.   *)
(* constructDeltaDocument writes neither, and DeltaManager no t element.   *)
(***************************************************************************)
ApplyDefault ==
  [Nothing EXCEPT !.ends = IF Readable(Delta) THEN "exception" ELSE "undefined"]

(***************************************************************************)
(* XyLoadAndDiff: a new delta file, or DeltaManager reads the one there    *)
(* is, and throws for every file it can parse.                             *)
(***************************************************************************)
LoadAndDiff ==
  CASE disk[Delta] = Absent ->
         [Nothing EXCEPT !.writes = <<Write(Delta, Empty, None),
                                      Write(Delta, Holding(VersionFile), None)>>]
    [] disk[Delta] = Empty -> [Nothing EXCEPT !.ends = "undefined"]
    [] OTHER -> [Nothing EXCEPT !.ends = "exception"]

(* ApplyDelta(delta, backwardNumber) reads the delta file the same way. *)
Retrieve ==
  [Nothing EXCEPT !.ends = IF disk[Delta] = Empty THEN "undefined" ELSE "exception"]

(* RunDiff's second half: a document tagged with its XIDs, saved without its map. *)
Tag(f0, f1) ==
  LET first == Load(f0)
  IN IF first.ends # "ok" THEN first
     ELSE [first EXCEPT !.writes = @ \o SaveWithoutMap(f1, first.source)]

-----------------------------------------------------------------------------
Item(op, f0, f1) == [op |-> op, f0 |-> f0, f1 |-> f1]

Planned(item) ==
  CASE item.op = "diff"         -> Diff(item.f0, item.f1)
    [] item.op = "apply"        -> Apply(item.f0, item.f1)
    [] item.op = "applyDefault" -> ApplyDefault
    [] item.op = "load"         -> LoadAndDiff
    [] item.op = "retrieve"     -> Retrieve
    [] item.op = "tag"          -> Tag(item.f0, item.f1)

(* The head of the agenda is begun: what it reads and what it will write. *)
Begin(items) ==
  /\ Planned(Head(items)).ends # "beyond"
  /\ agenda' = items
  /\ plan' = Planned(Head(items))

(* A call for cost of the MaxCalls calls of a behaviour. *)
Call(items, cost) ==
  /\ Resting /\ calls + cost <= MaxCalls
  /\ calls' = calls + cost
  /\ Begin(items)
  /\ before' = disk
  /\ UNCHANGED <<disk, dontSaveXidmap, names, versions, stale, crashes, edits>>

CallXyDiff == \E f0, f1 \in File : Call(<<Item("diff", f0, f1)>>, 1)

CallApplyDelta == \E f0, f1 \in File : Call(<<Item("apply", f0, f1)>>, 1)

CallApplyDefault == Call(<<Item("applyDefault", None, None)>>, 1)

CallXyLoadAndDiff == Call(<<Item("load", None, None)>>, 1)

CallRetrieve == Call(<<Item("retrieve", None, None)>>, 1)

CallRunDiff ==
  \E f0, f1, s0, s1 \in File :
    Call(<<Item("diff", f0, f1), Item("tag", f0, s0), Item("tag", f1, s1)>>, 2)

(***************************************************************************)
(* XyDOMDelta::createDelta in the same process: it works in memory, but    *)
(* sets the flag, and nothing ever clears it.                              *)
(***************************************************************************)
CreateDelta ==
  /\ Resting /\ ~dontSaveXidmap
  /\ dontSaveXidmap' = TRUE
  /\ UNCHANGED <<disk, agenda, plan, names, versions, stale, before,
                 calls, crashes, edits>>

(* One write of the call under way. *)
WriteNext ==
  /\ plan.writes # <<>>
  /\ LET w == Head(plan.writes) IN
     /\ disk' = [disk EXCEPT ![w.path] = w.file]
     /\ names' = IF w.path[1] = "xidmap" THEN [names EXCEPT ![w.path[2]] = w.knows] ELSE names
     /\ versions' = IF w.path = Delta THEN w.knows ELSE versions
     /\ stale' = CASE w.path[1] = "xidmap" -> stale \ {w.path[2]}
                   [] w.path[1] = "xml" /\ Head(agenda).op = "tag" -> stale \cup {w.path[2]}
                   [] OTHER -> stale
  /\ plan' = [plan EXCEPT !.writes = Tail(@)]
  /\ UNCHANGED <<agenda, dontSaveXidmap, before, calls, crashes, edits>>

(* The head of the agenda is done and the next begun, or the call returns. *)
Finished == ~Resting /\ plan.writes = <<>>

Continue ==
  /\ Finished /\ plan.ends = "ok" /\ Len(agenda) > 1
  /\ Begin(Tail(agenda))
  /\ UNCHANGED <<disk, dontSaveXidmap, names, versions, stale, before,
                 calls, crashes, edits>>

AtRest ==
  /\ agenda' = <<>> /\ plan' = Nothing /\ before' = None

(* A NULL pointer ends the process; an exception ends it if nobody catches it. *)
Return ==
  /\ Finished /\ (plan.ends # "ok" \/ Len(agenda) = 1)
  /\ AtRest
  /\ dontSaveXidmap' = (dontSaveXidmap /\ plan.ends # "undefined")
  /\ UNCHANGED <<disk, names, versions, stale, calls, crashes, edits>>

(* The process is over: killed within a call, or at the end of its work. *)
Crash ==
  /\ ~Resting /\ crashes < MaxCrashes
  /\ crashes' = crashes + 1
  /\ AtRest
  /\ dontSaveXidmap' = FALSE
  /\ UNCHANGED <<disk, names, versions, stale, calls, edits>>

Exit ==
  /\ Resting /\ dontSaveXidmap
  /\ dontSaveXidmap' = FALSE
  /\ UNCHANGED <<disk, agenda, plan, names, versions, stale, before,
                 calls, crashes, edits>>

(* The user writes a document between two calls; its map stays as it is. *)
Edit ==
  /\ Resting /\ edits < MaxEdits
  /\ edits' = edits + 1
  /\ \E f \in File, labels \in Children :
       /\ Holding(labels) # disk[Xml(f)]
       /\ disk' = [disk EXCEPT ![Xml(f)] = Holding(labels)]
       /\ stale' = stale \cup {f}
  /\ UNCHANGED <<agenda, plan, dontSaveXidmap, names, versions, before,
                 calls, crashes>>

Next ==
  \/ CallXyDiff \/ CallApplyDelta \/ CallApplyDefault
  \/ CallXyLoadAndDiff \/ CallRetrieve \/ CallRunDiff
  \/ CreateDelta
  \/ WriteNext \/ Continue \/ Return
  \/ Crash \/ Exit \/ Edit

Spec == Init /\ [][Next]_vars

-----------------------------------------------------------------------------
Contents(path) ==
  CASE path[1] = "xml" -> Children
    [] path[1] = "xidmap" ->
         [ranges : Seq({r \in Nat \X Nat : 0 < r[1] /\ r[1] <= r[2]}), first : Nat]
    [] path = Delta ->
         {VersionFile}
           \cup [par : Nat, gone : SUBSET Nat,
                 new : Seq([xid : Nat, label : Label, pos : Nat])]

Files(path) == {Absent, Empty} \cup [state : {"written"}, content : Contents(path)]

TypeOK ==
  /\ DOMAIN disk = Paths /\ \A p \in Paths : disk[p] \in Files(p)
  /\ plan.ends \in {"ok", "exception", "undefined", "rootless"}
  /\ \A k \in DOMAIN plan.writes : plan.writes[k].file \in Files(plan.writes[k].path)
  /\ stale \subseteq File
  /\ calls <= MaxCalls /\ crashes <= MaxCrashes /\ edits <= MaxEdits

(***************************************************************************)
(* A document that can be read beside a map that can be read is the one    *)
(* the map was made for, whatever calls were cut short where: it has as    *)
(* many nodes, and every XID is that of the node it has always named.      *)
(* Documents written without their map since are left out.                 *)
(***************************************************************************)
MapBelongsToDocument ==
  \A f \in File :
    Readable(Xml(f)) /\ Readable(Map(f)) /\ f \notin stale =>
      /\ Registering(MapString(f), Labels(f)) = "ok"
      /\ LET d == Registered(MapString(f), Labels(f))
         IN \A x \in XidsIn(d) : names[f][x] = Naming(d)[x]

(***************************************************************************)
(* The XID of a node that is gone never names another one: all XIDs a map  *)
(* or its predecessors have ever used are below its first available XID.   *)
(***************************************************************************)
DeadXidsStayDead ==
  \A f \in File : Readable(Map(f)) => \A x \in DOMAIN names[f] : x < MapString(f).first

(***************************************************************************)
(* ApplyDelta on the first version, with the XIDs the delta was computed   *)
(* from, always succeeds and leaves the second version beside the map that *)
(* xydiff saved for it.                                                    *)
(***************************************************************************)
ApplyRebuilds ==
  [][Finished /\ Head(agenda).op = "apply" /\ Readable(Delta) /\ versions # None =>
       LET f == Head(agenda).f1 IN
       plan.source = versions.from =>
         /\ plan.ends = "ok"
         /\ disk[Xml(f)] = Holding(versions.to.labels)
         /\ disk[Map(f)] = Holding(StringFromList(versions.to))]_vars

(***************************************************************************)
(* Whoever finds a complete delta finds the map of the second document as  *)
(* well, unless the process has been told not to save it: the delta is     *)
(* the last thing XyDiff writes.                                           *)
(***************************************************************************)
DeltaAfterMap ==
  [][plan.writes # <<>> /\ versions' # None /\ versions' # versions =>
       \/ dontSaveXidmap
       \/ disk[Map(Head(agenda).f1)] = Holding(StringFromList(versions'.to))]_vars

(***************************************************************************)
(* A call that fails leaves every document and the delta as they were; it  *)
(* may have made or removed maps.  RunDiff may fail half way, and a delta  *)
(* that takes away the root is only noticed when the result is saved.      *)
(***************************************************************************)
FailureLeavesDocuments ==
  [][Finished /\ plan.ends \in {"exception", "undefined"} /\ Head(agenda).op # "tag" =>
       \A p \in Paths : p[1] # "xidmap" => disk[p] = before[p]]_vars

(***************************************************************************)
(* Half-written files come from crashes, and from a result without a root, *)
(* alone: a call that runs to its end completes every file it opens.       *)
(***************************************************************************)
OpenedFilesAreWritten ==
  [][Finished /\ plan.ends # "rootless" =>
       \A p \in Paths : disk[p] = Empty => before[p] = Empty]_vars
===============================================================================
